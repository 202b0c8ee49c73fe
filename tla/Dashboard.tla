----------------------------- MODULE Dashboard -----------------------------
(***************************************************************************)
(* How the web dashboard (the script in api/dashboard.py) follows a scan:  *)
(* selectScan, renderDetail, loadPage, refreshScans and the polling        *)
(* interval.  Every handler is an async function that is suspended at each *)
(* await api(...), so handlers of several clicks interleave; they share    *)
(* the script's variables current and timer, and answers come in any       *)
(* order.  The server appears as the set of scans that have finished.      *)
(* What refreshScans draws, the list, is read by nothing here: it counts   *)
(* as the await it is in selectScan, and is left out of a tick.            *)
(***************************************************************************)
EXTENDS Naturals

CONSTANTS
    Scans,      \* the scans in the list
    Broken,     \* those that will end as failed, the others end as done
    None,       \* no scan
    MaxEvents   \* bound on selections and failing fetches together

ASSUME ConstantsAssumption ==
    /\ None \notin Scans /\ Broken \subseteq Scans
    /\ MaxEvents \in Nat

VARIABLES
    finished,   \* scans the server reports as done or failed
    current, timer,     \* the script's variables; 0 is no interval
    clicked,    \* the scan of each selectScan call so far
    intervals,  \* the intervals that are ticking, named by their call
    task,       \* the suspended handlers of each selectScan call
    detail,     \* the detail pane: whose head, whether finished, whose page
    events,     \* clicks and failing fetches so far, for the bound
    hasty,      \* history: the calls of selectScan that ran at the same time
                \* as another one
    calm,       \* history: no rendering was under way at the last click
    dropped     \* history: an exception has ended a rendering since then

history == <<hasty, calm, dropped>>
vars == <<finished, current, timer, clicked, intervals, task, detail,
          events, history>>

Clicks == 1..MaxEvents

(* Each call of selectScan has its own handler and those of its interval.   *)
Kinds == {"select", "tick", "render", "page"}
Fetches == {"head", "docs", "list", "job", "tick", "page"}

(* at: the fetch a handler awaits; of: the scan in its URL; over: whether   *)
(* that scan was over already when it was asked about.                      *)
Task == [at: Fetches, of: Scans \cup {None}, over: BOOLEAN]
NoTask == [at |-> "none", of |-> None, over |-> FALSE]
Fetch(at, s) == [at |-> at, of |-> s, over |-> s \in finished]

Detail == [head: Scans \cup {None}, finished: BOOLEAN, page: Scans \cup {None}]

(* The types, and that the script never takes a scan for over that is not.  *)
TypeOK ==
    /\ finished \subseteq Scans
    /\ current \in Scans \cup {None}
    /\ timer \in Clicks \cup {0}
    /\ clicked \in [Clicks -> Scans \cup {None}]
    /\ intervals \subseteq Clicks
    /\ task \in [Clicks -> [Kinds -> Task \cup {NoTask}]]
    /\ detail \in Detail /\ (detail.finished => detail.head \in finished)
    /\ events \in 0..MaxEvents
    /\ hasty \subseteq Clicks /\ calm \in BOOLEAN /\ dropped \in BOOLEAN

Init ==
    /\ finished = {}
    /\ current = None
    /\ timer = 0
    /\ clicked = [k \in Clicks |-> None]
    /\ intervals = {}
    /\ task = [k \in Clicks |-> [h \in Kinds |-> NoTask]]
    /\ detail = [head |-> None, finished |-> FALSE, page |-> None]
    /\ events = 0
    /\ hasty = {} /\ calm = TRUE /\ dropped = FALSE

Active(k, h) == task[k][h] # NoTask

(* renderDetail and loadPage, wherever they are suspended.                   *)
Rendering == \E k \in Clicks, h \in Kinds : task[k][h].at \in {"head", "docs", "page"}

(* The server has looked at the scan at some time since it was asked.       *)
Answers(k, h) == {task[k][h].over, task[k][h].of \in finished}

-----------------------------------------------------------------------------
(* The server *)

Finish(s) ==
    /\ s \notin finished
    /\ finished' = finished \cup {s}
    /\ UNCHANGED <<current, timer, clicked, intervals, task, detail, events, history>>

(* api() throws and nobody catches: the handler ends where it is.           *)
FetchFails(k, h) ==
    /\ Active(k, h)
    /\ events < MaxEvents /\ events' = events + 1
    /\ dropped' = (dropped \/ h \in {"select", "render", "page"})
    /\ task' = [task EXCEPT ![k][h] = NoTask]
    /\ UNCHANGED <<finished, current, timer, clicked, intervals, detail, hasty, calm>>

-----------------------------------------------------------------------------
(* A click finds the handlers of the clicks before it wherever they are;    *)
(* nothing makes the user wait for them.                                    *)
Met == {j \in Clicks : Active(j, "select")}
Remember(k) ==
    /\ hasty' = hasty \cup Met \cup (IF Met = {} THEN {} ELSE {k})
    /\ calm' = ~Rendering
    /\ dropped' = FALSE

(* Mutant: the interval of the scan selected before goes on.                *)
ClickOnly(k, s) ==
    /\ clicked[k] = None /\ \A j \in Clicks : j < k => clicked[j] # None
    /\ events < MaxEvents /\ events' = events + 1
    /\ clicked' = [clicked EXCEPT ![k] = s]
    /\ current' = s
    /\ task' = [task EXCEPT ![k]["select"] = Fetch("head", s)]
    /\ Remember(k)
    /\ UNCHANGED <<finished, timer, intervals, detail>>

(* selectScan: clearInterval(timer) does not reset timer.                   *)
Click(k, s) ==
    /\ clicked[k] = None /\ \A j \in Clicks : j < k => clicked[j] # None
    /\ events < MaxEvents /\ events' = events + 1
    /\ clicked' = [clicked EXCEPT ![k] = s]
    /\ current' = s
    /\ intervals' = intervals \ {timer}
    /\ task' = [task EXCEPT ![k]["select"] = Fetch("head", s)]
    /\ Remember(k)
    /\ UNCHANGED <<finished, timer, detail>>

(* Where renderDetail returns to: selectScan goes on to refreshScans.       *)
Return(h) == IF h = "select" THEN Fetch("list", None) ELSE NoTask

(* Mutant: the page shown before stays under the new head.                  *)
HeadOnly(k, h) ==
    /\ task[k][h].at = "head"
    /\ LET shown == task[k][h].of
       IN  \E over \in Answers(k, h) :
           /\ detail' = [detail EXCEPT !.head = shown, !.finished = over]
           /\ task' = [task EXCEPT ![k][h] =
                         IF over /\ shown \notin Broken
                         THEN Fetch("docs", current) ELSE Return(h)]
    /\ UNCHANGED <<finished, current, timer, clicked, intervals, events, history>>

(* Mutant: the summary is drawn without a look at the status.               *)
HeadUnchecked(k, h) ==
    /\ task[k][h].at = "head"
    /\ LET shown == task[k][h].of
       IN  /\ detail' = [head |-> shown, finished |-> TRUE, page |-> None]
           /\ task' = [task EXCEPT ![k][h] = Fetch("docs", current)]
    /\ UNCHANGED <<finished, current, timer, clicked, intervals, events, history>>

(* renderDetail has the job: it replaces the pane, and goes on to the pages *)
(* of whatever scan is current by then if the job is done.                  *)
Head(k, h) ==
    /\ task[k][h].at = "head"
    /\ LET shown == task[k][h].of
       IN  \E over \in Answers(k, h) :
           /\ detail' = [head |-> shown, finished |-> over, page |-> None]
           /\ task' = [task EXCEPT ![k][h] =
                         IF over /\ shown \notin Broken
                         THEN Fetch("docs", current) ELSE Return(h)]
    /\ UNCHANGED <<finished, current, timer, clicked, intervals, events, history>>

(* The pane has room for tabs and a page only while it shows a done scan.   *)
HasTabs == detail.finished /\ detail.head \notin Broken

(* The server serves pages of done scans only (else it answers 409).        *)
Serves(k, h) == task[k][h].of \notin Broken /\ TRUE \in Answers(k, h)
Refuses(k, h) == task[k][h].of \in Broken \/ FALSE \in Answers(k, h)

(* renderDetail gets the pages and starts loadPage without awaiting it; or  *)
(* it throws, and selectScan with it.                                       *)
Docs(k, h) ==
    /\ task[k][h].at = "docs"
    /\ \/ /\ Serves(k, h) /\ HasTabs
          /\ task' = [task EXCEPT ![k][h] = Return(h),
                                  ![k]["page"] = Fetch("page", current)]
          /\ UNCHANGED dropped
       \/ /\ Refuses(k, h) \/ ~HasTabs
          /\ task' = [task EXCEPT ![k][h] = NoTask]
          /\ dropped' = TRUE
    /\ UNCHANGED <<finished, current, timer, clicked, intervals, detail, events,
                   hasty, calm>>

Page(k) ==
    /\ Active(k, "page")
    /\ task' = [task EXCEPT ![k]["page"] = NoTask]
    /\ \/ /\ Serves(k, "page") /\ HasTabs
          /\ detail' = [detail EXCEPT !.page = task[k]["page"].of]
          /\ UNCHANGED dropped
       \/ /\ Refuses(k, "page") \/ ~HasTabs
          /\ dropped' = TRUE
          /\ UNCHANGED detail
    /\ UNCHANGED <<finished, current, timer, clicked, intervals, events, hasty, calm>>

(* refreshScans has drawn the list, and selectScan asks for its scan.       *)
List(k) ==
    /\ task[k]["select"].at = "list"
    /\ task' = [task EXCEPT ![k]["select"] = Fetch("job", clicked[k])]
    /\ UNCHANGED <<finished, current, timer, clicked, intervals, detail, events, history>>

(* The last step of selectScan: an unfinished scan gets an interval.        *)
StartPolling(k) ==
    /\ task[k]["select"].at = "job"
    /\ task' = [task EXCEPT ![k]["select"] = NoTask]
    /\ \E over \in Answers(k, "select") :
          IF over THEN UNCHANGED <<timer, intervals>>
          ELSE timer' = k /\ intervals' = intervals \cup {k}
    /\ UNCHANGED <<finished, current, clicked, detail, events, history>>

-----------------------------------------------------------------------------
(* The interval: a tick asks for the scan it was set for.  Answers take     *)
(* less than the 1.2 s between two ticks.                                   *)
Tick(k) ==
    /\ k \in intervals
    /\ \A h \in Kinds : ~Active(k, h)
    /\ task' = [task EXCEPT ![k]["tick"] = Fetch("tick", clicked[k])]
    /\ UNCHANGED <<finished, current, timer, clicked, intervals, detail, events, history>>

(* A tick that finds its scan running.                                      *)
GoesOn(k) ==
    /\ task' = [task EXCEPT ![k]["tick"] = NoTask]
    /\ UNCHANGED intervals

(* Mutant: it refreshes the list only, and renders nothing.                 *)
TickedList(k) ==
    /\ Active(k, "tick")
    /\ \E over \in Answers(k, "tick") :
          IF over THEN /\ intervals' = intervals \ {timer}
                       /\ task' = [task EXCEPT ![k]["tick"] = NoTask]
          ELSE GoesOn(k)
    /\ UNCHANGED <<finished, current, timer, clicked, detail, events, history>>

(* A tick that finds its scan over clears the interval that timer names by  *)
(* then, and renders the scan that is current by then.                      *)
Ticked(k) ==
    /\ Active(k, "tick")
    /\ \E over \in Answers(k, "tick") :
          IF over THEN /\ intervals' = intervals \ {timer}
                       /\ task' = [task EXCEPT ![k]["tick"] = NoTask,
                                               ![k]["render"] = Fetch("head", current)]
          ELSE GoesOn(k)
    /\ UNCHANGED <<finished, current, timer, clicked, detail, events, history>>

-----------------------------------------------------------------------------
Handle(k) ==
    \/ \E h \in {"select", "render"} : Head(k, h) \/ Docs(k, h)
    \/ Page(k) \/ List(k) \/ StartPolling(k)
    \/ Tick(k) \/ Ticked(k)

Next ==
    \/ \E s \in Scans : Finish(s)
    \/ \E k \in Clicks :
          \/ \E s \in Scans : Click(k, s)
          \/ \E h \in Kinds : FetchFails(k, h)
          \/ Handle(k)

Spec == Init /\ [][Next]_vars

(* The server answers, the browser resumes its handlers and runs intervals. *)
FairSpec == Spec /\ \A k \in Clicks : WF_vars(Handle(k))
-----------------------------------------------------------------------------
(* Properties *)

(* An interval that goes on ticking is the one that the script's single     *)
(* variable timer names, and asks for the scan that is selected.  The only  *)
(* exceptions are those of calls of selectScan that ran at the same time as *)
(* another: nothing ever clears them.                                       *)
IntervalsOfTheSelected ==
    \A k \in intervals : k \in hasty \/ (k = timer /\ clicked[k] = current)

(* A click at a time when nothing is being rendered puts the pane right     *)
(* again, whatever mixture quick clicks have left in it, and whatever of    *)
(* their intervals still ticks: once all is rendered, the head is that of   *)
(* the selected scan, and so is the page if there is room for one.          *)
PaneOfTheSelected ==
    (calm /\ ~Rendering /\ ~dropped) =>
        /\ detail.head = current
        /\ detail.page = IF HasTabs THEN current ELSE None

(* When the selected scan is over and polled, the pane comes to show the    *)
(* outcome and the interval that timer names stops, whatever fetches of the *)
(* polling fail, and even if the tick of another selection clears the       *)
(* interval first; unless a scan that runs is selected by then, or the      *)
(* rendering fails.                                                         *)
Shows(s) == detail.head = s /\ detail.finished
Polled == \E k \in intervals : clicked[k] = current
Stopped == timer \in intervals => clicked[timer] \notin finished

PolledOutcomeIsShown ==
    (Polled /\ current \in finished) ~>
        (current \in finished => dropped \/ (Shows(current) /\ Stopped))

(* "launch a scan, watch its status" (README.md): when the selected scan is *)
(* over the pane says so sooner or later.  It does not: selectScan decides  *)
(* by a fetch of its own whether to poll, after renderDetail has drawn      *)
(* "running" by an earlier one.                                             *)
OutcomeIsShown ==
    \A s \in Scans :
        (current = s /\ s \in finished) ~> (Shows(s) \/ current # s \/ dropped)
=============================================================================
