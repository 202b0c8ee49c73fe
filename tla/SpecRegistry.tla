---------------------------- MODULE SpecRegistry ----------------------------
(***************************************************************************)
(* What SpecService promises about functional specs, without a lock or     *)
(* files: a request begins, if the spec is there, and later takes effect   *)
(* in one atomic step on the content stored last, or has no effect.  It    *)
(* may take effect after the spec was deleted, which is then there again.  *)
(* SpecService is shown to implement it.                                   *)
(***************************************************************************)
CONSTANTS Clients, Specs, Scans, Bodies,
    None        \* the body of a spec that was never stored
VARIABLES doc, req

Content == [body: Bodies, links: SUBSET Scans]
Nothing == [body |-> None, links |-> {}]

(* there: whether a reader finds the spec; content: what was stored last.   *)
Init ==
    /\ doc = [s \in Specs |-> [there |-> FALSE, content |-> Nothing]]
    /\ req = [c \in Clients |-> {}]

(* A client has asked nothing ({}), or one thing that has begun or not.     *)
Request == [op: {"create", "put", "link", "unlink", "delete"}, id: Specs,
            scan: Scans \cup {None}, content: Content \cup {Nothing},
            begun: BOOLEAN]

Ask(c) ==
    /\ req[c] = {}
    /\ \E r \in Request : ~r.begun /\ req' = [req EXCEPT ![c] = {r}]
    /\ UNCHANGED doc

Begin(c) ==
    /\ \E r \in req[c] :
          /\ IF r.op = "create" THEN doc[r.id].content = Nothing
             ELSE doc[r.id].there
          /\ req' = [req EXCEPT ![c] = {[r EXCEPT !.begun = TRUE]}]
    /\ UNCHANGED doc

Effect(r, d) ==
    CASE r.op = "link" -> [d EXCEPT !.links = @ \cup {r.scan}]
      [] r.op = "unlink" -> [d EXCEPT !.links = @ \ {r.scan}]
      [] OTHER -> r.content

Store(c) ==
    /\ \E r \in req[c] :
          /\ r.begun /\ r.op # "delete"
          /\ doc' = [doc EXCEPT ![r.id] =
                       [there |-> TRUE, content |-> Effect(r, doc[r.id].content)]]
    /\ req' = [req EXCEPT ![c] = {}]

Remove(c) ==
    /\ \E r \in req[c] :
          /\ r.begun /\ r.op = "delete"
          /\ doc' = [doc EXCEPT ![r.id].there = FALSE]
    /\ req' = [req EXCEPT ![c] = {}]

NoEffect(c) ==
    /\ req[c] # {}
    /\ req' = [req EXCEPT ![c] = {}]
    /\ UNCHANGED doc

Restart ==
    /\ req' = [c \in Clients |-> {}]
    /\ UNCHANGED doc

Next ==
    \/ \E c \in Clients : Ask(c) \/ Begin(c) \/ Store(c) \/ Remove(c) \/ NoEffect(c)
    \/ Restart

vars == <<doc, req>>

Spec == Init /\ [][Next]_vars
=============================================================================
