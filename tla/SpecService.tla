---------------------------- MODULE SpecService ----------------------------
(***************************************************************************)
(* Functional specs: application/services/spec_service.py over the file    *)
(* store of infrastructure/persistence/file_spec_store.py, called by the   *)
(* /specs routes, which FastAPI runs in a thread per request.              *)
(*                                                                         *)
(* create, update, link_scan and unlink_scan hold the service lock from    *)
(* the read to the rename; get, list and delete take no lock, and neither  *)
(* does the first half of a reconciliation.  A crash kills the requests    *)
(* and keeps the files.                                                    *)
(***************************************************************************)
EXTENDS Naturals

CONSTANTS
    Clients,    \* threads that serve a request
    Specs,      \* spec ids that may be issued
    Scans,      \* scan ids a spec may be linked to
    Bodies,     \* what a spec says besides its links
    None,       \* no body and no scan
    Free,       \* the lock when no request holds it
    MaxCalls,   \* bound on requests
    MaxCrash    \* bound on process restarts

ASSUME ConstantsAssumption ==
    /\ None \notin Bodies
    /\ Free \notin Clients
    /\ MaxCalls \in Nat /\ MaxCrash \in Nat

VARIABLES
    issued,     \* ids new_id("spec") has returned
    file, tmp,  \* <id>.json and <id>.json.tmp
    lock,       \* SpecService._lock
    call,       \* the request each thread serves
    last,       \* history: what was last renamed to <id>.json
    calls, crashes  \* history: requests and crashes so far, for the bounds

vars == <<issued, file, tmp, lock, call, last, calls, crashes>>

Content == [body: Bodies, links: SUBSET Scans]
Nothing == [body |-> None, links |-> {}]

File == [text: {"absent", "partial", "whole"}, spec: Content \cup {Nothing}]
Absent == [text |-> "absent", spec |-> Nothing]
Partial == [text |-> "partial", spec |-> Nothing]
Whole(d) == [text |-> "whole", spec |-> d]

Puts == {"create", "update", "wizard"}
Saving == {"open", "write", "replace"}

(* spec: what the request carries, has read, or is about to save.           *)
Call == [op: Puts \cup {"link", "unlink", "reconcile", "delete"},
         at: {"snapshot", "match", "lookup", "check", "unlink"} \cup Saving,
         id: Specs, scan: Scans \cup {None}, spec: Content \cup {Nothing}]
NoCall == [op |-> "none", at |-> "idle", id |-> None, scan |-> None,
           spec |-> Nothing]

TypeOK ==
    /\ issued \subseteq Specs
    /\ file \in [Specs -> File]
    /\ tmp \in [Specs -> File]
    /\ lock \in Clients \cup {Free}
    /\ call \in [Clients -> Call \cup {NoCall}]
    /\ last \in [Specs -> Content \cup {Nothing}]
    /\ calls \in 0..MaxCalls
    /\ crashes \in 0..MaxCrash

Init ==
    /\ issued = {}
    /\ file = [s \in Specs |-> Absent]
    /\ tmp = [s \in Specs |-> Absent]
    /\ lock = Free
    /\ call = [c \in Clients |-> NoCall]
    /\ last = [s \in Specs |-> Nothing]
    /\ calls = 0
    /\ crashes = 0

-----------------------------------------------------------------------------
(* Requests *)

Request(c, op, at, s, x, d) ==
    /\ call[c] = NoCall
    /\ calls < MaxCalls
    /\ calls' = calls + 1
    /\ call' = [call EXCEPT ![c] =
                  [op |-> op, at |-> at, id |-> s, scan |-> x, spec |-> d]]
    /\ UNCHANGED <<file, tmp, lock, last, crashes>>

Create(c, s, d) ==
    /\ s \notin issued
    /\ issued' = issued \cup {s}
    /\ Request(c, "create", "lookup", s, None, d)

(* A client knows the ids that have been stored.                            *)
Existing(c, op, at, s, x, d) ==
    /\ last[s] # Nothing
    /\ UNCHANGED issued
    /\ Request(c, op, at, s, x, d)

Update(c, s, d) == Existing(c, "update", "lookup", s, None, d)

(* wizSave of the dashboard: whatever it edited, linked_scan_ids is [].     *)
WizardSave(c, s, b) ==
    Existing(c, "wizard", "lookup", s, None, [body |-> b, links |-> {}])

LinkScan(c, s, x) == Existing(c, "link", "lookup", s, x, Nothing)
UnlinkScan(c, s, x) == Existing(c, "unlink", "lookup", s, x, Nothing)
Reconcile(c, s, x) == Existing(c, "reconcile", "snapshot", s, x, Nothing)
Delete(c, s) == Existing(c, "delete", "check", s, None, Nothing)

Present(s) == file[s].text # "absent"
Found(s) == file[s].text = "whole"     \* get() is not None

Goto(c, at, d) == call' = [call EXCEPT ![c].at = at, ![c].spec = d]
Answer(c) == call' = [call EXCEPT ![c] = NoCall]

-----------------------------------------------------------------------------
(* reconcile: get() without the lock, then the scan has to be DONE, and     *)
(* after the matching link_scan() looks the spec up again.                  *)
Snapshot(c) ==
    /\ call[c].at = "snapshot"
    /\ IF Found(call[c].id) THEN Goto(c, "match", file[call[c].id].spec)
       ELSE Answer(c)
    /\ UNCHANGED <<issued, file, tmp, lock, last, calls, crashes>>

Match(c) ==
    /\ call[c].at = "match"
    /\ Goto(c, "lookup", call[c].spec) \/ Answer(c)
    /\ UNCHANGED <<issued, file, tmp, lock, last, calls, crashes>>

-----------------------------------------------------------------------------
(* The body of the four mutations *)

(* Mutant: a reconciliation links the snapshot it matched, not a fresh read. *)
StaleChanged(r, d) ==
    CASE r.op = "link" -> [d EXCEPT !.links = @ \cup {r.scan}]
      [] r.op = "reconcile" -> [r.spec EXCEPT !.links = @ \cup {r.scan}]
      [] r.op = "unlink" -> [d EXCEPT !.links = @ \ {r.scan}]
      [] OTHER -> r.spec

(* What the request r makes of a spec that holds d.                         *)
Changed(r, d) ==
    CASE r.op \in {"link", "reconcile"} -> [d EXCEPT !.links = @ \cup {r.scan}]
      [] r.op = "unlink" -> [d EXCEPT !.links = @ \ {r.scan}]
      [] OTHER -> r.spec

(* Mutant: an update of a spec that is not there creates it.                *)
UpsertToSave(r) ==
    \/ r.op \in Puts
    \/ Found(r.id) /\ Changed(r, file[r.id].spec) # file[r.id].spec

(* Mutant: link_scan does not check that the spec was found.                *)
LinkUnchecked(r) ==
    \/ r.op \in {"create", "link"}
    \/ Found(r.id) /\ (\/ r.op \in Puts
                       \/ Changed(r, file[r.id].spec) # file[r.id].spec)

(* A link or unlink that changes nothing returns early, and so does any     *)
(* request but a create that finds no spec.                                 *)
HasToSave(r) ==
    \/ r.op = "create"
    \/ Found(r.id) /\ (\/ r.op \in Puts
                       \/ Changed(r, file[r.id].spec) # file[r.id].spec)

Lookup(c) ==
    /\ call[c].at = "lookup"
    /\ lock = Free
    /\ IF HasToSave(call[c])
       THEN /\ lock' = c
            /\ Goto(c, "open", Changed(call[c], file[call[c].id].spec))
       ELSE Answer(c) /\ UNCHANGED lock
    /\ UNCHANGED <<issued, file, tmp, last, calls, crashes>>

(* Mutant: the document is written in place.                                *)
OpenInPlace(c) ==
    /\ call[c].at = "open"
    /\ Goto(c, "write", call[c].spec)
    /\ tmp' = [tmp EXCEPT ![call[c].id] = Partial]
    /\ file' = [file EXCEPT ![call[c].id] = Partial]
    /\ UNCHANGED <<issued, lock, last, calls, crashes>>

(* FileSpecStore.save: write_text creates or truncates the temporary file.  *)
OpenTmp(c) ==
    /\ call[c].at = "open"
    /\ Goto(c, "write", call[c].spec)
    /\ tmp' = [tmp EXCEPT ![call[c].id] = Partial]
    /\ UNCHANGED <<issued, file, lock, last, calls, crashes>>

WriteTmp(c) ==
    /\ call[c].at = "write"
    /\ Goto(c, "replace", call[c].spec)
    /\ tmp' = [tmp EXCEPT ![call[c].id] = Whole(call[c].spec)]
    /\ UNCHANGED <<issued, file, lock, last, calls, crashes>>

ReplaceTmp(c) ==
    /\ call[c].at = "replace"
    /\ file' = [file EXCEPT ![call[c].id] = tmp[call[c].id]]
    /\ tmp' = [tmp EXCEPT ![call[c].id] = Absent]
    /\ last' = [last EXCEPT ![call[c].id] = call[c].spec]
    /\ lock' = Free
    /\ Answer(c)
    /\ UNCHANGED <<issued, calls, crashes>>

(* Mutant: the lock stays with a request that raised.                       *)
SaveRaisesLocked(c) ==
    /\ call[c].at \in Saving
    /\ Answer(c)
    /\ UNCHANGED <<issued, file, tmp, lock, last, calls, crashes>>

(* An OSError of any of the three: the with statement releases the lock and *)
(* the request is answered with a 500.                                      *)
SaveRaises(c) ==
    /\ call[c].at \in Saving
    /\ lock' = Free
    /\ Answer(c)
    /\ UNCHANGED <<issued, file, tmp, last, calls, crashes>>

-----------------------------------------------------------------------------
(* delete: is_file(), then unlink(), without the lock.  unlink() raises     *)
(* when another delete came first, or for any other reason.                 *)
CheckFile(c) ==
    /\ call[c].at = "check"
    /\ IF Present(call[c].id) THEN Goto(c, "unlink", Nothing) ELSE Answer(c)
    /\ UNCHANGED <<issued, file, tmp, lock, last, calls, crashes>>

UnlinkFile(c) ==
    /\ call[c].at = "unlink"
    /\ \/ file' = [file EXCEPT ![call[c].id] = Absent]
       \/ UNCHANGED file
    /\ Answer(c)
    /\ UNCHANGED <<issued, tmp, lock, last, calls, crashes>>

Crash ==
    /\ crashes < MaxCrash
    /\ crashes' = crashes + 1
    /\ call' = [c \in Clients |-> NoCall]
    /\ lock' = Free
    /\ UNCHANGED <<issued, file, tmp, last, calls>>

-----------------------------------------------------------------------------
Step(c) ==
    \/ Snapshot(c) \/ Match(c)
    \/ Lookup(c) \/ OpenTmp(c) \/ WriteTmp(c) \/ ReplaceTmp(c) \/ SaveRaises(c)
    \/ CheckFile(c) \/ UnlinkFile(c)

Arrive(c, s) ==
    \/ \E d \in Content : Create(c, s, d) \/ Update(c, s, d)
    \/ \E b \in Bodies : WizardSave(c, s, b)
    \/ \E x \in Scans :
          LinkScan(c, s, x) \/ UnlinkScan(c, s, x) \/ Reconcile(c, s, x)
    \/ Delete(c, s)

Next ==
    \/ \E c \in Clients :
          \/ \E s \in Specs : Arrive(c, s)
          \/ Step(c)
    \/ Crash

Spec == Init /\ [][Next]_vars

(* A request that has arrived keeps running; requests need not arrive.      *)
FairSpec == Spec /\ \A c \in Clients : WF_vars(Step(c))
-----------------------------------------------------------------------------
(* Properties *)

(* Readers take no lock, so <id>.json has to hold a whole spec, the one     *)
(* stored last, at any moment and after any crash or failed save.           *)
ReadersSeeWholeSpecs ==
    \A s \in Specs : Present(s) => file[s] = Whole(last[s])

Asked(r) ==
    [op |-> CASE r.op \in {"update", "wizard"} -> "put"
              [] r.op = "reconcile" -> "link"
              [] OTHER -> r.op,
     id |-> r.id, scan |-> r.scan,
     content |-> IF r.op \in Puts THEN r.spec ELSE Nothing,
     begun |-> r.at \in Saving \cup {"unlink"}]

Doc(s) == [there |-> Present(s), content |-> last[s]]
Req(c) == IF call[c] = NoCall THEN {} ELSE {Asked(call[c])}

(* The refinement mapping to SpecRegistry.                                  *)
Registry == INSTANCE SpecRegistry WITH
    doc <- [s \in Specs |-> Doc(s)], req <- [c \in Clients |-> Req(c)]

(* Every step of the service is a step of SpecRegistry or a stutter: a      *)
(* request changes what is stored when it takes effect, never what it read  *)
(* before, so none undoes what another one stored while it was under way.   *)
ImplementsRegistry == Registry!Spec

InFlight(s) ==
    \E c \in Clients : call[c].at \in Saving /\ call[c].id = s

(* A deleted spec that no change under way can bring back.                  *)
Gone(s) == last[s] # Nothing /\ ~Present(s) /\ ~InFlight(s)

(* A deleted spec comes back only through a change that had read it before  *)
(* the delete: with none under way, it is gone for good.                    *)
GoneForGood == [][\A s \in Specs : Gone(s) => Gone(s)']_vars

(* Every request is answered: none waits for the lock for ever, whatever    *)
(* the requests that hold it run into.                                      *)
CallsAnswered == \A c \in Clients : call[c] # NoCall ~> call[c] = NoCall

(* spec_store.py: delete() is to "Remove a stored spec", and a test expects *)
(* a 404 after it: a deleted spec would not come back.                      *)
DeletedStaysGone ==
    [][\A s \in Specs :
          (last[s] # Nothing /\ ~Present(s)) => file'[s] = Absent]_vars
=============================================================================
