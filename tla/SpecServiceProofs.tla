-------------------------- MODULE SpecServiceProofs --------------------------
(***************************************************************************)
(* Theorems about SpecService for every number of clients, specs, scans,   *)
(* requests and crashes.  The inductive invariant IInv says what the lock  *)
(* buys: the request that holds it is about to store a change of what is   *)
(* stored now, and the temporary file it renames is its own.               *)
(***************************************************************************)
EXTENDS SpecService, TLAPS

CallInv(c) ==
    /\ call[c].at \in Saving =>
          /\ lock = c
          /\ call[c].spec \in Content
          /\ call[c].op \notin Puts => call[c].spec = Changed(call[c], last[call[c].id])
    /\ call[c].at = "replace" => tmp[call[c].id] = Whole(call[c].spec)
    /\ call[c].op \in Puts =>
          /\ call[c].spec \in Content
          /\ call[c].at \in Saving \cup {"lookup"}
    /\ call[c].op \in {"link", "unlink", "reconcile"} => call[c].scan \in Scans
    /\ call[c].at \in {"snapshot", "match"} => call[c].op = "reconcile"
    /\ (call[c].at \in {"check", "unlink"}) <=> (call[c].op = "delete")
    /\ call[c].op = "create" => last[call[c].id] = Nothing /\ call[c].id \in issued
    /\ call[c].op \notin {"create", "none"} => last[call[c].id] # Nothing

SpecInv(s) ==
    /\ Present(s) => file[s] = Whole(last[s]) /\ last[s] # Nothing
    /\ last[s] # Nothing => s \in issued

CreatesDiffer ==
    \A c, d \in Clients :
        (call[c].op = "create" /\ call[d].op = "create" /\ call[c].id = call[d].id)
            => c = d

LockInv == lock # Free => call[lock].at \in Saving

IInv ==
    /\ TypeOK
    /\ LockInv
    /\ CreatesDiffer
    /\ \A c \in Clients : CallInv(c)
    /\ \A s \in Specs : SpecInv(s)

-----------------------------------------------------------------------------
(* Nothing is not the content of a spec, and a file that is there is not    *)
(* Absent.                                                                  *)
LEMMA ConstantsTyped ==
    /\ Nothing \notin Content
    /\ Absent \in File /\ Partial \in File
    /\ \A d \in Content : Whole(d) \in File /\ Whole(d).text = "whole" /\ Whole(d).spec = d
    /\ Absent.text = "absent" /\ Partial.text = "partial"
    /\ NoCall.at = "idle" /\ NoCall.op = "none" /\ NoCall \notin Call
  BY ConstantsAssumption DEF ConstantsAssumption, Nothing, Content, Absent, Partial, Whole, File,
     NoCall, Call, Puts

(* A thread that is not idle serves a request, and one that is serves none. *)
LEMMA CallTyped ==
    ASSUME TypeOK, NEW c \in Clients
    PROVE  /\ call[c].at # "idle" => call[c] \in Call
           /\ call[c] \in Call => /\ call[c].at # "idle" /\ call[c].op # "none"
                                 /\ call[c].id \in Specs
                                 /\ call[c].spec \in Content \cup {Nothing}
           /\ call[c] = NoCall => call[c].at = "idle" /\ call[c].op = "none"
           /\ call[c] = NoCall \/ call[c] \in Call
  BY ConstantsTyped DEF TypeOK, Call, Saving, Puts

(* What Goto leaves of the calls.                                           *)
LEMMA GotoCall ==
    ASSUME TypeOK, NEW c \in Clients, call[c] \in Call,
           NEW at \in {"match", "lookup", "unlink"} \cup Saving,
           NEW d \in Content \cup {Nothing}, Goto(c, at, d)
    PROVE  /\ call' \in [Clients -> Call \cup {NoCall}]
           /\ call'[c] \in Call
           /\ call'[c].at = at /\ call'[c].spec = d
           /\ call'[c].op = call[c].op /\ call'[c].id = call[c].id
           /\ call'[c].scan = call[c].scan
           /\ \A e \in Clients : e # c => call'[e] = call[e]
<1>1. call \in [Clients -> Call \cup {NoCall}]
  BY DEF TypeOK
<1>2. call' = [call EXCEPT ![c] = [call[c] EXCEPT !.at = at, !.spec = d]]
  BY <1>1 DEF Goto
<1>3. [call[c] EXCEPT !.at = at, !.spec = d] \in Call
  BY DEF Call, Saving
<1>4. /\ [call[c] EXCEPT !.at = at, !.spec = d].at = at
      /\ [call[c] EXCEPT !.at = at, !.spec = d].spec = d
      /\ [call[c] EXCEPT !.at = at, !.spec = d].op = call[c].op
      /\ [call[c] EXCEPT !.at = at, !.spec = d].id = call[c].id
      /\ [call[c] EXCEPT !.at = at, !.spec = d].scan = call[c].scan
  BY DEF Call
<1>5. call'[c] = [call[c] EXCEPT !.at = at, !.spec = d]
  BY <1>1, <1>2
<1> QED  BY <1>1, <1>2, <1>3, <1>4, <1>5

(* What Answer leaves of the calls.                                         *)
LEMMA AnswerCall ==
    ASSUME TypeOK, NEW c \in Clients, Answer(c)
    PROVE  /\ call' \in [Clients -> Call \cup {NoCall}]
           /\ call'[c] = NoCall /\ call'[c].at = "idle" /\ call'[c].op = "none"
           /\ \A e \in Clients : e # c => call'[e] = call[e]
  BY ConstantsTyped DEF TypeOK, Answer

(* A change of a content is a content.                                      *)
LEMMA ChangedTyped ==
    ASSUME NEW r \in Call, NEW d \in Content,
           r.op \in Puts => r.spec \in Content,
           r.op \in {"link", "unlink", "reconcile"} => r.scan \in Scans,
           r.op # "delete"
    PROVE  Changed(r, d) \in Content
  BY DEF Call, Changed, Content, Puts

(* What a link or unlink makes of a content does not depend on the rest of  *)
(* the call.                                                                *)
LEMMA ChangedSame ==
    ASSUME NEW r \in Call, NEW q \in Call, NEW d,
           r.op = q.op, r.scan = q.scan, r.op \notin Puts, r.op # "delete"
    PROVE  Changed(r, d) = Changed(q, d)
  BY DEF Call, Changed, Puts

-----------------------------------------------------------------------------
(* The invariant, action by action *)

LEMMA IInvInit == ASSUME Init PROVE IInv
<1>1. TypeOK
  BY ConstantsTyped, ConstantsAssumption DEF ConstantsAssumption, Init, TypeOK
<1> QED  BY <1>1, ConstantsTyped, ConstantsAssumption
         DEF ConstantsAssumption, Init, IInv, LockInv, CreatesDiffer, CallInv, SpecInv,
             Present, Saving, Puts

(* A request arrives: only the idle thread that takes it changes.           *)
LEMMA RequestTyped ==
    ASSUME TypeOK, NEW c \in Clients, NEW s \in Specs, NEW op, NEW at, NEW x, NEW d,
           Request(c, op, at, s, x, d),
           [op |-> op, at |-> at, id |-> s, scan |-> x, spec |-> d] \in Call
    PROVE  /\ call' \in [Clients -> Call \cup {NoCall}]
           /\ calls' \in 0..MaxCalls
           /\ call'[c].op = op /\ call'[c].at = at /\ call'[c].id = s
           /\ call'[c].scan = x /\ call'[c].spec = d
           /\ \A e \in Clients : e # c => call'[e] = call[e]
           /\ call[c].at = "idle"
  BY ConstantsTyped, ConstantsAssumption DEF TypeOK, Request, ConstantsAssumption

LEMMA CreateKeeps ==
    ASSUME IInv, NEW c \in Clients, NEW s \in Specs, NEW d \in Content, Create(c, s, d)
    PROVE  IInv'
<1>1. [op |-> "create", at |-> "lookup", id |-> s, scan |-> None, spec |-> d] \in Call
  BY DEF Call, Puts
<1>2. Request(c, "create", "lookup", s, None, d) /\ s \notin issued /\ issued' = issued \cup {s}
  BY DEF Create
<1>3. UNCHANGED <<file, tmp, lock, last, crashes>>
  BY <1>2 DEF Request
<1>4. /\ call' \in [Clients -> Call \cup {NoCall}] /\ calls' \in 0..MaxCalls
      /\ call'[c].op = "create" /\ call'[c].at = "lookup" /\ call'[c].id = s
      /\ call'[c].spec = d
      /\ \A e \in Clients : e # c => call'[e] = call[e]
      /\ call[c].at = "idle"
  BY <1>1, <1>2, RequestTyped DEF IInv
<1>5. TypeOK'
  BY <1>2, <1>3, <1>4 DEF IInv, TypeOK
<1>6. LockInv'
  BY <1>3, <1>4 DEF IInv, LockInv, TypeOK, Saving
<1>7. CreatesDiffer'
  BY <1>2, <1>4 DEF IInv, CreatesDiffer, CallInv
<1>8. ASSUME NEW e \in Clients PROVE CallInv(e)'
  <2>1. CASE e = c
    BY <1>2, <1>3, <1>4, <2>1 DEF IInv, CallInv, SpecInv, Saving, Puts
  <2>2. CASE e # c
    <3>1. CallInv(e) /\ call'[e] = call[e]
      BY <1>4, <2>2 DEF IInv
    <3> QED  BY <1>2, <1>3, <3>1 DEF CallInv, Changed
  <2> QED  BY <2>1, <2>2
<1>9. \A t \in Specs : SpecInv(t)'
  BY <1>2, <1>3 DEF IInv, SpecInv, Present
<1> QED  BY <1>5, <1>6, <1>7, <1>8, <1>9 DEF IInv

LEMMA ExistingKeeps ==
    ASSUME IInv, NEW c \in Clients, NEW s \in Specs, NEW op, NEW at, NEW x, NEW d,
           Existing(c, op, at, s, x, d),
           [op |-> op, at |-> at, id |-> s, scan |-> x, spec |-> d] \in Call,
           op # "create", at \notin Saving,
           op \in Puts => d \in Content /\ at = "lookup",
           op \in {"link", "unlink", "reconcile"} => x \in Scans,
           at \in {"snapshot", "match"} => op = "reconcile",
           (at \in {"check", "unlink"}) <=> (op = "delete")
    PROVE  IInv'
<1>2. Request(c, op, at, s, x, d) /\ last[s] # Nothing /\ UNCHANGED issued
  BY DEF Existing
<1>3. UNCHANGED <<file, tmp, lock, last, crashes>>
  BY <1>2 DEF Request
<1>4. /\ call' \in [Clients -> Call \cup {NoCall}] /\ calls' \in 0..MaxCalls
      /\ call'[c].op = op /\ call'[c].at = at /\ call'[c].id = s
      /\ call'[c].spec = d /\ call'[c].scan = x
      /\ \A e \in Clients : e # c => call'[e] = call[e]
      /\ call[c].at = "idle"
  BY <1>2, RequestTyped DEF IInv
<1>5. TypeOK'
  BY <1>2, <1>3, <1>4 DEF IInv, TypeOK
<1>6. LockInv'
  BY <1>3, <1>4 DEF IInv, LockInv, TypeOK, Saving
<1>7. CreatesDiffer'
  BY <1>2, <1>4 DEF IInv, CreatesDiffer
<1>8. ASSUME NEW e \in Clients PROVE CallInv(e)'
  <2>1. CASE e = c
    <3>1. at # "replace"
      BY DEF Saving
    <3> QED  BY <1>2, <1>3, <1>4, <2>1, <3>1 DEF CallInv
  <2>2. CASE e # c
    <3>1. CallInv(e) /\ call'[e] = call[e]
      BY <1>4, <2>2 DEF IInv
    <3> QED  BY <1>2, <1>3, <3>1 DEF CallInv, Changed
  <2> QED  BY <2>1, <2>2
<1>9. \A t \in Specs : SpecInv(t)'
  BY <1>2, <1>3 DEF IInv, SpecInv, Present
<1> QED  BY <1>5, <1>6, <1>7, <1>8, <1>9 DEF IInv

LEMMA ArriveKeeps ==
    ASSUME IInv, NEW c \in Clients, NEW s \in Specs, Arrive(c, s)
    PROVE  IInv'
<1>1. ASSUME NEW d \in Content, Create(c, s, d) PROVE IInv'
  BY <1>1, CreateKeeps
<1>2. ASSUME NEW d \in Content, Update(c, s, d) PROVE IInv'
  <2>1. [op |-> "update", at |-> "lookup", id |-> s, scan |-> None, spec |-> d] \in Call
    BY DEF Call, Puts
  <2> QED  BY <1>2, <2>1, ExistingKeeps DEF Update, Saving
<1>3. ASSUME NEW b \in Bodies, WizardSave(c, s, b) PROVE IInv'
  <2>1. [body |-> b, links |-> {}] \in Content
    BY DEF Content
  <2>2. [op |-> "wizard", at |-> "lookup", id |-> s, scan |-> None,
         spec |-> [body |-> b, links |-> {}]] \in Call
    BY <2>1 DEF Call, Puts
  <2> QED  BY <1>3, <2>1, <2>2, ExistingKeeps DEF WizardSave, Saving
<1>4. ASSUME NEW x \in Scans, LinkScan(c, s, x) PROVE IInv'
  <2>1. [op |-> "link", at |-> "lookup", id |-> s, scan |-> x, spec |-> Nothing] \in Call
    BY DEF Call
  <2> QED  BY <1>4, <2>1, ExistingKeeps DEF LinkScan, Saving, Puts
<1>5. ASSUME NEW x \in Scans, UnlinkScan(c, s, x) PROVE IInv'
  <2>1. [op |-> "unlink", at |-> "lookup", id |-> s, scan |-> x, spec |-> Nothing] \in Call
    BY DEF Call
  <2> QED  BY <1>5, <2>1, ExistingKeeps DEF UnlinkScan, Saving, Puts
<1>6. ASSUME NEW x \in Scans, Reconcile(c, s, x) PROVE IInv'
  <2>1. [op |-> "reconcile", at |-> "snapshot", id |-> s, scan |-> x, spec |-> Nothing] \in Call
    BY DEF Call
  <2> QED  BY <1>6, <2>1, ExistingKeeps DEF Reconcile, Saving, Puts
<1>7. ASSUME Delete(c, s) PROVE IInv'
  <2>1. [op |-> "delete", at |-> "check", id |-> s, scan |-> None, spec |-> Nothing] \in Call
    BY DEF Call
  <2> QED  BY <1>7, <2>1, ExistingKeeps DEF Delete, Saving, Puts
<1> QED  BY <1>1, <1>2, <1>3, <1>4, <1>5, <1>6, <1>7 DEF Arrive

(* A request that ends without storing anything.                            *)
LEMMA AnswerKeeps ==
    ASSUME IInv, NEW c \in Clients, Answer(c), call[c] \in Call,
           UNCHANGED <<issued, file, tmp, last, calls, crashes>>,
           lock' = IF call[c].at \in Saving THEN Free ELSE lock
    PROVE  IInv'
<1>1. /\ call' \in [Clients -> Call \cup {NoCall}]
      /\ call'[c] = NoCall /\ call'[c].at = "idle" /\ call'[c].op = "none"
      /\ \A e \in Clients : e # c => call'[e] = call[e]
  BY AnswerCall DEF IInv
<1>2. \A e \in Clients : e # c => (call[e].at \in Saving => lock' = e)
  BY DEF IInv, CallInv
<1>3. TypeOK'
  BY <1>1 DEF IInv, TypeOK
<1>4. LockInv'
  BY <1>1 DEF IInv, LockInv, TypeOK, CallInv
<1>5. CreatesDiffer'
  BY <1>1 DEF IInv, CreatesDiffer
<1>6. ASSUME NEW e \in Clients PROVE CallInv(e)'
  <2>1. CASE e = c
    BY <1>1, <2>1 DEF CallInv, Saving, Puts
  <2>2. CASE e # c
    <3>1. CallInv(e) /\ call'[e] = call[e] /\ (call[e].at \in Saving => lock' = e)
      BY <1>1, <1>2, <2>2 DEF IInv
    <3> QED  BY <3>1 DEF CallInv, Changed
  <2> QED  BY <2>1, <2>2
<1>7. \A t \in Specs : SpecInv(t)'
  BY DEF IInv, SpecInv, Present
<1> QED  BY <1>3, <1>4, <1>5, <1>6, <1>7 DEF IInv

(* A request that moves on, still without the lock.                         *)
LEMMA UnlockedGotoKeeps ==
    ASSUME IInv, NEW c \in Clients, call[c] \in Call,
           NEW at \in {"match", "lookup", "unlink"}, NEW d \in Content \cup {Nothing},
           Goto(c, at, d), UNCHANGED <<issued, file, tmp, lock, last, calls, crashes>>,
           call[c].at \notin Saving, call[c].op \notin Puts,
           at = "match" => call[c].op = "reconcile",
           at = "unlink" <=> call[c].op = "delete"
    PROVE  IInv'
<1>1. /\ call' \in [Clients -> Call \cup {NoCall}]
      /\ call'[c].at = at /\ call'[c].spec = d
      /\ call'[c].op = call[c].op /\ call'[c].id = call[c].id
      /\ call'[c].scan = call[c].scan
      /\ \A e \in Clients : e # c => call'[e] = call[e]
  BY GotoCall DEF IInv
<1>2. TypeOK'
  BY <1>1 DEF IInv, TypeOK
<1>3. LockInv'
  BY <1>1 DEF IInv, LockInv, TypeOK, CallInv
<1>4. CreatesDiffer'
  BY <1>1 DEF IInv, CreatesDiffer
<1>5. ASSUME NEW e \in Clients PROVE CallInv(e)'
  <2>1. CASE e = c
    <3>1. CallInv(c)
      BY DEF IInv
    <3> QED  BY <1>1, <2>1, <3>1 DEF CallInv, Saving
  <2>2. CASE e # c
    <3>1. CallInv(e) /\ call'[e] = call[e]
      BY <1>1, <2>2 DEF IInv
    <3> QED  BY <3>1 DEF CallInv, Changed
  <2> QED  BY <2>1, <2>2
<1>6. \A t \in Specs : SpecInv(t)'
  BY DEF IInv, SpecInv, Present
<1> QED  BY <1>2, <1>3, <1>4, <1>5, <1>6 DEF IInv

LEMMA UnlockedKeeps ==
    ASSUME IInv, NEW c \in Clients, Snapshot(c) \/ Match(c) \/ CheckFile(c)
    PROVE  IInv'
<1>1. call[c] \in Call /\ CallInv(c)
  BY CallTyped DEF IInv, Snapshot, Match, CheckFile
<1>2. UNCHANGED <<issued, file, tmp, lock, last, calls, crashes>>
  BY DEF Snapshot, Match, CheckFile
<1>3. call[c].at \in {"snapshot", "match", "check"} /\ call[c].at \notin Saving
  BY DEF Snapshot, Match, CheckFile, Saving
<1>4. CASE Answer(c)
  BY <1>1, <1>2, <1>3, <1>4, AnswerKeeps
<1>5. CASE Snapshot(c) /\ ~Answer(c)
  <2>1. call[c].op = "reconcile" /\ call[c].op \notin Puts
    BY <1>1, <1>5 DEF Snapshot, CallInv, Puts
  <2>2. Goto(c, "match", file[call[c].id].spec)
    BY <1>5 DEF Snapshot
  <2>3. file[call[c].id].spec \in Content \cup {Nothing}
    BY <1>1, CallTyped DEF IInv, TypeOK, File
  <2> QED  BY <1>1, <1>2, <1>3, <2>1, <2>2, <2>3, UnlockedGotoKeeps
<1>6. CASE Match(c) /\ ~Answer(c)
  <2>1. call[c].op = "reconcile" /\ call[c].op \notin Puts
    BY <1>1, <1>6 DEF Match, CallInv, Puts
  <2>2. Goto(c, "lookup", call[c].spec)
    BY <1>6 DEF Match
  <2>3. call[c].spec \in Content \cup {Nothing}
    BY <1>1, CallTyped DEF IInv
  <2> QED  BY <1>1, <1>2, <1>3, <2>1, <2>2, <2>3, UnlockedGotoKeeps
<1>7. CASE CheckFile(c) /\ ~Answer(c)
  <2>1. call[c].op = "delete" /\ call[c].op \notin Puts
    BY <1>1, <1>7 DEF CheckFile, CallInv, Puts
  <2>2. Goto(c, "unlink", Nothing)
    BY <1>7 DEF CheckFile
  <2> QED  BY <1>1, <1>2, <1>3, <2>1, <2>2, UnlockedGotoKeeps
<1> QED  BY <1>4, <1>5, <1>6, <1>7

(* A request that has to save found the content stored last.                *)
LEMMA LookupFinds ==
    ASSUME IInv, NEW c \in Clients, call[c] \in Call, HasToSave(call[c]),
           call[c].at = "lookup"
    PROVE  /\ call[c].op # "create" => /\ Present(call[c].id)
                                      /\ file[call[c].id].spec = last[call[c].id]
                                      /\ last[call[c].id] \in Content
           /\ Changed(call[c], file[call[c].id].spec) \in Content
<1>1. call[c].id \in Specs /\ CallInv(c) /\ SpecInv(call[c].id)
  BY CallTyped DEF IInv
<1>2. call[c].op # "delete"
  BY <1>1 DEF CallInv
<1>3. CASE call[c].op = "create"
  BY <1>1, <1>3 DEF CallInv, Changed, Puts
<1>4. CASE call[c].op # "create"
  <2>1. Found(call[c].id) /\ Present(call[c].id)
    BY <1>4, ConstantsTyped DEF HasToSave, Found, Present
  <2>2. last[call[c].id] \in Content
    BY <1>1, <2>1 DEF SpecInv, IInv, TypeOK
  <2>3. file[call[c].id].spec = last[call[c].id]
    BY <1>1, <2>1, <2>2, ConstantsTyped DEF SpecInv
  <2> QED  BY <1>1, <1>2, <2>1, <2>2, <2>3, ChangedTyped DEF CallInv
<1> QED  BY <1>3, <1>4

LEMMA LookupKeeps ==
    ASSUME IInv, NEW c \in Clients, Lookup(c)
    PROVE  IInv'
<1>1. call[c] \in Call /\ CallInv(c) /\ call[c].at = "lookup"
  BY CallTyped DEF IInv, Lookup
<1>2. UNCHANGED <<issued, file, tmp, last, calls, crashes>>
  BY DEF Lookup
<1>3. CASE ~HasToSave(call[c])
  BY <1>1, <1>2, <1>3, AnswerKeeps DEF Lookup, Saving
<1>4. CASE HasToSave(call[c])
  <2> DEFINE d == Changed(call[c], file[call[c].id].spec)
  <2>1. /\ d \in Content
        /\ call[c].op # "create" => file[call[c].id].spec = last[call[c].id]
    BY <1>1, <1>4, LookupFinds
  <2>2. Goto(c, "open", d) /\ lock' = c /\ lock = Free
    BY <1>4 DEF Lookup
  <2> HIDE DEF d
  <2>3. /\ call' \in [Clients -> Call \cup {NoCall}] /\ call'[c] \in Call
        /\ call'[c].at = "open" /\ call'[c].spec = d
        /\ call'[c].op = call[c].op /\ call'[c].id = call[c].id
        /\ call'[c].scan = call[c].scan
        /\ \A e \in Clients : e # c => call'[e] = call[e]
    BY <1>1, <2>1, <2>2, GotoCall DEF IInv, Saving
  <2>4. TypeOK'
    BY <1>2, <2>2, <2>3 DEF IInv, TypeOK
  <2>5. LockInv'
    BY <2>2, <2>3 DEF LockInv, Saving
  <2>6. CreatesDiffer'
    BY <2>3 DEF IInv, CreatesDiffer
  <2>7. CallInv(c)'
    <3>1. call[c].op \in Puts => d = call[c].spec
      BY DEF d, Changed, Puts
    <3>2. call[c].op \notin Puts => d = Changed(call'[c], last[call[c].id])
      <4>1. SUFFICES ASSUME call[c].op \notin Puts
                     PROVE  d = Changed(call'[c], last[call[c].id])
        OBVIOUS
      <4>2. call[c].op # "delete" /\ call[c].op # "create"
        BY <1>1, <4>1 DEF CallInv, Puts
      <4>3. Changed(call[c], last[call[c].id]) = Changed(call'[c], last[call[c].id])
        BY <1>1, <2>3, <4>1, <4>2, ChangedSame
      <4> QED  BY <2>1, <4>2, <4>3 DEF d
    <3> QED  BY <1>1, <1>2, <2>1, <2>2, <2>3, <3>1, <3>2 DEF CallInv, Saving
  <2>8. ASSUME NEW e \in Clients, e # c PROVE CallInv(e)'
    <3>1. CallInv(e) /\ call'[e] = call[e]
      BY <2>3, <2>8 DEF IInv
    <3>2. call[e].at \notin Saving
      BY <2>2, <3>1, ConstantsAssumption DEF CallInv, ConstantsAssumption
    <3> QED  BY <1>2, <3>1, <3>2 DEF CallInv, Saving
  <2>9. \A t \in Specs : SpecInv(t)'
    BY <1>2 DEF IInv, SpecInv, Present
  <2> QED  BY <2>4, <2>5, <2>6, <2>7, <2>8, <2>9 DEF IInv
<1> QED  BY <1>3, <1>4

(* The holder of the lock opens or writes its temporary file.  Nobody else  *)
(* is between opening and renaming one.                                     *)
LEMMA WritingKeeps ==
    ASSUME IInv, NEW c \in Clients, OpenTmp(c) \/ WriteTmp(c)
    PROVE  IInv'
<1>1. /\ call[c] \in Call /\ CallInv(c) /\ call[c].at \in Saving
      /\ call[c].id \in Specs /\ call[c].spec \in Content /\ lock = c
  BY CallTyped DEF IInv, OpenTmp, WriteTmp, CallInv, Saving
<1>2. UNCHANGED <<issued, file, lock, last, calls, crashes>>
  BY DEF OpenTmp, WriteTmp
<1>3. PICK at \in {"write", "replace"} :
        /\ Goto(c, at, call[c].spec)
        /\ at = "replace" => tmp' = [tmp EXCEPT ![call[c].id] = Whole(call[c].spec)]
        /\ at = "write" => tmp' = [tmp EXCEPT ![call[c].id] = Partial]
  BY DEF OpenTmp, WriteTmp
<1>4. /\ call' \in [Clients -> Call \cup {NoCall}] /\ call'[c] \in Call
      /\ call'[c].at = at /\ call'[c].spec = call[c].spec
      /\ call'[c].op = call[c].op /\ call'[c].id = call[c].id
      /\ call'[c].scan = call[c].scan
      /\ \A e \in Clients : e # c => call'[e] = call[e]
  BY <1>1, <1>3, GotoCall DEF IInv, Saving
<1>5. tmp' \in [Specs -> File]
  BY <1>1, <1>3, ConstantsTyped DEF IInv, TypeOK
<1>6. TypeOK'
  BY <1>2, <1>4, <1>5 DEF IInv, TypeOK
<1>7. LockInv'
  BY <1>1, <1>2, <1>4 DEF LockInv, Saving
<1>8. CreatesDiffer'
  BY <1>4 DEF IInv, CreatesDiffer
<1>9. CallInv(c)'
  <2>1. call[c].op \notin Puts /\ call[c].op # "delete"
           => Changed(call'[c], last[call[c].id]) = Changed(call[c], last[call[c].id])
    BY <1>1, <1>4, ChangedSame
  <2>2. call[c].op # "delete"
    BY <1>1 DEF CallInv, Saving
  <2>3. at = "replace" => tmp'[call[c].id] = Whole(call[c].spec)
    BY <1>1, <1>3 DEF IInv, TypeOK
  <2> QED  BY <1>1, <1>2, <1>4, <2>1, <2>2, <2>3 DEF CallInv, Saving
<1>10. ASSUME NEW e \in Clients, e # c PROVE CallInv(e)'
  <2>1. CallInv(e) /\ call'[e] = call[e]
    BY <1>4, <1>10 DEF IInv
  <2>2. call[e].at \notin Saving
    BY <1>1, <1>10, <2>1 DEF CallInv
  <2> QED  BY <1>2, <2>1, <2>2 DEF CallInv, Saving
<1>11. \A t \in Specs : SpecInv(t)'
  BY <1>2 DEF IInv, SpecInv, Present
<1> QED  BY <1>6, <1>7, <1>8, <1>9, <1>10, <1>11 DEF IInv

LEMMA ReplaceKeeps ==
    ASSUME IInv, NEW c \in Clients, ReplaceTmp(c)
    PROVE  IInv'
<1>1. /\ call[c] \in Call /\ CallInv(c) /\ call[c].at \in Saving
      /\ call[c].id \in Specs /\ call[c].spec \in Content /\ lock = c
      /\ tmp[call[c].id] = Whole(call[c].spec)
  BY CallTyped DEF IInv, ReplaceTmp, CallInv, Saving
<1> DEFINE s == call[c].id
<1>2. /\ UNCHANGED <<issued, calls, crashes>> /\ lock' = Free
      /\ file' = [file EXCEPT ![s] = Whole(call[c].spec)]
      /\ tmp' = [tmp EXCEPT ![s] = Absent]
      /\ last' = [last EXCEPT ![s] = call[c].spec]
  BY <1>1 DEF ReplaceTmp
<1>3. /\ call' \in [Clients -> Call \cup {NoCall}]
      /\ call'[c] = NoCall /\ call'[c].at = "idle" /\ call'[c].op = "none"
      /\ \A e \in Clients : e # c => call'[e] = call[e]
  BY AnswerCall DEF IInv, ReplaceTmp
<1>4. s \in issued
  <2>1. call[c].op # "none" /\ SpecInv(s)
    BY <1>1, CallTyped DEF IInv
  <2> QED  BY <1>1, <2>1 DEF CallInv, SpecInv
<1>5. /\ file'[s] = Whole(call[c].spec) /\ last'[s] = call[c].spec
      /\ \A t \in Specs : t # s => file'[t] = file[t] /\ last'[t] = last[t]
      /\ last' \in [Specs -> Content \cup {Nothing}]
      /\ file' \in [Specs -> File] /\ tmp' \in [Specs -> File]
  BY <1>1, <1>2, ConstantsTyped DEF IInv, TypeOK
<1>6. TypeOK'
  BY <1>2, <1>3, <1>5 DEF IInv, TypeOK
<1>7. LockInv'
  BY <1>2 DEF LockInv
<1>8. CreatesDiffer'
  BY <1>3 DEF IInv, CreatesDiffer
<1>9. ASSUME NEW e \in Clients PROVE CallInv(e)'
  <2>1. CASE e = c
    BY <1>3, <2>1 DEF CallInv, Saving, Puts
  <2>2. CASE e # c
    <3>1. CallInv(e) /\ call'[e] = call[e]
      BY <1>3, <2>2 DEF IInv
    <3>2. call[e].at \notin Saving
      BY <1>1, <2>2, <3>1 DEF CallInv
    <3>3. call[e].op = "create" => call[e].id # s
      <4>1. SUFFICES ASSUME call[e].op = "create", call[e].id = s PROVE FALSE
        OBVIOUS
      <4>2. last[s] = Nothing
        BY <3>1, <4>1 DEF CallInv
      <4>3. call[c].op = "create"
        BY <1>1, <4>2 DEF CallInv, Call, Puts
      <4> QED  BY <2>2, <4>1, <4>3 DEF IInv, CreatesDiffer
    <3>4. call[e] = NoCall \/ call[e].id \in Specs
      BY CallTyped DEF IInv
    <3>5. call[e].op = "create" => last'[call[e].id] = Nothing
      BY <1>5, <3>1, <3>3, <3>4, ConstantsTyped DEF CallInv
    <3>6. call[e].op \notin {"create", "none"} => last'[call[e].id] # Nothing
      BY <1>1, <1>5, <3>1, <3>4, ConstantsTyped DEF CallInv
    <3> QED  BY <1>2, <3>1, <3>2, <3>5, <3>6 DEF CallInv, Saving
  <2> QED  BY <2>1, <2>2
<1>10. ASSUME NEW t \in Specs PROVE SpecInv(t)'
  <2>1. SpecInv(t)
    BY DEF IInv
  <2> QED  BY <1>1, <1>2, <1>4, <1>5, <2>1, ConstantsTyped DEF SpecInv, Present
<1> QED  BY <1>6, <1>7, <1>8, <1>9, <1>10 DEF IInv

(* A delete removes the file, whoever holds the lock.                       *)
LEMMA UnlinkKeeps ==
    ASSUME IInv, NEW c \in Clients, UnlinkFile(c)
    PROVE  IInv'
<1>1. call[c] \in Call /\ CallInv(c) /\ call[c].at \notin Saving /\ call[c].id \in Specs
  BY CallTyped DEF IInv, UnlinkFile, Saving
<1>2. CASE UNCHANGED file
  BY <1>1, <1>2, AnswerKeeps DEF UnlinkFile
<1>3. CASE file' = [file EXCEPT ![call[c].id] = Absent]
  <2>1. UNCHANGED <<issued, tmp, lock, last, calls, crashes>>
    BY DEF UnlinkFile
  <2>2. /\ call' \in [Clients -> Call \cup {NoCall}]
        /\ call'[c] = NoCall /\ call'[c].at = "idle" /\ call'[c].op = "none"
        /\ \A e \in Clients : e # c => call'[e] = call[e]
    BY AnswerCall DEF IInv, UnlinkFile
  <2>3. TypeOK'
    BY <1>3, <2>1, <2>2, ConstantsTyped DEF IInv, TypeOK
  <2>4. LockInv'
    BY <1>1, <2>1, <2>2 DEF IInv, LockInv, TypeOK
  <2>5. CreatesDiffer'
    BY <2>2 DEF IInv, CreatesDiffer
  <2>6. ASSUME NEW e \in Clients PROVE CallInv(e)'
    <3>1. CASE e = c
      BY <2>2, <3>1 DEF CallInv, Saving, Puts
    <3>2. CASE e # c
      <4>1. CallInv(e) /\ call'[e] = call[e]
        BY <2>2, <3>2 DEF IInv
      <4> QED  BY <2>1, <4>1 DEF CallInv, Changed
    <3> QED  BY <3>1, <3>2
  <2>7. ASSUME NEW t \in Specs PROVE SpecInv(t)'
    <3>1. SpecInv(t) /\ (file'[t] = file[t] \/ file'[t] = Absent)
      BY <1>1, <1>3 DEF IInv, TypeOK
    <3> QED  BY <2>1, <3>1, ConstantsTyped DEF SpecInv, Present
  <2> QED  BY <2>3, <2>4, <2>5, <2>6, <2>7 DEF IInv
<1> QED  BY <1>2, <1>3 DEF UnlinkFile

LEMMA CrashKeeps ==
    ASSUME IInv, Crash PROVE IInv'
<1>1. /\ call' = [e \in Clients |-> NoCall] /\ lock' = Free
      /\ UNCHANGED <<issued, file, tmp, last, calls>> /\ crashes' = crashes + 1
      /\ crashes < MaxCrash
  BY DEF Crash
<1>2. TypeOK'
  BY <1>1, ConstantsAssumption DEF IInv, TypeOK, ConstantsAssumption
<1>3. LockInv' /\ CreatesDiffer'
  BY <1>1, ConstantsTyped DEF LockInv, CreatesDiffer
<1>4. ASSUME NEW e \in Clients PROVE CallInv(e)'
  BY <1>1, ConstantsTyped DEF CallInv, Saving, Puts
<1>5. \A t \in Specs : SpecInv(t)'
  BY <1>1 DEF IInv, SpecInv, Present
<1> QED  BY <1>2, <1>3, <1>4, <1>5 DEF IInv

LEMMA IInvNext ==
    ASSUME IInv, [Next]_vars PROVE IInv'
<1>1. ASSUME NEW c \in Clients, NEW s \in Specs, Arrive(c, s) PROVE IInv'
  BY <1>1, ArriveKeeps
<1>2. ASSUME NEW c \in Clients, Step(c) PROVE IInv'
  <2>1. CASE Snapshot(c) \/ Match(c) \/ CheckFile(c)
    BY <2>1, UnlockedKeeps
  <2>2. CASE Lookup(c)
    BY <2>2, LookupKeeps
  <2>3. CASE OpenTmp(c) \/ WriteTmp(c)
    BY <2>3, WritingKeeps
  <2>4. CASE ReplaceTmp(c)
    BY <2>4, ReplaceKeeps
  <2>5. CASE SaveRaises(c)
    <3>1. call[c] \in Call /\ call[c].at \in Saving
      BY <2>5, CallTyped DEF IInv, SaveRaises, Saving
    <3> QED  BY <2>5, <3>1, AnswerKeeps DEF SaveRaises
  <2>6. CASE UnlinkFile(c)
    BY <2>6, UnlinkKeeps
  <2> QED  BY <1>2, <2>1, <2>2, <2>3, <2>4, <2>5, <2>6 DEF Step
<1>3. CASE Crash
  BY <1>3, CrashKeeps
<1>4. CASE UNCHANGED vars
  BY <1>4 DEF vars, IInv, TypeOK, LockInv, CreatesDiffer, CallInv, SpecInv, Present, Changed
<1> QED  BY <1>1, <1>2, <1>3, <1>4 DEF Next

-----------------------------------------------------------------------------
(* The invariant holds of every state of the service.                       *)
THEOREM Invariance == Spec => []IInv
<1>1. Init => IInv
  BY IInvInit
<1>2. IInv /\ [Next]_vars => IInv'
  BY IInvNext
<1> QED  BY <1>1, <1>2, PTL DEF Spec

(* Every variable keeps its type.                                           *)
THEOREM TypeCorrect == Spec => []TypeOK
<1>1. IInv => TypeOK
  BY DEF IInv
<1> QED  BY <1>1, Invariance, PTL

(* <id>.json is not there or holds the whole spec stored last, at any       *)
(* moment: the lock keeps two saves off each other's temporary file.        *)
THEOREM WholeSpecs == Spec => []ReadersSeeWholeSpecs
<1>1. IInv => ReadersSeeWholeSpecs
  BY DEF IInv, SpecInv, ReadersSeeWholeSpecs
<1> QED  BY <1>1, Invariance, PTL

(* Every arrival puts a call that has not read anything into an idle thread. *)
LEMMA Arrival ==
    ASSUME NEW c \in Clients, NEW s \in Specs, Arrive(c, s)
    PROVE  /\ UNCHANGED <<file, last>> /\ call[c] = NoCall
           /\ \E r : call' = [call EXCEPT ![c] = r] /\ r.at \in {"lookup", "snapshot", "check"}
<1>1. ASSUME NEW op, NEW at \in {"lookup", "snapshot", "check"}, NEW x, NEW d,
             Request(c, op, at, s, x, d)
      PROVE  /\ UNCHANGED <<file, last>> /\ call[c] = NoCall
             /\ \E r : call' = [call EXCEPT ![c] = r] /\ r.at \in {"lookup", "snapshot", "check"}
  <2> DEFINE r == [op |-> op, at |-> at, id |-> s, scan |-> x, spec |-> d]
  <2>1. call' = [call EXCEPT ![c] = r] /\ r.at = at
    BY <1>1 DEF Request
  <2> QED  BY <1>1, <2>1 DEF Request
<1>2. ASSUME NEW d, Create(c, s, d) \/ Update(c, s, d)
      PROVE  \E op : Request(c, op, "lookup", s, None, d)
  BY <1>2 DEF Create, Update, Existing
<1>3. ASSUME NEW b, WizardSave(c, s, b)
      PROVE  Request(c, "wizard", "lookup", s, None, [body |-> b, links |-> {}])
  BY <1>3 DEF WizardSave, Existing
<1>4. ASSUME NEW x, LinkScan(c, s, x) \/ UnlinkScan(c, s, x)
      PROVE  \E op : Request(c, op, "lookup", s, x, Nothing)
  BY <1>4 DEF LinkScan, UnlinkScan, Existing
<1>5. ASSUME NEW x, Reconcile(c, s, x)
      PROVE  Request(c, "reconcile", "snapshot", s, x, Nothing)
  BY <1>5 DEF Reconcile, Existing
<1>6. ASSUME Delete(c, s)
      PROVE  Request(c, "delete", "check", s, None, Nothing)
  BY <1>6 DEF Delete, Existing
<1>7. \E op, x, d : \E at \in {"lookup", "snapshot", "check"} : Request(c, op, at, s, x, d)
  BY <1>2, <1>3, <1>4, <1>5, <1>6 DEF Arrive
<1> QED  BY <1>1, <1>7

(* A deleted spec no change under way can bring back stays deleted.         *)
THEOREM Deleted == Spec => GoneForGood
<1>1. ASSUME IInv, [Next]_vars, NEW s \in Specs, Gone(s)
      PROVE  Gone(s)'
  <2>1. ASSUME NEW c \in Clients, NEW t \in Specs, Arrive(c, t)
        PROVE  Gone(s)'
    <3>1. UNCHANGED <<file, last>>
      BY <2>1, Arrival
    <3>2. PICK r : call' = [call EXCEPT ![c] = r] /\ r.at \notin Saving
      BY <2>1, Arrival DEF Saving
    <3> QED  BY <1>1, <3>1, <3>2 DEF Gone, InFlight, Present, IInv, TypeOK
  <2>2. ASSUME NEW c \in Clients, Step(c)
        PROVE  Gone(s)'
    <3>1. call[c] \in Call /\ CallInv(c) /\ call \in [Clients -> Call \cup {NoCall}]
      BY <1>1, <2>2, CallTyped DEF IInv, TypeOK, Step, Snapshot, Match, Lookup, OpenTmp, WriteTmp,
                             ReplaceTmp, SaveRaises, CheckFile, UnlinkFile, Saving
    <3>2. CASE Lookup(c) /\ HasToSave(call[c])
      <4>1. call[c].id # s
        BY <1>1, <3>1, <3>2, LookupFinds DEF Lookup, Gone, CallInv
      <4> QED  BY <1>1, <3>1, <3>2, <4>1 DEF Lookup, Goto, Gone, InFlight, Present, Call
    <3>3. CASE OpenTmp(c) \/ WriteTmp(c)
      <4>1. call[c].id # s
        BY <1>1, <3>3 DEF OpenTmp, WriteTmp, Gone, InFlight, Saving
      <4> QED  BY <1>1, <3>1, <3>3, <4>1
               DEF OpenTmp, WriteTmp, Goto, Gone, InFlight, Present, Call
    <3>4. CASE ReplaceTmp(c)
      <4>1. call[c].id # s /\ call[c].id \in Specs
        BY <1>1, <3>1, <3>4 DEF ReplaceTmp, Gone, InFlight, Saving, Call
      <4> QED  BY <1>1, <3>1, <3>4, <4>1, ConstantsTyped
               DEF ReplaceTmp, Answer, Gone, InFlight, Present, Saving, IInv, TypeOK
    <3>5. CASE UnlinkFile(c)
      <4>1. last' = last /\ (file'[s] = file[s] \/ file'[s] = Absent)
        BY <1>1, <3>5 DEF UnlinkFile, IInv, TypeOK
      <4> QED  BY <1>1, <3>1, <3>5, <4>1, ConstantsTyped
               DEF UnlinkFile, Answer, Gone, InFlight, Present, Saving
    <3>6. CASE UNCHANGED <<file, last>> /\ Answer(c)
      BY <1>1, <3>1, <3>6, ConstantsTyped DEF Answer, Gone, InFlight, Present, Saving
    <3>7. CASE (Snapshot(c) \/ Match(c) \/ CheckFile(c)) /\ ~Answer(c)
      BY <1>1, <3>1, <3>7
      DEF Snapshot, Match, CheckFile, Goto, Gone, InFlight, Present, Saving, Call
    <3> QED  BY <2>2, <3>2, <3>3, <3>4, <3>5, <3>6, <3>7
             DEF Step, Lookup, SaveRaises, Snapshot, Match, CheckFile
  <2>3. CASE Crash
    BY <1>1, <2>3, ConstantsTyped DEF Crash, Gone, InFlight, Present, Saving
  <2>4. CASE UNCHANGED vars
    BY <1>1, <2>4 DEF vars, Gone, InFlight, Present
  <2> QED  BY <1>1, <2>1, <2>2, <2>3, <2>4 DEF Next
<1>2. IInv /\ [Next]_vars => [\A s \in Specs : Gone(s) => Gone(s)']_vars
  BY <1>1
<1> QED  BY <1>2, Invariance, PTL DEF GoneForGood, Spec

-----------------------------------------------------------------------------
(* Refinement: requests take effect as SpecRegistry says.                   *)

LEMMA ReqFrame ==
    ASSUME NEW c \in Clients, \A e \in Clients : e # c => call'[e] = call[e]
    PROVE  [e \in Clients |-> Req(e)]' = [[e \in Clients |-> Req(e)] EXCEPT ![c] = Req(c)']
<1>1. \A e \in Clients : e # c => Req(e)' = Req(e)
  BY DEF Req, Asked
<1> QED  BY <1>1

LEMMA DocFrame ==
    ASSUME UNCHANGED <<file, last>>
    PROVE  [s \in Specs |-> Doc(s)]' = [s \in Specs |-> Doc(s)]
  BY DEF Doc, Present

LEMMA AskedTyped ==
    ASSUME NEW r \in Call
    PROVE  /\ Asked(r) \in Registry!Request
           /\ Asked(r).begun = (r.at \in Saving \cup {"unlink"})
           /\ Asked(r).id = r.id /\ Asked(r).scan = r.scan
           /\ Asked(r).content = IF r.op \in Puts THEN r.spec ELSE Nothing
           /\ Asked(r).op = CASE r.op \in {"update", "wizard"} -> "put"
                              [] r.op = "reconcile" -> "link"
                              [] OTHER -> r.op
  BY DEF Asked, Call, Puts, Registry!Request, Registry!Content, Registry!Nothing,
         Content, Nothing

(* A request arrives.                                                       *)
LEMMA ArriveAsks ==
    ASSUME IInv, NEW c \in Clients, NEW s \in Specs, Arrive(c, s)
    PROVE  Registry!Ask(c)
<1>1. /\ UNCHANGED <<file, last>> /\ call[c] = NoCall
      /\ \E r : call' = [call EXCEPT ![c] = r] /\ r.at \notin Saving \cup {"unlink"}
                  /\ r.at # "idle"
  BY Arrival DEF Saving
<1>2. PICK r : call' = [call EXCEPT ![c] = r] /\ r.at \notin Saving \cup {"unlink"}
               /\ r.at # "idle"
  BY <1>1
<1>3. IInv'
  BY ArriveKeeps
<1>4. call'[c] = r /\ \A e \in Clients : e # c => call'[e] = call[e]
  BY <1>2 DEF IInv, TypeOK
<1>5. r \in Call /\ r # NoCall
  BY <1>2, <1>3, <1>4, ConstantsTyped DEF IInv, TypeOK
<1>6. Req(c) = {} /\ Req(c)' = {Asked(r)}
  BY <1>1, <1>4, <1>5 DEF Req, Asked
<1>7. Asked(r) \in Registry!Request /\ ~Asked(r).begun
  BY <1>2, <1>5, AskedTyped
<1>8. [e \in Clients |-> Req(e)]' = [[e \in Clients |-> Req(e)] EXCEPT ![c] = {Asked(r)}]
  BY <1>4, <1>6, ReqFrame
<1>9. UNCHANGED [t \in Specs |-> Doc(t)]
  BY <1>1, DocFrame
<1> QED  BY <1>6, <1>7, <1>8, <1>9 DEF Registry!Ask

(* A request that is answered without having stored or removed anything.    *)
LEMMA AnswerHasNoEffect ==
    ASSUME IInv, NEW c \in Clients, call[c] \in Call, Answer(c), UNCHANGED <<file, last>>
    PROVE  Registry!NoEffect(c)
<1>1. Req(c) # {} /\ Req(c)' = {}
  BY AnswerCall, ConstantsTyped DEF IInv, Req
<1>2. [e \in Clients |-> Req(e)]' = [[e \in Clients |-> Req(e)] EXCEPT ![c] = {}]
  BY <1>1, AnswerCall, ReqFrame DEF IInv
<1> QED  BY <1>1, <1>2, DocFrame DEF Registry!NoEffect

(* A request that moves on is the same request, begun or not.               *)
LEMMA GotoAsks ==
    ASSUME IInv, NEW c \in Clients, call[c] \in Call,
           NEW at \in {"match", "lookup", "unlink"} \cup Saving,
           NEW d \in Content \cup {Nothing}, Goto(c, at, d), UNCHANGED <<file, last>>,
           call[c].op \in Puts => d = call[c].spec,
           call[c].op # "create" => Present(call[c].id),
           at \in Saving \cup {"unlink"} \/ call[c].at \notin Saving \cup {"unlink"}
    PROVE  Registry!Begin(c) \/ UNCHANGED Registry!vars
<1>1. /\ call'[c] \in Call /\ call'[c].at = at /\ call'[c].spec = d
      /\ call'[c].op = call[c].op /\ call'[c].id = call[c].id
      /\ call'[c].scan = call[c].scan
      /\ \A e \in Clients : e # c => call'[e] = call[e]
  BY GotoCall DEF IInv
<1>2. Req(c) = {Asked(call[c])} /\ Req(c)' = {Asked(call'[c])}
  BY <1>1, ConstantsTyped DEF Req, Asked
<1>3. [e \in Clients |-> Req(e)]' =
         [[e \in Clients |-> Req(e)] EXCEPT ![c] = {Asked(call'[c])}]
  BY <1>1, <1>2, ReqFrame
<1>4. UNCHANGED [s \in Specs |-> Doc(s)]
  BY DocFrame
<1>5. CASE at \notin Saving \cup {"unlink"}
  <2>1. Asked(call'[c]) = Asked(call[c])
    BY <1>1, <1>5 DEF Asked
  <2> QED  BY <1>2, <1>3, <1>4, <2>1 DEF Registry!vars
<1>6. CASE at \in Saving \cup {"unlink"}
  <2>1. Asked(call'[c]) = [Asked(call[c]) EXCEPT !.begun = TRUE]
    <3>1. Asked(call'[c]).begun = TRUE
      BY <1>1, <1>6, AskedTyped
    <3>2. /\ Asked(call'[c]).op = Asked(call[c]).op /\ Asked(call'[c]).id = Asked(call[c]).id
          /\ Asked(call'[c]).scan = Asked(call[c]).scan
          /\ Asked(call'[c]).content = Asked(call[c]).content
      BY <1>1, AskedTyped
    <3> DEFINE q == Asked(call[c])  r == Asked(call'[c])
    <3>3. q \in Registry!Request /\ r \in Registry!Request
      BY <1>1, AskedTyped
    <3> HIDE DEF q, r
    <3>4. [q EXCEPT !.begun = TRUE] \in Registry!Request
      BY <3>3 DEF Registry!Request
    <3>5. r.begun = TRUE /\ r.op = q.op /\ r.id = q.id /\ r.scan = q.scan
          /\ r.content = q.content
      BY <3>1, <3>2 DEF q, r
    <3>6. r = [q EXCEPT !.begun = TRUE]
      BY <3>3, <3>4, <3>5 DEF Registry!Request
    <3> QED  BY <3>6 DEF q, r
  <2>2. /\ call[c].id \in Specs /\ Asked(call[c]).id = call[c].id
        /\ Asked(call[c]).op = "create" <=> call[c].op = "create"
    BY AskedTyped DEF Call, Puts
  <2>3. call[c].op = "create" => Doc(call[c].id).content = Nothing
    BY DEF IInv, CallInv, Doc
  <2>4. call[c].op # "create" => Doc(call[c].id).there
    BY DEF Doc
  <2>5. IF Asked(call[c]).op = "create"
        THEN [s \in Specs |-> Doc(s)][Asked(call[c]).id].content = Registry!Nothing
        ELSE [s \in Specs |-> Doc(s)][Asked(call[c]).id].there
    BY <2>2, <2>3, <2>4 DEF Nothing, Registry!Nothing
  <2> QED  BY <1>2, <1>3, <1>4, <2>1, <2>5 DEF Registry!Begin
<1> QED  BY <1>5, <1>6

(* The rename stores the change of what is stored now.                      *)
LEMMA ReplaceStores ==
    ASSUME IInv, NEW c \in Clients, ReplaceTmp(c)
    PROVE  Registry!Store(c)
<1>s. PICK s : s = call[c].id
  OBVIOUS
<1>1. /\ call[c] \in Call /\ CallInv(c) /\ call[c].at = "replace"
      /\ s \in Specs /\ call[c].spec \in Content /\ tmp[s] = Whole(call[c].spec)
      /\ call[c].op # "delete"
  BY <1>s, CallTyped DEF IInv, ReplaceTmp, CallInv, Saving
<1>2. Req(c) = {Asked(call[c])} /\ Req(c)' = {}
  BY <1>1, AnswerCall, ConstantsTyped DEF ReplaceTmp, IInv, Req
<1>3. [e \in Clients |-> Req(e)]' = [[e \in Clients |-> Req(e)] EXCEPT ![c] = {}]
  BY <1>2, AnswerCall, ReqFrame DEF ReplaceTmp, IInv
<1>4. /\ Asked(call[c]).id = s /\ Asked(call[c]).begun /\ Asked(call[c]).op # "delete"
  BY <1>s, <1>1, AskedTyped DEF Saving, Call, Puts
<1>5. Registry!Effect(Asked(call[c]), last[s]) = call[c].spec
  <2>1. call[c].op \in Puts \cup {"link", "reconcile", "unlink"}
    BY <1>1 DEF Call
  <2>2. CASE call[c].op \in Puts
    BY <1>1, <2>2, AskedTyped DEF Registry!Effect, Puts
  <2>3. CASE call[c].op \in {"link", "reconcile", "unlink"}
    <3>1. call[c].spec = Changed(call[c], last[s])
      BY <1>s, <1>1, <2>3 DEF CallInv, Saving, Puts
    <3> QED  BY <1>1, <2>3, <3>1, AskedTyped DEF Registry!Effect, Changed
  <2> QED  BY <2>1, <2>2, <2>3
<1>6. /\ Doc(s)' = [there |-> TRUE, content |-> call[c].spec]
      /\ \A t \in Specs : t # s => Doc(t)' = Doc(t)
  BY <1>s, <1>1, ConstantsTyped DEF ReplaceTmp, IInv, TypeOK, Doc, Present
<1>7. [t \in Specs |-> Doc(t)]' =
         [[t \in Specs |-> Doc(t)] EXCEPT
            ![s] = [there |-> TRUE, content |-> Registry!Effect(Asked(call[c]),
                                              [t \in Specs |-> Doc(t)][s].content)]]
  BY <1>1, <1>5, <1>6 DEF Doc
<1> QED  BY <1>2, <1>3, <1>4, <1>7 DEF Registry!Store

LEMMA UnlinkRemoves ==
    ASSUME IInv, NEW c \in Clients, UnlinkFile(c), ~UNCHANGED file
    PROVE  Registry!Remove(c)
<1>s. PICK s : s = call[c].id
  OBVIOUS
<1>1. /\ call[c] \in Call /\ CallInv(c) /\ call[c].at = "unlink" /\ s \in Specs
      /\ call[c].op = "delete"
  BY <1>s, CallTyped DEF IInv, UnlinkFile, CallInv
<1>2. Req(c) = {Asked(call[c])} /\ Req(c)' = {}
  BY <1>1, AnswerCall, ConstantsTyped DEF UnlinkFile, IInv, Req
<1>3. [e \in Clients |-> Req(e)]' = [[e \in Clients |-> Req(e)] EXCEPT ![c] = {}]
  BY <1>2, AnswerCall, ReqFrame DEF UnlinkFile, IInv
<1>4. /\ Asked(call[c]).id = s /\ Asked(call[c]).begun /\ Asked(call[c]).op = "delete"
  BY <1>s, <1>1, AskedTyped DEF Saving, Call, Puts
<1>5. /\ Doc(s)' = [there |-> FALSE, content |-> last[s]]
      /\ \A t \in Specs : t # s => Doc(t)' = Doc(t)
  BY <1>s, <1>1, ConstantsTyped DEF UnlinkFile, IInv, TypeOK, Doc, Present
<1>6. [t \in Specs |-> Doc(t)]' = [[t \in Specs |-> Doc(t)] EXCEPT ![s].there = FALSE]
  BY <1>1, <1>5 DEF Doc
<1> QED  BY <1>2, <1>3, <1>4, <1>6 DEF Registry!Remove

LEMMA StepRefines ==
    ASSUME IInv, [Next]_vars
    PROVE  [Registry!Next]_(Registry!vars)
<1>1. ASSUME NEW c \in Clients, NEW s \in Specs, Arrive(c, s)
      PROVE  Registry!Next
  BY <1>1, ArriveAsks DEF Registry!Next
<1>2. ASSUME NEW c \in Clients, Step(c)
      PROVE  Registry!Next \/ UNCHANGED Registry!vars
  <2>1. /\ call[c] \in Call /\ CallInv(c) /\ call[c].spec \in Content \cup {Nothing}
        /\ call[c].id \in Specs
    BY <1>2, CallTyped DEF IInv, TypeOK, Step, Snapshot, Match, Lookup, OpenTmp, WriteTmp,
                           ReplaceTmp, SaveRaises, CheckFile, UnlinkFile, Saving
  <2>2. CASE ReplaceTmp(c)
    BY <2>2, ReplaceStores DEF Registry!Next
  <2>3. CASE UnlinkFile(c) /\ ~UNCHANGED file
    BY <2>3, UnlinkRemoves DEF Registry!Next
  <2>4. CASE Answer(c) /\ UNCHANGED <<file, last>>
    BY <2>1, <2>4, AnswerHasNoEffect DEF Registry!Next
  <2>5. CASE Lookup(c) /\ HasToSave(call[c])
    <3> DEFINE d == Changed(call[c], file[call[c].id].spec)
    <3>1. /\ call[c].op # "create" => Present(call[c].id)
          /\ d \in Content /\ call[c].at = "lookup"
      BY <2>1, <2>5, LookupFinds DEF Lookup
    <3>2. call[c].op \in Puts => d = call[c].spec
      BY DEF Changed, Puts
    <3>3. Goto(c, "open", d) /\ UNCHANGED <<file, last>>
      BY <2>5 DEF Lookup
    <3> HIDE DEF d
    <3> QED  BY <2>1, <3>1, <3>2, <3>3, GotoAsks DEF Saving, Registry!Next
  <2>6. CASE CheckFile(c) /\ ~Answer(c)
    <3>1. /\ Goto(c, "unlink", Nothing) /\ UNCHANGED <<file, last>>
          /\ Present(call[c].id) /\ call[c].op = "delete"
      BY <2>1, <2>6 DEF CheckFile, CallInv
    <3> QED  BY <2>1, <3>1, GotoAsks DEF Puts, Registry!Next
  <2>7. CASE (Snapshot(c) \/ Match(c) \/ OpenTmp(c) \/ WriteTmp(c)) /\ ~Answer(c)
    <3>1. PICK at \in {"match", "lookup"} \cup Saving, d \in Content \cup {Nothing} :
            /\ Goto(c, at, d) /\ (call[c].op \in Puts => d = call[c].spec)
            /\ at \in Saving <=> call[c].at \in Saving
            /\ call[c].at # "unlink"
      <4>1. file[call[c].id].spec \in Content \cup {Nothing}
        BY <2>1 DEF IInv, TypeOK, File
      <4>2. Snapshot(c) => call[c].op \notin Puts
        BY <2>1 DEF Snapshot, CallInv, Puts
      <4> QED  BY <2>1, <2>7, <4>1, <4>2 DEF Snapshot, Match, OpenTmp, WriteTmp, Saving
    <3>2. UNCHANGED <<file, last>>
      BY <2>7 DEF Snapshot, Match, OpenTmp, WriteTmp
    <3>3. /\ call'[c] \in Call /\ call'[c].at = at /\ call'[c].spec = d
          /\ call'[c].op = call[c].op /\ call'[c].id = call[c].id
          /\ call'[c].scan = call[c].scan
          /\ \A e \in Clients : e # c => call'[e] = call[e]
      BY <2>1, <3>1, GotoCall DEF IInv
    <3>4. Asked(call'[c]) = Asked(call[c])
      BY <3>1, <3>3 DEF Asked, Saving
    <3>5. Req(c)' = Req(c)
      BY <2>1, <3>3, <3>4, ConstantsTyped DEF Req, Asked
    <3>6. ASSUME NEW e \in Clients PROVE Req(e)' = Req(e)
      <4>1. CASE e = c
        BY <3>5, <4>1
      <4>2. CASE e # c
        BY <3>3, <4>2 DEF Req, Asked
      <4> QED  BY <4>1, <4>2
    <3>7. UNCHANGED [e \in Clients |-> Req(e)]
      BY <3>6
    <3>8. UNCHANGED [s \in Specs |-> Doc(s)]
      BY <3>2, DocFrame
    <3> QED  BY <3>7, <3>8 DEF Registry!vars
  <2>8. SaveRaises(c) \/ (Lookup(c) /\ ~HasToSave(call[c]))
           \/ (UnlinkFile(c) /\ UNCHANGED file)
           \/ ((Snapshot(c) \/ Match(c) \/ CheckFile(c)) /\ Answer(c))
        => Answer(c) /\ UNCHANGED <<file, last>>
    BY DEF Lookup, SaveRaises, UnlinkFile, Snapshot, Match, CheckFile
  <2>9. OpenTmp(c) \/ WriteTmp(c) => UNCHANGED <<file, last>>
    BY DEF OpenTmp, WriteTmp
  <2> QED  BY <1>2, <2>2, <2>3, <2>4, <2>5, <2>6, <2>7, <2>8, <2>9 DEF Step
<1>3. CASE Crash
  <2>1. \A e \in Clients : Req(e)' = {}
    BY <1>3 DEF Crash, Req
  <2> QED  BY <1>3, <2>1, DocFrame DEF Crash, Registry!Next, Registry!Restart
<1>4. CASE UNCHANGED vars
  BY <1>4 DEF vars, Doc, Present, Req, Asked, Registry!vars
<1> QED  BY <1>1, <1>2, <1>3, <1>4 DEF Next

(* The service, with its threads, lock and files, implements the registry.  *)
THEOREM Refinement == Spec => ImplementsRegistry
<1>1. Init => Registry!Init
  <2>1. ASSUME Init, NEW s \in Specs PROVE Doc(s) = [there |-> FALSE, content |-> Nothing]
    BY <2>1, ConstantsTyped DEF Init, Doc, Present
  <2>2. ASSUME Init, NEW c \in Clients PROVE Req(c) = {}
    BY <2>2 DEF Init, Req
  <2> QED  BY <2>1, <2>2 DEF Registry!Init, Registry!Nothing, Nothing
<1>2. IInv /\ [Next]_vars
        => [Registry!Next]_(Registry!vars)
  BY StepRefines
<1> QED  BY <1>1, <1>2, Invariance, PTL DEF Spec, ImplementsRegistry, Registry!Spec
=============================================================================
