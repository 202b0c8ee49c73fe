------------------------- MODULE SpecDocumentProofs -------------------------
(***************************************************************************)
(* Proofs about SpecDocument, for any spec, any scans, any number of       *)
(* features, and any timeout that is longer than a message takes.          *)
(* The invariant has a part for the runner and its client (RunnerOK and    *)
(* AgentsOK), which the steps of the runner keep whatever asks it, and one *)
(* for the handler (HandlerOK, GatheredOK, NarrativesOK).                  *)
(***************************************************************************)
EXTENDS SpecDocument, FiniteSetTheorems, WellFoundedInduction, TLAPS

(* The client waits for call i since t, or has what the call ended with.    *)
Waits(i, t) == [waits |-> i, age |-> t, got |-> "nothing", call |-> 0]
Got(i, g) == [waits |-> 0, age |-> 0, got |-> g, call |-> i]

Clients == {o.client : o \in AskedFor}
Call == [phase : Phases, age : 0..Timeout, answer : Answers, topic : Topics, sender : Clients]

CallOK(c) ==
    /\ c.phase # "over" => c.age <= Due(c)
    /\ c.phase = "response" => c.answer \in {"text", "error"}

(* The client waits for the last of n calls, or has got what it ended with, *)
(* or neither.                                                              *)
ClientOK(cl, n) ==
    \/ cl = Nobody
    \/ n # 0 /\ \E t \in 0..Timeout : cl = Waits(n, t)
    \/ n # 0 /\ \E g \in {"text", "error"} : cl = Got(n, g)

RunnerOK ==
    /\ calls \in Seq(Call) /\ \A i \in DOMAIN calls : CallOK(calls[i])
    /\ ClientOK(client, Len(calls))
    /\ breaks \in 0..MaxBreaks

HandlerOK ==
    /\ spec \in BOOLEAN /\ scans \in [DOMAIN Found -> ScanStates]
    /\ pc \in {"read", "not found", "gather", "narrate", "answered"}
    /\ options \in AskedFor
    /\ gathered \in SUBSET DOMAIN Found /\ doneBefore \in SUBSET DOMAIN Found
    /\ next \in Nat \ {0}
    /\ next <= (IF pc = "gather" THEN Len(Linked) ELSE Len(Features)) + 1
    /\ pc = "read" => next = 1
    /\ client # Nobody => pc = "narrate" /\ next <= Len(Features)

(* Of the scans that were done and still are, none is passed over; only     *)
(* linked scans that have ended are gathered.                               *)
Past(i) == IF pc = "gather" THEN i < next ELSE pc \in {"narrate", "answered"}
GatheredOK ==
    /\ \A s \in doneBefore : scans[s] # "running"
    /\ \A i \in DOMAIN Linked :
          Past(i) /\ Linked[i] \in doneBefore \cap Done => Linked[i] \in gathered
    /\ \A s \in gathered :
          scans[s] \in {"done", "saved", "failed"} /\ \E i \in DOMAIN Linked : s = Linked[i]

(* The call is about the feature whose turn it is, and a narrative is of a  *)
(* prompt for a feature of its name.                                        *)
NarrativesOK ==
    /\ client # Nobody => calls[Len(calls)].topic = Prompt(next)
    /\ pc \in {"read", "gather", "not found"} => DOMAIN narratives = {}
    /\ \A n \in DOMAIN narratives :
          \E j \in DOMAIN Features : narratives[n] = Prompt(j) /\ Features[j].name = n

(* How the agents are spread over time, with the client waiting for call w  *)
(* since t: B are the calls whose connection broke.  An older call that was *)
(* given up has had all of the client's patience, so that there is only one *)
(* of them that can still have an agent.                                    *)
Left(cs, w, B) == {i \in DOMAIN cs : i \notin B /\ i # w}
Spread(cs, w, t, bs, B) ==
    /\ Cardinality(B) <= bs /\ w \notin B
    /\ \A i \in Left(cs, w, B) :
          /\ cs[i].phase # "request"
          /\ cs[i].phase = "running" => cs[i].age >= Timeout - MaxDelay + t
    /\ \A i, j \in Left(cs, w, B) :
          cs[i].phase = "running" /\ cs[j].phase = "running" => i = j
    /\ w # 0 => /\ cs[w].phase = "request" => cs[w].age = t
                /\ cs[w].phase = "running" => cs[w].age >= t - MaxDelay
AgentsOK == \E B \in SUBSET DOMAIN calls : Spread(calls, client.waits, client.age, breaks, B)

IInv == RunnerOK /\ HandlerOK /\ GatheredOK /\ NarrativesOK /\ AgentsOK

-----------------------------------------------------------------------------
(* What Now does to the calls.                                              *)
Responds(p, a) == p = "response" => a \in {"text", "error"}

LEMMA NowFacts ==
    ASSUME RunnerOK, NEW i \in DOMAIN calls, NEW p \in Phases, NEW a \in Answers,
           Responds(p, a), Now(i, p, a)
    PROVE  /\ calls' \in Seq(Call) /\ Len(calls') = Len(calls) /\ DOMAIN calls' = DOMAIN calls
           /\ \A j \in DOMAIN calls : CallOK(calls'[j])
           /\ \A j \in DOMAIN calls \ {i} : calls'[j] = calls[j]
           /\ calls'[i].phase = p /\ calls'[i].age = 0 /\ calls'[i].answer = a
           /\ calls'[i].topic = calls[i].topic
  <1> DEFINE r == calls[i]
             Is(ph, ag, an) == [phase |-> ph, age |-> ag, answer |-> an, topic |-> r.topic,
                                sender |-> r.sender]
             c == Is(p, 0, a)
  <1>1. r \in Call
    BY DEF RunnerOK
  <1>2. /\ c \in Call
        /\ c.phase = p /\ c.age = 0 /\ c.answer = a /\ c.topic = r.topic
    BY <1>1, RunnerAssumption DEF Call
  <1>3. calls' = [calls EXCEPT ![i] = c]
    <2>1. r = Is(r.phase, r.age, r.answer)
      BY <1>1 DEF Call
    <2>2. [r EXCEPT !.phase = p] = Is(p, r.age, r.answer)
      BY <2>1
    <2>3. [Is(p, r.age, r.answer) EXCEPT !.age = 0] = Is(p, 0, r.answer)
      OBVIOUS
    <2>4. [Is(p, 0, r.answer) EXCEPT !.answer = a] = c
      OBVIOUS
    <2>5. [r EXCEPT !.phase = p, !.age = 0, !.answer = a] = c
      BY <2>2, <2>3, <2>4, Zenon
    <2> QED  BY <2>5, Zenon DEF Now
  <1> HIDE DEF c
  <1>4. /\ calls' \in Seq(Call) /\ Len(calls') = Len(calls) /\ DOMAIN calls' = DOMAIN calls
        /\ \A j \in DOMAIN calls \ {i} : calls'[j] = calls[j]
        /\ calls'[i] = c
    BY <1>2, <1>3 DEF RunnerOK
  <1>5. CallOK(c)
    <2>1. Due(c) \in Nat
      BY RunnerAssumption DEF Due, KilledAfter
    <2> QED  BY <2>1, <1>2 DEF CallOK, Responds
  <1> QED  BY <1>2, <1>4, <1>5 DEF RunnerOK

(* A call that goes on from request to running, or to an end.               *)
GoesOn(cs, ds, i) ==
    /\ DOMAIN ds = DOMAIN cs
    /\ \A j \in DOMAIN cs \ {i} : ds[j] = cs[j]
    /\ \/ ds[i].phase \in {"response", "over"}
       \/ ds[i].phase = "running" /\ ds[i].age = 0
          /\ cs[i].phase = "request" /\ cs[i].age <= MaxDelay

LEMMA SpreadGoesOn ==
    ASSUME NEW cs, NEW ds, NEW i \in DOMAIN cs, NEW w \in Nat, NEW t \in Nat, NEW bs \in Nat,
           NEW B \in SUBSET DOMAIN cs,
           w # 0 => w \in DOMAIN cs,
           Spread(cs, w, t, bs, B), GoesOn(cs, ds, i)
    PROVE  Spread(ds, w, t, bs, B)
  <1>1. Left(ds, w, B) = Left(cs, w, B)
    BY DEF Left, GoesOn
  <1>2. ASSUME NEW j \in Left(cs, w, B)
        PROVE  /\ ds[j].phase # "request"
               /\ ds[j].phase = "running" => ds[j] = cs[j]
    <2>1. CASE j = i
      BY <2>1, <1>2 DEF Spread, GoesOn
    <2>2. CASE j # i
      <3>1. ds[j] = cs[j]
        BY <2>2, <1>2 DEF GoesOn, Left
      <3> QED  BY <3>1, <1>2 DEF Spread
    <2> QED  BY <2>1, <2>2
  <1>3. w # 0 => /\ ds[w].phase = "request" => ds[w].age = t
                 /\ ds[w].phase = "running" => ds[w].age >= t - MaxDelay
    <2> SUFFICES ASSUME w # 0  PROVE  /\ ds[w].phase = "request" => ds[w].age = t
                                      /\ ds[w].phase = "running" => ds[w].age >= t - MaxDelay
      OBVIOUS
    <2>1. CASE w = i
      BY <2>1, RunnerAssumption DEF Spread, GoesOn
    <2>2. CASE w # i
      <3>1. ds[w] = cs[w]
        BY <2>2 DEF GoesOn
      <3> QED  BY <3>1 DEF Spread
    <2> QED  BY <2>1, <2>2
  <1>4. /\ \A j \in Left(ds, w, B) :
              /\ ds[j].phase # "request"
              /\ ds[j].phase = "running" => ds[j].age >= Timeout - MaxDelay + t
        /\ \A j, k \in Left(ds, w, B) :
              ds[j].phase = "running" /\ ds[k].phase = "running" => j = k
    BY <1>1, <1>2 DEF Spread
  <1> QED  BY <1>3, <1>4 DEF Spread

(* The client gives up the call w, when the agent of no other that it gave  *)
(* up can be running, or it is broken.                                      *)
LEMMA SpreadEnds ==
    ASSUME NEW cs, NEW w \in DOMAIN cs, NEW t \in Nat, NEW bs \in Nat,
           NEW B \in SUBSET DOMAIN cs,
           w # 0, DOMAIN cs \subseteq Nat \ {0},
           \A i \in DOMAIN cs : cs[i].age \in Nat,
           \/ cs[w].phase \notin {"request", "running"}
           \/ /\ t = Timeout
              /\ \A i \in DOMAIN cs : cs[i].phase = "request" => cs[i].age <= MaxDelay
              /\ \A i \in DOMAIN cs : cs[i].phase = "running" => cs[i].age <= Timeout,
           Spread(cs, w, t, bs, B)
    PROVE  Spread(cs, 0, 0, bs, B)
  <1>1. Left(cs, 0, B) = Left(cs, w, B) \cup {w}
    BY DEF Left, Spread
  <1>2. \A i \in Left(cs, w, B) : i \in DOMAIN cs
    BY DEF Left
  <1>3. CASE cs[w].phase \notin {"request", "running"}
    <2>1. \A i \in Left(cs, w, B) :
              /\ cs[i].phase # "request"
              /\ cs[i].phase = "running" => cs[i].age >= Timeout - MaxDelay + 0
      BY <1>2, RunnerAssumption DEF Spread
    <2> QED  BY <1>1, <1>3, <2>1 DEF Spread
  <1>4. CASE cs[w].phase \in {"request", "running"}
    <2>1. /\ t = Timeout
          /\ \A i \in DOMAIN cs : cs[i].phase = "request" => cs[i].age <= MaxDelay
          /\ \A i \in DOMAIN cs : cs[i].phase = "running" => cs[i].age <= Timeout
      BY <1>4
    <2>2. \A i \in Left(cs, w, B) : cs[i].phase # "request" /\ cs[i].phase # "running"
      BY <2>1, <1>2, RunnerAssumption DEF Spread
    <2>3. cs[w].phase = "running" /\ cs[w].age >= Timeout - MaxDelay + 0
      BY <2>1, <1>4, RunnerAssumption DEF Spread
    <2> QED  BY <1>1, <2>2, <2>3 DEF Spread
  <1> QED  BY <1>3, <1>4

LEMMA SpreadBreaks ==
    ASSUME NEW cs, NEW w \in DOMAIN cs, NEW t \in Nat, NEW bs \in Nat,
           NEW B \in SUBSET DOMAIN cs,
           0 \notin DOMAIN cs, IsFiniteSet(DOMAIN cs),
           \A i \in DOMAIN cs : cs[i].age \in Nat,
           Spread(cs, w, t, bs, B)
    PROVE  Spread(cs, 0, 0, bs + 1, B \cup {w})
  <1>1. Left(cs, 0, B \cup {w}) = Left(cs, w, B)
    BY DEF Left
  <1>2. IsFiniteSet(B) /\ Cardinality(B \cup {w}) <= bs + 1
    <2>1. IsFiniteSet(B)
      BY FS_Subset
    <2>2. Cardinality(B) \in Nat
      BY <2>1, FS_CardinalityType
    <2>3. Cardinality(B \cup {w}) = Cardinality(B) + 1
      BY <2>1, FS_AddElement DEF Spread
    <2> QED  BY <2>1, <2>2, <2>3 DEF Spread
  <1>3. \A i \in Left(cs, w, B) :
            cs[i].phase = "running" => cs[i].age >= Timeout - MaxDelay + 0
    BY RunnerAssumption DEF Spread, Left
  <1> QED  BY <1>1, <1>2, <1>3 DEF Spread

-----------------------------------------------------------------------------
(* What the types say of the client and of the calls.                       *)
LEMMA CallFacts ==
    ASSUME NEW cs \in Seq(Call)
    PROVE  \A i \in DOMAIN cs : cs[i].age \in 0..Timeout
  <1> SUFFICES ASSUME NEW i \in DOMAIN cs  PROVE  cs[i].age \in 0..Timeout
    OBVIOUS
  <1>1. cs[i] \in Call
    OBVIOUS
  <1> QED  BY <1>1 DEF Call

LEMMA RunnerFacts ==
    ASSUME RunnerOK
    PROVE  /\ Len(calls) \in Nat /\ DOMAIN calls = 1..Len(calls)
           /\ DOMAIN calls \subseteq Nat \ {0} /\ IsFiniteSet(DOMAIN calls)
           /\ \A i \in DOMAIN calls :
                 /\ calls[i] \in Call /\ calls[i].age \in Nat
                 /\ calls[i].phase = "request" => calls[i].age <= MaxDelay
                 /\ calls[i].phase = "running" => calls[i].age <= Timeout
           /\ client.waits \in Nat /\ client.age \in Nat /\ client.age <= Timeout
           /\ client.waits # 0 =>
                 /\ client.waits = Len(calls) /\ client.waits \in DOMAIN calls
                 /\ client = Waits(Len(calls), client.age)
           /\ client.waits = 0 => client.age = 0
           /\ client.got # "nothing" =>
                 /\ client.waits = 0 /\ client.call = Len(calls) /\ Len(calls) # 0
                 /\ client.got \in {"text", "error"}
           /\ client.got \in Answers /\ client.call \in {0, Len(calls)}
           /\ client.waits = 0 /\ client.got = "nothing" => client = Nobody
  <1>1. /\ Len(calls) \in Nat /\ DOMAIN calls = 1..Len(calls)
        /\ DOMAIN calls \subseteq Nat \ {0} /\ IsFiniteSet(DOMAIN calls)
    <2>1. Len(calls) \in Nat /\ DOMAIN calls = 1..Len(calls)
      BY DEF RunnerOK
    <2>2. IsFiniteSet(1..Len(calls))
      BY <2>1, FS_Interval
    <2> QED  BY <2>1, <2>2
  <1>2. ASSUME NEW i \in DOMAIN calls
        PROVE  /\ calls[i] \in Call /\ calls[i].age \in Nat
               /\ calls[i].phase = "request" => calls[i].age <= MaxDelay
               /\ calls[i].phase = "running" => calls[i].age <= Timeout
    <2>1. calls[i] \in Call /\ CallOK(calls[i])
      BY DEF RunnerOK
    <2> QED  BY <2>1, RunnerAssumption DEF Call, CallOK, Due, KilledAfter
  <1>3. CASE client = Nobody
    BY <1>1, <1>2, <1>3, RunnerAssumption DEF Nobody, Answers
  <1>4. ASSUME Len(calls) # 0, NEW t \in 0..Timeout, client = Waits(Len(calls), t)
        PROVE  /\ client.waits = Len(calls) /\ client.age = t /\ t \in Nat /\ t <= Timeout
               /\ client.got = "nothing" /\ client.call = 0
    BY <1>4, RunnerAssumption DEF Waits
  <1>5. ASSUME Len(calls) # 0, NEW g \in {"text", "error"}, client = Got(Len(calls), g)
        PROVE  /\ client.waits = 0 /\ client.age = 0
               /\ client.got = g /\ client.call = Len(calls)
    BY <1>5 DEF Got
  <1> QED
    BY <1>1, <1>2, <1>3, <1>4, <1>5, RunnerAssumption DEF RunnerOK, ClientOK, Answers

(* The steps of the runner and of the client leave the calls as many, each  *)
(* of what it was of, and start no wait.                                    *)
RunnerKeeps ==
    /\ RunnerOK' /\ AgentsOK'
    /\ Len(calls') = Len(calls)
    /\ \A i \in DOMAIN calls : calls'[i].topic = calls[i].topic
    /\ client' # Nobody => client # Nobody

LEMMA GoesOnKeeps ==
    ASSUME RunnerOK, AgentsOK, NEW i \in DOMAIN calls, NEW p \in Phases, NEW a \in Answers,
           Responds(p, a), Now(i, p, a), UNCHANGED <<client, breaks>>,
           p \in {"response", "over"} \/ (p = "running" /\ calls[i].phase = "request")
    PROVE  RunnerKeeps
  <1>1. /\ calls' \in Seq(Call) /\ Len(calls') = Len(calls) /\ DOMAIN calls' = DOMAIN calls
        /\ \A j \in DOMAIN calls : CallOK(calls'[j])
        /\ \A j \in DOMAIN calls \ {i} : calls'[j] = calls[j]
        /\ calls'[i].phase = p /\ calls'[i].age = 0 /\ calls'[i].answer = a
        /\ calls'[i].topic = calls[i].topic
    BY NowFacts
  <1>2. RunnerOK'
    BY <1>1 DEF RunnerOK
  <1>3. GoesOn(calls, calls', i)
    BY <1>1, RunnerFacts DEF GoesOn
  <1>4. PICK B \in SUBSET DOMAIN calls : Spread(calls, client.waits, client.age, breaks, B)
    BY DEF AgentsOK
  <1>5. Spread(calls', client.waits, client.age, breaks, B)
    <2>1. breaks \in Nat
      BY DEF RunnerOK
    <2> QED  BY <1>3, <1>4, <2>1, RunnerFacts, SpreadGoesOn
  <1>6. AgentsOK'
    BY <1>1, <1>5 DEF AgentsOK
  <1> QED  BY <1>1, <1>2, <1>6 DEF RunnerKeeps

(* What an agent makes of a prompt is a completion or an error.             *)
LEMMA AnswerFacts ==
    ASSUME NEW status, NEW r  PROVE  Completion(status, r) \in {"text", "error"}
  BY DEF Completion

LEMMA ArriveKeeps ==
    ASSUME RunnerOK, AgentsOK, NEW i \in DOMAIN calls, Arrive(i)
    PROVE  RunnerKeeps
  <1> DEFINE status == Status(calls[i].sender)
             a == Completion(status, [ok |-> FALSE, output |-> "blank"])
  <1>1. a \in {"text", "error"}
    BY AnswerFacts
  <1> HIDE DEF a
  <1>2. CASE status = 200
    <2>1. Now(i, "running", "nothing") /\ calls[i].phase = "request" /\ UNCHANGED <<client, breaks>>
      BY <1>2 DEF Arrive, Nothing
    <2>2. Responds("running", "nothing") /\ "running" \in Phases /\ "nothing" \in Answers
      BY DEF Responds, Phases, Answers
    <2> QED  BY <2>1, <2>2, GoesOnKeeps
  <1>3. CASE status # 200
    <2>1. Now(i, "response", a) /\ UNCHANGED <<client, breaks>>
      BY <1>3 DEF Arrive, a
    <2>2. Responds("response", a) /\ "response" \in Phases /\ a \in Answers
      BY <1>1 DEF Responds, Phases, Answers
    <2> QED  BY <2>1, <2>2, GoesOnKeeps
  <1> QED  BY <1>2, <1>3

LEMMA AgentKeeps ==
    ASSUME RunnerOK, AgentsOK, NEW i \in DOMAIN calls, AgentEnds(i) \/ AgentKilled(i)
    PROVE  RunnerKeeps
  <1>1. PICK ok \in BOOLEAN, output \in Outputs :
            Now(i, "response", Answer(calls[i].sender, ok, output)) /\ UNCHANGED <<client, breaks>>
    BY DEF AgentEnds, AgentKilled, Outputs
  <1> DEFINE a == Answer(calls[i].sender, ok, output)
  <1>2. a \in {"text", "error"}
    BY AnswerFacts, Zenon DEF Answer
  <1>3. Now(i, "response", a)
    BY <1>1
  <1> HIDE DEF a
  <1>4. Responds("response", a) /\ "response" \in Phases /\ a \in Answers
    BY <1>2 DEF Responds, Phases, Answers
  <1> QED  BY <1>1, <1>3, <1>4, GoesOnKeeps

LEMMA LoseKeeps ==
    ASSUME RunnerOK, AgentsOK, NEW i \in DOMAIN calls, Lose(i)
    PROVE  RunnerKeeps
  <1>1. Responds("over", "nothing") /\ "over" \in Phases /\ "nothing" \in Answers
    BY DEF Responds, Phases, Answers
  <1> QED  BY <1>1, GoesOnKeeps DEF Lose, Nothing

(* The wait for the call ends, with text or with an error.                  *)
LEMMA EndsFacts ==
    ASSUME NEW g \in {"text", "error"}, NEW i, Ends(g, i)
    PROVE  /\ client' = Got(i, g)
           /\ client'.waits = 0 /\ client'.age = 0
  BY DEF Ends, Nobody, Got

LEMMA DeliverKeeps ==
    ASSUME RunnerOK, AgentsOK, NEW i \in DOMAIN calls, Deliver(i)
    PROVE  RunnerKeeps
  <1>1. Responds("over", "nothing") /\ "over" \in Phases /\ "nothing" \in Answers
    BY DEF Responds, Phases, Answers
  <1>2. CASE client.waits # i
    BY <1>1, <1>2, GoesOnKeeps DEF Deliver, Nothing
  <1>3. CASE client.waits = i
    <2>1. /\ calls' \in Seq(Call) /\ Len(calls') = Len(calls) /\ DOMAIN calls' = DOMAIN calls
          /\ \A j \in DOMAIN calls : CallOK(calls'[j])
          /\ \A j \in DOMAIN calls \ {i} : calls'[j] = calls[j]
          /\ calls'[i].phase = "over"
          /\ calls'[i].topic = calls[i].topic
      BY <1>1, NowFacts DEF Deliver, Nothing
    <2>2. calls[i].answer \in {"text", "error"}
      BY DEF Deliver, RunnerOK, CallOK
    <2>3. /\ client' = Got(i, calls[i].answer)
          /\ client'.waits = 0 /\ client'.age = 0
      BY <1>3, <2>2, EndsFacts DEF Deliver
    <2>4. i = Len(calls) /\ Len(calls) # 0 /\ client # Nobody
      BY <1>3, RunnerFacts DEF Nobody
    <2>5. RunnerOK'
      BY <2>1, <2>2, <2>3, <2>4 DEF RunnerOK, ClientOK, Deliver
    <2>6. PICK B \in SUBSET DOMAIN calls : Spread(calls, i, client.age, breaks, B)
      BY <1>3 DEF AgentsOK
    <2>7. breaks \in Nat /\ client.age \in Nat /\ i \in Nat /\ i # 0
      BY RunnerFacts DEF RunnerOK
    <2>8. GoesOn(calls, calls', i)
      BY <2>1 DEF GoesOn
    <2>9. Spread(calls', i, client.age, breaks, B)
      BY <2>6, <2>7, <2>8, SpreadGoesOn
    <2>10. /\ \A j \in DOMAIN calls' : calls'[j].age \in Nat
           /\ DOMAIN calls' \subseteq Nat \ {0}
      <3>1. \A j \in DOMAIN calls' : calls'[j].age \in 0..Timeout
        BY <2>1, CallFacts
      <3> QED  BY <3>1, <2>1, RunnerFacts, RunnerAssumption
    <2>11. Spread(calls', 0, 0, breaks, B)
      BY <2>1, <2>7, <2>9, <2>10, SpreadEnds
    <2>12. AgentsOK'
      BY <2>1, <2>3, <2>11 DEF AgentsOK, Deliver
    <2> QED  BY <2>1, <2>4, <2>5, <2>12 DEF RunnerKeeps
  <1> QED  BY <1>2, <1>3

LEMMA ClientTimesOutKeeps ==
    ASSUME RunnerOK, AgentsOK, ClientTimesOut
    PROVE  RunnerKeeps
  <1>1. /\ client.waits = Len(calls) /\ Len(calls) # 0 /\ client.waits \in DOMAIN calls
        /\ client.age = Timeout /\ UNCHANGED <<calls, breaks>> /\ client # Nobody
    BY RunnerFacts DEF ClientTimesOut, Nobody
  <1>2. client' = Got(client.waits, "error") /\ client'.waits = 0 /\ client'.age = 0
    BY EndsFacts DEF ClientTimesOut
  <1>3. RunnerOK'
    BY <1>1, <1>2 DEF RunnerOK, ClientOK
  <1>4. PICK B \in SUBSET DOMAIN calls : Spread(calls, client.waits, Timeout, breaks, B)
    BY <1>1 DEF AgentsOK
  <1>5. breaks \in Nat /\ Timeout \in Nat
    BY RunnerAssumption DEF RunnerOK
  <1>6. Spread(calls, 0, 0, breaks, B)
    BY <1>1, <1>4, <1>5, RunnerFacts, SpreadEnds
  <1>7. AgentsOK'
    BY <1>1, <1>2, <1>6 DEF AgentsOK
  <1> QED  BY <1>1, <1>3, <1>7 DEF RunnerKeeps

LEMMA BreakKeeps ==
    ASSUME RunnerOK, AgentsOK, Break
    PROVE  RunnerKeeps
  <1> DEFINE w == client.waits
  <1>1. /\ w = Len(calls) /\ Len(calls) # 0 /\ w \in DOMAIN calls
        /\ client # Nobody /\ client.age \in Nat /\ w \in Nat \ {0}
    BY RunnerFacts DEF Break, Nobody
  <1>2. client' = Got(w, "error") /\ client'.waits = 0 /\ client'.age = 0
    BY EndsFacts DEF Break
  <1>3. breaks \in Nat /\ breaks' = breaks + 1 /\ breaks' \in 0..MaxBreaks
    BY RunnerAssumption DEF Break, RunnerOK
  <1>4. /\ calls' \in Seq(Call) /\ Len(calls') = Len(calls) /\ DOMAIN calls' = DOMAIN calls
        /\ \A j \in DOMAIN calls : CallOK(calls'[j])
        /\ \A j \in DOMAIN calls \ {w} : calls'[j] = calls[j]
        /\ calls'[w].topic = calls[w].topic
        /\ calls'[w] = calls[w] \/ calls'[w].phase = "over"
    <2>1. CASE UNCHANGED calls
      BY <2>1 DEF RunnerOK
    <2>2. CASE Now(w, "over", Nothing)
      <3>1. Responds("over", "nothing") /\ "over" \in Phases /\ "nothing" \in Answers
        BY DEF Responds, Phases, Answers
      <3> QED  BY <1>1, <2>2, <3>1, NowFacts DEF Nothing
    <2> QED  BY <2>1, <2>2 DEF Break
  <1> HIDE DEF w
  <1>5. RunnerOK'
    BY <1>1, <1>2, <1>3, <1>4 DEF RunnerOK, ClientOK
  <1>6. PICK B \in SUBSET DOMAIN calls : Spread(calls, w, client.age, breaks, B)
    BY DEF AgentsOK, w
  <1>7. Spread(calls', w, client.age, breaks, B)
    <2>1. CASE calls'[w] = calls[w]
      <3>1. calls' = calls
        BY <1>4, <2>1 DEF RunnerOK
      <3> QED  BY <1>6, <3>1
    <2>2. CASE calls'[w].phase = "over"
      <3>1. GoesOn(calls, calls', w)
        BY <1>4, <2>2 DEF GoesOn
      <3> QED  BY <1>1, <1>3, <1>6, <3>1, SpreadGoesOn
    <2> QED  BY <1>4, <2>1, <2>2
  <1>8. /\ \A j \in DOMAIN calls' : calls'[j].age \in Nat
        /\ 0 \notin DOMAIN calls' /\ IsFiniteSet(DOMAIN calls')
    <2>1. \A j \in DOMAIN calls' : calls'[j].age \in 0..Timeout
      BY <1>4, CallFacts
    <2> QED  BY <2>1, <1>4, RunnerFacts, RunnerAssumption
  <1>9. Spread(calls', 0, 0, breaks + 1, B \cup {w})
    BY <1>1, <1>3, <1>4, <1>7, <1>8, SpreadBreaks
  <1>10. AgentsOK'
    BY <1>1, <1>2, <1>3, <1>4, <1>9 DEF AgentsOK
  <1> QED  BY <1>1, <1>4, <1>5, <1>10 DEF RunnerKeeps

LEMMA TickKeeps ==
    ASSUME RunnerOK, AgentsOK, Tick
    PROVE  RunnerKeeps
  <1> DEFINE Older(r) == [phase |-> r.phase, age |-> r.age + 1, answer |-> r.answer,
                          topic |-> r.topic, sender |-> r.sender]
             Moved(r) == IF r.phase = "over" THEN r ELSE Older(r)
  <1>1. ASSUME NEW i \in DOMAIN calls
        PROVE  /\ calls'[i] = Moved(calls[i])
               /\ Moved(calls[i]) \in Call /\ CallOK(Moved(calls[i]))
    <2>1. calls[i] \in Call /\ CallOK(calls[i]) /\ calls[i].age \in 0..Timeout
      BY CallFacts DEF RunnerOK
    <2>2. [calls[i] EXCEPT !.age = @ + 1] = Older(calls[i])
      BY <2>1 DEF Call
    <2>3. calls'[i] = Moved(calls[i])
      BY <2>2 DEF Tick
    <2>4. CASE calls[i].phase = "over"
      <3>1. Moved(calls[i]) = calls[i]
        BY <2>4, Zenon
      <3> HIDE DEF Moved
      <3> QED  BY <2>1, <2>3, <3>1
    <2>5. CASE calls[i].phase # "over"
      <3>1. calls[i].age < Due(calls[i]) /\ Due(calls[i]) \in Nat /\ Due(calls[i]) <= Timeout
        BY <2>5, RunnerAssumption DEF Tick, Due, KilledAfter
      <3>2. calls[i].age + 1 \in 0..Timeout
        BY <2>1, <3>1, RunnerAssumption
      <3>3. Older(calls[i]) \in Call
        BY <2>1, <3>2 DEF Call
      <3>4. Due(Older(calls[i])) = Due(calls[i])
        BY DEF Due
      <3>5. CallOK(Older(calls[i]))
        BY <2>1, <3>1, <3>4 DEF CallOK
      <3>6. Moved(calls[i]) = Older(calls[i])
        BY <2>5, Zenon
      <3> HIDE DEF Moved, Older
      <3> QED  BY <2>3, <3>3, <3>5, <3>6
    <2> QED  BY <2>3, <2>4, <2>5
  <1>2. ASSUME NEW i \in DOMAIN calls
        PROVE  /\ calls'[i].phase = calls[i].phase /\ calls'[i].topic = calls[i].topic
               /\ calls'[i].phase # "over" => calls'[i].age = calls[i].age + 1
    <2>1. calls'[i] = Moved(calls[i])
      BY <1>1
    <2>2. CASE calls[i].phase = "over"
      <3>1. Moved(calls[i]) = calls[i]
        BY <2>2, Zenon
      <3> HIDE DEF Moved
      <3> QED  BY <2>1, <2>2, <3>1
    <2>3. CASE calls[i].phase # "over"
      <3>1. Moved(calls[i]) = Older(calls[i])
        BY <2>3, Zenon
      <3>2. /\ Older(calls[i]).phase = calls[i].phase
            /\ Older(calls[i]).topic = calls[i].topic
            /\ Older(calls[i]).age = calls[i].age + 1
        OBVIOUS
      <3> HIDE DEF Moved, Older
      <3> QED  BY <2>1, <3>1, <3>2
    <2> QED  BY <2>2, <2>3
  <1> HIDE DEF Moved
  <1>3. DOMAIN calls' = DOMAIN calls /\ Len(calls') = Len(calls) /\ calls' \in Seq(Call)
    <2>1. /\ Len(calls) \in Nat /\ DOMAIN calls = 1..Len(calls)
          /\ calls' = [i \in 1..Len(calls) |->
                          IF calls[i].phase = "over" THEN calls[i]
                          ELSE [calls[i] EXCEPT !.age = @ + 1]]
      BY RunnerFacts DEF Tick
    <2>2. calls' = [i \in 1..Len(calls) |-> calls'[i]]
      BY <2>1
    <2>3. \A i \in 1..Len(calls) : calls'[i] \in Call
      BY <1>1, <2>1
    <2> HIDE DEF Older
    <2>4. calls' \in [1..Len(calls) -> Call]
      BY <2>2, <2>3
    <2> QED  BY <2>1, <2>4
  <1>4. /\ client' = IF client.waits = 0 THEN client ELSE Waits(Len(calls), client.age + 1)
        /\ client'.waits = client.waits
        /\ client.waits = 0 => client'.age = 0
        /\ client.waits # 0 => client'.age = client.age + 1 /\ client.age + 1 \in 0..Timeout
        /\ ClientOK(client', Len(calls)) /\ breaks' = breaks
    <2>1. CASE client.waits = 0
      BY <2>1, RunnerFacts DEF Tick, RunnerOK
    <2>2. CASE client.waits # 0
      <3>1. /\ client = Waits(Len(calls), client.age) /\ client.age < Timeout
            /\ client.age \in Nat /\ Len(calls) # 0
        BY <2>2, RunnerFacts, RunnerAssumption DEF Tick
      <3>2. client.age + 1 \in 0..Timeout
        BY <3>1, RunnerAssumption
      <3>3. client' = Waits(Len(calls), client.age + 1)
        <4>1. client' = [client EXCEPT !.age = client.age + 1]
          BY <2>2 DEF Tick
        <4> QED  BY <3>1, <4>1 DEF Waits
      <3>4. client'.waits = client.waits /\ client'.age = client.age + 1
        BY <2>2, <3>3, RunnerFacts DEF Waits
      <3>5. ClientOK(client', Len(calls))
        BY <3>1, <3>2, <3>3 DEF ClientOK
      <3> QED  BY <2>2, <3>2, <3>3, <3>4, <3>5 DEF Tick
    <2> QED  BY <2>1, <2>2
  <1>5. RunnerOK'
    <2>1. \A i \in DOMAIN calls' : CallOK(calls'[i])
      BY <1>1, <1>3
    <2> QED  BY <1>3, <1>4, <2>1 DEF RunnerOK
  <1>6. PICK B \in SUBSET DOMAIN calls : Spread(calls, client.waits, client.age, breaks, B)
    BY DEF AgentsOK
  <1>7. Spread(calls', client'.waits, client'.age, breaks', B)
    <2>1. Left(calls', client'.waits, B) = Left(calls, client.waits, B)
      BY <1>3, <1>4 DEF Left
    <2>2. \A i \in Left(calls, client.waits, B) : i \in DOMAIN calls
      BY DEF Left
    <2>3. ASSUME NEW i \in Left(calls, client.waits, B)
          PROVE  /\ calls'[i].phase # "request"
                 /\ calls'[i].phase = "running" =>
                        calls'[i].age >= Timeout - MaxDelay + client'.age
      <3>1. i \in DOMAIN calls /\ calls[i].age \in Nat
        BY <2>2, RunnerFacts
      <3>2. /\ calls'[i].phase = calls[i].phase
            /\ calls'[i].phase # "over" => calls'[i].age = calls[i].age + 1
        BY <1>2, <3>1
      <3>3. /\ calls[i].phase # "request"
            /\ calls[i].phase = "running" => calls[i].age >= Timeout - MaxDelay + client.age
        BY <1>6 DEF Spread
      <3>4. client.age \in Nat /\ client'.age \in Nat /\ client'.age <= client.age + 1
        BY <1>4, RunnerFacts
      <3> QED  BY <3>1, <3>2, <3>3, <3>4, RunnerAssumption
    <2>4. \A i, j \in Left(calls, client.waits, B) :
              calls'[i].phase = "running" /\ calls'[j].phase = "running" => i = j
      BY <1>2, <1>6, <2>2 DEF Spread
    <2>5. client.waits # 0 =>
              /\ calls'[client.waits].phase = "request" =>
                     calls'[client.waits].age = client'.age
              /\ calls'[client.waits].phase = "running" =>
                     calls'[client.waits].age >= client'.age - MaxDelay
      <3> SUFFICES ASSUME client.waits # 0
                   PROVE  /\ calls'[client.waits].phase = "request" =>
                                 calls'[client.waits].age = client'.age
                          /\ calls'[client.waits].phase = "running" =>
                                 calls'[client.waits].age >= client'.age - MaxDelay
        OBVIOUS
      <3> DEFINE w == client.waits
      <3>1. w \in DOMAIN calls /\ calls[w].age \in Nat
        BY RunnerFacts
      <3>2. /\ calls'[w].phase = calls[w].phase
            /\ calls'[w].phase # "over" => calls'[w].age = calls[w].age + 1
        BY <1>2, <3>1
      <3>3. /\ calls[w].phase = "request" => calls[w].age = client.age
            /\ calls[w].phase = "running" => calls[w].age >= client.age - MaxDelay
        BY <1>6 DEF Spread
      <3>4. client.age \in Nat /\ client'.age = client.age + 1
        BY <1>4, RunnerFacts
      <3> QED  BY <3>1, <3>2, <3>3, <3>4, RunnerAssumption
    <2> QED  BY <1>4, <1>6, <2>1, <2>3, <2>4, <2>5 DEF Spread
  <1>8. AgentsOK'
    BY <1>3, <1>7 DEF AgentsOK
  <1>9. client' # Nobody => client # Nobody
    BY <1>4 DEF Nobody
  <1> QED  BY <1>2, <1>3, <1>5, <1>8, <1>9 DEF RunnerKeeps

LEMMA PostKeeps ==
    ASSUME RunnerOK, AgentsOK, NEW sender \in Clients, NEW topic \in Topics, Post(sender, topic)
    PROVE  /\ RunnerOK' /\ AgentsOK'
           /\ Len(calls') = Len(calls) + 1 /\ calls'[Len(calls')].topic = topic
  <1> DEFINE c == [phase |-> "request", age |-> 0, answer |-> Nothing, sender |-> sender,
                   topic |-> topic]
             n == Len(calls) + 1
  <1>1. c \in Call /\ CallOK(c) /\ c.phase = "request" /\ c.age = 0 /\ c.topic = topic
    BY RunnerAssumption DEF Call, CallOK, Due, Phases, Answers, Nothing
  <1>2. /\ calls' = Append(calls, c) /\ breaks' = breaks
        /\ client' = [Nobody EXCEPT !.waits = n]
        /\ client.waits = 0 /\ client.age = 0
    BY RunnerFacts DEF Post
  <1> HIDE DEF c
  <1>3. client' = Waits(n, 0)
    BY <1>2 DEF Nobody, Waits
  <1>4. /\ calls' \in Seq(Call) /\ Len(calls') = n /\ n \in Nat \ {0}
        /\ calls'[n] = c /\ DOMAIN calls' = DOMAIN calls \cup {n}
        /\ \A i \in DOMAIN calls : calls'[i] = calls[i]
        /\ n \notin DOMAIN calls
    BY <1>1, <1>2, RunnerFacts DEF RunnerOK
  <1> HIDE DEF n
  <1>5. RunnerOK'
    <2>1. \A i \in DOMAIN calls' : CallOK(calls'[i])
      BY <1>1, <1>4 DEF RunnerOK
    <2>2. ClientOK(client', n)
      BY <1>3, <1>4, RunnerAssumption DEF ClientOK
    <2> QED  BY <1>2, <1>4, <2>1, <2>2 DEF RunnerOK
  <1>6. PICK B \in SUBSET DOMAIN calls : Spread(calls, 0, 0, breaks, B)
    BY <1>2 DEF AgentsOK
  <1>7. Spread(calls', n, 0, breaks, B)
    <2>1. Left(calls', n, B) = Left(calls, 0, B)
      BY <1>4, RunnerFacts DEF Left
    <2>2. \A i \in Left(calls, 0, B) : calls'[i] = calls[i]
      BY <1>4 DEF Left
    <2> QED  BY <1>1, <1>4, <1>6, <2>1, <2>2 DEF Spread
  <1>8. client'.waits = n /\ client'.age = 0
    BY <1>3 DEF Waits
  <1>9. AgentsOK'
    BY <1>2, <1>4, <1>7, <1>8 DEF AgentsOK
  <1> QED  BY <1>1, <1>4, <1>5, <1>9 DEF n

-----------------------------------------------------------------------------
(* Every step keeps the invariant.                                          *)
LEMMA LinkedFacts ==
    /\ Len(Linked) \in Nat /\ DOMAIN Linked = 1..Len(Linked)
    /\ \A i \in DOMAIN Linked : Linked[i] \in DOMAIN Found
    /\ Len(Features) \in Nat /\ DOMAIN Features = 1..Len(Features)
  BY DocumentAssumption

LEMMA PromptKept ==
    ASSUME gathered' = gathered  PROVE  \A i \in DOMAIN Features : Prompt(i)' = Prompt(i)
  BY DEF Prompt, Surfaces

LEMMA PromptFacts ==
    ASSUME NEW i \in DOMAIN Features
    PROVE  /\ Prompt(i) \in Topics
           /\ Prompt(i).name = Features[i].name
           /\ \A e \in Prompt(i).found : /\ ~Features[i].conceptual
                                         /\ Canon(e) \in Confirmed(Surfaces(gathered))
  BY DEF Prompt, Topics

LEMMA RunnerStepKeeps ==
    ASSUME RunnerOK, AgentsOK, ClientTimesOut \/ RunnerStep \/ Tick \/ Chance
    PROVE  RunnerKeeps
  BY ClientTimesOutKeeps, TickKeeps, BreakKeeps, ArriveKeeps, AgentKeeps, DeliverKeeps, LoseKeeps
     DEF RunnerStep, Chance

LEMMA RunnerNext ==
    ASSUME IInv, ClientTimesOut \/ RunnerStep \/ Tick \/ Chance,
           UNCHANGED <<spec, scans, handler>>
    PROVE  IInv'
  <1>1. /\ RunnerOK' /\ AgentsOK' /\ Len(calls') = Len(calls)
        /\ \A i \in DOMAIN calls : calls'[i].topic = calls[i].topic
        /\ client' # Nobody => client # Nobody
    BY RunnerStepKeeps DEF IInv, RunnerKeeps
  <1>2. /\ spec' = spec /\ scans' = scans /\ pc' = pc /\ options' = options /\ next' = next
        /\ gathered' = gathered /\ narratives' = narratives /\ doneBefore' = doneBefore
    BY DEF handler
  <1>3. HandlerOK' /\ GatheredOK'
    <2>1. HandlerOK'
      <3>1. client' # Nobody => pc = "narrate" /\ next <= Len(Features)
        BY <1>1 DEF IInv, HandlerOK
      <3> QED  BY <1>2, <3>1 DEF IInv, HandlerOK
    <2> QED  BY <1>2, <2>1 DEF IInv, GatheredOK, Past, Done
  <1>4. NarrativesOK'
    <2>1. \A i \in DOMAIN Features : Prompt(i)' = Prompt(i)
      BY <1>2, PromptKept
    <2>2. ASSUME client' # Nobody  PROVE  calls'[Len(calls')].topic = Prompt(next)'
      <3>1. next \in DOMAIN Features
        BY <1>1, <2>2, LinkedFacts DEF IInv, HandlerOK
      <3>2. Len(calls) # 0
        BY <1>1, <2>2 DEF IInv, RunnerOK, ClientOK
      <3>3. Len(calls) \in DOMAIN calls
        BY <3>2, RunnerFacts DEF IInv
      <3>4. calls[Len(calls)].topic = Prompt(next)
        BY <1>1, <2>2 DEF IInv, NarrativesOK
      <3>5. Prompt(next)' = Prompt(next)
        BY <1>2, <2>1, <3>1
      <3> QED  BY <1>1, <3>3, <3>4, <3>5
    <2>3. /\ pc' \in {"read", "gather", "not found"} => DOMAIN narratives' = {}
          /\ \A n \in DOMAIN narratives' : \E j \in DOMAIN Features :
                narratives'[n] = Prompt(j)' /\ Features[j].name = n
      BY <1>2, <2>1 DEF IInv, NarrativesOK
    <2> QED  BY <2>2, <2>3 DEF NarrativesOK
  <1> QED  BY <1>1, <1>3, <1>4 DEF IInv

(* The steps of the handler that the runner does not see.                   *)
LEMMA Quiet ==
    ASSUME IInv, UNCHANGED runnerVars  PROVE  RunnerOK' /\ AgentsOK'
  BY DEF IInv, RunnerOK, AgentsOK, runnerVars

LEMMA ProceedNext ==
    ASSUME IInv, NEW s \in DOMAIN Found, Proceed(s)  PROVE  IInv'
  <1>1. RunnerOK' /\ AgentsOK'
    BY Quiet DEF Proceed
  <1>2. /\ scans \in [DOMAIN Found -> ScanStates]
        /\ scans' \in [DOMAIN Found -> ScanStates]
        /\ \A r \in DOMAIN Found : r # s => scans'[r] = scans[r]
        /\ scans[s] \in {"running", "done"} /\ scans'[s] \in {"done", "saved", "failed"}
    BY DEF IInv, HandlerOK, Proceed, ScanStates
  <1>3. HandlerOK'
    BY <1>2 DEF IInv, HandlerOK, Proceed, handler, runnerVars
  <1>4. GatheredOK'
    <2>1. doneBefore' = doneBefore /\ gathered' = gathered /\ pc' = pc /\ next' = next
          /\ doneBefore \subseteq DOMAIN Found /\ gathered \subseteq DOMAIN Found
      BY DEF IInv, HandlerOK, Proceed, handler
    <2>2. \A r \in doneBefore : scans[r] # "running"
      BY DEF IInv, GatheredOK
    <2>3. doneBefore \cap Done' \subseteq Done
      BY <1>2, <2>1, <2>2 DEF Done
    <2>4. \A r \in doneBefore : scans'[r] # "running"
      BY <1>2, <2>1, <2>2
    <2>5. \A r \in gathered :
              scans'[r] \in {"done", "saved", "failed"} /\ \E i \in DOMAIN Linked : r = Linked[i]
      BY <1>2, <2>1 DEF IInv, GatheredOK
    <2> QED  BY <2>1, <2>3, <2>4, <2>5 DEF IInv, GatheredOK, Past
  <1>5. NarrativesOK'
    <2>1. \A i \in DOMAIN Features : Prompt(i)' = Prompt(i)
      BY PromptKept DEF Proceed, handler
    <2> QED  BY <2>1 DEF IInv, HandlerOK, NarrativesOK, Proceed, handler, runnerVars
  <1> QED  BY <1>1, <1>3, <1>4, <1>5 DEF IInv

LEMMA DeleteNext ==
    ASSUME IInv, DeleteSpec  PROVE  IInv'
  <1>1. RunnerOK' /\ AgentsOK'
    BY Quiet DEF DeleteSpec
  <1>2. HandlerOK' /\ GatheredOK'
    BY DEF IInv, HandlerOK, GatheredOK, DeleteSpec, handler, runnerVars, Past, Done
  <1>3. NarrativesOK'
    BY DEF IInv, HandlerOK, NarrativesOK, DeleteSpec, handler, runnerVars
  <1> QED  BY <1>1, <1>2, <1>3 DEF IInv

LEMMA ReadSpecNext ==
    ASSUME IInv, ReadSpec  PROVE  IInv'
  <1>1. RunnerOK' /\ AgentsOK'
    BY Quiet DEF ReadSpec
  <1>2. next = 1 /\ next' = 1 /\ pc' \in {"gather", "not found"} /\ client = Nobody
    BY DEF IInv, HandlerOK, ReadSpec
  <1> DEFINE D == Done
  <1>3. /\ doneBefore' = D /\ scans' = scans /\ client' = client
        /\ spec' = spec /\ options' = options /\ gathered' = gathered
    BY DEF ReadSpec, runnerVars
  <1>4. D \in SUBSET DOMAIN Found /\ \A s \in D : scans[s] # "running"
    BY DEF Done
  <1> HIDE DEF D
  <1>5. HandlerOK'
    <2>2. pc' # "read" /\ pc' \in {"read", "not found", "gather", "narrate", "answered"}
      BY <1>2
    <2>3. /\ spec' \in BOOLEAN /\ scans' \in [DOMAIN Found -> ScanStates] /\ options' \in AskedFor
          /\ gathered' \in SUBSET DOMAIN Found /\ doneBefore' \in SUBSET DOMAIN Found
          /\ client' = Nobody
      BY <1>2, <1>3, <1>4 DEF IInv, HandlerOK
    <2>4. /\ next' \in Nat \ {0}
          /\ next' <= (IF pc' = "gather" THEN Len(Linked) ELSE Len(Features)) + 1
      <3>1. 1 \in Nat \ {0} /\ 1 <= Len(Linked) + 1 /\ 1 <= Len(Features) + 1
        <4>1. Len(Linked) \in Nat /\ Len(Features) \in Nat
          BY LinkedFacts
        <4> QED  BY ONLY <4>1
      <3>4. next' = 1
        BY <1>2
      <3>2. CASE pc' = "gather"
        BY <3>1, <3>2, <3>4, Zenon
      <3>3. CASE pc' # "gather"
        BY <3>1, <3>3, <3>4, Zenon
      <3> QED  BY <3>2, <3>3
    <2> QED  BY <2>2, <2>3, <2>4, Zenon DEF HandlerOK
  <1>6. GatheredOK'
    <2>1. \A i \in DOMAIN Linked : ~(i < 1)
      BY LinkedFacts
    <2>2. \A i \in DOMAIN Linked : ~Past(i)'
      BY <1>2, <2>1 DEF Past
    <2> QED  BY <1>3, <1>4, <2>2 DEF IInv, GatheredOK
  <1>7. NarrativesOK'
    BY <1>2 DEF IInv, NarrativesOK, ReadSpec, runnerVars
  <1> QED  BY <1>1, <1>5, <1>6, <1>7 DEF IInv

LEMMA GatherNext ==
    ASSUME IInv, Gather  PROVE  IInv'
  <1>1. RunnerOK' /\ AgentsOK'
    BY Quiet DEF Gather
  <1>2. /\ pc = "gather" /\ pc' = pc /\ next' = next + 1 /\ client = Nobody
        /\ next \in DOMAIN Linked /\ next \in Nat /\ scans' = scans
        /\ doneBefore' = doneBefore
        /\ gathered' = gathered \cup ({Linked[next]} \cap Done)
    BY LinkedFacts DEF IInv, HandlerOK, Gather
  <1>3. HandlerOK'
    BY <1>2, LinkedFacts DEF IInv, HandlerOK, Gather, runnerVars
  <1>4. GatheredOK'
    <2>1. Done' = Done
      BY <1>2 DEF Done
    <2>2. ASSUME NEW i \in DOMAIN Linked, i < next + 1, Linked[i] \in doneBefore \cap Done
          PROVE  Linked[i] \in gathered'
      <3>1. CASE i = next
        BY <1>2, <2>2, <3>1
      <3>2. CASE i # next
        <4>1. i < next
          BY <1>2, <2>2, <3>2, LinkedFacts
        <4>2. Linked[i] \in gathered
          BY <1>2, <2>2, <4>1 DEF IInv, GatheredOK, Past
        <4> QED  BY <1>2, <4>2
      <3> QED  BY <3>1, <3>2
    <2>3. \A r \in gathered' :
              scans[r] \in {"done", "saved", "failed"} /\ \E i \in DOMAIN Linked : r = Linked[i]
      BY <1>2 DEF IInv, GatheredOK, Done
    <2> QED  BY <1>2, <2>1, <2>2, <2>3 DEF IInv, GatheredOK, Past
  <1>5. NarrativesOK'
    BY <1>2 DEF IInv, NarrativesOK, Gather, runnerVars
  <1> QED  BY <1>1, <1>3, <1>4, <1>5 DEF IInv

LEMMA GatheredNext ==
    ASSUME IInv, Gathered  PROVE  IInv'
  <1>1. RunnerOK' /\ AgentsOK'
    BY Quiet DEF Gathered
  <1>2. /\ pc = "gather" /\ pc' \in {"narrate", "answered"} /\ next' = 1 /\ client = Nobody
        /\ next > Len(Linked) /\ scans' = scans /\ next \in Nat
        /\ doneBefore' = doneBefore /\ gathered' = gathered
    BY DEF IInv, HandlerOK, Gathered
  <1>3. HandlerOK'
    BY <1>2, LinkedFacts DEF IInv, HandlerOK, Gathered, runnerVars
  <1>4. GatheredOK'
    <2>1. Done' = Done
      BY <1>2 DEF Done
    <2>2. \A i \in DOMAIN Linked : i < next
      BY <1>2, LinkedFacts
    <2> QED  BY <1>2, <2>1, <2>2 DEF IInv, GatheredOK, Past
  <1>5. NarrativesOK'
    BY <1>2 DEF IInv, NarrativesOK, Gathered, runnerVars
  <1> QED  BY <1>1, <1>3, <1>4, <1>5 DEF IInv

LEMMA NarrateNext ==
    ASSUME IInv, Narrate  PROVE  IInv'
  <1>1. next \in DOMAIN Features /\ pc = "narrate" /\ options.client \in Clients
    BY LinkedFacts DEF IInv, HandlerOK, Narrate, Clients
  <1>2. Prompt(next) \in Topics
    BY <1>1, PromptFacts
  <1>3. /\ RunnerOK' /\ AgentsOK'
        /\ calls'[Len(calls')].topic = Prompt(next)
    BY <1>1, <1>2, PostKeeps DEF IInv, Narrate
  <1>4. HandlerOK'
    BY <1>1, LinkedFacts DEF IInv, HandlerOK, Narrate, handler
  <1>5. GatheredOK'
    BY DEF IInv, GatheredOK, Narrate, handler, Past, Done
  <1>6. NarrativesOK'
    <2>1. \A i \in DOMAIN Features : Prompt(i)' = Prompt(i)
      BY PromptKept DEF Narrate, handler
    <2>2. calls'[Len(calls')].topic = Prompt(next)'
      BY <1>1, <1>3, <2>1 DEF Narrate, handler
    <2> QED  BY <2>1, <2>2 DEF IInv, NarrativesOK, Narrate, handler
  <1> QED  BY <1>3, <1>4, <1>5, <1>6 DEF IInv

LEMMA TakeNext ==
    ASSUME IInv, Take  PROVE  IInv'
  <1>1. /\ client # Nobody /\ client.call = Len(calls) /\ client.waits = 0 /\ client.age = 0
        /\ next \in DOMAIN Features /\ pc = "narrate"
    BY RunnerFacts, LinkedFacts DEF IInv, HandlerOK, Take, Nobody
  <1>2. /\ RunnerOK' /\ AgentsOK'
    <2>1. client' = Nobody /\ client'.waits = 0 /\ client'.age = 0 /\ UNCHANGED <<calls, breaks>>
      BY DEF Take, Nobody
    <2>2. RunnerOK'
      BY <2>1 DEF IInv, RunnerOK, ClientOK
    <2>3. AgentsOK'
      BY <1>1, <2>1 DEF IInv, AgentsOK
    <2> QED  BY <2>2, <2>3
  <1>3. HandlerOK'
    BY <1>1, LinkedFacts DEF IInv, HandlerOK, Take
  <1>4. GatheredOK'
    BY <1>1 DEF IInv, GatheredOK, Take, Past, Done
  <1>5. NarrativesOK'
    <2>1. \A i \in DOMAIN Features : Prompt(i)' = Prompt(i)
      BY PromptKept DEF Take
    <2>2. calls[client.call].topic = Prompt(next)
      BY <1>1 DEF IInv, NarrativesOK
    <2>3. ASSUME NEW n \in DOMAIN narratives'
          PROVE  \E j \in DOMAIN Features : narratives'[n] = Prompt(j) /\ Features[j].name = n
      <3>1. CASE client.got # "error" /\ n = Features[next].name
        <4>1. narratives'[n] = Prompt(next)
          BY <2>2, <3>1 DEF Take
        <4> QED  BY <1>1, <3>1, <4>1
      <3>2. CASE ~(client.got # "error" /\ n = Features[next].name)
        <4>1. n \in DOMAIN narratives /\ narratives'[n] = narratives[n]
          BY <2>3, <3>2 DEF Take
        <4> QED  BY <4>1 DEF IInv, NarrativesOK
      <3> QED  BY <3>1, <3>2
    <2>4. client' = Nobody /\ pc' = "narrate"
      BY <1>1 DEF Take
    <2> QED  BY <2>1, <2>3, <2>4 DEF NarrativesOK
  <1> QED  BY <1>2, <1>3, <1>4, <1>5 DEF IInv

LEMMA NarratedNext ==
    ASSUME IInv, Narrated  PROVE  IInv'
  <1>1. RunnerOK' /\ AgentsOK'
    BY Quiet DEF Narrated
  <1>2. client = Nobody /\ pc = "narrate" /\ pc' = "answered" /\ next > Len(Features)
        /\ next \in Nat
    BY LinkedFacts DEF IInv, HandlerOK, Narrated
  <1>3. HandlerOK'
    BY <1>2, LinkedFacts DEF IInv, HandlerOK, Narrated, runnerVars
  <1>4. GatheredOK'
    BY <1>2 DEF IInv, GatheredOK, Narrated, Past, Done
  <1>5. NarrativesOK'
    <2>1. \A i \in DOMAIN Features : Prompt(i)' = Prompt(i)
      BY PromptKept DEF Narrated
    <2> QED  BY <1>2, <2>1 DEF IInv, NarrativesOK, Narrated, runnerVars
  <1> QED  BY <1>1, <1>3, <1>4, <1>5 DEF IInv

LEMMA InitEstablishes == Init => IInv
  <1> SUFFICES ASSUME Init  PROVE  IInv
    OBVIOUS
  <1>1. /\ calls = <<>> /\ client = Nobody /\ breaks = 0 /\ DOMAIN calls = {} /\ Len(calls) = 0
    BY DEF Init, RunnerInit
  <1>2. RunnerOK
    BY <1>1, RunnerAssumption DEF RunnerOK, ClientOK
  <1>3. HandlerOK
    <2>1. scans \in [DOMAIN Found -> ScanStates]
      <3>1. scans \in [DOMAIN Found -> {"running", "saved", "unknown"}]
        BY DocumentAssumption DEF Init
      <3> QED  BY <3>1 DEF ScanStates
    <2> QED  BY <1>1, <2>1, LinkedFacts DEF Init, HandlerOK
  <1>4. GatheredOK /\ NarrativesOK
    BY <1>1 DEF Init, GatheredOK, NarrativesOK, Past
  <1>5. AgentsOK
    <2>1. Spread(calls, client.waits, client.age, breaks, {})
      BY <1>1, FS_EmptySet DEF Spread, Left, Nobody
    <2> QED  BY <2>1 DEF AgentsOK
  <1> QED  BY <1>2, <1>3, <1>4, <1>5 DEF IInv

LEMMA NextKeeps == IInv /\ [Next]_vars => IInv'
  <1> SUFFICES ASSUME IInv, [Next]_vars  PROVE  IInv'
    OBVIOUS
  <1>1. CASE Handler
    BY <1>1, ReadSpecNext, GatherNext, GatheredNext, NarrateNext, TakeNext, NarratedNext DEF Handler
  <1>2. CASE \E s \in DOMAIN Found : Proceed(s)
    BY <1>2, ProceedNext
  <1>3. CASE DeleteSpec
    BY <1>3, DeleteNext
  <1>4. CASE (ClientTimesOut \/ RunnerStep \/ Tick \/ Chance) /\ UNCHANGED <<spec, scans, handler>>
    BY <1>4, RunnerNext
  <1>5. CASE UNCHANGED vars
    <2>1. RunnerOK' /\ AgentsOK'
      BY <1>5, Quiet DEF vars
    <2>2. HandlerOK' /\ GatheredOK'
      BY <1>5 DEF IInv, HandlerOK, GatheredOK, vars, runnerVars, Past, Done
    <2>3. NarrativesOK'
      <3>1. \A i \in DOMAIN Features : Prompt(i)' = Prompt(i)
        BY <1>5, PromptKept DEF vars
      <3>2. client' # Nobody => next \in DOMAIN Features
        BY <1>5, LinkedFacts DEF IInv, HandlerOK, vars, runnerVars
      <3> QED  BY <1>5, <3>1, <3>2 DEF IInv, NarrativesOK, vars, runnerVars
    <2> QED  BY <2>1, <2>2, <2>3 DEF IInv
  <1> QED  BY <1>1, <1>2, <1>3, <1>4, <1>5 DEF Next

LEMMA Invariance == Spec => []IInv
  BY InitEstablishes, NextKeeps, PTL DEF Spec

-----------------------------------------------------------------------------
(* What the invariant says of what is answered.                             *)
(* Everything has its type: the client waits for the last call, and only    *)
(* while features are narrated.                                             *)
THEOREM Types == Spec => []TypeOK
  <1>1. IInv => TypeOK
    <2> SUFFICES ASSUME IInv  PROVE  TypeOK
      OBVIOUS
    <2>1. calls \in Seq([phase : Phases, age : 0..Timeout, answer : Answers, topic : Topics,
                         sender : {o.client : o \in AskedFor}])
      BY Zenon DEF IInv, RunnerOK, Call, Clients
    <2>2. /\ client.waits \in {0, Len(calls)} /\ client.age \in 0..Timeout
          /\ client.got \in Answers /\ client.call \in {0, Len(calls)}
      <3>1. /\ client.waits = 0 \/ client.waits = Len(calls)
            /\ client.age \in Nat /\ client.age <= Timeout
            /\ client.got \in Answers /\ client.call \in {0, Len(calls)}
        BY RunnerFacts DEF IInv
      <3> QED  BY <3>1, RunnerAssumption
    <2>3. next \in 1..(Len(Linked) + Len(Features) + 1)
      <3>1. /\ next \in Nat \ {0}
            /\ next <= Len(Linked) + 1 \/ next <= Len(Features) + 1
        BY DEF IInv, HandlerOK
      <3> QED  BY <3>1, LinkedFacts
    <2> QED  BY <2>1, <2>2, <2>3 DEF IInv, HandlerOK, RunnerOK, TypeOK
  <1> QED  BY <1>1, Invariance, PTL

(* A client has at most two agents, and one more for each broken            *)
(* connection: the call it waits for, the last that it gave up, and those   *)
(* that broke.                                                              *)
THEOREM AgentsAreBounded == Spec => []AgentsBounded
  <1>1. IInv => AgentsBounded
    <2> SUFFICES ASSUME IInv  PROVE  AgentsBounded
      OBVIOUS
    <2>1. PICK B \in SUBSET DOMAIN calls : Spread(calls, client.waits, client.age, breaks, B)
      BY DEF IInv, AgentsOK
    <2> DEFINE L == {i \in Left(calls, client.waits, B) : calls[i].phase = "running"}
               R == Running
    <2>2. Cardinality(B) <= breaks /\ (\A i, j \in L : i = j)
      BY <2>1 DEF Spread
    <2>3. R \subseteq B \cup L \cup {client.waits}
      BY DEF Left, Running
    <2> HIDE DEF L, R
    <2>4. IsFiniteSet(B) /\ Cardinality(B) \in Nat /\ breaks \in Nat
      BY RunnerFacts, FS_Subset, FS_CardinalityType DEF IInv, RunnerOK
    <2>5. PICK x : L \subseteq {x}
      BY <2>2
    <2>6. /\ IsFiniteSet(B \cup {x}) /\ Cardinality(B \cup {x}) <= Cardinality(B) + 1
          /\ Cardinality(B \cup {x}) \in Nat
      BY <2>4, FS_AddElement, FS_CardinalityType
    <2> DEFINE U == (B \cup {x}) \cup {client.waits}
    <2>7. /\ IsFiniteSet(U) /\ Cardinality(U) <= Cardinality(B) + 2 /\ Cardinality(U) \in Nat
      <3>1. /\ IsFiniteSet(U)
            /\ Cardinality(U) = Cardinality(B \cup {x})
                  \/ Cardinality(U) = Cardinality(B \cup {x}) + 1
        BY <2>6, FS_AddElement
      <3> QED  BY <2>4, <2>6, <3>1
    <2>8. R \subseteq U
      BY <2>3, <2>5
    <2> HIDE DEF U
    <2>9. Cardinality(R) <= Cardinality(U) /\ Cardinality(R) \in Nat
      BY <2>7, <2>8, FS_Subset, FS_CardinalityType
    <2> QED  BY <2>2, <2>4, <2>7, <2>9 DEF AgentsBounded, R
  <1> QED  BY <1>1, Invariance, PTL

-----------------------------------------------------------------------------
(* The feature that counts for a section has the name of the section.       *)
LEMMA LastNamedFacts ==
    ASSUME NEW name, \E j \in DOMAIN Features : Features[j].name = name
    PROVE  /\ LastNamed(Features, name) \in DOMAIN Features
           /\ Features[LastNamed(Features, name)].name = name
           /\ \A j \in DOMAIN Features :
                 Features[j].name = name => LastNamed(Features, name) >= j
  <1> DEFINE S == {j \in DOMAIN Features : Features[j].name = name}
             n == Len(Features)
             R == {n - j : j \in S}
  <1>1. n \in Nat /\ S \subseteq 1..n /\ S # {}
    BY LinkedFacts
  <1> HIDE DEF S, n
  <1>2. R \subseteq Nat /\ R # {}
    <2>1. ASSUME NEW j \in S  PROVE  n - j \in Nat
      <3>1. j \in 1..n
        BY <1>1
      <3> QED  BY <1>1, <3>1
    <2> QED  BY <1>1, <2>1
  <1>3. \E r \in R : \A q \in R : ~(<<q, r>> \in OpToRel(<, Nat))
    BY <1>2, NatLessThanWellFounded, WFMin
  <1>4. PICK r \in R : \A q \in R : q >= r
    <2>1. PICK r \in R : \A q \in R : ~(<<q, r>> \in OpToRel(<, Nat))
      BY <1>3
    <2>2. ASSUME NEW q \in R  PROVE  q >= r
      <3>1. q \in Nat /\ r \in Nat
        BY <1>2
      <3>2. ~(q < r)
        BY <2>1, <3>1 DEF OpToRel
      <3> QED  BY <3>1, <3>2
    <2> QED  BY <2>2
  <1>5. \E m \in S : \A j \in S : m >= j
    <2>1. PICK m \in S : r = n - m
      OBVIOUS
    <2>2. ASSUME NEW j \in S  PROVE  m >= j
      <3>1. n - j >= r
        BY <1>4
      <3>2. m \in Nat /\ j \in Nat
        BY <1>1
      <3> QED  BY <1>1, <2>1, <3>1, <3>2
    <2> QED  BY <2>2
  <1>6. Max(S) \in S /\ \A j \in S : Max(S) >= j
    BY <1>5 DEF Max
  <1> QED  BY <1>6 DEF LastNamed, S

(* What a scan has is among the artifacts, routes and calls of all of them. *)
LEMMA ArtifactsHave ==
    ASSUME NEW ids, ids \subseteq DOMAIN Found, NEW s \in ids, NEW k \in Keywords(TextsOf(s))
    PROVE  \E a \in Artifacts(Surfaces(ids)) : k \in a.tokens
  <1> DEFINE MS == UNION {x.modules : x \in Surfaces(ids)}
             ES == UNION {x.entrypoints : x \in Surfaces(ids)}
             Decl(id) == UNION {m.symbols : m \in {n \in MS : n.id = id}}
             Entry(e) == [kind |-> "entrypoint", id |-> EntrypointId(e),
                          tokens |-> Keywords({e.name, e.module})]
             Module(m) == [kind |-> "module", id |-> <<m.id>>,
                           tokens |-> Keywords({m.id} \cup Decl(m.id))]
  <1>1. Artifacts(Surfaces(ids)) = {Entry(e) : e \in ES} \cup {Module(m) : m \in MS}
    BY Zenon DEF Artifacts
  <1>2. Found[s].entrypoints \subseteq ES /\ Found[s].modules \subseteq MS
    BY DEF Surfaces
  <1> HIDE DEF MS, ES
  <1>3. PICK x \in TextsOf(s) : k \in TokensOf[x]
    BY DEF Keywords
  <1>4. CASE \E e \in Found[s].entrypoints : x \in {e.name, e.module}
    <2>1. PICK e \in Found[s].entrypoints : x \in {e.name, e.module}
      BY <1>4
    <2>2. k \in Entry(e).tokens
      BY <1>3, <2>1 DEF Keywords
    <2> QED  BY <1>1, <1>2, <2>2
  <1>5. CASE \E m \in Found[s].modules : x \in {m.id} \cup m.symbols
    <2>1. PICK m \in Found[s].modules : x \in {m.id} \cup m.symbols
      BY <1>5
    <2>2. x \in {m.id} \cup Decl(m.id)
      BY <1>2, <2>1
    <2> HIDE DEF Decl
    <2>3. k \in Module(m).tokens
      BY <1>3, <2>2 DEF Keywords
    <2> QED  BY <1>1, <1>2, <2>3
  <1> QED  BY <1>3, <1>4, <1>5 DEF TextsOf

LEMMA ServingHas ==
    ASSUME NEW ids, ids \subseteq DOMAIN Found, NEW t \in ids, NEW r \in Found[t].routes,
           NEW c, Serves(r, c)
    PROVE  [scan |-> t, route |-> r] \in Serving(Surfaces(ids), c)
  <1>1. Found[t].scan = t /\ Found[t] \in Surfaces(ids)
    BY DocumentAssumption DEF Surfaces
  <1> QED  BY <1>1 DEF Serving, Serves

(* The edges are the calls of the scans with what serves them.              *)
LEMMA EdgeFacts ==
    ASSUME NEW ids, ids \subseteq DOMAIN Found, NEW ns
    PROVE  LET edges == Document(Features, Surfaces(ids), ns).flow.edges
           IN  /\ \A s \in ids : \A c \in Found[s].calls : \A t \in Serving(Surfaces(ids), c) :
                     FlowOf(Found[s], c, t) \in edges
               /\ \A e \in edges : e.from_scan \in ids /\ e.to_scan \in ids
  <1> DEFINE ss == Surfaces(ids)
             cs == UNION {{s} \X s.calls : s \in ss}
             Edges(c) == {FlowOf(c[1], c[2], t) : t \in Serving(ss, c[2])}
             edges == Document(Features, ss, ns).flow.edges
  <1>1. edges = UNION {Edges(c) : c \in cs}
    <2>1. Document(Features, ss, ns).flow = ApiFlow(ss)
      BY DEF Document
    <2>2. ApiFlow(ss).edges = UNION {Edges(c) : c \in cs}
      BY DEF ApiFlow
    <2> QED  BY <2>1, <2>2, Zenon
  <1>2. \A x \in ss : x.scan \in ids
    BY DocumentAssumption DEF Surfaces
  <1> HIDE DEF edges
  <1>3. ASSUME NEW s \in ids, NEW c \in Found[s].calls, NEW t \in Serving(ss, c)
        PROVE  FlowOf(Found[s], c, t) \in edges
    <2> DEFINE p == <<Found[s], c>>
    <2>1. p \in cs /\ p[1] = Found[s] /\ p[2] = c
      BY DEF Surfaces
    <2> HIDE DEF p, cs
    <2>2. FlowOf(Found[s], c, t) \in Edges(p)
      BY <2>1
    <2> QED  BY <1>1, <2>1, <2>2
  <1>4. ASSUME NEW e \in edges  PROVE  e.from_scan \in ids /\ e.to_scan \in ids
    <2>1. PICK c \in cs : e \in Edges(c)
      BY <1>1
    <2>2. PICK t \in Serving(ss, c[2]) : e = FlowOf(c[1], c[2], t)
      BY <2>1
    <2>3. c[1] \in ss /\ e.from_scan = c[1].scan /\ e.to_scan = t.scan
      BY <2>2 DEF FlowOf
    <2>4. \E x \in ss : t.scan = x.scan
      BY DEF Serving
    <2> QED  BY <1>2, <2>3, <2>4
  <1> QED  BY <1>3, <1>4 DEF edges

LEMMA StatusFacts ==
    ASSUME NEW scored, MatchStatus(scored) = "missing"  PROVE  scored = {}
  BY DEF MatchStatus

(* What a document says of one feature, and of the calls.                   *)
LEMMA SectionFacts ==
    ASSUME NEW ss, NEW ns, NEW i \in DOMAIN Features
    PROVE  LET section == Document(Features, ss, ns).sections[i]
               name == Features[i].name
               last == Features[LastNamed(Features, name)]
           IN  /\ section.name = name
               /\ section.status = MatchStatus(Scored(last, Artifacts(ss)))
               /\ section.marks = Marks(last, Confirmed(ss))
               /\ section.narrative = IF name \in DOMAIN ns THEN ns[name] ELSE None
  <1> DEFINE name == Features[i].name
             l == LastNamed(Features, name)
             coverage == Reconciled(Features, ss).coverage
  <1>1. l \in DOMAIN Features
    BY LastNamedFacts
  <1>2. coverage[l] = MatchStatus(Scored(Features[l], Artifacts(ss)))
    BY <1>1 DEF Reconciled
  <1>3. Document(Features, ss, ns).sections[i] =
            [name |-> name, status |-> coverage[l], marks |-> Marks(Features[l], Confirmed(ss)),
             narrative |-> IF name \in DOMAIN ns THEN ns[name] ELSE None]
    BY DEF Document
  <1> HIDE DEF name, l, coverage
  <1>4. LET section == Document(Features, ss, ns).sections[i]
        IN  /\ section.name = name
            /\ section.status = coverage[l]
            /\ section.marks = Marks(Features[l], Confirmed(ss))
            /\ section.narrative = IF name \in DOMAIN ns THEN ns[name] ELSE None
    BY <1>3
  <1> QED  BY <1>2, <1>4 DEF name, l

LEMMA UnmatchedFacts ==
    ASSUME NEW ss, NEW ns, NEW u \in Document(Features, ss, ns).flow.unmatched
    PROVE  \E c : c.method = u.method /\ c.path = u.path /\ Serving(ss, c) = {}
  <1> DEFINE cs == UNION {{s} \X s.calls : s \in ss}
             missed == {d \in cs : Serving(ss, d[2]) = {}}
  <1>1. u \in {UnmatchedOf(c[1], c[2]) : c \in missed}
    <2>1. Document(Features, ss, ns).flow = ApiFlow(ss)
      BY DEF Document
    <2>2. ApiFlow(ss).unmatched = {UnmatchedOf(c[1], c[2]) : c \in missed}
      BY DEF ApiFlow
    <2> QED  BY <2>1, <2>2, Zenon
  <1>2. PICK c \in missed : u = UnmatchedOf(c[1], c[2])
    BY <1>1
  <1>3. Serving(ss, c[2]) = {}
    BY DEF missed
  <1>4. c[2].method = u.method /\ c[2].path = u.path
    BY <1>2 DEF UnmatchedOf
  <1> QED  BY <1>3, <1>4

LEMMA MarkFacts ==
    ASSUME NEW f, NEW confirmed, NEW m \in Marks(f, confirmed), m[2] = "not found"
    PROVE  Canon(m[1]) \notin confirmed
  <1> DEFINE Mark(e) == IF confirmed = {} THEN "unmarked"
                        ELSE IF Canon(e) \in confirmed THEN "found" ELSE "not found"
  <1>1. PICK e \in f.endpoints : m = <<e, Mark(e)>>
    BY Zenon DEF Marks
  <1>2. m[1] = e /\ m[2] = Mark(e)
    BY <1>1
  <1> QED  BY <1>2

LEMMA MarkFound ==
    ASSUME NEW f, ~f.conceptual, NEW confirmed, NEW e \in f.endpoints, Canon(e) \in confirmed
    PROVE  <<e, "found">> \in Marks(f, confirmed)
  <1>1. confirmed # {}
    OBVIOUS
  <1> QED  BY <1>1 DEF Marks

(* A linked scan that was done when the spec was read, and still is, is     *)
(* seen in the calls, the statuses and the marks of the document, and a     *)
(* scan that has not ended in nothing.                                      *)
THEOREM NothingOverlooked == Spec => []NothingIsOverlooked
  <1>1. IInv => NothingIsOverlooked
    <2> SUFFICES ASSUME IInv, pc = "answered"  PROVE  NothingIsOverlooked
      BY DEF NothingIsOverlooked
    <2> DEFINE linked == {Linked[i] : i \in DOMAIN Linked}
               before == doneBefore \cap Done \cap linked
               now == Surfaces(gathered)
               doc == Document(Features, now, narratives)
    <2>1. /\ before \subseteq gathered /\ gathered \subseteq DOMAIN Found
          /\ \A s \in gathered : s \in linked /\ scans[s] \in {"done", "saved", "failed"}
      BY DEF IInv, HandlerOK, GatheredOK, Past
    <2> HIDE DEF before, linked
    <2>2. CallsAreSeen(before, doc.flow)
      <3> SUFFICES ASSUME NEW t \in before, NEW r \in Found[t].routes
                   PROVE  /\ \A s \in before : \A c \in Found[s].calls :
                                Serves(r, c) => [method |-> r.method, path |-> r.path,
                                                 from_scan |-> s, from_module |-> c.module,
                                                 to_scan |-> t, to_module |-> r.module]
                                                    \in doc.flow.edges
                          /\ \A u \in doc.flow.unmatched : ~Serves(r, u)
        BY Zenon DEF CallsAreSeen
      <3>1. ASSUME NEW s \in before, NEW c \in Found[s].calls, Serves(r, c)
            PROVE  [method |-> r.method, path |-> r.path, from_scan |-> s,
                    from_module |-> c.module, to_scan |-> t, to_module |-> r.module]
                       \in doc.flow.edges
        <4> DEFINE target == [scan |-> t, route |-> r]
        <4>1. target \in Serving(now, c)
          BY <2>1, <3>1, ServingHas
        <4>2. FlowOf(Found[s], c, target) \in doc.flow.edges
          BY <2>1, <4>1, EdgeFacts
        <4>3. Found[s].scan = s
          BY <2>1, DocumentAssumption
        <4> QED  BY <4>2, <4>3 DEF FlowOf
      <3>2. ASSUME NEW u \in doc.flow.unmatched, Serves(r, u)  PROVE  FALSE
        <4>1. PICK c : c.method = u.method /\ c.path = u.path /\ Serving(now, c) = {}
          BY UnmatchedFacts
        <4>2. Serves(r, c)
          BY <3>2, <4>1 DEF Serves
        <4> QED  BY <2>1, <4>1, <4>2, ServingHas
      <3> QED  BY <3>1, <3>2
    <2>3. ASSUME NEW i \in DOMAIN Features, IsLastNamed(i)
          PROVE  FeatureIsSeen(before, Features[i], doc.sections[i])
      <3> DEFINE section == doc.sections[i]
                 f == Features[i]
      <3>1. LastNamed(Features, f.name) = i
        <4> DEFINE l == LastNamed(Features, f.name)
        <4>1. l \in DOMAIN Features /\ Features[l].name = f.name /\ l >= i
          BY LastNamedFacts
        <4>2. ~(l > i)
          BY <2>3, <4>1 DEF IsLastNamed
        <4> QED  BY <4>1, <4>2, LinkedFacts
      <3>2. /\ section.status = MatchStatus(Scored(f, Artifacts(now)))
            /\ section.marks = Marks(f, Confirmed(now))
        BY <3>1, SectionFacts
      <3> HIDE DEF section, f
      <3>3. ASSUME NEW s \in before, Keywords(f.texts) \cap Keywords(TextsOf(s)) # {}
            PROVE  section.status # "missing"
        <4>1. PICK k \in Keywords(f.texts) : k \in Keywords(TextsOf(s))
          BY <3>3
        <4>2. PICK a \in Artifacts(now) : k \in a.tokens
          BY <2>1, <4>1, ArtifactsHave
        <4>3. Scored(f, Artifacts(now)) # {}
          BY <4>1, <4>2 DEF Scored
        <4> QED  BY <3>2, <4>3, StatusFacts
      <3>4. ASSUME NEW s \in before, ~f.conceptual, NEW e \in f.endpoints,
                   NEW r \in Found[s].routes, Canon(r.path) = Canon(e)
            PROVE  <<e, "found">> \in section.marks
        <4>1. Canon(e) \in Confirmed(now)
          BY <2>1, <3>4 DEF Confirmed, Surfaces
        <4> QED  BY <3>2, <3>4, <4>1, MarkFound
      <3> QED  BY <3>3, <3>4 DEF FeatureIsSeen, section, f
    <2>4. \A e \in doc.flow.edges : \A s \in {e.from_scan, e.to_scan} :
              s \in linked /\ scans[s] \in {"done", "saved", "failed"}
      BY <2>1, EdgeFacts
    <2> QED  BY <2>2, <2>3, <2>4 DEF NothingIsOverlooked, Answered, before, linked
  <1> QED  BY <1>1, Invariance, PTL

(* The narrative of a section was written for a feature of that name, from  *)
(* no fact that its diagram denies.                                         *)
THEOREM NarrativesGrounded == Spec => []NarrativesAreGrounded
  <1>1. IInv => NarrativesAreGrounded
    <2> SUFFICES ASSUME IInv, pc = "answered", NEW i \in DOMAIN Features,
                        Answered.sections[i].narrative # None
                 PROVE  LET section == Answered.sections[i]
                        IN  /\ section.narrative.name = section.name
                            /\ \A e \in section.narrative.found :
                                  <<e, "not found">> \notin section.marks
      BY DEF NarrativesAreGrounded
    <2> DEFINE section == Answered.sections[i]
               name == Features[i].name
               last == Features[LastNamed(Features, name)]
               confirmed == Confirmed(Surfaces(gathered))
    <2>1. /\ section.name = name
          /\ section.marks = Marks(last, confirmed)
          /\ section.narrative = IF name \in DOMAIN narratives THEN narratives[name] ELSE None
      BY SectionFacts DEF Answered
    <2> HIDE DEF section, name, last, confirmed
    <2>2. name \in DOMAIN narratives /\ section.narrative = narratives[name]
      BY <2>1 DEF section
    <2>3. PICK j \in DOMAIN Features : narratives[name] = Prompt(j) /\ Features[j].name = name
      BY <2>2 DEF IInv, NarrativesOK
    <2>4. \A e \in section.narrative.found : Canon(e) \in confirmed
      BY <2>2, <2>3, PromptFacts DEF confirmed
    <2>5. \A e : <<e, "not found">> \in section.marks => Canon(e) \notin confirmed
      <3> SUFFICES ASSUME NEW e, <<e, "not found">> \in Marks(last, confirmed)
                   PROVE  Canon(e) \notin confirmed
        BY <2>1
      <3> DEFINE m == <<e, "not found">>
      <3>1. m[1] = e /\ m[2] = "not found" /\ m \in Marks(last, confirmed)
        OBVIOUS
      <3> HIDE DEF m
      <3>2. Canon(m[1]) \notin confirmed
        BY <3>1, MarkFacts, Zenon
      <3> QED  BY <3>1, <3>2
    <2>6. section.narrative.name = section.name
      BY <2>1, <2>2, <2>3, PromptFacts
    <2> QED  BY <2>4, <2>5, <2>6 DEF section
  <1> QED  BY <1>1, Invariance, PTL
=============================================================================
