------------------------------ MODULE CliRunner ------------------------------
(***************************************************************************)
(* infrastructure/ai_providers/cli_runner.py and tools/cli_runner/main.py: *)
(* a client that posts one prompt at a time, and a runner that has an      *)
(* agent answer each.  The client waits for as long as it lets the agent   *)
(* run, and the network takes its time both ways: an answer may come when  *)
(* nobody waits for it, and an agent may run that nobody asks any more.    *)
(*                                                                         *)
(* Time is counted in ticks, by the age of what a call is in and of the    *)
(* client's wait.                                                          *)
(***************************************************************************)
EXTENDS Integers, Sequences, FiniteSets

CONSTANTS
    Timeout,        \* timeout_seconds
    MaxDelay,       \* how long a message takes at most
    Runner,         \* [secret, dirs]: how the runner is configured
    MaxBreaks       \* bound: how many connections break

ASSUME RunnerAssumption ==
    /\ Timeout \in Nat \ {0} /\ MaxDelay \in 0..(Timeout - 1)
    /\ MaxBreaks \in Nat

VARIABLES
    calls,      \* the calls so far, what became of each, and from whom it is:
                \* [secret, agent, dir], as the client is configured
    client,     \* the client: which call it waits for, how long, what it got
    breaks      \* history: how many connections have broken

runnerVars == <<calls, client, breaks>>

Nobody == [waits |-> 0, age |-> 0, got |-> "nothing", call |-> 0]
Running == {i \in DOMAIN calls : calls[i].phase = "running"}

RunnerInit == calls = <<>> /\ client = Nobody /\ breaks = 0

-----------------------------------------------------------------------------
(* The runner. *)
Agents == {"claude", "codex"}

(* run: _check_auth, _AGENTS, _resolve_dir                                  *)
Status(sender) ==
    IF Runner.secret # "" /\ sender.secret # Runner.secret THEN 401
    ELSE IF sender.agent \notin Agents THEN 400
    ELSE IF Runner.dirs = {} THEN 500
    ELSE IF sender.dir # "" /\ sender.dir \notin Runner.dirs THEN 403
    ELSE 200

(* What an agent may print: text or nothing, as it is or in the envelope of *)
(* claude, which may also hold an error, or a result that is not text.      *)
Outputs == {"text", "blank", "envelope", "blank envelope", "error", "no text"}

(* _parse_claude_json *)
ParseClaude(r) ==
    CASE r.output = "error" -> [r EXCEPT !.ok = FALSE]
      [] r.output \in {"envelope", "blank envelope", "no text"} /\ ~r.ok -> r
      [] r.output = "no text" -> [r EXCEPT !.ok = FALSE]
      [] r.output = "envelope" /\ r.ok -> [r EXCEPT !.output = "text"]
      [] r.output = "blank envelope" /\ r.ok -> [r EXCEPT !.output = "blank"]
      [] OTHER -> r

(* What a response is for the client, should it come: a completion only if  *)
(* the agent succeeded and its output has some text.                        *)
Completion(status, r) ==
    IF status = 200 /\ r.ok /\ r.output # "blank" THEN "text" ELSE "error"
Answer(sender, ok, output) ==
    LET r == [ok |-> ok, output |-> output]
    IN  Completion(200, IF sender.agent = "claude" THEN ParseClaude(r) ELSE r)

Nothing == "nothing"
Now(i, phase, answer) ==
    calls' = [calls EXCEPT ![i] = [@ EXCEPT !.phase = phase, !.age = 0, !.answer = answer]]

Arrive(i) ==
    /\ calls[i].phase = "request"
    /\ LET status == Status(calls[i].sender)
       IN  IF status = 200 THEN Now(i, "running", Nothing)
           ELSE Now(i, "response", Completion(status, [ok |-> FALSE, output |-> "blank"]))
    /\ UNCHANGED <<client, breaks>>

(* _run_agent; an agent that is not installed fails at once.                *)
AgentEnds(i) ==
    /\ calls[i].phase = "running"
    /\ \E ok \in BOOLEAN, output \in Outputs :
          Now(i, "response", Answer(calls[i].sender, ok, output))
    /\ UNCHANGED <<client, breaks>>

(* Mutant: the runner has a timeout of its own.                             *)
OwnTimeout == 3 * Timeout

(* The runner lets an agent run for timeout_seconds of the request.         *)
KilledAfter == Timeout

AgentKilled(i) ==
    /\ calls[i].phase = "running" /\ calls[i].age = KilledAfter
    /\ Now(i, "response", Answer(calls[i].sender, FALSE, "blank"))
    /\ UNCHANGED <<client, breaks>>

-----------------------------------------------------------------------------
(* The client: CliRunnerProvider.complete                                   *)
Post(sender, topic) ==
    /\ client.waits = 0 /\ client.got = "nothing"
    /\ calls' = Append(calls, [phase |-> "request", age |-> 0, answer |-> Nothing,
                               sender |-> sender, topic |-> topic])
    /\ client' = [Nobody EXCEPT !.waits = Len(calls) + 1]
    /\ UNCHANGED breaks

(* A call ends with a completion, or with an exception.                     *)
Ends(got, i) == client' = [Nobody EXCEPT !.got = got, !.call = i]

(* urlopen fails: the runner is not reachable, or the connection breaks.    *)
(* The runner goes on with what has reached it.                             *)
Break ==
    /\ client.waits # 0 /\ breaks < MaxBreaks
    /\ breaks' = breaks + 1
    /\ Ends("error", client.waits)
    /\ \/ UNCHANGED calls
       \/ calls[client.waits].phase = "request" /\ Now(client.waits, "over", Nothing)

(* Mutant: whatever arrives is taken for the answer to the present call.    *)
DeliverToAny(i) ==
    /\ calls[i].phase = "response"
    /\ Now(i, "over", Nothing)
    /\ IF client.waits = 0 THEN UNCHANGED client
       ELSE Ends(calls[i].answer, i)
    /\ UNCHANGED breaks

(* What arrives for a call that is given up has no socket to arrive at.     *)
Deliver(i) ==
    /\ calls[i].phase = "response"
    /\ Now(i, "over", Nothing)
    /\ IF client.waits # i THEN UNCHANGED client
       ELSE Ends(calls[i].answer, i)
    /\ UNCHANGED breaks

(* Mutant: the client waits as long as the connection stands.               *)
NoTimeout == FALSE /\ UNCHANGED runnerVars

ClientTimesOut ==
    /\ client.waits # 0 /\ client.age = Timeout
    /\ Ends("error", client.waits)
    /\ UNCHANGED <<calls, breaks>>

-----------------------------------------------------------------------------
(* A message is lost without anybody being told.                            *)
Lose(i) ==
    /\ calls[i].phase \in {"request", "response"}
    /\ Now(i, "over", Nothing)
    /\ UNCHANGED <<client, breaks>>

(* Time passes, up to the next thing that is due.                           *)
Due(c) ==
    CASE c.phase \in {"request", "response"} -> MaxDelay
      [] c.phase = "running" -> KilledAfter
      [] OTHER -> 0
Tick ==
    /\ client.waits # 0 \/ Running # {}
    /\ client.waits # 0 => client.age < Timeout
    /\ \A i \in DOMAIN calls : calls[i].phase # "over" => calls[i].age < Due(calls[i])
    /\ calls' = [i \in DOMAIN calls |->
                    IF calls[i].phase = "over" THEN calls[i] ELSE [calls[i] EXCEPT !.age = @ + 1]]
    /\ client' = IF client.waits = 0 THEN client ELSE [client EXCEPT !.age = @ + 1]
    /\ UNCHANGED breaks

RunnerStep == \E i \in DOMAIN calls : Arrive(i) \/ AgentKilled(i) \/ Deliver(i)
Chance == Break \/ \E i \in DOMAIN calls : AgentEnds(i) \/ Lose(i)
=============================================================================
