------------------------------- MODULE EaAgent -------------------------------
(***************************************************************************)
(* EaAgent on its own, as chat_agent and tool_call_demo use it: callers    *)
(* submit messages, chat requests are answered by errors, replies or tool  *)
(* calls, turns are cancelled, the system prompt is set by the             *)
(* application, the session is saved after a successful turn, and the      *)
(* process is restarted at any time.                                       *)
(***************************************************************************)
EXTENDS AgentOps

CONSTANTS Callers,       (* calls of submitUserMessage, each made once      *)
          SessionLimits, (* EaSessionOptions                                *)
          Responses,     (* how chat requests may be answered               *)
          Overrides,     (* prompts given to EaAgent::setSystemPrompt       *)
          MaxCancels, MaxRestarts   (* bounds                               *)

ASSUME EaAgentConstants ==
  /\ SessionLimits \in [maxMessages : Nat \ {0}, maxApproxTokens : Nat \ {0}]
  /\ Responses \subseteq [error : Errors \cup {NoError}, calls : Nat, invoked : Nat]
  /\ \A r \in Responses : r.invoked <= r.calls
  /\ MaxCancels \in Nat
  /\ MaxRestarts \in Nat

VARIABLES agent,     (* the EaAgent, with the session.json it saves         *)
          answers,   (* what the done callback of each caller was told      *)
          cancels, restarts   (* how many so far                            *)

vars == <<agent, answers, cancels, restarts>>

-----------------------------------------------------------------------------

Init ==
  /\ agent = Construct(SessionLimits, NoSnapshot)
  /\ answers = [c \in Callers |-> "none"]
  /\ cancels = 0
  /\ restarts = 0

Told(result) == IF result = Pending THEN "waiting" ELSE result

(* What a step leaves behind; saveSession may fail, which is only logged. *)
Outcome(out, caller) ==
  /\ \/ agent' = out.agent
     \/ agent' = [out.agent EXCEPT !.saved = agent.saved]
  /\ answers' = [answers EXCEPT ![caller] = Told(out.result)]

Submit(c) ==
  /\ answers[c] = "none"
  /\ \E t \in Turns, sends, skipAppendUser \in BOOLEAN :
        /\ agent.active = NoTurn => ~ InFlight(agent, t)
        /\ Outcome(AgentSubmit(agent, IF skipAppendUser THEN NoText ELSE c, c, t, sends), c)
  /\ UNCHANGED <<cancels, restarts>>

Complete(t) ==
  /\ InFlight(agent, t)
  /\ \E r \in Responses, sends \in BOOLEAN :
        Outcome(Respond(agent, t, r, sends), agent.ctx[t].done)
  /\ UNCHANGED <<cancels, restarts>>

SetPrompt(prompt) ==
  /\ agent' = [agent EXCEPT !.session = SetSystemPrompt(@, prompt)]
  /\ UNCHANGED <<answers, cancels, restarts>>

Cancel ==
  /\ cancels < MaxCancels
  /\ cancels' = cancels + 1
  /\ agent' = AgentCancel(agent)
  /\ UNCHANGED <<answers, restarts>>

(* The process ends, with its requests and callers, and starts again: with *)
(* the session of the file, or with a new one when it cannot read that.    *)
Restart ==
  /\ restarts < MaxRestarts
  /\ restarts' = restarts + 1
  /\ \E loaded \in {agent.saved, NoSnapshot} :
       agent' = [Construct(SessionLimits, loaded) EXCEPT !.saved = agent.saved]
  /\ answers' = [c \in Callers |-> IF answers[c] = "waiting" THEN "lost" ELSE answers[c]]
  /\ UNCHANGED cancels

Next ==
  \/ \E c \in Callers : Submit(c)
  \/ \E t \in Turns : Complete(t)
  \/ \E prompt \in Overrides : SetPrompt(prompt)
  \/ Cancel
  \/ Restart

Spec == Init /\ [][Next]_vars

(* Every chat request is answered: it has a total timeout.  This is weak   *)
(* fairness of Complete(t), which is enabled while t is in flight.         *)
Fairness ==
  \A t \in Turns : []<>~ InFlight(agent, t) \/ []<><<Complete(t)>>_vars

FairSpec == Spec /\ Fairness

-----------------------------------------------------------------------------
(* Properties                                                              *)

(* The types, and "maxToolRoundTrips prevents infinite tool-calling        *)
(* loops": every request in flight is one of the first maxToolRoundTrips   *)
(* of its turn, also of a turn that was cancelled and goes on.             *)
TypeOK ==
  /\ agent.active \in Turns \cup {NoTurn}
  /\ agent.ctx \in [Turns -> [done : Callers, round : Nat] \cup {NoCtx}]
  /\ \A t \in Turns : InFlight(agent, t) => agent.ctx[t].round < MaxToolRoundTrips
  /\ answers \in [Callers -> Errors \cup {"none", "waiting", "ok", "lost"}]
  /\ cancels \in 0 .. MaxCancels
  /\ restarts \in 0 .. MaxRestarts

History == NonSystemMessages(agent.session)

(* An assistant message with tool calls is followed by as many results. *)
CallsAreAnswered(msgs) ==
  \A i \in DOMAIN msgs : \A j \in 1 .. msgs[i].calls :
    i + j \in DOMAIN msgs /\ msgs[i + j].role = "tool"

(* A result stands behind the message with its call, among the results of  *)
(* that: or there are only results before it, as when trim() has cut their *)
(* round and dropped the message.                                          *)
ResultsAreCalled(msgs) ==
  \A i \in DOMAIN msgs : msgs[i].role = "tool" =>
    \E j \in 0 .. i - 1 :
      /\ j = 0 \/ i - j <= msgs[j].calls
      /\ \A k \in j + 1 .. i : msgs[k].role = "tool"

(* Calls and results stay together in the history and in the file, over    *)
(* cancelled turns that go on, failing turns and restarts, but for two     *)
(* things that do separate them.  A tool handler that fails leaves calls   *)
(* without results, for good.  And trim() may drop a message with calls    *)
(* and keep its results: then these are the first of the history, and      *)
(* nowhere else is a result without its call.  (An API may refuse either.) *)
ToolResultsPaired ==
  /\ ResultsAreCalled(History)
  /\ agent.saved # NoSnapshot => ResultsAreCalled(agent.saved.messages)
  /\ "toolFailed" \notin Range(answers) =>
       /\ CallsAreAnswered(History)
       /\ agent.saved # NoSnapshot => CallsAreAnswered(agent.saved.messages)

(* session.json is there only when a turn has succeeded, and it ends with  *)
(* a reply: a turn that fails, or has rounds to go, writes nothing.  What  *)
(* such a turn left in the history is not kept out of the file, though: it *)
(* is saved, before the reply, with the next turn that succeeds.           *)
SavedIsFinished ==
  agent.saved # NoSnapshot =>
    /\ "ok" \in Range(answers)
    /\ LET msgs == agent.saved.messages
       IN  msgs = << >> \/ (Last(msgs).role = "assistant" /\ Last(msgs).calls = 0)

(* Every turn ends: its caller is answered, or gone with the process. *)
TurnsEnd == \A c \in Callers : answers[c] = "waiting" ~> answers[c] # "waiting"
=============================================================================
