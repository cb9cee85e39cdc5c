------------------------------ MODULE AgentOps ------------------------------
(***************************************************************************)
(* The operations of EaAgent, the tool-calling loop between the session    *)
(* and the LLM, as operators on an agent value.  An agent is a record      *)
(*   session : the EaSession                                               *)
(*   active  : activeTurn_, NoTurn when there is none                      *)
(*   ctx     : for every turn whose chat request has not been answered,    *)
(*             its TurnContext [done, round]; NoCtx otherwise              *)
(*   saved   : the snapshot in session.json, NoSnapshot before the first   *)
(* activeTurn_ and the callbacks of an HTTP request in flight hold the     *)
(* context independently, so cancel() leaves ctx alone.                    *)
(*                                                                         *)
(* An operation returns [agent, result]: the agent afterwards, and what    *)
(* the turn's done callback is told: "ok", the class of the error, or      *)
(* Pending when it is not called yet.                                      *)
(***************************************************************************)
EXTENDS SessionOps

CONSTANTS Turns,              (* identities of turns, reused               *)
          NoTurn, NoCtx, NoSnapshot,
          Pending,            (* "the done callback is not called yet"     *)
          MaxToolRoundTrips,  (* EaAgentOptions.maxToolRoundTrips          *)
          HasRegistry,        (* a tool registry was set                   *)
          Persist,            (* persistSession and a storage were given   *)
          Prompt,             (* the rendered system template              *)
          MessageSize         (* characters of every message               *)

ASSUME AgentConstants ==
  /\ MaxToolRoundTrips \in Nat
  /\ MessageSize \in Nat
  /\ HasRegistry \in BOOLEAN
  /\ Persist \in BOOLEAN
  /\ NoTurn \notin Turns
  /\ Pending \notin {"busy", "maxRounds", "toolFailed", "noRegistry", "notSent",
                     "badBody", "transport", "http400", "http429", "http503", "ok"}

-----------------------------------------------------------------------------
(* Errors                                                                  *)

(* The HTTP status an error text carries; 0 for "EaAgent: ..." errors, for *)
(* the checks of EaLlmClient and for transport errors.                     *)
HttpCode ==
  [busy |-> 0, maxRounds |-> 0, toolFailed |-> 0, noRegistry |-> 0,
   notSent |-> 0, badBody |-> 0, transport |-> 0,
   http400 |-> 400, http429 |-> 429, http503 |-> 503]

Errors == DOMAIN HttpCode

IsQueueable(error) ==
  \/ HttpCode[error] = 0
  \/ HttpCode[error] = 429
  \/ HttpCode[error] >= 500

(* What a chat request is answered with: an error, or a message making     *)
(* calls tool calls of which the first invoked succeed.                    *)
NoError == "none"

Failure(error) == [error |-> error, calls |-> 0, invoked |-> 0]
Reply == [error |-> NoError, calls |-> 0, invoked |-> 0]
ToolCalls(n, invoked) == [error |-> NoError, calls |-> n, invoked |-> invoked]

-----------------------------------------------------------------------------
(* Turns                                                                   *)

InFlight(a, t) == a.ctx[t] # NoCtx

RefreshSystemPrompt(s) == SetSystemPrompt(s, Prompt)

NewAgent(opts) ==
  [session |-> RefreshSystemPrompt(EmptySession(opts)),
   active  |-> NoTurn,
   ctx     |-> [t \in Turns |-> NoCtx],
   saved   |-> NoSnapshot]

(* The constructor: the session is loaded if session.json can be read, the *)
(* prompt is rendered otherwise.                                           *)
Construct(opts, saved) ==
  LET new == NewAgent(opts)
  IN  IF Persist /\ saved # NoSnapshot
      THEN [new EXCEPT !.session = ApplySnapshot(saved, EmptySession(opts)),
                       !.saved = saved]
      ELSE [new EXCEPT !.saved = saved]

(* Mutant of FinishTurn: the success path forgets activeTurn_. *)
FinishTurnKeepsActive(a, t, result) ==
  [agent |-> [a EXCEPT !.ctx[t] = NoCtx, !.active = IF result = "ok" THEN @ ELSE NoTurn],
   result |-> result]

(* Mutant of FinishTurn: the session is saved after a failure, too. *)
FinishTurnSaves(a, t, result) ==
  [agent  |-> [a EXCEPT !.active = NoTurn, !.ctx[t] = NoCtx, !.saved = Snapshot(a.session)],
   result |-> result]

(* finishTurn clears activeTurn_ whichever turn it holds. *)
FinishTurn(a, t, result) ==
  [agent  |-> [a EXCEPT !.active = NoTurn,
                        !.ctx[t] = NoCtx,
                        !.saved = IF result = "ok" /\ Persist
                                  THEN Snapshot(a.session)
                                  ELSE @],
   result |-> result]

(* Mutant of RunTurn: one round too many. *)
RunTurnLate(a, t, sends) ==
  IF a.ctx[t].round > MaxToolRoundTrips THEN FinishTurn(a, t, "maxRounds")
  ELSE IF sends THEN [agent |-> a, result |-> Pending]
  ELSE FinishTurn(a, t, "notSent")

(* sends: the LLM client hands the request to the HTTP client, rather than *)
(* failing at once on its configuration or on the request body.            *)
RunTurn(a, t, sends) ==
  IF a.ctx[t].round >= MaxToolRoundTrips THEN FinishTurn(a, t, "maxRounds")
  ELSE IF sends THEN [agent |-> a, result |-> Pending]
  ELSE FinishTurn(a, t, "notSent")

(* Mutant of AgentSubmit: without the test of activeTurn_. *)
AgentSubmitAnyway(a, text, done, t, sends) ==
  RunTurn([a EXCEPT !.session = AppendUser(RefreshSystemPrompt(@), text, MessageSize),
                    !.active  = t,
                    !.ctx[t]  = [done |-> done, round |-> 0]],
          t, sends)

(* EaAgent::submitUserMessage, the turn's context being t; text is NoText  *)
(* when skipAppendUser is set.                                             *)
AgentSubmit(a, text, done, t, sends) ==
  LET fresh == RefreshSystemPrompt(a.session)
  IN  IF a.active # NoTurn
      THEN [agent |-> a, result |-> "busy"]
      ELSE RunTurn([a EXCEPT !.session = IF text = NoText THEN fresh
                                         ELSE AppendUser(fresh, text, MessageSize),
                             !.active  = t,
                             !.ctx[t]  = [done |-> done, round |-> 0]],
                   t, sends)

(* Mutant of NextRound: the count starts again before it reaches the limit. *)
WrappedRound(a, t) == [a EXCEPT !.ctx[t].round = (@ + 1) % MaxToolRoundTrips]

NextRound(a, t) == [a EXCEPT !.ctx[t].round = @ + 1]

(* The completion of the chat request of turn t with response r. *)
Respond(a, t, r, sends) ==
  LET said   == AppendAssistant(a.session, r.calls, MessageSize)
      worked == [a EXCEPT !.session = AppendToolResults(said, r.invoked, MessageSize)]
  IN  IF r.error # NoError THEN FinishTurn(a, t, r.error)
      ELSE IF r.calls = 0 THEN FinishTurn([a EXCEPT !.session = said], t, "ok")
      ELSE IF ~ HasRegistry THEN FinishTurn(a, t, "noRegistry")
      ELSE IF r.invoked < r.calls THEN FinishTurn(worked, t, "toolFailed")
      ELSE RunTurn(NextRound(worked, t), t, sends)

(* Mutant of AgentCancel: the requests are dropped, nobody is told. *)
AgentCancelDropsTurns(a) ==
  [a EXCEPT !.active = NoTurn, !.ctx = [t \in Turns |-> NoCtx]]

(* EaAgent::cancel: the LLM client forgets its stream context, the request *)
(* itself is not aborted.                                                  *)
AgentCancel(a) == [a EXCEPT !.active = NoTurn]

(* Mutant of Rollback: the user message stays. *)
NoRollback(a) == a

(* EaSession::rollbackLastUser, called on the agent's session. *)
Rollback(a) == [a EXCEPT !.session = RollbackLastUser(@)]
=============================================================================
