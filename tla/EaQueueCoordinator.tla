------------------------- MODULE EaQueueCoordinator -------------------------
(***************************************************************************)
(* EaQueueCoordinator: what the application talks to.  It sends a user     *)
(* message straight to the agent while the device is believed online,      *)
(* keeps it in the offline queue otherwise, and replays the queue one item *)
(* at a time, front first.  It composes the agent (AgentOps), the queue    *)
(* and the connectivity monitor.                                           *)
(*                                                                         *)
(* Everything runs in one event loop.  A step is one callback of the loop, *)
(* with all the calls it makes: a call of the application, the completion  *)
(* of a chat request, or a report on connectivity.  Between two steps any  *)
(* other may run.                                                          *)
(***************************************************************************)
EXTENDS AgentOps

CONSTANTS Msgs,             (* what users say; each is submitted once      *)
          FlushCalls,       (* calls of flush(), each made once            *)
          NoFlush,          (* flushCtx_ is null                           *)
          Loaded,           (* the queue load() finds: texts, oldest first *)
          SessionLimits,    (* EaSessionOptions                            *)
          MaxQueueItems, MaxItemAttempts, AutoFlush, (* EaQueueCoordinatorOptions *)
          Responses,        (* how chat requests may be answered           *)
          Sends,            (* may requests leave the LLM client: TRUE     *)
                            (* when it is configured, FALSE when one of    *)
                            (* url, key and model is missing               *)
          Reports,          (* what is reported on connectivity: online?   *)
          MaxCancels        (* bound on calls of cancel()                  *)

(* What the coordinator gives the agent as a done callback: it is the one  *)
(* of a direct submission or that of a flush, for a message.               *)
DoneCallbacks == [by : {"direct", "flush"}, text : Msgs]

ASSUME CoordinatorConstants ==
  /\ Loaded \in Seq(Msgs)
  /\ SessionLimits \in [maxMessages : Nat, maxApproxTokens : Nat]
  /\ MaxQueueItems \in Nat
  /\ MaxItemAttempts \in Nat
  /\ AutoFlush \in BOOLEAN
  /\ MaxCancels \in Nat
  /\ Sends \subseteq BOOLEAN
  /\ Reports \subseteq BOOLEAN
  /\ NoFlush \notin FlushCalls
  /\ NoCtx \notin [done : DoneCallbacks, round : Nat]
  /\ NoText \notin Msgs /\ Prompt \notin Msgs
  /\ Responses \subseteq [error : Errors \cup {NoError}, calls : Nat, invoked : Nat]

VARIABLES
  monitor,    (* EaConnectivityMonitor::state_                              *)
  queue,      (* the items of the offline queue: [text, attempts]           *)
  flushing,   (* flushing_                                                  *)
  flushCtx,   (* flushCtx_                                                  *)
  agent,      (* the EaAgent                                                *)
  told,       (* what the caller who submitted a message was last told      *)
  flushTold,  (* what the caller of flush() was told                        *)
  fate,       (* history: how the requests made for a message ended         *)
  cancels     (* history: calls of cancel() so far                          *)

vars == <<monitor, queue, flushing, flushCtx, agent, told, flushTold, fate, cancels>>

(* The coordinator as a value, which the operations below work on. *)
This ==
  [monitor |-> monitor, queue |-> queue, flushing |-> flushing,
   flushCtx |-> flushCtx, agent |-> agent, told |-> told,
   flushTold |-> flushTold, fate |-> fate]

Become(c) ==
  /\ monitor' = c.monitor
  /\ queue' = c.queue
  /\ flushing' = c.flushing
  /\ flushCtx' = c.flushCtx
  /\ agent' = c.agent
  /\ told' = c.told
  /\ flushTold' = c.flushTold
  /\ fate' = c.fate

Texts(q) == {q[i].text : i \in DOMAIN q}

-----------------------------------------------------------------------------
(* The queue                                                               *)

Item(text) == [text |-> text, attempts |-> 0]

(* Mutant of RemoveFront: the item that was sent stays. *)
KeepFront(c) == c

RemoveFront(c) == IF c.queue = << >> THEN c ELSE [c EXCEPT !.queue = Tail(@)]

(* Mutant of BumpFront: the attempt is not counted. *)
BumpNothing(c) == c

BumpFront(c) ==
  IF c.queue = << >> THEN c ELSE [c EXCEPT !.queue[1].attempts = @ + 1]

(* Mutants of QueueOrRefuse: no room and yet "queued"; the newest first. *)
QueueOrForget(c, m) ==
  [c EXCEPT !.queue = IF Len(@) >= MaxQueueItems THEN @ ELSE Append(@, Item(m)),
            !.told[m] = "queued"]
QueueInFront(c, m) == [c EXCEPT !.queue = << Item(m) >> \o @, !.told[m] = "queued"]

(* enqueueUserText, and the answer to the caller: "queued" or "queue full" *)
QueueOrRefuse(c, m) ==
  IF Len(c.queue) >= MaxQueueItems
  THEN [c EXCEPT !.told[m] = "failed"]
  ELSE [c EXCEPT !.queue = Append(@, Item(m)), !.told[m] = "queued"]

(* tryFlush drops the items at the front whose attempts are used up. *)
Exhausted(q) ==
  Cardinality({i \in DOMAIN q : \A j \in 1 .. i : q[j].attempts >= MaxItemAttempts})

DropExhausted(c) ==
  LET n == Exhausted(c.queue)
      dropped == {c.queue[i].text : i \in 1 .. n}
  IN  [c EXCEPT !.queue = SubSeq(@, n + 1, Len(@)),
                !.fate  = [m \in Msgs |-> IF m \in dropped THEN @[m] \cup {"dropped"}
                                          ELSE @[m]]]

-----------------------------------------------------------------------------
(* Flushing.  t is the turn a step may start, sends whether its request    *)
(* leaves the LLM client: a step starts at most one.                       *)

IsOnline(c) == c.monitor # "offline"

(* Mutants of AnswerFlush: the caller is forgotten; it is told "queued". *)
ForgetFlush(c, answer) == [c EXCEPT !.flushCtx = NoFlush]
AnswerFlushQueued(c, answer) ==
  IF c.flushCtx = NoFlush THEN c
  ELSE [c EXCEPT !.flushTold[c.flushCtx] = "queued", !.flushCtx = NoFlush]

AnswerFlush(c, answer) ==
  IF c.flushCtx = NoFlush THEN c
  ELSE [c EXCEPT !.flushTold[c.flushCtx] = answer, !.flushCtx = NoFlush]

GoOffline(c) == [c EXCEPT !.monitor = "offline"]

(* finishFlushItem on a queueable error *)
RetryLater(c) ==
  AnswerFlush(BumpFront([GoOffline(c) EXCEPT !.agent = Rollback(@)]), "failed")

(* The agent answers at once only with a queueable error: it is busy, its  *)
(* round limit is 0, or the request could not be sent.                     *)
SubmitFront(c, t, sends) ==
  LET m   == Head(c.queue).text
      out == AgentSubmit(c.agent, m, [by |-> "flush", text |-> m], t, sends)
      d   == [c EXCEPT !.agent = out.agent]
  IN  IF out.result = Pending
      THEN [d EXCEPT !.flushing = TRUE]
      ELSE RetryLater([d EXCEPT !.flushing = FALSE])

TryFlush(c, t, sends) ==
  LET live == DropExhausted(c)
  IN  IF ~ IsOnline(c) \/ c.flushing THEN c
      ELSE IF live.queue = << >> THEN AnswerFlush(live, "ok")
      ELSE SubmitFront(live, t, sends)

(* Mutant of SetOnline: the transition callback is not called. *)
SetOnlineQuietly(c, online, t, sends) ==
  [c EXCEPT !.monitor = IF online THEN "online" ELSE "offline"]

(* EaConnectivityMonitor::setOnline and onConnectivityChanged *)
SetOnline(c, online, t, sends) ==
  LET d == [c EXCEPT !.monitor = IF online THEN "online" ELSE "offline"]
  IN  IF online /\ c.monitor # "online" /\ AutoFlush
      THEN TryFlush(d, t, sends)
      ELSE d

Settle(c, m, how) == [c EXCEPT !.fate[m] = @ \cup {how}]

-----------------------------------------------------------------------------
(* The done callbacks of a turn                                            *)

FinishFlushItem(c, m, result, t, sends) ==
  LET idle == [c EXCEPT !.flushing = FALSE]
      done == IF result = "ok"
              THEN SetOnline(Settle(idle, m, "replied"), TRUE, t, sends)
              ELSE Settle(idle, m, "refused")
  IN  IF result # "ok" /\ IsQueueable(result)
      THEN RetryLater(idle)
      ELSE TryFlush(RemoveFront(done), t, sends)

(* The callback submitUserMessage gives the agent *)
DirectDone(c, m, result, t, sends) ==
  LET rolledBack == [c EXCEPT !.agent = Rollback(@)]
  IN  IF result = "ok"
      THEN [SetOnline(Settle(c, m, "replied"), TRUE, t, sends) EXCEPT !.told[m] = "replied"]
      ELSE IF ~ IsQueueable(result)
      THEN [Settle(rolledBack, m, "refused") EXCEPT !.told[m] = "failed"]
      ELSE QueueOrRefuse(GoOffline(rolledBack), m)

TurnDone(c, done, result, t, sends) ==
  IF result = Pending THEN c
  ELSE IF done.by = "flush" THEN FinishFlushItem(c, done.text, result, t, sends)
  ELSE DirectDone(c, done.text, result, t, sends)

SubmitUserMessage(c, m, t, sends) ==
  LET done == [by |-> "direct", text |-> m]
      out  == AgentSubmit(c.agent, m, done, t, sends)
  IN  IF ~ IsOnline(c) \/ c.flushing
      THEN QueueOrRefuse(c, m)
      ELSE TurnDone([c EXCEPT !.agent = out.agent, !.told[m] = "waiting"],
                    done, out.result, t, sends)

-----------------------------------------------------------------------------
(* The steps                                                               *)

(* A step that may start a turn gives it a context of its own. *)
Fresh(t) == agent.active = NoTurn => ~ InFlight(agent, t)

Init ==
  /\ monitor = "unknown"
  /\ queue = [i \in DOMAIN Loaded |-> Item(Loaded[i])]
  /\ flushing = FALSE
  /\ flushCtx = NoFlush
  /\ agent = NewAgent(SessionLimits)
  /\ told = [m \in Msgs |-> IF m \in Texts(queue) THEN "queued" ELSE "none"]
  /\ flushTold = [f \in FlushCalls |-> "none"]
  /\ fate = [m \in Msgs |-> {}]
  /\ cancels = 0

Submit(m) ==
  /\ told[m] = "none"
  /\ \E t \in Turns, sends \in Sends :
        /\ Fresh(t)
        /\ Become(SubmitUserMessage(This, m, t, sends))
  /\ UNCHANGED cancels

Flush(f) ==
  /\ flushTold[f] = "none"
  /\ \E t \in Turns, sends \in Sends :
        /\ Fresh(t)
        /\ Become(TryFlush([This EXCEPT !.flushCtx = f, !.flushTold[f] = "waiting"],
                           t, sends))
  /\ UNCHANGED cancels

(* The chat request of turn t is answered.  The turn is over, or goes on   *)
(* in its own context, before another one starts.                          *)
Complete(t) ==
  /\ InFlight(agent, t)
  /\ \E r \in Responses, sends \in Sends :
        LET out == Respond(agent, t, r, sends)
        IN  Become(TurnDone([This EXCEPT !.agent = out.agent],
                            agent.ctx[t].done, out.result, t, sends))
  /\ UNCHANGED cancels

(* The application or the answer to a probe reports on connectivity. *)
Report(online) ==
  /\ \E t \in Turns, sends \in Sends :
        /\ Fresh(t)
        /\ Become(SetOnline(This, online, t, sends))
  /\ UNCHANGED cancels

Cancel ==
  /\ cancels < MaxCancels
  /\ cancels' = cancels + 1
  /\ Become([This EXCEPT !.agent = AgentCancel(@), !.flushing = FALSE, !.flushCtx = NoFlush])

Next ==
  \/ \E m \in Msgs : Submit(m)
  \/ \E f \in FlushCalls : Flush(f)
  \/ \E t \in Turns : Complete(t)
  \/ \E online \in Reports : Report(online)
  \/ Cancel

Spec == Init /\ [][Next]_vars

(* A chat request has a total timeout, so it is answered in the end; and   *)
(* connectivity is probed, or reported by the application, until it is     *)
(* back.  This is weak fairness of Complete(t), which is enabled while t   *)
(* is in flight, and of a Report(TRUE) that changes something.             *)
Fairness ==
  /\ \A t \in Turns : []<>~ InFlight(agent, t) \/ []<><<Complete(t)>>_vars
  /\ []<>(monitor = "online") \/ []<><<Report(TRUE)>>_vars

FairSpec == Spec /\ Fairness

-----------------------------------------------------------------------------
(* Properties                                                              *)

(* The types of the coordinator's variables.  The history of the session   *)
(* is left to EaSession.                                                   *)
TypeOK ==
  /\ monitor \in {"unknown", "online", "offline"}
  /\ queue \in Seq([text : Msgs, attempts : Nat])
  /\ flushing \in BOOLEAN
  /\ flushCtx \in FlushCalls \cup {NoFlush}
  /\ agent.active \in Turns \cup {NoTurn}
  /\ agent.ctx \in [Turns -> [done : DoneCallbacks, round : Nat] \cup {NoCtx}]
  /\ told \in [Msgs -> {"none", "waiting", "queued", "replied", "failed"}]
  /\ flushTold \in [FlushCalls -> {"none", "waiting", "ok", "failed"}]
  /\ fate \in [Msgs -> SUBSET {"replied", "refused", "dropped"}]
  /\ cancels \in 0 .. MaxCancels

ServesIn(a, t, by, m) == InFlight(a, t) /\ a.ctx[t].done = [by |-> by, text |-> m]

Serves(t, by, m) == ServesIn(agent, t, by, m)

(* Neither guard is ever left set for good: while flushing_ is set, which  *)
(* queues every submission and stops tryFlush, a turn whose callback       *)
(* clears it is in flight; and so is the turn activeTurn_ holds.  It is    *)
(* about the early returns of tryFlush and submitUserMessage.              *)
NotWedged ==
  /\ flushing => \E t \in Turns, m \in Msgs : Serves(t, "flush", m)
  /\ agent.active # NoTurn => InFlight(agent, agent.active)

(* Every caller of submitUserMessage is answered exactly once: a caller    *)
(* waits as long as the one turn made for the message is in flight, also   *)
(* over cancel() and over late completions.                                *)
CallersAnsweredOnce ==
  \A m \in Msgs :
    /\ told[m] = "waiting" <=> \E t \in Turns : Serves(t, "direct", m)
    /\ \A t, u \in Turns : Serves(t, "direct", m) /\ Serves(u, "direct", m) => t = u

(* "Only one active turn (activeTurn_) at a time": the requests of two     *)
(* turns are never in flight together, so the session never interleaves    *)
(* two conversations.                                                      *)
OneTurnAtATime == \A t \in Turns : InFlight(agent, t) => agent.active = t

(* The same for as long as nobody has called cancel(). *)
OneTurnUnlessCancelled == cancels = 0 => OneTurnAtATime

(* With autoFlushOnOnline nothing waits for an event that may never come:  *)
(* as soon as the monitor says online, what is queued and whoever called   *)
(* flush() is being served.  The connectivity transition is the only       *)
(* trigger, so nothing may be left over once it has passed.                *)
NothingStranded ==
  cancels = 0 /\ AutoFlush /\ monitor = "online" /\ (queue # << >> \/ flushCtx # NoFlush)
    => flushing

(* While a flush runs, the front of the queue is the item that was sent:   *)
(* removeFront and updateFrontAttempt, which name no item, hit it.         *)
FrontIsInFlight ==
  flushing => /\ queue # << >>
              /\ \E t \in Turns : Serves(t, "flush", Head(queue).text)

(* "Messages are not lost when offline": what a caller was told is queued  *)
(* stays in the queue until the server replied to it or refused it, or its *)
(* attempts were used up.  After cancel() this is not so: the request goes *)
(* on, the next flush sends the same item, and each answer removes one.    *)
NothingLost ==
  cancels = 0 =>
    \A m \in Msgs : told[m] = "queued" => m \in Texts(queue) \/ fate[m] # {}

(* rollbackLastUser keeps a queued message out of the session ("preventing *)
(* it from appearing in both the session and the queue"), except for the   *)
(* front item while it is being sent.                                      *)
SessionQueueDisjoint ==
  \A m \in Texts(queue) :
    \/ \E t \in Turns : Serves(t, "flush", m)
    \/ \A i \in DOMAIN agent.session.messages : agent.session.messages[i].text # m

(* The same, short of two exceptions: a text whose turn got as far as a    *)
(* tool round stays, followed by the assistant message that asked for the  *)
(* tools; and once cancel() lets turns overlap, one turn's rollback may    *)
(* take the other's message.  Nothing else that was queued is left in the  *)
(* session.                                                                *)
LeftoverHasToolRound ==
  cancels = 0 =>
    \A m \in Texts(queue) :
      \/ \E t \in Turns : Serves(t, "flush", m)
      \/ LET msgs == agent.session.messages
         IN  \A i \in DOMAIN msgs :
               msgs[i].text = m => i + 1 \in DOMAIN msgs /\ msgs[i + 1].calls > 0

(* The coordinator implements the abstract MessageDelivery: the messages   *)
(* it keeps in its queue are settled in the order they were accepted.      *)
WaitingTexts == [i \in DOMAIN queue |-> queue[i].text]

Delivery == INSTANCE MessageDelivery WITH pending <- WaitingTexts, outcome <- fate

(* Messages are delivered first in, first out, each settled exactly once,  *)
(* by every step of tryFlush, finishFlushItem and submitUserMessage that   *)
(* comes before any cancel().                                              *)
DeliversInOrder ==
  /\ Delivery!Init
  /\ [][cancels' = 0 => Delivery!Next]_<<WaitingTexts, fate>>

(* Whoever submits a message is answered. *)
EveryCallerAnswered == \A m \in Msgs : told[m] = "waiting" ~> told[m] # "waiting"

(* With autoFlushOnOnline the queue drains once connectivity is back. *)
QueueDrains == queue # << >> ~> queue = << >>

(* The caller of flush() is answered, unless a later call of flush() takes *)
(* its place: flushCtx_ holds one caller only.                             *)
FlushAnswered ==
  \A f \in FlushCalls :
    flushCtx = f ~> flushTold[f] # "waiting" \/ flushCtx \in FlushCalls \ {f}

(* Nothing waits for ever: no message in the queue, as connectivity comes  *)
(* back, no caller of submitUserMessage, and no caller of flush() but one  *)
(* whose place another took.  It takes the bound on tool rounds, the bound *)
(* on attempts, and a flush on every transition to online.                 *)
NothingWaitsForever == EveryCallerAnswered /\ QueueDrains /\ FlushAnswered
=============================================================================
