---------------------- MODULE EaQueueCoordinatorProofs ----------------------
(***************************************************************************)
(* Proofs about EaQueueCoordinator, and about DurableCoordinator, which    *)
(* adds its file, for every value of their constants.                      *)
(*                                                                         *)
(* A step is a composition of operators on the value of the coordinator,   *)
(* so the proof has two layers: lemmas that say what each operator does to *)
(* the turns, the flag flushing and the callers, and below them one step   *)
(* per action.  The same again, from FrontServed on, for what happens to   *)
(* the messages: that the front of the queue is the one that is sent and   *)
(* nothing is lost, that MessageDelivery is implemented, and that a queued *)
(* message is in the session only behind a round of tools.  Most of that   *)
(* is for a coordinator without autoFlushOnOnline.                         *)
(*                                                                         *)
(* The last part, from Sound on, is about DurableCoordinator: that the     *)
(* coordinator and its file agree well enough to restart at any time, and  *)
(* that a message is delivered once between two restarts, if no flush is   *)
(* started while an item is in flight.                                     *)
(***************************************************************************)
EXTENDS DurableCoordinator, SessionOpsProofs, TLAPS, FiniteSetTheorems, SequenceTheorems

TurnContext == [done : DoneCallbacks, round : Nat]
Items == [text : Msgs, attempts : Nat]

(* TypeOK of a value of the agent.  The record's fields are part of it: an *)
(* EXCEPT says nothing of a field that is not known to exist.              *)
AgentOK(a) ==
  /\ DOMAIN a = {"session", "active", "ctx", "saved"}
  /\ a.active \in Turns \cup {NoTurn}
  /\ a.ctx \in [Turns -> TurnContext \cup {NoCtx}]

(* TypeOK of a value of the coordinator.  "gone" is for callers that a     *)
(* restart leaves behind, as in DurableCoordinator.                        *)
CoordinatorOK(c) ==
  /\ DOMAIN c = {"monitor", "queue", "flushing", "flushCtx", "agent", "told",
                 "flushTold", "fate"}
  /\ c.monitor \in {"unknown", "online", "offline"}
  /\ c.queue \in Seq(Items)
  /\ c.flushing \in BOOLEAN
  /\ c.flushCtx \in FlushCalls \cup {NoFlush}
  /\ AgentOK(c.agent)
  /\ c.told \in [Msgs -> {"none", "waiting", "queued", "replied", "failed", "gone"}]
  /\ c.flushTold \in [FlushCalls -> {"none", "waiting", "ok", "failed"}]
  /\ c.fate \in [Msgs -> SUBSET {"replied", "refused", "dropped"}]

(* A step that may start turn t finds its context free. *)
FreshIn(a, t) == a.active = NoTurn => ~ InFlight(a, t)

-----------------------------------------------------------------------------
(* The agent                                                               *)

(* What an error text is classified as. *)
LEMMA Classification ==
  /\ \A e \in {"busy", "maxRounds", "notSent"} : IsQueueable(e) /\ e # "ok" /\ e # Pending
  /\ \A e \in Errors : e # Pending
  /\ "ok" # Pending
BY AgentConstants DEF IsQueueable, HttpCode, Errors

(* Rolling back touches the session only. *)
LEMMA RollbackFacts ==
  ASSUME NEW a, AgentOK(a)
  PROVE  /\ AgentOK(Rollback(a))
         /\ Rollback(a).active = a.active
         /\ Rollback(a).ctx = a.ctx
BY DEF AgentOK, Rollback

(* The end of a turn frees its context, and activeTurn_. *)
LEMMA FinishFacts ==
  ASSUME NEW a, AgentOK(a), NEW t \in Turns, NEW result
  PROVE  /\ AgentOK(FinishTurn(a, t, result).agent)
         /\ FinishTurn(a, t, result).result = result
         /\ FinishTurn(a, t, result).agent.active = NoTurn
         /\ FinishTurn(a, t, result).agent.ctx = [a.ctx EXCEPT ![t] = NoCtx]
BY DEF AgentOK, FinishTurn

(* A round either leaves the request of t in flight or ends the turn. *)
LEMMA RunTurnFacts ==
  ASSUME NEW a, AgentOK(a), NEW t \in Turns, NEW sends \in BOOLEAN
  PROVE  \/ RunTurn(a, t, sends) = [agent |-> a, result |-> Pending]
         \/ \E e \in {"maxRounds", "notSent"} :
               RunTurn(a, t, sends) = FinishTurn(a, t, e)
BY DEF RunTurn

(* A submission starts turn t, or fails at once and leaves the turns as    *)
(* they were.                                                              *)
LEMMA AgentSubmitFacts ==
  ASSUME NEW a, AgentOK(a), NEW text, NEW done \in DoneCallbacks,
         NEW t \in Turns, NEW sends \in BOOLEAN, FreshIn(a, t)
  PROVE  LET out == AgentSubmit(a, text, done, t, sends)
         IN  /\ AgentOK(out.agent)
             /\ out.result = Pending =>
                  /\ a.active = NoTurn
                  /\ ~ InFlight(a, t)
                  /\ out.agent.active = t
                  /\ out.agent.ctx = [a.ctx EXCEPT ![t] = [done |-> done, round |-> 0]]
             /\ out.result # Pending =>
                  /\ out.result \in {"busy", "maxRounds", "notSent"}
                  /\ out.agent.active = a.active
                  /\ out.agent.ctx = a.ctx
<1> DEFINE out == AgentSubmit(a, text, done, t, sends)
           fresh == RefreshSystemPrompt(a.session)
           s == IF text = NoText THEN fresh ELSE AppendUser(fresh, text, MessageSize)
           b == [a EXCEPT !.session = s, !.active = t,
                          !.ctx[t] = [done |-> done, round |-> 0]]
<1>1. CASE a.active # NoTurn
  <2>1. out = [agent |-> a, result |-> "busy"]
    BY <1>1 DEF AgentSubmit
  <2> QED BY <2>1, Classification
<1>2. CASE a.active = NoTurn
  <2>1. out = RunTurn(b, t, sends)
    BY <1>2 DEF AgentSubmit
  <2>2. /\ DOMAIN b = DOMAIN a
        /\ b.active = t
        /\ b.ctx = [a.ctx EXCEPT ![t] = [done |-> done, round |-> 0]]
    BY DEF AgentOK
  <2>3. AgentOK(b)
    <3>1. [done |-> done, round |-> 0] \in TurnContext
      BY DEF TurnContext
    <3> QED BY <2>2, <3>1 DEF AgentOK
  <2> HIDE DEF b, out
  <2>4. a.ctx[t] = NoCtx
    BY <1>2 DEF FreshIn, InFlight
  <2>5. CASE out = [agent |-> b, result |-> Pending]
    BY <1>2, <2>2, <2>3, <2>4, <2>5 DEF InFlight, out
  <2>6. ASSUME NEW e \in {"maxRounds", "notSent"}, out = FinishTurn(b, t, e)
        PROVE  /\ AgentOK(out.agent)
               /\ out.result = e
               /\ out.agent.active = a.active
               /\ out.agent.ctx = a.ctx
    <3>1. [b.ctx EXCEPT ![t] = NoCtx] = a.ctx
      BY <2>2, <2>4 DEF AgentOK
    <3> QED BY <1>2, <2>3, <2>6, <3>1, FinishFacts
  <2>7. out = [agent |-> b, result |-> Pending]
        \/ \E e \in {"maxRounds", "notSent"} : out = FinishTurn(b, t, e)
    BY <2>1, <2>3, RunTurnFacts
  <2> QED BY <2>5, <2>6, <2>7, Classification DEF out
<1> QED BY <1>1, <1>2

(* An answer leaves turn t in flight for the same callback, or ends it. *)
LEMMA RespondFacts ==
  ASSUME NEW a, AgentOK(a), NEW t \in Turns, InFlight(a, t),
         NEW r \in Responses, NEW sends \in BOOLEAN
  PROVE  LET out == Respond(a, t, r, sends)
         IN  /\ AgentOK(out.agent)
             /\ out.result = Pending =>
                  /\ out.agent.active = a.active
                  /\ \A u \in Turns : /\ InFlight(out.agent, u) <=> InFlight(a, u)
                                      /\ out.agent.ctx[u].done = a.ctx[u].done
             /\ out.result # Pending =>
                  /\ out.agent.active = NoTurn
                  /\ out.agent.ctx = [a.ctx EXCEPT ![t] = NoCtx]
<1> DEFINE said == AppendAssistant(a.session, r.calls, MessageSize)
           worked == [a EXCEPT !.session = AppendToolResults(said, r.invoked, MessageSize)]
           out == Respond(a, t, r, sends)
           Ended(b) == \E e \in Errors \cup {"ok"} : out = FinishTurn(b, t, e)
<1> HIDE DEF said
<1>1. AgentOK(worked) /\ worked.active = a.active /\ worked.ctx = a.ctx
  BY DEF AgentOK
<1>2. ASSUME NEW s
      PROVE  LET b == [a EXCEPT !.session = s]
             IN  AgentOK(b) /\ b.ctx = a.ctx
  BY DEF AgentOK
<1>3. AgentOK(NextRound(worked, t))
      /\ NextRound(worked, t).active = a.active
      /\ NextRound(worked, t).ctx = [a.ctx EXCEPT ![t].round = @ + 1]
  <2>1. [a.ctx[t] EXCEPT !.round = @ + 1] \in TurnContext
    BY DEF AgentOK, InFlight, TurnContext
  <2> QED BY <1>1, <2>1 DEF AgentOK, NextRound
<1>4. ASSUME NEW b, AgentOK(b), Ended(b),
             [b.ctx EXCEPT ![t] = NoCtx] = [a.ctx EXCEPT ![t] = NoCtx]
      PROVE  /\ AgentOK(out.agent)
             /\ out.result # Pending
             /\ out.agent.active = NoTurn
             /\ out.agent.ctx = [a.ctx EXCEPT ![t] = NoCtx]
  <2>1. PICK e \in Errors \cup {"ok"} : out = FinishTurn(b, t, e)
    BY <1>4
  <2> HIDE DEF out
  <2> QED BY <1>4, <2>1, FinishFacts, Classification
<1>5. ASSUME out = [agent |-> NextRound(worked, t), result |-> Pending]
      PROVE  /\ AgentOK(out.agent)
             /\ out.result = Pending
             /\ out.agent.active = a.active
             /\ \A u \in Turns : /\ InFlight(out.agent, u) <=> InFlight(a, u)
                                 /\ out.agent.ctx[u].done = a.ctx[u].done
  <2>1. [a.ctx[t] EXCEPT !.round = @ + 1] \in TurnContext
        /\ [a.ctx[t] EXCEPT !.round = @ + 1].done = a.ctx[t].done
    BY DEF AgentOK, InFlight, TurnContext
  <2>2. [a.ctx[t] EXCEPT !.round = @ + 1] # NoCtx
    BY <2>1, CoordinatorConstants DEF TurnContext
  <2>3. ASSUME NEW u \in Turns
        PROVE  /\ InFlight(NextRound(worked, t), u) <=> InFlight(a, u)
               /\ NextRound(worked, t).ctx[u].done = a.ctx[u].done
    <3>1. CASE u = t
      BY <1>3, <2>1, <2>2, <3>1 DEF AgentOK, InFlight
    <3>2. CASE u # t
      BY <1>3, <3>2 DEF AgentOK, InFlight
    <3> QED BY <3>1, <3>2
  <2> HIDE DEF out, worked
  <2> QED BY <1>3, <1>5, <2>3
<1>6. CASE out = RunTurn(NextRound(worked, t), t, sends)
  <2>1. \/ out = [agent |-> NextRound(worked, t), result |-> Pending]
        \/ \E e \in {"maxRounds", "notSent"} : out = FinishTurn(NextRound(worked, t), t, e)
    BY <1>3, <1>6, RunTurnFacts
  <2>2. [NextRound(worked, t).ctx EXCEPT ![t] = NoCtx] = [a.ctx EXCEPT ![t] = NoCtx]
    BY <1>3 DEF AgentOK
  <2>3. CASE \E e \in {"maxRounds", "notSent"} : out = FinishTurn(NextRound(worked, t), t, e)
    <3>1. Ended(NextRound(worked, t))
      BY <2>3 DEF Errors, HttpCode
    <3> HIDE DEF out, worked, Ended
    <3> QED BY <1>3, <1>4, <2>2, <3>1 DEF out
  <2>4. CASE out = [agent |-> NextRound(worked, t), result |-> Pending]
    <3> HIDE DEF out, worked
    <3> QED BY <1>5, <2>4 DEF out
  <2> QED BY <2>1, <2>3, <2>4
<1>7. CASE out # RunTurn(NextRound(worked, t), t, sends)
  <2>1. \E b \in {a, [a EXCEPT !.session = said], worked} : Ended(b)
    <3>1. \/ r.error # NoError /\ out = FinishTurn(a, t, r.error)
          \/ out = FinishTurn([a EXCEPT !.session = said], t, "ok")
          \/ out = FinishTurn(a, t, "noRegistry")
          \/ out = FinishTurn(worked, t, "toolFailed")
      BY <1>7 DEF Respond, said
    <3>2. r.error \in Errors \cup {NoError} /\ {"noRegistry", "toolFailed"} \subseteq Errors
      BY CoordinatorConstants DEF Errors, HttpCode
    <3> HIDE DEF out, worked
    <3> QED BY <3>1, <3>2
  <2>2. PICK b \in {a, [a EXCEPT !.session = said], worked} : Ended(b)
    BY <2>1
  <2>3. AgentOK(b) /\ b.ctx = a.ctx
    BY <1>1, <1>2
  <2> HIDE DEF out, worked, Ended
  <2> QED BY <1>4, <2>2, <2>3 DEF out
<1> QED BY <1>6, <1>7
-----------------------------------------------------------------------------
(* The queue and the flush                                                 *)

(* What the operations on the queue leave alone. *)
SameTurns(c, d) ==
  /\ d.flushing = c.flushing
  /\ d.agent.active = c.agent.active
  /\ d.agent.ctx = c.agent.ctx

(* tryFlush drops a prefix of the queue. *)
LEMMA ExhaustedType ==
  ASSUME NEW q \in Seq(Items)
  PROVE  Exhausted(q) \in 0 .. Len(q)
<1> DEFINE S == {i \in DOMAIN q : \A j \in 1 .. i : q[j].attempts >= MaxItemAttempts}
<1>1. Len(q) \in Nat /\ DOMAIN q = 1 .. Len(q)
  BY LenProperties
<1>2. IsFiniteSet(1 .. Len(q)) /\ Cardinality(1 .. Len(q)) = Len(q)
  <2> DEFINE n == Len(q)
  <2>1. n \in Int /\ 1 \in Int
    BY <1>1
  <2> HIDE DEF n
  <2>2. /\ IsFiniteSet(1 .. n)
        /\ Cardinality(1 .. n) = IF 1 > n THEN 0 ELSE n - 1 + 1
    BY <2>1, FS_Interval
  <2>3. n \in Nat
    BY <1>1 DEF n
  <2>4. Cardinality(1 .. n) = n
    BY <2>2, <2>3
  <2> QED BY <2>2, <2>4 DEF n
<1>3. S \in SUBSET (1 .. Len(q))
  BY <1>1
<1> HIDE DEF S
<1>4. Cardinality(S) <= Len(q) /\ IsFiniteSet(S)
  BY <1>2, <1>3, FS_Subset
<1>5. Cardinality(S) \in Nat
  BY <1>4, FS_CardinalityType
<1>6. Exhausted(q) = Cardinality(S)
  BY DEF Exhausted, S
<1> QED BY <1>1, <1>4, <1>5, <1>6

LEMMA DropExhaustedFacts ==
  ASSUME NEW c, CoordinatorOK(c)
  PROVE  /\ CoordinatorOK(DropExhausted(c))
         /\ SameTurns(c, DropExhausted(c))
         /\ DropExhausted(c).told = c.told
         /\ DropExhausted(c).agent = c.agent
         /\ DropExhausted(c).monitor = c.monitor
<1> DEFINE n == Exhausted(c.queue)
           dropped == {c.queue[i].text : i \in 1 .. n}
           rest == SubSeq(c.queue, n + 1, Len(c.queue))
           ended == [m \in Msgs |-> IF m \in dropped THEN c.fate[m] \cup {"dropped"}
                                    ELSE c.fate[m]]
<1>1. c.queue \in Seq(Items) /\ Len(c.queue) \in Nat
  BY LenProperties DEF CoordinatorOK
<1>2. n \in 0 .. Len(c.queue)
  BY <1>1, ExhaustedType
<1>3. rest \in Seq(Items)
  <2>1. \A i \in n + 1 .. Len(c.queue) : c.queue[i] \in Items
    BY <1>1, <1>2, ElementOfSeq
  <2> QED BY <1>1, <1>2, <2>1, SubSeqProperties
<1>4. ended \in [Msgs -> SUBSET {"replied", "refused", "dropped"}]
  BY DEF CoordinatorOK
<1>5. DropExhausted(c) = [c EXCEPT !.queue = rest, !.fate = ended]
  BY DEF DropExhausted
<1> HIDE DEF rest, ended
<1> QED BY <1>3, <1>4, <1>5 DEF CoordinatorOK, SameTurns

LEMMA RemoveFrontFacts ==
  ASSUME NEW c, CoordinatorOK(c)
  PROVE  /\ CoordinatorOK(RemoveFront(c))
         /\ SameTurns(c, RemoveFront(c))
         /\ RemoveFront(c).told = c.told
<1>1. CASE c.queue = << >>
  BY <1>1 DEF RemoveFront, SameTurns
<1>2. CASE c.queue # << >>
  <2>1. RemoveFront(c) = [c EXCEPT !.queue = Tail(@)]
    BY <1>2 DEF RemoveFront
  <2>2. Tail(c.queue) \in Seq(Items)
    BY <1>2, HeadTailProperties DEF CoordinatorOK
  <2> QED BY <2>1, <2>2 DEF CoordinatorOK, SameTurns
<1> QED BY <1>1, <1>2

LEMMA BumpFrontFacts ==
  ASSUME NEW c, CoordinatorOK(c)
  PROVE  /\ CoordinatorOK(BumpFront(c))
         /\ SameTurns(c, BumpFront(c))
         /\ BumpFront(c).told = c.told
         /\ BumpFront(c).monitor = c.monitor
<1>1. CASE c.queue = << >>
  BY <1>1 DEF BumpFront, SameTurns
<1>2. CASE c.queue # << >>
  <2> DEFINE item == [c.queue[1] EXCEPT !.attempts = @ + 1]
             bumped == [c.queue EXCEPT ![1] = item]
  <2>1. c.queue \in Seq(Items) /\ 1 \in 1 .. Len(c.queue)
    BY <1>2, EmptySeq DEF CoordinatorOK
  <2>2. item \in Items
    <3>1. c.queue[1] \in Items
      BY <2>1, ElementOfSeq
    <3> QED BY <3>1 DEF Items
  <2>3. BumpFront(c) = [c EXCEPT !.queue = bumped]
    BY <1>2 DEF BumpFront
  <2> HIDE DEF item
  <2>4. bumped \in Seq(Items)
    BY <2>1, <2>2, ExceptSeq
  <2> HIDE DEF bumped
  <2> QED BY <2>3, <2>4 DEF CoordinatorOK, SameTurns
<1> QED BY <1>1, <1>2

LEMMA AnswerFlushFacts ==
  ASSUME NEW c, CoordinatorOK(c), NEW answer \in {"ok", "failed"}
  PROVE  /\ CoordinatorOK(AnswerFlush(c, answer))
         /\ SameTurns(c, AnswerFlush(c, answer))
         /\ AnswerFlush(c, answer).told = c.told
         /\ AnswerFlush(c, answer).monitor = c.monitor
         /\ AnswerFlush(c, answer).queue = c.queue
         /\ AnswerFlush(c, answer).flushCtx = NoFlush
BY DEF CoordinatorOK, SameTurns, AnswerFlush

(* After a queueable error the device is offline. *)
LEMMA RetryLaterFacts ==
  ASSUME NEW c, CoordinatorOK(c)
  PROVE  /\ CoordinatorOK(RetryLater(c))
         /\ SameTurns(c, RetryLater(c))
         /\ RetryLater(c).told = c.told
         /\ RetryLater(c).monitor = "offline"
<1> DEFINE d == [GoOffline(c) EXCEPT !.agent = Rollback(@)]
<1>1. CoordinatorOK(d) /\ SameTurns(c, d) /\ d.told = c.told /\ d.monitor = "offline"
  <2>1. d.agent = Rollback(c.agent) /\ d.monitor = "offline"
    BY DEF CoordinatorOK, GoOffline
  <2>2. /\ AgentOK(d.agent)
        /\ d.agent.active = c.agent.active
        /\ d.agent.ctx = c.agent.ctx
    BY <2>1, RollbackFacts DEF CoordinatorOK
  <2>3. /\ DOMAIN d = DOMAIN c
        /\ d.flushing = c.flushing /\ d.told = c.told /\ d.queue = c.queue
        /\ d.flushCtx = c.flushCtx /\ d.flushTold = c.flushTold /\ d.fate = c.fate
    BY DEF CoordinatorOK, GoOffline
  <2> HIDE DEF d
  <2> QED BY <2>1, <2>2, <2>3 DEF CoordinatorOK, SameTurns
<1>2. RetryLater(c) = AnswerFlush(BumpFront(d), "failed")
  BY DEF RetryLater
<1> HIDE DEF d
<1>3. /\ CoordinatorOK(BumpFront(d))
      /\ SameTurns(d, BumpFront(d))
      /\ BumpFront(d).told = c.told
      /\ BumpFront(d).monitor = "offline"
  BY <1>1, BumpFrontFacts
<1> QED BY <1>1, <1>2, <1>3, AnswerFlushFacts DEF SameTurns
-----------------------------------------------------------------------------
(* Steps that may start turn t                                             *)

(* The front of the queue is being sent as turn t. *)
Starts(c, d, t) ==
  /\ ~ c.flushing
  /\ d.flushing
  /\ c.agent.active = NoTurn
  /\ ~ InFlight(c.agent, t)
  /\ d.agent.active = t
  /\ \E m \in Msgs :
        d.agent.ctx = [c.agent.ctx EXCEPT ![t] =
                         [done |-> [by |-> "flush", text |-> m], round |-> 0]]

Advances(c, d, t) == SameTurns(c, d) \/ Starts(c, d, t)

(* NothingStranded of a value of the coordinator. *)
Served(c) ==
  c.monitor = "online" /\ (c.queue # << >> \/ c.flushCtx # NoFlush) => c.flushing

LEMMA SubmitFrontFacts ==
  ASSUME NEW c, CoordinatorOK(c), ~ c.flushing, c.queue # << >>,
         NEW t \in Turns, NEW sends \in BOOLEAN, FreshIn(c.agent, t)
  PROVE  LET d == SubmitFront(c, t, sends)
         IN  CoordinatorOK(d) /\ Advances(c, d, t) /\ d.told = c.told /\ Served(d)
<1> DEFINE m == Head(c.queue).text
           done == [by |-> "flush", text |-> m]
           out == AgentSubmit(c.agent, m, done, t, sends)
           with(b) == [c EXCEPT !.agent = out.agent, !.flushing = b]
<1>1. m \in Msgs
  <2>1. Head(c.queue) \in Items
    BY HeadTailProperties DEF CoordinatorOK
  <2> QED BY <2>1 DEF Items
<1>2. done \in DoneCallbacks
  BY <1>1 DEF DoneCallbacks
<1>3. AgentOK(c.agent)
  BY DEF CoordinatorOK
<1>4. SubmitFront(c, t, sends) = IF out.result = Pending THEN with(TRUE)
                                 ELSE RetryLater(with(FALSE))
  BY DEF SubmitFront
<1> HIDE DEF m, out
<1>5. /\ AgentOK(out.agent)
      /\ out.result = Pending =>
           /\ c.agent.active = NoTurn
           /\ ~ InFlight(c.agent, t)
           /\ out.agent.active = t
           /\ out.agent.ctx = [c.agent.ctx EXCEPT ![t] = [done |-> done, round |-> 0]]
      /\ out.result # Pending =>
           /\ out.agent.active = c.agent.active
           /\ out.agent.ctx = c.agent.ctx
  BY <1>2, <1>3, AgentSubmitFacts DEF out
<1>6. ASSUME NEW b \in BOOLEAN
      PROVE  /\ CoordinatorOK(with(b))
             /\ with(b).agent = out.agent
             /\ with(b).flushing = b
             /\ with(b).told = c.told
  BY <1>5 DEF CoordinatorOK
<1> HIDE DEF with
<1>7. CASE out.result = Pending
  <2> DEFINE d == SubmitFront(c, t, sends)
  <2>1. /\ CoordinatorOK(d) /\ d.agent = out.agent /\ d.flushing /\ d.told = c.told
    BY <1>4, <1>6, <1>7
  <2> HIDE DEF d
  <2>2. Starts(c, d, t)
    BY <1>1, <1>5, <1>7, <2>1 DEF Starts
  <2>3. CoordinatorOK(d) /\ Advances(c, d, t) /\ d.told = c.told /\ Served(d)
    BY <2>1, <2>2 DEF Advances, Served
  <2> QED BY <2>3 DEF d
<1>8. CASE out.result # Pending
  <2>1. SameTurns(c, with(FALSE)) /\ CoordinatorOK(with(FALSE)) /\ with(FALSE).told = c.told
    BY <1>5, <1>6, <1>8 DEF SameTurns, CoordinatorOK
  <2> QED BY <1>4, <1>8, <2>1, RetryLaterFacts DEF Advances, SameTurns, Served
<1> QED BY <1>7, <1>8

(* Whatever tryFlush does, nothing is stranded after it. *)
LEMMA TryFlushFacts ==
  ASSUME NEW c, CoordinatorOK(c),
         NEW t \in Turns, NEW sends \in BOOLEAN, FreshIn(c.agent, t)
  PROVE  LET d == TryFlush(c, t, sends)
         IN  /\ CoordinatorOK(d)
             /\ Advances(c, d, t)
             /\ d.told = c.told
             /\ Served(d)
             /\ c.flushing => d = c
<1> DEFINE live == DropExhausted(c)
           d == TryFlush(c, t, sends)
<1>1. CoordinatorOK(live) /\ SameTurns(c, live) /\ live.told = c.told /\ live.agent = c.agent
  BY DropExhaustedFacts
<1>2. CASE ~ IsOnline(c) \/ c.flushing
  <2>1. d = c
    BY <1>2 DEF TryFlush
  <2> QED BY <1>2, <2>1 DEF Advances, SameTurns, Served, IsOnline
<1>3. CASE IsOnline(c) /\ ~ c.flushing /\ live.queue = << >>
  <2>1. d = AnswerFlush(live, "ok")
    BY <1>3 DEF TryFlush
  <2> HIDE DEF live, d
  <2> QED BY <1>1, <1>3, <2>1, AnswerFlushFacts DEF Advances, SameTurns, Served, d
<1>4. CASE IsOnline(c) /\ ~ c.flushing /\ live.queue # << >>
  <2>1. d = SubmitFront(live, t, sends)
    BY <1>4 DEF TryFlush
  <2> HIDE DEF live, d
  <2>2. ~ live.flushing /\ FreshIn(live.agent, t)
    BY <1>1, <1>4 DEF SameTurns
  <2>3. CoordinatorOK(d) /\ Advances(live, d, t) /\ d.told = live.told /\ Served(d)
    BY <1>1, <1>4, <2>1, <2>2, SubmitFrontFacts
  <2> QED BY <1>1, <1>4, <2>3 DEF Advances, SameTurns, Starts, d
<1> QED BY <1>2, <1>3, <1>4

(* A connectivity report leaves nothing stranded that was not before. *)
LEMMA SetOnlineFacts ==
  ASSUME NEW c, CoordinatorOK(c), NEW online \in BOOLEAN,
         NEW t \in Turns, NEW sends \in BOOLEAN, FreshIn(c.agent, t)
  PROVE  LET d == SetOnline(c, online, t, sends)
         IN  /\ CoordinatorOK(d)
             /\ Advances(c, d, t)
             /\ d.told = c.told
             /\ AutoFlush /\ Served(c) => Served(d)
<1> DEFINE b == [c EXCEPT !.monitor = IF online THEN "online" ELSE "offline"]
           d == SetOnline(c, online, t, sends)
<1>1. /\ CoordinatorOK(b)
      /\ SameTurns(c, b)
      /\ b.told = c.told /\ b.agent = c.agent
      /\ b.monitor = IF online THEN "online" ELSE "offline"
      /\ b.queue = c.queue /\ b.flushCtx = c.flushCtx
  BY DEF CoordinatorOK, SameTurns
<1>2. d = IF online /\ c.monitor # "online" /\ AutoFlush THEN TryFlush(b, t, sends) ELSE b
  BY DEF SetOnline
<1> HIDE DEF b, d
<1>3. CASE online /\ c.monitor # "online" /\ AutoFlush
  BY <1>1, <1>2, <1>3, TryFlushFacts DEF Advances, SameTurns, Starts, d
<1>4. CASE ~ (online /\ c.monitor # "online" /\ AutoFlush)
  BY <1>1, <1>2, <1>4 DEF Advances, SameTurns, Served, d
<1> QED BY <1>3, <1>4
-----------------------------------------------------------------------------
(* The done callbacks                                                      *)

LEMMA SettleFacts ==
  ASSUME NEW c, CoordinatorOK(c), NEW m \in Msgs,
         NEW how \in {"replied", "refused", "dropped"}
  PROVE  LET d == Settle(c, m, how)
         IN  /\ CoordinatorOK(d) /\ SameTurns(c, d) /\ d.told = c.told
             /\ d.agent = c.agent
             /\ d.monitor = c.monitor /\ d.queue = c.queue /\ d.flushCtx = c.flushCtx
BY DEF CoordinatorOK, SameTurns, Settle

(* A refused message is reported, a queued one waits at the back. *)
LEMMA QueueOrRefuseFacts ==
  ASSUME NEW c, CoordinatorOK(c), NEW m \in Msgs
  PROVE  LET d == QueueOrRefuse(c, m)
         IN  /\ CoordinatorOK(d) /\ SameTurns(c, d)
             /\ d.monitor = c.monitor
             /\ \E x \in {"queued", "failed"} : d.told = [c.told EXCEPT ![m] = x]
<1> DEFINE d == QueueOrRefuse(c, m)
           longer == Append(c.queue, Item(m))
<1>1. longer \in Seq(Items)
  <2>1. Item(m) \in Items
    BY DEF Item, Items
  <2> QED BY <2>1, AppendProperties DEF CoordinatorOK
<1>2. d = IF Len(c.queue) >= MaxQueueItems
          THEN [c EXCEPT !.told[m] = "failed"]
          ELSE [c EXCEPT !.queue = longer, !.told[m] = "queued"]
  BY DEF QueueOrRefuse
<1> HIDE DEF longer, d
<1>3. CASE Len(c.queue) >= MaxQueueItems
  BY <1>2, <1>3 DEF CoordinatorOK, SameTurns, d
<1>4. CASE ~ (Len(c.queue) >= MaxQueueItems)
  BY <1>1, <1>2, <1>4 DEF CoordinatorOK, SameTurns, d
<1> QED BY <1>3, <1>4

(* Two calls of tryFlush in one step start at most one turn. *)
LEMMA AdvancesComposes ==
  ASSUME NEW c, NEW d, NEW e, NEW t, Advances(c, d, t), Advances(d, e, t),
         d.flushing => e = d
  PROVE  Advances(c, e, t)
BY DEF Advances, SameTurns, Starts, InFlight

LEMMA FreshAfter ==
  ASSUME NEW c, NEW d, NEW t \in Turns, FreshIn(c.agent, t), Advances(c, d, t)
  PROVE  FreshIn(d.agent, t)
BY AgentConstants DEF Advances, SameTurns, Starts, FreshIn, InFlight

LEMMA FinishFlushItemFacts ==
  ASSUME NEW c, CoordinatorOK(c), NEW m \in Msgs, NEW result,
         NEW t \in Turns, NEW sends \in BOOLEAN, FreshIn(c.agent, t)
  PROVE  LET idle == [c EXCEPT !.flushing = FALSE]
             d    == FinishFlushItem(c, m, result, t, sends)
         IN  CoordinatorOK(d) /\ Advances(idle, d, t) /\ d.told = c.told /\ Served(d)
<1> DEFINE idle == [c EXCEPT !.flushing = FALSE]
           d == FinishFlushItem(c, m, result, t, sends)
           done == IF result = "ok"
                   THEN SetOnline(Settle(idle, m, "replied"), TRUE, t, sends)
                   ELSE Settle(idle, m, "refused")
<1>1. CoordinatorOK(idle) /\ idle.told = c.told /\ idle.agent = c.agent
  BY DEF CoordinatorOK
<1>2. d = IF result # "ok" /\ IsQueueable(result) THEN RetryLater(idle)
          ELSE TryFlush(RemoveFront(done), t, sends)
  BY DEF FinishFlushItem
<1> HIDE DEF idle, d
<1>3. CASE result # "ok" /\ IsQueueable(result)
  BY <1>1, <1>2, <1>3, RetryLaterFacts DEF Advances, Served, idle, d
<1>4. CASE ~ (result # "ok" /\ IsQueueable(result))
  <2>1. CoordinatorOK(done) /\ Advances(idle, done, t) /\ done.told = c.told
    <3>1. CASE result = "ok"
      <4> DEFINE s == Settle(idle, m, "replied")
      <4>1. CoordinatorOK(s) /\ SameTurns(idle, s) /\ s.told = c.told /\ s.agent = c.agent
        BY <1>1, SettleFacts
      <4>2. done = SetOnline(s, TRUE, t, sends)
        BY <3>1
      <4> HIDE DEF s, done
      <4>3. CoordinatorOK(done) /\ Advances(s, done, t) /\ done.told = s.told
        BY <4>1, <4>2, SetOnlineFacts
      <4> QED BY <1>1, <4>1, <4>3 DEF Advances, SameTurns, Starts
    <3>2. CASE result # "ok"
      BY <1>1, <3>2, SettleFacts DEF Advances
    <3> QED BY <3>1, <3>2
  <2> HIDE DEF done
  <2> DEFINE rest == RemoveFront(done)
  <2>2. CoordinatorOK(rest) /\ SameTurns(done, rest) /\ rest.told = c.told
    BY <2>1, RemoveFrontFacts
  <2> HIDE DEF rest
  <2>3. Advances(idle, rest, t)
    BY <2>1, <2>2 DEF Advances, SameTurns, Starts
  <2>4. FreshIn(rest.agent, t)
    BY <1>1, <2>3, FreshAfter
  <2>5. d = TryFlush(rest, t, sends)
    BY <1>2, <1>4 DEF rest
  <2>6. /\ CoordinatorOK(d) /\ Advances(rest, d, t) /\ d.told = rest.told /\ Served(d)
        /\ rest.flushing => d = rest
    BY <2>2, <2>4, <2>5, TryFlushFacts
  <2> QED BY <2>2, <2>3, <2>6, AdvancesComposes DEF idle, d
<1> QED BY <1>3, <1>4

(* The caller who submitted m is answered. *)
Answers(c, d, m) ==
  \E x \in {"replied", "queued", "failed"} : d.told = [c.told EXCEPT ![m] = x]

(* The done callback of a direct submission answers in every case. *)
LEMMA DirectDoneFacts ==
  ASSUME NEW c, CoordinatorOK(c), NEW m \in Msgs, NEW result,
         NEW t \in Turns, NEW sends \in BOOLEAN, FreshIn(c.agent, t)
  PROVE  LET d == DirectDone(c, m, result, t, sends)
         IN  /\ CoordinatorOK(d)
             /\ Advances(c, d, t)
             /\ Answers(c, d, m)
             /\ AutoFlush /\ Served(c) => Served(d)
<1> DEFINE d == DirectDone(c, m, result, t, sends)
           rolledBack == [c EXCEPT !.agent = Rollback(@)]
<1>1. CoordinatorOK(rolledBack) /\ SameTurns(c, rolledBack) /\ rolledBack.told = c.told
      /\ rolledBack.monitor = c.monitor /\ rolledBack.queue = c.queue
      /\ rolledBack.flushCtx = c.flushCtx
  <2>1. rolledBack.agent = Rollback(c.agent)
    BY DEF CoordinatorOK
  <2>2. /\ AgentOK(rolledBack.agent)
        /\ rolledBack.agent.active = c.agent.active
        /\ rolledBack.agent.ctx = c.agent.ctx
    BY <2>1, RollbackFacts DEF CoordinatorOK
  <2>3. /\ DOMAIN rolledBack = DOMAIN c
        /\ rolledBack.monitor = c.monitor /\ rolledBack.flushing = c.flushing
        /\ rolledBack.told = c.told /\ rolledBack.queue = c.queue
        /\ rolledBack.flushCtx = c.flushCtx /\ rolledBack.flushTold = c.flushTold
        /\ rolledBack.fate = c.fate
    BY DEF CoordinatorOK
  <2> HIDE DEF rolledBack
  <2> QED BY <2>2, <2>3 DEF CoordinatorOK, SameTurns
<1>2. CASE result = "ok"
  <2> DEFINE s == Settle(c, m, "replied")
             e == SetOnline(s, TRUE, t, sends)
  <2>1. CoordinatorOK(s) /\ SameTurns(c, s) /\ s.told = c.told /\ s.agent = c.agent
        /\ s.monitor = c.monitor /\ s.queue = c.queue /\ s.flushCtx = c.flushCtx
    BY SettleFacts
  <2>2. d = [e EXCEPT !.told[m] = "replied"]
    BY <1>2 DEF DirectDone
  <2> HIDE DEF s
  <2>3. CoordinatorOK(e) /\ Advances(s, e, t) /\ e.told = c.told
        /\ (AutoFlush /\ Served(s) => Served(e))
    BY <2>1, SetOnlineFacts
  <2> HIDE DEF e, d
  <2>4. CoordinatorOK(d) /\ SameTurns(e, d) /\ d.told = [c.told EXCEPT ![m] = "replied"]
        /\ (Served(e) => Served(d))
    BY <2>2, <2>3 DEF CoordinatorOK, SameTurns, Served
  <2>5. Served(c) => Served(s)
    BY <2>1 DEF Served, SameTurns
  <2>6. Advances(c, d, t)
    BY <2>1, <2>3, <2>4 DEF Advances, SameTurns, Starts
  <2> QED BY <2>3, <2>4, <2>5, <2>6 DEF Answers, d
<1>3. CASE result # "ok" /\ ~ IsQueueable(result)
  <2> DEFINE s == Settle(rolledBack, m, "refused")
  <2> HIDE DEF rolledBack
  <2>1. CoordinatorOK(s) /\ SameTurns(c, s) /\ s.told = c.told
        /\ s.monitor = c.monitor /\ s.queue = c.queue /\ s.flushCtx = c.flushCtx
    BY <1>1, SettleFacts DEF SameTurns
  <2>2. d = [s EXCEPT !.told[m] = "failed"]
    BY <1>3 DEF DirectDone, rolledBack
  <2> HIDE DEF s, d
  <2>3. CoordinatorOK(d) /\ SameTurns(c, d) /\ d.told = [c.told EXCEPT ![m] = "failed"]
        /\ (Served(c) => Served(d))
    BY <2>1, <2>2 DEF CoordinatorOK, SameTurns, Served
  <2> QED BY <2>3 DEF Advances, Answers, d
<1>4. CASE result # "ok" /\ IsQueueable(result)
  <2> DEFINE s == GoOffline(rolledBack)
  <2> HIDE DEF rolledBack
  <2>1. CoordinatorOK(s) /\ SameTurns(c, s) /\ s.told = c.told /\ s.monitor = "offline"
    BY <1>1 DEF CoordinatorOK, SameTurns, GoOffline
  <2>2. d = QueueOrRefuse(s, m)
    BY <1>4 DEF DirectDone, rolledBack
  <2> HIDE DEF s, d
  <2>3. /\ CoordinatorOK(d) /\ SameTurns(s, d) /\ d.monitor = s.monitor
        /\ \E x \in {"queued", "failed"} : d.told = [s.told EXCEPT ![m] = x]
    BY <2>1, <2>2, QueueOrRefuseFacts
  <2>4. SameTurns(c, d) /\ Served(d)
    BY <2>1, <2>3 DEF SameTurns, Served
  <2> QED BY <2>1, <2>3, <2>4 DEF Advances, Answers, d
<1> QED BY <1>2, <1>3, <1>4
-----------------------------------------------------------------------------
(* The invariant                                                           *)

(* NotWedged, CallersAnsweredOnce and OneTurnAtATime of a value of the     *)
(* coordinator.                                                            *)
Guarded(c) ==
  /\ c.flushing => \E t \in Turns, m \in Msgs : ServesIn(c.agent, t, "flush", m)
  /\ c.agent.active # NoTurn => InFlight(c.agent, c.agent.active)

OneServes(c, m) ==
  /\ \E t \in Turns : ServesIn(c.agent, t, "direct", m)
  /\ \A t, u \in Turns :
        ServesIn(c.agent, t, "direct", m) /\ ServesIn(c.agent, u, "direct", m) => t = u

NoneServes(c, m) == \A t \in Turns : ~ ServesIn(c.agent, t, "direct", m)

CallersServed(c) ==
  \A m \in Msgs : IF c.told[m] = "waiting" THEN OneServes(c, m) ELSE NoneServes(c, m)

Alone(c) == \A t \in Turns : InFlight(c.agent, t) => c.agent.active = t

(* A step that starts no direct turn keeps them all. *)
LEMMA AdvancesKeeps ==
  ASSUME NEW c, NEW d, CoordinatorOK(c), CoordinatorOK(d),
         NEW t \in Turns, Advances(c, d, t)
  PROVE  /\ Guarded(c) => Guarded(d)
         /\ Alone(c) => Alone(d)
         /\ \A u \in Turns, m \in Msgs :
               ServesIn(d.agent, u, "direct", m) <=> ServesIn(c.agent, u, "direct", m)
<1>1. CASE SameTurns(c, d)
  BY <1>1 DEF SameTurns, Guarded, Alone, ServesIn, InFlight
<1>2. CASE Starts(c, d, t)
  <2> DEFINE fresh(m) == [done |-> [by |-> "flush", text |-> m], round |-> 0]
  <2>1. PICK m \in Msgs : d.agent.ctx = [c.agent.ctx EXCEPT ![t] = fresh(m)]
    BY <1>2 DEF Starts
  <2>2. /\ fresh(m) # NoCtx
        /\ fresh(m).done = [by |-> "flush", text |-> m]
        /\ \A n \in Msgs : fresh(m).done # [by |-> "direct", text |-> n]
    <3>1. fresh(m) \in [done : DoneCallbacks, round : Nat]
      BY DEF DoneCallbacks
    <3>2. \A n \in Msgs : [by |-> "flush", text |-> m].by # [by |-> "direct", text |-> n].by
      OBVIOUS
    <3> QED BY <3>1, <3>2, CoordinatorConstants
  <2> HIDE DEF fresh
  <2>3. c.agent.ctx[t] = NoCtx /\ d.agent.active = t /\ c.agent.active = NoTurn
    BY <1>2 DEF Starts, InFlight
  <2>4. d.agent.ctx[t] = fresh(m)
        /\ \A u \in Turns : u # t => d.agent.ctx[u] = c.agent.ctx[u]
    BY <2>1 DEF CoordinatorOK, AgentOK
  <2>5. ServesIn(d.agent, t, "flush", m)
    BY <2>2, <2>4 DEF ServesIn, InFlight
  <2>6. Guarded(d)
    BY <2>3, <2>5 DEF Guarded, ServesIn
  <2>7. Alone(c) => Alone(d)
    BY <2>3, <2>4, AgentConstants DEF Alone, InFlight
  <2>8. ASSUME NEW u \in Turns, NEW n \in Msgs
        PROVE  ServesIn(d.agent, u, "direct", n) <=> ServesIn(c.agent, u, "direct", n)
    <3>1. CASE u = t
      BY <2>2, <2>3, <2>4, <3>1 DEF ServesIn, InFlight
    <3>2. CASE u # t
      BY <2>4, <3>2 DEF ServesIn, InFlight
    <3> QED BY <3>1, <3>2
  <2> QED BY <2>6, <2>7, <2>8
<1> QED BY <1>1, <1>2 DEF Advances

LEMMA AdvancesKeepsCallers ==
  ASSUME NEW c, NEW d, CoordinatorOK(c), CoordinatorOK(d),
         NEW t \in Turns, Advances(c, d, t), d.told = c.told, CallersServed(c)
  PROVE  CallersServed(d)
BY AdvancesKeeps DEF CallersServed, OneServes, NoneServes

(* One who is no longer waiting and is not served either is answered. *)
LEMMA AnsweredCaller ==
  ASSUME NEW c, NEW d, CoordinatorOK(c), CoordinatorOK(d),
         NEW m \in Msgs, NEW x \in {"replied", "queued", "failed"},
         d.told = [c.told EXCEPT ![m] = x],
         NoneServes(d, m),
         \A n \in Msgs \ {m}, u \in Turns :
            ServesIn(d.agent, u, "direct", n) <=> ServesIn(c.agent, u, "direct", n),
         CallersServed(c)
  PROVE  CallersServed(d)
<1> SUFFICES ASSUME NEW n \in Msgs
             PROVE  IF d.told[n] = "waiting" THEN OneServes(d, n) ELSE NoneServes(d, n)
  BY DEF CallersServed
<1>1. CASE n = m
  BY <1>1 DEF CoordinatorOK
<1>2. CASE n # m
  <2>1. d.told[n] = c.told[n]
    BY <1>2 DEF CoordinatorOK
  <2> QED BY <1>2, <2>1 DEF CallersServed, OneServes, NoneServes
<1> QED BY <1>1, <1>2

(* All that is kept by every step; the last two only as long as cancel()   *)
(* has not been called.                                                    *)
Good(c) == CoordinatorOK(c) /\ Guarded(c) /\ CallersServed(c)

(* No caller is gone: there is no restart. *)
AllHere(c) == \A m \in Msgs : c.told[m] # "gone"

Keeps(c, d) ==
  /\ Good(d)
  /\ AllHere(c) => AllHere(d)
  /\ Alone(c) => Alone(d)
  /\ AutoFlush /\ Served(c) => Served(d)

-----------------------------------------------------------------------------
(* The steps                                                               *)

LEMMA ToldKnown ==
  ASSUME NEW c, CoordinatorOK(c), NEW d, NEW m \in Msgs,
         NEW x \in {"waiting", "replied", "queued", "failed"},
         d.told = [c.told EXCEPT ![m] = x], AllHere(c)
  PROVE  AllHere(d)
BY DEF CoordinatorOK, AllHere

LEMMA FlushStep ==
  ASSUME NEW c, Good(c), NEW f \in FlushCalls,
         NEW t \in Turns, NEW sends \in BOOLEAN, FreshIn(c.agent, t)
  PROVE  Keeps(c, TryFlush([c EXCEPT !.flushCtx = f, !.flushTold[f] = "waiting"], t, sends))
<1> DEFINE b == [c EXCEPT !.flushCtx = f, !.flushTold[f] = "waiting"]
           d == TryFlush(b, t, sends)
<1>1. CoordinatorOK(b) /\ b.agent = c.agent /\ b.told = c.told /\ b.flushing = c.flushing
  BY DEF Good, CoordinatorOK
<1> HIDE DEF b
<1>2. CoordinatorOK(d) /\ Advances(b, d, t) /\ d.told = b.told /\ Served(d)
  BY <1>1, TryFlushFacts
<1> HIDE DEF d
<1>3. Advances(c, d, t)
  BY <1>1, <1>2 DEF Advances, SameTurns, Starts
<1>4. Keeps(c, d)
  BY <1>1, <1>2, <1>3, AdvancesKeeps, AdvancesKeepsCallers DEF Good, Keeps, AllHere
<1> QED BY <1>4 DEF b, d

LEMMA ReportStep ==
  ASSUME NEW c, Good(c), NEW online \in BOOLEAN,
         NEW t \in Turns, NEW sends \in BOOLEAN, FreshIn(c.agent, t)
  PROVE  Keeps(c, SetOnline(c, online, t, sends))
<1> DEFINE d == SetOnline(c, online, t, sends)
<1>1. CoordinatorOK(d) /\ Advances(c, d, t) /\ d.told = c.told
      /\ (AutoFlush /\ Served(c) => Served(d))
  BY SetOnlineFacts DEF Good
<1> HIDE DEF d
<1>2. Keeps(c, d)
  BY <1>1, AdvancesKeeps, AdvancesKeepsCallers DEF Good, Keeps, AllHere
<1> QED BY <1>2 DEF d

(* Submitting message m, whose caller was told nothing yet. *)
LEMMA SubmitStep ==
  ASSUME NEW c, Good(c), NEW m \in Msgs, c.told[m] = "none",
         NEW t \in Turns, NEW sends \in BOOLEAN, FreshIn(c.agent, t)
  PROVE  Keeps(c, SubmitUserMessage(c, m, t, sends))
<1> DEFINE done == [by |-> "direct", text |-> m]
           out == AgentSubmit(c.agent, m, done, t, sends)
           b == [c EXCEPT !.agent = out.agent, !.told[m] = "waiting"]
           d == SubmitUserMessage(c, m, t, sends)
<1>1. NoneServes(c, m) /\ CoordinatorOK(c)
  BY DEF Good, CallersServed
<1>2. done \in DoneCallbacks /\ AgentOK(c.agent)
  BY <1>1 DEF DoneCallbacks, CoordinatorOK
<1>3. d = IF ~ IsOnline(c) \/ c.flushing THEN QueueOrRefuse(c, m)
          ELSE TurnDone(b, done, out.result, t, sends)
  BY DEF SubmitUserMessage
<1>4. done.by = "direct" /\ done.text = m
  OBVIOUS
<1> HIDE DEF out, d, done
<1>5. /\ AgentOK(out.agent)
      /\ out.result = Pending =>
           /\ c.agent.active = NoTurn
           /\ ~ InFlight(c.agent, t)
           /\ out.agent.active = t
           /\ out.agent.ctx = [c.agent.ctx EXCEPT ![t] = [done |-> done, round |-> 0]]
      /\ out.result # Pending =>
           /\ out.agent.active = c.agent.active
           /\ out.agent.ctx = c.agent.ctx
  BY <1>2, AgentSubmitFacts DEF out
<1>6. /\ CoordinatorOK(b) /\ b.agent = out.agent /\ b.told = [c.told EXCEPT ![m] = "waiting"]
      /\ b.flushing = c.flushing /\ b.monitor = c.monitor
      /\ b.queue = c.queue /\ b.flushCtx = c.flushCtx
  BY <1>1, <1>5 DEF CoordinatorOK
<1> HIDE DEF b
<1>7. CASE ~ IsOnline(c) \/ c.flushing
  <2>1. /\ CoordinatorOK(d) /\ SameTurns(c, d) /\ d.monitor = c.monitor
        /\ \E x \in {"queued", "failed"} : d.told = [c.told EXCEPT ![m] = x]
    BY <1>1, <1>3, <1>7, QueueOrRefuseFacts
  <2>2. Advances(c, d, t)
    BY <2>1 DEF Advances
  <2>3. CallersServed(d)
    BY <1>1, <2>1, <2>2, AdvancesKeeps, AnsweredCaller DEF Good, NoneServes
  <2>4. Served(d)
    BY <1>7, <2>1 DEF Served, IsOnline, SameTurns
  <2>5. AllHere(c) => AllHere(d)
    BY <1>1, <2>1, ToldKnown
  <2>6. Keeps(c, d)
    BY <1>1, <2>1, <2>2, <2>3, <2>4, <2>5, AdvancesKeeps DEF Keeps, Good
  <2> QED BY <2>6 DEF d
<1>8. CASE ~ (~ IsOnline(c) \/ c.flushing) /\ out.result = Pending
  <2>1. d = b
    BY <1>3, <1>8 DEF TurnDone
  <2> DEFINE new == [done |-> done, round |-> 0]
  <2>2. new # NoCtx /\ new.done = done
    BY <1>2, CoordinatorConstants
  <2> HIDE DEF new
  <2>3. /\ c.agent.active = NoTurn
        /\ c.agent.ctx[t] = NoCtx
        /\ b.agent.active = t
        /\ b.agent.ctx[t] = new
        /\ \A u \in Turns : u # t => b.agent.ctx[u] = c.agent.ctx[u]
    BY <1>2, <1>5, <1>6, <1>8 DEF InFlight, AgentOK, new
  <2>4. Guarded(b)
    BY <1>6, <1>8, <2>2, <2>3 DEF Guarded, InFlight
  <2>5. Alone(c) => Alone(b)
    BY <2>3, AgentConstants DEF Alone, InFlight
  <2>6. OneServes(b, m)
    BY <1>1, <2>2, <2>3 DEF NoneServes, OneServes, ServesIn, InFlight, done
  <2>7. \A n \in Msgs \ {m}, u \in Turns :
           ServesIn(b.agent, u, "direct", n) <=> ServesIn(c.agent, u, "direct", n)
    <3>1. ASSUME NEW n \in Msgs \ {m}
          PROVE  /\ ~ ServesIn(b.agent, t, "direct", n)
                 /\ ~ ServesIn(c.agent, t, "direct", n)
      BY <1>4, <2>2, <2>3 DEF ServesIn, InFlight
    <3> QED BY <2>3, <3>1 DEF ServesIn, InFlight
  <2>8. CallersServed(b)
    <3>1. ASSUME NEW n \in Msgs \ {m}
          PROVE  b.told[n] = c.told[n]
      BY <1>1, <1>6 DEF CoordinatorOK
    <3>2. b.told[m] = "waiting"
      BY <1>1, <1>6 DEF CoordinatorOK
    <3> QED BY <2>6, <2>7, <3>1, <3>2 DEF Good, CallersServed, OneServes, NoneServes
  <2>9. Served(c) => Served(b)
    BY <1>6 DEF Served
  <2>10. AllHere(c) => AllHere(b)
    BY <1>1, <1>6, ToldKnown
  <2>11. Keeps(c, b)
    BY <1>6, <2>4, <2>5, <2>8, <2>9, <2>10 DEF Keeps, Good
  <2> QED BY <2>1, <2>11 DEF d
<1>9. CASE ~ (~ IsOnline(c) \/ c.flushing) /\ out.result # Pending
  <2>1. d = DirectDone(b, m, out.result, t, sends)
    BY <1>3, <1>4, <1>9 DEF TurnDone
  <2>2. SameTurns(c, b) /\ FreshIn(b.agent, t) /\ (Served(c) => Served(b))
    BY <1>5, <1>6, <1>9 DEF SameTurns, FreshIn, InFlight, Served
  <2>3. /\ CoordinatorOK(d) /\ Advances(b, d, t)
        /\ Answers(b, d, m)
        /\ AutoFlush /\ Served(b) => Served(d)
    BY <1>6, <2>1, <2>2, DirectDoneFacts
  <2>4. Advances(c, d, t)
    BY <2>2, <2>3 DEF Advances, SameTurns, Starts, InFlight
  <2>5. \E x \in {"replied", "queued", "failed"} : d.told = [c.told EXCEPT ![m] = x]
    BY <1>1, <1>6, <2>3 DEF CoordinatorOK, Answers
  <2>6. CallersServed(d)
    BY <1>1, <2>3, <2>4, <2>5, AdvancesKeeps, AnsweredCaller DEF Good, NoneServes
  <2>7. AllHere(c) => AllHere(d)
    BY <1>1, <2>5, ToldKnown
  <2>8. Keeps(c, d)
    BY <1>1, <2>2, <2>3, <2>4, <2>6, <2>7, AdvancesKeeps DEF Keeps, Good
  <2> QED BY <2>8 DEF d
<1> QED BY <1>7, <1>8, <1>9

(* The end of turn t, or its next round. *)
LEMMA CompleteStep ==
  ASSUME NEW c, Good(c), NEW t \in Turns, InFlight(c.agent, t),
         NEW r \in Responses, NEW sends \in BOOLEAN
  PROVE  LET out == Respond(c.agent, t, r, sends)
         IN  Keeps(c, TurnDone([c EXCEPT !.agent = out.agent],
                               c.agent.ctx[t].done, out.result, t, sends))
<1> DEFINE done == c.agent.ctx[t].done
           m == done.text
           out == Respond(c.agent, t, r, sends)
           b == [c EXCEPT !.agent = out.agent]
           d == TurnDone(b, done, out.result, t, sends)
<1>1. CoordinatorOK(c) /\ AgentOK(c.agent)
  BY DEF Good, CoordinatorOK
<1>2. m \in Msgs /\ done.by \in {"direct", "flush"} /\ done = [by |-> done.by, text |-> m]
  BY <1>1 DEF AgentOK, InFlight, TurnContext, DoneCallbacks
<1>3. /\ AgentOK(out.agent)
      /\ out.result = Pending =>
           /\ out.agent.active = c.agent.active
           /\ \A u \in Turns : /\ InFlight(out.agent, u) <=> InFlight(c.agent, u)
                               /\ out.agent.ctx[u].done = c.agent.ctx[u].done
      /\ out.result # Pending =>
           /\ out.agent.active = NoTurn
           /\ out.agent.ctx = [c.agent.ctx EXCEPT ![t] = NoCtx]
  BY <1>1, RespondFacts
<1> HIDE DEF out
<1>4. /\ CoordinatorOK(b) /\ b.agent = out.agent /\ b.told = c.told
      /\ b.flushing = c.flushing /\ b.monitor = c.monitor
      /\ b.queue = c.queue /\ b.flushCtx = c.flushCtx
  BY <1>1, <1>3 DEF CoordinatorOK
<1> HIDE DEF b, d, m, done
<1>5. CASE out.result = Pending
  <2>1. d = b
    BY <1>5 DEF TurnDone, d
  <2>2. \A u \in Turns, n \in Msgs, by \in {"direct", "flush"} :
           ServesIn(b.agent, u, by, n) <=> ServesIn(c.agent, u, by, n)
    BY <1>3, <1>4, <1>5 DEF ServesIn
  <2>3. Guarded(b)
    <3>1. b.flushing => \E u \in Turns, n \in Msgs : ServesIn(b.agent, u, "flush", n)
      BY <1>4, <2>2 DEF Good, Guarded
    <3>2. b.agent.active # NoTurn => InFlight(b.agent, b.agent.active)
      BY <1>1, <1>3, <1>4, <1>5 DEF Good, Guarded, AgentOK
    <3> QED BY <3>1, <3>2 DEF Guarded
  <2>4. CallersServed(b)
    BY <1>4, <2>2 DEF Good, CallersServed, OneServes, NoneServes
  <2>5. (Alone(c) => Alone(b)) /\ (Served(c) => Served(b))
    BY <1>3, <1>4, <1>5 DEF Alone, Served
  <2>6. Keeps(c, d)
    BY <1>4, <2>1, <2>3, <2>4, <2>5 DEF Keeps, Good, AllHere
  <2> QED BY <2>6 DEF d, b, out, done
<1>6. ASSUME out.result # Pending
      PROVE  /\ FreshIn(b.agent, t)
             /\ b.agent.active = NoTurn
             /\ b.agent.ctx[t] = NoCtx
             /\ \A u \in Turns : u # t => b.agent.ctx[u] = c.agent.ctx[u]
             /\ Alone(c) => Alone(b)
  <2>1. /\ b.agent.active = NoTurn
        /\ b.agent.ctx[t] = NoCtx
        /\ \A u \in Turns : u # t => b.agent.ctx[u] = c.agent.ctx[u]
    BY <1>1, <1>3, <1>4, <1>6 DEF AgentOK
  <2> QED BY <2>1 DEF FreshIn, InFlight, Alone
<1>7. CASE out.result # Pending /\ done.by = "flush"
  <2> DEFINE idle == [b EXCEPT !.flushing = FALSE]
  <2>1. /\ CoordinatorOK(idle) /\ idle.agent = b.agent /\ idle.told = c.told
        /\ ~ idle.flushing
    BY <1>4 DEF CoordinatorOK
  <2>2. d = FinishFlushItem(b, m, out.result, t, sends)
    BY <1>7 DEF TurnDone, d, m
  <2>3. CoordinatorOK(d) /\ Advances(idle, d, t) /\ d.told = b.told /\ Served(d)
    BY <1>2, <1>4, <1>6, <1>7, <2>2, FinishFlushItemFacts
  <2> HIDE DEF idle
  <2>4. \A u \in Turns, n \in Msgs :
           ServesIn(idle.agent, u, "direct", n) <=> ServesIn(c.agent, u, "direct", n)
    <3>1. \A n \in Msgs : /\ ~ ServesIn(idle.agent, t, "direct", n)
                          /\ ~ ServesIn(c.agent, t, "direct", n)
      <4>1. \A n \in Msgs : done # [by |-> "direct", text |-> n]
        BY <1>7
      <4> QED BY <1>6, <1>7, <2>1, <4>1 DEF ServesIn, InFlight, done
    <3> QED BY <1>6, <1>7, <2>1, <3>1 DEF ServesIn, InFlight
  <2>5. CallersServed(idle)
    BY <2>1, <2>4 DEF Good, CallersServed, OneServes, NoneServes
  <2>6. Guarded(idle) /\ (Alone(c) => Alone(idle))
    BY <1>6, <1>7, <2>1 DEF Guarded, Alone
  <2>7. Keeps(c, d)
    BY <1>4, <2>1, <2>3, <2>5, <2>6, AdvancesKeeps, AdvancesKeepsCallers
    DEF Keeps, Good, AllHere
  <2> QED BY <2>7 DEF d, b, out, done
<1>8. CASE out.result # Pending /\ done.by = "direct"
  <2>1. d = DirectDone(b, m, out.result, t, sends)
    BY <1>8 DEF TurnDone, d, m
  <2>2. /\ CoordinatorOK(d) /\ Advances(b, d, t)
        /\ Answers(b, d, m)
        /\ AutoFlush /\ Served(b) => Served(d)
    BY <1>2, <1>4, <1>6, <1>8, <2>1, DirectDoneFacts
  <2>3. \A u \in Turns \ {t}, n \in Msgs, by \in {"direct", "flush"} :
           ServesIn(b.agent, u, by, n) <=> ServesIn(c.agent, u, by, n)
    BY <1>6, <1>8 DEF ServesIn, InFlight
  <2>4. \A n \in Msgs, by \in {"direct", "flush"} : ~ ServesIn(b.agent, t, by, n)
    BY <1>6, <1>8 DEF ServesIn, InFlight
  <2>5. ServesIn(c.agent, t, "direct", m)
    BY <1>2, <1>8 DEF ServesIn, done
  <2>6. \A n \in Msgs \ {m} : ~ ServesIn(c.agent, t, "direct", n)
        /\ ~ ServesIn(c.agent, t, "flush", n)
    <3>1. ASSUME NEW n \in Msgs \ {m}
          PROVE  done # [by |-> "direct", text |-> n] /\ done # [by |-> "flush", text |-> n]
      BY DEF m
    <3> QED BY <3>1 DEF ServesIn, done
  <2>7. ~ ServesIn(c.agent, t, "flush", m)
    <3>1. done # [by |-> "flush", text |-> m]
      BY <1>8
    <3> QED BY <3>1 DEF ServesIn, done
  <2>8. NoneServes(b, m)
    BY <1>2, <2>3, <2>4, <2>5 DEF Good, CallersServed, OneServes, NoneServes
  <2>9. Guarded(b)
    <3>1. b.flushing => \E u \in Turns, n \in Msgs : ServesIn(b.agent, u, "flush", n)
      BY <1>4, <2>3, <2>6, <2>7 DEF Good, Guarded
    <3> QED BY <1>6, <1>8, <3>1 DEF Guarded
  <2>10. CallersServed(d)
    <3>1. NoneServes(d, m)
      BY <1>2, <1>4, <2>2, <2>8, AdvancesKeeps DEF NoneServes
    <3>2. \A n \in Msgs \ {m}, u \in Turns :
             ServesIn(d.agent, u, "direct", n) <=> ServesIn(c.agent, u, "direct", n)
      BY <1>4, <2>2, <2>3, <2>4, <2>6, AdvancesKeeps
    <3>3. PICK x \in {"replied", "queued", "failed"} : d.told = [c.told EXCEPT ![m] = x]
      BY <1>4, <2>2 DEF Answers
    <3>4. CoordinatorOK(c) /\ CoordinatorOK(d) /\ CallersServed(c) /\ m \in Msgs
      BY <1>1, <1>2, <2>2 DEF Good
    <3> HIDE DEF m, d
    <3> QED BY <3>1, <3>2, <3>3, <3>4, AnsweredCaller
  <2>11. Served(c) => Served(b)
    BY <1>4 DEF Served
  <2>12. AllHere(b) => AllHere(d)
    <3>1. PICK x \in {"replied", "queued", "failed"} : d.told = [b.told EXCEPT ![m] = x]
      BY <2>2 DEF Answers
    <3>2. CoordinatorOK(b) /\ m \in Msgs /\ x \in {"waiting", "replied", "queued", "failed"}
      BY <1>2, <1>4
    <3> HIDE DEF m, d, b
    <3> QED BY <3>1, <3>2, ToldKnown
  <2>13. AllHere(c) => AllHere(d)
    BY <1>4, <2>12 DEF AllHere
  <2>14. Keeps(c, d)
    BY <1>4, <1>6, <1>8, <2>2, <2>9, <2>10, <2>11, <2>13, AdvancesKeeps DEF Keeps, Good
  <2> QED BY <2>14 DEF d, b, out, done
<1> QED BY <1>2, <1>5, <1>7, <1>8

(* cancel() gives up both guards, and no caller. *)
LEMMA CancelStep ==
  ASSUME NEW c, Good(c)
  PROVE  LET d == [c EXCEPT !.agent = AgentCancel(@), !.flushing = FALSE, !.flushCtx = NoFlush]
         IN  Good(d) /\ (AllHere(c) => AllHere(d))
<1> DEFINE d == [c EXCEPT !.agent = AgentCancel(@), !.flushing = FALSE, !.flushCtx = NoFlush]
<1>1. /\ DOMAIN d = DOMAIN c
      /\ d.agent = AgentCancel(c.agent) /\ ~ d.flushing /\ d.flushCtx = NoFlush
      /\ d.flushing \in BOOLEAN
      /\ d.told = c.told /\ d.monitor = c.monitor /\ d.queue = c.queue
      /\ d.flushTold = c.flushTold /\ d.fate = c.fate
  BY DEF Good, CoordinatorOK
<1>2. AgentOK(d.agent) /\ d.agent.active = NoTurn /\ d.agent.ctx = c.agent.ctx
  BY <1>1 DEF Good, CoordinatorOK, AgentOK, AgentCancel
<1> HIDE DEF d
<1>3. CoordinatorOK(d)
  BY <1>1, <1>2 DEF Good, CoordinatorOK
<1>4. CallersServed(d)
  BY <1>1, <1>2 DEF Good, CallersServed, OneServes, NoneServes, ServesIn, InFlight
<1>5. AllHere(c) => AllHere(d)
  BY <1>1 DEF AllHere
<1> QED BY <1>1, <1>2, <1>3, <1>4, <1>5 DEF Good, Guarded, d

-----------------------------------------------------------------------------
(* The theorems                                                            *)

(* The inductive invariant.  The guards and the callers depend on each     *)
(* other only through the turns in flight, which is why one invariant      *)
(* holds them all; cancel() breaks the last two parts for good.            *)
IInv ==
  /\ Good(This) /\ AllHere(This)
  /\ cancels \in 0 .. MaxCancels
  /\ cancels = 0 => Alone(This)
  /\ cancels = 0 /\ AutoFlush => Served(This)

LEMMA BecomeFacts ==
  ASSUME NEW d, Become(d)
  PROVE  /\ Good(d) => Good(This)'
         /\ AllHere(d) => AllHere(This)'
         /\ Alone(d) => Alone(This)'
         /\ Served(d) => Served(This)'
<1>1. /\ This'.monitor = d.monitor /\ This'.queue = d.queue /\ This'.flushing = d.flushing
      /\ This'.flushCtx = d.flushCtx /\ This'.agent = d.agent /\ This'.told = d.told
      /\ This'.flushTold = d.flushTold /\ This'.fate = d.fate
      /\ DOMAIN This' = {"monitor", "queue", "flushing", "flushCtx", "agent", "told",
                         "flushTold", "fate"}
  BY DEF Become, This
<1>2. CoordinatorOK(d) => CoordinatorOK(This)'
  BY <1>1 DEF CoordinatorOK
<1>3. /\ Guarded(d) => Guarded(This)'
      /\ AllHere(d) => AllHere(This)'
      /\ CallersServed(d) => CallersServed(This)'
      /\ Alone(d) => Alone(This)'
      /\ Served(d) => Served(This)'
  BY <1>1 DEF Guarded, CallersServed, OneServes, NoneServes, Alone, Served, AllHere
<1> QED BY <1>2, <1>3 DEF Good

LEMMA Initially == Init => IInv
<1> SUFFICES ASSUME Init PROVE IInv
  OBVIOUS
<1>1. /\ DOMAIN agent = {"session", "active", "ctx", "saved"}
      /\ agent.active = NoTurn
      /\ agent.ctx = [t \in Turns |-> NoCtx]
  BY DEF Init, NewAgent
<1>2. queue \in Seq(Items)
  <2>1. Len(Loaded) \in Nat /\ DOMAIN Loaded = 1 .. Len(Loaded)
        /\ \A i \in DOMAIN Loaded : Loaded[i] \in Msgs
    BY CoordinatorConstants, LenProperties, ElementOfSeq
  <2>2. \A i \in 1 .. Len(Loaded) : Item(Loaded[i]) \in Items
    BY <2>1 DEF Item, Items
  <2>3. queue = [i \in 1 .. Len(Loaded) |-> Item(Loaded[i])]
    BY <2>1 DEF Init
  <2>4. queue \in [1 .. Len(Loaded) -> Items]
    BY <2>2, <2>3
  <2> QED BY <2>1, <2>4, SeqDef
<1>3. CoordinatorOK(This)
  <2>1. AgentOK(agent)
    BY <1>1 DEF AgentOK
  <2> QED BY <1>2, <2>1 DEF Init, CoordinatorOK, This
<1>4. Guarded(This) /\ CallersServed(This) /\ Alone(This) /\ Served(This)
  <2>1. \A m \in Msgs : This.told[m] # "waiting"
    BY DEF Init, This
  <2>2. \A t \in Turns : ~ InFlight(This.agent, t)
    BY <1>1 DEF InFlight, This
  <2> QED BY <1>1, <2>1, <2>2
      DEF Init, This, Guarded, CallersServed, NoneServes, ServesIn, Alone, Served
<1>5. AllHere(This)
  BY DEF Init, This, AllHere
<1> QED BY <1>3, <1>4, <1>5, CoordinatorConstants DEF Init, IInv, Good

LEMMA Inductive == IInv /\ [Next]_vars => IInv'
<1> SUFFICES ASSUME IInv, [Next]_vars PROVE IInv'
  OBVIOUS
<1>1. Good(This) /\ AllHere(This) /\ cancels \in 0 .. MaxCancels
  BY DEF IInv
<1>2. This.told = told /\ This.flushTold = flushTold /\ This.agent = agent
  BY DEF This
<1>3. ASSUME NEW d, Become(d), Keeps(This, d), UNCHANGED cancels
      PROVE  IInv'
  BY <1>1, <1>3, BecomeFacts DEF Keeps, IInv
<1>4. ASSUME NEW m \in Msgs, Submit(m)
      PROVE  IInv'
  <2>1. PICK t \in Turns, sends \in Sends :
           Fresh(t) /\ Become(SubmitUserMessage(This, m, t, sends))
    BY <1>4 DEF Submit
  <2>2. sends \in BOOLEAN /\ FreshIn(This.agent, t) /\ This.told[m] = "none"
    BY <1>2, <1>4, <2>1, CoordinatorConstants DEF Fresh, FreshIn, Submit
  <2>3. Keeps(This, SubmitUserMessage(This, m, t, sends))
    BY <1>1, <2>2, SubmitStep
  <2> QED BY <1>3, <1>4, <2>1, <2>3 DEF Submit
<1>5. ASSUME NEW f \in FlushCalls, Flush(f)
      PROVE  IInv'
  <2> DEFINE b == [This EXCEPT !.flushCtx = f, !.flushTold[f] = "waiting"]
  <2>1. PICK t \in Turns, sends \in Sends :
           Fresh(t) /\ Become(TryFlush(b, t, sends))
    BY <1>5 DEF Flush
  <2>2. sends \in BOOLEAN /\ FreshIn(This.agent, t)
    BY <1>2, <2>1, CoordinatorConstants DEF Fresh, FreshIn
  <2>3. Keeps(This, TryFlush(b, t, sends))
    BY <1>1, <2>2, FlushStep
  <2> HIDE DEF b
  <2> QED BY <1>3, <1>5, <2>1, <2>3 DEF Flush
<1>6. ASSUME NEW t \in Turns, Complete(t)
      PROVE  IInv'
  <2> DEFINE d(r, sends) ==
        LET out == Respond(agent, t, r, sends)
        IN  TurnDone([This EXCEPT !.agent = out.agent],
                     agent.ctx[t].done, out.result, t, sends)
  <2>1. PICK r \in Responses, sends \in Sends : Become(d(r, sends))
    BY <1>6 DEF Complete
  <2>2. sends \in BOOLEAN /\ InFlight(This.agent, t)
    BY <1>2, <1>6, CoordinatorConstants DEF Complete
  <2>3. Keeps(This, d(r, sends))
    BY <1>1, <1>2, <2>2, CompleteStep
  <2> HIDE DEF d
  <2> QED BY <1>3, <1>6, <2>1, <2>3 DEF Complete
<1>7. ASSUME NEW online \in Reports, Report(online)
      PROVE  IInv'
  <2>1. PICK t \in Turns, sends \in Sends :
           Fresh(t) /\ Become(SetOnline(This, online, t, sends))
    BY <1>7 DEF Report
  <2>2. sends \in BOOLEAN /\ online \in BOOLEAN /\ FreshIn(This.agent, t)
    BY <1>2, <2>1, CoordinatorConstants DEF Fresh, FreshIn
  <2>3. Keeps(This, SetOnline(This, online, t, sends))
    BY <1>1, <2>2, ReportStep
  <2> QED BY <1>3, <1>7, <2>1, <2>3 DEF Report
<1>8. ASSUME Cancel
      PROVE  IInv'
  <2>1. Good(This)' /\ AllHere(This)'
    BY <1>1, <1>8, CancelStep, BecomeFacts DEF Cancel
  <2>2. cancels' \in 0 .. MaxCancels /\ cancels' # 0
    BY <1>1, <1>8, CoordinatorConstants DEF Cancel
  <2> QED BY <2>1, <2>2 DEF IInv
<1>9. ASSUME UNCHANGED vars
      PROVE  IInv'
  <2>1. This' = This /\ cancels' = cancels
    BY <1>9 DEF vars, This
  <2> QED BY <2>1 DEF IInv
<1> QED BY <1>4, <1>5, <1>6, <1>7, <1>8, <1>9 DEF Next

LEMMA Always == Spec => []IInv
BY Initially, Inductive, PTL DEF Spec

(* Every variable has its type, in every run for every value of the        *)
(* constants: in particular no operation of the queue, of the flush or of  *)
(* a turn leaves a caller told anything but what the code tells it.        *)
THEOREM TypeCorrect == Spec => []TypeOK
<1>1. ASSUME IInv
      PROVE  told \in [Msgs -> {"none", "waiting", "queued", "replied", "failed"}]
  BY <1>1 DEF IInv, Good, CoordinatorOK, AllHere, This
<1>2. IInv => TypeOK
  BY <1>1 DEF IInv, Good, CoordinatorOK, AgentOK, TurnContext, Items, This, TypeOK
<1> QED BY <1>2, Always, PTL

(* Neither flushing_ nor activeTurn_ is ever left set with nothing in      *)
(* flight that clears it, whatever the sizes of the queue, the number of   *)
(* turns and the calls of cancel().                                        *)
THEOREM NeverWedged == Spec => []NotWedged
<1>1. IInv => NotWedged
  BY DEF IInv, Good, Guarded, This, NotWedged, Serves
<1> QED BY <1>1, Always, PTL

(* Every caller of submitUserMessage waits for exactly one turn, and is    *)
(* answered by the end of that turn.                                       *)
THEOREM CallersAnswered == Spec => []CallersAnsweredOnce
<1>1. IInv => CallersAnsweredOnce
  BY DEF IInv, Good, CallersServed, OneServes, NoneServes, This, CallersAnsweredOnce, Serves
<1> QED BY <1>1, Always, PTL

(* Unless cancel() is called, no two requests are in flight together.      *)
THEOREM OneTurn == Spec => []OneTurnUnlessCancelled
<1>1. IInv => OneTurnUnlessCancelled
  BY DEF IInv, Alone, This, OneTurnUnlessCancelled, OneTurnAtATime
<1> QED BY <1>1, Always, PTL

(* With autoFlushOnOnline, unless cancel() is called, what is queued and   *)
(* whoever called flush() is being served whenever the monitor says        *)
(* online.                                                                 *)
THEOREM NoneStranded == Spec => []NothingStranded
<1>1. IInv => NothingStranded
  BY DEF IInv, Served, This, NothingStranded
<1> QED BY <1>1, Always, PTL

-----------------------------------------------------------------------------
(* Delivery                                                                *)

(* FrontIsInFlight of a value of the coordinator. *)
FrontServed(c) ==
  c.flushing => /\ c.queue # << >>
                /\ \E t \in Turns : ServesIn(c.agent, t, "flush", Head(c.queue).text)

(* Message m is accounted for. *)
Has(c, m) == m \in Texts(c.queue) \/ c.fate[m] # {}

(* NothingLost of a value of the coordinator. *)
Kept(c) == \A m \in Msgs : c.told[m] = "queued" => Has(c, m)

Holds(c, d) == \A m \in Msgs : Has(c, m) => Has(d, m)

(* A flush turn is in flight only while flushing_ is set. *)
Backed(c) ==
  \A t \in Turns, m \in Msgs : ServesIn(c.agent, t, "flush", m) => c.flushing

(* While an item is in flight the device is online: then the answer to it  *)
(* is no transition to online, which would start another flush.            *)
Steady(c) == AutoFlush /\ c.flushing => c.monitor = "online"

Undisturbed(c) == AutoFlush => Backed(c) /\ Steady(c)

-----------------------------------------------------------------------------
(* What the operators do to the messages                                   *)

LEMMA HoldsComposes ==
  ASSUME NEW c, NEW d, NEW e, Holds(c, d), Holds(d, e)
  PROVE  Holds(c, e)
BY DEF Holds

LEMMA HoldsKeeps ==
  ASSUME NEW c, NEW d, Kept(c), Holds(c, d), d.told = c.told
  PROVE  Kept(d)
BY DEF Holds, Kept

LEMMA TailTexts ==
  ASSUME NEW q \in Seq(Items), q # << >>
  PROVE  Texts(q) \subseteq {Head(q).text} \cup Texts(Tail(q))
<1> SUFFICES ASSUME NEW i \in DOMAIN q, i # 1
             PROVE  q[i].text \in Texts(Tail(q))
  BY DEF Texts
<1>1. Len(q) \in Nat /\ DOMAIN q = 1 .. Len(q)
  BY LenProperties
<1>2. /\ Tail(q) \in Seq(Items)
      /\ Len(Tail(q)) = Len(q) - 1
      /\ \A j \in 1 .. Len(Tail(q)) : Tail(q)[j] = q[j + 1]
  BY HeadTailProperties
<1>3. i - 1 \in 1 .. Len(Tail(q)) /\ DOMAIN Tail(q) = 1 .. Len(Tail(q))
  BY <1>1, <1>2, LenProperties
<1>4. Tail(q)[i - 1] = q[i]
  BY <1>1, <1>2, <1>3
<1> QED BY <1>3, <1>4 DEF Texts

LEMMA AppendTexts ==
  ASSUME NEW q \in Seq(Items), NEW m \in Msgs
  PROVE  /\ Texts(q) \cup {m} \subseteq Texts(Append(q, Item(m)))
         /\ q # << >> => Head(Append(q, Item(m))) = Head(q)
         /\ Append(q, Item(m)) # << >>
<1> DEFINE longer == Append(q, Item(m))
<1>1. Item(m) \in Items /\ Item(m).text = m
  BY DEF Item, Items
<1>2. Len(q) \in Nat /\ DOMAIN q = 1 .. Len(q)
  BY LenProperties
<1>3. /\ longer \in Seq(Items)
      /\ longer # << >>
      /\ Len(longer) = Len(q) + 1
      /\ \A i \in 1 .. Len(q) : longer[i] = q[i]
      /\ longer[Len(q) + 1] = Item(m)
  BY <1>1, AppendProperties
<1>4. q # << >> => Head(longer) = Head(q)
  BY <1>1, HeadTailAppend
<1> HIDE DEF longer
<1>5. DOMAIN longer = 1 .. Len(q) + 1
  BY <1>2, <1>3, LenProperties
<1>6. ASSUME NEW i \in DOMAIN q
      PROVE  i \in DOMAIN longer /\ longer[i].text = q[i].text
  BY <1>2, <1>3, <1>5
<1>7. Len(q) + 1 \in DOMAIN longer /\ longer[Len(q) + 1].text = m
  BY <1>1, <1>2, <1>3, <1>5
<1>8. Texts(q) \cup {m} \subseteq Texts(longer)
  BY <1>6, <1>7 DEF Texts
<1> QED BY <1>3, <1>4, <1>8 DEF longer

(* What tryFlush drops has its attempts used up, which settles it. *)
LEMMA DropExhaustedHolds ==
  ASSUME NEW c, CoordinatorOK(c)
  PROVE  Holds(c, DropExhausted(c))
<1> DEFINE n == Exhausted(c.queue)
           dropped == {c.queue[i].text : i \in 1 .. n}
           rest == SubSeq(c.queue, n + 1, Len(c.queue))
           ended == [m \in Msgs |-> IF m \in dropped THEN c.fate[m] \cup {"dropped"}
                                    ELSE c.fate[m]]
           d == DropExhausted(c)
<1>1. c.queue \in Seq(Items) /\ Len(c.queue) \in Nat /\ DOMAIN c.queue = 1 .. Len(c.queue)
  BY LenProperties DEF CoordinatorOK
<1>2. n \in 0 .. Len(c.queue)
  BY <1>1, ExhaustedType
<1>3. d.queue = rest /\ d.fate = ended
  BY DEF DropExhausted, CoordinatorOK
<1> HIDE DEF d, n
<1>4. \A i \in n + 1 .. Len(c.queue) : c.queue[i] \in Items
  BY <1>1, <1>2, ElementOfSeq
<1>5. /\ rest \in Seq(Items)
      /\ Len(rest) = Len(c.queue) - n
      /\ \A i \in 1 .. Len(c.queue) - n : rest[i] = c.queue[n + i]
  <2>1. /\ rest \in Seq(Items)
        /\ Len(rest) = IF n + 1 <= Len(c.queue) THEN Len(c.queue) - (n + 1) + 1 ELSE 0
        /\ \A i \in 1 .. Len(c.queue) - (n + 1) + 1 : rest[i] = c.queue[n + 1 + i - 1]
    BY <1>1, <1>2, <1>4, SubSeqProperties
  <2> HIDE DEF rest
  <2> QED BY <1>1, <1>2, <2>1
<1> HIDE DEF rest
<1>6. DOMAIN rest = 1 .. Len(c.queue) - n
  BY <1>5, LenProperties
<1>7. ASSUME NEW i \in DOMAIN c.queue, i > n
      PROVE  c.queue[i].text \in Texts(rest)
  <2>1. i - n \in DOMAIN rest
    BY <1>1, <1>2, <1>6, <1>7
  <2>2. rest[i - n] = c.queue[i]
    BY <1>1, <1>2, <1>5, <1>7
  <2> QED BY <2>1, <2>2 DEF Texts
<1>8. \A m \in Texts(c.queue) : m \in dropped \/ m \in Texts(rest)
  BY <1>1, <1>2, <1>7 DEF Texts
<1>9. \A m \in Msgs : /\ m \in dropped => ended[m] # {}
                      /\ c.fate[m] # {} => ended[m] # {}
  OBVIOUS
<1> QED BY <1>3, <1>8, <1>9 DEF Holds, Has, d

(* Removing the front loses nothing that is not settled. *)
LEMMA RemoveFrontHolds ==
  ASSUME NEW c, CoordinatorOK(c), c.queue # << >> => c.fate[Head(c.queue).text] # {}
  PROVE  Holds(c, RemoveFront(c))
<1>1. CASE c.queue = << >>
  BY <1>1 DEF RemoveFront, Holds
<1>2. CASE c.queue # << >>
  <2>1. RemoveFront(c).queue = Tail(c.queue) /\ RemoveFront(c).fate = c.fate
    BY <1>2 DEF RemoveFront, CoordinatorOK
  <2>2. Texts(c.queue) \subseteq {Head(c.queue).text} \cup Texts(Tail(c.queue))
    BY <1>2, TailTexts DEF CoordinatorOK
  <2> QED BY <1>2, <2>1, <2>2 DEF Holds, Has
<1> QED BY <1>1, <1>2

LEMMA BumpFrontHolds ==
  ASSUME NEW c, CoordinatorOK(c)
  PROVE  Holds(c, BumpFront(c))
<1>1. CASE c.queue = << >>
  BY <1>1 DEF BumpFront, Holds
<1>2. CASE c.queue # << >>
  <2> DEFINE item == [c.queue[1] EXCEPT !.attempts = @ + 1]
             bumped == [c.queue EXCEPT ![1] = item]
  <2>1. c.queue \in Seq(Items) /\ DOMAIN c.queue = 1 .. Len(c.queue)
        /\ 1 \in 1 .. Len(c.queue)
    BY <1>2, EmptySeq, LenProperties DEF CoordinatorOK
  <2>2. item.text = c.queue[1].text
    <3>1. c.queue[1] \in Items
      BY <2>1, ElementOfSeq
    <3> QED BY <3>1 DEF Items
  <2>3. BumpFront(c).queue = bumped /\ BumpFront(c).fate = c.fate
    BY <1>2 DEF BumpFront, CoordinatorOK
  <2> HIDE DEF item
  <2>4. DOMAIN bumped = DOMAIN c.queue
        /\ \A i \in DOMAIN c.queue : bumped[i].text = c.queue[i].text
    BY <2>1, <2>2
  <2> HIDE DEF bumped
  <2>5. Texts(bumped) = Texts(c.queue)
    BY <2>4 DEF Texts
  <2> QED BY <2>3, <2>5 DEF Holds, Has
<1> QED BY <1>1, <1>2

LEMMA RetryLaterHolds ==
  ASSUME NEW c, CoordinatorOK(c)
  PROVE  Holds(c, RetryLater(c))
<1> DEFINE d == [GoOffline(c) EXCEPT !.agent = Rollback(@)]
           e == BumpFront(d)
<1>1. d.queue = c.queue /\ d.fate = c.fate
  BY DEF CoordinatorOK, GoOffline
<1>2. CoordinatorOK(d)
  <2>1. d.agent = Rollback(c.agent) /\ d.monitor = "offline"
    BY DEF CoordinatorOK, GoOffline
  <2>2. AgentOK(d.agent)
    BY <2>1, RollbackFacts DEF CoordinatorOK
  <2>3. /\ DOMAIN d = DOMAIN c
        /\ d.flushing = c.flushing /\ d.told = c.told
        /\ d.flushCtx = c.flushCtx /\ d.flushTold = c.flushTold
    BY DEF CoordinatorOK, GoOffline
  <2> HIDE DEF d
  <2> QED BY <1>1, <2>1, <2>2, <2>3 DEF CoordinatorOK
<1>3. RetryLater(c) = AnswerFlush(e, "failed")
  BY DEF RetryLater
<1> HIDE DEF d
<1>4. CoordinatorOK(e) /\ Holds(d, e)
  BY <1>2, BumpFrontFacts, BumpFrontHolds
<1> HIDE DEF e
<1>5. AnswerFlush(e, "failed").queue = e.queue /\ AnswerFlush(e, "failed").fate = e.fate
  BY <1>4 DEF AnswerFlush, CoordinatorOK
<1> QED BY <1>1, <1>3, <1>4, <1>5 DEF Holds, Has

(* The item that is submitted is the front, and stays there. *)
LEMMA SubmitFrontSends ==
  ASSUME NEW c, CoordinatorOK(c), ~ c.flushing, c.queue # << >>,
         NEW t \in Turns, NEW sends \in BOOLEAN, FreshIn(c.agent, t)
  PROVE  LET d == SubmitFront(c, t, sends)
         IN  FrontServed(d) /\ Holds(c, d)
<1> DEFINE m == Head(c.queue).text
           done == [by |-> "flush", text |-> m]
           out == AgentSubmit(c.agent, m, done, t, sends)
           with(b) == [c EXCEPT !.agent = out.agent, !.flushing = b]
<1>1. m \in Msgs
  <2>1. Head(c.queue) \in Items
    BY HeadTailProperties DEF CoordinatorOK
  <2> QED BY <2>1 DEF Items
<1>2. done \in DoneCallbacks
  BY <1>1 DEF DoneCallbacks
<1>3. AgentOK(c.agent)
  BY DEF CoordinatorOK
<1>4. SubmitFront(c, t, sends) = IF out.result = Pending THEN with(TRUE)
                                 ELSE RetryLater(with(FALSE))
  BY DEF SubmitFront
<1> HIDE DEF m, out
<1>5. /\ AgentOK(out.agent)
      /\ out.result = Pending =>
           out.agent.ctx = [c.agent.ctx EXCEPT ![t] = [done |-> done, round |-> 0]]
  BY <1>2, <1>3, AgentSubmitFacts DEF out
<1>6. ASSUME NEW b \in BOOLEAN
      PROVE  /\ CoordinatorOK(with(b))
             /\ with(b).agent = out.agent
             /\ with(b).flushing = b
             /\ with(b).queue = c.queue /\ with(b).fate = c.fate
  BY <1>5 DEF CoordinatorOK
<1> HIDE DEF with
<1>7. CASE out.result = Pending
  <2>1. out.agent.ctx[t] = [done |-> done, round |-> 0]
    BY <1>3, <1>5, <1>7 DEF AgentOK
  <2>2. [done |-> done, round |-> 0] # NoCtx
    BY <1>2, CoordinatorConstants
  <2>3. ServesIn(out.agent, t, "flush", m)
    BY <2>1, <2>2 DEF ServesIn, InFlight
  <2> QED BY <1>4, <1>6, <1>7, <2>3 DEF FrontServed, Holds, Has, m
<1>8. CASE out.result # Pending
  <2>1. Holds(c, with(FALSE)) /\ CoordinatorOK(with(FALSE)) /\ ~ with(FALSE).flushing
    BY <1>6 DEF Holds, Has
  <2>2. Holds(with(FALSE), RetryLater(with(FALSE))) /\ ~ RetryLater(with(FALSE)).flushing
    BY <2>1, RetryLaterHolds, RetryLaterFacts DEF SameTurns
  <2> DEFINE e == RetryLater(with(FALSE))
  <2> HIDE DEF e
  <2>3. Holds(c, e) /\ FrontServed(e)
    BY <2>1, <2>2, HoldsComposes DEF FrontServed, e
  <2>4. SubmitFront(c, t, sends) = e
    BY <1>4, <1>8 DEF e
  <2> QED BY <2>3, <2>4
<1> QED BY <1>7, <1>8

(* tryFlush returns where a flush is running, or sends the front. *)
LEMMA TryFlushSends ==
  ASSUME NEW c, CoordinatorOK(c),
         NEW t \in Turns, NEW sends \in BOOLEAN, FreshIn(c.agent, t)
  PROVE  LET d == TryFlush(c, t, sends)
         IN  /\ Holds(c, d)
             /\ FrontServed(c) => FrontServed(d)
<1> DEFINE live == DropExhausted(c)
           d == TryFlush(c, t, sends)
<1>1. CoordinatorOK(live) /\ SameTurns(c, live) /\ live.agent = c.agent /\ Holds(c, live)
  BY DropExhaustedFacts, DropExhaustedHolds
<1>2. CASE ~ IsOnline(c) \/ c.flushing
  BY <1>2 DEF TryFlush, Holds
<1>3. CASE IsOnline(c) /\ ~ c.flushing /\ live.queue = << >>
  <2>1. d = AnswerFlush(live, "ok")
    BY <1>3 DEF TryFlush
  <2> HIDE DEF live, d
  <2>2. d.queue = live.queue /\ d.fate = live.fate /\ ~ d.flushing
    BY <1>1, <1>3, <2>1 DEF AnswerFlush, CoordinatorOK, SameTurns
  <2> QED BY <1>1, <2>2 DEF Holds, Has, FrontServed, d
<1>4. CASE IsOnline(c) /\ ~ c.flushing /\ live.queue # << >>
  <2>1. d = SubmitFront(live, t, sends)
    BY <1>4 DEF TryFlush
  <2> HIDE DEF live, d
  <2>2. ~ live.flushing /\ FreshIn(live.agent, t)
    BY <1>1, <1>4 DEF SameTurns
  <2>3. FrontServed(d) /\ Holds(live, d)
    BY <1>1, <1>4, <2>1, <2>2, SubmitFrontSends
  <2> QED BY <1>1, <2>3, HoldsComposes DEF d
<1> QED BY <1>2, <1>3, <1>4

(* Without autoFlushOnOnline a report on connectivity starts nothing, nor  *)
(* while the device is online already.                                     *)
LEMMA SetOnlineOnly ==
  ASSUME NEW c, CoordinatorOK(c), ~ AutoFlush \/ c.monitor = "online",
         NEW online \in BOOLEAN, NEW t, NEW sends
  PROVE  LET d == SetOnline(c, online, t, sends)
         IN  /\ CoordinatorOK(d)
             /\ d.agent = c.agent /\ d.flushing = c.flushing
             /\ d.queue = c.queue /\ d.fate = c.fate /\ d.told = c.told
BY DEF SetOnline, CoordinatorOK

LEMMA SettleHolds ==
  ASSUME NEW c, CoordinatorOK(c), NEW m \in Msgs, NEW how
  PROVE  Holds(c, Settle(c, m, how)) /\ Settle(c, m, how).fate[m] # {}
BY DEF CoordinatorOK, Settle, Holds, Has

(* The queue grows at its back, if it does. *)
SameFront(c, d) ==
  c.queue # << >> => d.queue # << >> /\ Head(d.queue).text = Head(c.queue).text

LEMMA SameFrontServed ==
  ASSUME NEW c, NEW d, FrontServed(c), SameTurns(c, d), SameFront(c, d)
  PROVE  FrontServed(d)
BY DEF FrontServed, SameTurns, SameFront, ServesIn, InFlight

(* Whoever is told "queued" is in the queue. *)
LEMMA QueueOrRefuseKeeps ==
  ASSUME NEW c, CoordinatorOK(c), NEW m \in Msgs
  PROVE  LET d == QueueOrRefuse(c, m)
         IN  SameFront(c, d) /\ (Kept(c) => Kept(d))
<1> DEFINE d == QueueOrRefuse(c, m)
           longer == Append(c.queue, Item(m))
<1>1. /\ Texts(c.queue) \cup {m} \subseteq Texts(longer)
      /\ c.queue # << >> => Head(longer) = Head(c.queue)
      /\ longer # << >>
  BY AppendTexts DEF CoordinatorOK
<1>2. d = IF Len(c.queue) >= MaxQueueItems
          THEN [c EXCEPT !.told[m] = "failed"]
          ELSE [c EXCEPT !.queue = longer, !.told[m] = "queued"]
  BY DEF QueueOrRefuse
<1> HIDE DEF longer, d
<1>3. CASE Len(c.queue) >= MaxQueueItems
  <2>1. d.queue = c.queue /\ d.fate = c.fate /\ d.told = [c.told EXCEPT ![m] = "failed"]
    BY <1>2, <1>3 DEF CoordinatorOK
  <2>2. \A n \in Msgs : d.told[n] = "queued" => c.told[n] = "queued"
    BY <2>1 DEF CoordinatorOK
  <2> QED BY <2>1, <2>2 DEF SameFront, Kept, Has, d
<1>4. CASE ~ (Len(c.queue) >= MaxQueueItems)
  <2>1. d.queue = longer /\ d.fate = c.fate /\ d.told = [c.told EXCEPT ![m] = "queued"]
    BY <1>2, <1>4 DEF CoordinatorOK
  <2>2. \A n \in Msgs : n # m => d.told[n] = c.told[n]
    BY <2>1 DEF CoordinatorOK
  <2> QED BY <1>1, <2>1, <2>2 DEF SameFront, Kept, Has, d
<1> QED BY <1>3, <1>4

-----------------------------------------------------------------------------
(* The done callbacks                                                      *)

(* The item that is removed is the one that was answered. *)
LEMMA FinishFlushItemSends ==
  ASSUME NEW c, CoordinatorOK(c), ~ AutoFlush \/ c.monitor = "online",
         NEW m \in Msgs, NEW result,
         NEW t \in Turns, NEW sends \in BOOLEAN, FreshIn(c.agent, t)
  PROVE  LET d == FinishFlushItem(c, m, result, t, sends)
         IN  /\ FrontServed(d)
             /\ (c.queue # << >> => Head(c.queue).text = m) => Holds(c, d)
<1> DEFINE idle == [c EXCEPT !.flushing = FALSE]
           how == IF result = "ok" THEN "replied" ELSE "refused"
           s == Settle(idle, m, how)
           done == IF result = "ok" THEN SetOnline(s, TRUE, t, sends) ELSE s
           rest == RemoveFront(done)
           d == FinishFlushItem(c, m, result, t, sends)
<1>1. /\ CoordinatorOK(idle) /\ idle.agent = c.agent /\ ~ idle.flushing
      /\ idle.queue = c.queue /\ idle.fate = c.fate /\ idle.monitor = c.monitor
  BY DEF CoordinatorOK
<1>2. d = IF result # "ok" /\ IsQueueable(result) THEN RetryLater(idle)
          ELSE TryFlush(rest, t, sends)
  BY DEF FinishFlushItem
<1> HIDE DEF idle, d
<1>3. CASE result # "ok" /\ IsQueueable(result)
  <2>1. Holds(idle, d) /\ ~ d.flushing
    BY <1>1, <1>2, <1>3, RetryLaterHolds, RetryLaterFacts DEF SameTurns
  <2> QED BY <1>1, <2>1 DEF FrontServed, Holds, Has, d
<1>4. CASE ~ (result # "ok" /\ IsQueueable(result))
  <2>1. how \in {"replied", "refused", "dropped"}
    OBVIOUS
  <2> HIDE DEF how
  <2>2. /\ CoordinatorOK(s) /\ s.agent = c.agent /\ ~ s.flushing
        /\ s.queue = c.queue /\ s.monitor = c.monitor
        /\ Holds(idle, s) /\ s.fate[m] # {}
    <3>1. CoordinatorOK(s) /\ SameTurns(idle, s) /\ s.agent = idle.agent
          /\ s.queue = idle.queue /\ s.monitor = idle.monitor
      BY <1>1, <2>1, SettleFacts
    <3>2. Holds(idle, s) /\ s.fate[m] # {}
      BY <1>1, SettleHolds
    <3> HIDE DEF s
    <3> QED BY <1>1, <3>1, <3>2 DEF SameTurns
  <2> HIDE DEF s
  <2>3. /\ CoordinatorOK(done) /\ done.agent = c.agent /\ ~ done.flushing
        /\ done.queue = c.queue
        /\ Holds(idle, done) /\ done.fate[m] # {}
    <3>1. CASE result = "ok"
      <4>1. done = SetOnline(s, TRUE, t, sends)
        BY <3>1
      <4> HIDE DEF done
      <4>2. /\ CoordinatorOK(done) /\ done.agent = s.agent /\ done.flushing = s.flushing
            /\ done.queue = s.queue /\ done.fate = s.fate
        BY <2>2, <4>1 DEF SetOnline, CoordinatorOK
      <4> QED BY <2>2, <4>2 DEF Holds, Has
    <3>2. CASE result # "ok"
      BY <2>2, <3>2
    <3> QED BY <3>1, <3>2
  <2> HIDE DEF done
  <2>4. /\ CoordinatorOK(rest) /\ FreshIn(rest.agent, t) /\ ~ rest.flushing
        /\ (c.queue # << >> => Head(c.queue).text = m) => Holds(done, rest)
    BY <2>3, RemoveFrontFacts, RemoveFrontHolds DEF SameTurns, FreshIn, InFlight
  <2> HIDE DEF rest
  <2>5. FrontServed(d) /\ Holds(rest, d)
    BY <1>2, <1>4, <2>4, TryFlushSends DEF FrontServed
  <2> QED BY <1>1, <2>3, <2>4, <2>5 DEF Holds, Has, d
<1> QED BY <1>3, <1>4

LEMMA DirectDoneKeeps ==
  ASSUME NEW c, CoordinatorOK(c), NEW m \in Msgs, NEW result, NEW t, NEW sends,
         ~ AutoFlush \/ result # "ok"
  PROVE  LET d == DirectDone(c, m, result, t, sends)
         IN  /\ SameTurns(c, d)
             /\ SameFront(c, d)
             /\ Kept(c) => Kept(d)
<1> DEFINE d == DirectDone(c, m, result, t, sends)
           back == [c EXCEPT !.agent = Rollback(@)]
<1>1. /\ CoordinatorOK(back) /\ SameTurns(c, back) /\ back.told = c.told
      /\ back.queue = c.queue /\ back.fate = c.fate
  <2>1. back.agent = Rollback(c.agent)
    BY DEF CoordinatorOK
  <2>2. /\ AgentOK(back.agent)
        /\ back.agent.active = c.agent.active
        /\ back.agent.ctx = c.agent.ctx
    BY <2>1, RollbackFacts DEF CoordinatorOK
  <2>3. /\ DOMAIN back = DOMAIN c
        /\ back.monitor = c.monitor /\ back.flushing = c.flushing
        /\ back.told = c.told /\ back.queue = c.queue
        /\ back.flushCtx = c.flushCtx /\ back.flushTold = c.flushTold
        /\ back.fate = c.fate
    BY DEF CoordinatorOK
  <2> HIDE DEF back
  <2> QED BY <2>2, <2>3 DEF CoordinatorOK, SameTurns
<1> HIDE DEF back
<1>2. ASSUME NEW s, NEW x \in {"replied", "failed"}, CoordinatorOK(s), SameTurns(c, s),
             s.told = c.told, s.queue = c.queue, Holds(c, s),
             d = [s EXCEPT !.told[m] = x]
      PROVE  SameTurns(c, d) /\ SameFront(c, d) /\ (Kept(c) => Kept(d))
  <2> HIDE DEF d
  <2>1. /\ d.flushing = s.flushing /\ d.agent = s.agent /\ d.queue = c.queue
        /\ d.fate = s.fate /\ d.told = [c.told EXCEPT ![m] = x]
    BY <1>2 DEF CoordinatorOK
  <2>2. \A n \in Msgs : d.told[n] = "queued" => c.told[n] = "queued"
    BY <2>1 DEF CoordinatorOK
  <2>3. Kept(c) => Kept(d)
    BY <1>2, <2>1, <2>2 DEF Kept, Holds, Has
  <2> QED BY <1>2, <2>1, <2>3 DEF SameTurns, SameFront
<1>3. CASE result = "ok"
  <2> DEFINE r == Settle(c, m, "replied")
             s == SetOnline(r, TRUE, t, sends)
  <2>1. /\ CoordinatorOK(r) /\ SameTurns(c, r) /\ r.told = c.told
        /\ r.agent = c.agent /\ r.queue = c.queue /\ Holds(c, r)
    BY SettleFacts, SettleHolds
  <2>2. d = [s EXCEPT !.told[m] = "replied"]
    BY <1>3 DEF DirectDone
  <2> HIDE DEF r, d
  <2>3. /\ CoordinatorOK(s) /\ SameTurns(c, s) /\ s.told = c.told
        /\ s.queue = c.queue /\ Holds(c, s)
    <3>1. s = [r EXCEPT !.monitor = "online"]
      BY <1>3 DEF SetOnline
    <3> HIDE DEF s
    <3>2. /\ CoordinatorOK(s) /\ s.agent = r.agent /\ s.flushing = r.flushing
          /\ s.queue = r.queue /\ s.fate = r.fate /\ s.told = r.told
      BY <2>1, <3>1 DEF CoordinatorOK
    <3> QED BY <2>1, <3>2 DEF SameTurns, Holds, Has
  <2> HIDE DEF s
  <2> QED BY <1>2, <2>2, <2>3 DEF d
<1>4. CASE result # "ok" /\ ~ IsQueueable(result)
  <2> DEFINE s == Settle(back, m, "refused")
  <2>1. /\ CoordinatorOK(s) /\ SameTurns(back, s) /\ s.told = c.told
        /\ s.queue = c.queue /\ Holds(back, s)
    BY <1>1, SettleFacts, SettleHolds
  <2>2. d = [s EXCEPT !.told[m] = "failed"]
    BY <1>4 DEF DirectDone, back
  <2> HIDE DEF s, d
  <2>3. SameTurns(c, s) /\ Holds(c, s)
    BY <1>1, <2>1 DEF SameTurns, Holds, Has
  <2> QED BY <1>2, <2>1, <2>2, <2>3 DEF d
<1>5. CASE result # "ok" /\ IsQueueable(result)
  <2> DEFINE s == GoOffline(back)
  <2>1. /\ CoordinatorOK(s) /\ SameTurns(c, s) /\ s.told = c.told
        /\ s.queue = c.queue /\ s.fate = c.fate
    BY <1>1 DEF CoordinatorOK, SameTurns, GoOffline
  <2>2. d = QueueOrRefuse(s, m)
    BY <1>5 DEF DirectDone, back
  <2> HIDE DEF s, d
  <2>3. SameTurns(s, d) /\ SameFront(s, d) /\ (Kept(s) => Kept(d))
    BY <2>1, <2>2, QueueOrRefuseFacts, QueueOrRefuseKeeps
  <2>4. SameTurns(c, d) /\ SameFront(c, d) /\ (Kept(c) => Kept(s))
    BY <2>1, <2>3 DEF SameTurns, SameFront, Kept, Has
  <2> QED BY <2>3, <2>4 DEF d
<1> QED BY <1>3, <1>4, <1>5

(* An answer to a direct submission may be what brings the device online. *)
LEMMA DirectOkKeeps ==
  ASSUME NEW c, CoordinatorOK(c), FrontServed(c), NEW m \in Msgs,
         NEW t \in Turns, NEW sends \in BOOLEAN, FreshIn(c.agent, t)
  PROVE  LET d == DirectDone(c, m, "ok", t, sends)
         IN  FrontServed(d) /\ (Kept(c) => Kept(d))
<1> DEFINE r == Settle(c, m, "replied")
           on == [r EXCEPT !.monitor = "online"]
           s == SetOnline(r, TRUE, t, sends)
           d == DirectDone(c, m, "ok", t, sends)
<1>1. /\ CoordinatorOK(r) /\ SameTurns(c, r) /\ r.told = c.told
      /\ r.agent = c.agent /\ r.queue = c.queue /\ Holds(c, r)
  BY SettleFacts, SettleHolds
<1>2. d = [s EXCEPT !.told[m] = "replied"]
  BY DEF DirectDone
<1>3. s = IF r.monitor # "online" /\ AutoFlush THEN TryFlush(on, t, sends) ELSE on
  BY DEF SetOnline
<1> HIDE DEF r, s, d
<1>4. /\ CoordinatorOK(on) /\ on.agent = c.agent /\ on.flushing = c.flushing
      /\ on.queue = c.queue /\ on.fate = r.fate /\ on.told = c.told
  BY <1>1 DEF CoordinatorOK, SameTurns
<1> HIDE DEF on
<1>5. FrontServed(on) /\ Holds(c, on)
  BY <1>1, <1>4 DEF FrontServed, Holds, Has
<1>6. CoordinatorOK(s) /\ FrontServed(s) /\ Holds(c, s) /\ s.told = c.told
  <2>1. CASE s = on
    BY <1>4, <1>5, <2>1
  <2>2. CASE s = TryFlush(on, t, sends)
    <3>1. CoordinatorOK(s) /\ s.told = on.told /\ FrontServed(s) /\ Holds(on, s)
      BY <1>4, <1>5, <2>2, TryFlushFacts, TryFlushSends
    <3> QED BY <1>4, <1>5, <3>1, HoldsComposes
  <2> QED BY <1>3, <2>1, <2>2
<1>7. /\ d.flushing = s.flushing /\ d.agent = s.agent /\ d.queue = s.queue
      /\ d.fate = s.fate /\ d.told = [c.told EXCEPT ![m] = "replied"]
  BY <1>2, <1>6 DEF CoordinatorOK
<1>8. \A n \in Msgs : d.told[n] = "queued" => c.told[n] = "queued"
  BY <1>7 DEF CoordinatorOK
<1>9. FrontServed(d) /\ (Kept(c) => Kept(d))
  BY <1>6, <1>7, <1>8 DEF FrontServed, Kept, Holds, Has
<1> QED BY <1>9 DEF d

-----------------------------------------------------------------------------
(* The steps.  Alone is OneTurnAtATime, as long as cancel() has not been   *)
(* called.                                                                 *)

Delivers(c, d) ==
  /\ FrontServed(d)
  /\ Alone(c) /\ Kept(c) /\ Backed(c) => Kept(d) /\ Backed(d)

LEMMA AdvancesBacked ==
  ASSUME NEW c, NEW d, NEW t, Advances(c, d, t), Backed(c)
  PROVE  Backed(d)
BY DEF Advances, SameTurns, Starts, Backed, ServesIn, InFlight

LEMMA FlushDelivers ==
  ASSUME NEW c, Good(c), FrontServed(c), NEW f \in FlushCalls,
         NEW t \in Turns, NEW sends \in BOOLEAN, FreshIn(c.agent, t)
  PROVE  Delivers(c, TryFlush([c EXCEPT !.flushCtx = f, !.flushTold[f] = "waiting"], t, sends))
<1> DEFINE b == [c EXCEPT !.flushCtx = f, !.flushTold[f] = "waiting"]
           d == TryFlush(b, t, sends)
<1>1. /\ CoordinatorOK(b) /\ b.agent = c.agent /\ b.told = c.told
      /\ b.flushing = c.flushing /\ b.queue = c.queue /\ b.fate = c.fate
  BY DEF Good, CoordinatorOK
<1> HIDE DEF b
<1>2. FrontServed(b) /\ (Backed(c) => Backed(b)) /\ (Kept(c) => Kept(b))
  BY <1>1 DEF FrontServed, Backed, Kept, Has
<1>3. /\ Advances(b, d, t) /\ d.told = b.told
      /\ FrontServed(d) /\ Holds(b, d)
  BY <1>1, <1>2, TryFlushFacts, TryFlushSends
<1> HIDE DEF d
<1>4. Delivers(c, d)
  BY <1>2, <1>3, AdvancesBacked, HoldsKeeps DEF Delivers
<1> QED BY <1>4 DEF b, d

LEMMA ReportDelivers ==
  ASSUME ~ AutoFlush, NEW c, Good(c), FrontServed(c), NEW online \in BOOLEAN,
         NEW t \in Turns, NEW sends \in BOOLEAN
  PROVE  Delivers(c, SetOnline(c, online, t, sends))
<1> DEFINE d == SetOnline(c, online, t, sends)
<1>1. /\ d.agent = c.agent /\ d.flushing = c.flushing
      /\ d.queue = c.queue /\ d.fate = c.fate /\ d.told = c.told
  BY SetOnlineOnly DEF Good
<1> HIDE DEF d
<1>2. Delivers(c, d)
  BY <1>1 DEF Delivers, FrontServed, Backed, Kept, Has
<1> QED BY <1>2 DEF d

LEMMA SubmitDelivers ==
  ASSUME NEW c, Good(c), FrontServed(c), NEW m \in Msgs,
         NEW t \in Turns, NEW sends \in BOOLEAN, FreshIn(c.agent, t)
  PROVE  Delivers(c, SubmitUserMessage(c, m, t, sends))
<1> DEFINE done == [by |-> "direct", text |-> m]
           out == AgentSubmit(c.agent, m, done, t, sends)
           b == [c EXCEPT !.agent = out.agent, !.told[m] = "waiting"]
           d == SubmitUserMessage(c, m, t, sends)
<1>1. CoordinatorOK(c) /\ done \in DoneCallbacks /\ AgentOK(c.agent)
  BY DEF Good, DoneCallbacks, CoordinatorOK
<1>2. d = IF ~ IsOnline(c) \/ c.flushing THEN QueueOrRefuse(c, m)
          ELSE TurnDone(b, done, out.result, t, sends)
  BY DEF SubmitUserMessage
<1>3. /\ done.by = "direct" /\ done.text = m
      /\ \A n \in Msgs : done # [by |-> "flush", text |-> n]
  <2>1. \A n \in Msgs : done.by # [by |-> "flush", text |-> n].by
    OBVIOUS
  <2> QED BY <2>1
<1> HIDE DEF out, d, done
<1>4. /\ AgentOK(out.agent)
      /\ out.result = Pending =>
           out.agent.ctx = [c.agent.ctx EXCEPT ![t] = [done |-> done, round |-> 0]]
      /\ out.result # Pending =>
           /\ out.result # "ok"
           /\ out.agent.active = c.agent.active
           /\ out.agent.ctx = c.agent.ctx
  BY <1>1, AgentSubmitFacts DEF out
<1>5. /\ CoordinatorOK(b) /\ b.agent = out.agent /\ b.told = [c.told EXCEPT ![m] = "waiting"]
      /\ b.flushing = c.flushing /\ b.queue = c.queue /\ b.fate = c.fate
  BY <1>1, <1>4 DEF CoordinatorOK
<1> HIDE DEF b
<1>6. Kept(c) => Kept(b)
  <2>1. \A n \in Msgs : b.told[n] = "queued" => c.told[n] = "queued"
    BY <1>1, <1>5 DEF CoordinatorOK
  <2> QED BY <1>5, <2>1 DEF Kept, Has
<1>7. CASE ~ IsOnline(c) \/ c.flushing
  <2>1. d = QueueOrRefuse(c, m)
    BY <1>2, <1>7
  <2>2. SameTurns(c, d) /\ SameFront(c, d) /\ (Kept(c) => Kept(d))
    BY <1>1, <2>1, QueueOrRefuseFacts, QueueOrRefuseKeeps
  <2>3. Advances(c, d, t)
    BY <2>2 DEF Advances
  <2>4. Delivers(c, d)
    BY <2>2, <2>3, SameFrontServed, AdvancesBacked DEF Delivers
  <2> QED BY <2>4 DEF d
<1>8. CASE ~ (~ IsOnline(c) \/ c.flushing) /\ out.result = Pending
  <2>1. d = b
    BY <1>2, <1>8 DEF TurnDone
  <2> DEFINE new == [done |-> done, round |-> 0]
  <2>2. new.done = done
    OBVIOUS
  <2> HIDE DEF new
  <2>3. /\ b.agent.ctx[t] = new
        /\ \A u \in Turns : u # t => b.agent.ctx[u] = c.agent.ctx[u]
    BY <1>1, <1>4, <1>5, <1>8 DEF AgentOK, new
  <2>4. Backed(c) => Backed(b)
    BY <1>3, <1>5, <2>2, <2>3 DEF Backed, ServesIn, InFlight
  <2>5. Delivers(c, b)
    BY <1>5, <1>6, <1>8, <2>4 DEF Delivers, FrontServed
  <2> QED BY <2>1, <2>5 DEF d
<1>9. CASE ~ (~ IsOnline(c) \/ c.flushing) /\ out.result # Pending
  <2>1. d = DirectDone(b, m, out.result, t, sends)
    BY <1>2, <1>3, <1>9 DEF TurnDone
  <2>2. SameTurns(c, b)
    BY <1>4, <1>5, <1>9 DEF SameTurns
  <2>3. SameTurns(b, d) /\ (Kept(b) => Kept(d))
    BY <1>4, <1>5, <1>9, <2>1, DirectDoneKeeps
  <2>4. SameTurns(c, d)
    BY <2>2, <2>3 DEF SameTurns
  <2>5. (Backed(c) => Backed(d)) /\ ~ d.flushing
    BY <1>9, <2>4, AdvancesBacked DEF Advances, SameTurns
  <2>6. Delivers(c, d)
    BY <1>6, <2>3, <2>5 DEF Delivers, FrontServed
  <2> QED BY <2>6 DEF d
<1> QED BY <1>7, <1>8, <1>9

(* The turn that ends is the one that serves the front: no other is in     *)
(* flight, and a flush turn is in flight only while flushing_ is set.      *)
LEMMA EndedFront ==
  ASSUME NEW c, Alone(c), Backed(c), FrontServed(c), NEW t \in Turns, NEW m \in Msgs,
         ServesIn(c.agent, t, "flush", m)
  PROVE  c.queue # << >> /\ Head(c.queue).text = m
<1>1. c.flushing
  BY DEF Backed
<1>2. c.queue # << >>
  BY <1>1 DEF FrontServed
<1>3. PICK u \in Turns : ServesIn(c.agent, u, "flush", Head(c.queue).text)
  BY <1>1 DEF FrontServed
<1>4. u = t
  BY <1>3 DEF Alone, ServesIn
<1>5. [by |-> "flush", text |-> m] = [by |-> "flush", text |-> Head(c.queue).text]
  BY <1>3, <1>4 DEF ServesIn
<1>6. [by |-> "flush", text |-> m].text = [by |-> "flush", text |-> Head(c.queue).text].text
  BY <1>5
<1> QED BY <1>2, <1>6

LEMMA CompleteDelivers ==
  ASSUME NEW c, Undisturbed(c), Good(c), FrontServed(c), NEW t \in Turns, InFlight(c.agent, t),
         NEW r \in Responses, NEW sends \in BOOLEAN
  PROVE  LET out == Respond(c.agent, t, r, sends)
         IN  Delivers(c, TurnDone([c EXCEPT !.agent = out.agent],
                                  c.agent.ctx[t].done, out.result, t, sends))
<1> DEFINE done == c.agent.ctx[t].done
           m == done.text
           out == Respond(c.agent, t, r, sends)
           b == [c EXCEPT !.agent = out.agent]
           d == TurnDone(b, done, out.result, t, sends)
<1>1. CoordinatorOK(c) /\ AgentOK(c.agent)
  BY DEF Good, CoordinatorOK
<1>2. m \in Msgs /\ done.by \in {"direct", "flush"} /\ done = [by |-> done.by, text |-> m]
  BY <1>1 DEF AgentOK, InFlight, TurnContext, DoneCallbacks
<1>3. /\ AgentOK(out.agent)
      /\ out.result = Pending =>
           \A u \in Turns : /\ InFlight(out.agent, u) <=> InFlight(c.agent, u)
                            /\ out.agent.ctx[u].done = c.agent.ctx[u].done
      /\ out.result # Pending =>
           /\ out.agent.active = NoTurn
           /\ out.agent.ctx = [c.agent.ctx EXCEPT ![t] = NoCtx]
  BY <1>1, RespondFacts
<1> HIDE DEF out
<1>4. /\ CoordinatorOK(b) /\ b.agent = out.agent /\ b.told = c.told
      /\ b.flushing = c.flushing /\ b.queue = c.queue /\ b.fate = c.fate
      /\ b.monitor = c.monitor
  BY <1>1, <1>3 DEF CoordinatorOK
<1> HIDE DEF b, d, m, done
<1>5. Kept(c) => Kept(b)
  BY <1>4 DEF Kept, Has
<1>6. CASE out.result = Pending
  <2>1. d = b
    BY <1>6 DEF TurnDone, d
  <2>2. \A u \in Turns : \A n, by : ServesIn(b.agent, u, by, n) <=> ServesIn(c.agent, u, by, n)
    BY <1>3, <1>4, <1>6 DEF ServesIn
  <2>3. FrontServed(b) /\ (Backed(c) => Backed(b))
    BY <1>4, <2>2 DEF FrontServed, Backed
  <2>4. Delivers(c, d)
    BY <1>5, <2>1, <2>3 DEF Delivers
  <2> QED BY <2>4 DEF d, b, out, done
<1>7. ASSUME out.result # Pending
      PROVE  /\ FreshIn(b.agent, t)
             /\ ~ InFlight(b.agent, t)
             /\ \A u \in Turns : u # t => b.agent.ctx[u] = c.agent.ctx[u]
  BY <1>1, <1>3, <1>4, <1>7 DEF AgentOK, FreshIn, InFlight
<1>8. CASE out.result # Pending /\ done.by = "flush"
  <2> DEFINE idle == [b EXCEPT !.flushing = FALSE]
  <2>1. idle.agent = b.agent /\ ~ idle.flushing
    BY <1>4 DEF CoordinatorOK
  <2>2. d = FinishFlushItem(b, m, out.result, t, sends)
    BY <1>8 DEF TurnDone, d, m
  <2>5. ServesIn(c.agent, t, "flush", m)
    BY <1>2, <1>8 DEF ServesIn, done
  <2>8. ~ AutoFlush \/ b.monitor = "online"
    BY <1>2, <1>4, <2>5 DEF Undisturbed, Backed, Steady
  <2>3. /\ FrontServed(d)
        /\ (b.queue # << >> => Head(b.queue).text = m) => Holds(b, d)
    BY <1>2, <1>4, <1>7, <1>8, <2>2, <2>8, FinishFlushItemSends
  <2>4. Advances(idle, d, t) /\ d.told = b.told
    BY <1>2, <1>4, <1>7, <1>8, <2>2, FinishFlushItemFacts
  <2> HIDE DEF idle
  <2>6. ASSUME Alone(c), Kept(c), Backed(c)
        PROVE  Kept(d) /\ Backed(d)
    <3>1. Holds(b, d)
      BY <1>2, <1>4, <2>3, <2>5, <2>6, EndedFront
    <3>2. \A u \in Turns : ~ InFlight(idle.agent, u)
      BY <1>7, <1>8, <2>1, <2>6 DEF Alone, InFlight
    <3>3. Backed(idle)
      BY <3>2 DEF Backed, ServesIn
    <3> QED BY <1>5, <2>4, <2>6, <3>1, <3>3, AdvancesBacked, HoldsKeeps
  <2>7. Delivers(c, d)
    BY <2>3, <2>6 DEF Delivers
  <2> QED BY <2>7 DEF d, b, out, done
<1>9. CASE out.result # Pending /\ done.by = "direct"
  <2>1. d = DirectDone(b, m, out.result, t, sends)
    BY <1>9 DEF TurnDone, d, m
  <2>2. Advances(b, d, t)
    BY <1>2, <1>4, <1>7, <1>9, <2>1, DirectDoneFacts
  <2>3. \A n : ~ ServesIn(c.agent, t, "flush", n)
    <3>1. \A n : done # [by |-> "flush", text |-> n]
      <4>1. \A n : done.by # [by |-> "flush", text |-> n].by
        BY <1>9
      <4> QED BY <4>1
    <3> QED BY <3>1 DEF ServesIn, done
  <2>4. \A u \in Turns : \A n :
           ServesIn(b.agent, u, "flush", n) <=> ServesIn(c.agent, u, "flush", n)
    BY <1>7, <1>9, <2>3 DEF ServesIn, InFlight
  <2>5. FrontServed(b) /\ (Backed(c) => Backed(b))
    BY <1>4, <2>4 DEF FrontServed, Backed
  <2>6. FrontServed(d) /\ (Kept(b) => Kept(d))
    <3>1. CASE out.result = "ok"
      BY <1>2, <1>4, <1>7, <1>9, <2>1, <2>5, <3>1, DirectOkKeeps
    <3>2. CASE out.result # "ok"
      BY <1>2, <1>4, <2>1, <2>5, <3>2, DirectDoneKeeps, SameFrontServed
    <3> QED BY <3>1, <3>2
  <2>7. Delivers(c, d)
    BY <1>5, <2>2, <2>5, <2>6, AdvancesBacked DEF Delivers
  <2> QED BY <2>7 DEF d, b, out, done
<1> QED BY <1>2, <1>6, <1>8, <1>9

-----------------------------------------------------------------------------
(* The theorems                                                            *)

(* What is queued is safe because the item that is removed is the one that *)
(* was answered, and that is so because the front is the item in flight    *)
(* and no other turn is.  Hence the invariant of EaQueueCoordinatorProofs  *)
(* is part of this one.                                                    *)
DeliveryInv ==
  /\ IInv
  /\ ~ AutoFlush => FrontServed(This)
  /\ ~ AutoFlush /\ cancels = 0 => Kept(This) /\ Backed(This)

LEMMA BecomeDelivers ==
  ASSUME NEW d, Become(d)
  PROVE  /\ FrontServed(d) => FrontServed(This)'
         /\ Kept(d) => Kept(This)'
         /\ Backed(d) => Backed(This)'
<1>1. /\ This'.queue = d.queue /\ This'.flushing = d.flushing
      /\ This'.agent = d.agent /\ This'.told = d.told /\ This'.fate = d.fate
  BY DEF Become, This
<1> QED BY <1>1 DEF FrontServed, Kept, Has, Backed

LEMMA InitiallyDelivers == Init => DeliveryInv
<1> SUFFICES ASSUME Init PROVE DeliveryInv
  OBVIOUS
<1>1. FrontServed(This)
  BY DEF Init, This, FrontServed
<1>2. Kept(This)
  BY DEF Init, This, Kept, Has
<1>3. Backed(This)
  BY DEF Init, NewAgent, This, Backed, ServesIn, InFlight
<1> QED BY <1>1, <1>2, <1>3, Initially DEF DeliveryInv

LEMMA InductiveDelivers == DeliveryInv /\ [Next]_vars => DeliveryInv'
<1> SUFFICES ASSUME DeliveryInv, [Next]_vars PROVE DeliveryInv'
  OBVIOUS
<1>1. IInv' /\ Good(This)
  BY Inductive DEF DeliveryInv, IInv
<1>2. CASE AutoFlush
  BY <1>1, <1>2 DEF DeliveryInv
<1>3. CASE ~ AutoFlush
  <2>1. /\ FrontServed(This)
        /\ cancels = 0 => Alone(This) /\ Kept(This) /\ Backed(This)
    BY <1>3 DEF DeliveryInv, IInv
  <2>2. This.agent = agent
    BY DEF This
  <2>3. ASSUME NEW d, Become(d), Delivers(This, d), UNCHANGED cancels
        PROVE  DeliveryInv'
    BY <1>1, <2>1, <2>3, BecomeDelivers DEF Delivers, DeliveryInv
  <2>4. ASSUME NEW m \in Msgs, Submit(m)
        PROVE  DeliveryInv'
    <3>1. PICK t \in Turns, sends \in Sends :
             Fresh(t) /\ Become(SubmitUserMessage(This, m, t, sends))
      BY <2>4 DEF Submit
    <3>2. sends \in BOOLEAN /\ FreshIn(This.agent, t)
      BY <2>2, <3>1, CoordinatorConstants DEF Fresh, FreshIn
    <3>3. Delivers(This, SubmitUserMessage(This, m, t, sends))
      BY <1>1, <1>3, <2>1, <3>2, SubmitDelivers
    <3> QED BY <2>3, <2>4, <3>1, <3>3 DEF Submit
  <2>5. ASSUME NEW f \in FlushCalls, Flush(f)
        PROVE  DeliveryInv'
    <3> DEFINE b == [This EXCEPT !.flushCtx = f, !.flushTold[f] = "waiting"]
    <3>1. PICK t \in Turns, sends \in Sends : Fresh(t) /\ Become(TryFlush(b, t, sends))
      BY <2>5 DEF Flush
    <3>2. sends \in BOOLEAN /\ FreshIn(This.agent, t)
      BY <2>2, <3>1, CoordinatorConstants DEF Fresh, FreshIn
    <3>3. Delivers(This, TryFlush(b, t, sends))
      BY <1>1, <2>1, <3>2, FlushDelivers
    <3> HIDE DEF b
    <3> QED BY <2>3, <2>5, <3>1, <3>3 DEF Flush
  <2>6. ASSUME NEW t \in Turns, Complete(t)
        PROVE  DeliveryInv'
    <3> DEFINE d(r, sends) ==
          LET out == Respond(agent, t, r, sends)
          IN  TurnDone([This EXCEPT !.agent = out.agent],
                       agent.ctx[t].done, out.result, t, sends)
    <3>1. PICK r \in Responses, sends \in Sends : Become(d(r, sends))
      BY <2>6 DEF Complete
    <3>2. sends \in BOOLEAN /\ InFlight(This.agent, t)
      BY <2>2, <2>6, CoordinatorConstants DEF Complete
    <3>4. Undisturbed(This)
      BY <1>3 DEF Undisturbed
    <3>3. Delivers(This, d(r, sends))
      BY <1>1, <2>1, <2>2, <3>2, <3>4, CompleteDelivers
    <3> HIDE DEF d
    <3> QED BY <2>3, <2>6, <3>1, <3>3 DEF Complete
  <2>7. ASSUME NEW online \in Reports, Report(online)
        PROVE  DeliveryInv'
    <3>1. PICK t \in Turns, sends \in Sends : Become(SetOnline(This, online, t, sends))
      BY <2>7 DEF Report
    <3>2. sends \in BOOLEAN /\ online \in BOOLEAN
      BY CoordinatorConstants
    <3>3. Delivers(This, SetOnline(This, online, t, sends))
      BY <1>1, <1>3, <2>1, <3>2, ReportDelivers
    <3> QED BY <2>3, <2>7, <3>1, <3>3 DEF Report
  <2>8. ASSUME Cancel
        PROVE  DeliveryInv'
    <3>1. flushing' = FALSE /\ cancels' # 0
      BY <2>8 DEF DeliveryInv, IInv, Cancel, Become, This
    <3>2. FrontServed(This)'
      BY <3>1 DEF FrontServed, This
    <3> QED BY <1>1, <3>1, <3>2 DEF DeliveryInv
  <2>9. ASSUME UNCHANGED vars
        PROVE  DeliveryInv'
    <3>1. This' = This /\ cancels' = cancels
      BY <2>9 DEF vars, This
    <3> QED BY <1>1, <3>1 DEF DeliveryInv
  <2> QED BY <2>4, <2>5, <2>6, <2>7, <2>8, <2>9 DEF Next
<1> QED BY <1>2, <1>3

LEMMA AlwaysDelivers == Spec => []DeliveryInv
BY InitiallyDelivers, InductiveDelivers, PTL DEF Spec

(* Without autoFlushOnOnline, removeFront and updateFrontAttempt, which    *)
(* name no item, always hit the item that was sent: cancel() or not, for   *)
(* any queue, any number of turns and any answers.                         *)
THEOREM FrontSent == Spec => [](AutoFlush \/ FrontIsInFlight)
<1>1. DeliveryInv => AutoFlush \/ FrontIsInFlight
  BY DEF DeliveryInv, FrontServed, This, FrontIsInFlight, Serves
<1> QED BY <1>1, AlwaysDelivers, PTL

(* Without autoFlushOnOnline, and as long as cancel() is not called, what  *)
(* a caller was told is queued stays in the queue until it is settled:     *)
(* finishFlushItem removes no other message than the one that was          *)
(* answered.                                                               *)
THEOREM NoneLost == Spec => [](AutoFlush \/ NothingLost)
<1>1. DeliveryInv => AutoFlush \/ NothingLost
  BY DEF DeliveryInv, Kept, Has, This, NothingLost
<1> QED BY <1>1, AlwaysDelivers, PTL

-----------------------------------------------------------------------------
(* The order of delivery.                                                  *)

(* Message m was neither accepted nor refused yet. *)
New(c, m) == c.told[m] \in {"none", "waiting"}

(* What the queue holds is there once. *)
Distinct(c) == \A i, j \in DOMAIN c.queue : c.queue[i].text = c.queue[j].text => i = j

(* It is not new either, and what is new is not settled. *)
Tracked(c) ==
  /\ Distinct(c)
  /\ \A m \in Msgs : New(c, m) => m \notin Texts(c.queue) /\ c.fate[m] = {}

(* Without restarts, what the queue holds is not settled, and was accepted. *)
Orderly(c) ==
  /\ Tracked(c)
  /\ \A m \in Msgs : m \in Texts(c.queue) => c.fate[m] = {} /\ c.told[m] = "queued"

(* Between c and d the n oldest messages of the queue are settled. *)
SettlesFirst(c, d, n) ==
  /\ n \in 0 .. Len(c.queue)
  /\ Len(d.queue) = Len(c.queue) - n
  /\ \A i \in 1 .. Len(d.queue) : d.queue[i].text = c.queue[n + i].text
  /\ d.told = c.told
  /\ \A m \in Msgs : IF \E i \in 1 .. n : c.queue[i].text = m
                     THEN \E how \in Delivery!Outcomes : d.fate[m] = c.fate[m] \cup {how}
                     ELSE d.fate[m] = c.fate[m]

LEMMA QueueFacts ==
  ASSUME NEW c, CoordinatorOK(c)
  PROVE  /\ Len(c.queue) \in Nat
         /\ DOMAIN c.queue = 1 .. Len(c.queue)
         /\ c.queue = << >> <=> Len(c.queue) = 0
         /\ \A i \in 1 .. Len(c.queue) : c.queue[i] \in Items /\ c.queue[i].text \in Msgs
         /\ \A m : m \in Texts(c.queue) <=> \E i \in 1 .. Len(c.queue) : c.queue[i].text = m
<1>1. c.queue \in Seq(Items)
  BY DEF CoordinatorOK
<1>2. Len(c.queue) \in Nat /\ DOMAIN c.queue = 1 .. Len(c.queue)
  BY <1>1, LenProperties
<1>3. \A i \in 1 .. Len(c.queue) : c.queue[i] \in Items /\ c.queue[i].text \in Msgs
  <2>1. \A i \in 1 .. Len(c.queue) : c.queue[i] \in Items
    BY <1>1, ElementOfSeq
  <2> QED BY <2>1 DEF Items
<1>4. \A m : m \in Texts(c.queue) <=> \E i \in 1 .. Len(c.queue) : c.queue[i].text = m
  BY <1>2 DEF Texts
<1>5. c.queue = << >> <=> Len(c.queue) = 0
  BY <1>1, <1>2, EmptySeq
<1> QED BY <1>2, <1>3, <1>4, <1>5

(* Settling the oldest leaves the others as they were. *)
LEMMA SettlesFirstTracked ==
  ASSUME NEW c, CoordinatorOK(c), NEW d, CoordinatorOK(d), NEW n,
         SettlesFirst(c, d, n), Tracked(c)
  PROVE  /\ Tracked(d)
         /\ \A m \in Msgs : m \in Texts(d.queue) =>
               m \in Texts(c.queue) /\ d.fate[m] = c.fate[m] /\ d.told[m] = c.told[m]
<1>1. /\ Len(c.queue) \in Nat /\ DOMAIN c.queue = 1 .. Len(c.queue)
      /\ Len(d.queue) \in Nat /\ DOMAIN d.queue = 1 .. Len(d.queue)
      /\ n \in 0 .. Len(c.queue) /\ Len(d.queue) = Len(c.queue) - n
      /\ \A i \in 1 .. Len(d.queue) : d.queue[i].text = c.queue[n + i].text
      /\ \A m : m \in Texts(c.queue) <=> \E i \in 1 .. Len(c.queue) : c.queue[i].text = m
      /\ \A m : m \in Texts(d.queue) <=> \E i \in 1 .. Len(d.queue) : d.queue[i].text = m
      /\ d.told = c.told
  <2>1. /\ Len(c.queue) \in Nat /\ DOMAIN c.queue = 1 .. Len(c.queue)
        /\ \A m : m \in Texts(c.queue) <=> \E i \in 1 .. Len(c.queue) : c.queue[i].text = m
    BY QueueFacts
  <2>2. /\ Len(d.queue) \in Nat /\ DOMAIN d.queue = 1 .. Len(d.queue)
        /\ \A m : m \in Texts(d.queue) <=> \E i \in 1 .. Len(d.queue) : d.queue[i].text = m
    BY QueueFacts
  <2>3. /\ n \in 0 .. Len(c.queue) /\ Len(d.queue) = Len(c.queue) - n
        /\ \A i \in 1 .. Len(d.queue) : d.queue[i].text = c.queue[n + i].text
        /\ d.told = c.told
    BY DEF SettlesFirst
  <2> QED BY <2>1, <2>2, <2>3
<1>2. \A i \in 1 .. Len(d.queue) : n + i \in 1 .. Len(c.queue) /\ n + i > n
  BY <1>1
<1>6. \A i, j \in 1 .. Len(c.queue) : c.queue[i].text = c.queue[j].text => i = j
  BY <1>1 DEF Tracked, Distinct
<1>3. ASSUME NEW i \in DOMAIN d.queue, NEW j \in DOMAIN d.queue,
             d.queue[i].text = d.queue[j].text
      PROVE  i = j
  <2>1. c.queue[n + i].text = c.queue[n + j].text
    BY <1>1, <1>3
  <2>2. n + i = n + j
    BY <1>1, <1>2, <1>6, <2>1
  <2> QED BY <1>1, <2>2
<1>4. ASSUME NEW m \in Msgs, m \in Texts(d.queue)
      PROVE  m \in Texts(c.queue) /\ d.fate[m] = c.fate[m] /\ d.told[m] = c.told[m]
  <2>1. PICK i \in 1 .. Len(d.queue) : c.queue[n + i].text = m
    <3>1. PICK i \in 1 .. Len(d.queue) : d.queue[i].text = m
      BY <1>1, <1>4
    <3>2. c.queue[n + i].text = m
      BY <1>1, <3>1
    <3> QED BY <3>2
  <2>2. m \in Texts(c.queue)
    BY <1>1, <1>2, <2>1
  <2>3. ~ \E k \in 1 .. n : c.queue[k].text = m
    <3> SUFFICES ASSUME NEW k \in 1 .. n, c.queue[k].text = m PROVE FALSE
      OBVIOUS
    <3>1. k \in 1 .. Len(c.queue) /\ n + i \in 1 .. Len(c.queue) /\ k # n + i
      BY <1>1, <1>2
    <3> QED BY <1>6, <2>1, <3>1
  <2> QED BY <1>1, <2>2, <2>3 DEF SettlesFirst
<1>5. ASSUME NEW m \in Msgs, New(d, m)
      PROVE  m \notin Texts(d.queue) /\ d.fate[m] = {}
  <2>1. c.fate[m] = {} /\ m \notin Texts(c.queue)
    BY <1>1, <1>5 DEF Tracked, Distinct, New
  <2>2. ~ \E k \in 1 .. n : c.queue[k].text = m
    BY <1>1, <2>1
  <2> QED BY <1>4, <2>1, <2>2 DEF SettlesFirst
<1> QED BY <1>3, <1>4, <1>5 DEF Tracked, Distinct

LEMMA SettlesFirstOrderly ==
  ASSUME NEW c, CoordinatorOK(c), NEW d, CoordinatorOK(d), NEW n,
         SettlesFirst(c, d, n), Orderly(c)
  PROVE  Orderly(d)
BY SettlesFirstTracked DEF Orderly

LEMMA SettlesFirstComposes ==
  ASSUME NEW c, CoordinatorOK(c), Distinct(c), NEW d, CoordinatorOK(d), NEW e,
         NEW n, SettlesFirst(c, d, n), NEW k, SettlesFirst(d, e, k)
  PROVE  SettlesFirst(c, e, n + k)
<1>1. /\ Len(c.queue) \in Nat /\ DOMAIN c.queue = 1 .. Len(c.queue)
      /\ n \in 0 .. Len(c.queue) /\ Len(d.queue) = Len(c.queue) - n
      /\ k \in 0 .. Len(d.queue) /\ Len(e.queue) = Len(d.queue) - k
      /\ \A i \in 1 .. Len(d.queue) : d.queue[i].text = c.queue[n + i].text
      /\ \A i \in 1 .. Len(e.queue) : e.queue[i].text = d.queue[k + i].text
      /\ e.told = c.told
  BY QueueFacts DEF SettlesFirst
<1>2. /\ n + k \in 0 .. Len(c.queue) /\ Len(e.queue) = Len(c.queue) - (n + k)
      /\ \A i \in 1 .. Len(e.queue) : k + i \in 1 .. Len(d.queue) /\ n + (k + i) = (n + k) + i
  BY <1>1
<1>3. \A i \in 1 .. Len(e.queue) : e.queue[i].text = c.queue[(n + k) + i].text
  BY <1>1, <1>2
<1>4. ASSUME NEW m \in Msgs
      PROVE  IF \E i \in 1 .. n + k : c.queue[i].text = m
             THEN \E how \in Delivery!Outcomes : e.fate[m] = c.fate[m] \cup {how}
             ELSE e.fate[m] = c.fate[m]
  <2>1. CASE \E i \in 1 .. n : c.queue[i].text = m
    <3>1. PICK i \in 1 .. n : c.queue[i].text = m
      BY <2>1
    <3>2. ~ \E j \in 1 .. k : d.queue[j].text = m
      <4> SUFFICES ASSUME NEW j \in 1 .. k, d.queue[j].text = m PROVE FALSE
        OBVIOUS
      <4>1. j \in 1 .. Len(d.queue)
        BY <1>1
      <4>2. c.queue[n + j].text = m
        BY <1>1, <4>1
      <4>3. n + j \in 1 .. Len(c.queue) /\ i \in 1 .. Len(c.queue) /\ n + j # i
        BY <1>1
      <4>4. n + j \in DOMAIN c.queue /\ i \in DOMAIN c.queue
        BY <1>1, <4>3
      <4>5. c.queue[n + j].text = c.queue[i].text
        BY <3>1, <4>2
      <4> QED BY <4>3, <4>4, <4>5 DEF Distinct
    <3>3. \E how \in Delivery!Outcomes : d.fate[m] = c.fate[m] \cup {how}
      BY <2>1 DEF SettlesFirst
    <3>4. e.fate[m] = d.fate[m]
      BY <3>2 DEF SettlesFirst
    <3>5. \E j \in 1 .. n + k : c.queue[j].text = m
      <4>1. i \in 1 .. n + k
        BY <1>1
      <4> QED BY <3>1, <4>1
    <3> QED BY <3>3, <3>4, <3>5
  <2>2. CASE ~ \E i \in 1 .. n : c.queue[i].text = m
    <3>1. d.fate[m] = c.fate[m]
      BY <2>2 DEF SettlesFirst
    <3>2. (\E i \in 1 .. n + k : c.queue[i].text = m) <=> \E j \in 1 .. k : d.queue[j].text = m
      <4>1. ASSUME NEW j \in 1 .. k, d.queue[j].text = m
            PROVE  \E i \in 1 .. n + k : c.queue[i].text = m
        <5>1. j \in 1 .. Len(d.queue) /\ n + j \in 1 .. n + k
          BY <1>1
        <5>2. c.queue[n + j].text = m
          BY <1>1, <4>1, <5>1
        <5> QED BY <5>1, <5>2
      <4>2. ASSUME NEW i \in 1 .. n + k, c.queue[i].text = m
            PROVE  \E j \in 1 .. k : d.queue[j].text = m
        <5>1. i \notin 1 .. n
          BY <2>2, <4>2
        <5>2. i - n \in 1 .. k /\ n + (i - n) = i
          BY <1>1, <5>1
        <5>3. i - n \in 1 .. Len(d.queue)
          BY <1>1, <5>2
        <5>4. d.queue[i - n].text = m
          BY <1>1, <4>2, <5>2, <5>3
        <5> QED BY <5>2, <5>4
      <4> QED BY <4>1, <4>2
    <3> QED BY <3>1, <3>2 DEF SettlesFirst
  <2> QED BY <2>1, <2>2
<1> QED BY <1>1, <1>2, <1>3, <1>4 DEF SettlesFirst

(* Nothing is settled, and the queue holds the same. *)
LEMMA SettlesNone ==
  ASSUME NEW c, CoordinatorOK(c), NEW d, Len(d.queue) = Len(c.queue),
         \A i \in 1 .. Len(d.queue) : d.queue[i].text = c.queue[i].text,
         d.told = c.told, d.fate = c.fate
  PROVE  SettlesFirst(c, d, 0)
<1>1. Len(c.queue) \in Nat
  BY QueueFacts
<1>2. 0 \in 0 .. Len(c.queue) /\ Len(d.queue) = Len(c.queue) - 0
  BY <1>1
<1>3. \A i \in 1 .. Len(d.queue) : 0 + i = i
  BY <1>1
<1>4. ~ \E i \in 1 .. 0 : TRUE
  OBVIOUS
<1> QED BY <1>2, <1>3, <1>4 DEF SettlesFirst

LEMMA SettlesFirstFrom ==
  ASSUME NEW b, NEW c, b.queue = c.queue, b.told = c.told, b.fate = c.fate,
         NEW d, NEW n, SettlesFirst(b, d, n)
  PROVE  SettlesFirst(c, d, n)
BY DEF SettlesFirst

LEMMA DropExhaustedSettles ==
  ASSUME NEW c, CoordinatorOK(c)
  PROVE  \E n : SettlesFirst(c, DropExhausted(c), n)
<1> DEFINE n == Exhausted(c.queue)
           dropped == {c.queue[i].text : i \in 1 .. n}
           rest == SubSeq(c.queue, n + 1, Len(c.queue))
           ended == [m \in Msgs |-> IF m \in dropped THEN c.fate[m] \cup {"dropped"}
                                    ELSE c.fate[m]]
           d == DropExhausted(c)
<1>1. /\ c.queue \in Seq(Items) /\ Len(c.queue) \in Nat
      /\ \A i \in 1 .. Len(c.queue) : c.queue[i] \in Items
      /\ \A m : m \in Texts(c.queue) <=> \E i \in 1 .. Len(c.queue) : c.queue[i].text = m
  <2>1. c.queue \in Seq(Items)
    BY DEF CoordinatorOK
  <2> QED BY <2>1, QueueFacts
<1>2. n \in 0 .. Len(c.queue)
  BY <1>1, ExhaustedType
<1>3. d.queue = rest /\ d.fate = ended /\ d.told = c.told
  BY DEF DropExhausted, CoordinatorOK
<1> HIDE DEF d, n
<1>4. Len(rest) = Len(c.queue) - n /\ \A i \in 1 .. Len(rest) : rest[i] = c.queue[n + i]
  <2>1. \A i \in n + 1 .. Len(c.queue) : c.queue[i] \in Items
    BY <1>1, <1>2
  <2>2. /\ Len(rest) = IF n + 1 <= Len(c.queue) THEN Len(c.queue) - (n + 1) + 1 ELSE 0
        /\ \A i \in 1 .. Len(c.queue) - (n + 1) + 1 : rest[i] = c.queue[n + 1 + i - 1]
    BY <1>1, <1>2, <2>1, SubSeqProperties
  <2> HIDE DEF rest
  <2> QED BY <1>1, <1>2, <2>2
<1> HIDE DEF rest
<1>5. ASSUME NEW m \in Msgs
      PROVE  IF \E i \in 1 .. n : c.queue[i].text = m
             THEN \E how \in Delivery!Outcomes : ended[m] = c.fate[m] \cup {how}
             ELSE ended[m] = c.fate[m]
  <2>1. m \in dropped <=> \E i \in 1 .. n : c.queue[i].text = m
    OBVIOUS
  <2>2. m \in dropped => ended[m] = c.fate[m] \cup {"dropped"}
    OBVIOUS
  <2>3. "dropped" \in Delivery!Outcomes
    BY DEF Delivery!Outcomes
  <2> HIDE DEF dropped
  <2>4. m \notin dropped => ended[m] = c.fate[m]
    OBVIOUS
  <2> QED BY <2>1, <2>2, <2>3, <2>4
<1> HIDE DEF ended
<1>6. SettlesFirst(c, d, n)
  <2>1. Len(d.queue) = Len(c.queue) - n
        /\ \A i \in 1 .. Len(d.queue) : d.queue[i].text = c.queue[n + i].text
    BY <1>3, <1>4
  <2> QED BY <1>2, <1>3, <1>5, <2>1 DEF SettlesFirst
<1> QED BY <1>6 DEF d

(* The front is settled and removed. *)
LEMMA RemoveFrontSettles ==
  ASSUME NEW c, CoordinatorOK(c), c.queue # << >>,
         NEW how \in Delivery!Outcomes, NEW b, CoordinatorOK(b),
         b.queue = c.queue, b.told = c.told,
         b.fate = [c.fate EXCEPT ![Head(c.queue).text] = @ \cup {how}]
  PROVE  SettlesFirst(c, RemoveFront(b), 1)
<1> DEFINE d == RemoveFront(b)
           first == Head(c.queue).text
<1>1. /\ c.queue \in Seq(Items) /\ Len(c.queue) \in Nat
      /\ c.queue = << >> <=> Len(c.queue) = 0
      /\ DOMAIN c.queue = 1 .. Len(c.queue)
      /\ \A i \in 1 .. Len(c.queue) : c.queue[i].text \in Msgs
      /\ \A m : m \in Texts(c.queue) <=> \E i \in 1 .. Len(c.queue) : c.queue[i].text = m
  BY QueueFacts DEF CoordinatorOK
<1>2. d.queue = Tail(c.queue) /\ d.told = c.told /\ d.fate = b.fate
  BY DEF RemoveFront, CoordinatorOK
<1>3. first = c.queue[1].text /\ 1 \in 1 .. Len(c.queue)
  BY <1>1
<1>4. /\ Len(Tail(c.queue)) = Len(c.queue) - 1
      /\ \A i \in 1 .. Len(Tail(c.queue)) : Tail(c.queue)[i] = c.queue[i + 1]
  BY <1>1, HeadTailProperties
<1> HIDE DEF d, first
<1>5. /\ b.fate[first] = c.fate[first] \cup {how}
      /\ \A m \in Msgs : m # first => b.fate[m] = c.fate[m]
  <2>1. c.fate \in [Msgs -> SUBSET {"replied", "refused", "dropped"}]
    BY DEF CoordinatorOK
  <2>2. first \in Msgs
    BY <1>1, <1>3
  <2>3. b.fate = [c.fate EXCEPT ![first] = @ \cup {how}]
    BY DEF first
  <2> QED BY <2>1, <2>2, <2>3
<1>6. ASSUME NEW m \in Msgs
      PROVE  IF \E i \in 1 .. 1 : c.queue[i].text = m
             THEN \E x \in Delivery!Outcomes : d.fate[m] = c.fate[m] \cup {x}
             ELSE d.fate[m] = c.fate[m]
  <2>1. CASE m = first
    <3>1. d.fate[m] = c.fate[m] \cup {how}
      BY <1>2, <1>5, <2>1
    <3> QED BY <1>3, <2>1, <3>1
  <2>2. CASE m # first
    <3>1. d.fate[m] = c.fate[m]
      BY <1>2, <1>5, <2>2
    <3> QED BY <1>3, <2>2, <3>1
  <2> QED BY <2>1, <2>2
<1>7. \A i \in 1 .. Len(c.queue) : i + 1 = 1 + i
  OBVIOUS
<1>8. \A i \in 1 .. Len(d.queue) : d.queue[i].text = c.queue[1 + i].text
  BY <1>1, <1>2, <1>4, <1>7
<1>9. 1 \in 0 .. Len(c.queue) /\ Len(d.queue) = Len(c.queue) - 1
  BY <1>1, <1>2, <1>3, <1>4
<1> QED BY <1>2, <1>6, <1>8, <1>9 DEF SettlesFirst, d

LEMMA RetryLaterSettlesNone ==
  ASSUME NEW c, CoordinatorOK(c)
  PROVE  SettlesFirst(c, RetryLater(c), 0)
<1> DEFINE back == [GoOffline(c) EXCEPT !.agent = Rollback(@)]
           bumped == BumpFront(back)
           d == RetryLater(c)
<1>1. back.queue = c.queue /\ back.fate = c.fate /\ back.told = c.told
      /\ {"queue", "fate", "told", "flushCtx"} \subseteq DOMAIN back
  BY DEF CoordinatorOK, GoOffline
<1>2. /\ c.queue \in Seq(Items) /\ Len(c.queue) \in Nat
      /\ DOMAIN c.queue = 1 .. Len(c.queue)
      /\ c.queue = << >> <=> Len(c.queue) = 0
      /\ \A i \in 1 .. Len(c.queue) : c.queue[i] \in Items
  BY QueueFacts DEF CoordinatorOK
<1>3. d = AnswerFlush(bumped, "failed")
  BY DEF RetryLater
<1> HIDE DEF back
<1>4. /\ Len(bumped.queue) = Len(c.queue)
      /\ \A i \in 1 .. Len(c.queue) : bumped.queue[i].text = c.queue[i].text
      /\ bumped.fate = c.fate /\ bumped.told = c.told
      /\ {"queue", "fate", "told", "flushCtx"} \subseteq DOMAIN bumped
  <2>1. CASE back.queue = << >>
    BY <1>1, <2>1 DEF BumpFront
  <2>2. CASE back.queue # << >>
    <3> DEFINE item == [c.queue[1] EXCEPT !.attempts = @ + 1]
               q == [c.queue EXCEPT ![1] = item]
    <3>1. bumped = [back EXCEPT !.queue = [back.queue EXCEPT ![1] =
                                             [back.queue[1] EXCEPT !.attempts = @ + 1]]]
      BY <2>2 DEF BumpFront
    <3>2. bumped.queue = q /\ bumped.fate = c.fate /\ bumped.told = c.told
          /\ DOMAIN bumped = DOMAIN back
      BY <1>1, <3>1
    <3>3. 1 \in 1 .. Len(c.queue)
      BY <1>1, <1>2, <2>2
    <3>4. item \in Items /\ item.text = c.queue[1].text
      <4>1. c.queue[1] \in Items
        BY <1>2, <3>3
      <4> QED BY <4>1 DEF Items
    <3> HIDE DEF item, bumped
    <3>5. Len(q) = Len(c.queue)
          /\ \A i \in 1 .. Len(c.queue) : q[i] = IF i = 1 THEN item ELSE c.queue[i]
      BY <1>2, <3>3, <3>4, ExceptSeq
    <3> HIDE DEF q
    <3> QED BY <1>1, <3>2, <3>4, <3>5
  <2> QED BY <2>1, <2>2
<1> HIDE DEF bumped
<1>5. d.queue = bumped.queue /\ d.fate = bumped.fate /\ d.told = bumped.told
  BY <1>3, <1>4 DEF AnswerFlush
<1> HIDE DEF d
<1> QED BY <1>4, <1>5, SettlesNone DEF d

LEMMA SubmitFrontSettlesNone ==
  ASSUME NEW c, CoordinatorOK(c), ~ c.flushing, c.queue # << >>,
         NEW t \in Turns, NEW sends \in BOOLEAN, FreshIn(c.agent, t)
  PROVE  SettlesFirst(c, SubmitFront(c, t, sends), 0)
<1> DEFINE m == Head(c.queue).text
           done == [by |-> "flush", text |-> m]
           out == AgentSubmit(c.agent, m, done, t, sends)
           with(b) == [c EXCEPT !.agent = out.agent, !.flushing = b]
<1>1. m \in Msgs /\ done \in DoneCallbacks
  <2>1. Head(c.queue) \in Items
    BY HeadTailProperties DEF CoordinatorOK
  <2> QED BY <2>1 DEF Items, DoneCallbacks
<1>2. SubmitFront(c, t, sends) = IF out.result = Pending THEN with(TRUE)
                                 ELSE RetryLater(with(FALSE))
  BY DEF SubmitFront
<1> HIDE DEF m, out, done
<1>3. AgentOK(out.agent)
  BY <1>1, AgentSubmitFacts DEF out, CoordinatorOK
<1>4. ASSUME NEW b \in BOOLEAN
      PROVE  /\ CoordinatorOK(with(b))
             /\ with(b).told = c.told
             /\ with(b).queue = c.queue /\ with(b).fate = c.fate
  BY <1>3 DEF CoordinatorOK
<1> HIDE DEF with
<1>5. CASE out.result = Pending
  <2>1. SettlesFirst(c, with(TRUE), 0)
    BY <1>4, SettlesNone
  <2> QED BY <1>2, <1>5, <2>1
<1>6. CASE out.result # Pending
  <2>1. SettlesFirst(with(FALSE), RetryLater(with(FALSE)), 0)
    BY <1>4, RetryLaterSettlesNone
  <2>2. SettlesFirst(c, RetryLater(with(FALSE)), 0)
    BY <1>4, <2>1, SettlesFirstFrom
  <2> QED BY <1>2, <1>6, <2>2
<1> QED BY <1>5, <1>6

LEMMA TryFlushSettles ==
  ASSUME NEW c, CoordinatorOK(c), Distinct(c),
         NEW t \in Turns, NEW sends \in BOOLEAN, FreshIn(c.agent, t)
  PROVE  \E n : SettlesFirst(c, TryFlush(c, t, sends), n)
<1> DEFINE live == DropExhausted(c)
           d == TryFlush(c, t, sends)
<1>1. CoordinatorOK(live) /\ SameTurns(c, live) /\ live.agent = c.agent
  BY DropExhaustedFacts
<1>2. PICK n : SettlesFirst(c, live, n)
  BY DropExhaustedSettles
<1>3. CASE ~ IsOnline(c) \/ c.flushing
  <2>1. d = c
    BY <1>3 DEF TryFlush
  <2> QED BY <2>1, SettlesNone
<1>4. CASE IsOnline(c) /\ ~ c.flushing /\ live.queue = << >>
  <2>1. d = AnswerFlush(live, "ok")
    BY <1>4 DEF TryFlush
  <2> HIDE DEF live, d
  <2>2. d.queue = live.queue /\ d.fate = live.fate /\ d.told = live.told
    BY <1>1, <2>1 DEF AnswerFlush, CoordinatorOK
  <2>3. SettlesFirst(c, d, n)
    BY <1>2, <2>2 DEF SettlesFirst
  <2> QED BY <2>3 DEF d
<1>5. CASE IsOnline(c) /\ ~ c.flushing /\ live.queue # << >>
  <2>1. d = SubmitFront(live, t, sends)
    BY <1>5 DEF TryFlush
  <2> HIDE DEF live, d
  <2>2. ~ live.flushing /\ FreshIn(live.agent, t)
    BY <1>1, <1>5 DEF SameTurns
  <2>3. SettlesFirst(live, d, 0)
    BY <1>1, <1>5, <2>1, <2>2, SubmitFrontSettlesNone
  <2>4. SettlesFirst(c, d, n + 0)
    BY <1>1, <1>2, <2>3, SettlesFirstComposes
  <2> QED BY <2>4 DEF d
<1> QED BY <1>3, <1>4, <1>5

(* The coordinator once the item at the front was answered and removed *)
FrontGone(c, m, result, t, sends) ==
  LET idle == [c EXCEPT !.flushing = FALSE]
      done == IF result = "ok"
              THEN SetOnline(Settle(idle, m, "replied"), TRUE, t, sends)
              ELSE Settle(idle, m, "refused")
  IN  RemoveFront(done)

(* The item at the front is settled and removed. *)
LEMMA FrontSettled ==
  ASSUME NEW c, CoordinatorOK(c), Tracked(c), ~ AutoFlush \/ c.monitor = "online",
         NEW m \in Msgs, NEW result,
         NEW t \in Turns, NEW sends \in BOOLEAN,
         c.queue # << >>, Head(c.queue).text = m
  PROVE  LET rest == FrontGone(c, m, result, t, sends)
         IN  /\ CoordinatorOK(rest) /\ rest.agent = c.agent
             /\ SettlesFirst(c, rest, 1) /\ Tracked(rest)
<1> DEFINE idle == [c EXCEPT !.flushing = FALSE]
           how == IF result = "ok" THEN "replied" ELSE "refused"
           s == Settle(idle, m, how)
           done == IF result = "ok"
                   THEN SetOnline(Settle(idle, m, "replied"), TRUE, t, sends)
                   ELSE Settle(idle, m, "refused")
           rest == RemoveFront(done)
<1>1. /\ CoordinatorOK(idle) /\ idle.agent = c.agent /\ idle.told = c.told
      /\ idle.queue = c.queue /\ idle.fate = c.fate /\ idle.monitor = c.monitor
  BY DEF CoordinatorOK
<1> HIDE DEF idle
<1>2. how \in {"replied", "refused", "dropped"} /\ how \in Delivery!Outcomes
  BY DEF Delivery!Outcomes
<1>3. done = IF result = "ok" THEN SetOnline(s, TRUE, t, sends) ELSE s
  OBVIOUS
<1> HIDE DEF how, done
<1>4. /\ CoordinatorOK(s) /\ s.agent = c.agent /\ s.queue = c.queue /\ s.told = c.told
      /\ s.monitor = c.monitor
  <2>1. CoordinatorOK(idle) /\ how \in {"replied", "refused", "dropped"}
    BY <1>1, <1>2
  <2>2. /\ CoordinatorOK(s) /\ SameTurns(idle, s) /\ s.told = idle.told
        /\ s.agent = idle.agent
        /\ s.monitor = idle.monitor /\ s.queue = idle.queue /\ s.flushCtx = idle.flushCtx
    BY <2>1, SettleFacts, Zenon
  <2> HIDE DEF s
  <2> QED BY <1>1, <2>2
<1>5. s.fate = [c.fate EXCEPT ![m] = @ \cup {how}]
  BY <1>1 DEF Settle, CoordinatorOK
<1> HIDE DEF s
<1>6. /\ CoordinatorOK(done) /\ done.agent = c.agent
      /\ done.queue = c.queue /\ done.fate = s.fate /\ done.told = c.told
  <2>1. CASE result = "ok"
    <3>1. /\ CoordinatorOK(done) /\ done.agent = s.agent
          /\ done.queue = s.queue /\ done.fate = s.fate /\ done.told = s.told
      BY <1>3, <1>4, <2>1 DEF SetOnline, CoordinatorOK
    <3> QED BY <1>4, <3>1
  <2>2. CASE result # "ok"
    BY <1>3, <1>4, <2>2
  <2> QED BY <2>1, <2>2
<1>7. SettlesFirst(c, rest, 1)
  BY <1>2, <1>5, <1>6, RemoveFrontSettles
<1>8. CoordinatorOK(rest) /\ rest.agent = c.agent
  <2>1. rest.agent = done.agent
    BY <1>6 DEF RemoveFront, CoordinatorOK
  <2> QED BY <1>6, <2>1, RemoveFrontFacts
<1> HIDE DEF rest
<1>9. Tracked(rest)
  BY <1>7, <1>8, SettlesFirstTracked
<1>10. rest = FrontGone(c, m, result, t, sends)
  BY DEF FrontGone, rest, done, idle, s, how
<1> QED BY <1>7, <1>8, <1>9, <1>10

(* The item that was answered is settled, and with it those that tryFlush  *)
(* then drops.                                                             *)
LEMMA FinishFlushItemSettles ==
  ASSUME NEW c, CoordinatorOK(c), Tracked(c), ~ AutoFlush \/ c.monitor = "online",
         NEW m \in Msgs, NEW result,
         NEW t \in Turns, NEW sends \in BOOLEAN, FreshIn(c.agent, t),
         c.queue # << >>, Head(c.queue).text = m
  PROVE  \E n : SettlesFirst(c, FinishFlushItem(c, m, result, t, sends), n)
<1> DEFINE idle == [c EXCEPT !.flushing = FALSE]
           rest == FrontGone(c, m, result, t, sends)
           d == FinishFlushItem(c, m, result, t, sends)
<1>1. /\ CoordinatorOK(idle) /\ idle.agent = c.agent /\ idle.told = c.told
      /\ idle.queue = c.queue /\ idle.fate = c.fate
  BY DEF CoordinatorOK
<1>2. d = IF result # "ok" /\ IsQueueable(result) THEN RetryLater(idle)
          ELSE TryFlush(rest, t, sends)
  BY DEF FinishFlushItem, FrontGone
<1>3. /\ CoordinatorOK(rest) /\ rest.agent = c.agent
      /\ SettlesFirst(c, rest, 1) /\ Tracked(rest)
  BY FrontSettled
<1> HIDE DEF idle, rest, d
<1>4. CASE result # "ok" /\ IsQueueable(result)
  <2>1. SettlesFirst(idle, d, 0)
    BY <1>1, <1>2, <1>4, RetryLaterSettlesNone
  <2>2. SettlesFirst(c, d, 0)
    BY <1>1, <2>1, SettlesFirstFrom
  <2> QED BY <2>2 DEF d
<1>5. CASE ~ (result # "ok" /\ IsQueueable(result))
  <2>1. FreshIn(rest.agent, t)
    BY <1>3
  <2>2. PICK n : SettlesFirst(rest, d, n)
    BY <1>2, <1>3, <1>5, <2>1, TryFlushSettles DEF Tracked
  <2>3. SettlesFirst(c, d, 1 + n)
    BY <1>3, <2>2, SettlesFirstComposes DEF Tracked
  <2> QED BY <2>3 DEF d
<1> QED BY <1>4, <1>5

(* Message m, which is new, is dealt with: it is settled, it is refused or  *)
(* being sent, or it waits at the back of the queue.                       *)
Handles(c, d, m) ==
  \E x : /\ d.told = [c.told EXCEPT ![m] = x]
         /\ \/ /\ x \in {"replied", "failed"} /\ d.queue = c.queue
               /\ \E how \in Delivery!Outcomes : d.fate = [c.fate EXCEPT ![m] = {how}]
            \/ x \in {"failed", "waiting"} /\ d.queue = c.queue /\ d.fate = c.fate
            \/ x = "queued" /\ d.queue = Append(c.queue, Item(m)) /\ d.fate = c.fate

Moves(c, d) ==
  \/ \E n : SettlesFirst(c, d, n)
  \/ \E m \in Msgs : New(c, m) /\ Handles(c, d, m)

LEMMA AppendFacts ==
  ASSUME NEW c, CoordinatorOK(c), NEW m \in Msgs
  PROVE  LET q == Append(c.queue, Item(m))
         IN  /\ Len(q) = Len(c.queue) + 1
             /\ q[Len(q)].text = m
             /\ \A i \in 1 .. Len(c.queue) : q[i] = c.queue[i]
<1>1. c.queue \in Seq(Items) /\ Len(c.queue) \in Nat
  BY QueueFacts DEF CoordinatorOK
<1>2. Item(m) \in Items /\ Item(m).text = m
  BY DEF Item, Items
<1> QED BY <1>1, <1>2, AppendProperties

LEMMA HandlesTracked ==
  ASSUME NEW c, CoordinatorOK(c), NEW d, CoordinatorOK(d), NEW m \in Msgs,
         Tracked(c), New(c, m), Handles(c, d, m)
  PROVE  /\ Tracked(d)
         /\ \A k \in Msgs : k \in Texts(d.queue) =>
              \/ k \in Texts(c.queue) /\ d.fate[k] = c.fate[k] /\ d.told[k] = c.told[k]
              \/ d.fate[k] = {} /\ d.told[k] = "queued"
<1>1. PICK x : /\ d.told = [c.told EXCEPT ![m] = x]
               /\ \/ /\ x \in {"replied", "failed"} /\ d.queue = c.queue
                     /\ \E how \in Delivery!Outcomes : d.fate = [c.fate EXCEPT ![m] = {how}]
                  \/ x \in {"failed", "waiting"} /\ d.queue = c.queue /\ d.fate = c.fate
                  \/ /\ x = "queued" /\ d.queue = Append(c.queue, Item(m))
                     /\ d.fate = c.fate
  BY DEF Handles
<1>2. d.told[m] = x /\ \A k \in Msgs : k # m => d.told[k] = c.told[k]
  BY <1>1 DEF CoordinatorOK
<1>3. c.fate[m] = {} /\ m \notin Texts(c.queue)
  BY DEF Tracked, Distinct
<1>4. CASE d.queue = c.queue /\ x \in {"replied", "failed", "waiting"}
  <2>1. \A k \in Msgs : k # m => d.fate[k] = c.fate[k]
    BY <1>1, <1>4 DEF CoordinatorOK
  <2>2. x = "waiting" => d.fate = c.fate
    BY <1>1
  <2>3. \A k \in Msgs : k \in Texts(d.queue) => d.fate[k] = c.fate[k] /\ d.told[k] = c.told[k]
    BY <1>2, <1>3, <1>4, <2>1
  <2>4. \A k \in Msgs : New(d, k) => k \notin Texts(d.queue) /\ d.fate[k] = {}
    <3> SUFFICES ASSUME NEW k \in Msgs, New(d, k)
                 PROVE  k \notin Texts(d.queue) /\ d.fate[k] = {}
      OBVIOUS
    <3>1. CASE k = m
      BY <1>2, <1>3, <1>4, <2>2, <3>1 DEF New
    <3>2. CASE k # m
      BY <1>2, <1>4, <2>1, <3>2 DEF New, Tracked
    <3> QED BY <3>1, <3>2
  <2> QED BY <1>4, <2>3, <2>4 DEF Tracked, Distinct
<1>5. CASE x = "queued" /\ d.queue = Append(c.queue, Item(m)) /\ d.fate = c.fate
  <2>1. /\ Len(c.queue) \in Nat /\ DOMAIN c.queue = 1 .. Len(c.queue)
        /\ DOMAIN d.queue = 1 .. Len(d.queue)
        /\ \A k : k \in Texts(c.queue) <=> \E i \in 1 .. Len(c.queue) : c.queue[i].text = k
        /\ \A k : k \in Texts(d.queue) <=> \E i \in 1 .. Len(d.queue) : d.queue[i].text = k
    BY QueueFacts
  <2>2. /\ Len(d.queue) = Len(c.queue) + 1
        /\ d.queue[Len(d.queue)].text = m
        /\ \A i \in 1 .. Len(c.queue) : d.queue[i] = c.queue[i]
    BY <1>5, AppendFacts
  <2>3. \A i \in DOMAIN d.queue : i \in 1 .. Len(c.queue) \/ i = Len(d.queue)
    BY <2>1, <2>2
  <2>4. \A i, j \in 1 .. Len(c.queue) : c.queue[i].text = c.queue[j].text => i = j
    BY <2>1 DEF Tracked, Distinct
  <2>5. \A i \in 1 .. Len(c.queue) : c.queue[i].text # m
    BY <1>3, <2>1
  <2>6. \A i, j \in DOMAIN d.queue : d.queue[i].text = d.queue[j].text => i = j
    BY <2>2, <2>3, <2>4, <2>5
  <2>7. \A k \in Msgs : k \in Texts(d.queue) => k = m \/ k \in Texts(c.queue)
    BY <2>1, <2>2, <2>3
  <2>8. \A k \in Msgs : k \in Texts(d.queue) =>
          \/ k \in Texts(c.queue) /\ d.fate[k] = c.fate[k] /\ d.told[k] = c.told[k]
          \/ d.fate[k] = {} /\ d.told[k] = "queued"
    BY <1>2, <1>3, <1>5, <2>7
  <2>9. \A k \in Msgs : New(d, k) => k \notin Texts(d.queue) /\ d.fate[k] = {}
    BY <1>2, <1>5, <2>7 DEF Tracked, Distinct, New
  <2> QED BY <2>6, <2>8, <2>9 DEF Tracked, Distinct
<1> QED BY <1>1, <1>4, <1>5

LEMMA HandlesOrderly ==
  ASSUME NEW c, CoordinatorOK(c), NEW d, CoordinatorOK(d), NEW m \in Msgs,
         Orderly(c), New(c, m), Handles(c, d, m)
  PROVE  Orderly(d)
<1>1. Tracked(c)
  BY DEF Orderly
<1>2. /\ Tracked(d)
      /\ \A k \in Msgs : k \in Texts(d.queue) =>
           \/ k \in Texts(c.queue) /\ d.fate[k] = c.fate[k] /\ d.told[k] = c.told[k]
           \/ d.fate[k] = {} /\ d.told[k] = "queued"
  BY <1>1, HandlesTracked
<1> QED BY <1>2 DEF Orderly

LEMMA MovesOrderly ==
  ASSUME NEW c, CoordinatorOK(c), NEW d, CoordinatorOK(d), Orderly(c), Moves(c, d)
  PROVE  Orderly(d)
BY SettlesFirstOrderly, HandlesOrderly DEF Moves

LEMMA QueueOrRefuseHandles ==
  ASSUME NEW c, CoordinatorOK(c), NEW m \in Msgs
  PROVE  Handles(c, QueueOrRefuse(c, m), m)
<1> DEFINE d == QueueOrRefuse(c, m)
           longer == Append(c.queue, Item(m))
<1>1. d = IF Len(c.queue) >= MaxQueueItems
          THEN [c EXCEPT !.told[m] = "failed"]
          ELSE [c EXCEPT !.queue = longer, !.told[m] = "queued"]
  BY DEF QueueOrRefuse
<1> HIDE DEF longer, d
<1>2. CASE Len(c.queue) >= MaxQueueItems
  <2>1. d.told = [c.told EXCEPT ![m] = "failed"] /\ d.queue = c.queue /\ d.fate = c.fate
    BY <1>1, <1>2 DEF CoordinatorOK
  <2> QED BY <2>1 DEF Handles, d
<1>3. CASE ~ (Len(c.queue) >= MaxQueueItems)
  <2>1. d.told = [c.told EXCEPT ![m] = "queued"] /\ d.queue = longer /\ d.fate = c.fate
    BY <1>1, <1>3 DEF CoordinatorOK
  <2> QED BY <2>1 DEF Handles, d, longer
<1> QED BY <1>2, <1>3

(* The caller of submitUserMessage is answered, or the message is kept. *)
LEMMA DirectDoneHandles ==
  ASSUME NEW c, CoordinatorOK(c), NEW m \in Msgs, c.fate[m] = {},
         NEW result, NEW t, NEW sends, ~ AutoFlush \/ result # "ok"
  PROVE  Handles(c, DirectDone(c, m, result, t, sends), m)
<1> DEFINE d == DirectDone(c, m, result, t, sends)
           back == [c EXCEPT !.agent = Rollback(@)]
<1>1. /\ CoordinatorOK(back) /\ back.told = c.told
      /\ back.queue = c.queue /\ back.fate = c.fate
  <2>1. back.agent = Rollback(c.agent)
    BY DEF CoordinatorOK
  <2>2. AgentOK(back.agent)
    BY <2>1, RollbackFacts DEF CoordinatorOK
  <2>3. /\ DOMAIN back = DOMAIN c
        /\ back.monitor = c.monitor /\ back.flushing = c.flushing
        /\ back.told = c.told /\ back.queue = c.queue
        /\ back.flushCtx = c.flushCtx /\ back.flushTold = c.flushTold
        /\ back.fate = c.fate
    BY DEF CoordinatorOK
  <2> HIDE DEF back
  <2> QED BY <2>2, <2>3 DEF CoordinatorOK
<1> HIDE DEF back
<1>2. ASSUME NEW s, CoordinatorOK(s), NEW x \in {"replied", "failed"},
             NEW how \in Delivery!Outcomes,
             s.told = c.told, s.queue = c.queue,
             s.fate = [c.fate EXCEPT ![m] = @ \cup {how}],
             d = [s EXCEPT !.told[m] = x]
      PROVE  Handles(c, d, m)
  <2> HIDE DEF d
  <2>1. d.told = [c.told EXCEPT ![m] = x] /\ d.queue = c.queue /\ d.fate = s.fate
    BY <1>2 DEF CoordinatorOK
  <2>2. s.fate = [c.fate EXCEPT ![m] = {how}]
    BY <1>2
  <2> QED BY <2>1, <2>2 DEF Handles
<1>3. CASE result = "ok"
  <2> DEFINE r == Settle(c, m, "replied")
             s == SetOnline(r, TRUE, t, sends)
  <2>1. CoordinatorOK(r) /\ r.told = c.told /\ r.queue = c.queue
    BY SettleFacts
  <2>2. r.fate = [c.fate EXCEPT ![m] = @ \cup {"replied"}]
    BY DEF Settle, CoordinatorOK
  <2>3. d = [s EXCEPT !.told[m] = "replied"]
    BY <1>3 DEF DirectDone
  <2>4. s = [r EXCEPT !.monitor = "online"]
    BY <1>3 DEF SetOnline
  <2> HIDE DEF r, d, s
  <2>5. CoordinatorOK(s) /\ s.queue = r.queue /\ s.fate = r.fate /\ s.told = r.told
    BY <2>1, <2>4 DEF CoordinatorOK
  <2>6. "replied" \in Delivery!Outcomes
    BY DEF Delivery!Outcomes
  <2>7. s.fate = [c.fate EXCEPT ![m] = @ \cup {"replied"}]
        /\ s.queue = c.queue /\ s.told = c.told
    BY <2>1, <2>2, <2>5
  <2>8. Handles(c, d, m)
    BY <1>2, <2>3, <2>5, <2>6, <2>7
  <2> QED BY <2>8 DEF d
<1>4. CASE result # "ok" /\ ~ IsQueueable(result)
  <2> DEFINE s == Settle(back, m, "refused")
  <2>1. CoordinatorOK(s) /\ s.told = c.told /\ s.queue = c.queue
    BY <1>1, SettleFacts
  <2>2. s.fate = [c.fate EXCEPT ![m] = @ \cup {"refused"}]
    BY <1>1 DEF Settle, CoordinatorOK
  <2>3. d = [s EXCEPT !.told[m] = "failed"]
    BY <1>4 DEF DirectDone, back
  <2> HIDE DEF s, d
  <2>4. "refused" \in Delivery!Outcomes
    BY DEF Delivery!Outcomes
  <2> QED BY <1>2, <2>1, <2>2, <2>3, <2>4 DEF d
<1>5. CASE result # "ok" /\ IsQueueable(result)
  <2> DEFINE s == GoOffline(back)
  <2>1. CoordinatorOK(s) /\ s.told = c.told /\ s.queue = c.queue /\ s.fate = c.fate
    BY <1>1 DEF CoordinatorOK, GoOffline
  <2>2. d = QueueOrRefuse(s, m)
    BY <1>5 DEF DirectDone, back
  <2> HIDE DEF s, d
  <2>3. Handles(s, d, m)
    BY <2>1, <2>2, QueueOrRefuseHandles
  <2>4. Handles(c, d, m)
    BY <2>1, <2>3 DEF Handles
  <2> QED BY <2>4 DEF d
<1> QED BY <1>3, <1>4, <1>5

(* When the answer brings the device online, what is dropped at the front   *)
(* is settled after the message.                                           *)
LEMMA DirectOkMoves ==
  ASSUME NEW c, CoordinatorOK(c), Tracked(c), NEW m \in Msgs, New(c, m),
         NEW t \in Turns, NEW sends \in BOOLEAN, FreshIn(c.agent, t)
  PROVE  \E e, n : /\ CoordinatorOK(e) /\ Handles(c, e, m) /\ e.queue = c.queue
                   /\ SettlesFirst(e, DirectDone(c, m, "ok", t, sends), n)
<1> DEFINE r == Settle(c, m, "replied")
           e == [r EXCEPT !.told[m] = "replied"]
           on == [r EXCEPT !.monitor = "online"]
           s == SetOnline(r, TRUE, t, sends)
           d == DirectDone(c, m, "ok", t, sends)
<1>1. /\ CoordinatorOK(r) /\ r.told = c.told /\ r.agent = c.agent /\ r.queue = c.queue
  BY SettleFacts
<1>2. r.fate = [c.fate EXCEPT ![m] = {"replied"}]
  BY DEF Settle, CoordinatorOK, Tracked
<1>3. d = [s EXCEPT !.told[m] = "replied"]
  BY DEF DirectDone
<1>4. s = IF r.monitor # "online" /\ AutoFlush THEN TryFlush(on, t, sends) ELSE on
  BY DEF SetOnline
<1> HIDE DEF r, s, d
<1>5. /\ CoordinatorOK(on) /\ on.agent = c.agent
      /\ on.queue = c.queue /\ on.fate = r.fate /\ on.told = c.told
  BY <1>1 DEF CoordinatorOK
<1>6. /\ CoordinatorOK(e) /\ e.queue = c.queue /\ e.fate = r.fate
      /\ e.told = [c.told EXCEPT ![m] = "replied"]
  BY <1>1 DEF CoordinatorOK
<1> HIDE DEF on, e
<1>7. Handles(c, e, m)
  <2>1. "replied" \in Delivery!Outcomes
    BY DEF Delivery!Outcomes
  <2> QED BY <1>2, <1>6, <2>1 DEF Handles
<1>8. \E n : SettlesFirst(on, s, n)
  <2>1. CASE s = on
    BY <1>5, <2>1, SettlesNone
  <2>2. CASE s = TryFlush(on, t, sends)
    <3>1. Distinct(on)
      BY <1>5 DEF Tracked, Distinct
    <3> QED BY <1>5, <2>2, <3>1, TryFlushSettles
  <2> QED BY <1>4, <2>1, <2>2
<1>9. PICK n : SettlesFirst(on, s, n)
  BY <1>8
<1>10. CoordinatorOK(s)
  <2>1. CASE s = on
    BY <1>5, <2>1
  <2>2. CASE s = TryFlush(on, t, sends)
    BY <1>5, <2>2, TryFlushFacts
  <2> QED BY <1>4, <2>1, <2>2
<1>11. /\ d.queue = s.queue /\ d.fate = s.fate
       /\ d.told = [s.told EXCEPT ![m] = "replied"]
  BY <1>3, <1>10 DEF CoordinatorOK
<1>12. SettlesFirst(e, d, n)
  BY <1>5, <1>6, <1>9, <1>11 DEF SettlesFirst
<1> QED BY <1>6, <1>7, <1>12 DEF d

(* The steps. *)
LEMMA FlushMoves ==
  ASSUME NEW c, CoordinatorOK(c), Tracked(c), NEW f \in FlushCalls,
         NEW t \in Turns, NEW sends \in BOOLEAN, FreshIn(c.agent, t)
  PROVE  Moves(c, TryFlush([c EXCEPT !.flushCtx = f, !.flushTold[f] = "waiting"], t, sends))
<1> DEFINE b == [c EXCEPT !.flushCtx = f, !.flushTold[f] = "waiting"]
           d == TryFlush(b, t, sends)
<1>1. /\ CoordinatorOK(b) /\ b.agent = c.agent
      /\ b.told = c.told /\ b.queue = c.queue /\ b.fate = c.fate
  BY DEF CoordinatorOK
<1> HIDE DEF b
<1>2. Tracked(b)
  BY <1>1 DEF Tracked, Distinct, New
<1>3. PICK n : SettlesFirst(b, d, n)
  BY <1>1, <1>2, TryFlushSettles DEF Tracked
<1> HIDE DEF d
<1>4. SettlesFirst(c, d, n)
  BY <1>1, <1>3, SettlesFirstFrom
<1> QED BY <1>4 DEF Moves, b, d

LEMMA ReportMoves ==
  ASSUME ~ AutoFlush, NEW c, CoordinatorOK(c), NEW online \in BOOLEAN, NEW t, NEW sends
  PROVE  Moves(c, SetOnline(c, online, t, sends))
<1> DEFINE d == SetOnline(c, online, t, sends)
<1>1. d.queue = c.queue /\ d.fate = c.fate /\ d.told = c.told
  BY SetOnlineOnly
<1> HIDE DEF d
<1>2. SettlesFirst(c, d, 0)
  BY <1>1, SettlesNone
<1> QED BY <1>2 DEF Moves, d

LEMMA SubmitMoves ==
  ASSUME NEW c, CoordinatorOK(c), Tracked(c),
         NEW m \in Msgs, c.told[m] = "none",
         NEW t \in Turns, NEW sends \in BOOLEAN, FreshIn(c.agent, t)
  PROVE  Moves(c, SubmitUserMessage(c, m, t, sends))
<1> DEFINE done == [by |-> "direct", text |-> m]
           out == AgentSubmit(c.agent, m, done, t, sends)
           b == [c EXCEPT !.agent = out.agent, !.told[m] = "waiting"]
           d == SubmitUserMessage(c, m, t, sends)
<1>1. done \in DoneCallbacks /\ AgentOK(c.agent)
  BY DEF DoneCallbacks, CoordinatorOK
<1>2. d = IF ~ IsOnline(c) \/ c.flushing THEN QueueOrRefuse(c, m)
          ELSE TurnDone(b, done, out.result, t, sends)
  BY DEF SubmitUserMessage
<1>3. done.by = "direct" /\ done.text = m
  OBVIOUS
<1> HIDE DEF out, d, done
<1>4. AgentOK(out.agent) /\ (out.result # Pending => out.result # "ok")
  <2>1. /\ AgentOK(out.agent)
        /\ out.result = Pending =>
             /\ c.agent.active = NoTurn
             /\ ~ InFlight(c.agent, t)
             /\ out.agent.active = t
             /\ out.agent.ctx = [c.agent.ctx EXCEPT ![t] = [done |-> done, round |-> 0]]
        /\ out.result # Pending =>
             /\ out.result \in {"busy", "maxRounds", "notSent"}
             /\ out.agent.active = c.agent.active
             /\ out.agent.ctx = c.agent.ctx
    BY <1>1, AgentSubmitFacts DEF out
  <2> QED BY <2>1
<1>5. /\ CoordinatorOK(b) /\ b.told = [c.told EXCEPT ![m] = "waiting"]
      /\ b.queue = c.queue /\ b.fate = c.fate
  BY <1>4 DEF CoordinatorOK
<1> HIDE DEF b
<1>6. New(c, m) /\ c.fate[m] = {}
  BY DEF New, Tracked
<1>7. Handles(c, d, m)
  <2>1. CASE ~ IsOnline(c) \/ c.flushing
    BY <1>2, <2>1, QueueOrRefuseHandles
  <2>2. CASE ~ (~ IsOnline(c) \/ c.flushing) /\ out.result = Pending
    <3>1. d = b
      BY <1>2, <2>2 DEF TurnDone
    <3> QED BY <1>5, <3>1 DEF Handles
  <2>3. CASE ~ (~ IsOnline(c) \/ c.flushing) /\ out.result # Pending
    <3>1. d = DirectDone(b, m, out.result, t, sends)
      BY <1>2, <1>3, <2>3 DEF TurnDone
    <3>2. Handles(b, d, m)
      BY <1>4, <1>5, <1>6, <2>3, <3>1, DirectDoneHandles
    <3>3. \A x : [b.told EXCEPT ![m] = x] = [c.told EXCEPT ![m] = x]
      BY <1>5 DEF CoordinatorOK
    <3> QED BY <1>5, <3>2, <3>3 DEF Handles
  <2> QED BY <2>1, <2>2, <2>3
<1> QED BY <1>6, <1>7 DEF Moves, d

LEMMA CompleteMoves ==
  ASSUME ~ AutoFlush, NEW c, Good(c), FrontServed(c), Alone(c), Backed(c), Tracked(c),
         NEW t \in Turns, InFlight(c.agent, t), NEW r \in Responses, NEW sends \in BOOLEAN
  PROVE  LET out == Respond(c.agent, t, r, sends)
         IN  Moves(c, TurnDone([c EXCEPT !.agent = out.agent],
                               c.agent.ctx[t].done, out.result, t, sends))
<1> DEFINE done == c.agent.ctx[t].done
           m == done.text
           out == Respond(c.agent, t, r, sends)
           b == [c EXCEPT !.agent = out.agent]
           d == TurnDone(b, done, out.result, t, sends)
<1>1. CoordinatorOK(c) /\ AgentOK(c.agent) /\ CallersServed(c)
  BY DEF Good, CoordinatorOK
<1>2. m \in Msgs /\ done.by \in {"direct", "flush"} /\ done = [by |-> done.by, text |-> m]
  BY <1>1 DEF AgentOK, InFlight, TurnContext, DoneCallbacks
<1>3. /\ AgentOK(out.agent)
      /\ out.result # Pending => out.agent.ctx = [c.agent.ctx EXCEPT ![t] = NoCtx]
  BY <1>1, RespondFacts
<1> HIDE DEF out
<1>4. /\ CoordinatorOK(b) /\ b.agent = out.agent /\ b.told = c.told
      /\ b.queue = c.queue /\ b.fate = c.fate
  BY <1>1, <1>3 DEF CoordinatorOK
<1> HIDE DEF b, d, m, done
<1>5. ServesIn(c.agent, t, done.by, m)
  BY <1>2 DEF ServesIn, done
<1>6. CASE out.result = Pending
  <2>1. d = b
    BY <1>6 DEF TurnDone, d
  <2>2. SettlesFirst(c, d, 0)
    BY <1>1, <1>4, <2>1, SettlesNone
  <2> QED BY <2>2 DEF Moves, d, b, out, done
<1>7. CASE out.result # Pending /\ done.by = "flush"
  <2>1. d = FinishFlushItem(b, m, out.result, t, sends)
    BY <1>7 DEF TurnDone, d, m
  <2>2. c.queue # << >> /\ Head(c.queue).text = m
    BY <1>2, <1>5, <1>7, EndedFront
  <2>3. FreshIn(b.agent, t)
    BY <1>1, <1>3, <1>4, <1>7 DEF AgentOK, FreshIn, InFlight
  <2>4. Tracked(b)
    BY <1>4 DEF Tracked, Distinct, New
  <2>5. PICK n : SettlesFirst(b, d, n)
    BY <1>2, <1>4, <2>1, <2>2, <2>3, <2>4, FinishFlushItemSettles
  <2>6. SettlesFirst(c, d, n)
    BY <1>4, <2>5, SettlesFirstFrom
  <2> QED BY <2>6 DEF Moves, d, b, out, done
<1>8. CASE out.result # Pending /\ done.by = "direct"
  <2>1. d = DirectDone(b, m, out.result, t, sends)
    BY <1>8 DEF TurnDone, d, m
  <2>2. c.told[m] = "waiting"
    BY <1>1, <1>2, <1>5, <1>8 DEF CallersServed, NoneServes
  <2>3. New(c, m) /\ c.fate[m] = {}
    BY <1>2, <2>2 DEF New, Tracked
  <2>4. Handles(b, d, m)
    BY <1>2, <1>4, <2>1, <2>3, DirectDoneHandles
  <2>5. Handles(c, d, m)
    BY <1>4, <2>4 DEF Handles
  <2> QED BY <1>2, <2>3, <2>5 DEF Moves, d, b, out, done
<1> QED BY <1>2, <1>6, <1>7, <1>8

-----------------------------------------------------------------------------
(* The refinement.                                                         *)

LEMMA WaitingFacts ==
  ASSUME CoordinatorOK(This)
  PROVE  /\ queue \in Seq(Items) /\ Len(queue) \in Nat /\ DOMAIN queue = 1 .. Len(queue)
         /\ WaitingTexts \in Seq(Msgs)
         /\ Len(WaitingTexts) = Len(queue) /\ DOMAIN WaitingTexts = 1 .. Len(queue)
         /\ \A i \in 1 .. Len(queue) : WaitingTexts[i] = queue[i].text
         /\ fate \in [Msgs -> SUBSET Delivery!Outcomes]
<1>1. This.queue = queue /\ This.fate = fate
  BY DEF This
<1>2. /\ queue \in Seq(Items) /\ Len(queue) \in Nat /\ DOMAIN queue = 1 .. Len(queue)
      /\ \A i \in 1 .. Len(queue) : queue[i].text \in Msgs
  BY <1>1, QueueFacts DEF CoordinatorOK
<1>3. WaitingTexts \in [1 .. Len(queue) -> Msgs]
      /\ \A i \in 1 .. Len(queue) : WaitingTexts[i] = queue[i].text
  BY <1>2 DEF WaitingTexts
<1>4. WaitingTexts \in Seq(Msgs) /\ DOMAIN WaitingTexts = 1 .. Len(queue)
  BY <1>2, <1>3, SeqDef
<1>5. Len(WaitingTexts) = Len(queue)
  BY <1>2, <1>4, LenProperties
<1>6. fate \in [Msgs -> SUBSET Delivery!Outcomes]
  BY <1>1 DEF CoordinatorOK, Delivery!Outcomes
<1> QED BY <1>2, <1>3, <1>4, <1>5, <1>6

(* Settling the oldest is MessageDelivery's Settle. *)
LEMMA SettlesRefines ==
  ASSUME CoordinatorOK(This), CoordinatorOK(This)', NEW n,
         Len(queue') = Len(queue) - n, n \in 0 .. Len(queue),
         \A i \in 1 .. Len(queue') : queue'[i].text = queue[n + i].text,
         \A m \in Msgs : IF \E i \in 1 .. n : queue[i].text = m
                         THEN \E how \in Delivery!Outcomes : fate'[m] = {how}
                         ELSE fate'[m] = fate[m]
  PROVE  Delivery!Next
<1> DEFINE settled == {WaitingTexts[i] : i \in 1 .. n} \cup {}
<1>1. /\ queue \in Seq(Items) /\ Len(queue) \in Nat /\ DOMAIN queue = 1 .. Len(queue)
      /\ WaitingTexts \in Seq(Msgs)
      /\ Len(WaitingTexts) = Len(queue) /\ DOMAIN WaitingTexts = 1 .. Len(queue)
      /\ \A i \in 1 .. Len(queue) : WaitingTexts[i] = queue[i].text
  BY WaitingFacts
<1>2. /\ Len(queue') \in Nat /\ DOMAIN queue' = 1 .. Len(queue')
      /\ WaitingTexts' \in Seq(Msgs)
      /\ Len(WaitingTexts') = Len(queue')
      /\ \A i \in 1 .. Len(queue') : WaitingTexts'[i] = queue'[i].text
      /\ fate' \in [Msgs -> SUBSET Delivery!Outcomes]
  <2>1. (/\ Len(queue) \in Nat /\ DOMAIN queue = 1 .. Len(queue)
         /\ WaitingTexts \in Seq(Msgs)
         /\ Len(WaitingTexts) = Len(queue)
         /\ \A i \in 1 .. Len(queue) : WaitingTexts[i] = queue[i].text
         /\ fate \in [Msgs -> SUBSET Delivery!Outcomes])'
    BY WaitingFacts, PTL
  <2> QED BY <2>1 DEF Delivery!Outcomes
<1>3. WaitingTexts' = SubSeq(WaitingTexts, n + 1, Len(WaitingTexts))
  <2> DEFINE rest == SubSeq(WaitingTexts, n + 1, Len(WaitingTexts))
  <2>1. /\ rest \in Seq(Msgs)
        /\ Len(rest) = IF n + 1 <= Len(WaitingTexts) THEN Len(WaitingTexts) - (n + 1) + 1 ELSE 0
        /\ \A i \in 1 .. Len(WaitingTexts) - (n + 1) + 1 : rest[i] = WaitingTexts[n + 1 + i - 1]
    <3>1. \A i \in n + 1 .. Len(WaitingTexts) : WaitingTexts[i] \in Msgs
      BY <1>1, ElementOfSeq
    <3> QED BY <1>1, <3>1, SubSeqProperties
  <2> HIDE DEF rest
  <2>2. Len(rest) = Len(queue')
    BY <1>1, <2>1
  <2>3. \A i \in 1 .. Len(queue') : rest[i] = WaitingTexts[n + i] /\ n + i \in 1 .. Len(queue)
    BY <1>1, <2>1
  <2>4. ASSUME NEW i \in 1 .. Len(queue')
        PROVE  rest[i] = WaitingTexts'[i]
    <3> DEFINE k == n + i
    <3>1. rest[i] = WaitingTexts[k] /\ k \in 1 .. Len(queue)
      BY <2>3
    <3>2. queue'[i].text = queue[k].text
      OBVIOUS
    <3> HIDE DEF k
    <3>3. WaitingTexts[k] = queue[k].text
      <4>1. \A j \in 1 .. Len(queue) : WaitingTexts[j] = queue[j].text
        BY <1>1
      <4> QED BY <3>1, <4>1
    <3>4. WaitingTexts'[i] = queue'[i].text
      BY <1>2
    <3> QED BY <3>1, <3>2, <3>3, <3>4
  <2>5. rest = WaitingTexts'
    <3>1. WaitingTexts' \in Seq(Msgs) /\ Len(rest) = Len(WaitingTexts')
      BY <1>2, <2>2
    <3>2. \A i \in 1 .. Len(rest) : rest[i] = WaitingTexts'[i]
      BY <2>2, <2>4
    <3> QED BY <2>1, <3>1, <3>2, SeqEqual
  <2> QED BY <2>5 DEF rest
<1>4. \A m : m \in settled <=> \E i \in 1 .. n : queue[i].text = m
  <2>1. \A i \in 1 .. n : WaitingTexts[i] = queue[i].text
    <3>1. \A i \in 1 .. n : i \in 1 .. Len(queue)
      BY <1>1
    <3> QED BY <1>1, <3>1
  <2>2. \A m : m \in settled <=> \E i \in 1 .. n : WaitingTexts[i] = m
    OBVIOUS
  <2> HIDE DEF settled
  <2> QED BY <2>1, <2>2
<1>5. settled \subseteq Msgs
  <2>1. \A i \in 1 .. n : i \in 1 .. Len(WaitingTexts)
    BY <1>1
  <2> QED BY <1>1, <2>1, ElementOfSeq
<1> HIDE DEF settled
<1>6. \E how \in [settled -> Delivery!Outcomes] :
         fate' = [m \in Msgs |-> IF m \in settled THEN {how[m]} ELSE fate[m]]
  <2> DEFINE how == [m \in settled |-> CHOOSE x \in Delivery!Outcomes : fate'[m] = {x}]
  <2>1. ASSUME NEW m \in settled
        PROVE  how[m] \in Delivery!Outcomes /\ fate'[m] = {how[m]}
    <3>1. \E x \in Delivery!Outcomes : fate'[m] = {x}
      BY <1>4, <1>5
    <3> QED BY <3>1
  <2>2. how \in [settled -> Delivery!Outcomes]
    BY <2>1
  <2> HIDE DEF how
  <2>3. \A m \in Msgs : fate'[m] = IF m \in settled THEN {how[m]} ELSE fate[m]
    BY <1>4, <2>1
  <2>4. fate' = [m \in Msgs |-> IF m \in settled THEN {how[m]} ELSE fate[m]]
    BY <1>2, <2>3
  <2> QED BY <2>2, <2>4
<1>7. Delivery!Settle(n, {})
  BY <1>3, <1>6 DEF Delivery!Settle, settled
<1>8. n \in 0 .. Len(WaitingTexts)
  BY <1>1
<1> QED BY <1>7, <1>8 DEF Delivery!Next

(* What happens to a new message is Accept, Settle with the message, or no *)
(* step of MessageDelivery at all.                                         *)
LEMMA HandlesRefines ==
  ASSUME CoordinatorOK(This), CoordinatorOK(This)', NEW m \in Msgs,
         fate[m] = {}, m \notin Texts(queue),
         \/ queue' = queue /\ \E how \in Delivery!Outcomes : fate' = [fate EXCEPT ![m] = {how}]
         \/ queue' = queue /\ fate' = fate
         \/ queue' = Append(queue, Item(m)) /\ fate' = fate
  PROVE  Delivery!Next \/ UNCHANGED <<WaitingTexts, fate>>
<1>1. /\ queue \in Seq(Items) /\ Len(queue) \in Nat /\ DOMAIN queue = 1 .. Len(queue)
      /\ WaitingTexts \in Seq(Msgs)
      /\ Len(WaitingTexts) = Len(queue) /\ DOMAIN WaitingTexts = 1 .. Len(queue)
      /\ \A i \in 1 .. Len(queue) : WaitingTexts[i] = queue[i].text
      /\ fate \in [Msgs -> SUBSET Delivery!Outcomes]
  BY WaitingFacts
<1>2. Delivery!Untouched(m)
  <2>1. \A i \in 1 .. Len(queue) : WaitingTexts[i] # m
    BY <1>1 DEF Texts
  <2> QED BY <1>1, <2>1 DEF Delivery!Untouched, Delivery!IsPending
<1>3. CASE queue' = queue /\ \E how \in Delivery!Outcomes : fate' = [fate EXCEPT ![m] = {how}]
  <2>1. PICK x \in Delivery!Outcomes : fate' = [fate EXCEPT ![m] = {x}]
    BY <1>3
  <2> DEFINE settled == {WaitingTexts[i] : i \in 1 .. 0} \cup {m}
             how == [k \in settled |-> x]
  <2>2. settled = {m}
    OBVIOUS
  <2>3. how \in [settled -> Delivery!Outcomes]
    OBVIOUS
  <2>4. fate' = [k \in Msgs |-> IF k \in settled THEN {how[k]} ELSE fate[k]]
    BY <1>1, <2>1, <2>2
  <2>5. WaitingTexts' = WaitingTexts
    BY <1>3 DEF WaitingTexts
  <2>6. SubSeq(WaitingTexts, 0 + 1, Len(WaitingTexts)) = WaitingTexts
    BY <1>1, SubSeqFull
  <2>7. \A k \in {m} : Delivery!Untouched(k)
    BY <1>2
  <2> HIDE DEF how
  <2>8. Delivery!Settle(0, {m})
    BY <2>3, <2>4, <2>5, <2>6, <2>7 DEF Delivery!Settle
  <2>9. 0 \in 0 .. Len(WaitingTexts)
    BY <1>1
  <2> QED BY <2>8, <2>9 DEF Delivery!Next
<1>4. CASE queue' = queue /\ fate' = fate
  BY <1>4 DEF WaitingTexts
<1>5. CASE queue' = Append(queue, Item(m)) /\ fate' = fate
  <2> DEFINE longer == Append(WaitingTexts, m)
  <2>1. Item(m) \in Items /\ Item(m).text = m
    BY DEF Item, Items
  <2>2. /\ queue' \in Seq(Items)
        /\ Len(queue') = Len(queue) + 1
        /\ \A i \in 1 .. Len(queue) : queue'[i] = queue[i]
        /\ queue'[Len(queue) + 1] = Item(m)
    BY <1>1, <1>5, <2>1, AppendProperties
  <2>3. /\ longer \in Seq(Msgs)
        /\ Len(longer) = Len(queue) + 1
        /\ \A i \in 1 .. Len(queue) : longer[i] = WaitingTexts[i]
        /\ longer[Len(queue) + 1] = m
    BY <1>1, AppendProperties
  <2> HIDE DEF longer
  <2>4. DOMAIN queue' = 1 .. Len(queue) + 1 /\ DOMAIN longer = 1 .. Len(queue) + 1
    BY <2>2, <2>3, LenProperties
  <2>5. \A i \in 1 .. Len(queue) + 1 : i \in 1 .. Len(queue) \/ i = Len(queue) + 1
    BY <1>1
  <2>6. \A i \in 1 .. Len(queue) + 1 : longer[i] = queue'[i].text
    BY <1>1, <2>1, <2>2, <2>3, <2>5
  <2>7. longer = [i \in 1 .. Len(queue) + 1 |-> longer[i]]
    BY <2>3, <2>4
  <2>8. WaitingTexts' = longer
    BY <2>4, <2>6, <2>7 DEF WaitingTexts
  <2>9. Delivery!Accept(m)
    BY <1>2, <1>5, <2>8 DEF Delivery!Accept, longer
  <2> QED BY <2>9 DEF Delivery!Next
<1> QED BY <1>3, <1>4, <1>5

(* A step of the coordinator that moves messages is a step of the abstract *)
(* specification.                                                          *)
LEMMA MovesRefine ==
  ASSUME CoordinatorOK(This), CoordinatorOK(This)', Orderly(This),
         NEW d, Become(d), Moves(This, d)
  PROVE  Delivery!Next \/ UNCHANGED <<WaitingTexts, fate>>
<1>1. This.queue = queue /\ This.fate = fate /\ This.told = told
  BY DEF This
<1>2. queue' = d.queue /\ fate' = d.fate /\ told' = d.told
  BY DEF Become
<1>3. ASSUME NEW n, SettlesFirst(This, d, n)
      PROVE  Delivery!Next
  <2>1. /\ Len(queue') = Len(queue) - n /\ n \in 0 .. Len(queue)
        /\ \A i \in 1 .. Len(queue') : queue'[i].text = queue[n + i].text
        /\ \A m \in Msgs : IF \E i \in 1 .. n : queue[i].text = m
                           THEN \E how \in Delivery!Outcomes : fate'[m] = fate[m] \cup {how}
                           ELSE fate'[m] = fate[m]
    BY <1>1, <1>2, <1>3 DEF SettlesFirst
  <2>2. \A m \in Msgs : m \in Texts(queue) => fate[m] = {}
    BY <1>1 DEF Orderly
  <2>3. \A i \in 1 .. n : queue[i].text \in Texts(queue)
    <3>1. /\ Len(queue) \in Nat
          /\ \A m : m \in Texts(queue) <=> \E i \in 1 .. Len(queue) : queue[i].text = m
      <4>1. LET q == This.queue
            IN  /\ Len(q) \in Nat
                /\ \A m : m \in Texts(q) <=> \E i \in 1 .. Len(q) : q[i].text = m
        BY QueueFacts
      <4> QED BY <1>1, <4>1
    <3>2. \A i \in 1 .. n : i \in 1 .. Len(queue)
      BY <2>1, <3>1
    <3> QED BY <3>1, <3>2
  <2>4. \A m \in Msgs : IF \E i \in 1 .. n : queue[i].text = m
                        THEN \E how \in Delivery!Outcomes : fate'[m] = {how}
                        ELSE fate'[m] = fate[m]
    <3> SUFFICES ASSUME NEW m \in Msgs, \E i \in 1 .. n : queue[i].text = m
                 PROVE  \E how \in Delivery!Outcomes : fate'[m] = {how}
      BY <2>1
    <3>1. fate[m] = {}
      BY <2>2, <2>3
    <3>2. PICK how \in Delivery!Outcomes : fate'[m] = fate[m] \cup {how}
      BY <2>1
    <3>3. fate'[m] = {how}
      BY <3>1, <3>2
    <3> QED BY <3>3
  <2> QED BY <2>1, <2>4, SettlesRefines
<1>4. ASSUME NEW m \in Msgs, New(This, m), Handles(This, d, m)
      PROVE  Delivery!Next \/ UNCHANGED <<WaitingTexts, fate>>
  <2>1. fate[m] = {} /\ m \notin Texts(queue)
    BY <1>1, <1>4 DEF New, Orderly, Tracked
  <2>2. \/ queue' = queue /\ \E how \in Delivery!Outcomes : fate' = [fate EXCEPT ![m] = {how}]
        \/ queue' = queue /\ fate' = fate
        \/ queue' = Append(queue, Item(m)) /\ fate' = fate
    BY <1>1, <1>2, <1>4 DEF Handles
  <2> QED BY <2>1, <2>2, HandlesRefines
<1> QED BY <1>3, <1>4 DEF Moves

LEMMA BecomeOrderly ==
  ASSUME NEW d, Become(d), Orderly(d)
  PROVE  Orderly(This)'
<1>1. This'.queue = d.queue /\ This'.told = d.told /\ This'.fate = d.fate
  BY DEF Become, This
<1> QED BY <1>1 DEF Orderly, Tracked, Distinct, New

-----------------------------------------------------------------------------
(* Every submission is a message of its own, so load() finds none twice.   *)
LoadedOnce == \A i, j \in DOMAIN Loaded : Loaded[i] = Loaded[j] => i = j

OrderInv ==
  /\ DeliveryInv
  /\ cancels = 0 => Orderly(This)

(* What the refinement asks of a step. *)
Refines == cancels' = 0 => Delivery!Next \/ UNCHANGED <<WaitingTexts, fate>>

LEMMA InitiallyOrdered ==
  ASSUME LoadedOnce, Init
  PROVE  OrderInv /\ Delivery!Init
<1>1. CoordinatorOK(This) /\ DeliveryInv
  BY Initially, InitiallyDelivers DEF IInv, Good
<1>2. /\ Len(Loaded) \in Nat /\ DOMAIN Loaded = 1 .. Len(Loaded)
      /\ \A i \in DOMAIN Loaded : Loaded[i] \in Msgs
  BY CoordinatorConstants, LenProperties, ElementOfSeq
<1>3. DOMAIN queue = DOMAIN Loaded /\ \A i \in DOMAIN Loaded : queue[i].text = Loaded[i]
  BY DEF Init, Item
<1>4. \A i, j \in DOMAIN queue : queue[i].text = queue[j].text => i = j
  BY <1>3 DEF LoadedOnce
<1>5. told = [m \in Msgs |-> IF m \in Texts(queue) THEN "queued" ELSE "none"]
      /\ fate = [m \in Msgs |-> {}]
  BY DEF Init
<1>6. Orderly(This)
  <2>1. This.queue = queue /\ This.told = told /\ This.fate = fate
    BY DEF This
  <2> QED BY <1>4, <1>5, <2>1 DEF Orderly, Tracked, Distinct, New
<1>7. Delivery!Init
  <2>1. /\ WaitingTexts \in Seq(Msgs)
        /\ DOMAIN WaitingTexts = DOMAIN queue
        /\ \A i \in DOMAIN queue : WaitingTexts[i] = queue[i].text
    BY <1>1, WaitingFacts
  <2> QED BY <1>4, <1>5, <2>1 DEF Delivery!Init
<1> QED BY <1>1, <1>6, <1>7 DEF OrderInv

LEMMA InductiveOrdered ==
  ASSUME ~ AutoFlush, OrderInv, [Next]_vars
  PROVE  OrderInv' /\ Refines
<1>1. /\ Good(This) /\ CoordinatorOK(This)
      /\ FrontServed(This)
      /\ cancels = 0 => Alone(This) /\ Backed(This) /\ Orderly(This)
  BY DEF OrderInv, DeliveryInv, IInv, Good
<1>2. DeliveryInv' /\ CoordinatorOK(This)'
  BY InductiveDelivers DEF OrderInv, DeliveryInv, IInv, Good
<1>3. This.agent = agent /\ This.told = told
  BY DEF This
<1>4. ASSUME NEW d, Become(d), UNCHANGED cancels, CoordinatorOK(d),
             cancels = 0 => Moves(This, d)
      PROVE  OrderInv' /\ Refines
  <2>1. CASE cancels # 0
    BY <1>2, <1>4, <2>1 DEF OrderInv, Refines
  <2>2. CASE cancels = 0
    <3>1. Orderly(d)
      BY <1>1, <1>4, <2>2, MovesOrderly
    <3>2. Orderly(This)'
      BY <1>4, <3>1, BecomeOrderly
    <3>3. Delivery!Next \/ UNCHANGED <<WaitingTexts, fate>>
      BY <1>1, <1>2, <1>4, <2>2, MovesRefine
    <3> QED BY <1>2, <3>2, <3>3 DEF OrderInv, Refines
  <2> QED BY <2>1, <2>2
<1>5. ASSUME NEW m \in Msgs, Submit(m)
      PROVE  OrderInv' /\ Refines
  <2>1. PICK t \in Turns, sends \in Sends :
           Fresh(t) /\ Become(SubmitUserMessage(This, m, t, sends))
    BY <1>5 DEF Submit
  <2>2. sends \in BOOLEAN /\ FreshIn(This.agent, t) /\ This.told[m] = "none"
    BY <1>3, <1>5, <2>1, CoordinatorConstants DEF Fresh, FreshIn, Submit
  <2> DEFINE d == SubmitUserMessage(This, m, t, sends)
  <2>3. CoordinatorOK(d)
    BY <1>1, <2>2, SubmitStep DEF Keeps, Good
  <2>4. cancels = 0 => Moves(This, d)
    BY <1>1, <2>2, SubmitMoves DEF Orderly
  <2> HIDE DEF d
  <2> QED BY <1>4, <1>5, <2>1, <2>3, <2>4 DEF Submit, d
<1>6. ASSUME NEW f \in FlushCalls, Flush(f)
      PROVE  OrderInv' /\ Refines
  <2> DEFINE b == [This EXCEPT !.flushCtx = f, !.flushTold[f] = "waiting"]
  <2>1. PICK t \in Turns, sends \in Sends : Fresh(t) /\ Become(TryFlush(b, t, sends))
    BY <1>6 DEF Flush
  <2>2. sends \in BOOLEAN /\ FreshIn(This.agent, t)
    BY <1>3, <2>1, CoordinatorConstants DEF Fresh, FreshIn
  <2>3. CoordinatorOK(TryFlush(b, t, sends))
    BY <1>1, <2>2, FlushStep DEF Keeps, Good
  <2>4. cancels = 0 => Moves(This, TryFlush(b, t, sends))
    BY <1>1, <2>2, FlushMoves DEF Orderly
  <2> HIDE DEF b
  <2> QED BY <1>4, <1>6, <2>1, <2>3, <2>4 DEF Flush
<1>7. ASSUME NEW t \in Turns, Complete(t)
      PROVE  OrderInv' /\ Refines
  <2> DEFINE d(r, sends) ==
        LET out == Respond(agent, t, r, sends)
        IN  TurnDone([This EXCEPT !.agent = out.agent],
                     agent.ctx[t].done, out.result, t, sends)
  <2>1. PICK r \in Responses, sends \in Sends : Become(d(r, sends))
    BY <1>7 DEF Complete
  <2>2. sends \in BOOLEAN /\ InFlight(This.agent, t)
    BY <1>3, <1>7, CoordinatorConstants DEF Complete
  <2>3. CoordinatorOK(d(r, sends))
    BY <1>1, <1>3, <2>2, CompleteStep DEF Keeps, Good
  <2>4. cancels = 0 => Moves(This, d(r, sends))
    BY <1>1, <1>3, <2>2, CompleteMoves DEF Orderly
  <2> HIDE DEF d
  <2> QED BY <1>4, <1>7, <2>1, <2>3, <2>4 DEF Complete
<1>8. ASSUME NEW online \in Reports, Report(online)
      PROVE  OrderInv' /\ Refines
  <2>1. PICK t \in Turns, sends \in Sends :
           Fresh(t) /\ Become(SetOnline(This, online, t, sends))
    BY <1>8 DEF Report
  <2>2. sends \in BOOLEAN /\ online \in BOOLEAN /\ FreshIn(This.agent, t)
    BY <1>3, <2>1, CoordinatorConstants DEF Fresh, FreshIn
  <2> DEFINE d == SetOnline(This, online, t, sends)
  <2>3. CoordinatorOK(d)
    BY <1>1, <2>2, ReportStep DEF Keeps, Good
  <2>4. cancels = 0 => Moves(This, d)
    BY <1>1, <2>2, ReportMoves
  <2> HIDE DEF d
  <2> QED BY <1>4, <1>8, <2>1, <2>3, <2>4 DEF Report, d
<1>9. ASSUME Cancel
      PROVE  OrderInv' /\ Refines
  <2>1. cancels' # 0
    BY <1>9 DEF OrderInv, DeliveryInv, IInv, Cancel
  <2> QED BY <1>2, <2>1 DEF OrderInv, Refines
<1>10. ASSUME UNCHANGED vars
       PROVE  OrderInv' /\ Refines
  <2>1. This' = This /\ cancels' = cancels /\ UNCHANGED <<WaitingTexts, fate>>
    BY <1>10 DEF vars, This, WaitingTexts
  <2>2. Orderly(This)' <=> Orderly(This)
    BY <2>1 DEF Orderly, Tracked, Distinct, New
  <2> QED BY <1>1, <1>2, <2>1, <2>2 DEF OrderInv, Refines
<1> QED BY <1>5, <1>6, <1>7, <1>8, <1>9, <1>10 DEF Next

(* Without autoFlushOnOnline the coordinator implements MessageDelivery    *)
(* until cancel() is called: tryFlush, finishFlushItem and                 *)
(* submitUserMessage settle what is queued in the order it was accepted,   *)
(* and each message once.                                                  *)
THEOREM DeliveredInOrder ==
  ASSUME ~ AutoFlush, LoadedOnce
  PROVE  Spec => DeliversInOrder
<1>1. Init => OrderInv /\ Delivery!Init
  BY InitiallyOrdered
<1>2. OrderInv /\ [Next]_vars => OrderInv' /\ Refines
  BY InductiveOrdered
<1>3. Refines => [cancels' = 0 => Delivery!Next]_<<WaitingTexts, fate>>
  BY DEF Refines
<1> QED BY <1>1, <1>2, <1>3, PTL DEF Spec, DeliversInOrder

-----------------------------------------------------------------------------
(* What is left over of a queued message in the session                    *)

(* The prompts and messages the coordinator's agent has in its session *)
SessionPrompts == {NoPrompt, Prompt}

SessionMessages ==
  PromptMessages(SessionPrompts)
    \cup {Message("user", m, 0, MessageSize) : m \in Msgs}
    \cup {Message("assistant", NoText, n, MessageSize) : n \in Nat}
    \cup {Message("tool", NoText, 0, MessageSize)}

Usable(s) == s \in Sessions(SessionPrompts, SessionMessages) /\ Flagged(s)

(* Message m is not in history h. *)
Absent(h, m) == \A i \in 1 .. Len(h) : h[i].text # m

(* A message of the assistant with tool calls is behind every m in h, *)
Followed(h, m) ==
  \A i \in 1 .. Len(h) : h[i].text = m => i < Len(h) /\ h[i + 1].calls > 0

(* or the m is the last message. *)
FollowedOrLast(h, m) ==
  \A i \in 1 .. Len(h) : h[i].text = m => i = Len(h) \/ h[i + 1].calls > 0

(* From history h to g the messages of S are left as they are. *)
Leaves(h, g, S) ==
  \A m \in S : /\ Absent(h, m) => Absent(g, m)
               /\ Followed(h, m) => Followed(g, m)

LEMMA MessageFacts ==
  /\ PromptMessages(SessionPrompts) \subseteq SessionMessages
  /\ \A m \in Msgs : LET x == Message("user", m, 0, MessageSize)
                     IN  x \in SessionMessages /\ x.role = "user" /\ x.text = m
  /\ \A n \in Nat : LET x == Message("assistant", NoText, n, MessageSize)
                    IN  /\ x \in SessionMessages /\ x.role = "assistant"
                        /\ x.text = NoText /\ x.calls = n
  /\ Message("tool", NoText, 0, MessageSize) \in SessionMessages
  /\ \A x \in SessionMessages :
        /\ x.calls \in Nat
        /\ x.text \in Msgs => x.role = "user"
        /\ x.role = "user" => x.calls = 0
<1>1. PromptMessages(SessionPrompts) \subseteq SessionMessages
  BY DEF SessionMessages
<1>2. ASSUME NEW m \in Msgs
      PROVE  LET x == Message("user", m, 0, MessageSize)
             IN  x \in SessionMessages /\ x.role = "user" /\ x.text = m
  <2>1. Message("user", m, 0, MessageSize) \in SessionMessages
    BY DEF SessionMessages
  <2> QED BY <2>1 DEF Message
<1>3. ASSUME NEW n \in Nat
      PROVE  LET x == Message("assistant", NoText, n, MessageSize)
             IN  /\ x \in SessionMessages /\ x.role = "assistant"
                 /\ x.text = NoText /\ x.calls = n
  <2>1. Message("assistant", NoText, n, MessageSize) \in SessionMessages
    BY DEF SessionMessages
  <2> QED BY <2>1 DEF Message
<1>4. Message("tool", NoText, 0, MessageSize) \in SessionMessages
  BY DEF SessionMessages
<1>5. ASSUME NEW x \in SessionMessages
      PROVE  /\ x.calls \in Nat
             /\ x.text \in Msgs => x.role = "user"
             /\ x.role = "user" => x.calls = 0
  <2>1. CASE x \in PromptMessages(SessionPrompts)
    <3>1. PICK p \in SessionPrompts \ {NoPrompt} :
            x = Message("system", p, 0, PromptSize[p])
      BY <2>1 DEF PromptMessages
    <3>2. x.role = "system" /\ x.text = p /\ x.calls = 0 /\ p \notin Msgs
      BY <3>1, CoordinatorConstants DEF Message, SessionPrompts
    <3> QED BY <3>2
  <2>2. CASE \E m \in Msgs : x = Message("user", m, 0, MessageSize)
    BY <2>2 DEF Message
  <2>3. CASE \E n \in Nat : x = Message("assistant", NoText, n, MessageSize)
    <3>1. PICK n \in Nat : x = Message("assistant", NoText, n, MessageSize)
      BY <2>3
    <3> QED BY <3>1, CoordinatorConstants DEF Message
  <2>4. CASE x = Message("tool", NoText, 0, MessageSize)
    BY <2>4, CoordinatorConstants DEF Message
  <2> QED BY <2>1, <2>2, <2>3, <2>4 DEF SessionMessages
<1> QED BY <1>1, <1>2, <1>3, <1>4, <1>5

-----------------------------------------------------------------------------
(* Histories                                                               *)

LEMMA AbsentFollowed ==
  ASSUME NEW h \in Seq(SessionMessages), NEW m
  PROVE  /\ Absent(h, m) => Followed(h, m)
         /\ Followed(h, m) => FollowedOrLast(h, m)
BY DEF Absent, Followed, FollowedOrLast

(* trim() drops the oldest messages. *)
LEMMA LeavesWithout ==
  ASSUME NEW h \in Seq(SessionMessages), NEW k \in 0 .. Len(h)
  PROVE  LET w == Without(h, k)
         IN  /\ Leaves(h, w, Msgs)
             /\ \A m \in Msgs : FollowedOrLast(h, m) => FollowedOrLast(w, m)
<1> DEFINE w == Without(h, k)
           n == Len(h)
<1>1. /\ n \in Nat /\ k \in 0 .. n
      /\ Len(w) = n - k
      /\ \A i \in 1 .. n - k : w[i] = h[k + i]
  BY LenProperties, WithoutFacts
<1> HIDE DEF w, n
<1> SUFFICES ASSUME NEW m \in Msgs
             PROVE  /\ Absent(h, m) => Absent(w, m)
                    /\ Followed(h, m) => Followed(w, m)
                    /\ FollowedOrLast(h, m) => FollowedOrLast(w, m)
  BY DEF Leaves, w
<1>2. ASSUME NEW i \in 1 .. Len(w)
      PROVE  /\ k + i \in 1 .. n /\ w[i] = h[k + i]
             /\ i < Len(w) <=> k + i < n
             /\ i = Len(w) <=> k + i = n
             /\ i < Len(w) => w[i + 1] = h[(k + i) + 1]
  <2>1. i < Len(w) => i + 1 \in 1 .. n - k /\ k + (i + 1) = (k + i) + 1
    BY <1>1
  <2> QED BY <1>1, <2>1
<1>3. Absent(h, m) => Absent(w, m)
  <2> SUFFICES ASSUME Absent(h, m), NEW i \in 1 .. Len(w) PROVE w[i].text # m
    BY DEF Absent
  <2>1. h[k + i].text # m
    BY <1>2 DEF Absent, n
  <2> QED BY <1>2, <2>1
<1>4. Followed(h, m) => Followed(w, m)
  <2> SUFFICES ASSUME Followed(h, m), NEW i \in 1 .. Len(w), w[i].text = m
               PROVE  i < Len(w) /\ w[i + 1].calls > 0
    BY DEF Followed
  <2>1. k + i < n /\ h[(k + i) + 1].calls > 0
    BY <1>2 DEF Followed, n
  <2> QED BY <1>2, <2>1
<1>5. ASSUME FollowedOrLast(h, m), NEW i \in 1 .. Len(w), w[i].text = m, i # Len(w)
      PROVE  w[i + 1].calls > 0
  <2>1. i < Len(w)
    BY <1>1, <1>5
  <2> QED BY <1>2, <1>5, <2>1 DEF FollowedOrLast, n
<1> QED BY <1>3, <1>4, <1>5 DEF FollowedOrLast

LEMMA LeavesAppend ==
  ASSUME NEW h \in Seq(SessionMessages), NEW x \in SessionMessages
  PROVE  LET a == Append(h, x)
         IN  /\ a \in Seq(SessionMessages)
             /\ Leaves(h, a, Msgs \ {x.text})
             /\ \A m \in Msgs : Followed(h, m) => FollowedOrLast(a, m)
             /\ x.text \notin Msgs /\ x.calls > 0 =>
                  \A m \in Msgs : FollowedOrLast(h, m) => Followed(a, m)
<1> DEFINE a == Append(h, x)
           n == Len(h)
<1>1. /\ n \in Nat
      /\ a \in Seq(SessionMessages) /\ Len(a) = n + 1
      /\ \A i \in 1 .. n : a[i] = h[i]
      /\ a[n + 1] = x
  BY LenProperties, AppendProperties
<1> HIDE DEF a, n
<1>2. \A i \in 1 .. Len(a) : i \in 1 .. n \/ i = n + 1
  BY <1>1
<1>3. \A i \in 1 .. n : i < n => i + 1 \in 1 .. n
  BY <1>1
<1>4. ASSUME NEW m \in Msgs \ {x.text}
      PROVE  /\ Absent(h, m) => Absent(a, m)
             /\ Followed(h, m) => Followed(a, m)
  <2>1. Absent(h, m) => Absent(a, m)
    BY <1>1, <1>2 DEF Absent, n
  <2>2. ASSUME Followed(h, m), NEW i \in 1 .. Len(a), a[i].text = m
        PROVE  i < Len(a) /\ a[i + 1].calls > 0
    <3>1. i \in 1 .. n /\ h[i].text = m
      BY <1>1, <1>2, <2>2
    <3>2. i < n /\ h[i + 1].calls > 0
      BY <2>2, <3>1 DEF Followed, n
    <3> QED BY <1>1, <1>3, <3>1, <3>2
  <2> QED BY <2>1, <2>2 DEF Followed
<1>5. ASSUME NEW m \in Msgs, Followed(h, m), NEW i \in 1 .. Len(a), a[i].text = m,
             i # Len(a)
      PROVE  a[i + 1].calls > 0
  <2>1. i \in 1 .. n /\ h[i].text = m
    BY <1>1, <1>2, <1>5
  <2>2. i < n /\ h[i + 1].calls > 0
    BY <1>5, <2>1 DEF Followed, n
  <2> QED BY <1>1, <1>3, <2>1, <2>2
<1>6. ASSUME x.text \notin Msgs, x.calls > 0, NEW m \in Msgs, FollowedOrLast(h, m),
             NEW i \in 1 .. Len(a), a[i].text = m
      PROVE  i < Len(a) /\ a[i + 1].calls > 0
  <2>1. i \in 1 .. n /\ h[i].text = m
    BY <1>1, <1>2, <1>6
  <2>2. i = n \/ h[i + 1].calls > 0
    BY <1>6, <2>1 DEF FollowedOrLast, n
  <2>3. CASE i = n
    BY <1>1, <1>6, <2>3
  <2>4. CASE i # n
    <3>1. i < n
      BY <1>1, <2>1, <2>4
    <3> QED BY <1>1, <1>3, <2>1, <2>2, <2>4, <3>1
  <2> QED BY <2>3, <2>4
<1>7. Leaves(h, a, Msgs \ {x.text})
  BY <1>4 DEF Leaves
<1>8. \A m \in Msgs : Followed(h, m) => FollowedOrLast(a, m)
  BY <1>5 DEF FollowedOrLast
<1>9. x.text \notin Msgs /\ x.calls > 0 =>
        \A m \in Msgs : FollowedOrLast(h, m) => Followed(a, m)
  BY <1>6 DEF Followed
<1> QED BY <1>1, <1>7, <1>8, <1>9 DEF a

LEMMA LeavesConcat ==
  ASSUME NEW h \in Seq(SessionMessages), NEW g \in Seq(SessionMessages),
         \A i \in 1 .. Len(g) : g[i].text \notin Msgs
  PROVE  h \o g \in Seq(SessionMessages) /\ Leaves(h, h \o g, Msgs)
<1> DEFINE b == h \o g
           n == Len(h)
           l == Len(g)
<1>1. /\ n \in Nat /\ l \in Nat
      /\ b \in Seq(SessionMessages) /\ Len(b) = n + l
      /\ \A i \in 1 .. n + l : b[i] = IF i <= n THEN h[i] ELSE g[i - n]
  BY LenProperties, ConcatProperties
<1> HIDE DEF b
<1>2. \A i \in 1 .. l : g[i].text \notin Msgs
  OBVIOUS
<1> HIDE DEF n, l
<1>3. \A i \in 1 .. n : b[i] = h[i] /\ i \in 1 .. n + l
  BY <1>1
<1>4. ASSUME NEW m \in Msgs, NEW i \in 1 .. Len(b), b[i].text = m
      PROVE  i \in 1 .. n /\ h[i].text = m
  <2>1. CASE i <= n
    BY <1>1, <1>4, <2>1
  <2>2. CASE ~ (i <= n)
    <3>1. i - n \in 1 .. l /\ b[i] = g[i - n]
      BY <1>1, <2>2
    <3> QED BY <1>2, <1>4, <3>1
  <2> QED BY <2>1, <2>2
<1>5. ASSUME NEW m \in Msgs
      PROVE  /\ Absent(h, m) => Absent(b, m)
             /\ Followed(h, m) => Followed(b, m)
  <2>1. Absent(h, m) => Absent(b, m)
    BY <1>4 DEF Absent, n
  <2>2. ASSUME Followed(h, m), NEW i \in 1 .. Len(b), b[i].text = m
        PROVE  i < Len(b) /\ b[i + 1].calls > 0
    <3>1. i \in 1 .. n /\ h[i].text = m
      BY <1>4, <2>2
    <3>2. i < n /\ h[i + 1].calls > 0
      BY <2>2, <3>1 DEF Followed, n
    <3>3. i + 1 \in 1 .. n
      BY <1>1, <3>1, <3>2
    <3> QED BY <1>1, <1>3, <3>1, <3>2, <3>3
  <2> QED BY <2>1, <2>2 DEF Followed
<1>6. Leaves(h, b, Msgs)
  BY <1>5 DEF Leaves
<1> QED BY <1>1, <1>6 DEF b

(* rollbackLastUser takes the last message, if a user said it. *)
LEMMA LeavesFront ==
  ASSUME NEW h \in Seq(SessionMessages)
  PROVE  LET g == IF Len(h) > 0 /\ h[Len(h)].role = "user"
                  THEN SubSeq(h, 1, Len(h) - 1) ELSE h
         IN  /\ Leaves(h, g, Msgs)
             /\ \A m \in Msgs : FollowedOrLast(h, m) => Followed(g, m)
<1> DEFINE n == Len(h)
           f == SubSeq(h, 1, n - 1)
           g == IF n > 0 /\ h[n].role = "user" THEN f ELSE h
<1>1. n \in Nat /\ \A i \in 1 .. n : h[i] \in SessionMessages
  BY LenProperties, ElementOfSeq
<1>2. n > 0 => Len(f) = n - 1 /\ \A i \in 1 .. n - 1 : f[i] = h[i]
  <2>1. ASSUME n > 0
        PROVE  Len(f) = n - 1 /\ \A i \in 1 .. n - 1 : f[i] = h[i]
    <3>1. n - 1 \in 0 .. n /\ 1 \in 1 .. n + 1 /\ \A i \in 1 .. n - 1 :
            h[i] \in SessionMessages
      BY <1>1, <2>1
    <3>2. /\ Len(f) = IF 1 <= n - 1 THEN (n - 1) - 1 + 1 ELSE 0
          /\ \A i \in 1 .. (n - 1) - 1 + 1 : f[i] = h[1 + i - 1]
      BY <1>1, <3>1, SubSeqProperties
    <3> HIDE DEF f, n
    <3> QED BY <1>1, <2>1, <3>2
  <2> QED BY <2>1
<1> HIDE DEF f
<1> SUFFICES ASSUME NEW m \in Msgs
             PROVE  /\ Absent(h, m) => Absent(g, m)
                    /\ FollowedOrLast(h, m) => Followed(g, m)
                    /\ Followed(h, m) => FollowedOrLast(h, m)
  BY DEF Leaves, f
<1>3. Followed(h, m) => FollowedOrLast(h, m)
  BY AbsentFollowed
<1>4. CASE n > 0 /\ h[n].role = "user"
  <2>1. g = f /\ Len(f) = n - 1 /\ \A i \in 1 .. n - 1 : f[i] = h[i] /\ i \in 1 .. n
    BY <1>1, <1>2, <1>4
  <2> HIDE DEF g
  <2>2. Absent(h, m) => Absent(g, m)
    BY <2>1 DEF Absent
  <2>3. ASSUME FollowedOrLast(h, m), NEW i \in 1 .. Len(g), g[i].text = m
        PROVE  i < Len(g) /\ g[i + 1].calls > 0
    <3>1. i \in 1 .. n - 1 /\ h[i].text = m /\ i \in 1 .. n /\ i # n
      BY <1>1, <2>1, <2>3
    <3>2. h[i + 1].calls > 0
      BY <2>3, <3>1 DEF FollowedOrLast
    <3>3. h[n] \in SessionMessages /\ h[n].calls = 0
      BY <1>1, <1>4, MessageFacts
    <3>4. i + 1 # n
      BY <3>2, <3>3
    <3>5. i + 1 \in 1 .. n - 1 /\ i < n - 1
      BY <1>1, <3>1, <3>4
    <3> QED BY <2>1, <3>2, <3>5
  <2> QED BY <1>3, <2>2, <2>3 DEF Followed
<1>5. CASE ~ (n > 0 /\ h[n].role = "user")
  <2>1. g = h
    BY <1>5
  <2> HIDE DEF g
  <2>2. ASSUME FollowedOrLast(h, m), NEW i \in 1 .. n, h[i].text = m
        PROVE  i < n /\ h[i + 1].calls > 0
    <3>1. h[i].role = "user"
      BY <1>1, <2>2, MessageFacts
    <3>2. i # n
      BY <1>1, <1>5, <3>1
    <3>3. h[i + 1].calls > 0
      BY <2>2, <3>2 DEF FollowedOrLast
    <3> QED BY <1>1, <3>2, <3>3
  <2> QED BY <1>3, <2>1, <2>2 DEF Followed
<1> QED BY <1>4, <1>5
-----------------------------------------------------------------------------
(* The session                                                             *)

(* The history of a session, and what an operation leaves of it *)
History(s) == NonSystemMessages(s)

LeftIn(s, m) == FollowedOrLast(History(s), m)

Preserves(s, d, S) == Usable(d) /\ Leaves(History(s), History(d), S)

LEMMA HistoryType ==
  ASSUME NEW s, Usable(s)
  PROVE  History(s) \in Seq(SessionMessages)
BY HistoryFacts DEF Usable, History

LEMMA PreservesComposes ==
  ASSUME NEW s, NEW d, NEW e, NEW S, Preserves(s, d, S), Preserves(d, e, S)
  PROVE  Preserves(s, e, S)
BY DEF Preserves, Leaves

LEMMA TrimmedPreserves ==
  ASSUME NEW s, NEW d, NEW h \in Seq(SessionMessages),
         TrimmedTo(SessionPrompts, SessionMessages, s, d, h)
  PROVE  /\ Usable(d) /\ Leaves(h, History(d), Msgs)
         /\ \A m \in Msgs : FollowedOrLast(h, m) => LeftIn(d, m)
<1>1. PICK k \in 0 .. Len(h) :
           HasHistory(SessionPrompts, SessionMessages, s, d, Without(h, k))
  BY DEF TrimmedTo
<1>2. Usable(d) /\ History(d) = Without(h, k)
  BY <1>1 DEF HasHistory, Usable, History
<1> QED BY <1>2, LeavesWithout DEF LeftIn

LEMMA AppendPreserves ==
  ASSUME NEW s, Usable(s), NEW x \in SessionMessages, x.role # "system"
  PROVE  LET d == AppendMessage(s, x)
         IN  /\ Preserves(s, d, Msgs \ {x.text})
             /\ \A m \in Msgs : Followed(History(s), m) => LeftIn(d, m)
             /\ x.text \notin Msgs /\ x.calls > 0 =>
                  \A m \in Msgs : LeftIn(s, m) => Followed(History(d), m)
<1> DEFINE d == AppendMessage(s, x)
           h == History(s)
           a == Append(h, x)
<1>1. h \in Seq(SessionMessages)
  BY HistoryType
<1>2. TrimmedTo(SessionPrompts, SessionMessages, s, d, a)
  BY AppendMessageFacts DEF Usable, History
<1> HIDE DEF d, h
<1>3. /\ a \in Seq(SessionMessages)
      /\ Leaves(h, a, Msgs \ {x.text})
      /\ \A m \in Msgs : Followed(h, m) => FollowedOrLast(a, m)
      /\ x.text \notin Msgs /\ x.calls > 0 =>
           \A m \in Msgs : FollowedOrLast(h, m) => Followed(a, m)
  BY <1>1, LeavesAppend
<1> HIDE DEF a
<1>4. /\ Usable(d) /\ Leaves(a, History(d), Msgs)
      /\ \A m \in Msgs : FollowedOrLast(a, m) => LeftIn(d, m)
  BY <1>2, <1>3, TrimmedPreserves
<1>5. Preserves(s, d, Msgs \ {x.text})
  BY <1>3, <1>4 DEF Preserves, Leaves, h
<1>6. \A m \in Msgs : Followed(h, m) => LeftIn(d, m)
  BY <1>3, <1>4
<1>7. x.text \notin Msgs /\ x.calls > 0 =>
        \A m \in Msgs : FollowedOrLast(h, m) => Followed(History(d), m)
  BY <1>3, <1>4 DEF Leaves
<1> QED BY <1>5, <1>6, <1>7 DEF d, h, LeftIn

(* submitUserMessage refreshes the prompt and appends m. *)
LEMMA UserPreserves ==
  ASSUME NEW s, Usable(s), NEW m \in Msgs
  PROVE  LET d == AppendUser(RefreshSystemPrompt(s), m, MessageSize)
         IN  Preserves(s, d, Msgs \ {m}) /\ (Followed(History(s), m) => LeftIn(d, m))
<1> DEFINE e == RefreshSystemPrompt(s)
           x == Message("user", m, 0, MessageSize)
           d == AppendUser(e, m, MessageSize)
<1>1. Usable(e) /\ History(e) = History(s)
  <2>1. Prompt \in SessionPrompts
    BY DEF SessionPrompts
  <2> QED BY <2>1, MessageFacts, SetSystemPromptFacts DEF Usable, History,
        RefreshSystemPrompt
<1>2. x \in SessionMessages /\ x.role = "user" /\ x.text = m
  BY MessageFacts
<1>3. d = AppendMessage(e, x)
  BY DEF AppendUser
<1> HIDE DEF e, x, d
<1>4. /\ Preserves(e, d, Msgs \ {m})
      /\ \A n \in Msgs : Followed(History(e), n) => LeftIn(d, n)
  BY <1>1, <1>2, <1>3, AppendPreserves
<1> QED BY <1>1, <1>4 DEF Preserves, d, e

LEMMA AssistantPreserves ==
  ASSUME NEW s, Usable(s), NEW n \in Nat
  PROVE  LET d == AppendAssistant(s, n, MessageSize)
         IN  /\ Preserves(s, d, Msgs)
             /\ n > 0 => \A m \in Msgs : LeftIn(s, m) => Followed(History(d), m)
<1> DEFINE x == Message("assistant", NoText, n, MessageSize)
           d == AppendAssistant(s, n, MessageSize)
<1>1. x \in SessionMessages /\ x.role = "assistant" /\ x.text \notin Msgs
        /\ x.calls = n
  BY MessageFacts, CoordinatorConstants
<1>2. d = AppendMessage(s, x)
  BY DEF AppendAssistant
<1> HIDE DEF x, d
<1>3. /\ Preserves(s, d, Msgs \ {x.text})
      /\ x.text \notin Msgs /\ x.calls > 0 =>
           \A m \in Msgs : LeftIn(s, m) => Followed(History(d), m)
  BY <1>1, <1>2, AppendPreserves
<1>4. Msgs \ {x.text} = Msgs
  BY <1>1
<1> QED BY <1>1, <1>3, <1>4 DEF d

LEMMA ResultsPreserve ==
  ASSUME NEW s, Usable(s), NEW n \in Nat
  PROVE  Preserves(s, AppendToolResults(s, n, MessageSize), Msgs)
<1> DEFINE r == Results(n, MessageSize)
           h == History(s)
           d == AppendToolResults(s, n, MessageSize)
<1>1. /\ r \in Seq(SessionMessages) /\ Len(r) = n
      /\ TrimmedTo(SessionPrompts, SessionMessages, s, d, h \o r)
  BY MessageFacts, AppendToolResultsFacts DEF Usable, History
<1>2. \A i \in 1 .. n : r[i].text \notin Msgs
  BY CoordinatorConstants DEF Results, Message
<1>3. h \in Seq(SessionMessages)
  BY HistoryType
<1> HIDE DEF r, h, d
<1>4. h \o r \in Seq(SessionMessages) /\ Leaves(h, h \o r, Msgs)
  BY <1>1, <1>2, <1>3, LeavesConcat
<1>5. Usable(d) /\ Leaves(h \o r, History(d), Msgs)
  BY <1>1, <1>4, TrimmedPreserves
<1> QED BY <1>4, <1>5 DEF Preserves, Leaves, h, d

LEMMA RollbackPreserves ==
  ASSUME NEW s, Usable(s)
  PROVE  LET d == RollbackLastUser(s)
         IN  /\ Preserves(s, d, Msgs)
             /\ \A m \in Msgs : LeftIn(s, m) => Followed(History(d), m)
<1> DEFINE h == History(s)
           d == RollbackLastUser(s)
           g == IF Len(h) > 0 /\ h[Len(h)].role = "user" THEN SubSeq(h, 1, Len(h) - 1) ELSE h
<1>1. HasHistory(SessionPrompts, SessionMessages, s, d, g)
  BY RollbackLastUserFacts DEF Usable, History
<1>2. h \in Seq(SessionMessages)
  BY HistoryType
<1> HIDE DEF h, d
<1>3. Leaves(h, g, Msgs) /\ \A m \in Msgs : FollowedOrLast(h, m) => Followed(g, m)
  BY <1>2, LeavesFront
<1> HIDE DEF g
<1>4. Usable(d) /\ History(d) = g
  BY <1>1 DEF HasHistory, Usable, History
<1> QED BY <1>3, <1>4 DEF Preserves, LeftIn, h, d

-----------------------------------------------------------------------------
(* The agent                                                               *)

LEMMA FinishSession ==
  ASSUME NEW a, AgentOK(a), NEW t, NEW result
  PROVE  FinishTurn(a, t, result).agent.session = a.session
BY DEF AgentOK, FinishTurn

LEMMA RunTurnSession ==
  ASSUME NEW a, AgentOK(a), NEW t, NEW sends \in BOOLEAN
  PROVE  /\ RunTurn(a, t, sends).agent.session = a.session
         /\ RunTurn(a, t, sends).result # "ok"
BY FinishSession, AgentConstants DEF RunTurn, FinishTurn

(* A submission leaves the session alone, if another turn is active, or    *)
(* adds the message.                                                       *)
LEMMA SubmitSession ==
  ASSUME NEW a, AgentOK(a), Usable(a.session), NEW m \in Msgs, NEW done,
         NEW t \in Turns, NEW sends \in BOOLEAN
  PROVE  LET out == AgentSubmit(a, m, done, t, sends)
         IN  /\ Preserves(a.session, out.agent.session, Msgs \ {m})
             /\ Followed(History(a.session), m) => LeftIn(out.agent.session, m)
             /\ a.active # NoTurn => out.agent.session = a.session
<1> DEFINE out == AgentSubmit(a, m, done, t, sends)
           d == AppendUser(RefreshSystemPrompt(a.session), m, MessageSize)
           b == [a EXCEPT !.session = d, !.active = t, !.ctx[t] = [done |-> done, round |-> 0]]
<1>1. CASE a.active # NoTurn
  <2>1. out.agent.session = a.session
    BY <1>1 DEF AgentSubmit
  <2>2. History(a.session) \in Seq(SessionMessages)
    BY HistoryType
  <2>3. Followed(History(a.session), m) => LeftIn(a.session, m)
    BY <2>2, AbsentFollowed DEF LeftIn
  <2> QED BY <2>1, <2>3 DEF Preserves, Leaves
<1>2. CASE a.active = NoTurn
  <2>1. m # NoText
    BY CoordinatorConstants
  <2>2. out = RunTurn(b, t, sends)
    BY <1>2, <2>1 DEF AgentSubmit
  <2> HIDE DEF d, out
  <2>3. b.session = d
    BY DEF AgentOK
  <2>4. out.agent.session = d
    <3>1. CASE b.ctx[t].round >= MaxToolRoundTrips
      BY <2>2, <2>3, <3>1 DEF RunTurn, FinishTurn, AgentOK
    <3>2. CASE ~ (b.ctx[t].round >= MaxToolRoundTrips)
      BY <2>2, <2>3, <3>2 DEF RunTurn, FinishTurn, AgentOK
    <3> QED BY <3>1, <3>2
  <2>5. Preserves(a.session, d, Msgs \ {m})
          /\ (Followed(History(a.session), m) => LeftIn(d, m))
    BY UserPreserves DEF d
  <2> QED BY <1>2, <2>4, <2>5 DEF out
<1> QED BY <1>1, <1>2

(* An answer is appended, with the results of its tool calls, if it has    *)
(* any; then what was the last message is not left without tool calls      *)
(* behind it.  A request that failed leaves the session alone.             *)
LEMMA RespondSession ==
  ASSUME NEW a, AgentOK(a), Usable(a.session), NEW t \in Turns, InFlight(a, t),
         NEW r \in Responses, NEW sends \in BOOLEAN
  PROVE  LET out == Respond(a, t, r, sends)
             s   == out.agent.session
         IN  /\ Preserves(a.session, s, Msgs)
             /\ out.result # "ok" => \A m \in Msgs : LeftIn(a.session, m)
                  => LeftIn(s, m)
<1> DEFINE said == AppendAssistant(a.session, r.calls, MessageSize)
           results == AppendToolResults(said, r.invoked, MessageSize)
           worked == [a EXCEPT !.session = results]
           out == Respond(a, t, r, sends)
<1>1. r.error \in Errors \cup {NoError} /\ r.calls \in Nat /\ r.invoked \in Nat
  BY CoordinatorConstants
<1>2. Preserves(a.session, said, Msgs) /\ Usable(said)
      /\ (r.calls > 0 =>
            \A m \in Msgs : LeftIn(a.session, m) => Followed(History(said), m))
  BY <1>1, AssistantPreserves DEF Preserves
<1> HIDE DEF said
<1>3. Preserves(said, results, Msgs)
  BY <1>1, <1>2, ResultsPreserve
<1>4. results = AppendToolResults(said, r.invoked, MessageSize)
  OBVIOUS
<1>5. out = IF r.error # NoError THEN FinishTurn(a, t, r.error)
            ELSE IF r.calls = 0 THEN FinishTurn([a EXCEPT !.session = said], t, "ok")
            ELSE IF ~ HasRegistry THEN FinishTurn(a, t, "noRegistry")
            ELSE IF r.invoked < r.calls THEN FinishTurn(worked, t, "toolFailed")
            ELSE RunTurn(NextRound(worked, t), t, sends)
  BY DEF Respond, said
<1> HIDE DEF results, out
<1>6. CASE out = FinishTurn(a, t, r.error) \/ out = FinishTurn(a, t, "noRegistry")
  <2>1. out.agent.session = a.session
    BY <1>6, FinishSession
  <2> QED BY <2>1 DEF Preserves, Leaves, out
<1>7. CASE out = FinishTurn([a EXCEPT !.session = said], t, "ok")
  <2>1. AgentOK([a EXCEPT !.session = said])
          /\ [a EXCEPT !.session = said].session = said
    BY DEF AgentOK
  <2>2. out.agent.session = said /\ out.result = "ok"
    <3> DEFINE b == [a EXCEPT !.session = said]
    <3>1. AgentOK(b) /\ b.session = said /\ out = FinishTurn(b, t, "ok")
      BY <1>7, <2>1
    <3> HIDE DEF b
    <3>2. FinishTurn(b, t, "ok").agent.session = b.session
      BY <3>1, FinishSession
    <3>3. FinishTurn(b, t, "ok").result = "ok"
      BY DEF FinishTurn
    <3> QED BY <3>1, <3>2, <3>3
  <2> QED BY <1>2, <2>2 DEF out
<1>8. CASE /\ r.calls > 0
           /\ \/ out = FinishTurn(worked, t, "toolFailed")
              \/ out = RunTurn(NextRound(worked, t), t, sends)
  <2>1. AgentOK(worked) /\ worked.session = results /\ worked.ctx = a.ctx
    BY DEF AgentOK
  <2> HIDE DEF worked
  <2>2. AgentOK(NextRound(worked, t)) /\ NextRound(worked, t).session = results
    <3>1. [a.ctx[t] EXCEPT !.round = @ + 1] \in TurnContext
      BY DEF AgentOK, InFlight, TurnContext
    <3> QED BY <2>1, <3>1 DEF AgentOK, NextRound
  <2>3. out.agent.session = results
    BY <1>8, <2>1, <2>2, FinishSession, RunTurnSession
  <2>4. Preserves(a.session, results, Msgs)
    BY <1>2, <1>3, PreservesComposes
  <2>5. ASSUME NEW m \in Msgs, LeftIn(a.session, m)
        PROVE  LeftIn(results, m)
    <3>1. Followed(History(results), m)
      BY <1>2, <1>3, <1>8, <2>5 DEF Preserves, Leaves
    <3>2. History(results) \in Seq(SessionMessages)
      BY <1>3, HistoryType DEF Preserves
    <3> QED BY <3>1, <3>2, AbsentFollowed DEF LeftIn
  <2> QED BY <2>3, <2>4, <2>5 DEF out
<1> HIDE DEF worked
<1> QED BY <1>1, <1>5, <1>6, <1>7, <1>8
-----------------------------------------------------------------------------
(* The coordinator                                                         *)

(* What a queued message has left in the session, other than those of S:   *)
(* nothing before it was sent, only what a tool round has made part of the *)
(* conversation before it is sent again, and at most the last message      *)
(* while it is being sent.                                                 *)
Tidy(c, S) ==
  /\ Usable(c.agent.session)
  /\ \A m \in Msgs : c.told[m] = "none" => Absent(History(c.agent.session), m)
  /\ \A m \in Msgs \ S :
        m \in Texts(c.queue) =>
          \/ \E t \in Turns : ServesIn(c.agent, t, "flush", m)
          \/ Followed(History(c.agent.session), m)
  /\ \A m \in Msgs, t \in Turns, by \in {"direct", "flush"} :
        ServesIn(c.agent, t, by, m) => LeftIn(c.agent.session, m)

LEMMA TidySame ==
  ASSUME NEW c, NEW S, Tidy(c, S), NEW d, NEW R,
         d.agent = c.agent,
         \A m \in Msgs : d.told[m] = "none" => c.told[m] = "none",
         \A m \in Msgs \ R : m \in Texts(d.queue) => m \in Texts(c.queue)
           /\ m \notin S
  PROVE  Tidy(d, R)
BY DEF Tidy

LEMMA TidyAlike ==
  ASSUME NEW c, Tidy(c, {}), NEW d, d.agent = c.agent, d.queue = c.queue,
         \A m \in Msgs : d.told[m] = "none" => c.told[m] = "none"
  PROVE  Tidy(d, {})
BY DEF Tidy

LEMMA SettlesTexts ==
  ASSUME NEW c, CoordinatorOK(c), NEW d, CoordinatorOK(d), NEW n,
         SettlesFirst(c, d, n)
  PROVE  Texts(d.queue) \subseteq Texts(c.queue) /\ d.told = c.told
<1>1. /\ Len(c.queue) \in Nat /\ n \in 0 .. Len(c.queue)
           /\ Len(d.queue) = Len(c.queue) - n
      /\ \A i \in 1 .. Len(d.queue) : d.queue[i].text = c.queue[n + i].text
  BY QueueFacts DEF SettlesFirst
<1>2. ASSUME NEW m \in Texts(d.queue)
      PROVE  m \in Texts(c.queue)
  <2>1. PICK i \in 1 .. Len(d.queue) : d.queue[i].text = m
    <3>1. \A x : x \in Texts(d.queue) <=> \E i \in 1 .. Len(d.queue) : d.queue[i].text = x
      BY QueueFacts
    <3> QED BY <1>2, <3>1
  <2>2. n + i \in 1 .. Len(c.queue) /\ c.queue[n + i].text = m
    BY <1>1, <2>1
  <2>3. \A x : x \in Texts(c.queue) <=> \E k \in 1 .. Len(c.queue) : c.queue[k].text = x
    BY QueueFacts
  <2> QED BY <2>2, <2>3
<1> QED BY <1>2 DEF SettlesFirst

(* rollbackLastUser takes the message that was being sent. *)
LEMMA RollbackTidy ==
  ASSUME NEW c, CoordinatorOK(c), NEW S, Tidy(c, S),
         \A m \in S \cap Msgs : LeftIn(c.agent.session, m),
         NEW d, d.agent = Rollback(c.agent), d.told = c.told,
         Texts(d.queue) \subseteq Texts(c.queue)
  PROVE  /\ Tidy(d, {})
         /\ \A m \in Msgs : LeftIn(c.agent.session, m)
                              => Followed(History(d.agent.session), m)
<1> DEFINE s == c.agent.session
           r == d.agent.session
<1>1. r = RollbackLastUser(s) /\ d.agent.ctx = c.agent.ctx
  BY DEF Rollback, CoordinatorOK, AgentOK
<1>2. Usable(s)
  BY DEF Tidy
<1> HIDE DEF s, r
<1>3. /\ Usable(r) /\ Leaves(History(s), History(r), Msgs)
      /\ \A m \in Msgs : LeftIn(s, m) => Followed(History(r), m)
  BY <1>1, <1>2, RollbackPreserves DEF Preserves
<1>4. \A m \in Msgs : c.told[m] = "none" => Absent(History(s), m)
  BY DEF Tidy, s
<1>5. \A m \in Msgs : d.told[m] = "none" => Absent(History(r), m)
  BY <1>3, <1>4 DEF Leaves
<1>6. \A t \in Turns : \A by, m : ServesIn(d.agent, t, by, m)
        <=> ServesIn(c.agent, t, by, m)
  BY <1>1 DEF ServesIn, InFlight
<1>7. ASSUME NEW m \in Msgs, m \in Texts(d.queue)
      PROVE  \/ \E t \in Turns : ServesIn(d.agent, t, "flush", m)
             \/ Followed(History(r), m)
  <2>1. \/ m \in S
        \/ \E t \in Turns : ServesIn(c.agent, t, "flush", m)
        \/ Followed(History(s), m)
    BY <1>7 DEF Tidy, s
  <2>2. CASE m \in S
    BY <1>3, <2>2 DEF s
  <2> QED BY <1>3, <1>6, <2>1, <2>2 DEF Leaves
<1>8. ASSUME NEW m \in Msgs, NEW t \in Turns, NEW by \in {"direct", "flush"},
             ServesIn(d.agent, t, by, m)
      PROVE  LeftIn(r, m)
  <2>1. LeftIn(s, m)
    BY <1>6, <1>8 DEF Tidy, s
  <2>2. Followed(History(r), m) /\ History(r) \in Seq(SessionMessages)
    BY <1>3, <2>1, HistoryType
  <2> QED BY <2>2, AbsentFollowed DEF LeftIn
<1>9. Tidy(d, {})
  BY <1>3, <1>5, <1>7, <1>8 DEF Tidy, r
<1> QED BY <1>3, <1>9 DEF s, r

LEMMA RetryLaterTidy ==
  ASSUME NEW c, CoordinatorOK(c), NEW S, Tidy(c, S),
         \A m \in S \cap Msgs : LeftIn(c.agent.session, m)
  PROVE  Tidy(RetryLater(c), {})
<1> DEFINE back == [GoOffline(c) EXCEPT !.agent = Rollback(@)]
           bumped == BumpFront(back)
           d == RetryLater(c)
<1>1. back.agent = Rollback(c.agent) /\ {"agent", "flushCtx"} \subseteq DOMAIN back
  BY DEF CoordinatorOK, GoOffline
<1>2. d = AnswerFlush(bumped, "failed")
  BY DEF RetryLater
<1> HIDE DEF back
<1>3. bumped.agent = back.agent /\ {"agent", "flushCtx"} \subseteq DOMAIN bumped
  BY <1>1 DEF BumpFront
<1> HIDE DEF bumped
<1>4. d.agent = bumped.agent
  BY <1>2, <1>3 DEF AnswerFlush
<1>5. CoordinatorOK(d) /\ SettlesFirst(c, d, 0)
  BY RetryLaterFacts, RetryLaterSettlesNone
<1> HIDE DEF d
<1>6. Texts(d.queue) \subseteq Texts(c.queue) /\ d.told = c.told
  BY <1>5, SettlesTexts
<1> QED BY <1>1, <1>3, <1>4, <1>6, RollbackTidy DEF d

(* A message that has left nothing but a tool round is submitted. *)
LEMMA AgentSubmitTidy ==
  ASSUME NEW c, CoordinatorOK(c), Alone(c), Tidy(c, {}), NEW m \in Msgs,
         NEW by \in {"direct", "flush"}, NEW t \in Turns, NEW sends \in BOOLEAN,
         FreshIn(c.agent, t),
         LeftIn(c.agent.session, m),
         c.agent.active = NoTurn => Followed(History(c.agent.session), m),
         NEW d,
         d.agent = AgentSubmit(c.agent, m, [by |-> by, text |-> m], t, sends).agent,
         Texts(d.queue) \subseteq Texts(c.queue),
         \A n \in Msgs : d.told[n] = "none" => c.told[n] = "none" /\ n # m
  PROVE  Tidy(d, {m}) /\ LeftIn(d.agent.session, m)
<1> DEFINE done == [by |-> by, text |-> m]
           out == AgentSubmit(c.agent, m, done, t, sends)
           s == c.agent.session
           r == d.agent.session
<1>1. AgentOK(c.agent) /\ Usable(s) /\ done \in DoneCallbacks
  BY DEF CoordinatorOK, Tidy, DoneCallbacks
<1> HIDE DEF done
<1>2. /\ AgentOK(out.agent)
      /\ out.result = Pending =>
           out.agent.ctx = [c.agent.ctx EXCEPT ![t] = [done |-> done, round |-> 0]]
      /\ out.result # Pending => out.agent.ctx = c.agent.ctx
  BY <1>1, AgentSubmitFacts
<1>3. /\ Preserves(s, out.agent.session, Msgs \ {m})
      /\ Followed(History(s), m) => LeftIn(out.agent.session, m)
      /\ c.agent.active # NoTurn => out.agent.session = s
  BY <1>1, SubmitSession
<1>4. c.agent.active # NoTurn => out.agent = c.agent
  BY DEF AgentSubmit
<1>5. d.agent = out.agent /\ done.text = m
  BY DEF done
<1>6. \A b, n : [by |-> b, text |-> n].text = n
  OBVIOUS
<1> HIDE DEF out, s, r
<1>7. LeftIn(r, m)
  BY <1>3, <1>5 DEF r, s
<1>8. Usable(r) /\ Leaves(History(s), History(r), Msgs \ {m})
  BY <1>3, <1>5 DEF Preserves, r
<1>9. \A n \in Msgs : d.told[n] = "none" => Absent(History(r), n)
  BY <1>8 DEF Tidy, Leaves, s
<1>10. CASE c.agent.active # NoTurn
  BY <1>4, <1>5, <1>7, <1>9, <1>10 DEF Tidy, r
<1>11. CASE c.agent.active = NoTurn
  <2>1. \A u \in Turns : ~ InFlight(c.agent, u)
    BY <1>11, AgentConstants DEF Alone
  <2>2. ASSUME NEW n \in Msgs \ {m}, n \in Texts(d.queue)
        PROVE  Followed(History(r), n)
    <3>1. Followed(History(s), n)
      BY <2>1, <2>2 DEF Tidy, ServesIn, s
    <3> QED BY <1>8, <3>1 DEF Leaves
  <2>3. ASSUME NEW n \in Msgs, NEW u \in Turns, NEW b, ServesIn(d.agent, u, b, n)
        PROVE  n = m
    <3>1. out.agent.ctx[u] # NoCtx /\ out.agent.ctx[u].done = [by |-> b, text |-> n]
      BY <1>5, <2>3 DEF ServesIn, InFlight
    <3>2. c.agent.ctx[u] = NoCtx
      BY <2>1 DEF InFlight
    <3>3. out.result = Pending
      BY <1>2, <3>1, <3>2
    <3>4. u = t /\ out.agent.ctx[u].done = done
      BY <1>1, <1>2, <3>1, <3>2, <3>3 DEF AgentOK
    <3> QED BY <1>5, <1>6, <3>1, <3>4
  <2> QED BY <1>7, <1>8, <1>9, <2>2, <2>3 DEF Tidy, r
<1> QED BY <1>7, <1>10, <1>11 DEF r

(* What is queued and not being sent may be sent. *)
LEMMA QueuedLeft ==
  ASSUME NEW c, Alone(c), Tidy(c, {}), NEW m \in Msgs, m \in Texts(c.queue)
  PROVE  /\ LeftIn(c.agent.session, m)
         /\ c.agent.active = NoTurn => Followed(History(c.agent.session), m)
<1> DEFINE s == c.agent.session
<1>1. \/ \E t \in Turns : ServesIn(c.agent, t, "flush", m)
      \/ Followed(History(s), m)
  BY DEF Tidy
<1>2. Followed(History(s), m) => LeftIn(s, m)
  <2>1. History(s) \in Seq(SessionMessages)
    BY HistoryType DEF Tidy
  <2> QED BY <2>1, AbsentFollowed DEF LeftIn
<1>3. \A t \in Turns : ServesIn(c.agent, t, "flush", m) => LeftIn(s, m)
  BY DEF Tidy
<1>4. c.agent.active = NoTurn => ~ \E t \in Turns : ServesIn(c.agent, t, "flush", m)
  BY AgentConstants DEF Alone, ServesIn
<1> QED BY <1>1, <1>2, <1>3, <1>4

LEMMA SubmitFrontTidy ==
  ASSUME NEW c, CoordinatorOK(c), Orderly(c), Alone(c), Tidy(c, {}), c.queue # << >>,
         NEW t \in Turns, NEW sends \in BOOLEAN, FreshIn(c.agent, t)
  PROVE  Tidy(SubmitFront(c, t, sends), {})
<1> DEFINE m == Head(c.queue).text
           done == [by |-> "flush", text |-> m]
           out == AgentSubmit(c.agent, m, done, t, sends)
           with(b) == [c EXCEPT !.agent = out.agent, !.flushing = b]
           d == SubmitFront(c, t, sends)
<1>1. m \in Msgs /\ m \in Texts(c.queue)
  <2>1. 1 \in 1 .. Len(c.queue) /\ Head(c.queue) = c.queue[1]
    BY QueueFacts, HeadTailProperties DEF CoordinatorOK
  <2> QED BY <2>1, QueueFacts
<1>2. done \in DoneCallbacks /\ AgentOK(c.agent)
  BY <1>1 DEF DoneCallbacks, CoordinatorOK
<1>3. c.told[m] = "queued"
  BY <1>1 DEF Orderly
<1>4. d = IF out.result = Pending THEN with(TRUE) ELSE RetryLater(with(FALSE))
  BY DEF SubmitFront
<1> HIDE DEF m, d
<1>5. LeftIn(c.agent.session, m)
      /\ (c.agent.active = NoTurn => Followed(History(c.agent.session), m))
  BY <1>1, QueuedLeft
<1>6. /\ AgentOK(out.agent)
      /\ out.result = Pending =>
           /\ ~ InFlight(c.agent, t)
           /\ out.agent.ctx = [c.agent.ctx EXCEPT ![t] = [done |-> done, round |-> 0]]
  BY <1>2, AgentSubmitFacts
<1>7. ASSUME NEW b \in BOOLEAN
      PROVE  /\ CoordinatorOK(with(b))
             /\ with(b).agent = out.agent
             /\ with(b).queue = c.queue /\ with(b).told = c.told
  <2> HIDE DEF out
  <2> QED BY <1>6 DEF CoordinatorOK
<1>8. ASSUME NEW b \in BOOLEAN
      PROVE  Tidy(with(b), {m}) /\ LeftIn(with(b).agent.session, m)
  <2>1. \A n \in Msgs : with(b).told[n] = "none" => c.told[n] = "none" /\ n # m
    BY <1>3, <1>7
  <2>2. with(b).agent = AgentSubmit(c.agent, m, [by |-> "flush", text |-> m], t, sends).agent
        /\ Texts(with(b).queue) \subseteq Texts(c.queue)
    BY <1>7
  <2> HIDE DEF with
  <2> QED BY <1>1, <1>5, <2>1, <2>2, AgentSubmitTidy
<1> HIDE DEF with
<1>9. CASE out.result # Pending
  <2>1. d = RetryLater(with(FALSE))
    BY <1>4, <1>9
  <2>2. Tidy(d, {})
    BY <1>7, <1>8, <2>1, RetryLaterTidy
  <2> QED BY <2>2 DEF d
<1>10. CASE out.result = Pending
  <2>1. d = with(TRUE)
    BY <1>4, <1>10
  <2>2. Tidy(d, {m}) /\ d.agent = out.agent
    BY <1>7, <1>8, <2>1
  <2>3. ServesIn(out.agent, t, "flush", m)
    <3>1. out.agent.ctx[t] = [done |-> done, round |-> 0]
      BY <1>2, <1>6, <1>10 DEF AgentOK
    <3>2. [done |-> done, round |-> 0] # NoCtx
      BY <1>2, CoordinatorConstants
    <3> QED BY <3>1, <3>2 DEF ServesIn, InFlight
  <2> HIDE DEF out
  <2>4. Tidy(d, {})
    BY <2>2, <2>3 DEF Tidy
  <2> QED BY <2>4 DEF d
<1> QED BY <1>9, <1>10

LEMMA TryFlushTidy ==
  ASSUME NEW c, CoordinatorOK(c), Orderly(c), Alone(c), Tidy(c, {}),
         NEW t \in Turns, NEW sends \in BOOLEAN, FreshIn(c.agent, t)
  PROVE  Tidy(TryFlush(c, t, sends), {})
<1> DEFINE live == DropExhausted(c)
           d == TryFlush(c, t, sends)
<1>1. CoordinatorOK(live) /\ live.agent = c.agent /\ live.told = c.told
  BY DropExhaustedFacts
<1>2. PICK n : SettlesFirst(c, live, n)
  BY DropExhaustedSettles
<1>3. d = IF ~ IsOnline(c) \/ c.flushing THEN c
          ELSE IF live.queue = << >> THEN AnswerFlush(live, "ok")
          ELSE SubmitFront(live, t, sends)
  BY DEF TryFlush
<1> HIDE DEF live, d
<1>4. Orderly(live) /\ Texts(live.queue) \subseteq Texts(c.queue)
  BY <1>1, <1>2, SettlesFirstOrderly, SettlesTexts
<1>5. Tidy(live, {})
  BY <1>1, <1>4, TidySame
<1>6. CASE ~ IsOnline(c) \/ c.flushing
  BY <1>3, <1>6 DEF d
<1>7. CASE d = AnswerFlush(live, "ok")
  <2>1. d.agent = live.agent /\ d.told = live.told /\ d.queue = live.queue
    BY <1>1, <1>7 DEF AnswerFlush, CoordinatorOK
  <2>2. Tidy(d, {})
    BY <1>5, <2>1, TidySame
  <2> QED BY <2>2 DEF d
<1>8. CASE d = SubmitFront(live, t, sends) /\ live.queue # << >>
  <2>1. Alone(live) /\ FreshIn(live.agent, t)
    BY <1>1 DEF Alone
  <2>2. Tidy(d, {})
    BY <1>1, <1>4, <1>5, <1>8, <2>1, SubmitFrontTidy
  <2> QED BY <2>2 DEF d
<1> QED BY <1>3, <1>6, <1>7, <1>8

LEMMA QueueOrRefuseTidy ==
  ASSUME NEW c, CoordinatorOK(c), Tidy(c, {}), NEW m \in Msgs,
         Followed(History(c.agent.session), m)
  PROVE  Tidy(QueueOrRefuse(c, m), {})
<1> DEFINE d == QueueOrRefuse(c, m)
           longer == Append(c.queue, Item(m))
<1>1. d = IF Len(c.queue) >= MaxQueueItems
          THEN [c EXCEPT !.told[m] = "failed"]
          ELSE [c EXCEPT !.queue = longer, !.told[m] = "queued"]
  BY DEF QueueOrRefuse
<1>2. Texts(longer) \subseteq Texts(c.queue) \cup {m}
  <2>1. Item(m) \in Items
    BY DEF Item, Items
  <2>2. c.queue \in Seq(Items) /\ longer \in Seq(Items)
    BY <2>1, AppendProperties DEF CoordinatorOK
  <2>3. DOMAIN longer = 1 .. Len(longer) /\ Len(c.queue) \in Nat
    BY <2>2, LenProperties
  <2>4. /\ Len(longer) = Len(c.queue) + 1 /\ longer[Len(longer)].text = m
        /\ \A i \in 1 .. Len(c.queue) : longer[i] = c.queue[i]
    BY AppendFacts
  <2> HIDE DEF longer
  <2>5. \A i \in DOMAIN longer : i = Len(longer) \/ i \in 1 .. Len(c.queue)
    BY <2>3, <2>4
  <2> QED BY <2>3, <2>4, <2>5, QueueFacts DEF Texts
<1> HIDE DEF longer, d
<1>3. /\ d.agent = c.agent
      /\ Texts(d.queue) \subseteq Texts(c.queue) \cup {m}
      /\ \A n \in Msgs : d.told[n] = "none" => c.told[n] = "none"
  <2>1. CASE Len(c.queue) >= MaxQueueItems
    <3>1. d.agent = c.agent /\ d.queue = c.queue
            /\ d.told = [c.told EXCEPT ![m] = "failed"]
      BY <1>1, <2>1 DEF CoordinatorOK
    <3> QED BY <3>1 DEF CoordinatorOK
  <2>2. CASE ~ (Len(c.queue) >= MaxQueueItems)
    <3>1. d.agent = c.agent /\ d.queue = longer
            /\ d.told = [c.told EXCEPT ![m] = "queued"]
      BY <1>1, <2>2 DEF CoordinatorOK
    <3> QED BY <1>2, <3>1 DEF CoordinatorOK
  <2> QED BY <2>1, <2>2
<1>4. Tidy(d, {})
  BY <1>3 DEF Tidy
<1> QED BY <1>4 DEF d

(* A direct submission is answered: the message is rolled back, unless the *)
(* server replied to it.                                                   *)
LEMMA DirectDoneTidy ==
  ASSUME ~ AutoFlush, NEW c, CoordinatorOK(c), Tidy(c, {}), NEW m \in Msgs,
         NEW result,
         result # "ok" => LeftIn(c.agent.session, m),
         NEW t, NEW sends
  PROVE  Tidy(DirectDone(c, m, result, t, sends), {})
<1> DEFINE d == DirectDone(c, m, result, t, sends)
           back == [c EXCEPT !.agent = Rollback(@)]
<1>1. CoordinatorOK(back) /\ back.agent = Rollback(c.agent)
      /\ back.told = c.told /\ back.queue = c.queue
  <2>1. back.agent = Rollback(c.agent)
    BY DEF CoordinatorOK
  <2>2. AgentOK(back.agent)
    BY <2>1, RollbackFacts DEF CoordinatorOK
  <2>3. /\ DOMAIN back = DOMAIN c
        /\ back.monitor = c.monitor /\ back.flushing = c.flushing
        /\ back.told = c.told /\ back.queue = c.queue
        /\ back.flushCtx = c.flushCtx /\ back.flushTold = c.flushTold
        /\ back.fate = c.fate
    BY DEF CoordinatorOK
  <2> HIDE DEF back
  <2> QED BY <2>1, <2>2, <2>3 DEF CoordinatorOK
<1> HIDE DEF back
<1>2. /\ Tidy(back, {})
      /\ result # "ok" => Followed(History(back.agent.session), m)
  BY <1>1, RollbackTidy
<1>3. CASE result = "ok"
  <2> DEFINE r == Settle(c, m, "replied")
             s == SetOnline(r, TRUE, t, sends)
  <2>1. CoordinatorOK(r) /\ r.agent = c.agent /\ r.told = c.told /\ r.queue = c.queue
    BY SettleFacts
  <2>2. d = [s EXCEPT !.told[m] = "replied"]
    BY <1>3 DEF DirectDone
  <2>3. s = [r EXCEPT !.monitor = "online"]
    BY DEF SetOnline
  <2> HIDE DEF r, d, s
  <2>4. CoordinatorOK(s) /\ s.agent = c.agent /\ s.queue = c.queue /\ s.told = c.told
    BY <2>1, <2>3 DEF CoordinatorOK
  <2>5. d.agent = c.agent /\ d.queue = c.queue
          /\ d.told = [c.told EXCEPT ![m] = "replied"]
    BY <2>2, <2>4 DEF CoordinatorOK
  <2>6. \A n \in Msgs : d.told[n] = "none" => c.told[n] = "none"
    BY <2>5 DEF CoordinatorOK
  <2>7. Tidy(d, {})
    <3>1. Tidy(c, {})
      OBVIOUS
    <3> QED BY <2>5, <2>6, <3>1, TidyAlike
  <2> QED BY <2>7 DEF d
<1>4. CASE result # "ok" /\ ~ IsQueueable(result)
  <2> DEFINE s == Settle(back, m, "refused")
  <2>1. CoordinatorOK(s) /\ s.agent = back.agent /\ s.told = back.told
          /\ s.queue = back.queue
    BY <1>1, SettleFacts
  <2>2. d = [s EXCEPT !.told[m] = "failed"]
    BY <1>4 DEF DirectDone, back
  <2> HIDE DEF s, d
  <2>3. d.agent = back.agent /\ d.queue = back.queue
        /\ d.told = [back.told EXCEPT ![m] = "failed"]
    BY <2>1, <2>2 DEF CoordinatorOK
  <2>4. \A n \in Msgs : d.told[n] = "none" => back.told[n] = "none"
    BY <1>1, <2>3 DEF CoordinatorOK
  <2>5. Tidy(d, {})
    BY <1>2, <2>3, <2>4, TidyAlike
  <2> QED BY <2>5 DEF d
<1>5. CASE result # "ok" /\ IsQueueable(result)
  <2> DEFINE s == GoOffline(back)
  <2>1. CoordinatorOK(s) /\ s.agent = back.agent /\ s.told = back.told
          /\ s.queue = back.queue
    BY <1>1 DEF CoordinatorOK, GoOffline
  <2>2. d = QueueOrRefuse(s, m)
    BY <1>5 DEF DirectDone, back
  <2> HIDE DEF s, d
  <2>3. Tidy(s, {}) /\ Followed(History(s.agent.session), m)
    BY <1>2, <1>5, <2>1, TidySame
  <2>4. Tidy(d, {})
    BY <2>1, <2>2, <2>3, QueueOrRefuseTidy
  <2> QED BY <2>4 DEF d
<1> QED BY <1>3, <1>4, <1>5

LEMMA FinishFlushItemTidy ==
  ASSUME ~ AutoFlush, NEW c, CoordinatorOK(c), Orderly(c), Alone(c),
         NEW m \in Msgs, NEW result, Tidy(c, {m}),
         result # "ok" => LeftIn(c.agent.session, m),
         NEW t \in Turns, NEW sends \in BOOLEAN, FreshIn(c.agent, t),
         c.queue # << >>, Head(c.queue).text = m
  PROVE  Tidy(FinishFlushItem(c, m, result, t, sends), {})
<1> DEFINE idle == [c EXCEPT !.flushing = FALSE]
           rest == FrontGone(c, m, result, t, sends)
           d == FinishFlushItem(c, m, result, t, sends)
<1>1. /\ CoordinatorOK(idle) /\ idle.agent = c.agent /\ idle.told = c.told
      /\ idle.queue = c.queue
  BY DEF CoordinatorOK
<1>2. d = IF result # "ok" /\ IsQueueable(result) THEN RetryLater(idle)
          ELSE TryFlush(rest, t, sends)
  BY DEF FinishFlushItem, FrontGone
<1>3. /\ CoordinatorOK(rest) /\ rest.agent = c.agent
      /\ SettlesFirst(c, rest, 1) /\ Orderly(rest)
  <2>1. Tracked(c)
    BY DEF Orderly
  <2>2. CoordinatorOK(rest) /\ rest.agent = c.agent /\ SettlesFirst(c, rest, 1)
    BY <2>1, FrontSettled
  <2> HIDE DEF rest
  <2> QED BY <2>2, SettlesFirstOrderly
<1> HIDE DEF idle, rest, d
<1>4. CASE result # "ok" /\ IsQueueable(result)
  <2>1. Tidy(idle, {m})
    BY <1>1, TidySame
  <2>2. Tidy(d, {})
    BY <1>1, <1>2, <1>4, <2>1, RetryLaterTidy
  <2> QED BY <2>2 DEF d
<1>5. CASE ~ (result # "ok" /\ IsQueueable(result))
  <2>1. Texts(rest.queue) \subseteq Texts(c.queue) /\ rest.told = c.told
    BY <1>3, SettlesTexts
  <2>2. m \notin Texts(rest.queue)
    <3>1. 1 \in 1 .. 1 /\ c.queue[1].text = m
      BY HeadTailProperties DEF CoordinatorOK
    <3>2. rest.fate[m] # {}
      BY <1>3, <3>1 DEF SettlesFirst
    <3> QED BY <1>3, <3>2 DEF Orderly
  <2>3. Tidy(rest, {})
    BY <1>3, <2>1, <2>2, TidySame
  <2>4. Alone(rest) /\ FreshIn(rest.agent, t)
    BY <1>3 DEF Alone
  <2>5. Tidy(d, {})
    BY <1>2, <1>3, <1>5, <2>3, <2>4, TryFlushTidy
  <2> QED BY <2>5 DEF d
<1> QED BY <1>4, <1>5

(* The steps *)
LEMMA FlushTidy ==
  ASSUME NEW c, CoordinatorOK(c), Orderly(c), Alone(c), Tidy(c, {}),
         NEW f \in FlushCalls,
         NEW t \in Turns, NEW sends \in BOOLEAN, FreshIn(c.agent, t)
  PROVE  Tidy(TryFlush([c EXCEPT !.flushCtx = f, !.flushTold[f] = "waiting"], t, sends), {})
<1> DEFINE b == [c EXCEPT !.flushCtx = f, !.flushTold[f] = "waiting"]
<1>1. /\ CoordinatorOK(b) /\ b.agent = c.agent
      /\ b.told = c.told /\ b.queue = c.queue /\ b.fate = c.fate
  BY DEF CoordinatorOK
<1> HIDE DEF b
<1>2. Orderly(b) /\ Alone(b) /\ FreshIn(b.agent, t)
  BY <1>1 DEF Orderly, Tracked, Distinct, New, Alone
<1>3. Tidy(b, {})
  BY <1>1, TidySame
<1>4. Tidy(TryFlush(b, t, sends), {})
  BY <1>1, <1>2, <1>3, TryFlushTidy
<1> QED BY <1>4 DEF b

LEMMA ReportTidy ==
  ASSUME ~ AutoFlush, NEW c, CoordinatorOK(c), Tidy(c, {}),
         NEW online \in BOOLEAN, NEW t, NEW sends
  PROVE  Tidy(SetOnline(c, online, t, sends), {})
<1> DEFINE d == SetOnline(c, online, t, sends)
<1>1. d.agent = c.agent /\ d.queue = c.queue /\ d.told = c.told
  BY SetOnlineOnly
<1> HIDE DEF d
<1>2. Tidy(d, {})
  BY <1>1, TidySame
<1> QED BY <1>2 DEF d

LEMMA SubmitTidy ==
  ASSUME ~ AutoFlush, NEW c, CoordinatorOK(c), Orderly(c), Alone(c), Tidy(c, {}),
         NEW m \in Msgs, c.told[m] = "none",
         NEW t \in Turns, NEW sends \in BOOLEAN, FreshIn(c.agent, t)
  PROVE  Tidy(SubmitUserMessage(c, m, t, sends), {})
<1> DEFINE done == [by |-> "direct", text |-> m]
           out == AgentSubmit(c.agent, m, done, t, sends)
           b == [c EXCEPT !.agent = out.agent, !.told[m] = "waiting"]
           d == SubmitUserMessage(c, m, t, sends)
<1>1. done \in DoneCallbacks /\ AgentOK(c.agent)
  BY DEF DoneCallbacks, CoordinatorOK
<1>2. d = IF ~ IsOnline(c) \/ c.flushing THEN QueueOrRefuse(c, m)
          ELSE TurnDone(b, done, out.result, t, sends)
  BY DEF SubmitUserMessage
<1>3. done.by = "direct" /\ done.text = m
  OBVIOUS
<1>4. Followed(History(c.agent.session), m) /\ LeftIn(c.agent.session, m)
  <2>1. Absent(History(c.agent.session), m)
          /\ History(c.agent.session) \in Seq(SessionMessages)
    BY HistoryType DEF Tidy
  <2> QED BY <2>1, AbsentFollowed DEF LeftIn
<1>5. AgentOK(out.agent)
  BY <1>1, AgentSubmitFacts
<1>6. /\ CoordinatorOK(b) /\ b.told = [c.told EXCEPT ![m] = "waiting"]
      /\ b.queue = c.queue /\ b.agent = out.agent
  <2> HIDE DEF out
  <2> QED BY <1>5 DEF CoordinatorOK
<1>7. Tidy(b, {m}) /\ LeftIn(b.agent.session, m)
  <2>1. \A n \in Msgs : b.told[n] = "none" => c.told[n] = "none" /\ n # m
    BY <1>6 DEF CoordinatorOK
  <2>2. b.agent = AgentSubmit(c.agent, m, [by |-> "direct", text |-> m], t, sends).agent
        /\ Texts(b.queue) \subseteq Texts(c.queue)
    BY <1>6
  <2> HIDE DEF b
  <2> QED BY <1>4, <2>1, <2>2, AgentSubmitTidy
<1> HIDE DEF b, d, out, done
<1>8. Tidy(b, {})
  <2>1. m \notin Texts(b.queue)
    BY <1>6 DEF Orderly
  <2> QED BY <1>7, <2>1, TidySame
<1>9. CASE ~ IsOnline(c) \/ c.flushing
  <2>1. Tidy(d, {})
    BY <1>2, <1>4, <1>9, QueueOrRefuseTidy
  <2> QED BY <2>1 DEF d
<1>10. CASE ~ (~ IsOnline(c) \/ c.flushing) /\ out.result = Pending
  <2>1. d = b
    BY <1>2, <1>10 DEF TurnDone
  <2> QED BY <1>8, <2>1 DEF d
<1>11. CASE ~ (~ IsOnline(c) \/ c.flushing) /\ out.result # Pending
  <2>1. d = DirectDone(b, m, out.result, t, sends)
    BY <1>2, <1>3, <1>11 DEF TurnDone
  <2>2. Tidy(d, {})
    BY <1>6, <1>7, <1>8, <2>1, DirectDoneTidy
  <2> QED BY <2>2 DEF d
<1> QED BY <1>9, <1>10, <1>11

LEMMA CompleteTidy ==
  ASSUME ~ AutoFlush, NEW c, Good(c), FrontServed(c), Alone(c), Backed(c), Orderly(c),
         Tidy(c, {}),
         NEW t \in Turns, InFlight(c.agent, t), NEW r \in Responses,
         NEW sends \in BOOLEAN
  PROVE  LET out == Respond(c.agent, t, r, sends)
         IN  Tidy(TurnDone([c EXCEPT !.agent = out.agent],
                           c.agent.ctx[t].done, out.result, t, sends), {})
<1> DEFINE done == c.agent.ctx[t].done
           m == done.text
           out == Respond(c.agent, t, r, sends)
           b == [c EXCEPT !.agent = out.agent]
           d == TurnDone(b, done, out.result, t, sends)
           s == c.agent.session
<1>1. CoordinatorOK(c) /\ AgentOK(c.agent) /\ CallersServed(c) /\ Usable(s)
  BY DEF Good, CoordinatorOK, Tidy
<1>2. m \in Msgs /\ done.by \in {"direct", "flush"}
        /\ done = [by |-> done.by, text |-> m]
  BY <1>1 DEF AgentOK, InFlight, TurnContext, DoneCallbacks
<1>3. /\ AgentOK(out.agent)
      /\ out.result = Pending =>
           \A u \in Turns : /\ InFlight(out.agent, u) <=> InFlight(c.agent, u)
                            /\ out.agent.ctx[u].done = c.agent.ctx[u].done
      /\ out.result # Pending => out.agent.ctx = [c.agent.ctx EXCEPT ![t] = NoCtx]
  BY <1>1, RespondFacts
<1>4. /\ Preserves(s, out.agent.session, Msgs)
      /\ out.result # "ok" => \A n \in Msgs : LeftIn(s, n)
           => LeftIn(out.agent.session, n)
  BY <1>1, RespondSession
<1> HIDE DEF out
<1>5. /\ CoordinatorOK(b) /\ b.agent = out.agent /\ b.told = c.told
      /\ b.queue = c.queue /\ b.fate = c.fate
  BY <1>1, <1>3 DEF CoordinatorOK
<1> HIDE DEF b, d, m, done
<1>6. ServesIn(c.agent, t, done.by, m) /\ LeftIn(s, m)
  BY <1>2 DEF ServesIn, done, Tidy
<1> HIDE DEF s
<1>7. \A n \in Msgs : b.told[n] = "none" => Absent(History(b.agent.session), n)
  BY <1>4, <1>5 DEF Tidy, Preserves, Leaves, s
<1>8. ASSUME NEW n \in Msgs \ {m}, n \in Texts(b.queue)
      PROVE  Followed(History(b.agent.session), n)
  <2>1. ASSUME NEW u \in Turns, ServesIn(c.agent, u, "flush", n)
        PROVE  FALSE
    <3>1. u = t
      BY <2>1 DEF Alone, ServesIn
    <3>2. [by |-> done.by, text |-> m] = [by |-> "flush", text |-> n]
      BY <1>2, <2>1, <3>1 DEF ServesIn, done
    <3>3. [by |-> done.by, text |-> m].text = [by |-> "flush", text |-> n].text
      BY <3>2
    <3> QED BY <1>8, <3>3
  <2>2. Followed(History(s), n)
    BY <1>5, <1>8, <2>1 DEF Tidy, s
  <2> QED BY <1>4, <1>5, <2>2 DEF Preserves, Leaves
<1>9. CASE out.result = Pending
  <2>1. d = b /\ out.result # "ok"
    BY <1>9, AgentConstants DEF TurnDone, d
  <2>2. \A u \in Turns : \A by, n : ServesIn(b.agent, u, by, n)
          <=> ServesIn(c.agent, u, by, n)
    BY <1>3, <1>5, <1>9 DEF ServesIn
  <2>3. ASSUME NEW n \in Msgs, n \in Texts(b.queue)
        PROVE  \/ \E u \in Turns : ServesIn(b.agent, u, "flush", n)
               \/ Followed(History(b.agent.session), n)
    <3>1. \/ \E u \in Turns : ServesIn(c.agent, u, "flush", n)
          \/ Followed(History(s), n)
      BY <1>5, <2>3 DEF Tidy, s
    <3> QED BY <1>4, <1>5, <2>2, <3>1 DEF Preserves, Leaves
  <2>4. ASSUME NEW n \in Msgs, NEW u \in Turns, NEW by \in {"direct", "flush"},
               ServesIn(b.agent, u, by, n)
        PROVE  LeftIn(b.agent.session, n)
    <3>1. LeftIn(s, n)
      BY <2>2, <2>4 DEF Tidy, s
    <3> QED BY <1>4, <1>5, <2>1, <3>1
  <2>5. Tidy(b, {})
    BY <1>4, <1>5, <1>7, <2>3, <2>4 DEF Tidy, Preserves
  <2> QED BY <2>1, <2>5 DEF d, b, out, done
<1>10. CASE out.result # Pending
  <2>1. \A u \in Turns : ~ InFlight(b.agent, u)
    BY <1>1, <1>3, <1>5, <1>10 DEF Alone, AgentOK, InFlight
  <2>2. Tidy(b, {m})
    BY <1>4, <1>5, <1>7, <1>8, <2>1 DEF Tidy, Preserves, ServesIn
  <2>3. out.result # "ok" => LeftIn(b.agent.session, m)
    BY <1>2, <1>4, <1>5, <1>6
  <2>4. Alone(b) /\ FreshIn(b.agent, t) /\ Orderly(b)
    BY <1>5, <2>1 DEF Alone, FreshIn, Orderly, Tracked, Distinct, New
  <2>5. CASE done.by = "flush"
    <3>1. d = FinishFlushItem(b, m, out.result, t, sends)
      BY <1>10, <2>5 DEF TurnDone, d, m
    <3>2. b.queue # << >> /\ Head(b.queue).text = m
      BY <1>2, <1>5, <1>6, <2>5, EndedFront
    <3>3. Tidy(d, {})
      BY <1>2, <1>5, <2>2, <2>3, <2>4, <3>1, <3>2, FinishFlushItemTidy
    <3> QED BY <3>3 DEF d, b, out, done
  <2>6. CASE done.by = "direct"
    <3>1. d = DirectDone(b, m, out.result, t, sends)
      BY <1>10, <2>6 DEF TurnDone, d, m
    <3>2. c.told[m] = "waiting"
      BY <1>1, <1>2, <1>6, <2>6 DEF CallersServed, NoneServes
    <3>3. m \notin Texts(b.queue)
      BY <1>2, <1>5, <3>2 DEF Orderly
    <3>4. Tidy(b, {})
      BY <2>2, <3>3, TidySame
    <3>5. Tidy(d, {})
      BY <1>2, <1>5, <2>3, <3>1, <3>4, DirectDoneTidy
    <3> QED BY <3>5 DEF d, b, out, done
  <2> QED BY <1>2, <2>5, <2>6
<1> QED BY <1>9, <1>10

LEMMA BecomeTidy ==
  ASSUME NEW d, Become(d), Tidy(d, {})
  PROVE  Tidy(This, {})'
<1>1. This'.queue = d.queue /\ This'.told = d.told /\ This'.agent = d.agent
  BY DEF Become, This
<1> QED BY <1>1 DEF Tidy

(* OrderInv, and what queued messages have left in the session *)
TidyInv ==
  /\ OrderInv
  /\ cancels = 0 => Tidy(This, {})

LEMMA InitiallyTidy ==
  ASSUME LoadedOnce, Init
  PROVE  TidyInv
<1> DEFINE e == EmptySession(SessionLimits)
<1>1. agent.session = RefreshSystemPrompt(e) /\ agent.ctx = [t \in Turns |-> NoCtx]
  BY DEF Init, NewAgent
<1>2. Usable(e) /\ History(e) = << >>
  <2>1. << >> \in Seq(SessionMessages) /\ Len(<< >>) = 0
    BY EmptySeq
  <2>2. e \in Sessions(SessionPrompts, SessionMessages)
    BY <2>1, CoordinatorConstants DEF Sessions, Limits, EmptySession, SessionPrompts
  <2> QED BY <2>1, <2>2 DEF Usable, Flagged, History, NonSystemMessages, EmptySession
<1> HIDE DEF e
<1>3. Usable(agent.session) /\ History(agent.session) = << >>
  <2>1. Prompt \in SessionPrompts
    BY DEF SessionPrompts
  <2> QED BY <1>1, <1>2, <2>1, MessageFacts, SetSystemPromptFacts
      DEF Usable, History, RefreshSystemPrompt
<1>4. \A m \in Msgs : Absent(History(agent.session), m)
        /\ Followed(History(agent.session), m)
  <2>1. Len(<< >>) = 0
    BY EmptySeq
  <2> QED BY <1>3, <2>1 DEF Absent, Followed
<1>5. \A t \in Turns : ~ InFlight(agent, t)
  BY <1>1 DEF InFlight
<1>6. This.agent = agent
  BY DEF This
<1>7. Tidy(This, {})
  BY <1>3, <1>4, <1>5, <1>6 DEF Tidy, ServesIn
<1> QED BY <1>7, InitiallyOrdered DEF TidyInv

LEMMA InductiveTidy ==
  ASSUME ~ AutoFlush, TidyInv, [Next]_vars
  PROVE  TidyInv'
<1>1. /\ Good(This) /\ CoordinatorOK(This)
      /\ FrontServed(This)
      /\ cancels = 0 => Alone(This) /\ Backed(This) /\ Orderly(This) /\ Tidy(This, {})
  BY DEF TidyInv, OrderInv, DeliveryInv, IInv, Good
<1>2. OrderInv'
  BY InductiveOrdered DEF TidyInv
<1>3. This.agent = agent /\ This.told = told
  BY DEF This
<1>4. ASSUME NEW d, Become(d), UNCHANGED cancels, cancels = 0 => Tidy(d, {})
      PROVE  TidyInv'
  BY <1>2, <1>4, BecomeTidy DEF TidyInv
<1>5. ASSUME NEW m \in Msgs, Submit(m)
      PROVE  TidyInv'
  <2>1. PICK t \in Turns, sends \in Sends :
           Fresh(t) /\ Become(SubmitUserMessage(This, m, t, sends))
    BY <1>5 DEF Submit
  <2>2. sends \in BOOLEAN /\ FreshIn(This.agent, t) /\ This.told[m] = "none"
    BY <1>3, <1>5, <2>1, CoordinatorConstants DEF Fresh, FreshIn, Submit
  <2>3. cancels = 0 => Tidy(SubmitUserMessage(This, m, t, sends), {})
    BY <1>1, <2>2, SubmitTidy
  <2> QED BY <1>4, <1>5, <2>1, <2>3 DEF Submit
<1>6. ASSUME NEW f \in FlushCalls, Flush(f)
      PROVE  TidyInv'
  <2> DEFINE b == [This EXCEPT !.flushCtx = f, !.flushTold[f] = "waiting"]
  <2>1. PICK t \in Turns, sends \in Sends : Fresh(t) /\ Become(TryFlush(b, t, sends))
    BY <1>6 DEF Flush
  <2>2. sends \in BOOLEAN /\ FreshIn(This.agent, t)
    BY <1>3, <2>1, CoordinatorConstants DEF Fresh, FreshIn
  <2>3. cancels = 0 => Tidy(TryFlush(b, t, sends), {})
    BY <1>1, <2>2, FlushTidy
  <2> HIDE DEF b
  <2> QED BY <1>4, <1>6, <2>1, <2>3 DEF Flush
<1>7. ASSUME NEW t \in Turns, Complete(t)
      PROVE  TidyInv'
  <2> DEFINE d(r, sends) ==
        LET out == Respond(agent, t, r, sends)
        IN  TurnDone([This EXCEPT !.agent = out.agent],
                     agent.ctx[t].done, out.result, t, sends)
  <2>1. PICK r \in Responses, sends \in Sends : Become(d(r, sends))
    BY <1>7 DEF Complete
  <2>2. sends \in BOOLEAN /\ InFlight(This.agent, t)
    BY <1>3, <1>7, CoordinatorConstants DEF Complete
  <2>3. cancels = 0 => Tidy(d(r, sends), {})
    BY <1>1, <1>3, <2>2, CompleteTidy
  <2> HIDE DEF d
  <2> QED BY <1>4, <1>7, <2>1, <2>3 DEF Complete
<1>8. ASSUME NEW online \in Reports, Report(online)
      PROVE  TidyInv'
  <2>1. PICK t \in Turns, sends \in Sends :
           Fresh(t) /\ Become(SetOnline(This, online, t, sends))
    BY <1>8 DEF Report
  <2>2. sends \in BOOLEAN /\ online \in BOOLEAN
    BY <2>1, CoordinatorConstants
  <2>3. cancels = 0 => Tidy(SetOnline(This, online, t, sends), {})
    BY <1>1, <2>2, ReportTidy
  <2> QED BY <1>4, <1>8, <2>1, <2>3 DEF Report
<1>9. ASSUME Cancel
      PROVE  TidyInv'
  <2>1. cancels' # 0
    BY <1>9 DEF TidyInv, OrderInv, DeliveryInv, IInv, Cancel
  <2> QED BY <1>2, <2>1 DEF TidyInv
<1>10. ASSUME UNCHANGED vars
       PROVE  TidyInv'
  <2>1. This' = This /\ cancels' = cancels
    BY <1>10 DEF vars, This
  <2>2. Tidy(This, {})' <=> Tidy(This, {})
    BY <2>1 DEF Tidy
  <2> QED BY <1>1, <1>2, <2>1, <2>2 DEF TidyInv
<1> QED BY <1>5, <1>6, <1>7, <1>8, <1>9, <1>10 DEF Next

(* A message of the history is one of the session, behind the prompt. *)
LEMMA FollowedInSession ==
  ASSUME NEW s, Usable(s), NEW m \in Msgs, Followed(History(s), m),
         NEW i \in DOMAIN s.messages, s.messages[i].text = m
  PROVE  i + 1 \in DOMAIN s.messages /\ s.messages[i + 1].calls > 0
<1> DEFINE q == s.messages
           h == History(s)
<1>1. /\ Len(q) \in Nat /\ DOMAIN q = 1 .. Len(q)
      /\ Start(s) \in {0, 1}
      /\ \A j \in 1 .. Len(q) :
            q[j] \in SessionMessages /\ (q[j].role = "system" <=> j <= Start(s))
  BY SessionFacts DEF Usable
<1>2. /\ Len(h) \in Nat /\ Len(q) = Start(s) + Len(h)
      /\ \A j \in 1 .. Len(h) : h[j] = q[Start(s) + j]
  BY HistoryFacts DEF Usable, History
<1>3. q[i].role = "user" /\ i \in 1 .. Len(q)
  BY <1>1, MessageFacts
<1>4. ~ (i <= Start(s))
  BY <1>1, <1>3
<1> DEFINE k == i - Start(s)
<1> HIDE DEF q, h
<1>5. k \in 1 .. Len(h) /\ i = Start(s) + k
  BY <1>1, <1>2, <1>3, <1>4
<1> HIDE DEF k
<1>6. h[k].text = m
  BY <1>2, <1>5 DEF q
<1>7. k < Len(h) /\ h[k + 1].calls > 0
  BY <1>5, <1>6 DEF Followed, h
<1>8. k + 1 \in 1 .. Len(h) /\ Start(s) + (k + 1) = i + 1 /\ i + 1 \in 1 .. Len(q)
  BY <1>1, <1>2, <1>5, <1>7
<1> QED BY <1>1, <1>2, <1>7, <1>8 DEF q

(* Without autoFlushOnOnline, and until cancel() is called, the session    *)
(* holds nothing of a queued message that is not being sent, unless the    *)
(* assistant has asked for tools on it: rollbackLastUser in the done       *)
(* callbacks takes back what submitUserMessage appended.                   *)
THEOREM NoLeftover ==
  ASSUME ~ AutoFlush, LoadedOnce
  PROVE  Spec => []LeftoverHasToolRound
<1>1. Init => TidyInv
  BY InitiallyTidy
<1>2. TidyInv /\ [Next]_vars => TidyInv'
  BY InductiveTidy
<1>3. TidyInv => LeftoverHasToolRound
  <2> SUFFICES ASSUME TidyInv, cancels = 0, NEW m \in Texts(queue),
                      ~ \E t \in Turns : Serves(t, "flush", m),
                      NEW i \in DOMAIN agent.session.messages,
                      agent.session.messages[i].text = m
               PROVE  /\ i + 1 \in DOMAIN agent.session.messages
                      /\ agent.session.messages[i + 1].calls > 0
    BY DEF LeftoverHasToolRound
  <2>1. Tidy(This, {}) /\ CoordinatorOK(This)
    BY DEF TidyInv, OrderInv, DeliveryInv, IInv, Good
  <2>2. This.agent = agent /\ This.queue = queue
    BY DEF This
  <2>3. m \in Msgs
    <3>1. LET q == This.queue
          IN  /\ \A j \in 1 .. Len(q) : q[j].text \in Msgs
              /\ \A x : x \in Texts(q) <=> \E j \in 1 .. Len(q) : q[j].text = x
      BY <2>1, QueueFacts
    <3> QED BY <2>2, <3>1
  <2>4. Usable(agent.session) /\ Followed(History(agent.session), m)
    BY <2>1, <2>2, <2>3 DEF Tidy, Serves
  <2> QED BY <2>3, <2>4, FollowedInSession
<1> QED BY <1>1, <1>2, <1>3, PTL DEF Spec

-----------------------------------------------------------------------------
(* The coordinator and its file                                            *)

(* What the steps of the coordinator keep. *)
Sound(c) ==
  /\ Good(c) /\ Alone(c) /\ FrontServed(c) /\ Backed(c) /\ Kept(c)
  /\ Steady(c) /\ Tracked(c)

(* MemoryMatchesFile of a value of the coordinator and of the file. *)
Matches(c, f) ==
  /\ \A m \in Texts(c.queue) \ Texts(f) : c.told[m] = "failed"
  /\ \A m \in Texts(f) \ Texts(c.queue) : c.fate[m] # {}
  /\ SameOrder(TextsOf(c.queue), TextsOf(f))
  /\ \A i, j \in DOMAIN f : f[i].text = f[j].text => i = j

(* The messages of S are settled, and not queued. *)
Over(c, S) == S \subseteq Msgs /\ \A m \in S : m \notin Texts(c.queue) /\ c.fate[m] # {}

DurableInv ==
  /\ Sound(This)
  /\ file \in Seq(Items)
  /\ Matches(This, file)
  /\ Over(This, answered)
-----------------------------------------------------------------------------
(* Steady                                                                  *)

LEMMA TryFlushMonitor ==
  ASSUME NEW c, CoordinatorOK(c), NEW t \in Turns, NEW sends \in BOOLEAN, FreshIn(c.agent, t)
  PROVE  LET d == TryFlush(c, t, sends)
         IN  d.flushing => d.monitor = c.monitor
<1> DEFINE live == DropExhausted(c)
           m == Head(live.queue).text
           out == AgentSubmit(live.agent, m, [by |-> "flush", text |-> m], t, sends)
           with(b) == [live EXCEPT !.agent = out.agent, !.flushing = b]
           d == TryFlush(c, t, sends)
<1>1. CoordinatorOK(live) /\ SameTurns(c, live) /\ live.agent = c.agent
  BY DropExhaustedFacts
<1>2. live.monitor = c.monitor
  BY DEF DropExhausted, CoordinatorOK
<1>3. d = IF ~ IsOnline(c) \/ c.flushing THEN c
          ELSE IF live.queue = << >> THEN AnswerFlush(live, "ok")
          ELSE SubmitFront(live, t, sends)
  BY DEF TryFlush
<1>4. SubmitFront(live, t, sends) = IF out.result = Pending THEN with(TRUE)
                                    ELSE RetryLater(with(FALSE))
  BY DEF SubmitFront
<1> HIDE DEF live, d
<1>5. CASE d = c
  BY <1>5 DEF d
<1>6. CASE d = AnswerFlush(live, "ok")
  <2>1. d.monitor = live.monitor
    BY <1>1, <1>6 DEF AnswerFlush, CoordinatorOK
  <2> QED BY <1>2, <2>1 DEF d
<1>7. CASE live.queue # << >> /\ d = SubmitFront(live, t, sends)
  <2>1. AgentOK(out.agent)
    <3>1. m \in Msgs
      <4>1. Head(live.queue) \in Items
        BY <1>1, <1>7, HeadTailProperties DEF CoordinatorOK
      <4> QED BY <4>1 DEF Items
    <3>2. [by |-> "flush", text |-> m] \in DoneCallbacks /\ AgentOK(live.agent)
          /\ FreshIn(live.agent, t)
      BY <1>1, <3>1 DEF DoneCallbacks, CoordinatorOK
    <3> QED BY <3>2, AgentSubmitFacts
  <2> HIDE DEF out
  <2>2. \A b \in BOOLEAN : CoordinatorOK(with(b)) /\ with(b).flushing = b
                           /\ with(b).monitor = live.monitor
    BY <1>1, <2>1 DEF CoordinatorOK
  <2> HIDE DEF with
  <2>3. CASE d = with(TRUE)
    BY <1>2, <2>2, <2>3 DEF d
  <2>4. CASE d = RetryLater(with(FALSE))
    <3>1. ~ d.flushing
      BY <2>2, <2>4, RetryLaterFacts DEF SameTurns
    <3> QED BY <3>1 DEF d
  <2> QED BY <1>4, <1>7, <2>3, <2>4
<1> QED BY <1>3, <1>5, <1>6, <1>7

LEMMA SetOnlineMonitor ==
  ASSUME NEW c, CoordinatorOK(c), NEW t \in Turns, NEW sends \in BOOLEAN, FreshIn(c.agent, t)
  PROVE  LET d == SetOnline(c, TRUE, t, sends)
         IN  d.flushing => d.monitor = "online"
<1> DEFINE on == [c EXCEPT !.monitor = "online"]
           d == SetOnline(c, TRUE, t, sends)
<1>1. d = IF c.monitor # "online" /\ AutoFlush THEN TryFlush(on, t, sends) ELSE on
  BY DEF SetOnline
<1>2. CoordinatorOK(on) /\ on.monitor = "online" /\ on.agent = c.agent
  BY DEF CoordinatorOK
<1> HIDE DEF on, d
<1>3. d.flushing => d.monitor = "online"
  <2>1. CASE d = on
    BY <1>2, <2>1
  <2>2. CASE d = TryFlush(on, t, sends)
    BY <1>2, <2>2, TryFlushMonitor
  <2> QED BY <1>1, <2>1, <2>2
<1> QED BY <1>3 DEF d

LEMMA FinishFlushItemMonitor ==
  ASSUME NEW c, CoordinatorOK(c), c.monitor = "online", NEW m \in Msgs, NEW result,
         NEW t \in Turns, NEW sends \in BOOLEAN, FreshIn(c.agent, t)
  PROVE  LET d == FinishFlushItem(c, m, result, t, sends)
         IN  d.flushing => d.monitor = "online"
<1> DEFINE idle == [c EXCEPT !.flushing = FALSE]
           how == IF result = "ok" THEN "replied" ELSE "refused"
           s == Settle(idle, m, how)
           done == IF result = "ok" THEN SetOnline(s, TRUE, t, sends) ELSE s
           rest == RemoveFront(done)
           d == FinishFlushItem(c, m, result, t, sends)
<1>1. /\ CoordinatorOK(idle) /\ idle.agent = c.agent /\ ~ idle.flushing
      /\ idle.monitor = c.monitor
  BY DEF CoordinatorOK
<1>2. d = IF result # "ok" /\ IsQueueable(result) THEN RetryLater(idle)
          ELSE TryFlush(rest, t, sends)
  BY DEF FinishFlushItem
<1> HIDE DEF idle, d
<1>3. CASE d = RetryLater(idle)
  <2>1. ~ d.flushing
    BY <1>1, <1>3, RetryLaterFacts DEF SameTurns
  <2> QED BY <2>1 DEF d
<1>4. CASE d = TryFlush(rest, t, sends)
  <2>1. how \in {"replied", "refused", "dropped"}
    OBVIOUS
  <2> HIDE DEF how
  <2>2. CoordinatorOK(s) /\ s.agent = c.agent /\ s.monitor = "online"
    BY <1>1, <2>1, SettleFacts
  <2> HIDE DEF s
  <2>3. CoordinatorOK(done) /\ done.agent = c.agent /\ done.monitor = "online"
    <3>1. CASE result = "ok"
      <4>1. done = [s EXCEPT !.monitor = "online"]
        BY <2>2, <3>1 DEF SetOnline
      <4> HIDE DEF done
      <4> QED BY <2>2, <4>1 DEF CoordinatorOK
    <3>2. CASE result # "ok"
      BY <2>2, <3>2
    <3> QED BY <3>1, <3>2
  <2> HIDE DEF done
  <2>4. CoordinatorOK(rest) /\ rest.agent = c.agent /\ rest.monitor = "online"
    <3>1. rest.agent = done.agent /\ rest.monitor = done.monitor
      BY <2>3 DEF RemoveFront, CoordinatorOK
    <3> QED BY <2>3, <3>1, RemoveFrontFacts
  <2> HIDE DEF rest
  <2>5. d.flushing => d.monitor = "online"
    BY <1>4, <2>4, TryFlushMonitor
  <2> QED BY <2>5 DEF d
<1> QED BY <1>2, <1>3, <1>4

LEMMA ReportSteady ==
  ASSUME NEW c, CoordinatorOK(c), NEW online \in BOOLEAN, ~ AutoFlush \/ online = TRUE,
         NEW t \in Turns, NEW sends \in BOOLEAN, FreshIn(c.agent, t)
  PROVE  Steady(SetOnline(c, online, t, sends))
BY SetOnlineMonitor DEF Steady

LEMMA SubmitSteady ==
  ASSUME NEW c, CoordinatorOK(c), Steady(c), NEW m \in Msgs,
         NEW t \in Turns, NEW sends \in BOOLEAN, FreshIn(c.agent, t)
  PROVE  Steady(SubmitUserMessage(c, m, t, sends))
<1> DEFINE done == [by |-> "direct", text |-> m]
           out == AgentSubmit(c.agent, m, done, t, sends)
           b == [c EXCEPT !.agent = out.agent, !.told[m] = "waiting"]
           d == SubmitUserMessage(c, m, t, sends)
<1>1. done \in DoneCallbacks /\ AgentOK(c.agent)
  BY DEF DoneCallbacks, CoordinatorOK
<1>2. d = IF ~ IsOnline(c) \/ c.flushing THEN QueueOrRefuse(c, m)
          ELSE TurnDone(b, done, out.result, t, sends)
  BY DEF SubmitUserMessage
<1>3. done.by = "direct" /\ done.text = m
  OBVIOUS
<1> HIDE DEF out, d, done
<1>4. /\ AgentOK(out.agent)
      /\ out.result # Pending => out.result \in {"busy", "maxRounds", "notSent"}
  <2>1. /\ AgentOK(out.agent)
        /\ out.result = Pending =>
             /\ c.agent.active = NoTurn
             /\ ~ InFlight(c.agent, t)
             /\ out.agent.active = t
             /\ out.agent.ctx = [c.agent.ctx EXCEPT ![t] = [done |-> done, round |-> 0]]
        /\ out.result # Pending =>
             /\ out.result \in {"busy", "maxRounds", "notSent"}
             /\ out.agent.active = c.agent.active
             /\ out.agent.ctx = c.agent.ctx
    BY <1>1, AgentSubmitFacts DEF out
  <2> QED BY <2>1
<1>5. CoordinatorOK(b) /\ b.flushing = c.flushing /\ b.monitor = c.monitor
  BY <1>4 DEF CoordinatorOK
<1> HIDE DEF b
<1>6. Steady(d)
  <2>1. CASE ~ IsOnline(c) \/ c.flushing
    <3>1. SameTurns(c, d) /\ d.monitor = c.monitor
      BY <1>2, <2>1, QueueOrRefuseFacts
    <3> QED BY <3>1 DEF Steady, SameTurns
  <2>2. CASE ~ (~ IsOnline(c) \/ c.flushing) /\ out.result = Pending
    <3>1. d = b
      BY <1>2, <2>2 DEF TurnDone
    <3> QED BY <1>5, <3>1 DEF Steady
  <2>3. CASE ~ (~ IsOnline(c) \/ c.flushing) /\ out.result # Pending
    <3>1. d = DirectDone(b, m, out.result, t, sends)
      BY <1>2, <1>3, <2>3 DEF TurnDone
    <3>2. out.result # "ok"
      BY <1>4, <2>3
    <3>3. SameTurns(b, d)
      BY <1>5, <3>1, <3>2, DirectDoneKeeps
    <3> QED BY <1>5, <2>3, <3>3 DEF Steady, SameTurns
  <2> QED BY <2>1, <2>2, <2>3
<1> QED BY <1>6 DEF d

(* A direct turn ends while nothing is being flushed. *)
LEMMA NotFlushing ==
  ASSUME NEW c, Guarded(c), Alone(c), NEW t \in Turns, NEW m, ServesIn(c.agent, t, "direct", m)
  PROVE  ~ c.flushing
<1> SUFFICES ASSUME c.flushing PROVE FALSE
  OBVIOUS
<1>1. PICK u \in Turns, n \in Msgs : ServesIn(c.agent, u, "flush", n)
  BY DEF Guarded
<1>2. u = t
  BY <1>1 DEF Alone, ServesIn
<1>3. [by |-> "direct", text |-> m].by = [by |-> "flush", text |-> n].by
  BY <1>1, <1>2 DEF ServesIn
<1> QED BY <1>3

LEMMA CompleteSteady ==
  ASSUME NEW c, Good(c), Alone(c), Backed(c), Steady(c),
         NEW t \in Turns, InFlight(c.agent, t), NEW r \in Responses, NEW sends \in BOOLEAN
  PROVE  LET out == Respond(c.agent, t, r, sends)
         IN  Steady(TurnDone([c EXCEPT !.agent = out.agent],
                             c.agent.ctx[t].done, out.result, t, sends))
<1> DEFINE done == c.agent.ctx[t].done
           m == done.text
           out == Respond(c.agent, t, r, sends)
           b == [c EXCEPT !.agent = out.agent]
           d == TurnDone(b, done, out.result, t, sends)
<1>1. CoordinatorOK(c) /\ AgentOK(c.agent) /\ Guarded(c)
  BY DEF Good, CoordinatorOK
<1>2. m \in Msgs /\ done.by \in {"direct", "flush"} /\ done = [by |-> done.by, text |-> m]
  BY <1>1 DEF AgentOK, InFlight, TurnContext, DoneCallbacks
<1>3. /\ AgentOK(out.agent)
      /\ out.result # Pending => out.agent.ctx = [c.agent.ctx EXCEPT ![t] = NoCtx]
  BY <1>1, RespondFacts
<1> HIDE DEF out
<1>4. /\ CoordinatorOK(b) /\ b.agent = out.agent
      /\ b.flushing = c.flushing /\ b.monitor = c.monitor
  BY <1>1, <1>3 DEF CoordinatorOK
<1> HIDE DEF b, d, m, done
<1>5. ServesIn(c.agent, t, done.by, m)
  BY <1>2 DEF ServesIn, done
<1>6. CASE out.result = Pending
  <2>1. d = b
    BY <1>6 DEF TurnDone, d
  <2>2. Steady(d)
    BY <1>4, <2>1 DEF Steady
  <2> QED BY <2>2 DEF d, b, out, done
<1>7. CASE out.result # Pending
  <2>1. FreshIn(b.agent, t)
    BY <1>1, <1>3, <1>4, <1>7 DEF AgentOK, FreshIn, InFlight
  <2>2. CASE done.by = "flush" /\ AutoFlush
    <3>1. d = FinishFlushItem(b, m, out.result, t, sends)
      BY <1>7, <2>2 DEF TurnDone, d, m
    <3>2. b.monitor = "online"
      BY <1>2, <1>4, <1>5, <2>2 DEF Backed, Steady
    <3>3. Steady(d)
      BY <1>2, <1>4, <2>1, <3>1, <3>2, FinishFlushItemMonitor DEF Steady
    <3> QED BY <3>3 DEF d, b, out, done
  <2>3. CASE done.by = "direct"
    <3>1. d = DirectDone(b, m, out.result, t, sends)
      BY <1>7, <2>3 DEF TurnDone, d, m
    <3>2. ~ b.flushing
      BY <1>1, <1>4, <1>5, <2>3, NotFlushing
    <3>3. CASE out.result = "ok"
      <4> DEFINE s == Settle(b, m, "replied")
                 e == SetOnline(s, TRUE, t, sends)
      <4>1. CoordinatorOK(s) /\ s.agent = b.agent
        BY <1>2, <1>4, SettleFacts
      <4>2. d = [e EXCEPT !.told[m] = "replied"]
        BY <3>1, <3>3 DEF DirectDone
      <4> HIDE DEF s
      <4>3. CoordinatorOK(e) /\ (e.flushing => e.monitor = "online")
        BY <2>1, <4>1, SetOnlineFacts, SetOnlineMonitor
      <4> HIDE DEF e
      <4>4. Steady(d)
        BY <4>2, <4>3 DEF Steady, CoordinatorOK
      <4> QED BY <4>4 DEF d, b, out, done
    <3>4. CASE out.result # "ok"
      <4>1. SameTurns(b, d)
        BY <1>2, <1>4, <3>1, <3>4, DirectDoneKeeps
      <4>2. Steady(d)
        BY <3>2, <4>1 DEF Steady, SameTurns
      <4> QED BY <4>2 DEF d, b, out, done
    <3> QED BY <3>3, <3>4
  <2>4. CASE ~ AutoFlush
    BY <2>4 DEF Steady
  <2> QED BY <1>2, <2>2, <2>3, <2>4
<1> QED BY <1>6, <1>7

-----------------------------------------------------------------------------
(* What a step does to the queue: it removes items at the front, or adds   *)
(* one at the back.                                                        *)

(* The n oldest items are removed, all of them settled.  Whatever else is  *)
(* settled is not in the queue.                                            *)
Removes(c, d, n) ==
  /\ n \in 0 .. Len(c.queue) /\ Len(d.queue) = Len(c.queue) - n
  /\ \A i \in 1 .. Len(d.queue) : d.queue[i].text = c.queue[n + i].text
  /\ \A i \in 1 .. n : d.fate[c.queue[i].text] # {}
  /\ \A m \in Msgs : c.fate[m] # {} => d.fate[m] # {}
  /\ \A m \in Msgs : d.fate[m] # c.fate[m] => m \notin Texts(d.queue) /\ d.fate[m] # {}
  /\ \A m \in Msgs : m \in Texts(d.queue) => d.told[m] = c.told[m]

Adds(c, d, m) ==
  /\ New(c, m)
  /\ d.queue = Append(c.queue, Item(m))
  /\ d.told = [c.told EXCEPT ![m] = "queued"]
  /\ d.fate = c.fate

Changes(c, d) ==
  \/ \E n : Removes(c, d, n)
  \/ \E m \in Msgs : Adds(c, d, m)

LEMMA SettlesRemoves ==
  ASSUME NEW c, CoordinatorOK(c), NEW d, CoordinatorOK(d), Tracked(c),
         NEW n, SettlesFirst(c, d, n)
  PROVE  Removes(c, d, n)
<1>1. /\ n \in 0 .. Len(c.queue) /\ Len(d.queue) = Len(c.queue) - n
      /\ \A i \in 1 .. Len(d.queue) : d.queue[i].text = c.queue[n + i].text
      /\ d.told = c.told
  BY DEF SettlesFirst
<1>2. /\ Len(c.queue) \in Nat
      /\ \A i \in 1 .. Len(c.queue) : c.queue[i].text \in Msgs
  BY QueueFacts
<1>3. ASSUME NEW m \in Msgs, \E i \in 1 .. n : c.queue[i].text = m
      PROVE  d.fate[m] # {}
  <2>1. PICK how \in Delivery!Outcomes : d.fate[m] = c.fate[m] \cup {how}
    BY <1>3 DEF SettlesFirst
  <2> QED BY <2>1
<1>4. \A m \in Msgs : ~ (\E i \in 1 .. n : c.queue[i].text = m) => d.fate[m] = c.fate[m]
  BY DEF SettlesFirst
<1>5. \A i \in 1 .. n : c.queue[i].text \in Msgs
  BY <1>1, <1>2
<1>6. \A m \in Msgs : m \in Texts(d.queue) => d.fate[m] = c.fate[m]
  BY SettlesFirstTracked
<1> QED BY <1>1, <1>3, <1>4, <1>5, <1>6 DEF Removes

LEMMA HandlesChanges ==
  ASSUME NEW c, CoordinatorOK(c), NEW d, CoordinatorOK(d), NEW m \in Msgs,
         Tracked(c), New(c, m), Handles(c, d, m)
  PROVE  \/ d.queue = c.queue /\ Removes(c, d, 0)
         \/ d.queue # c.queue /\ Adds(c, d, m)
<1>1. PICK x : /\ d.told = [c.told EXCEPT ![m] = x]
               /\ \/ /\ x \in {"replied", "failed"} /\ d.queue = c.queue
                     /\ \E how \in Delivery!Outcomes : d.fate = [c.fate EXCEPT ![m] = {how}]
                  \/ x \in {"failed", "waiting"} /\ d.queue = c.queue /\ d.fate = c.fate
                  \/ /\ x = "queued" /\ d.queue = Append(c.queue, Item(m))
                     /\ d.fate = c.fate
  BY DEF Handles
<1>2. m \notin Texts(c.queue) /\ c.fate[m] = {}
  BY DEF Tracked
<1>3. \A k \in Msgs : k # m => d.told[k] = c.told[k]
  BY <1>1 DEF CoordinatorOK
<1>4. ASSUME d.queue = c.queue
      PROVE  Removes(c, d, 0)
  <2>1. \A k \in Msgs : k # m => d.fate[k] = c.fate[k]
    <3>1. d.fate = c.fate \/ \E how : d.fate = [c.fate EXCEPT ![m] = {how}]
      BY <1>1
    <3> QED BY <3>1 DEF CoordinatorOK
  <2>2. d.fate[m] # c.fate[m] => d.fate[m] # {}
    BY <1>2
  <2>3. \A k \in Msgs : k \in Texts(d.queue) => k # m
    BY <1>2, <1>4
  <2>4. Len(c.queue) \in Nat
    BY QueueFacts
  <2>5. /\ 0 \in 0 .. Len(c.queue) /\ Len(d.queue) = Len(c.queue) - 0
        /\ \A i \in 1 .. Len(d.queue) : d.queue[i].text = c.queue[0 + i].text
        /\ ~ \E i \in 1 .. 0 : TRUE
    BY <1>4, <2>4
  <2> QED BY <1>2, <1>3, <2>1, <2>2, <2>3, <2>5 DEF Removes
<1>5. ASSUME d.queue # c.queue
      PROVE  Adds(c, d, m)
  BY <1>1, <1>5 DEF Adds
<1> QED BY <1>4, <1>5

LEMMA RemovesComposes ==
  ASSUME NEW c, CoordinatorOK(c), NEW e, CoordinatorOK(e), NEW d, CoordinatorOK(d),
         e.queue = c.queue, Removes(c, e, 0), NEW n, Removes(e, d, n)
  PROVE  Removes(c, d, n)
<1>1. \A m \in Msgs : m \in Texts(d.queue) => m \in Texts(e.queue)
  <2>1. /\ Len(e.queue) \in Nat /\ Len(d.queue) \in Nat
        /\ n \in 0 .. Len(e.queue) /\ Len(d.queue) = Len(e.queue) - n
        /\ \A i \in 1 .. Len(d.queue) : d.queue[i].text = e.queue[n + i].text
        /\ \A m : m \in Texts(e.queue) <=> \E i \in 1 .. Len(e.queue) : e.queue[i].text = m
        /\ \A m : m \in Texts(d.queue) <=> \E i \in 1 .. Len(d.queue) : d.queue[i].text = m
    BY QueueFacts DEF Removes
  <2>2. \A i \in 1 .. Len(d.queue) : n + i \in 1 .. Len(e.queue)
    BY <2>1
  <2> QED BY <2>1, <2>2
<1>2. ASSUME NEW m \in Msgs, d.fate[m] # c.fate[m]
      PROVE  m \notin Texts(d.queue) /\ d.fate[m] # {}
  <2>1. CASE d.fate[m] # e.fate[m]
    BY <2>1 DEF Removes
  <2>2. CASE d.fate[m] = e.fate[m]
    BY <1>1, <1>2, <2>2 DEF Removes
  <2> QED BY <2>1, <2>2
<1>3. \A m \in Msgs : m \in Texts(d.queue) => d.told[m] = c.told[m]
  BY <1>1 DEF Removes
<1>4. \A m \in Msgs : c.fate[m] # {} => d.fate[m] # {}
  BY DEF Removes
<1> QED BY <1>2, <1>3, <1>4 DEF Removes

LEMMA MovesChange ==
  ASSUME NEW c, CoordinatorOK(c), NEW d, CoordinatorOK(d), Tracked(c), Moves(c, d)
  PROVE  Changes(c, d) /\ Tracked(d)
<1>1. ASSUME NEW n, SettlesFirst(c, d, n)
      PROVE  Changes(c, d) /\ Tracked(d)
  BY <1>1, SettlesRemoves, SettlesFirstTracked DEF Changes
<1>2. ASSUME NEW m \in Msgs, New(c, m), Handles(c, d, m)
      PROVE  Changes(c, d) /\ Tracked(d)
  BY <1>2, HandlesChanges, HandlesTracked DEF Changes
<1> QED BY <1>1, <1>2 DEF Moves

LEMMA ReportChanges ==
  ASSUME NEW c, CoordinatorOK(c), Tracked(c), NEW online \in BOOLEAN,
         NEW t \in Turns, NEW sends \in BOOLEAN, FreshIn(c.agent, t)
  PROVE  LET d == SetOnline(c, online, t, sends)
         IN  Changes(c, d) /\ Tracked(d)
<1> DEFINE b == [c EXCEPT !.monitor = IF online THEN "online" ELSE "offline"]
           d == SetOnline(c, online, t, sends)
<1>1. /\ CoordinatorOK(b) /\ b.agent = c.agent
      /\ b.queue = c.queue /\ b.told = c.told /\ b.fate = c.fate
  BY DEF CoordinatorOK
<1>2. d = IF online /\ c.monitor # "online" /\ AutoFlush THEN TryFlush(b, t, sends) ELSE b
  BY DEF SetOnline
<1>3. CoordinatorOK(d)
  BY SetOnlineFacts
<1> HIDE DEF b, d
<1>4. \E n : SettlesFirst(b, d, n)
  <2>1. CASE d = b
    BY <1>1, <2>1, SettlesNone
  <2>2. CASE d = TryFlush(b, t, sends)
    <3>1. Distinct(b)
      BY <1>1 DEF Tracked, Distinct
    <3> QED BY <1>1, <2>2, <3>1, TryFlushSettles
  <2> QED BY <1>2, <2>1, <2>2
<1>5. PICK n : SettlesFirst(b, d, n)
  BY <1>4
<1>6. SettlesFirst(c, d, n)
  BY <1>1, <1>5, SettlesFirstFrom
<1>7. Moves(c, d)
  BY <1>6 DEF Moves
<1>8. Changes(c, d) /\ Tracked(d)
  BY <1>3, <1>7, MovesChange
<1> QED BY <1>8 DEF d

LEMMA CompleteChanges ==
  ASSUME NEW c, Good(c), FrontServed(c), Alone(c), Backed(c), Steady(c), Tracked(c),
         NEW t \in Turns, InFlight(c.agent, t), NEW r \in Responses, NEW sends \in BOOLEAN
  PROVE  LET out == Respond(c.agent, t, r, sends)
             d   == TurnDone([c EXCEPT !.agent = out.agent],
                             c.agent.ctx[t].done, out.result, t, sends)
         IN  Changes(c, d) /\ Tracked(d)
<1> DEFINE done == c.agent.ctx[t].done
           m == done.text
           out == Respond(c.agent, t, r, sends)
           b == [c EXCEPT !.agent = out.agent]
           d == TurnDone(b, done, out.result, t, sends)
<1>1. CoordinatorOK(c) /\ AgentOK(c.agent) /\ CallersServed(c)
  BY DEF Good, CoordinatorOK
<1>2. m \in Msgs /\ done.by \in {"direct", "flush"} /\ done = [by |-> done.by, text |-> m]
  BY <1>1 DEF AgentOK, InFlight, TurnContext, DoneCallbacks
<1>3. /\ AgentOK(out.agent)
      /\ out.result # Pending => out.agent.ctx = [c.agent.ctx EXCEPT ![t] = NoCtx]
  BY <1>1, RespondFacts
<1>4. CoordinatorOK(d)
  BY CompleteStep DEF Keeps, Good
<1> HIDE DEF out
<1>5. /\ CoordinatorOK(b) /\ b.agent = out.agent /\ b.told = c.told
      /\ b.queue = c.queue /\ b.fate = c.fate /\ b.monitor = c.monitor
  BY <1>1, <1>3 DEF CoordinatorOK
<1> HIDE DEF b, d, m, done
<1>6. Tracked(b)
  BY <1>5 DEF Tracked, Distinct, New
<1>7. ServesIn(c.agent, t, done.by, m)
  BY <1>2 DEF ServesIn, done
<1>8. Changes(b, d) => Changes(c, d)
  <2>1. \A n : Removes(b, d, n) => Removes(c, d, n)
    BY <1>5 DEF Removes
  <2>2. \A x \in Msgs : Adds(b, d, x) => Adds(c, d, x)
    BY <1>5 DEF Adds, New
  <2> QED BY <2>1, <2>2 DEF Changes
<1>9. CASE out.result = Pending
  <2>1. d = b
    BY <1>9 DEF TurnDone, d
  <2>2. SettlesFirst(b, d, 0)
    BY <1>5, <2>1, SettlesNone
  <2>3. Changes(b, d)
    BY <1>5, <1>6, <2>1, <2>2, SettlesRemoves DEF Changes
  <2> QED BY <1>6, <1>8, <2>1, <2>3 DEF d, b, out, done
<1>10. CASE out.result # Pending
  <2>1. FreshIn(b.agent, t)
    BY <1>1, <1>3, <1>5, <1>10 DEF AgentOK, FreshIn, InFlight
  <2>2. CASE done.by = "flush"
    <3>1. d = FinishFlushItem(b, m, out.result, t, sends)
      BY <1>10, <2>2 DEF TurnDone, d, m
    <3>2. c.queue # << >> /\ Head(c.queue).text = m
      BY <1>2, <1>7, <2>2, EndedFront
    <3>3. ~ AutoFlush \/ b.monitor = "online"
      BY <1>2, <1>5, <1>7, <2>2 DEF Backed, Steady
    <3>4. PICK n : SettlesFirst(b, d, n)
      BY <1>2, <1>5, <1>6, <2>1, <3>1, <3>2, <3>3, FinishFlushItemSettles
    <3>5. Moves(b, d)
      BY <3>4 DEF Moves
    <3>6. Changes(b, d) /\ Tracked(d)
      BY <1>4, <1>5, <1>6, <3>5, MovesChange DEF d
    <3> QED BY <1>8, <3>6 DEF d, b, out, done
  <2>3. CASE done.by = "direct"
    <3>1. d = DirectDone(b, m, out.result, t, sends)
      BY <1>10, <2>3 DEF TurnDone, d, m
    <3>2. c.told[m] = "waiting"
      BY <1>1, <1>2, <1>7, <2>3 DEF CallersServed, NoneServes
    <3>3. New(b, m) /\ b.fate[m] = {}
      BY <1>2, <1>5, <1>6, <3>2 DEF New, Tracked
    <3>4. CASE out.result = "ok"
      <4>1. PICK e, n : /\ CoordinatorOK(e) /\ Handles(b, e, m) /\ e.queue = b.queue
                        /\ SettlesFirst(e, d, n)
        BY <1>2, <1>5, <1>6, <2>1, <3>1, <3>3, <3>4, DirectOkMoves
      <4>2. Removes(b, e, 0) /\ Tracked(e)
        BY <1>2, <1>5, <1>6, <3>3, <4>1, HandlesChanges, HandlesTracked
      <4>3. CoordinatorOK(d)
        BY <1>4 DEF d
      <4>4. Removes(e, d, n) /\ Tracked(d)
        BY <4>1, <4>2, <4>3, SettlesRemoves, SettlesFirstTracked
      <4>5. Removes(b, d, n)
        BY <1>5, <4>1, <4>2, <4>3, <4>4, RemovesComposes
      <4>6. Changes(b, d)
        BY <4>5 DEF Changes
      <4> QED BY <1>8, <4>4, <4>6 DEF d, b, out, done
    <3>5. CASE out.result # "ok"
      <4>1. Handles(b, d, m)
        BY <1>2, <1>5, <3>1, <3>3, <3>5, DirectDoneHandles
      <4>2. Moves(b, d)
        BY <1>2, <3>3, <4>1 DEF Moves
      <4>3. Changes(b, d) /\ Tracked(d)
        BY <1>4, <1>5, <1>6, <4>2, MovesChange DEF d
      <4> QED BY <1>8, <4>3 DEF d, b, out, done
    <3> QED BY <3>4, <3>5
  <2> QED BY <1>2, <2>2, <2>3
<1> QED BY <1>9, <1>10

-----------------------------------------------------------------------------
(* The steps                                                               *)

LEMMA SubmitSound ==
  ASSUME NEW c, Sound(c), NEW m \in Msgs, c.told[m] = "none",
         NEW t \in Turns, NEW sends \in BOOLEAN, FreshIn(c.agent, t)
  PROVE  LET d == SubmitUserMessage(c, m, t, sends)
         IN  Sound(d) /\ Changes(c, d)
<1> DEFINE d == SubmitUserMessage(c, m, t, sends)
<1>1. CoordinatorOK(c) /\ Good(c)
  BY DEF Sound, Good
<1>2. Good(d) /\ Alone(d)
  BY SubmitStep DEF Sound, Keeps
<1>3. FrontServed(d) /\ Kept(d) /\ Backed(d)
  BY SubmitDelivers DEF Sound, Delivers
<1>4. Steady(d)
  BY <1>1, SubmitSteady DEF Sound
<1>5. Moves(c, d)
  BY <1>1, SubmitMoves DEF Sound
<1> HIDE DEF d
<1>6. CoordinatorOK(d)
  BY <1>2 DEF Good
<1>7. Changes(c, d) /\ Tracked(d)
  BY <1>1, <1>5, <1>6, MovesChange DEF Sound
<1> QED BY <1>2, <1>3, <1>4, <1>7 DEF Sound, d

LEMMA CompleteSound ==
  ASSUME NEW c, Sound(c), NEW t \in Turns, InFlight(c.agent, t),
         NEW r \in Responses, NEW sends \in BOOLEAN
  PROVE  LET out == Respond(c.agent, t, r, sends)
             d   == TurnDone([c EXCEPT !.agent = out.agent],
                             c.agent.ctx[t].done, out.result, t, sends)
         IN  Sound(d) /\ Changes(c, d)
<1> DEFINE out == Respond(c.agent, t, r, sends)
           d == TurnDone([c EXCEPT !.agent = out.agent],
                         c.agent.ctx[t].done, out.result, t, sends)
<1>1. /\ Good(c) /\ Alone(c) /\ FrontServed(c) /\ Backed(c) /\ Kept(c)
      /\ Steady(c) /\ Tracked(c)
  BY DEF Sound
<1>2. Good(d) /\ Alone(d)
  BY <1>1, CompleteStep DEF Keeps
<1>3. Undisturbed(c)
  BY <1>1 DEF Undisturbed
<1>4. FrontServed(d) /\ Kept(d) /\ Backed(d)
  BY <1>1, <1>3, CompleteDelivers DEF Delivers
<1>5. Steady(d)
  BY <1>1, CompleteSteady
<1>6. Changes(c, d) /\ Tracked(d)
  BY <1>1, CompleteChanges
<1> QED BY <1>2, <1>4, <1>5, <1>6 DEF Sound

LEMMA ReportSound ==
  ASSUME NEW c, Sound(c), NEW online \in BOOLEAN, ~ AutoFlush \/ online = TRUE,
         NEW t \in Turns, NEW sends \in BOOLEAN, FreshIn(c.agent, t)
  PROVE  LET d == SetOnline(c, online, t, sends)
         IN  Sound(d) /\ Changes(c, d)
<1> DEFINE b == [c EXCEPT !.monitor = IF online THEN "online" ELSE "offline"]
           d == SetOnline(c, online, t, sends)
<1>1. /\ Good(c) /\ Alone(c) /\ FrontServed(c) /\ Backed(c) /\ Kept(c)
      /\ Steady(c) /\ Tracked(c) /\ CoordinatorOK(c)
  BY DEF Sound, Good
<1>2. Good(d) /\ Alone(d)
  BY <1>1, ReportStep DEF Keeps
<1>3. Advances(c, d, t) /\ d.told = c.told
  BY <1>1, SetOnlineFacts
<1>4. Steady(d)
  BY <1>1, ReportSteady
<1>5. Changes(c, d) /\ Tracked(d)
  BY <1>1, ReportChanges
<1>6. d = IF online /\ c.monitor # "online" /\ AutoFlush THEN TryFlush(b, t, sends) ELSE b
  BY DEF SetOnline
<1>7. /\ CoordinatorOK(b) /\ b.agent = c.agent /\ b.flushing = c.flushing
      /\ b.queue = c.queue /\ b.told = c.told /\ b.fate = c.fate
  BY <1>1 DEF CoordinatorOK
<1> HIDE DEF b, d
<1>8. FrontServed(b) /\ Holds(c, b)
  BY <1>1, <1>7 DEF FrontServed, Holds, Has
<1>9. FrontServed(d) /\ Holds(b, d)
  <2>1. CASE d = b
    BY <1>8, <2>1 DEF Holds
  <2>2. CASE d = TryFlush(b, t, sends)
    BY <1>7, <1>8, <2>2, TryFlushSends
  <2> QED BY <1>6, <2>1, <2>2
<1>10. Kept(d) /\ Backed(d)
  BY <1>1, <1>3, <1>8, <1>9, HoldsComposes, HoldsKeeps, AdvancesBacked
<1> QED BY <1>2, <1>4, <1>5, <1>9, <1>10 DEF Sound, d

-----------------------------------------------------------------------------
(* What a step does to the file                                            *)

LEMMA ItemsFacts ==
  ASSUME NEW f \in Seq(Items)
  PROVE  /\ Len(f) \in Nat /\ DOMAIN f = 1 .. Len(f)
         /\ \A i \in 1 .. Len(f) : f[i] \in Items /\ f[i].text \in Msgs
         /\ \A m : m \in Texts(f) <=> \E i \in 1 .. Len(f) : f[i].text = m
<1>1. Len(f) \in Nat /\ DOMAIN f = 1 .. Len(f)
  BY LenProperties
<1>2. \A i \in 1 .. Len(f) : f[i] \in Items
  BY ElementOfSeq
<1>3. \A i \in 1 .. Len(f) : f[i].text \in Msgs
  BY <1>2 DEF Items
<1> QED BY <1>1, <1>2, <1>3 DEF Texts

LEMMA QueueTexts ==
  ASSUME NEW c, CoordinatorOK(c)
  PROVE  \A m : m \in Texts(c.queue) => m \in Msgs
BY ItemsFacts DEF CoordinatorOK

LEMMA SameOrderTexts ==
  ASSUME NEW p, NEW q
  PROVE  SameOrder(TextsOf(p), TextsOf(q)) <=>
           \A i, j \in DOMAIN p, k, l \in DOMAIN q :
             p[i].text = q[k].text /\ p[j].text = q[l].text => (i < j <=> k < l)
BY DEF SameOrder, TextsOf

(* Where the queue of c ends up in the queue of d. *)
LEMMA RemovesFacts ==
  ASSUME NEW c, CoordinatorOK(c), NEW d, CoordinatorOK(d), NEW n, Removes(c, d, n)
  PROVE  /\ n \in Nat /\ n <= Len(c.queue) /\ Len(d.queue) = Len(c.queue) - n
         /\ DOMAIN c.queue = 1 .. Len(c.queue) /\ DOMAIN d.queue = 1 .. Len(d.queue)
         /\ \A i \in 1 .. Len(d.queue) :
               n + i \in 1 .. Len(c.queue) /\ d.queue[i].text = c.queue[n + i].text
         /\ \A i \in 1 .. Len(c.queue) : i > n =>
               i - n \in 1 .. Len(d.queue) /\ d.queue[i - n].text = c.queue[i].text
<1>1. /\ Len(c.queue) \in Nat /\ DOMAIN c.queue = 1 .. Len(c.queue)
      /\ Len(d.queue) \in Nat /\ DOMAIN d.queue = 1 .. Len(d.queue)
      /\ n \in 0 .. Len(c.queue) /\ Len(d.queue) = Len(c.queue) - n
      /\ \A i \in 1 .. Len(d.queue) : d.queue[i].text = c.queue[n + i].text
  BY QueueFacts DEF Removes
<1>2. \A i \in 1 .. Len(d.queue) : n + i \in 1 .. Len(c.queue)
  BY <1>1
<1>3. ASSUME NEW i \in 1 .. Len(c.queue), i > n
      PROVE  i - n \in 1 .. Len(d.queue) /\ d.queue[i - n].text = c.queue[i].text
  <2>1. i - n \in 1 .. Len(d.queue) /\ n + (i - n) = i
    BY <1>1, <1>3
  <2> QED BY <1>1, <2>1
<1> QED BY <1>1, <1>2, <1>3

(* A file that is not written stays good enough. *)
LEMMA StaleMatches ==
  ASSUME NEW c, CoordinatorOK(c), NEW d, CoordinatorOK(d), NEW n, Removes(c, d, n),
         NEW f \in Seq(Items), Matches(c, f)
  PROVE  Matches(d, f)
<1>1. /\ n \in Nat /\ n <= Len(c.queue) /\ Len(d.queue) = Len(c.queue) - n
      /\ DOMAIN c.queue = 1 .. Len(c.queue) /\ DOMAIN d.queue = 1 .. Len(d.queue)
      /\ \A i \in 1 .. Len(d.queue) :
            n + i \in 1 .. Len(c.queue) /\ d.queue[i].text = c.queue[n + i].text
      /\ \A i \in 1 .. Len(c.queue) : i > n =>
            i - n \in 1 .. Len(d.queue) /\ d.queue[i - n].text = c.queue[i].text
  BY RemovesFacts
<1>2. /\ \A m : m \in Texts(c.queue) <=> \E i \in 1 .. Len(c.queue) : c.queue[i].text = m
      /\ \A m : m \in Texts(d.queue) <=> \E i \in 1 .. Len(d.queue) : d.queue[i].text = m
      /\ \A m : m \in Texts(c.queue) => m \in Msgs
      /\ \A m : m \in Texts(d.queue) => m \in Msgs
      /\ Len(c.queue) \in Nat
  BY QueueFacts, QueueTexts
<1>3. \A m : m \in Texts(f) => m \in Msgs
  BY ItemsFacts
<1>4. ASSUME NEW m \in Texts(d.queue) \ Texts(f)
      PROVE  d.told[m] = "failed"
  <2>1. m \in Texts(c.queue) /\ m \in Msgs
    <3>1. PICK i \in 1 .. Len(d.queue) : d.queue[i].text = m
      BY <1>2
    <3>2. n + i \in 1 .. Len(c.queue) /\ c.queue[n + i].text = m
      BY <1>1, <3>1
    <3> QED BY <1>2, <3>2
  <2>2. c.told[m] = "failed"
    BY <2>1 DEF Matches
  <2> QED BY <2>1, <2>2 DEF Removes
<1>5. ASSUME NEW m \in Texts(f) \ Texts(d.queue)
      PROVE  d.fate[m] # {}
  <2>1. CASE m \in Texts(c.queue)
    <3>1. PICK i \in 1 .. Len(c.queue) : c.queue[i].text = m
      BY <1>2, <2>1
    <3>2. ~ i > n
      BY <1>1, <1>2, <3>1
    <3>3. i \in 1 .. n
      BY <1>1, <1>2, <3>2
    <3> QED BY <3>1, <3>3 DEF Removes
  <2>2. CASE m \notin Texts(c.queue)
    <3>1. c.fate[m] # {} /\ m \in Msgs
      BY <1>3, <2>2 DEF Matches
    <3> QED BY <3>1 DEF Removes
  <2> QED BY <2>1, <2>2
<1>6. ASSUME NEW i \in DOMAIN d.queue, NEW j \in DOMAIN d.queue,
             NEW k \in DOMAIN f, NEW l \in DOMAIN f,
             d.queue[i].text = f[k].text, d.queue[j].text = f[l].text
      PROVE  i < j <=> k < l
  <2>1. /\ n + i \in DOMAIN c.queue /\ c.queue[n + i].text = f[k].text
        /\ n + j \in DOMAIN c.queue /\ c.queue[n + j].text = f[l].text
    BY <1>1, <1>6
  <2>2. SameOrder(TextsOf(c.queue), TextsOf(f))
    BY DEF Matches
  <2>3. n + i < n + j <=> k < l
    BY <2>1, <2>2, SameOrderTexts
  <2>4. i \in Int /\ j \in Int
    BY <1>1
  <2>5. n + i < n + j <=> i < j
    BY <1>1, <2>4
  <2> QED BY <2>3, <2>5
<1>7. SameOrder(TextsOf(d.queue), TextsOf(f))
  BY <1>6, SameOrderTexts
<1> QED BY <1>4, <1>5, <1>7 DEF Matches

(* A file that holds the queue, or what it was on the way, is good enough. *)
LEMMA SuffixMatches ==
  ASSUME NEW c, CoordinatorOK(c), NEW d, CoordinatorOK(d), NEW n, Removes(c, d, n),
         Distinct(c), NEW k \in 0 .. n, NEW g \in Seq(Items),
         Len(g) = Len(c.queue) - k,
         \A i \in 1 .. Len(g) : g[i].text = c.queue[k + i].text
  PROVE  Matches(d, g)
<1>1. /\ n \in Nat /\ n <= Len(c.queue) /\ Len(d.queue) = Len(c.queue) - n
      /\ DOMAIN c.queue = 1 .. Len(c.queue) /\ DOMAIN d.queue = 1 .. Len(d.queue)
      /\ \A i \in 1 .. Len(d.queue) :
            n + i \in 1 .. Len(c.queue) /\ d.queue[i].text = c.queue[n + i].text
      /\ \A i \in 1 .. Len(c.queue) : i > n =>
            i - n \in 1 .. Len(d.queue) /\ d.queue[i - n].text = c.queue[i].text
  BY RemovesFacts
<1>2. /\ \A m : m \in Texts(d.queue) <=> \E i \in 1 .. Len(d.queue) : d.queue[i].text = m
      /\ Len(c.queue) \in Nat
  BY QueueFacts
<1>3. /\ DOMAIN g = 1 .. Len(g)
      /\ \A m : m \in Texts(g) <=> \E i \in 1 .. Len(g) : g[i].text = m
  BY ItemsFacts
<1>4. \A i \in 1 .. Len(g) : k + i \in 1 .. Len(c.queue) /\ g[i].text = c.queue[k + i].text
  BY <1>1, <1>2
<1>5. \A i, j \in 1 .. Len(c.queue) : c.queue[i].text = c.queue[j].text => i = j
  BY <1>1 DEF Distinct
<1>6. ASSUME NEW m \in Texts(d.queue)
      PROVE  m \in Texts(g)
  <2>1. PICK i \in 1 .. Len(d.queue) : d.queue[i].text = m
    BY <1>2
  <2>2. PICK h \in 1 .. Len(g) : k + h = n + i
    <3>1. (n - k) + i \in 1 .. Len(g) /\ k + ((n - k) + i) = n + i
      BY <1>1, <1>2
    <3> QED BY <3>1
  <2>3. g[h].text = m
    <3>1. g[h].text = c.queue[k + h].text
      BY <1>4
    <3>2. d.queue[i].text = c.queue[n + i].text
      BY <1>1
    <3> QED BY <2>1, <2>2, <3>1, <3>2
  <2> QED BY <1>3, <2>2, <2>3
<1>7. ASSUME NEW m \in Texts(g) \ Texts(d.queue)
      PROVE  d.fate[m] # {}
  <2>1. PICK i \in 1 .. Len(g) : g[i].text = m
    BY <1>3
  <2>2. k + i \in 1 .. Len(c.queue) /\ c.queue[k + i].text = m
    BY <1>4, <2>1
  <2>3. ~ k + i > n
    BY <1>1, <1>2, <2>2
  <2>4. k + i \in 1 .. n
    BY <1>1, <2>2, <2>3
  <2> QED BY <2>2, <2>4 DEF Removes
<1>8. ASSUME NEW i \in DOMAIN d.queue, NEW j \in DOMAIN d.queue,
             NEW a \in DOMAIN g, NEW b \in DOMAIN g,
             d.queue[i].text = g[a].text, d.queue[j].text = g[b].text
      PROVE  i < j <=> a < b
  <2>1. /\ n + i \in 1 .. Len(c.queue) /\ k + a \in 1 .. Len(c.queue)
        /\ n + j \in 1 .. Len(c.queue) /\ k + b \in 1 .. Len(c.queue)
        /\ c.queue[n + i].text = c.queue[k + a].text
        /\ c.queue[n + j].text = c.queue[k + b].text
    BY <1>1, <1>3, <1>4, <1>8
  <2>2. n + i = k + a /\ n + j = k + b
    BY <1>5, <2>1
  <2>3. i \in Int /\ j \in Int /\ a \in Int /\ b \in Int
    BY <1>1, <1>3
  <2>4. n \in Int /\ k \in Int
    BY <1>1
  <2> QED BY <2>2, <2>3, <2>4
<1>9. ASSUME NEW i \in DOMAIN g, NEW j \in DOMAIN g, g[i].text = g[j].text
      PROVE  i = j
  <2>1. k + i = k + j
    BY <1>3, <1>4, <1>5, <1>9
  <2> QED BY <1>3, <2>1
<1>10. SameOrder(TextsOf(d.queue), TextsOf(g))
  BY <1>8, SameOrderTexts
<1> QED BY <1>6, <1>7, <1>9, <1>10 DEF Matches

(* The queue of d is that of c and the item of m. *)
Longer(c, d, m) ==
  /\ DOMAIN c.queue = 1 .. Len(c.queue) /\ DOMAIN d.queue = 1 .. Len(d.queue)
  /\ Len(c.queue) \in Nat /\ Len(d.queue) = Len(c.queue) + 1
  /\ \A i \in 1 .. Len(c.queue) :
        i \in 1 .. Len(d.queue) /\ d.queue[i].text = c.queue[i].text
  /\ d.queue[Len(d.queue)] = Item(m) /\ Item(m).text = m /\ Item(m) \in Items
  /\ \A k : k \in Texts(d.queue) <=> k \in Texts(c.queue) \cup {m}
  /\ \A k \in Msgs : d.told[k] = IF k = m THEN "queued" ELSE c.told[k]

LEMMA AddsFacts ==
  ASSUME NEW c, CoordinatorOK(c), NEW d, CoordinatorOK(d), NEW m \in Msgs, Adds(c, d, m)
  PROVE  Longer(c, d, m)
<1>1. /\ Len(c.queue) \in Nat
      /\ DOMAIN c.queue = 1 .. Len(c.queue) /\ DOMAIN d.queue = 1 .. Len(d.queue)
      /\ \A k : k \in Texts(c.queue) <=> \E i \in 1 .. Len(c.queue) : c.queue[i].text = k
      /\ \A k : k \in Texts(d.queue) <=> \E i \in 1 .. Len(d.queue) : d.queue[i].text = k
  BY QueueFacts
<1> c.queue \in Seq(Items)
  BY DEF CoordinatorOK
<1>2. Item(m) \in Items /\ Item(m).text = m
  BY DEF Item, Items
<1>3. /\ Len(d.queue) = Len(c.queue) + 1
      /\ d.queue[Len(d.queue)] = Item(m)
      /\ \A i \in 1 .. Len(c.queue) : d.queue[i] = c.queue[i]
  BY <1>1, <1>2, AppendProperties DEF Adds
<1>4. \A i \in 1 .. Len(c.queue) :
         i \in 1 .. Len(d.queue) /\ d.queue[i].text = c.queue[i].text
  BY <1>1, <1>3
<1>6. \A k \in Msgs : d.told[k] = IF k = m THEN "queued" ELSE c.told[k]
  BY DEF Adds, CoordinatorOK
<1>7. \A k : k \in Texts(d.queue) <=> k \in Texts(c.queue) \cup {m}
  <2>1. ASSUME NEW k, k \in Texts(d.queue)
        PROVE  k \in Texts(c.queue) \cup {m}
    <3>1. PICK i \in 1 .. Len(d.queue) : d.queue[i].text = k
      BY <1>1, <2>1
    <3>2. i = Len(d.queue) \/ i \in 1 .. Len(c.queue)
      BY <1>1, <1>3
    <3> QED BY <1>1, <1>2, <1>3, <1>4, <3>1, <3>2
  <2>2. ASSUME NEW k, k \in Texts(c.queue) \cup {m}
        PROVE  k \in Texts(d.queue)
    <3>1. Len(d.queue) \in 1 .. Len(d.queue)
      BY <1>1, <1>3
    <3> QED BY <1>1, <1>2, <1>3, <1>4, <2>2, <3>1
  <2> QED BY <2>1, <2>2
<1> QED BY <1>1, <1>2, <1>3, <1>4, <1>6, <1>7 DEF Longer

(* The new item was not in the file. *)
LEMMA AddedUnknown ==
  ASSUME NEW c, Tracked(c), NEW d, NEW m \in Msgs, Adds(c, d, m), NEW f, Matches(c, f)
  PROVE  m \notin Texts(c.queue) /\ m \notin Texts(f)
<1>1. m \notin Texts(c.queue) /\ c.fate[m] = {}
  BY DEF Tracked, Adds
<1> QED BY <1>1 DEF Matches

(* The line of the new item goes behind those of the older ones. *)
LEMMA AppendMatches ==
  ASSUME NEW c, CoordinatorOK(c), Tracked(c), NEW d, CoordinatorOK(d), NEW m \in Msgs,
         Adds(c, d, m), NEW f \in Seq(Items), Matches(c, f)
  PROVE  Matches(d, Append(f, Item(m)))
<1> DEFINE g == Append(f, Item(m))
           n == Len(c.queue)
           o == Len(f)
<1>1. /\ DOMAIN c.queue = 1 .. n /\ DOMAIN d.queue = 1 .. Len(d.queue)
      /\ n \in Nat /\ Len(d.queue) = n + 1
      /\ \A i \in 1 .. n : i \in 1 .. Len(d.queue) /\ d.queue[i].text = c.queue[i].text
      /\ d.queue[Len(d.queue)] = Item(m) /\ Item(m).text = m /\ Item(m) \in Items
      /\ \A k : k \in Texts(d.queue) <=> k \in Texts(c.queue) \cup {m}
      /\ \A k \in Msgs : d.told[k] = IF k = m THEN "queued" ELSE c.told[k]
  <2>1. Longer(c, d, m)
    BY AddsFacts
  <2> QED BY <2>1 DEF Longer
<1> HIDE DEF n
<1>2. /\ o \in Nat /\ DOMAIN f = 1 .. o
      /\ \A k : k \in Texts(f) <=> \E i \in 1 .. o : f[i].text = k
  BY ItemsFacts
<1>3. /\ g \in Seq(Items) /\ Len(g) = o + 1 /\ g[o + 1].text = m
      /\ \A i \in 1 .. o : g[i].text = f[i].text
  BY <1>1, <1>2, AppendProperties
<1> HIDE DEF g
<1>4. /\ DOMAIN g = 1 .. o + 1
      /\ \A k : k \in Texts(g) <=> \E i \in 1 .. o + 1 : g[i].text = k
  <2>1. /\ DOMAIN g = 1 .. Len(g)
        /\ \A k : k \in Texts(g) <=> \E i \in 1 .. Len(g) : g[i].text = k
    BY <1>3, ItemsFacts
  <2> QED BY <1>3, <2>1
<1> HIDE DEF o
<1>5. m \notin Texts(c.queue) /\ m \notin Texts(f)
  BY AddedUnknown
<1>6. /\ \A i \in 1 .. o + 1 : i = o + 1 \/ i \in 1 .. o
      /\ \A i \in 1 .. n + 1 : i = n + 1 \/ i \in 1 .. n
      /\ \A i \in 1 .. n : c.queue[i].text # m
      /\ \A i \in 1 .. o : f[i].text # m
  <2>1. \A k : k \in Texts(c.queue) <=> \E i \in 1 .. n : c.queue[i].text = k
    BY QueueFacts DEF n
  <2>2. \A i \in 1 .. n : c.queue[i].text # m
    BY <1>5, <2>1
  <2>3. \A i \in 1 .. o : f[i].text # m
    BY <1>2, <1>5
  <2> QED BY <1>1, <1>2, <2>2, <2>3
<1>7. \A k : k \in Texts(g) <=> k \in Texts(f) \cup {m}
  <2>1. ASSUME NEW k, k \in Texts(g)
        PROVE  k \in Texts(f) \cup {m}
    <3>1. PICK i \in 1 .. o + 1 : g[i].text = k
      BY <1>4, <2>1
    <3> QED BY <1>2, <1>3, <1>6, <3>1
  <2>2. ASSUME NEW k, k \in Texts(f) \cup {m}
        PROVE  k \in Texts(g)
    <3>1. o + 1 \in 1 .. o + 1 /\ \A i \in 1 .. o : i \in 1 .. o + 1
      BY <1>2
    <3> QED BY <1>2, <1>3, <1>4, <2>2, <3>1
  <2> QED BY <2>1, <2>2
<1>8. ASSUME NEW k \in Texts(d.queue) \ Texts(g)
      PROVE  d.told[k] = "failed"
  <2>1. k \in Texts(c.queue) \ Texts(f) /\ k # m /\ k \in Msgs
    BY <1>1, <1>7, QueueTexts
  <2> QED BY <1>1, <2>1 DEF Matches
<1>9. ASSUME NEW k \in Texts(g) \ Texts(d.queue)
      PROVE  d.fate[k] # {}
  <2>1. k \in Texts(f) \ Texts(c.queue)
    BY <1>1, <1>7
  <2> QED BY <2>1 DEF Matches, Adds
<1> DEFINE Paired(i, k) == d.queue[i].text = g[k].text
<1>10. ASSUME NEW i \in 1 .. n + 1, NEW k \in 1 .. o + 1, Paired(i, k)
       PROVE  \/ i = n + 1 /\ k = o + 1
              \/ i \in 1 .. n /\ k \in 1 .. o /\ c.queue[i].text = f[k].text
  BY <1>1, <1>3, <1>6, <1>10
<1>11. ASSUME NEW i \in DOMAIN d.queue, NEW j \in DOMAIN d.queue,
              NEW k \in DOMAIN g, NEW l \in DOMAIN g, Paired(i, k), Paired(j, l)
       PROVE  i < j <=> k < l
  <2>1. /\ i \in 1 .. n + 1 /\ j \in 1 .. n + 1 /\ k \in 1 .. o + 1 /\ l \in 1 .. o + 1
    BY <1>1, <1>4
  <2>2. /\ \/ i = n + 1 /\ k = o + 1
           \/ i \in 1 .. n /\ k \in 1 .. o /\ c.queue[i].text = f[k].text
        /\ \/ j = n + 1 /\ l = o + 1
           \/ j \in 1 .. n /\ l \in 1 .. o /\ c.queue[j].text = f[l].text
    BY <1>10, <1>11, <2>1
  <2>3. CASE i = n + 1 \/ j = n + 1
    BY <1>1, <1>2, <2>1, <2>2, <2>3
  <2>4. CASE ~ (i = n + 1 \/ j = n + 1)
    <3>1. SameOrder(TextsOf(c.queue), TextsOf(f))
      BY DEF Matches
    <3>2. /\ i \in DOMAIN c.queue /\ k \in DOMAIN f /\ c.queue[i].text = f[k].text
          /\ j \in DOMAIN c.queue /\ l \in DOMAIN f /\ c.queue[j].text = f[l].text
      BY <1>1, <1>2, <2>2, <2>4
    <3> QED BY <3>1, <3>2, SameOrderTexts
  <2> QED BY <2>3, <2>4
<1>12. SameOrder(TextsOf(d.queue), TextsOf(g))
  BY <1>11, SameOrderTexts
<1>13. ASSUME NEW i \in DOMAIN g, NEW j \in DOMAIN g, g[i].text = g[j].text
       PROVE  i = j
  <2>1. CASE i \in 1 .. o /\ j \in 1 .. o
    <3>1. f[i].text = f[j].text
      BY <1>3, <1>13, <2>1
    <3> QED BY <1>2, <2>1, <3>1 DEF Matches
  <2>2. CASE i \notin 1 .. o \/ j \notin 1 .. o
    BY <1>3, <1>4, <1>6, <1>13, <2>2
  <2> QED BY <2>1, <2>2
<1>14. Matches(d, g)
  BY <1>8, <1>9, <1>12, <1>13 DEF Matches
<1> QED BY <1>14 DEF g

(* e is d, with the caller told that the item of m was not enqueued. *)
Refused(d, e, m) ==
  /\ DOMAIN e = DOMAIN d
  /\ e.monitor = d.monitor /\ e.queue = d.queue /\ e.flushing = d.flushing
  /\ e.flushCtx = d.flushCtx /\ e.agent = d.agent /\ e.flushTold = d.flushTold
  /\ e.fate = d.fate
  /\ e.told = [d.told EXCEPT ![m] = "failed"]

LEMMA RefusedMatches ==
  ASSUME NEW c, CoordinatorOK(c), Tracked(c), NEW d, CoordinatorOK(d), NEW m \in Msgs,
         Adds(c, d, m), NEW f \in Seq(Items), Matches(c, f), NEW e, Refused(d, e, m)
  PROVE  Matches(e, f)
<1>1. /\ DOMAIN c.queue = 1 .. Len(c.queue) /\ DOMAIN d.queue = 1 .. Len(d.queue)
      /\ Len(c.queue) \in Nat /\ Len(d.queue) = Len(c.queue) + 1
      /\ \A i \in 1 .. Len(c.queue) :
            i \in 1 .. Len(d.queue) /\ d.queue[i].text = c.queue[i].text
      /\ d.queue[Len(d.queue)] = Item(m) /\ Item(m).text = m
      /\ \A k : k \in Texts(d.queue) <=> k \in Texts(c.queue) \cup {m}
      /\ \A k \in Msgs : d.told[k] = IF k = m THEN "queued" ELSE c.told[k]
  <2>1. Longer(c, d, m)
    BY AddsFacts
  <2> QED BY <2>1 DEF Longer
<1>2. m \notin Texts(c.queue) /\ m \notin Texts(f)
  BY AddedUnknown
<1>3. /\ e.queue = d.queue /\ e.fate = c.fate
      /\ \A k \in Msgs : e.told[k] = IF k = m THEN "failed" ELSE c.told[k]
  BY <1>1 DEF Refused, CoordinatorOK, Adds
<1>4. ASSUME NEW k \in Texts(e.queue) \ Texts(f)
      PROVE  e.told[k] = "failed"
  <2>1. k \in Msgs /\ (k = m \/ k \in Texts(c.queue) \ Texts(f))
    BY <1>1, <1>3, QueueTexts
  <2> QED BY <1>3, <2>1 DEF Matches
<1>5. ASSUME NEW k \in Texts(f) \ Texts(e.queue)
      PROVE  e.fate[k] # {}
  <2>1. k \in Texts(f) \ Texts(c.queue)
    BY <1>1, <1>3
  <2> QED BY <1>3, <2>1 DEF Matches
<1>6. ASSUME NEW i \in DOMAIN e.queue, NEW k \in DOMAIN f, e.queue[i].text = f[k].text
      PROVE  i \in DOMAIN c.queue /\ c.queue[i].text = f[k].text
  <2>1. f[k].text # m
    BY <1>2 DEF Texts
  <2>2. i # Len(d.queue)
    BY <1>1, <1>3, <1>6, <2>1
  <2>3. i \in 1 .. Len(c.queue)
    BY <1>1, <1>3, <2>2
  <2> QED BY <1>1, <1>3, <1>6, <2>3
<1>7. ASSUME NEW i \in DOMAIN e.queue, NEW j \in DOMAIN e.queue,
             NEW k \in DOMAIN f, NEW l \in DOMAIN f,
             e.queue[i].text = f[k].text, e.queue[j].text = f[l].text
      PROVE  i < j <=> k < l
  <2>1. SameOrder(TextsOf(c.queue), TextsOf(f))
    BY DEF Matches
  <2>2. /\ i \in DOMAIN c.queue /\ c.queue[i].text = f[k].text
        /\ j \in DOMAIN c.queue /\ c.queue[j].text = f[l].text
    BY <1>6, <1>7
  <2> QED BY <2>1, <2>2, SameOrderTexts
<1>8. SameOrder(TextsOf(e.queue), TextsOf(f))
  BY <1>7, SameOrderTexts
<1> QED BY <1>4, <1>5, <1>8 DEF Matches

LEMMA RefusedSound ==
  ASSUME NEW d, Sound(d), NEW m \in Msgs, d.told[m] = "queued", NEW e, Refused(d, e, m)
  PROVE  Sound(e)
<1>1. /\ CoordinatorOK(d) /\ Guarded(d) /\ CallersServed(d) /\ Alone(d) /\ FrontServed(d)
      /\ Backed(d) /\ Kept(d) /\ Steady(d) /\ Tracked(d)
  BY DEF Sound, Good
<1>2. /\ e.monitor = d.monitor /\ e.queue = d.queue /\ e.flushing = d.flushing
      /\ e.agent = d.agent /\ e.fate = d.fate
      /\ \A k \in Msgs : e.told[k] = IF k = m THEN "failed" ELSE d.told[k]
  BY <1>1 DEF Refused, CoordinatorOK
<1>3. CoordinatorOK(e)
  BY <1>1 DEF Refused, CoordinatorOK
<1>4. Guarded(e) /\ Alone(e) /\ FrontServed(e) /\ Backed(e) /\ Steady(e)
  BY <1>1, <1>2 DEF Guarded, Alone, FrontServed, Backed, Steady
<1>5. CallersServed(e)
  <2>1. NoneServes(d, m)
    BY <1>1 DEF CallersServed
  <2>2. \A k \in Msgs : /\ OneServes(e, k) <=> OneServes(d, k)
                        /\ NoneServes(e, k) <=> NoneServes(d, k)
    BY <1>2 DEF OneServes, NoneServes
  <2> QED BY <1>1, <1>2, <2>1, <2>2 DEF CallersServed
<1>6. Kept(e)
  BY <1>1, <1>2 DEF Kept, Has
<1>7. Tracked(e)
  BY <1>1, <1>2 DEF Tracked, Distinct, New
<1> QED BY <1>3, <1>4, <1>5, <1>6, <1>7 DEF Sound, Good

LEMMA BecomeDurable ==
  ASSUME NEW d, Become(d), Sound(d), Matches(d, file'), Over(d, answered')
  PROVE  Sound(This)' /\ Matches(This, file)' /\ Over(This, answered)'
<1>1. /\ This'.monitor = d.monitor /\ This'.queue = d.queue /\ This'.flushing = d.flushing
      /\ This'.agent = d.agent /\ This'.told = d.told /\ This'.fate = d.fate
  BY DEF Become, This
<1>2. Good(This)' /\ Alone(This)'
  BY BecomeFacts DEF Sound
<1>3. (FrontServed(This) /\ Backed(This) /\ Kept(This) /\ Steady(This) /\ Tracked(This))'
  BY <1>1 DEF Sound, FrontServed, Backed, Kept, Has, Steady, Tracked, Distinct, New
<1>4. Matches(This, file)' /\ Over(This, answered)'
  BY <1>1 DEF Matches, Over
<1> QED BY <1>2, <1>3, <1>4 DEF Sound

(* What was answered stays so, with what the step answers. *)
LEMMA OverKeeps ==
  ASSUME CoordinatorOK(This), Tracked(This), Over(This, answered),
         NEW d, CoordinatorOK(d), Changes(This, d)
  PROVE  Over(d, answered \cup Settled(d))
<1>1. This.queue = queue /\ This.fate = fate
  BY DEF This
<1>2. Settled(d) \subseteq Msgs
  <2>1. \A m : m \in Texts(queue) => m \in Msgs
    BY <1>1, QueueTexts
  <2> QED BY <2>1 DEF Settled
<1>3. \A m \in answered : m \in Msgs /\ m \notin Texts(queue) /\ fate[m] # {}
  BY <1>1 DEF Over
<1>4. ASSUME NEW n, Removes(This, d, n)
      PROVE  Over(d, answered \cup Settled(d))
  <2>1. /\ n \in Nat /\ n <= Len(queue) /\ Len(d.queue) = Len(queue) - n
        /\ DOMAIN queue = 1 .. Len(queue) /\ DOMAIN d.queue = 1 .. Len(d.queue)
        /\ \A i \in 1 .. Len(d.queue) :
              n + i \in 1 .. Len(queue) /\ d.queue[i].text = queue[n + i].text
        /\ \A i \in 1 .. Len(queue) : i > n =>
              i - n \in 1 .. Len(d.queue) /\ d.queue[i - n].text = queue[i].text
    <3>1. /\ n \in Nat /\ n <= Len(This.queue) /\ Len(d.queue) = Len(This.queue) - n
          /\ DOMAIN This.queue = 1 .. Len(This.queue) /\ DOMAIN d.queue = 1 .. Len(d.queue)
          /\ \A i \in 1 .. Len(d.queue) :
                n + i \in 1 .. Len(This.queue) /\ d.queue[i].text = This.queue[n + i].text
          /\ \A i \in 1 .. Len(This.queue) : i > n =>
                i - n \in 1 .. Len(d.queue) /\ d.queue[i - n].text = This.queue[i].text
      BY <1>4, RemovesFacts
    <3> QED BY <1>1, <3>1
  <2>2. \A m : m \in Texts(d.queue) => m \in Texts(queue)
    BY <2>1 DEF Texts
  <2>3. ASSUME NEW m \in Texts(queue) \ Texts(d.queue)
        PROVE  d.fate[m] # {}
    <3>1. PICK i \in 1 .. Len(queue) : queue[i].text = m
      BY <2>1 DEF Texts
    <3>2. ~ i > n
      BY <2>1, <3>1 DEF Texts
    <3>3. i \in 1 .. n
      BY <2>1, <3>2
    <3> QED BY <1>1, <1>4, <3>1, <3>3 DEF Removes
  <2>4. ASSUME NEW m \in Msgs, d.fate[m] # fate[m]
        PROVE  m \notin Texts(d.queue) /\ d.fate[m] # {}
    BY <1>1, <1>4, <2>4 DEF Removes
  <2>5. \A m \in Msgs : fate[m] # {} => d.fate[m] # {}
    BY <1>1, <1>4 DEF Removes
  <2> QED BY <1>2, <1>3, <2>2, <2>3, <2>4, <2>5 DEF Over, Settled
<1>5. ASSUME NEW m \in Msgs, Adds(This, d, m)
      PROVE  Over(d, answered \cup Settled(d))
  <2>1. /\ \A k : k \in Texts(d.queue) <=> k \in Texts(queue) \cup {m}
    <3>1. Longer(This, d, m)
      BY <1>5, AddsFacts
    <3> QED BY <1>1, <3>1 DEF Longer
  <2>2. d.fate = fate /\ fate[m] = {}
    BY <1>1, <1>5 DEF Adds, Tracked
  <2>3. Settled(d) = {}
    BY <2>1, <2>2 DEF Settled
  <2> QED BY <1>3, <2>1, <2>2, <2>3 DEF Over
<1> QED BY <1>4, <1>5 DEF Changes

(* A step that is sound keeps the invariant, however its writes end. *)
LEMMA StoreKeeps ==
  ASSUME DurableInv, NEW d, Sound(d), Changes(This, d), Store(d)
  PROVE  DurableInv'
<1>1. /\ CoordinatorOK(This) /\ Tracked(This) /\ Distinct(This)
      /\ file \in Seq(Items) /\ Matches(This, file) /\ Over(This, answered)
  BY DEF DurableInv, Sound, Good, Tracked
<1>2. CoordinatorOK(d)
  BY DEF Sound, Good
<1>3. This.queue = queue
  BY DEF This
<1>4. answered' = answered \cup Settled(d)
  BY DEF Store
<1>5. Over(d, answered')
  BY <1>1, <1>2, <1>4, OverKeeps
<1>6. ASSUME NEW e, Become(e), Sound(e), file' \in Seq(Items), Matches(e, file'),
             Over(e, answered')
      PROVE  DurableInv'
  BY <1>6, BecomeDurable DEF DurableInv
<1>7. Len(queue) \in Nat /\ Len(d.queue) \in Nat /\ d.queue \in Seq(Items)
      /\ queue \in Seq(Items)
  BY <1>1, <1>2, <1>3, LenProperties DEF CoordinatorOK
<1>8. ASSUME NEW n, Removes(This, d, n)
      PROVE  DurableInv'
  <2>1. n \in Nat /\ n <= Len(queue) /\ Len(d.queue) = Len(queue) - n
        /\ \A i \in 1 .. Len(d.queue) : d.queue[i].text = queue[n + i].text
    BY <1>1, <1>2, <1>3, <1>8 DEF Removes
  <2>2. /\ Become(d)
        /\ file' = file \/ file' \in Rewrites(d.queue)
    BY <1>7, <2>1 DEF Store
  <2>3. CASE file' = file
    <3>1. Matches(d, file)
      BY <1>1, <1>2, <1>8, StaleMatches
    <3> QED BY <1>1, <1>5, <1>6, <2>2, <2>3, <3>1
  <2>4. CASE file' = d.queue
    <3>1. n \in 0 .. n /\ Len(d.queue) = Len(This.queue) - n
          /\ \A i \in 1 .. Len(d.queue) : d.queue[i].text = This.queue[n + i].text
      BY <1>3, <2>1
    <3>2. Matches(d, d.queue)
      <4> DEFINE g == d.queue
                 k == n
      <4>1. /\ g \in Seq(Items) /\ Len(g) = Len(This.queue) - k
            /\ \A i \in 1 .. Len(g) : g[i].text = This.queue[k + i].text
        BY <1>7, <3>1
      <4>2. k \in 0 .. n
        BY <3>1
      <4> HIDE DEF g, k
      <4>3. Matches(d, g)
        BY <1>1, <1>2, <1>8, <4>1, <4>2, SuffixMatches
      <4> QED BY <4>3 DEF g
    <3> QED BY <1>5, <1>6, <1>7, <2>2, <2>4, <3>2
  <2>5. ASSUME NEW k \in 1 .. Len(queue) - Len(d.queue),
               file' = SubSeq(queue, k + 1, Len(queue))
        PROVE  DurableInv'
    <3> DEFINE g == SubSeq(queue, k + 1, Len(queue))
    <3>1. k \in 0 .. n /\ k <= Len(queue)
      BY <1>7, <2>1
    <3>2. /\ g \in Seq(Items) /\ Len(g) = Len(queue) - k
          /\ \A i \in 1 .. Len(g) : g[i] = queue[k + i]
      <4>1. \A i \in 1 .. Len(queue) : queue[i] \in Items
        BY <1>7, ElementOfSeq
      <4>2. \A i \in k + 1 .. Len(queue) : queue[i] \in Items
        BY <1>7, <3>1, <4>1
      <4>3. /\ g \in Seq(Items)
            /\ Len(g) = IF k + 1 <= Len(queue) THEN Len(queue) - (k + 1) + 1 ELSE 0
            /\ \A i \in 1 .. Len(queue) - (k + 1) + 1 : g[i] = queue[k + 1 + i - 1]
        BY <1>7, <3>1, <4>2, SubSeqProperties
      <4> HIDE DEF g
      <4> QED BY <1>7, <3>1, <4>3
    <3> HIDE DEF g
    <3>3. Len(g) = Len(This.queue) - k
          /\ \A i \in 1 .. Len(g) : g[i].text = This.queue[k + i].text
      BY <1>3, <3>2
    <3>4. Matches(d, g)
      BY <1>1, <1>2, <1>8, <3>1, <3>2, <3>3, SuffixMatches
    <3>5. file' = g
      BY <2>5 DEF g
    <3> QED BY <1>5, <1>6, <2>2, <3>2, <3>4, <3>5
  <2> QED BY <2>2, <2>3, <2>4, <2>5 DEF Rewrites
<1>9. ASSUME NEW m \in Msgs, Adds(This, d, m)
      PROVE  DurableInv'
  <2>1. /\ Len(d.queue) = Len(queue) + 1
        /\ d.queue[Len(d.queue)] = Item(m) /\ Item(m).text = m /\ Item(m) \in Items
        /\ d.told[m] = "queued"
    <3>1. Longer(This, d, m)
      BY <1>1, <1>2, <1>9, AddsFacts
    <3> QED BY <1>3, <3>1 DEF Longer
  <2>2. Last(d.queue) = Item(m)
    BY <2>1 DEF Last
  <2> DEFINE e == [d EXCEPT !.told[m] = "failed"]
  <2>3. \/ Become(d) /\ file' = Append(file, Item(m))
        \/ Become(e) /\ file' = file
    <3>1. d.queue # queue /\ ~ Len(d.queue) <= Len(queue)
      BY <1>7, <2>1
    <3> QED BY <2>1, <2>2, <3>1 DEF Store
  <2>4. Refused(d, e, m)
    BY <1>2 DEF Refused, CoordinatorOK
  <2> HIDE DEF e
  <2>5. CASE Become(d) /\ file' = Append(file, Item(m))
    <3>1. Matches(d, Append(file, Item(m)))
      BY <1>1, <1>2, <1>9, AppendMatches
    <3>2. Append(file, Item(m)) \in Seq(Items)
      BY <1>1, <2>1, AppendProperties
    <3> QED BY <1>5, <1>6, <2>5, <3>1, <3>2
  <2>6. CASE Become(e) /\ file' = file
    <3>1. Matches(e, file)
      BY <1>1, <1>2, <1>9, <2>4, RefusedMatches
    <3>2. Sound(e)
      BY <2>1, <2>4, RefusedSound
    <3>3. Over(e, answered')
      BY <1>5, <2>4 DEF Over, Refused
    <3> QED BY <1>1, <1>6, <2>6, <3>1, <3>2, <3>3
  <2> QED BY <2>3, <2>5, <2>6
<1> QED BY <1>8, <1>9 DEF Changes

-----------------------------------------------------------------------------
(* The invariant                                                           *)

LEMMA InitiallyDurable ==
  ASSUME LoadedOnce, DurableInit
  PROVE  DurableInv
<1>1. Init /\ file = queue /\ answered = {}
  BY DEF DurableInit
<1>2. /\ Good(This) /\ Alone(This) /\ Tracked(This)
  <2>1. IInv /\ cancels = 0 /\ OrderInv
    BY <1>1, Initially, InitiallyOrdered DEF Init
  <2> QED BY <2>1 DEF IInv, OrderInv, Orderly
<1>3. FrontServed(This) /\ Steady(This)
  BY <1>1 DEF Init, This, FrontServed, Steady
<1>4. Kept(This)
  BY <1>1 DEF Init, This, Kept, Has
<1>5. Backed(This)
  BY <1>1 DEF Init, NewAgent, This, Backed, ServesIn, InFlight
<1>6. This.queue = queue /\ queue \in Seq(Items)
  BY <1>2 DEF Good, CoordinatorOK, This
<1>7. \A i, j \in DOMAIN queue : queue[i].text = queue[j].text => i = j
  BY <1>2, <1>6 DEF Tracked, Distinct
<1>8. Matches(This, file)
  <2>1. SameOrder(TextsOf(queue), TextsOf(queue))
    BY <1>7, SameOrderTexts
  <2> QED BY <1>1, <1>6, <1>7, <2>1 DEF Matches
<1>9. Over(This, answered)
  BY <1>1 DEF Over
<1> QED BY <1>1, <1>2, <1>3, <1>4, <1>5, <1>6, <1>8, <1>9 DEF DurableInv, Sound

(* The file is good enough to start from. *)
LEMMA RestartKeeps ==
  ASSUME DurableInv, Restart
  PROVE  DurableInv'
<1>1. /\ Good(This) /\ CoordinatorOK(This) /\ Kept(This) /\ Tracked(This)
      /\ file \in Seq(Items) /\ Matches(This, file)
  BY DEF DurableInv, Sound, Good
<1>2. /\ This.queue = queue /\ This.told = told /\ This.fate = fate
      /\ This.flushTold = flushTold
  BY DEF This
<1>3. /\ This'.monitor = "unknown" /\ This'.queue = file /\ This'.flushing = FALSE
      /\ This'.flushCtx = NoFlush /\ This'.agent = Construct(SessionLimits, agent.saved)
      /\ This'.told = [m \in Msgs |-> Gone(told[m])]
      /\ This'.flushTold = flushTold /\ This'.fate = fate
      /\ DOMAIN This' = {"monitor", "queue", "flushing", "flushCtx", "agent", "told",
                         "flushTold", "fate"}
      /\ file' = file /\ answered' = {}
  BY DEF Restart, This
<1>4. /\ AgentOK(This'.agent) /\ This'.agent.active = NoTurn
      /\ \A t \in Turns : ~ InFlight(This'.agent, t)
  <2> DEFINE a == Construct(SessionLimits, agent.saved)
  <2>1. /\ DOMAIN a = {"session", "active", "ctx", "saved"}
        /\ a.active = NoTurn /\ a.ctx = [t \in Turns |-> NoCtx]
    BY DEF Construct, NewAgent
  <2> HIDE DEF a
  <2>2. AgentOK(a) /\ \A t \in Turns : ~ InFlight(a, t)
    BY <2>1 DEF AgentOK, InFlight
  <2>3. This'.agent = a
    BY <1>3 DEF a
  <2> QED BY <2>1, <2>2, <2>3
<1>5. \A m \in Msgs : /\ told[m] \in {"none", "waiting", "queued", "replied", "failed", "gone"}
                      /\ This'.told[m] = IF told[m] = "waiting" THEN "gone" ELSE told[m]
  BY <1>1, <1>2, <1>3 DEF CoordinatorOK, Gone
<1>6. CoordinatorOK(This')
  <2>1. This'.told \in [Msgs -> {"none", "waiting", "queued", "replied", "failed", "gone"}]
    BY <1>3, <1>5
  <2>2. flushTold \in [FlushCalls -> {"none", "waiting", "ok", "failed"}]
        /\ fate \in [Msgs -> SUBSET {"replied", "refused", "dropped"}]
    BY <1>1, <1>2 DEF CoordinatorOK
  <2> QED BY <1>1, <1>3, <1>4, <2>1, <2>2 DEF CoordinatorOK
<1>7. /\ Guarded(This') /\ CallersServed(This') /\ Alone(This') /\ FrontServed(This')
      /\ Backed(This') /\ Steady(This')
  <2>1. \A t \in Turns, m \in Msgs : /\ ~ ServesIn(This'.agent, t, "direct", m)
                                    /\ ~ ServesIn(This'.agent, t, "flush", m)
    BY <1>4 DEF ServesIn
  <2>2. \A m \in Msgs : This'.told[m] # "waiting"
    BY <1>5
  <2> QED BY <1>3, <1>4, <2>1, <2>2
      DEF Guarded, CallersServed, NoneServes, Alone, FrontServed, Backed, Steady
<1>8. Kept(This')
  <2> SUFFICES ASSUME NEW m \in Msgs, This'.told[m] = "queued"
               PROVE  m \in Texts(file) \/ fate[m] # {}
    BY <1>3 DEF Kept, Has
  <2>1. told[m] = "queued"
    BY <1>5
  <2>2. m \in Texts(queue) \/ fate[m] # {}
    BY <1>1, <1>2, <2>1 DEF Kept, Has
  <2> QED BY <1>1, <1>2, <2>1, <2>2 DEF Matches
<1>9. Distinct(This')
  BY <1>1, <1>3 DEF Matches, Distinct
<1>10. Tracked(This')
  <2> SUFFICES ASSUME NEW m \in Msgs, New(This', m)
               PROVE  m \notin Texts(file) /\ fate[m] = {}
    BY <1>3, <1>9 DEF Tracked
  <2>1. New(This, m)
    BY <1>2, <1>5 DEF New
  <2>2. m \notin Texts(queue) /\ fate[m] = {}
    BY <1>1, <1>2, <2>1 DEF Tracked
  <2> QED BY <1>1, <1>2, <2>2 DEF Matches
<1>11. Matches(This', file')
  <2>1. SameOrder(TextsOf(file), TextsOf(file))
    BY <1>1, SameOrderTexts DEF Matches
  <2> QED BY <1>1, <1>3, <2>1 DEF Matches
<1>12. Over(This', answered')
  BY <1>3 DEF Over
<1>13. Sound(This')
  BY <1>6, <1>7, <1>8, <1>10 DEF Sound, Good
<1> QED BY <1>1, <1>3, <1>11, <1>12, <1>13 DEF DurableInv

LEMMA InductiveDurable ==
  ASSUME AutoFlush => Reports \subseteq {TRUE}, DurableInv, [DurableNext]_allVars
  PROVE  DurableInv'
<1>1. Sound(This)
  BY DEF DurableInv
<1>2. This.agent = agent /\ This.told = told
  BY DEF This
<1>3. ASSUME NEW m \in Msgs, StoredSubmit(m)
      PROVE  DurableInv'
  <2>1. PICK t \in Turns, sends \in Sends :
           Fresh(t) /\ Store(SubmitUserMessage(This, m, t, sends))
    BY <1>3 DEF StoredSubmit
  <2>2. sends \in BOOLEAN /\ FreshIn(This.agent, t) /\ This.told[m] = "none"
    BY <1>2, <1>3, <2>1, CoordinatorConstants DEF Fresh, FreshIn, StoredSubmit
  <2>3. Sound(SubmitUserMessage(This, m, t, sends))
        /\ Changes(This, SubmitUserMessage(This, m, t, sends))
    BY <1>1, <2>2, SubmitSound
  <2> QED BY <2>1, <2>3, StoreKeeps
<1>4. ASSUME NEW t \in Turns, StoredComplete(t)
      PROVE  DurableInv'
  <2> DEFINE d(r, sends) ==
        LET out == Respond(agent, t, r, sends)
        IN  TurnDone([This EXCEPT !.agent = out.agent],
                     agent.ctx[t].done, out.result, t, sends)
  <2>1. PICK r \in Responses, sends \in Sends : Store(d(r, sends))
    BY <1>4 DEF StoredComplete
  <2>2. sends \in BOOLEAN /\ InFlight(This.agent, t)
    BY <1>2, <1>4, CoordinatorConstants DEF StoredComplete
  <2>3. Sound(d(r, sends)) /\ Changes(This, d(r, sends))
    BY <1>1, <1>2, <2>2, CompleteSound
  <2> HIDE DEF d
  <2> QED BY <2>1, <2>3, StoreKeeps
<1>5. ASSUME NEW online \in Reports, StoredReport(online)
      PROVE  DurableInv'
  <2>1. PICK t \in Turns, sends \in Sends :
           Fresh(t) /\ Store(SetOnline(This, online, t, sends))
    BY <1>5 DEF StoredReport
  <2>2. /\ sends \in BOOLEAN /\ FreshIn(This.agent, t)
        /\ online \in BOOLEAN /\ (~ AutoFlush \/ online = TRUE)
    BY <1>2, <2>1, CoordinatorConstants DEF Fresh, FreshIn
  <2>3. Sound(SetOnline(This, online, t, sends))
        /\ Changes(This, SetOnline(This, online, t, sends))
    BY <1>1, <2>2, ReportSound
  <2> QED BY <2>1, <2>3, StoreKeeps
<1>6. ASSUME UNCHANGED allVars
      PROVE  DurableInv'
  <2>1. This' = This /\ file' = file /\ answered' = answered
    BY <1>6 DEF allVars, vars, This
  <2> QED BY <2>1 DEF DurableInv
<1> QED BY <1>3, <1>4, <1>5, <1>6, RestartKeeps DEF DurableNext

LEMMA AlwaysDurable ==
  ASSUME LoadedOnce, AutoFlush => Reports \subseteq {TRUE}
  PROVE  DurableSpec => []DurableInv
BY InitiallyDurable, InductiveDurable, PTL DEF DurableSpec

(* The process may end at any time and start from the file: nothing that   *)
(* anyone relies on is missing from it, and what it still holds of the     *)
(* past was settled, in the order of the queue.  That is what enqueue(),   *)
(* removeFront() and updateFrontAttempt() write, or fail to write, as long *)
(* as no transition to online starts a flush beside the one under way.     *)
THEOREM FileAgrees ==
  ASSUME LoadedOnce, AutoFlush => Reports \subseteq {TRUE}
  PROVE  DurableSpec => []MemoryMatchesFile
<1>1. DurableInv => MemoryMatchesFile
  <2> SUFFICES ASSUME DurableInv PROVE MemoryMatchesFile
    OBVIOUS
  <2>1. Matches(This, file) /\ Distinct(This)
    BY DEF DurableInv, Sound, Tracked
  <2>2. This.queue = queue /\ This.told = told /\ This.fate = fate
    BY DEF This
  <2>3. IsInjective(TextsOf(queue)) /\ IsInjective(TextsOf(file))
    BY <2>1, <2>2 DEF IsInjective, TextsOf, Matches, Distinct
  <2> QED BY <2>1, <2>2, <2>3 DEF MemoryMatchesFile, Matches
<1> QED BY <1>1, AlwaysDurable, PTL

(* Between two restarts no message is sent again once it is answered: a    *)
(* turn that serves it would be a direct one, whose caller waits and whose *)
(* message is new, or serve the front of the queue, which it left.         *)
THEOREM SettledOnce ==
  ASSUME LoadedOnce, AutoFlush => Reports \subseteq {TRUE}
  PROVE  DurableSpec => []OncePerLife
<1>1. DurableInv => OncePerLife
  <2> SUFFICES ASSUME DurableInv, NEW m \in answered
               PROVE  /\ m \notin Texts(queue)
                      /\ \A t \in Turns, by \in {"direct", "flush"} : ~ Serves(t, by, m)
    BY DEF OncePerLife
  <2>1. This.queue = queue /\ This.told = told /\ This.fate = fate /\ This.agent = agent
    BY DEF This
  <2>2. m \in Msgs /\ m \notin Texts(queue) /\ fate[m] # {}
    BY <2>1 DEF DurableInv, Over
  <2>3. told[m] # "waiting"
    BY <2>1, <2>2 DEF DurableInv, Sound, Tracked, New
  <2>4. ASSUME NEW t \in Turns, Serves(t, "direct", m) PROVE FALSE
    BY <2>1, <2>2, <2>3, <2>4 DEF DurableInv, Sound, Good, CallersServed, NoneServes, Serves
  <2>5. ASSUME NEW t \in Turns, Serves(t, "flush", m) PROVE FALSE
    <3>1. CoordinatorOK(This) /\ Alone(This) /\ Backed(This) /\ FrontServed(This)
      BY DEF DurableInv, Sound, Good
    <3>2. This.queue # << >> /\ Head(This.queue).text = m
      BY <2>1, <2>2, <2>5, <3>1, EndedFront DEF Serves
    <3>3. /\ This.queue # << >> => Len(This.queue) # 0
          /\ Len(This.queue) \in Nat /\ DOMAIN This.queue = 1 .. Len(This.queue)
      BY <3>1, QueueFacts
    <3>4. 1 \in DOMAIN queue /\ queue[1].text = m
      BY <2>1, <3>2, <3>3
    <3> QED BY <2>2, <3>4 DEF Texts
  <2> QED BY <2>2, <2>4, <2>5
<1> QED BY <1>1, AlwaysDurable, PTL
=============================================================================
