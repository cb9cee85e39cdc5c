------------------------- MODULE DurableCoordinator -------------------------
(***************************************************************************)
(* EaQueueCoordinator on an EaFileOfflineQueue, with a process that may be *)
(* restarted between any two steps.  The file follows the queue in memory  *)
(* as well as it can: enqueue() appends a line, the other operations write *)
(* it anew, and each of these may fail.  The coordinator looks at the      *)
(* result of enqueue() only.                                               *)
(*                                                                         *)
(* A restart in the middle of a step is one after the step, when none of   *)
(* its later writes succeeded.  Lines written in part are left to          *)
(* EaFileOfflineQueue: file is what load() would return.  Calls of flush() *)
(* and cancel() are left to EaQueueCoordinator.                            *)
(***************************************************************************)
EXTENDS EaQueueCoordinator

CONSTANTS MaxRestarts   (* bound on restarts of the process *)

ASSUME DurableConstants == MaxRestarts \in Nat

VARIABLES
  file,       (* the items in offline_queue.jsonl                           *)
  answered,   (* history: the messages settled since the last restart       *)
  restarts    (* restarts so far                                            *)

allVars == <<vars, file, answered, restarts>>

-----------------------------------------------------------------------------
(* The file                                                                *)

(* Mutant of Rewrites: the file is truncated first. *)
RewritesInPlace(q) == {<< >>, q}

(* What is written while a step takes items off the front, or counts an    *)
(* attempt, until q is left: every queue on the way.                       *)
Rewrites(q) ==
  {SubSeq(queue, n + 1, Len(queue)) : n \in 1 .. Len(queue) - Len(q)} \cup {q}

Settled(d) == {m \in Msgs : d.fate[m] # fate[m]} \cup (Texts(queue) \ Texts(d.queue))

(* The step to d, with what it does to the file.  A step never enqueues an *)
(* item and removes another.  When its line cannot be written an item is   *)
(* refused, but stays in memory.                                           *)
Store(d) ==
  /\ \/ /\ d.queue = queue
        /\ Become(d)
        /\ UNCHANGED file
     \/ /\ d.queue # queue
        /\ Len(d.queue) <= Len(queue)
        /\ Become(d)
        /\ file' \in {file} \cup Rewrites(d.queue)
     \/ /\ Len(d.queue) > Len(queue)
        /\ Become(d)
        /\ file' = Append(file, Last(d.queue))
     \/ /\ Len(d.queue) > Len(queue)
        /\ Become([d EXCEPT !.told[Last(d.queue).text] = "failed"])
        /\ UNCHANGED file
  /\ answered' = answered \cup Settled(d)
  /\ UNCHANGED <<cancels, restarts>>

-----------------------------------------------------------------------------
(* The steps of EaQueueCoordinator, and restarts                           *)

DurableInit ==
  /\ Init
  /\ file = queue
  /\ answered = {}
  /\ restarts = 0

StoredSubmit(m) ==
  /\ told[m] = "none"
  /\ \E t \in Turns, sends \in Sends :
        Fresh(t) /\ Store(SubmitUserMessage(This, m, t, sends))

StoredComplete(t) ==
  /\ InFlight(agent, t)
  /\ \E r \in Responses, sends \in Sends :
        LET out == Respond(agent, t, r, sends)
        IN  Store(TurnDone([This EXCEPT !.agent = out.agent],
                           agent.ctx[t].done, out.result, t, sends))

StoredReport(online) ==
  \E t \in Turns, sends \in Sends : Fresh(t) /\ Store(SetOnline(This, online, t, sends))

Gone(answer) == IF answer = "waiting" THEN "gone" ELSE answer

(* The process ends, with its requests and callers, and starts again: the  *)
(* queue and the session are loaded.                                       *)
Restart ==
  /\ restarts < MaxRestarts
  /\ restarts' = restarts + 1
  /\ monitor' = "unknown"
  /\ queue' = file
  /\ flushing' = FALSE
  /\ flushCtx' = NoFlush
  /\ agent' = Construct(SessionLimits, agent.saved)
  /\ told' = [m \in Msgs |-> Gone(told[m])]
  /\ answered' = {}
  /\ UNCHANGED <<flushTold, fate, cancels, file>>

DurableNext ==
  \/ \E m \in Msgs : StoredSubmit(m)
  \/ \E t \in Turns : StoredComplete(t)
  \/ \E online \in Reports : StoredReport(online)
  \/ Restart

(* As for EaQueueCoordinator: a chat request is answered in the end, and   *)
(* connectivity comes back.                                                *)
DurableFairness ==
  /\ \A t \in Turns : []<>~ InFlight(agent, t) \/ []<><<StoredComplete(t)>>_allVars
  /\ []<>(monitor = "online") \/ []<><<StoredReport(TRUE)>>_allVars

DurableSpec == DurableInit /\ [][DurableNext]_allVars /\ DurableFairness

-----------------------------------------------------------------------------
(* Properties                                                              *)

TextsOf(q) == [i \in DOMAIN q |-> q[i].text]

(* What is in both sequences is in the same order. *)
SameOrder(p, q) ==
  \A i, j \in DOMAIN p, k, l \in DOMAIN q :
    p[i] = q[k] /\ p[j] = q[l] => (i < j <=> k < l)

(* The file is good enough to start from at any time: what is in memory    *)
(* and not in the file was refused, what is in the file and not in memory  *)
(* is settled, and what is in both is in the same order, each item once.   *)
(* Failed writes, which removeFront and updateFrontAttempt do not report   *)
(* to anyone, and items appended behind stale ones do not break this.      *)
MemoryMatchesFile ==
  /\ \A m \in Texts(queue) \ Texts(file) : told[m] = "failed"
  /\ \A m \in Texts(file) \ Texts(queue) : fate[m] # {}
  /\ SameOrder(TextsOf(queue), TextsOf(file))
  /\ IsInjective(TextsOf(queue)) /\ IsInjective(TextsOf(file))

(* Delivery is at least once, and more than once only over a restart: what *)
(* was answered since the last one is neither queued nor sent again.       *)
OncePerLife ==
  \A m \in answered :
    /\ m \notin Texts(queue)
    /\ \A t \in Turns, by \in {"direct", "flush"} : ~ Serves(t, by, m)

(* "Messages are not lost when offline, and are automatically retried when *)
(* connectivity is restored": whoever was told "queued" can rely on it,    *)
(* over restarts and failing writes.                                       *)
QueuedIsSettled == \A m \in Msgs : told[m] = "queued" ~> fate[m] # {}
=============================================================================
