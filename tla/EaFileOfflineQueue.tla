------------------------ MODULE EaFileOfflineQueue ------------------------
(***************************************************************************)
(* EaFileOfflineQueue: the queue in memory and its file, one JSON record   *)
(* per line.  enqueue() appends a line; removeFront(), dequeue() and       *)
(* updateFrontAttempt() rewrite the file through a temporary file and      *)
(* rename(); load() reads it again when the process starts.                *)
(*                                                                         *)
(* File operations fail, and the process dies, between any two of them.    *)
(* What fputs() writes is not looked at: on a full disk, or when the       *)
(* process dies in it, a line is written in part.                          *)
(***************************************************************************)
EXTENDS Naturals, SequencesExt

CONSTANTS Items,        (* what is enqueued, each once                      *)
          MaxAttempts,  (* bound on attempt counts                          *)
          MaxCrashes    (* bound on restarts of the process                 *)

ASSUME FileQueueConstants ==
  /\ MaxAttempts \in Nat
  /\ MaxCrashes \in Nat

VARIABLES
  items,     (* items_: [id, attempts], oldest first                         *)
  file,      (* the lines of offline_queue.jsonl: [record, parses, ended]    *)
  accepted,  (* history: what enqueue() returned true for, in that order     *)
  refused,   (* history: what it returned false for                          *)
  unanswered,(* history: what the process died enqueueing                    *)
  removed,   (* history: what was taken off the front, told it is persistent *)
  forgotten, (* history: what was taken off the front, told it is not        *)
  torn,      (* history: what was written in part, or on a line with that    *)
  unread,    (* history: what was in a file that load() could not open       *)
  crashes    (* restarts so far                                              *)

vars == <<items, file, accepted, refused, unanswered, removed, forgotten, torn, unread,
          crashes>>

-----------------------------------------------------------------------------
(* The file                                                                *)

Line(item) == [record |-> item, parses |-> TRUE, ended |-> TRUE]

(* Appending to a file whose last line has no end makes one line of both,  *)
(* which is not a JSON record.                                             *)
AppendTo(f, line) ==
  IF f # << >> /\ ~ Last(f).ended
  THEN Append(Front(f), [line EXCEPT !.parses = FALSE])
  ELSE Append(f, line)

(* What appending id to such a file spoils *)
Spoiled(f, id) ==
  IF f # << >> /\ ~ Last(f).ended THEN {Last(f).record.id, id} ELSE {}

(* Mutant of Loadable: items_ is not cleared, although the constructor and *)
(* the coordinator both call load().                                       *)
LoadedTwice(f) ==
  LET good == SelectSeq(f, LAMBDA line : line.parses)
      recs == [i \in DOMAIN good |-> good[i].record]
  IN  recs \o recs

(* load() reads line by line and skips those that do not parse. *)
Loadable(f) ==
  LET read[n \in 0 .. Len(f)] ==
        IF n = 0 THEN << >>
        ELSE IF f[n].parses THEN Append(read[n - 1], f[n].record)
        ELSE read[n - 1]
  IN  read[Len(f)]

Rewritten(q) == [i \in DOMAIN q |-> Line(q[i])]

(* A line that was being written: all of it, a part, or nothing.  A part   *)
(* parses if it lacks the newline only.                                    *)
PartlyAppended(f, item) ==
  {f} \cup {AppendTo(f, [Line(item) EXCEPT !.ended = FALSE, !.parses = whole]) :
              whole \in BOOLEAN}

-----------------------------------------------------------------------------

Init ==
  /\ items = << >>
  /\ file = << >>
  /\ accepted = << >>
  /\ refused = {}
  /\ unanswered = {}
  /\ removed = {}
  /\ forgotten = {}
  /\ torn = {}
  /\ unread = {}
  /\ crashes = 0

Ids(q) == {q[i].id : i \in DOMAIN q}

New(id) == id \notin Range(accepted) \cup refused \cup unanswered

(* enqueue() pushes the item before it writes the line. *)
Enqueue(id) ==
  LET item == [id |-> id, attempts |-> 0]
  IN  /\ New(id)
      /\ items' = Append(items, item)
      /\ \/ /\ file' = AppendTo(file, Line(item))
            /\ torn' = torn \cup Spoiled(file, id)
            /\ accepted' = Append(accepted, id)
            /\ UNCHANGED refused
         \/ /\ file' \in PartlyAppended(file, item)
            /\ torn' = torn \cup {id} \cup Spoiled(file, id)
            /\ accepted' = Append(accepted, id)
            /\ UNCHANGED refused
         \/ /\ refused' = refused \cup {id}
            /\ UNCHANGED <<file, torn, accepted>>
      /\ UNCHANGED <<unanswered, removed, forgotten, unread, crashes>>

(* Mutant of PersistAll: the file is appended to, not replaced. *)
PersistBehind(q) == file' = file \o Rewritten(q)

PersistAll(q) == file' = Rewritten(q)

(* removeFront() and dequeue(): whether or not the file is rewritten, the  *)
(* item is gone from memory.                                               *)
RemoveFront ==
  LET id == Head(items).id
  IN  /\ items # << >>
      /\ items' = Tail(items)
      /\ \/ PersistAll(items') /\ removed' = removed \cup {id} /\ UNCHANGED forgotten
         \/ file' = file /\ forgotten' = forgotten \cup {id} /\ UNCHANGED removed
      /\ UNCHANGED <<accepted, refused, unanswered, torn, unread, crashes>>

UpdateFrontAttempt ==
  /\ items # << >>
  /\ Head(items).attempts < MaxAttempts
  /\ items' = [items EXCEPT ![1].attempts = @ + 1]
  /\ PersistAll(items') \/ file' = file
  /\ UNCHANGED <<accepted, refused, unanswered, removed, forgotten, torn, unread,
                 crashes>>

(* The constructor's load(): a file that is there but cannot be opened     *)
(* counts as no file.                                                      *)
Load(f) ==
  \/ items' = Loadable(f) /\ UNCHANGED unread
  \/ items' = << >> /\ unread' = unread \cup Ids(Loadable(f))

(* The process dies between two operations and is started again.           *)
Restart ==
  /\ crashes < MaxCrashes
  /\ crashes' = crashes + 1
  /\ Load(file)
  /\ UNCHANGED <<file, accepted, refused, unanswered, removed, forgotten, torn>>

(* The process dies in enqueue(), before it answers. *)
DieInEnqueue(id) ==
  LET item == [id |-> id, attempts |-> 0]
  IN  /\ New(id)
      /\ crashes < MaxCrashes
      /\ crashes' = crashes + 1
      /\ unanswered' = unanswered \cup {id}
      /\ file' \in {AppendTo(file, Line(item))} \cup PartlyAppended(file, item)
      /\ torn' = torn \cup Spoiled(file, id)
      /\ Load(file')
      /\ UNCHANGED <<accepted, refused, removed, forgotten>>

Next ==
  \/ \E id \in Items : Enqueue(id) \/ DieInEnqueue(id)
  \/ RemoveFront
  \/ UpdateFrontAttempt
  \/ Restart

Spec == Init /\ [][Next]_vars

-----------------------------------------------------------------------------
(* Properties                                                              *)

AcceptedSurvives ==
  \A i \in DOMAIN accepted :
    accepted[i] \in Ids(Loadable(file)) \cup removed \cup forgotten \cup torn \cup unread

RemovedStaysRemoved == removed \cap (Ids(items) \cup Ids(Loadable(file))) = {}

(* "FilePersistenceSurvivesReload": an item enqueue() returned true for is *)
(* in the file, whenever the process dies, until it is taken off.  A line  *)
(* written in part, for which it returns true as well, costs itself and    *)
(* the line it shares with another record, and nothing else; a file that   *)
(* load() could not open costs, at most, what it held.  An item            *)
(* whose removal was reported persistent does not come back after a        *)
(* restart, whatever was written, or failed to be, since then.             *)
SurvivesReload == AcceptedSurvives /\ RemovedStaysRemoved

(* The queue is first in, first out across restarts: what is waiting, in   *)
(* memory and in the file, is in the order of acceptance, each item once.  *)
InOrder(q) ==
  \A i, j \in DOMAIN q : \A k, l \in DOMAIN accepted :
    q[i].id = accepted[k] /\ q[j].id = accepted[l] /\ i < j => k < l

FirstInFirstOut == InOrder(items) /\ InOrder(Loadable(file))
=============================================================================
