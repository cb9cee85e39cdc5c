----------------------------- MODULE SessionOps -----------------------------
(***************************************************************************)
(* The operations of EaSession, the conversation history kept by the       *)
(* agent, as operators on a session value.  A session is a record          *)
(*   opts      : the limits [maxMessages, maxApproxTokens]                 *)
(*   prompt    : the system prompt, NoPrompt when empty                    *)
(*   messages  : the history, oldest first                                 *)
(*   hasSystem : hasSystemMessage_, "messages starts with the prompt"      *)
(* A message is [role, text, calls, size]: text is the identity of what a  *)
(* user said (or the prompt), calls the number of tool calls an assistant  *)
(* message makes, size its characters of content and arguments.            *)
(***************************************************************************)
EXTENDS Naturals, FiniteSets, SequencesExt

CONSTANTS NoPrompt,   (* the empty system prompt                           *)
          NoText,     (* the text of a message whose wording is irrelevant *)
          PromptSize  (* PromptSize[p]: the characters of system prompt p  *)

Message(role, text, calls, size) ==
  [role |-> role, text |-> text, calls |-> calls, size |-> size]

EmptySession(opts) ==
  [opts |-> opts, prompt |-> NoPrompt, messages |-> << >>, hasSystem |-> FALSE]

-----------------------------------------------------------------------------
(* Trimming                                                                *)

(* Mutant of Start: the prompt is trimmed like any message. *)
StartAtZero(s) == 0

(* startIdx: how many messages at the front trim() never touches. *)
Start(s) == IF s.hasSystem THEN 1 ELSE 0

Chars(messages) ==
  LET upTo[n \in 0 .. Len(messages)] ==
        IF n = 0 THEN 0 ELSE upTo[n - 1] + messages[n].size
  IN  upTo[Len(messages)]

ApproxTokenCount(messages) == (Chars(messages) \div 4) + 1

DropOldest(s, k) ==
  [s EXCEPT !.messages = SubSeq(@, 1, Start(s)) \o SubSeq(@, Start(s) + k + 1, Len(@))]

WithinLimits(s) ==
  /\ Len(s.messages) <= Start(s) + s.opts.maxMessages
  /\ \/ Len(s.messages) <= Start(s)
     \/ ApproxTokenCount(s.messages) <= s.opts.maxApproxTokens

(* The first loop of trim() drops the oldest message after the prompt      *)
(* until the count is within its limit, the second goes on until the       *)
(* tokens are: it stops at the first number of messages that is enough.    *)
Trim(s) ==
  DropOldest(s, Min({k \in 0 .. Len(s.messages) : WithinLimits(DropOldest(s, k))}))

-----------------------------------------------------------------------------
(* The system prompt                                                       *)

FrontIsSystem(s) ==
  s.hasSystem /\ s.messages # << >> /\ Head(s.messages).role = "system"

RebuildSystemMessage(s) ==
  LET msg == Message("system", s.prompt, 0, PromptSize[s.prompt])
  IN  IF s.prompt = NoPrompt
      THEN IF FrontIsSystem(s)
           THEN [s EXCEPT !.messages = Tail(@), !.hasSystem = FALSE]
           ELSE s
      ELSE IF FrontIsSystem(s)
           THEN [s EXCEPT !.messages[1] = msg]
           ELSE [s EXCEPT !.messages = << msg >> \o @, !.hasSystem = TRUE]

SetSystemPrompt(s, prompt) == RebuildSystemMessage([s EXCEPT !.prompt = prompt])

-----------------------------------------------------------------------------
(* Appending, rolling back, restoring                                      *)

AppendMessage(s, m) == Trim([s EXCEPT !.messages = Append(@, m)])

AppendUser(s, text, size) == AppendMessage(s, Message("user", text, 0, size))

AppendAssistant(s, calls, size) ==
  AppendMessage(s, Message("assistant", NoText, calls, size))

(* Mutant of AppendToolResults: the last result is left out. *)
AppendFewerResults(s, results, size) ==
  Trim([s EXCEPT !.messages =
          @ \o [i \in 1 .. results - 1 |-> Message("tool", NoText, 0, size)]])

(* One appendToolResult per result; trimming after each one or once after  *)
(* the last leaves the same messages.                                      *)
AppendToolResults(s, results, size) ==
  Trim([s EXCEPT !.messages =
          @ \o [i \in 1 .. results |-> Message("tool", NoText, 0, size)]])

(* Mutant of RollbackLastUser: it does nothing. *)
RollbackNothing(s) == s

RollbackLastUser(s) ==
  IF s.messages # << >> /\ Last(s.messages).role = "user"
  THEN [s EXCEPT !.messages = Front(@)]
  ELSE s

(* Mutant of SetOptions: without trim(). *)
SetOptionsOnly(s, opts) == [s EXCEPT !.opts = opts]

SetOptions(s, opts) == Trim([s EXCEPT !.opts = opts])

Clear(s) ==
  RebuildSystemMessage([s EXCEPT !.messages = << >>, !.hasSystem = FALSE])

RestoreMessages(s, msgs) ==
  Trim([s EXCEPT !.messages = SubSeq(@, 1, Start(s)) \o msgs])

-----------------------------------------------------------------------------
(* EaSessionCodec: what session.json keeps of a session, and loading it.   *)

(* nonSystemMessages() looks at the role of the first message only. *)
NonSystemMessages(s) ==
  IF s.messages # << >> /\ Head(s.messages).role = "system"
  THEN Tail(s.messages)
  ELSE s.messages

Snapshot(s) ==
  [prompt |-> s.prompt, opts |-> s.opts, messages |-> NonSystemMessages(s)]

(* A limit of 0 is read back as the default. *)
DefaultOptions == [maxMessages |-> 40, maxApproxTokens |-> 8000]

SavedOptions(opts) ==
  [f \in {"maxMessages", "maxApproxTokens"} |->
     IF opts[f] > 0 THEN opts[f] ELSE DefaultOptions[f]]

(* Mutant of ApplySnapshot: the saved limits are not restored. *)
ApplyMessages(snap, s) ==
  RestoreMessages(SetSystemPrompt(Clear(s), snap.prompt), snap.messages)

ApplySnapshot(snap, s) ==
  RestoreMessages(
    SetSystemPrompt(SetOptions(Clear(s), SavedOptions(snap.opts)), snap.prompt),
    snap.messages)
=============================================================================
