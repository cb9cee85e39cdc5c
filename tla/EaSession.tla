------------------------------ MODULE EaSession ------------------------------
(***************************************************************************)
(* EaSession as the agent and the storage use it: the history is appended  *)
(* to, rolled back, cleared and trimmed; the prompt and the limits change; *)
(* session.json is written from it (serializeSession) and read back into   *)
(* it (loadSessionSnapshot, applySessionSnapshot).                         *)
(***************************************************************************)
EXTENDS SessionOps

CONSTANTS Prompts,   (* the system prompts that are set, with NoPrompt     *)
          Options,   (* the limits that are set                            *)
          Sizes,     (* the sizes of messages, in characters               *)
          NoFile     (* session.json does not exist                        *)

ASSUME SessionConstants ==
  /\ NoPrompt \in Prompts
  /\ Options \subseteq [maxMessages : Nat, maxApproxTokens : Nat]
  /\ Sizes \subseteq Nat
  /\ PromptSize \in [Prompts \ {NoPrompt} -> Nat]

VARIABLES session, file

vars == <<session, file>>

Init ==
  /\ session \in {EmptySession(opts) : opts \in Options}
  /\ file = NoFile

(* One action per method.  What users say matters to the coordinator only, *)
(* and of tool calls only the size of their arguments matters here.        *)
User(size) ==
  /\ session' = AppendUser(session, NoText, size)
  /\ UNCHANGED file

Assistant(size) ==
  /\ session' = AppendAssistant(session, 0, size)
  /\ UNCHANGED file

ToolResult(size) ==
  /\ session' = AppendToolResults(session, 1, size)
  /\ UNCHANGED file

RollBack == session' = RollbackLastUser(session) /\ UNCHANGED file

SetPrompt(prompt) == session' = SetSystemPrompt(session, prompt) /\ UNCHANGED file

Limit(opts) == session' = SetOptions(session, opts) /\ UNCHANGED file

Reset == session' = Clear(session) /\ UNCHANGED file

Save == file' = Snapshot(session) /\ UNCHANGED session

(* The snapshot is applied to the session of the running process or to the *)
(* empty one of a new process.                                             *)
Load ==
  /\ file # NoFile
  /\ \E s \in {session} \cup {EmptySession(opts) : opts \in Options} :
        session' = ApplySnapshot(file, s)
  /\ UNCHANGED file

Next ==
  \/ \E size \in Sizes : User(size) \/ Assistant(size) \/ ToolResult(size)
  \/ RollBack
  \/ \E prompt \in Prompts : SetPrompt(prompt)
  \/ \E opts \in Options : Limit(opts)
  \/ Reset
  \/ Save
  \/ Load

Spec == Init /\ [][Next]_vars

-----------------------------------------------------------------------------
(* Properties                                                              *)

(* hasSystemMessage_ never lies, however prompts, clears, trims and loads  *)
(* follow each other: the history has one system message, the current      *)
(* prompt, in front, exactly when the flag is set, and the flag is set     *)
(* exactly when there is a prompt.  trim() and rebuildSystemMessage() act  *)
(* on the flag alone.                                                      *)
PromptInFront ==
  /\ session.hasSystem <=> session.prompt # NoPrompt
  /\ \A i \in DOMAIN session.messages :
       session.messages[i].role = "system" <=> i = 1 /\ session.hasSystem
  /\ session.hasSystem => /\ session.messages # << >>
                          /\ Head(session.messages).text = session.prompt

HistoryBounded == Len(NonSystemMessages(session)) <= session.opts.maxMessages

(* The history after the prompt never holds more than maxMessages: no      *)
(* operation that can lengthen it forgets to trim.  The token budget is    *)
(* exceeded only by setting a longer prompt, which does not trim.          *)
BudgetKept ==
  /\ []HistoryBounded
  /\ [][WithinLimits(session) /\ ~ WithinLimits(session)'
          => \E prompt \in Prompts : SetPrompt(prompt)]_vars

(* rollbackLastUser undoes appendUser: the history is the one before,      *)
(* short of what trim() dropped to make room for the message.              *)
RollbackUndoesAppend ==
  \A size \in Sizes :
    LET appended   == AppendUser(session, NoText, size)
        rolledBack == RollbackLastUser(appended)
    IN  /\ IsSuffix(NonSystemMessages(rolledBack), NonSystemMessages(session))
        /\ Len(appended.messages) = Len(session.messages) + 1 => rolledBack = session

(* Loading session.json gives back the saved prompt, the saved limits, 0   *)
(* excepted, and the saved history; only a history that was over the token *)
(* budget when it was saved loses its oldest messages.  Nothing of the     *)
(* session it is loaded into is left.                                      *)
LoadRestores ==
  [][Load => /\ session'.prompt = file.prompt
             /\ session'.opts = SavedOptions(file.opts)
             /\ IsSuffix(NonSystemMessages(session'), file.messages)
             /\ WithinLimits(session')
             /\ \/ NonSystemMessages(session') = file.messages
                \/ ~ WithinLimits([session' EXCEPT !.messages =
                        SubSeq(@, 1, Start(session')) \o file.messages])]_vars
=============================================================================
