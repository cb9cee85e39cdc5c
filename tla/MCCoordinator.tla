--------------------------- MODULE MCCoordinator ---------------------------
(***************************************************************************)
(* Small instances of EaQueueCoordinator for TLC.                          *)
(***************************************************************************)
EXTENDS EaQueueCoordinator

CONSTANTS m1, m2, m3, t1, t2, f1, f2

MCMsgs == {m1, m2, m3}
TwoMsgs == {m1, m2}

(* What load() finds at the start *)
OneLoaded == << m1 >>

OneTurn == {t1}
TwoTurns == {t1, t2}

OneFlush == {f1}
TwoFlushes == {f1, f2}
NoFlushes == {}

MCPromptSize == [p \in {Prompt} |-> 4]

(* Short enough that trim() has to drop messages. *)
MCLimits == [maxMessages |-> 4, maxApproxTokens |-> 100]

(* A transport error, a refusal, a reply. *)
PlainResponses == {Failure("transport"), Failure("http400"), Reply}

(* The above and rounds of two tool calls, the second of which may fail. *)
ToolResponses == PlainResponses \cup {ToolCalls(2, 2), ToolCalls(2, 1)}

(* The above, with no failing tool handler *)
MostResponses == PlainResponses \cup {ToolCalls(2, 2)}

(* A reply, tool calls that succeed, or a network failure in any round. *)
NetworkResponses == {Failure("transport"), Reply, ToolCalls(2, 2)}

SendsAll == {TRUE}
SendsSome == {TRUE, FALSE}
ReportsAll == {TRUE, FALSE}
ReportsOnline == {TRUE}
============================================================================
