------------------------------ MODULE MCAgent ------------------------------
(***************************************************************************)
(* Small instances of EaAgent.                                             *)
(***************************************************************************)
EXTENDS EaAgent

CONSTANTS c1, c2, c3, t1, t2, custom

TwoCallers == {c1, c2}
ThreeCallers == {c1, c2, c3}

TwoTurns == {t1, t2}

MCPromptSize == [p \in {Prompt, custom} |-> 4]

(* A round of two calls and the messages around it do not fit, so trim()   *)
(* has to cut between a call and its results.                              *)
MCLimits == [maxMessages |-> 4, maxApproxTokens |-> 100]

(* No tool handler fails. *)
ToolsWork == {Failure("transport"), Reply, ToolCalls(2, 2)}
ToolsFail == ToolsWork \cup {ToolCalls(2, 1)}

NoOverride == {}
OneOverride == {custom}
============================================================================
