----------------------------- MODULE MCSession -----------------------------
(***************************************************************************)
(* A small instance of EaSession: two prompts of different length, a count *)
(* limit and a token limit that both bite.                                 *)
(***************************************************************************)
EXTENDS EaSession

CONSTANTS p1, p2

MCPrompts == {NoPrompt, p1, p2}
MCPromptSize == [p \in {p1, p2} |-> IF p = p1 THEN 4 ELSE 12]
MCSizes == {0, 5}

(* Three tokens, that is less than 12 characters, are exceeded by p1 with  *)
(* two messages of 5 characters, and by p2 alone.  0 tokens are read back  *)
(* as the default from session.json.                                       *)
MCOptions == {[maxMessages |-> 2, maxApproxTokens |-> 3],
              [maxMessages |-> 2, maxApproxTokens |-> 0]}
============================================================================
