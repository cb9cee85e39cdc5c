----------------------------- MODULE MCLlmClient -----------------------------
(***************************************************************************)
(* A small instance of EaLlmClient: three calls of chat(), two stream      *)
(* events each.                                                            *)
(***************************************************************************)
EXTENDS EaLlmClient, TLC

CONSTANTS hello, bye, c1, c2, c3

MCChats == {c1, c2, c3}

(* The calls are alike. *)
MCSymmetry == Permutations(MCChats)

Opts(mock, complete, stream, url) ==
  [mock |-> mock, complete |-> complete, stream |-> stream, url |-> url]

(* The segments below that mention completions *)
MCCompletions == {"completions", "completions.host"}

MCOptions ==
  {Opts(<< hello, Garbage, bye >>, FALSE, FALSE, << "" >>),
   Opts(<< hello >>, FALSE, FALSE, << "host", "v1", "", "" >>),
   Opts(<< >>, FALSE, TRUE, << "" >>),
   Opts(<< >>, TRUE, FALSE, << "host", "v1" >>),
   Opts(<< >>, TRUE, FALSE, << "host", "chat", "completions" >>),
   Opts(<< >>, TRUE, TRUE, << "host" >>),
   Opts(<< hello >>, FALSE, TRUE, << "", "" >>),
   Opts(<< >>, FALSE, FALSE, << "completions.host", "" >>),
   Opts(<< >>, FALSE, TRUE, << "host", "openai", "" >>)}
=============================================================================
