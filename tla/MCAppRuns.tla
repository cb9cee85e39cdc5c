------------------------------ MODULE MCAppRuns ------------------------------
(***************************************************************************)
(* A small instance of AppRuns: keys of two and of four bytes, a pepper of *)
(* three, and the command lines that differ in what they do.               *)
(***************************************************************************)
EXTENDS AppRuns

CLI == << 115, 107, 45, 255 >>
ENV == << 101, 0 >>

MCEnvKeys == {NoKey, ENV}
MCPepper == << 99, 112, 112 >>
MCMachineIds == {<< 55, 97 >>}
MCDataDir == << "tmp", "embedagent" >>
MCSafe == {"a", "b", "_"}
MCKvKeys == {<< "a", "/" >>, << "a", "_" >>, << "a" >>}

(* A prompt that was tried too often, with two behind it: a run that sends *)
(* both leaves the next one an empty queue.                                *)
MCQueues == {<< 1, 0, 0 >>}

MCCommandLines ==
  {CommandLine("chat_agent", {"url", "save-api-key"}, CLI),
   CommandLine("chat_agent", {"url", "persist-session"}, NoKey),
   CommandLine("chat_agent", {"mock", "save-api-key"}, ENV),
   CommandLine("tool_call_demo", {"mock", "persist-session"}, NoKey),
   CommandLine("tool_call_demo", {"persist-session"}, CLI),
   CommandLine("offline_queue_demo", {"mock", "offline"}, NoKey),
   CommandLine("offline_queue_demo", {"mock", "flush-only"}, NoKey),
   CommandLine("offline_queue_demo", {"offline", "flush-only"}, NoKey),
   CommandLine("offline_queue_demo", {"url", "flush-only", "persist-session"}, NoKey),
   CommandLine("offline_queue_demo", {"url"}, NoKey)}
=============================================================================
