# EmbedAgent in TLA+

EmbedAgent is a C++11 library that lets an embedded Linux device talk to a
cloud LLM: it keeps a conversation, runs local tools the LLM asks for, buffers
messages while the device is offline, replays them, and saves the conversation.
Three example programs are built on it. This directory holds TLA+ models of the
library and the programs, the TLC runs that check them, and proofs checked by
TLAPS. Paths below are relative to the repository (`src/`).

## 1. The system

All of EmbedAgent runs on the one thread of a cppev event loop. There are no
locks and no data races; what makes it hard is that HTTP requests and timers
complete later, as callbacks of the loop, when the state they were created in
has changed; that files are written while the process may be killed and the
disk be full; and that the handlers of tools read a device that changes while
they read it.

| Component (`src/src/`) | State | Operations | Talks to |
|---|---|---|---|
| `ea_queue_coordinator` | `flushing_`, `flushCtx_`, the queue, the monitor | submitUserMessage, flush, cancel, onConnectivityChanged; the done callbacks of direct turns and of flush turns | calls the agent, the queue, the monitor and the session; called by the application, the agent (done callbacks) and the monitor (transitions) |
| `ea_agent` | `session_`, `activeTurn_`, a `TurnContext` per request in flight | submitUserMessage, runTurn, the completion of a chat request, finishTurn, cancel, setSystemPrompt, construction from `session.json` | the LLM client, the tool registry, the session, the storage |
| `ea_session`, `ea_session_codec` | `messages_`, `systemPrompt_`, `hasSystemMessage_`, `opts_` | append*, rollbackLastUser, clear, setSystemPrompt, setOptions, restore, trim; writing and reading a snapshot | called by the agent, the coordinator (rollback) and the storage |
| `ea_connectivity_monitor` | `state_`, `probeTimer_`, `probeUrl_`, `probeInFlight_` | setOnline, startProbe, stopProbe, runProbe, the answer to a probe | HTTP client and timers of the loop; tells the coordinator about transitions |
| `ea_memory_offline_queue`, `ea_file_offline_queue`, `ea_offline_queue` | `items_`, `offline_queue.jsonl` | enqueue, peek, dequeue, removeFront, updateFrontAttempt, load | called by the coordinator; the file system |
| `ea_llm_client` | `activeCtx_`, `mockIndex_`, a `ChatContext` per stream | chat (mock, blocking, streaming), cancel, the callbacks of a stream | HTTP client; calls back the agent, which may call chat() again |
| `ea_network_error` | none | isQueueableLlmError | called by the coordinator |
| `ea_file_storage` | files under the data directory | saveSession, loadSession, putString, getString | the file system |
| `ea_runtime_config`, `ea_secret_*`, `ea_*_secret_store` | the resolved API key, `secrets/api_key.enc` | the constructor; resolve, obfuscate, save, load, delete | start-up of a program; environment, files, `/etc/machine-id` |
| `ea_tool_registry`, `ea_tool_args`, `ea_tool_param` | the registered tools and their schemas | registerTool, invoke, the getters of arguments | called by the agent; calls handlers |
| `examples/chat_agent`, `examples/tool_call_demo`, `examples/offline_queue_demo` | a process, its options; the device's `/proc`, `/sys/class`, GPIO | the programs from start to exit; the handlers of their tools | everything above |
| `ea_prompt_template` | none | render | called by the agent |

What makes each of them correct:

- **Coordinator.** A message whose sender was told "queued" is sent in the end,
  in order, until the server answers it, refuses it, or its attempts are used
  up; nobody waits forever; `flushing_` is never left set; a message is not at
  once in the session and in the queue.
- **Agent.** One turn at a time; every caller is answered once; tool rounds are
  bounded; calls for tools and their results stay together; what is saved ends
  with a reply.
- **Session.** The prompt is in front exactly when `hasSystemMessage_` says so;
  trimming respects the limits; rollback undoes an append; a reload restores.
- **Monitor.** One timer at most; probing never gets stuck; the state follows
  the network.
- **File queue.** What was accepted is there after a restart, what was removed
  is not, the order is kept.
- **LLM client.** Conversations do not mix; scripted responses come in order,
  however calls nest; an answer is given once.
- **Start-up and storage.** A run uses the key it was given, or the one saved;
  what is saved can be read again; a session is not lost to a crash; a program
  exits.
- **Tools.** A call that does what the schema says is carried out; "ok" means
  done; no default value reaches the hardware; what does not change during a
  call is reported.

The hard behaviours, each at its line, are the `hazards` of `PROJECT.json`.

## 2. The modules

| Module | What it is |
|---|---|
| `SessionOps`, `SessionOpsProofs` | the operations of `EaSession` and `EaSessionCodec` on a session value; lemmas about each of them, and about loops |
| `EaSession`, `MCSession`, `EaSessionProofs` | a session and its file under every order of operations; its TLC instance and proofs |
| `AgentOps` | the operations of `EaAgent` on an agent value: error classes, turns, tool rounds, cancel; EXTENDS `SessionOps` |
| `EaAgent`, `MCAgent`, `EaAgentProofs` | the agent used directly, as in `chat_agent`, with restarts; its TLC instance and proofs |
| `EaQueueCoordinator` | the core: coordinator, queue, connectivity state, agent and session composed; EXTENDS `AgentOps` |
| `MessageDelivery` | what the queue promises, abstractly: accept at the back, settle from the front, settle once |
| `MCCoordinator` | TLC instances of `EaQueueCoordinator` |
| `DurableCoordinator`, `MCDurable` | the coordinator on a file queue: the file follows the queue, writes fail, the process is restarted; its TLC instance; EXTENDS `EaQueueCoordinator` |
| `EaQueueCoordinatorProofs` | the proofs about `EaQueueCoordinator` and `DurableCoordinator` |
| `EaConnectivityMonitor`, `EaConnectivityMonitorProofs` | the probe, its timer, its late answers and the network; its proofs |
| `EaFileOfflineQueue`, `EaFileOfflineQueueProofs` | the queue in memory and its file, failing operations, partial writes, crashes; its proofs |
| `EaLlmClient`, `MCLlmClient`, `EaLlmClientProofs` | `chat()`, nested and in flight, its mock script, its streams, `cancel()`; its TLC instance and proofs |
| `SecretOps` | the obfuscator on bytes and base-64 symbols, the order in which secrets are resolved |
| `StorageOps` | directories, `sanitizeKey`, the paths of key-value files |
| `AppRuns`, `MCAppRuns`, `AppRunsProofs` | the programs run after run on one data directory; EXTENDS `SecretOps`, `StorageOps`; instantiates `ToolOps`; its TLC instance and proofs |
| `ToolOps` | JSON values, parameters and schemas, registries, the getters of arguments |
| `DeviceTools`, `MCTools` | every tool handler at work on a changing device; EXTENDS `ToolOps` |

**Values and steps.** The C++ calls nest: `finishFlushItem` calls the monitor,
which calls back `onConnectivityChanged`, which calls `tryFlush`, which calls
the agent. Sessions, agents and the coordinator are therefore records, an
operation is an operator from record to record, calls are composition in the
order of the code, and an action is one callback of the loop applied to `This`
(the variables as a record) and assigned by `Become`. A done callback that the
agent calls before `submitUserMessage` returns (busy, round limit 0,
unconfigured client) runs inside the same step; one that comes from the HTTP
client is the action `Complete(t)`.

**Turns.** The closures of an HTTP request hold a `shared_ptr<TurnContext>`;
`agent.ctx[t]` is that context and `NoCtx` means no request of `t` is in
flight. `activeTurn_` is a separate field, because `cancel()` clears only it.
Identities of turns are reused once their request is over (`Fresh`). A
`done` value records which of the coordinator's two lambdas was captured, and
for which message. `sends` is whether the LLM client hands the request to HTTP
at all or answers at once (url, key or model missing; body not serialisable).

**tryFlush** recurses over items whose attempts are used up; the model drops
them in one operator (`DropExhausted`) and submits the first that is left. It
recurses no further, since a flush turn that the agent refuses at once ends in
`RetryLater`, which goes offline and does not call `tryFlush` again.

**The monitor twice.** The coordinator needs only `state_` and the transition
callback, so a `Report(online)` there stands for the application or any answer
to a probe. `EaConnectivityMonitor` has the timer and the requests. Since
`stopProbe()` clears `probeInFlight_` without aborting the request, several
requests can be out; an answer of one that was sent before the network last
changed (`older`) may say either.

**The queue and its file.** In `DurableCoordinator` a step of the coordinator
is followed by what it does to the file: nothing, one line appended, or the
queue written anew, once per operation of the step; each write may fail, and
the file is what the last one that succeeded left. A restart in the middle of a
step, say between a reply and `removeFront()`, leaves what a restart after a
step leaves whose writes failed. `EaFileOfflineQueue` has the lines: a line is
its record, whether it parses and whether it ends in a newline; appending to a
file whose last line is not ended makes one unreadable line of both. The
rewrite through a temporary file and `rename` either happens or leaves the file
alone. `load()` takes a file it cannot open for no file.

**The LLM client.** `stack` holds the calls of `chat()` whose callback is
running, because in mock mode, and when a request is refused, the answer is
given before `chat()` returns and the callback may call it again. The callbacks
of a stream hold their own context, whatever `activeCtx_` is by then. URLs are
sequences of segments, the host one of them: `resolveChatCompletionsUrl` looks
at the last ones, and for the word "completions" anywhere. `Completions` are the
segments that have the word in them, so that a URL on such a host is used
verbatim, with its slashes, as one with such a path is.

**Programs.** In `AppRuns` a process goes through `pc`: `boot` (options, the
API key, saving it), `rename`, `dirs`, `start`, turns, saves, exit. The queue
file may hold prompts of earlier runs at the start (`Queues`).
`Kill` may take it between any two steps, every file operation may fail, and
`fwrite()` may fall short. Keys are short sequences of bytes, so that the
obfuscator (xor with a pepper of another length, then base 64 with padding) and
its inverse are computed, and not assumed to be inverses; that they are is
proved for keys and peppers of any length. A turn is one step
there, and a script of mock mode is the tools that each response calls. An error
without an HTTP status, that of a script used up or of a missing key among them,
is a lost network to the coordinator (`"queueable"`): the demo queues its prompt,
and a flush ends with the item kept and tried once more.

**Tools.** In `DeviceTools` a handler is a sequence of steps, one for each file
it reads or writes, and between any two of them a process, a zone or an
interface may come, change or go and another program may use the pin. Only what
the called tool looks at is part of the state. Schemas and getters are written
separately in the code and so in `ToolOps`.

**History variables.** `told` and `flushTold` are what the callbacks were told;
`fate[m]` is how the requests made for message `m` ended; `cancels` counts
`cancel()`. `accepted`, `refused`, `unanswered`, `removed`, `forgotten`, `torn`
and `unread` of the file queue, `answered` of `DurableCoordinator`, `called` and
`served` of the LLM client, `saved`, `puts` and `spoilt` of `AppRuns`, `was`,
`meddled` and `denied` of `DeviceTools` record what happened. No action reads
them except to bound itself.

**Abstraction of data.** A text is its identity, a size in characters stands for
content, a tool call is a count, an error is its class (`HttpCode` keeps the
status an error text carries, which is all `isQueueableLlmError` looks at).
Every message is submitted once, so that a text identifies a submission.
Responses are an error, a reply, or `n` tool calls of which the first
`invoked` succeed.

## 3. The runs

| Run | Question | What holds |
|---|---|---|
| `coord_manual` | `autoFlushOnOnline` off, with cancel(): is anything lost, reordered, left in the session, wedged? | `TypeOK`, `NotWedged`, `CallersAnsweredOnce`, `OneTurnUnlessCancelled`, `FrontIsInFlight`, `LeftoverHasToolRound`, `NothingLost`, and the refinement `DeliversInOrder` |
| `coord_auto` | `autoFlushOnOnline` on: can anything be stranded, is everybody answered? | `NothingStranded`; under fairness `NothingWaitsForever` (every submitter and caller of flush() is answered, the queue drains) |
| `coord_durable` | the coordinator on the file queue, with failing writes and restarts; only the end of a request makes the device offline, nobody calls `flush()` | `MemoryMatchesFile`, `OncePerLife`; under fairness `QueuedIsSettled`; this also delimits finding 1 |
| `agent` | tool rounds, failing tools, trimming, prompts, cancel, failing saves, restarts that may not be able to read `session.json` | `TypeOK` (with the bound on rounds), `ToolResultsPaired`, `SavedIsFinished`; under fairness `TurnsEnd` |
| `session` | every order of session operations, saves and loads | `PromptInFront`, `RollbackUndoesAppend`, `BudgetKept`, `LoadRestores` |
| `monitor` | every order of startProbe, stopProbe, ticks, answers and network changes | `OneTimer`, `ProbingNotStuck`; under fairness `ProbeTellsState` |
| `file_queue` | failures, partial writes, crashes and unreadable files | `SurvivesReload`, `FirstInFirstOut` |
| `llm_client` | nested and concurrent calls, scripts that run out or do not parse, streams with garbage, cancel | `OwnDeltasOnly`, `MockInOrder`, `EndpointStable`, `AnsweredOnce` |
| `app_runs` | programs run on one data directory with a queue in it, killed anywhere, with failing file operations | `SavedKeyLoads`, `KeyInUse`, `LastPutStays`, `MockTurnSucceeds`, `SessionKept`; under fairness `EveryRunEnds` |
| `tools` | every tool, called well and badly, on a changing device | `SchemaCallsAccepted`, `OkIsDone`, `SteadySeen`, `GpioAsAsked` |
| `find_lost`, `find_both` | see section 4 | violated, with a counterexample |

Deadlock is not checked in `agent`, `app_runs`, `file_queue` and `llm_client`,
whose calls, runs and crashes are each bounded and may all be used up.

**Bounds.** `coord_manual`: three messages with a queue limit of two, one of
them in the queue at the start, so there is an item in flight, one behind it,
and one that does not fit; two turns and one `cancel()`, which is what it takes
for a late completion to meet the next turn; two calls of `flush()`, so that
the second replaces the first; `MaxItemAttempts = 2` lets an item be retried
and then dropped; `MaxToolRoundTrips = 2` gives a round in which tools work and
one that reaches the limit (3 in `find_both`, which needs the failure after a
completed round). `coord_auto` has two messages, because liveness is dear, and
one turn, because nobody cancels. One restart in `coord_durable` is enough for
a stale file to be loaded and worked off; its responses are a reply, a refusal
and a network error, because tool rounds change nothing in the queue.
Connectivity changes any number of times everywhere but in `coord_durable`.

The `agent` run has two callers, one of whom may meet the other's cancelled
turn, and four messages of history, which make `trim()` cut inside a round of
two calls. The limits of the `session` run, two messages and three tokens, are
each exceeded by a single append, and a prompt of twelve characters exceeds the
token budget alone. The `monitor` run has four calls of startProbe and stopProbe
(start, stop, start again, stop). The `file_queue` run has three items and two
restarts, so that what a restart spoils can be seen after the next one. The
`llm_client` run has three calls, alike (symmetry), two stream events each, and
nine configurations, one for each branch of `chat()` and of the URL, and a host
that mentions completions with a slash behind it. The
`app_runs` run has two processes, the second of which reads what the first
left, two calls of `putString()`, and keys of two and four bytes against a
pepper of three, so that the pepper wraps and base 64 pads in both ways. Three
prompts are queued at its start, the first of them tried too often: a flush
drops that one and sends the two others, or ends at the first or the second
that fails; a flush of an empty queue occurs in the run after. The
`tools` run has three processes and three zones, enough for one that vanishes
between two that stay, and files with two values.

**Fairness.** A chat request has a total timeout, so `Complete(t)` happens as
long as `t` is in flight. Connectivity is probed periodically, or reported by
the application, so `Report(TRUE)` happens as long as the monitor does not say
online; it is an assumption on the environment that the network comes back, and
is needed for `QueueDrains` and `QueuedIsSettled` only. Both are weak fairness,
written with the condition under which the action is enabled. In the monitor
the timer of the loop fires again and again (`WF(Tick)`), and a probe is
answered or times out after ten seconds (`WF(Answer)`). In `AppRuns` the loop
of a process runs on (`WF(Process)`). Nothing is assumed about submissions,
`flush()`, `cancel()`, kills or the network.

**Exceptions the properties state.** They are what the code does not promise.

- After `cancel()`: `NothingStranded`, `NothingLost`, `DeliversInOrder`,
  `LeftoverHasToolRound` and `OneTurnUnlessCancelled` are about the time before
  the first one; see section 4.
- `FlushAnswered` gives up on a caller of `flush()` whose place another caller
  has taken, because `flushCtx_` holds one.
- `BudgetKept` excepts `setSystemPrompt`, which does not trim.
- `ToolResultsPaired` names two ways in which the code makes a history an API may
  refuse. After a tool failed the assistant message stays with fewer results
  than calls, and the code does not repair it: what is said of calls ends there.
  And `trim()` drops single messages, so it may drop an assistant message and
  keep its results (`ea_session.cpp:127`): results without their call occur at
  the front of a history, as the first messages, and nowhere else.
- `SavedIsFinished` is about how `session.json` begins to be and how it ends: a
  turn that fails writes nothing. It does not say that what a failed turn left
  in the session stays out of the file: `finishTurn` saves the whole session,
  so the next turn that succeeds saves it too, half-done round included.
- `EndpointStable` claims nothing of slashes and `/v1` for a URL that mentions
  completions.
- `SurvivesReload` excepts lines written in part (`torn`) and what was in a file
  that `load()` could not open (`unread`), which the next rewrite replaces.
- `SavedKeyLoads` and `KeyInUse` except a key file that was cut short, and a
  machine id that appeared after the key was saved: it is in the pepper.
- `LastPutStays` excepts values cut short by a crash, since `putString` truncates
  first, and keys that differ only in characters `sanitizeKey` replaces.
- `SessionKept` excepts a run that could not open `session.json`.
- `EveryRunEnds` excepts `offline_queue_demo --offline --flush-only`.
- `OkIsDone` needs a kernel that takes the writes and a pin nobody else uses.

## 4. Findings

1. **A message can be taken for sent that was not** (`find_lost`,
   `ea_queue_coordinator.cpp:223`). With `autoFlushOnOnline`, item A is in
   flight and B is behind it. A report makes the device offline (or the state
   is still unknown, as after `flush()` at the start). The reply to A calls
   `setOnline(true)` before `removeFront()`; that is a transition, so
   `tryFlush` runs with `flushing_` already clear and A still in front, and
   sends A again. Then A is removed, and the reply to the second A removes B.
   `coord_durable` (no transition while an item is in flight) and the theorem
   `NoneLost` (no transition callback) show that, short of `cancel()`, nothing
   else loses a message. In mock mode, where the second A is answered within
   the same call, A is sent twice in the same way.
2. **A message in the session and in the queue** (`find_both`,
   `ea_queue_coordinator.cpp:147`). When the network fails in the second round
   of a turn, the last message is a tool result, so `rollbackLastUser()` does
   nothing, and the text is queued while it stays. `LeftoverHasToolRound` shows
   that this is the only way: whatever is left is followed by the assistant
   message that asked for tools.

Seen while modelling, part of the models, not the subject of a run:

- `cancel()` leaves the request in flight (`ea_agent.cpp:85`), so two turns may
  append to the session at once, against "only one active turn"
  (`design.en.md:96`). It clears `flushing_` too (`ea_queue_coordinator.cpp:258`):
  the next flush sends the front again, each of the two answers removes a
  front, and the second removes an item that was never sent. `NotWedged` and
  `CallersAnsweredOnce` hold all the same.
- The next submission renders the prompt template again and replaces the text
  given to `setSystemPrompt` (`ea_agent.cpp:67`), although `ea_agent.h:46` says
  that the call bypasses the template.
- A submission during a direct turn is answered by "request already in
  progress", an error without HTTP status, which `isQueueableLlmError` takes for
  a network failure: the device is made offline, and the running turn's user
  message is rolled back if it is last in the session.
- A base URL whose host has "completions" in its name is taken for an endpoint,
  gets no path, and keeps its slashes (`ea_llm_client.cpp:32`).
- `test_ea_llm_url.cpp:5-8` expects `https://api.deepseek.com` to become
  `https://api.deepseek.com/chat/completions`, and `ea_llm_client.h:15-16` says
  that most bases get `/chat/completions`; the code gives every base
  `/v1/chat/completions`. `design.en.md:107` agrees with the code, and
  `ROADMAP.md:19` lists the test as one to align. The model follows the code.
- In mock mode the second item of a flush meets a script that is used up, which
  has no HTTP status: the device is made offline, the item is kept with one more
  attempt, and the flush ends.
- `tryFlush` submits without `skipAppendUser`, contrary to `design.en.md:99`.
- An item whose line cannot be appended is refused as "queue full" and sent
  nevertheless; `fputs`, `fflush` and `fclose` in `appendLine` are not looked at.
- A stream of which nothing parses is reported as an empty "ok"
  (`ea_llm_client.cpp:225`).
- `offline_queue_demo --offline --flush-only` never exits with items queued.
- `gpio_write` asks a stream whether it is good before the data is flushed, so
  it may reply "ok" to a write the kernel refused (`ea_tool_gpio.cpp:51`).
- An interface that vanishes before its statistics are read is reported with
  zeros (`ea_tool_network.cpp:181`).

## 5. Proofs

All theorems are for every value of the constants that satisfies the
assumptions of the module: that constants have their kinds, and that values
which tell cases apart (`NoTurn`, `NoFlush`, `NoCtx`, `NoText`, `NoPrompt`,
`Pending`, `NoChat`, `Garbage`) are not among the values they are told apart
from. A request can fail only with one of the errors listed, and nobody submits
the rendered system prompt as a message, since a text stands for a submission.
No more tools of a response succeed than it calls. A segment with "completions"
in it is not empty, nor `v1` nor `chat`. Of the prompts that earlier runs left
queued only the first was tried before.
Of the programs it is assumed that keys, machine ids and the pepper are
sequences of bytes, as `std::string` is, that the pepper, a literal in the
source, is not empty, and that there are three programs.

| Module | Theorem | Property |
|---|---|---|
| `EaQueueCoordinatorProofs` | `TypeCorrect` | `TypeOK` |
| | `NeverWedged` | `NotWedged`: `flushing_` and `activeTurn_` are set only while a turn that clears them is in flight |
| | `CallersAnswered` | `CallersAnsweredOnce`: whoever waits waits for exactly one turn |
| | `OneTurn` | `OneTurnUnlessCancelled` |
| | `NoneStranded` | `NothingStranded`: with `autoFlushOnOnline`, online and something queued means flushing |
| | `FrontSent` | without `autoFlushOnOnline`, `FrontIsInFlight` |
| | `NoneLost` | without `autoFlushOnOnline`, `NothingLost` |
| | `DeliveredInOrder` | without `autoFlushOnOnline`, and if `load()` finds no message twice, `DeliversInOrder`: `MessageDelivery` is implemented |
| | `NoLeftover` | under the same hypotheses, `LeftoverHasToolRound` |
| | `FileAgrees` | of `DurableCoordinator`: if `load()` finds no message twice and, with `autoFlushOnOnline`, nobody reports the device offline, `MemoryMatchesFile` |
| | `SettledOnce` | under the same hypotheses, `OncePerLife` |
| `EaSessionProofs` | `PromptStaysInFront`, `HistoryStaysInBudget` | `PromptInFront`, `BudgetKept` |
| | `RollbackUndoes`, `LoadingRestores` | `RollbackUndoesAppend`, `LoadRestores` |
| `EaAgentProofs` | `RoundsAreBounded` | `TypeOK` of `EaAgent`, which holds the bound on tool rounds |
| | `ResultsFollowCalls`, `SavedAfterReply` | `ToolResultsPaired`, `SavedIsFinished` |
| `EaFileOfflineQueueProofs` | `NothingIsLost`, `ServedInOrder` | `SurvivesReload`, `FirstInFirstOut` |
| `EaConnectivityMonitorProofs` | `OneTimerOnly`, `NeverStuck`, `BoundedProbes` | `OneTimer`, `ProbingNotStuck`, `ProbesBounded` |
| `EaLlmClientProofs` | `MockOrder`, `AnswerStays` | `MockInOrder`, `AnsweredOnce` |
| | `StreamsDoNotMix`, `OneEndpoint` | `OwnDeltasOnly`, `EndpointStable` |
| `AppRunsProofs` | `KeyComesBack` | `Decode` undoes `Encode`, for every key and pepper, also with the newline behind the text |
| | `KeySurvives`, `KeysComeInOrder` | `SavedKeyLoads`, `KeyInUse` |
| | `SessionGrows` | `SessionKept` |
| | `ValuesStay` | `LastPutStays` |
| | `MocksSucceed` | `MockTurnSucceeds`, for the tools and scripts of the three programs |

**The coordinator.** None of the properties is inductive. `NotWedged` needs the
type of the turn contexts and the fact that the active turn is in flight;
`NothingStranded` needs that `flushing_` is backed by a turn, that no other turn
is in flight, and that every path out of `finishFlushItem` ends in `tryFlush` or
in going offline. The inductive invariant is

    IInv == /\ Good(This)           types, Guarded (NotWedged), CallersServed
            /\ AllHere(This)        no caller is lost to a restart: there is none
            /\ cancels \in 0 .. MaxCancels
            /\ cancels = 0 => Alone(This)             OneTurnAtATime
            /\ cancels = 0 /\ AutoFlush => Served(This)   NothingStranded

The operators are composed, so the proof is in two layers. One lemma per
operator says what it does to a *value*, from `FinishFacts` and `RunTurnFacts`
up to `FinishFlushItemFacts` and `DirectDoneFacts`. Their common vocabulary is
`Advances(c, d)`: from `c` to `d` either the turns and the flags are the same,
or no turn was active and exactly one flush turn was started. Because
`setOnline(true)` may start a flush before `removeFront` and `tryFlush` run,
`FinishFlushItem` composes two such changes (`AdvancesComposes`): once a turn
was started `tryFlush` returns at `flushing_`. The second layer has one lemma
per action (`SubmitStep`, `FlushStep`, `CompleteStep`, `ReportStep`,
`CancelStep`) that it `Keeps` the invariant; `Initially`, `Inductive` and
`Always` put them together.

**Delivery.** `removeFront` names no item, so nothing is lost only if the item
in front is the one that was answered. That follows from three facts, which
`DeliveryInv` adds to `IInv`: while `flushing_` is set the front is in flight
(`FrontServed`), a flush turn is in flight only while `flushing_` is set
(`Backed`), and no other turn is (`Alone`). `EndedFront` draws the conclusion,
and `Holds(c, d)`, that `d` accounts for every message `c` accounts for, is
proved operator by operator. With `autoFlushOnOnline` the theorem is false,
which is finding 1: `SetOnline` then starts a turn between the answer and
`removeFront`. The proof uses that it does not in `SetOnlineOnly` and nowhere
else; there it is enough that the device was online already, which `Steady`
says and the proofs below build on.

**The refinement.** A step of the coordinator is one of two changes, and both
are a step of `MessageDelivery` or a stutter. Either it `SettlesFirst` some `n`
items, the one answered and those `tryFlush` drops behind it, and leaves the
others in their order; or it `Handles` one new message, which is settled,
refused, sent, or appended. `SettlesFirstComposes` lets `finishFlushItem` be
taken as its two parts. What must be known of the state is `Orderly`: no message
is in the queue twice, and one that is queued, or was never accepted, has not
been settled, because `MessageDelivery` settles once. `OrderInv` is
`DeliveryInv` with `Orderly` as long as nothing was cancelled. The hypothesis
that `load()` finds no message twice holds of every file the program writes,
which is `ServedInOrder` below.

**Restarts.** What a restart needs of a state is part of what the steps must
keep. `DurableInv` has the facts above of the coordinator in memory (`Sound`),
that the file `Matches` it, and that what was answered in this life is `Over`.
`Orderly` is too strong here: a message settled before a restart may be loaded
again, and one refused because its line could not be written is in memory all
the same. What is left of it is `Tracked`: no message is queued twice, and one
that was never accepted is neither queued nor settled. A step `Changes` the
queue in one of two ways. Either it `Removes` the oldest `n` items, all settled,
and then the old file, the new queue, and every queue on the way are good enough
to start from (`StaleMatches`, `SuffixMatches`); or it `Adds` one, which is in
neither the queue nor the file, and is appended to the file or refused
(`AppendMatches`, `RefusedMatches`). `StoreKeeps` combines them for every
outcome of the writes, and `RestartKeeps` shows that a coordinator made from
the file is `Sound`. The hypothesis on reports is that of the run: `Steady` must
hold, since by finding 1 a device that goes offline and online during a flush
sends an item twice.

**Leftovers.** `LeftoverHasToolRound` speaks of queued messages only, but
whether one is left over is settled before it is queued. `Tidy` says where a
message may be in the history at every stage: one that was never submitted is
`Absent`; one that is being sent is either last, so that `rollbackLastUser()`
takes it out, or `Followed` by an assistant message with tool calls; one that is
queued, and not being sent, is `Followed` wherever it occurs. `Leaves` is the
change that operations make to the other messages, `LeftIn` what a turn's own
message becomes when the turn fails. `trim()` drops from the front and so never
takes the message behind another without it; `setSystemPrompt` and the rendered
prompt touch none of them. That no two turns overlap (`Alone`) keeps the last
message the one of the turn that failed.

**Sessions.** `SessionOpsProofs` has a lemma for each operation, of two kinds:
what it keeps (`Flagged`: `hasSystemMessage_` says whether the messages begin
with the only system message; `Prompted`: and then it is the prompt) and what
becomes of the history behind the prompt. All that is needed of `trim()` is
`TrimmedTo`, that the result is a suffix of the history within the limits, and
that a history within the limits is left alone. `RollbackUndoes` needs the case in
which `appendUser` trims away the very message it appended. The histories of
`EaAgent` and of the coordinator are covered by the same lemmas.

**The agent.** `AgentInv` adds to the three properties that agents have their
type with a flagged session, that the caller of every turn in flight waits, and
that no two turns in flight have the same caller. Without the last two the
answer of one turn could overwrite the `toolFailed` another turn's caller was
told, which is how `ToolResultsPaired` knows that results may be missing. A
cancelled turn goes on beside the next one, so results are paired with calls in
a history to which two turns append: a round appends its call and its results
in one step, and `trim()` that cuts a round cuts its call first. So calls keep
their results (`CallsAreAnswered`) until a tool fails, and a result that has
lost its call has only results before it (`ResultsAreCalled`), which a round
appended behind it does not change (`CalledAppend`, `CalledRound`) and cutting
from the front does not either (`TrimmedPaired`).

**The file queue.** `SurvivesReload` is not inductive. `QueueInv` adds that
memory, too, covers what was accepted, or the next rewrite would lose it; that
the lines which do not parse are in order with the others, since the next line
may end one; that nothing removed is in memory or in the file; and that every id
anywhere was once enqueued, so that a new one is new.

**The LLM client.** `MockInOrder` needs that `mockIndex_` is the number of calls
so far, up to the length of the script (`IndexCounts`), and that nothing touches
the answers of the calls that have returned or are on the stack
(`StackAnswered`, `Unanswered`, `CalledIsNotNew`); a client with a script never
has a request in flight (`NoneSent`). `OwnDeltasOnly` needs `HeardOwn`: what a
chat heard is `Parsed` of what its server sent, and the content it collects is
what it heard, which survives the end of the stream and `cancel()`.
`EndpointStable` is about URLs of any length. An endpoint that was resolved
mentions completions, or it is the empty string, and so is left alone
(`EndpointMentions`). For any other URL a slash more only adds an empty segment
(`NoSegment`) to what is stripped, and `v1` behind the base is what `ResolveUrl`
would have added (`LongerAddress`, `PathBehindV1`).

**Loops.** The sizes of histories, the lines that load, and the deltas that
parse are recursive functions on the naturals. What they compute is unfolded
from their definitions (`LoopValues`), and induction on them is done with
`LoopInduction`: a *set* of numbers that holds 0, and with each number the next,
holds all, which is proved from the least element of the complement.

**The obfuscator.** `KeyComesBack` has three parts. A byte is the sum of its
bits (`SumOfBits`, `BitsOfSum`), so xor with the same byte twice gives the byte
back (`XorTwice`), and the pepper is repeated in the same places both ways.
Three bytes are one number of 24 bits, whose four sextets are the symbols
(`Sextets`); of the symbols of `n` bytes, `Symbols(n)` carry data and the rest
are padding, and the number `base64Decode` computes of each pair of symbols
holds the byte (`EncodedText`, by the remainder of the position by 3). What is
read of such a text are the symbols before the padding (`ReadSymbols`, which
unfolds the loop of `base64Decode`).

**The programs.** `SavedKeyLoads` speaks of the file, so `KeyInv` says where its
text comes from: while a process is about to rename, what it has written is a
beginning of the text of its own key; once the file was renamed with the whole
text, it is that text but for the newline at most; and a file that is there was
saved by someone. `KeyInUse` is proved of all states of a working process
(`KeyUsed`): meanwhile its key, what was saved last and the machine id stay as
they are (`WorkingOn`). `SessionKept` needs
that the session in memory goes on from the one in the file (`SessionInv`),
from `withAgent()` on until it is saved. `LastPutStays` needs `SamePath`, that
two keys have the same file exactly when they look alike, `KvIsNotKey`, that no
key has the file of the API key, and that the file being written exists.
`MockTurnSucceeds` rests on `AllRegistered`: whatever `registerTool()` is given,
a tool of every name that is not empty is there in the end; the tools of each
program and the script of its mock mode are then compared (`ScriptsSucceed`).
`Types` and `Changes` say once, for all of them, which steps may change which
file.

**The monitor.** `ProbesBounded` is not inductive, because a tick sends a
request whenever `probeInFlight_` is clear: `RoomForProbe` adds that a running
timer with the flag clear means that one call's worth of requests is not used
up, which holds because the flag is cleared either by an answer, which takes a
request away, or by startProbe or stopProbe, which adds a call.

Only model-checked: the liveness properties, `QueuedIsSettled` of the durable
coordinator among them, since the prover has no fairness or ENABLED; and what is said about
the tools at work (`DeviceTools`).

## 6. Not modelled

- `EaPromptTemplate`: substitution in a string, without state.
- The text of JSON, of sessions, queue lines and requests: whether it parses is
  kept, how it is written is not. So `std::stoll` on a timestamp that is not a
  number (`ea_offline_queue.cpp:52`) is outside the models, since every record
  the program writes has one.
- Callbacks of the application that call back into the library before they
  return, a second `flush()` inside `onDone` (`ea_queue_coordinator.cpp:182`)
  among them: such calls are steps of their own. In the modules of the agent and
  of the coordinator an answer is a later step also in mock mode; `EaLlmClient`
  has the nesting.
- A negative `maxQueueItems`; no caller passes one. `dequeue()` on the memory
  queue; no caller outside the tests uses it.
- The text streamed during a turn and the round-start callback change no state.
- cppev (event loop, HTTP, JSON) is another repository. What is used of it: one
  callback at a time; a request completes once and within its timeout.
- Output of the programs to the terminal.

## 7. Plan

The models cover the components of section 1. What is left is to prove more
about the tools: `OkIsDone`, `SteadySeen`, `GpioAsAsked` and
`SchemaCallsAccepted` of `DeviceTools`.
