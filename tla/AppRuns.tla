------------------------------- MODULE AppRuns -------------------------------
(***************************************************************************)
(* The programs built on the library, run after run on one data directory: *)
(* what a process finds in the files that earlier ones left, the API key,  *)
(* the session, the queued prompts and the values of the application, and  *)
(* what it leaves there.  One process runs at a time.  It may be killed    *)
(* between any two steps, and any file operation may fail.                 *)
(*                                                                         *)
(* A turn is one step here (EaAgent has its rounds), the queue file is     *)
(* always whole (EaFileOfflineQueue has its lines), and a session is the   *)
(* turns in it (EaSession has its limits).                                 *)
(***************************************************************************)
EXTENDS SecretOps, StorageOps

CONSTANTS CommandLines,     (* what programs are started with               *)
          EnvKeys,          (* the values of EMBEDAGENT_API_KEY             *)
          MachineIds,       (* the first 16 characters of /etc/machine-id   *)
          Pepper,           (* kEmbedAgentPepper                            *)
          KvKeys,           (* the keys applications give to putString()    *)
          Queues,           (* the prompts that runs before these left in   *)
                            (* the queue: the attempts of every one         *)
          Nothing,          (* no process, no file, nothing being written   *)
          MaxItemAttempts,
          MaxRuns, MaxPuts  (* bounds on runs and on calls of putString()   *)

Apps == {"chat_agent", "tool_call_demo", "offline_queue_demo"}

(* Keys, machine ids and the pepper are std::string: bytes.  Nothing is no *)
(* string and none of the records of saved.  Only the first prompt of a    *)
(* queue was ever tried.                                                   *)
ASSUME AppConstants ==
  /\ MaxItemAttempts \in Nat /\ MaxRuns \in Nat /\ MaxPuts \in Nat
  /\ Pepper \in Seq(Byte) /\ Pepper # << >>
  /\ EnvKeys \subseteq Seq(Byte) /\ MachineIds \subseteq Seq(Byte)
  /\ \A line \in CommandLines : line.app \in Apps /\ line.key \in Seq(Byte)
  /\ DataDir \in Seq(STRING) /\ KvKeys \subseteq Seq(STRING)
  /\ \A queue \in Queues : /\ queue \in Seq(0 .. MaxItemAttempts)
                           /\ \A i \in 2 .. Len(queue) : queue[i] = 0
  /\ Nothing \notin [key : Seq(Byte), machine : Seq(Byte)]

VARIABLES
  pc,       (* where the process is, or "off"                               *)
  proc,     (* the process, as Boot makes it                                *)
  writing,  (* what the process is writing: nobody reads a temporary file   *)
            (* that an earlier process left                                 *)
  disk,     (* dirs, key, session, queue (the attempts of every item), kv   *)
  machine,  (* the machine id now: one of MachineIds, empty without the file *)
  runs,     (* processes started so far                                     *)
  saved,    (* history: the key saved last, and the machine id then         *)
  puts,     (* history: the keys of the calls of putString() that returned  *)
            (* true, the n-th with the value n                              *)
  spoilt    (* history: the files that were written in part                 *)

vars == <<pc, proc, writing, disk, machine, runs, saved, puts, spoilt>>

-----------------------------------------------------------------------------
(* The programs                                                            *)

CommandLine(app, flags, key) ==
  [app |-> app, key |-> key, mock |-> "mock" \in flags, url |-> "url" \in flags,
   save |-> "save-api-key" \in flags, persist |-> "persist-session" \in flags,
   offline |-> "offline" \in flags, flushOnly |-> "flush-only" \in flags]

ToolSet == INSTANCE ToolOps WITH Unparsable <- Nothing

Tools == [app \in Apps |-> {spec.name : spec \in Range(ToolSet!Registry(app))}]

(* The scripts of mock mode: the tools each response calls.  A response    *)
(* that calls none ends a turn.                                            *)
ChatScript == << {"get_device_status", "read_sensor"}, {"set_gpio_pin"}, {} >>

(* Mutant of DemoScript: the last response is missing. *)
DemoScriptOpen == << {"get_system_info"}, {"gpio_write", "gpio_read"} >>

DemoScript ==
  << {"get_system_info", "get_memory_info", "read_cpu_temperature"},
     {"list_top_processes"}, {"gpio_write", "gpio_read"}, {} >>

QueueScript == << {"get_device_status"}, {} >>

Script(app) ==
  CASE app = "chat_agent" -> ChatScript
    [] app = "tool_call_demo" -> DemoScript
    [] app = "offline_queue_demo" -> QueueScript

(* A turn in mock mode fails at a tool that is not registered and when the *)
(* responses are used up, as they are after the first turn.  Neither error *)
(* has an HTTP status: the coordinator takes them for a lost network.      *)
MockOutcome(app, turn) ==
  IF /\ turn = 1
     /\ {} \in Range(Script(app))
     /\ UNION Range(Script(app)) \subseteq Tools[app]
  THEN "ok" ELSE "queueable"

-----------------------------------------------------------------------------
(* Secrets                                                                 *)

FilePepper == Pepper \o machine

(* What a write may leave when the disk is full or a call fails: fwrite()  *)
(* and fputc() are not looked at.                                          *)
Written(text) == {SubSeq(text, 1, n) : n \in 0 .. Len(text)}

(* What the file store may load: a file that is there may not be readable. *)
LoadApiKey ==
  {NoKey} \cup {Decode(text, FilePepper) : text \in {disk.key} \ {Nothing}}

(* Mutant of ResolveApiKey: the file comes before the environment. *)
ResolveFileFirst(cli, env) ==
  IF cli # NoKey THEN {cli}
  ELSE {IF key # NoKey THEN key ELSE env : key \in LoadApiKey}

ResolveApiKey(cli, env) ==
  IF cli # NoKey THEN {cli} ELSE IF env # NoKey THEN {env} ELSE LoadApiKey

(* secrets/ is made in a data directory that is complete. *)
EnsureSecretsDir ==
  UNION {IF o.ok THEN MkdirRecursive(o.dirs, SecretsDir) ELSE {o} :
           o \in EnsureDataDir(disk.dirs)}

(* EaRuntimeConfig saves the key, if it is to be saved, and makes the data *)
(* directory; it goes on when either fails.                                *)
Saves == proc.line.save /\ proc.line.key # NoKey

KeyText == Append(Encode(proc.line.key, FilePepper), Blank)

SaveKey ==
  /\ pc = "boot" /\ Saves
  /\ \E o \in EnsureSecretsDir :
       /\ disk' = [disk EXCEPT !.dirs = o.dirs]
       /\ \/ pc' = "dirs" /\ UNCHANGED writing
          \/ /\ o.ok
             /\ writing' \in Written(KeyText)
             /\ pc' = "rename"
  /\ UNCHANGED <<proc, machine, runs, saved, puts, spoilt>>

Whole(text) == Len(KeyText) - Len(text) <= 1   (* at most the newline is missing *)

RenameKey ==
  /\ pc = "rename"
  /\ pc' = "dirs"
  /\ writing' = Nothing
  /\ \/ UNCHANGED <<disk, saved, spoilt>>
     \/ /\ disk' = [disk EXCEPT !.key = writing]
        /\ saved' = [key |-> proc.line.key, machine |-> machine]
        /\ spoilt' = IF Whole(writing) THEN spoilt \ {KeyPath} ELSE spoilt \cup {KeyPath}
  /\ UNCHANGED <<proc, machine, runs, puts>>

MakeDirs ==
  /\ pc = "dirs" \/ (pc = "boot" /\ ~ Saves)
  /\ pc' = "start"
  /\ \E o \in EnsureDataDir(disk.dirs) : disk' = [disk EXCEPT !.dirs = o.dirs]
  /\ UNCHANGED <<proc, writing, machine, runs, saved, puts, spoilt>>

-----------------------------------------------------------------------------
(* A process, from its start to its first turn                             *)

Boot(line, env) ==
  /\ pc = "off" /\ runs < MaxRuns
  /\ pc' = "boot"
  /\ runs' = runs + 1
  /\ proc' = [line |-> line, env |-> env, key |-> NoKey, session |-> << >>,
              unread |-> FALSE, turn |-> 1, result |-> "none"]
  /\ UNCHANGED <<writing, disk, machine, saved, puts, spoilt>>

(* Mutant of WithAgent: the session is never loaded. *)
WithAgentNew(key) == {[proc EXCEPT !.key = key]}

(* The process once its agent is there, with the key it found and the      *)
(* session it loaded or, when it cannot read that, did not load.           *)
WithAgent(key) ==
  LET fresh == [proc EXCEPT !.key = key]
  IN  IF disk.session = Nothing \/ ~ proc.line.persist THEN {fresh}
      ELSE {[fresh EXCEPT !.session = disk.session], [fresh EXCEPT !.unread = TRUE]}

QuitAtStart == pc' = "quitting" /\ UNCHANGED <<proc, disk>>

StartAgent ==
  /\ pc = "start" /\ proc.line.app # "offline_queue_demo"
  /\ \/ ~ proc.line.mock /\ ~ proc.line.url /\ QuitAtStart
     \/ /\ ~ proc.line.mock /\ proc.line.url
        /\ \E key \in ResolveApiKey(proc.line.key, proc.env) :
             \/ key = NoKey /\ QuitAtStart
             \/ /\ key # NoKey
                /\ pc' = "turn" /\ proc' \in WithAgent(key) /\ UNCHANGED disk
     \/ /\ proc.line.mock
        /\ pc' = "turn" /\ proc' \in WithAgent(NoKey) /\ UNCHANGED disk
  /\ UNCHANGED <<writing, machine, runs, saved, puts, spoilt>>

(* tryFlush: the items at the front that were tried too often are dropped. *)
Due(queue) ==
  LET kept == {i \in DOMAIN queue : queue[i] < MaxItemAttempts}
  IN  IF kept = {} THEN << >>
      ELSE SubSeq(queue, CHOOSE i \in kept : \A j \in kept : i <= j, Len(queue))

(* Mutant of AfterItem: nobody is told that the queue is empty. *)
AfterItemSilent(queue) == IF queue = << >> THEN "waiting" ELSE "turn"

(* With the queue empty, flush() calls back, and the program quits. *)
AfterItem(queue) == IF queue = << >> THEN "quitting" ELSE "turn"

Queue(queue, next) == disk' = [disk EXCEPT !.queue = queue] /\ pc' = next

(* The key is resolved once for the agent and once more for the check.     *)
(* When it is offline, flush() returns and nothing calls back any more.    *)
StartDemo ==
  LET line == proc.line
  IN  /\ pc = "start" /\ line.app = "offline_queue_demo"
      /\ \E key, probe \in IF line.mock THEN {NoKey} ELSE ResolveApiKey(line.key, proc.env) :
           LET refused == ~ line.offline /\ ~ line.mock /\ (~ line.url \/ probe = NoKey)
           IN  /\ proc' \in WithAgent(key)
               /\ \/ refused /\ Queue(disk.queue, "quitting")
                  \/ /\ ~ refused /\ line.flushOnly
                     /\ IF line.offline /\ disk.queue # << >>
                        THEN Queue(disk.queue, "waiting")
                        ELSE Queue(Due(disk.queue), AfterItem(Due(disk.queue)))
                  \/ /\ ~ refused /\ ~ line.flushOnly
                     /\ IF line.offline THEN Queue(Append(disk.queue, 0), "quitting")
                        ELSE Queue(disk.queue, "turn")
      /\ UNCHANGED <<writing, machine, runs, saved, puts, spoilt>>

-----------------------------------------------------------------------------
(* A turn, and what follows it                                             *)

(* The client makes no request without a key; its error has no HTTP status *)
(* either.  Only a server that refuses a request is not tried again.       *)
Outcomes ==
  IF proc.line.mock THEN {MockOutcome(proc.line.app, proc.turn)}
  ELSE IF proc.key = NoKey THEN {"queueable"} ELSE {"ok", "queueable", "refused"}

Turn ==
  /\ pc = "turn"
  /\ \E result \in Outcomes :
       /\ proc' = [proc EXCEPT !.result = result, !.turn = @ + 1,
                   !.session = IF result = "ok" THEN Append(@, runs) ELSE @]
       /\ pc' = IF result = "ok" /\ proc.line.persist THEN "save" ELSE "done"
  /\ UNCHANGED <<writing, disk, machine, runs, saved, puts, spoilt>>

(* saveSession, which does look at what it wrote, before it renames *)
SaveSession ==
  /\ pc = "save"
  /\ \E o \in EnsureDataDir(disk.dirs) :
       /\ disk' = [disk EXCEPT !.dirs = o.dirs]
       /\ \/ pc' = "done" /\ UNCHANGED writing
          \/ o.ok /\ pc' = "replace" /\ writing' = proc.session
  /\ UNCHANGED <<proc, machine, runs, saved, puts, spoilt>>

ReplaceSession ==
  /\ pc = "replace"
  /\ pc' = "done"
  /\ writing' = Nothing
  /\ disk' \in {disk, [disk EXCEPT !.session = writing]}
  /\ UNCHANGED <<proc, machine, runs, saved, puts, spoilt>>

(* The callback of the turn: the agents quit, and so does the demo unless  *)
(* it flushes and another item is due.  A flush ends at the first item     *)
(* that may be tried again, which stays; a prompt given directly is queued.*)
AfterTurn ==
  LET rest == Due(Tail(disk.queue))
      again == proc.result = "queueable"
  IN  /\ pc = "done"
      /\ \/ /\ proc.line.flushOnly
            /\ IF again THEN Queue([disk.queue EXCEPT ![1] = @ + 1], "quitting")
               ELSE Queue(rest, AfterItem(rest))
         \/ /\ ~ proc.line.flushOnly
            /\ IF again /\ proc.line.app = "offline_queue_demo"
               THEN Queue(Append(disk.queue, 0), "quitting")
               ELSE Queue(disk.queue, "quitting")
      /\ UNCHANGED <<proc, writing, machine, runs, saved, puts, spoilt>>

Off == pc' = "off" /\ proc' = Nothing /\ writing' = Nothing

Quit == pc = "quitting" /\ Off /\ UNCHANGED <<disk, machine, runs, saved, puts, spoilt>>

-----------------------------------------------------------------------------
(* putString(), which an application may call while its agent works        *)

(* Opening a file for writing makes it, or empties it. *)
Truncated(path) ==
  [file \in DOMAIN disk.kv \cup {path} |-> IF file = path THEN Nothing ELSE disk.kv[file]]

PutOpen(key) ==
  /\ pc = "turn" /\ Len(puts) < MaxPuts
  /\ \E o \in EnsureDataDir(disk.dirs) :
       \/ disk' = [disk EXCEPT !.dirs = o.dirs] /\ UNCHANGED <<pc, writing>>
       \/ /\ o.ok
          /\ disk' = [disk EXCEPT !.dirs = o.dirs, !.kv = Truncated(KvPath(key))]
          /\ writing' = key
          /\ pc' = "put"
  /\ UNCHANGED <<proc, machine, runs, saved, puts, spoilt>>

(* The file is written when the stream is closed, after good() was asked. *)
PutWrite ==
  LET path == KvPath(writing)
  IN  /\ pc = "put"
      /\ pc' = "turn"
      /\ writing' = Nothing
      /\ puts' = Append(puts, writing)
      /\ \/ disk' = [disk EXCEPT !.kv[path] = Len(puts')] /\ spoilt' = spoilt \ {path}
         \/ UNCHANGED disk /\ spoilt' = spoilt \cup {path}
      /\ UNCHANGED <<proc, machine, runs, saved>>

GetString(key) == IF KvPath(key) \in DOMAIN disk.kv THEN disk.kv[KvPath(key)] ELSE Nothing

-----------------------------------------------------------------------------
(* The world                                                               *)

Kill ==
  /\ pc # "off"
  /\ Off
  /\ spoilt' = spoilt \cup (IF pc = "put" THEN {KvPath(writing)} ELSE {})
  /\ UNCHANGED <<disk, machine, runs, saved, puts>>

(* deleteApiKey, from a program that does nothing else *)
DeleteKey ==
  /\ pc = "off" /\ disk.key # Nothing
  /\ disk' = [disk EXCEPT !.key = Nothing]
  /\ saved' = Nothing
  /\ spoilt' = spoilt \ {KeyPath}
  /\ UNCHANGED <<pc, proc, writing, machine, runs, puts>>

(* The system gets its id some time after it is installed. *)
MachineIdWritten ==
  /\ pc = "off" /\ machine = << >>
  /\ machine' \in MachineIds
  /\ UNCHANGED <<pc, proc, writing, disk, runs, saved, puts, spoilt>>

Init ==
  /\ pc = "off" /\ proc = Nothing /\ writing = Nothing
  /\ \E queue \in Queues :
       disk = [dirs |-> {SubSeq(DataDir, 1, 1)}, key |-> Nothing, session |-> Nothing,
               queue |-> queue, kv |-> << >>]
  /\ machine = << >>
  /\ runs = 0
  /\ saved = Nothing
  /\ puts = << >>
  /\ spoilt = {}

Process ==
  \/ SaveKey \/ RenameKey \/ MakeDirs \/ StartAgent \/ StartDemo
  \/ Turn \/ SaveSession \/ ReplaceSession \/ AfterTurn \/ Quit \/ PutWrite

Next ==
  \/ \E line \in CommandLines, env \in EnvKeys : Boot(line, env)
  \/ Process
  \/ \E key \in KvKeys : PutOpen(key)
  \/ Kill
  \/ DeleteKey
  \/ MachineIdWritten

(* The loop of a process runs on, and an HTTP request is answered or times *)
(* out.                                                                    *)
FairSpec == Init /\ [][Next]_vars /\ WF_vars(Process)

-----------------------------------------------------------------------------
(* Properties                                                              *)

(* The key file holds the key saved last, whole, whichever process was     *)
(* killed in saving another: unless fwrite() fell short, which nothing     *)
(* reports, or the machine has got an id since, which is in the pepper.    *)
SavedKeyLoads ==
  KeyPath \notin spoilt /\ saved # Nothing =>
    saved.machine # machine \/ Decode(disk.key, FilePepper) = saved.key

(* A turn with a server uses the key of the command line, or else of the   *)
(* environment, or else the one that an earlier run saved; the agents make *)
(* none without a key.                                                     *)
KeyInUse ==
  pc \in {"turn", "put"} /\ ~ proc.line.mock /\ KeyPath \notin spoilt =>
    \/ proc.key = proc.line.key /\ proc.key # NoKey
    \/ proc.line.key = NoKey /\ proc.key = proc.env /\ proc.key # NoKey
    \/ /\ proc.line.key = NoKey /\ proc.env = NoKey
       /\ saved # Nothing
       /\ proc.key = saved.key \/ saved.machine # machine
    \/ proc.key = NoKey /\ proc.line.app = "offline_queue_demo"

(* A session on disk only grows, by the turns of later runs, whichever of  *)
(* them fail or are killed: unless a run that could not read it saves its  *)
(* own over it.                                                            *)
SessionKept ==
  [][disk.session # disk'.session /\ disk.session # Nothing
       => proc.unread \/ IsPrefix(disk.session, disk'.session)]_vars

(* getString() gives what was put last under a key, run after run, unless  *)
(* that was cut short or a key came later that looks the same, with other  *)
(* characters where neither has a letter, a digit or "-".                  *)
LooksLike(a, b) ==
  /\ Len(a) = Len(b)
  /\ \A i \in DOMAIN a : a[i] = b[i] \/ {a[i], b[i]} \cap (Safe \ {"_"}) = {}

LastPutStays ==
  \A n \in DOMAIN puts :
    (/\ \A m \in n + 1 .. Len(puts) : ~ LooksLike(puts[m], puts[n])
     /\ KvPath(puts[n]) \notin spoilt
     /\ ~ (pc = "put" /\ LooksLike(writing, puts[n])))
      => GetString(puts[n]) = n

(* "run offline with a built-in fixture": without a server the first turn  *)
(* of every program succeeds; every tool its script calls is registered.   *)
MockTurnSucceeds ==
  pc = "done" /\ proc.line.mock /\ proc.turn = 2 => proc.result = "ok"

(* Every process quits, on every way its start and its turns may go, but   *)
(* for one: told to be offline and to flush, the demo waits for ever.      *)
EveryRunEnds ==
  (pc = "boot" /\ ~ (proc.line.offline /\ proc.line.flushOnly)) ~> (pc = "off")
=============================================================================
