----------------------------- MODULE DeviceTools -----------------------------
(***************************************************************************)
(* The tools of the programs at work.  A handler looks at /proc, at        *)
(* /sys/class and at the GPIO files one file after the other, while        *)
(* processes start and end, interfaces and thermal zones come and go, and  *)
(* other programs use the same pins.                                       *)
(*                                                                         *)
(* Handlers run in the loop thread, one call at a time.  What the device   *)
(* is like when a call begins is chosen then: only what that tool looks at *)
(* is of interest, and it changes in the course of the call.               *)
(***************************************************************************)
EXTENDS ToolOps

CONSTANTS Calls,      (* [app, tool, args], the calls an LLM may make       *)
          Entries,    (* directory -> the entries that may be there: "proc", *)
                      (* "thermal", "net"; readdir() returns them in order  *)
          Zone0,      (* thermal_zone0                                      *)
          CpuZones,   (* the zones with a type of a CPU, Zone0 or others    *)
          MaxValue,   (* bound on what a file may say: 1 .. MaxValue, and   *)
                      (* Missing when there is no such entry                *)
          Memory,     (* what /proc/meminfo may say                         *)
          Disks,      (* what statvfs() may say                             *)
          Uptimes,
          Idle

Missing == 0

ASSUME DeviceConstants ==
  /\ MaxValue \in Nat
  /\ \A dir \in DOMAIN Entries : IsInjective(Entries[dir])
  /\ \A m \in Memory : 0 <= m.free /\ m.free <= m.total
  /\ \A d \in Disks : 0 <= d.free /\ d.free <= d.total

VARIABLES
  call,      (* the call that is being made, or Idle                        *)
  host,      (* directory -> entry -> what its files say                    *)
  gpio,      (* a pin: exported, dir, level                                 *)
  was,       (* history: what the entries have said since the call began    *)
  meddled,   (* history: another program has used the pin since then        *)
  denied     (* history: the kernel has refused a write of the handler      *)

vars == <<call, host, gpio, was, meddled, denied>>

Directory(tool) ==
  CASE tool \in {"list_top_processes", "get_process_info"} -> "proc"
    [] tool \in {"read_cpu_temperature", "list_thermal_zones"} -> "thermal"
    [] tool \in {"get_network_interfaces", "get_interface_stats"} -> "net"
    [] OTHER -> "none"

GpioTools == {"gpio_read", "gpio_write", "gpio_set_direction"}

InDirectory(tool, says) ==
  [dir \in DOMAIN Entries |->
     [e \in Range(Entries[dir]) |-> IF dir = Directory(tool) THEN says[e] ELSE Missing]]

Pins == [exported : BOOLEAN, dir : {"in", "out"}, level : {0, 1}]

Quiet == [exported |-> FALSE, dir |-> "in", level |-> 0]

History(h) == [dir \in DOMAIN h |-> [e \in DOMAIN h[dir] |-> {h[dir][e]}]]

Empty == InDirectory("none", [e \in {} |-> Missing])

Init ==
  /\ call = Idle
  /\ host = Empty /\ was = History(Empty)
  /\ gpio = Quiet
  /\ meddled = FALSE /\ denied = FALSE

-----------------------------------------------------------------------------
(* A call, from EaToolRegistry::invoke() to its reply                      *)

Goes(at) == call' = [call EXCEPT !.at = at]

Replies(kind, data) ==
  call' = [call EXCEPT !.at = "replied", !.kind = kind, !.data = data]

Unchanged == UNCHANGED <<host, gpio, was, meddled, denied>>

(* Where a handler begins, once it has its arguments *)
First(tool) ==
  CASE tool \in GpioTools -> "exported"
    [] tool = "read_cpu_temperature" -> "zone0"
    [] tool \in {"get_process_info", "get_interface_stats"} -> "read"
    [] Directory(tool) # "none" -> "list"
    [] OTHER -> "compute"

(* The one entry that is asked for *)
Asked(c) ==
  CASE c.tool = "get_process_info" -> << GetInt(c.args, "pid", -1) >>
    [] c.tool = "get_interface_stats" -> << GetString(c.args, "iface", "") >>
    [] OTHER -> << >>

Begun(c) ==
  [app |-> c.app, tool |-> c.tool, args |-> c.args, at |-> First(c.tool), kind |-> "none", data |-> << >>,
   todo |-> Asked(c), files |-> << >>, got |-> << >>]

Invoke(c) ==
  /\ call = Idle
  /\ call' = IF Lookup(Registry(c.app), c.tool) = {} THEN [Begun(c) EXCEPT !.at = "replied", !.kind = "unknown"]
             ELSE IF ~ Accepts(c.tool, c.args) THEN [Begun(c) EXCEPT !.at = "replied", !.kind = "refused"]
             ELSE Begun(c)
  /\ LET dir == Directory(c.tool)
     IN  host' \in {InDirectory(c.tool, says) :
                      says \in [IF dir = "none" THEN {} ELSE Range(Entries[dir]) -> 0 .. MaxValue]}
  /\ gpio' \in IF c.tool \in GpioTools THEN Pins ELSE {Quiet}
  /\ was' = History(host')
  /\ meddled' = FALSE /\ denied' = FALSE

Return ==
  /\ call # Idle /\ call.at = "replied"
  /\ call' = Idle
  /\ host' = Empty /\ was' = History(Empty)
  /\ gpio' = Quiet
  /\ meddled' = FALSE /\ denied' = FALSE

Computes(tool) == call # Idle /\ call.at = "compute" /\ call.tool = tool /\ Unchanged

GetMemoryInfo == Computes("get_memory_info") /\ \E m \in Memory : Replies("ok", MemoryInfo(m))

GetSystemInfo == Computes("get_system_info") /\ \E n \in Uptimes : Replies("ok", SystemInfo(n))

(* statvfs() fails for a path that is not there. *)
GetDiskUsage ==
  /\ Computes("get_disk_usage")
  /\ (\E d \in Disks : Replies("ok", DiskUsage(d))) \/ Replies("error", << >>)

ReadSensors == Computes("read_sensor") /\ Replies("ok", ReadSensor(call.args))

(* The other tools of chat_agent reply with constants. *)
ReplyFixed ==
  \E tool \in {"get_device_status", "set_gpio_pin", "get_network_info"} :
    Computes(tool) /\ Replies("ok", << >>)

-----------------------------------------------------------------------------
(* Directories                                                             *)

Here == host[Directory(call.tool)]

(* read_cpu_temperature tries thermal_zone0 before it looks at all zones.  *)
ReadZone0 ==
  /\ call # Idle /\ call.at = "zone0"
  /\ IF Here[Zone0] # Missing THEN Replies("ok", << [entry |-> Zone0, says |-> << Here[Zone0] >>] >>)
     ELSE Goes("list")
  /\ Unchanged

(* listPids, scanThermalZones, listInterfaces *)
List ==
  /\ call # Idle /\ call.at = "list"
  /\ call' = [call EXCEPT !.at = "read",
                !.todo = SelectSeq(Entries[Directory(call.tool)], LAMBDA e : Here[e] # Missing)]
  /\ Unchanged

(* The files of an entry whose contents go into the reply *)
Files(tool) ==
  CASE tool = "list_top_processes" -> << "status" >>
    [] tool = "get_process_info" -> << "status", "stat", "cmdline" >>
    [] Directory(tool) = "thermal" -> << "temp", "type" >>
    [] tool = "get_network_interfaces" -> << "address", "operstate" >>
    [] tool = "get_interface_stats" -> << "operstate", "rx_bytes", "tx_bytes" >>

(* Mutant of Skipped: an entry that is gone is the end of the list. *)
SkippedAll(c) == [c EXCEPT !.todo = << >>]

Skipped(c) == [c EXCEPT !.todo = Tail(@)]

(* One file.  An entry whose first file is gone is left out, but not by    *)
(* get_network_interfaces; any other file that is gone gives a default.    *)
Read ==
  /\ call # Idle /\ call.at = "read" /\ call.todo # << >>
  /\ LET e     == Head(call.todo)
         says  == IF e \in DOMAIN Here THEN Here[e] ELSE Missing
         files == Append(call.files, says)
     IN  call' = IF /\ Len(files) = 1 /\ says = Missing
                    /\ call.tool # "get_network_interfaces"
                 THEN Skipped(call)
                 ELSE IF Len(files) < Len(Files(call.tool)) THEN [call EXCEPT !.files = files]
                 ELSE [Skipped(call) EXCEPT !.files = << >>,
                         !.got = Append(@, [entry |-> e, says |-> files])]
  /\ Unchanged

Rss(process) == process.says[1]

(* std::sort keeps no order among equals. *)
Tops(got, n) ==
  LET size == IF n < Len(got) THEN n ELSE Len(got)
  IN  {s \in [1 .. size -> Range(got)] :
         /\ IsInjective(s)
         /\ \A i \in 1 .. size - 1 : Rss(s[i]) >= Rss(s[i + 1])
         /\ \A p \in Range(got) \ Range(s) : \A i \in 1 .. size : Rss(s[i]) >= Rss(p)}

(* A zone whose type could not be read is "unknown". *)
IsCpu(zone) == zone.entry \in CpuZones /\ zone.says[2] # Missing

AllRead(tools) ==
  call # Idle /\ call.tool \in tools /\ call.at = "read" /\ call.todo = << >>

ReportTop ==
  /\ AllRead({"list_top_processes"})
  /\ \E top \in Tops(call.got, Count(call.args)) : Replies("ok", top)
  /\ Unchanged

ReportAll ==
  /\ AllRead({"list_thermal_zones", "get_network_interfaces"})
  /\ Replies("ok", call.got)
  /\ Unchanged

ReportOne ==
  /\ AllRead({"get_process_info", "get_interface_stats"})
  /\ Replies(IF call.got = << >> THEN "error" ELSE "ok", call.got)
  /\ Unchanged

ReportCpu ==
  LET cpu == SelectSeq(call.got, IsCpu)
  IN  /\ AllRead({"read_cpu_temperature"})
      /\ IF cpu = << >> THEN Replies("error", << >>) ELSE Replies("ok", << Head(cpu) >>)
      /\ Unchanged

-----------------------------------------------------------------------------
(* A pin                                                                   *)

Gpio(at) == call # Idle /\ call.tool \in GpioTools /\ call.at = at

DeviceVars == <<host, was, meddled>>

AfterExport ==
  CASE call.tool = "gpio_read" -> "level" [] call.tool = "gpio_write" -> "direction"
    [] OTHER -> "set"

GpioIsExported ==
  /\ Gpio("exported")
  /\ Goes(IF gpio.exported THEN AfterExport ELSE "export")
  /\ UNCHANGED <<gpio, denied>> /\ UNCHANGED DeviceVars

(* What is written is flushed when the stream is closed, after good() was  *)
(* asked: whether the kernel takes it or refuses it, the handler goes on.  *)
Flushed(new) == \/ gpio' = new /\ UNCHANGED denied
                \/ UNCHANGED gpio /\ denied' = TRUE

Fails == Replies("error", << >>) /\ UNCHANGED <<gpio, denied>>

(* gpioExport asks again whether the pin is exported. *)
GpioExport ==
  /\ Gpio("export")
  /\ \/ ~ gpio.exported /\ Fails
     \/ /\ Goes(AfterExport)
        /\ IF gpio.exported THEN UNCHANGED <<gpio, denied>>
           ELSE Flushed([gpio EXCEPT !.exported = TRUE])
  /\ UNCHANGED DeviceVars

GpioReadLevel ==
  /\ Gpio("level")
  /\ \/ Fails
     \/ /\ gpio.exported
        /\ Replies("ok", << gpio.level >>) /\ UNCHANGED <<gpio, denied>>
  /\ UNCHANGED DeviceVars

(* The file of the direction may not be readable, which counts as not "out". *)
GpioReadDirection ==
  /\ Gpio("direction")
  /\ \/ gpio.exported /\ gpio.dir = "out" /\ Goes("write")
     \/ Goes("drive")
  /\ UNCHANGED <<gpio, denied>> /\ UNCHANGED DeviceVars

(* Mutant of Directed: the level it had stays on the pin, as an input. *)
DirectedIn(dir) == [gpio EXCEPT !.dir = "in"]

(* An output begins low. *)
Directed(dir) ==
  [gpio EXCEPT !.dir = dir, !.level = IF dir = "out" THEN 0 ELSE gpio.level]

(* Whether "out" could be written is not looked at. *)
GpioDrive ==
  /\ Gpio("drive")
  /\ Goes("write")
  /\ IF gpio.exported THEN Flushed(Directed("out")) ELSE UNCHANGED gpio /\ denied' = TRUE
  /\ UNCHANGED DeviceVars

(* The kernel refuses to set the level of an input. *)
GpioWriteLevel ==
  LET value == GetInt(call.args, "value", -1)
      level == IF value = 1 THEN 1 ELSE 0
  IN  /\ Gpio("write")
      /\ \/ Fails
         \/ /\ gpio.exported
            /\ Replies("ok", << value >>)
            /\ IF gpio.dir = "out" THEN Flushed([gpio EXCEPT !.level = level])
               ELSE UNCHANGED gpio /\ denied' = TRUE
      /\ UNCHANGED DeviceVars

GpioSet ==
  LET dir == GetString(call.args, "direction", "")
  IN  /\ Gpio("set")
      /\ \/ Fails
         \/ gpio.exported /\ Replies("ok", << dir >>) /\ Flushed(Directed(dir))
      /\ UNCHANGED DeviceVars

-----------------------------------------------------------------------------
(* The device                                                              *)

Busy == call # Idle /\ call.at # "replied"

(* A process, a zone or an interface comes, changes or goes. *)
Change(dir, e) ==
  /\ Busy /\ dir = Directory(call.tool)
  /\ \E says \in (0 .. MaxValue) \ {host[dir][e]} :
       /\ host' = [host EXCEPT ![dir][e] = says]
       /\ was' = [was EXCEPT ![dir][e] = @ \cup {says}]
  /\ UNCHANGED <<call, gpio, meddled, denied>>

Meddle ==
  /\ Busy /\ call.tool \in GpioTools
  /\ gpio' \in Pins \ {gpio}
  /\ meddled' = TRUE
  /\ UNCHANGED <<call, host, was, denied>>

Next ==
  \/ \E c \in Calls : Invoke(c)
  \/ Return
  \/ GetMemoryInfo \/ GetSystemInfo \/ GetDiskUsage \/ ReadSensors \/ ReplyFixed
  \/ ReadZone0 \/ List \/ Read \/ ReportTop \/ ReportAll \/ ReportOne \/ ReportCpu
  \/ GpioIsExported \/ GpioExport \/ GpioReadLevel \/ GpioReadDirection
  \/ GpioDrive \/ GpioWriteLevel \/ GpioSet
  \/ \E dir \in DOMAIN Entries : \E e \in Range(Entries[dir]) : Change(dir, e)
  \/ Meddle

Spec == Init /\ [][Next]_vars

-----------------------------------------------------------------------------
(* Properties                                                              *)

Replied(kind) == call # Idle /\ call.at = "replied" /\ call.kind = kind

(* What a schema says of arguments, as an LLM reads it *)
Conforms(args, schema) ==
  /\ args # Unparsable
  /\ schema.required \subseteq DOMAIN args
  /\ \A p \in schema.properties :
       p.name \in DOMAIN args =>
         /\ TypeOf(args[p.name]) = p.type
         /\ p.enum # {} => ValueOf(args[p.name]) \in p.enum

AsDescribed(c) == \A t \in Lookup(Registry(c.app), c.tool) : Conforms(c.args, t.parameters)

(* What a schema has no word for: a pin is not negative, a process is not  *)
(* number 0 or less, an interface has a name.                              *)
NoSuchThing(args) ==
  \/ GetInt(args, "pin", 0) < 0
  \/ GetInt(args, "pid", 1) <= 0
  \/ GetString(args, "iface", "eth0") = ""

(* A call that does what the tool's schema says is not refused, unless it  *)
(* names something that cannot be: the schema that registerTool() builds   *)
(* and the getInt() and getString() of the handler, written apart, agree   *)
(* on names, types and enums (ea_tool_gpio.cpp:103-111 and :186-243).      *)
SchemaCallsAccepted ==
  Replied("refused") => ~ AsDescribed(call) \/ NoSuchThing(call.args)

(* A handler changes a pin only for a call whose arguments conform, and    *)
(* only as they say: gpio_read at most exports it, gpio_write makes it an  *)
(* output, low or at the level asked for, gpio_set_direction an input or   *)
(* an output as asked.  No default value gets to the hardware.             *)
GpioAsAsked ==
  [][(call # Idle /\ call' \notin {call, Idle} /\ gpio' # gpio) =>
       /\ AsDescribed(call)
       /\ (gpio'.dir # gpio.dir \/ gpio'.level # gpio.level) =>
            \/ /\ call.tool = "gpio_write" /\ gpio'.dir = "out"
               /\ gpio'.level \in {0, ValueOf(call.args["value"])}
            \/ /\ call.tool = "gpio_set_direction"
               /\ gpio'.dir = ValueOf(call.args["direction"])
    ]_vars

Done ==
  CASE call.tool = "gpio_read" -> call.data = << gpio.level >>
    [] call.tool = "gpio_write" ->
         gpio = [exported |-> TRUE, dir |-> "out", level |-> ValueOf(call.args["value"])]
    [] call.tool = "gpio_set_direction" ->
         gpio.exported /\ gpio.dir = ValueOf(call.args["direction"])
    [] call.tool = "read_sensor" -> call.data.scale = GetString(call.args, "unit", "celsius")
    [] OTHER -> TRUE

(* A reply "ok" means what it says, where the kernel takes every write and *)
(* nobody else uses the pin: the pin is an output at that level, has that  *)
(* direction, or had that level when it was read, and a sensor was read in *)
(* the unit asked for.                                                     *)
OkIsDone == Replied("ok") /\ AsDescribed(call) /\ ~ meddled /\ ~ denied => Done

Steady(e) == LET w == was[Directory(call.tool)] IN Cardinality(w[e]) = 1 /\ Missing \notin w[e]

(* No more processes than asked for, in order, and none of those left out  *)
(* larger than any that is listed                                          *)
TopAreTop ==
  /\ Len(call.data) <= Count(call.args)
  /\ \A i, j \in DOMAIN call.data : i < j => Rss(call.data[i]) >= Rss(call.data[j])
  /\ \A pid \in DOMAIN Here :
       (Steady(pid) /\ \A i \in DOMAIN call.data : call.data[i].entry # pid) =>
         /\ Len(call.data) = Count(call.args)
         /\ \A i \in DOMAIN call.data : Rss(call.data[i]) >= Here[pid]

Reported(e) ==
  \E i \in DOMAIN call.data :
    call.data[i].entry = e /\ \A k \in DOMAIN call.data[i].says : call.data[i].says[k] = Here[e]

(* An entry that does not change during a call is in its reply, with what  *)
(* its files say, whichever entries around it come, change and go: in the  *)
(* lists, among the top processes unless larger ones fill the list, in the *)
(* answer about the one that is asked for, and as the temperature of the   *)
(* CPU, where thermal_zone0 goes before the zones of a CPU type.           *)
SteadySeen ==
  (call # Idle /\ call.at = "replied" /\ Directory(call.tool) # "none") =>
    CASE call.tool \in {"list_thermal_zones", "get_network_interfaces"} ->
           \A e \in DOMAIN Here : Steady(e) => Reported(e)
      [] call.tool \in {"get_process_info", "get_interface_stats"} /\ call.kind # "refused" ->
           \A e \in Range(Asked(call)) \cap DOMAIN Here : Steady(e) => Reported(e)
      [] call.tool = "read_cpu_temperature" ->
           IF Steady(Zone0) THEN Reported(Zone0)
           ELSE (\E e \in CpuZones : Steady(e)) => call.kind = "ok"
      [] call.tool = "list_top_processes" -> TopAreTop
      [] OTHER -> TRUE
=============================================================================
