------------------------------- MODULE ToolOps -------------------------------
(***************************************************************************)
(* Tools: how they are described to the LLM (EaToolParam, EaToolBuilder),  *)
(* kept (EaToolRegistry) and given their arguments (EaToolArgs), and the   *)
(* tools of tool_call_demo and chat_agent: their parameters, and which     *)
(* arguments their handlers refuse.                                        *)
(***************************************************************************)
EXTENDS Integers, SequencesExt

CONSTANT Unparsable     (* an arguments text that does not parse *)

-----------------------------------------------------------------------------
(* Schemas                                                                 *)

Param(name, type, required) ==
  [name |-> name, type |-> type, required |-> required, enum |-> {}]

EnumParam(name, type, values, required) ==
  [Param(name, type, required) EXCEPT !.enum = values]

(* buildParametersJson.  Descriptions and escaping are left out; the       *)
(* values of an enum are written as what they are, numbers or strings.     *)
BuildParameters(params) ==
  [properties |-> {[name |-> p.name, type |-> p.type, enum |-> p.enum] : p \in Range(params)},
   required   |-> {p.name : p \in {q \in Range(params) : q.required}}]

(* A spec as EaToolBuilder::build() and the typed registerTool() make it *)
ToolSpec(name, params) == [name |-> name, parameters |-> BuildParameters(params)]

(* The first tool of a name stays. *)
RegisterTool(tools, spec) ==
  IF spec.name = "" \/ \E i \in DOMAIN tools : tools[i].name = spec.name
  THEN tools ELSE Append(tools, spec)

Lookup(tools, name) == {t \in Range(tools) : t.name = name}

-----------------------------------------------------------------------------
(* Arguments: from names to JSON values, or Unparsable                     *)

JsonInt(n) == << "integer", n >>
JsonStr(s) == << "string", s >>

TypeOf(json) == json[1]
ValueOf(json) == json[2]

Has(args, key, type) ==
  args # Unparsable /\ key \in DOMAIN args /\ TypeOf(args[key]) = type

GetInt(args, key, default) == IF Has(args, key, "integer") THEN ValueOf(args[key]) ELSE default

GetString(args, key, default) == IF Has(args, key, "string") THEN ValueOf(args[key]) ELSE default

-----------------------------------------------------------------------------
(* The tools                                                               *)

SysinfoSpecs ==
  << ToolSpec("get_system_info", << >>), ToolSpec("get_memory_info", << >>),
     ToolSpec("get_disk_usage", << Param("path", "string", FALSE) >>) >>

ThermalSpecs == << ToolSpec("read_cpu_temperature", << >>), ToolSpec("list_thermal_zones", << >>) >>

(* Mutant of GpioSpecs: the schema does not say which levels there are. *)
GpioSpecsAnyLevel ==
  << ToolSpec("gpio_write", << Param("pin", "integer", TRUE), Param("value", "integer", TRUE) >>) >>

GpioSpecs ==
  LET pin == Param("pin", "integer", TRUE)
  IN  << ToolSpec("gpio_read", << pin >>),
         ToolSpec("gpio_write", << pin, EnumParam("value", "integer", {0, 1}, TRUE) >>),
         ToolSpec("gpio_set_direction",
              << pin, EnumParam("direction", "string", {"in", "out"}, TRUE) >>) >>

NetworkSpecs ==
  << ToolSpec("get_network_interfaces", << >>),
     ToolSpec("get_interface_stats", << Param("iface", "string", TRUE) >>) >>

ProcessSpecs ==
  << ToolSpec("list_top_processes", << Param("count", "integer", FALSE) >>),
     ToolSpec("get_process_info", << Param("pid", "integer", TRUE) >>) >>

DemoSpecs == SysinfoSpecs \o ThermalSpecs \o GpioSpecs \o NetworkSpecs \o ProcessSpecs

ChatSpecs ==
  << ToolSpec("get_device_status", << >>),
     ToolSpec("set_gpio_pin", << Param("pin", "integer", TRUE),
                                 EnumParam("value", "integer", {0, 1}, TRUE) >>),
     ToolSpec("read_sensor", << Param("sensor_id", "integer", TRUE),
                                EnumParam("unit", "string", {"celsius", "fahrenheit", "raw"}, FALSE) >>),
     ToolSpec("get_network_info", << >>) >>

QueueSpecs == << ToolSpec("get_device_status", << >>) >>

Specs(app) ==
  CASE app = "tool_call_demo" -> DemoSpecs
    [] app = "chat_agent" -> ChatSpecs
    [] app = "offline_queue_demo" -> QueueSpecs

Registry(app) ==
  LET specs == Specs(app)
      tools[n \in 0 .. Len(specs)] ==
        IF n = 0 THEN << >> ELSE RegisterTool(tools[n - 1], specs[n])
  IN  tools[Len(specs)]

(* Mutant of Accepts: only the pin is looked at. *)
AcceptsAnyLevel(name, args) == GetInt(args, "pin", 0) >= 0

(* The arguments a handler goes on with.  A missing argument, or one of    *)
(* another type, has the default value.                                    *)
Accepts(name, args) ==
  LET pin == GetInt(args, "pin", -1)
  IN  CASE name = "gpio_read" -> pin >= 0
        [] name \in {"gpio_write", "set_gpio_pin"} -> pin >= 0 /\ GetInt(args, "value", -1) \in {0, 1}
        [] name = "gpio_set_direction" ->
             pin >= 0 /\ GetString(args, "direction", "") \in {"in", "out"}
        [] name = "get_process_info" -> GetInt(args, "pid", -1) > 0
        [] name = "get_interface_stats" -> GetString(args, "iface", "") # ""
        [] OTHER -> TRUE

(* read_sensor: a unit that it does not know is put on a value in Celsius. *)
ReadSensor(args) ==
  LET unit == GetString(args, "unit", "celsius")
  IN  [sensor_id |-> GetInt(args, "sensor_id", 1), unit |-> unit,
       scale |-> IF unit \in {"fahrenheit", "raw"} THEN unit ELSE "celsius"]

(* list_top_processes: how many are asked for *)
Count(args) ==
  LET n == GetInt(args, "count", 5)
  IN  IF n <= 0 THEN 5 ELSE IF n > 32 THEN 32 ELSE n

-----------------------------------------------------------------------------
(* Numbers from one read of the system                                     *)

(* Where buffers and cache do not add up, they are not subtracted. *)
MemoryInfo(m) ==
  LET rest == m.total - m.free - m.buffers - m.cached
      used == IF rest < 0 THEN m.total - m.free ELSE rest
  IN  [total |-> m.total \div 1024, used |-> used \div 1024,
       percent |-> IF m.total > 0 THEN (used * 100) \div m.total ELSE 0]

(* In the unit of the block size, which cancels out *)
DiskUsage(d) ==
  LET used == d.total - d.free
  IN  [total |-> d.total, used |-> used,
       percent |-> IF d.total > 0 THEN (used * 100) \div d.total ELSE 0]

(* load averages are passed on as they are *)
SystemInfo(uptime) ==
  [sec |-> uptime, h |-> uptime \div 3600, m |-> (uptime \div 60) % 60]
=============================================================================
