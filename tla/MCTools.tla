------------------------------- MODULE MCTools -------------------------------
(* Values for the constants of DeviceTools *)
EXTENDS DeviceTools

Call(tool, args) == [app |-> "tool_call_demo", tool |-> tool, args |-> args]
ChatCall(tool, args) == [app |-> "chat_agent", tool |-> tool, args |-> args]
None == << >>
Arg(key, value) == [k \in {key} |-> value]
Args(key1, value1, key2, value2) == [k \in {key1, key2} |-> IF k = key1 THEN value1 ELSE value2]

Pin(n) == JsonInt(n)

MCCalls ==
  {Call(tool, None) : tool \in {"get_system_info", "get_memory_info", "get_disk_usage",
                                "read_cpu_temperature", "list_thermal_zones",
                                "get_network_interfaces", "list_top_processes", "reboot"}}
  \cup {Call("list_top_processes", Arg("count", JsonInt(1)))}
  \cup {Call("get_process_info", args) :
          args \in {Unparsable, Arg("pid", JsonInt(2)), Arg("pid", JsonInt(0)),
                    Arg("pid", JsonInt(9)), Arg("pid", JsonStr("2"))}}
  \cup {Call("get_interface_stats", args) :
          args \in {None, Arg("iface", JsonStr("eth0")), Arg("iface", JsonStr(""))}}
  \cup {Call("gpio_read", args) : args \in {None, Arg("pin", Pin(4)), Arg("pin", Pin(-1))}}
  \cup {Call("gpio_write", args) :
          args \in {Arg("pin", Pin(4))}
                 \cup {Args("pin", Pin(4), "value", v) :
                         v \in {JsonInt(0), JsonInt(1), JsonInt(2), JsonStr("1")}}}
  \cup {Call("gpio_set_direction", args) :
          args \in {Arg("pin", Pin(4)), Unparsable}
                 \cup {Args("pin", Pin(4), "direction", JsonStr(d)) : d \in {"in", "out", "high"}}}
  \cup {ChatCall("get_device_status", None), ChatCall("gpio_read", Arg("pin", Pin(4)))}
  \cup {ChatCall("set_gpio_pin", args) :
          args \in {Arg("pin", Pin(4)), Args("pin", Pin(0), "value", JsonInt(1)),
                    Args("pin", Pin(4), "value", JsonInt(2))}}
  \cup {ChatCall("read_sensor", args) :
          args \in {None, Arg("sensor_id", JsonInt(1))}
                 \cup {Args("sensor_id", JsonInt(1), "unit", JsonStr(u)) :
                         u \in {"fahrenheit", "raw", "kelvin"}}}

MCEntries ==
  [dir \in {"proc", "thermal", "net"} |->
     CASE dir = "proc" -> << 1, 2, 3 >>
       [] dir = "thermal" -> << "thermal_zone0", "thermal_zone1", "thermal_zone2" >>
       [] dir = "net" -> << "lo", "eth0" >>]

MCZone0 == "thermal_zone0"
MCCpuZones == {"thermal_zone1", "thermal_zone2"}

(* Buffers and cache that add up, that do not, and nothing read at all *)
MCMemory ==
  {[total |-> 4096, free |-> 1024, buffers |-> b, cached |-> c] : b \in {0, 1024}, c \in {0, 2048, 4096}}
  \cup {[total |-> 0, free |-> 0, buffers |-> 0, cached |-> 0]}
MCDisks == {[total |-> 8, free |-> f] : f \in {0, 3, 8}} \cup {[total |-> 0, free |-> 0]}
MCUptimes == {0, 3599, 3600, 90061}
=============================================================================
