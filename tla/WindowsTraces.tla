---------------------------- MODULE WindowsTraces ---------------------------
(***************************************************************************)
(* The plugins for Windows that read what the user and the network left:   *)
(* consoles, windows, sockets, records of the file system, and the symbols *)
(* of images, in the words of ListingSteps.                                *)
(***************************************************************************)
EXTENDS ListingSteps

trace_kernel == Must({"kernel"})

(* Consoles.                                                               *)

console_key_values ==
    Quit({"list of hives"})
    \o Each("hives",
         Need({"hive", "root"}) \o Blank({"subkeys"})
         \o Each("keys",
              Need({"name"}) \o Pick \o Blank({"values"})
              \o Each("values", Need({"name of it", "data"}) \o Pick \o Row)))
console_settings == Blank({"options"}) \o When("registry", Blank({"values of the registry"})) \o Row
\* The image of the host: the area in which its file is mapped.
host_image ==
    Quit({"areas"}) \o Each("areas", Need({"file name"}) \o Pick \o Quit({"start", "end"}) \o Row)
\* One table serves every host, from the first whose version can be told.
console_hosts ==
    Quit({"list of processes"})
    \o Each("processes",
         Need({"name"}) \o Pick \o Need({"address space", "host image"}) \o Need({"version of it"})
         \o Row)
conhost_table ==
    Must({"KdVersionBlock", "_KUSER_SHARED_DATA"}) \o Blank({"build of the image"})
    \o Must({"table"}) \o Row
ScannedHits(body) == Quit({"type", "layer"}) \o Blank({"scan"}) \o Each("hits", body)
scan_console_information == ScannedHits(Pick \o Row)
console_is_valid == Need({"HistoryBufferCount"}) \o Pick \o Need({"Title"})
history_is_valid == Need({"CommandBucket", "ProcessHandle"}) \o Need({"LastDisplayed"}) \o Pick
command_string == Quit({"Length", "text"}) \o Row
command_is_valid == Need({"Length of it", "Allocated"}) \o Pick
command_count == Blank({"_COMMAND", "CommandBucket"}) \o Row
bucket_commands ==
    Quit({"_COMMAND", "size of the history"}) \o Blank({"Begin", "EndCapacity", "CommandCountMax"})
    \o Each("commands", command_is_valid \o Row)
history_properties ==
    Row \o Cell({"Application"}) \o Row \o Cell({"ProcessHandle"}) \o Row \o Cell({"CommandBucket"}) \o Row
    \o Cell({"LastDisplayed"}) \o Row \o Cell({"CommandCountMax"}) \o Row
    \o Each("commands", Need({"text"}) \o Row)
console_properties ==
    Row \o Cell({"screen", "sizes", "titles", "ProcessCount"}) \o Row
    \o Each("attached", Need({"ConsoleProcess"}) \o Row \o Cell({"ProcessId", "ProcessHandle"}) \o Row)
    \o Each("alias lists",
         Row \o Cell({"ExeName"}) \o Row \o Blank({"AliasList"})
         \o Each("aliases", Cell({"text of it"}) \o Row))
    \o Each("histories",
         Row \o Cell({"Application", "ProcessHandle", "CommandBucket", "LastDisplayed"}) \o Row
         \o Each("commands", Need({"text"}) \o Row))
    \o Each("screens", Row \o Cell({"RowLength2", "BufferCapacity"}) \o Row)
screen_row == Quit({"BufferRows", "row", "Row"}) \o Row
\* Two starts, and from each the screens behind it.
console_screens == Each("starts", Need({"start"}) \o Row \o Each("screens", Link({"Next"}) \o Row))
\* Rows are found by their number, and the first that cannot be read ends the screen.
screen_buffer ==
    Quit({"BufferCapacity"}) \o Blank({"BufferStart"})
    \o Each("rows", Leave({"row"}) \o Leave({"text"}) \o Row)
row_text == Quit({"CharRow", "Chars"}) \o Row

\* A console that nothing is found of has a row that says so.
Consoles ==
    trace_kernel \o Blank({"settings", "hosts"})
    \o Each("hosts",
         Blank({"console information"})
         \o Each("hits", console_is_valid \o Each("properties", Row)) \o Unless("found", Row))
CmdScan ==
    trace_kernel \o Blank({"settings", "hosts"})
    \o Each("hosts",
         Blank({"areas"}) \o Need({"_COMMAND_HISTORY"}) \o Blank({"layer", "scan"})
         \o Each("hits", history_is_valid \o Each("properties", Row)) \o Unless("found", Row))

(* Windows and what they are in.                                           *)

gui_table == Must({"version", "symbols"}) \o Row
\* An object is read again in the layer of the session it says it is of.
scan_gui_objects ==
    Must({"pool scan"}) \o Each("hits", Need({"dwSessionId"}) \o Need({"layer of the session"}) \o Row)
station_info == Quit({"dwSessionId", "object header", "name"}) \o Row
station_is_valid == Need({"dwSessionId"}) \o Pick
scan_window_stations ==
    Must({"gui table"}) \o Blank({"sessions"}) \o Must({"scan of stations"})
    \o Each("stations", Each("chain", Pick \o Need({"station"}) \o Row))
Stations(body) == trace_kernel \o Tell({"window stations"}) \o Each("stations", body)
WindowStations == Stations(Row)
desktop_threads ==
    Quit({"PtiList", "links"}) \o Each("threads", Need({"ppi", "Process"}) \o Need({"name", "pid"}) \o Row)
\* The table is looked for first, and that there is none is said; then it is an error.
Desktops ==
    trace_kernel \o Tell({"gui table"}) \o Must({"window stations"})
    \o Each("stations", Each("desktops", Each("threads", Row)))
DeskScan ==
    trace_kernel \o Tell({"gui table"}) \o Blank({"sessions"}) \o Must({"scan of desktops"})
    \o Each("hits",
         Need({"name"}) \o Need({"rpwinstaParent"}) \o Need({"station"}) \o Each("threads", Row))
walk_windows == Each("windows", Row \o Each("windows under it", Need({"next"}) \o Row))
window_process == Quit({"pti", "ppi", "Process", "name", "pid"}) \o Row
window_name == Quit({"directName", "strName"}) \o Row
Windows ==
    Stations(
      Each("desktops",
        Need({"pDeskInfo", "spwnd"})
        \o Each("windows",
             Need({"process"}) \o Need({"session"}) \o Cell({"lpfnWndProc", "name"}) \o Pick \o Row)))

(* Sockets.                                                                *)

netscan_table ==
    Must({"KdVersionBlock", "_KUSER_SHARED_DATA"}) \o Must({"version"}) \o Must({"symbols"}) \o Row
\* An object that is not valid has no rows, unless they are asked for.
rows_for ==
    Unless("corrupt", Need({"AddressFamily"}) \o When("endpoint", Need({"State"})))
    \o Blank({"pData", "addr4"}) \o Cell({"state", "Owner", "ports", "CreateTime"}) \o Row
owner == Quit({"Owner"}) \o Pick \o Row
endpoint_is_valid == Need({"State"}) \o Pick \o Need({"AddressFamily"}) \o Pick
NetScan ==
    trace_kernel \o Tell({"table"}) \o Must({"pool scan"})
    \o Each("objects", rows_for)

driver_image ==
    Quit({"PsLoadedModuleList", "links"})
    \o Each("modules", Need({"BaseDllName"}) \o Pick \o Need({"DllBase", "SizeOfImage"}) \o Row)
partitions ==
    Quit({"PartitionTable", "PartitionCount"}) \o Quit({"_PARTITION", "_TCP_ENDPOINT"})
    \o Each("partitions",
         Need({"partition", "Endpoints"}) \o Need({"NumEntries", "Directory", "TableSize"}) \o Pick
         \o Each("buckets", Need({"pointer"}) \o Pick \o Row))
\* Without one of the two pools there is neither.
port_pools ==
    Quit({"UdpPortPool", "TcpPortPool"})
    \o Each("pools", Each("ports", Pick \o Each("sockets", Row)))
pool_ports ==
    Quit({"_INET_PORT_POOL", "PortBitMap"}) \o Each("bytes", Need({"byte"}) \o Each("bits", Pick \o Row))
\* Nothing remembers the sockets passed.
sockets_on_port ==
    Quit({"_INET_PORT_POOL", "PortAssignments"}) \o Each("sockets", Row \o Link({"Next"}))
NetStat ==
    trace_kernel \o Tell({"table"}) \o Must({"tcpip.sys"}) \o Must({"symbols of it"})
    \o Blank({"partitions", "port pools"}) \o Each("objects", Pick \o rows_for)

(* Records of the file system.                                             *)

\* What cannot be read whole is read by halves, down to sixty-four bytes.
MftRecord_read == Need({"window"}) \o Need({"header"})
enumerate_records == Must({"layer", "scan"}) \o Each("offsets", MftRecord_read \o Row)
\* The next attribute is behind this one, by its length.
attributes == Each("attributes", Link({"header of it"}) \o Pick \o Row \o Link({"length"}))
file_name_of_record == Quit({"length of the name", "name"}) \o Row
longest_file_name == Each("names", Need({"name"}) \o Row)
ensure == Quit({"window"}) \o Row
resident_content == Quit({"content"}) \o Row
MftScan ==
    Must({"records"})
    \o Each("records",
         Each("information", Need({"times"}) \o Row)
         \o Each("names", Need({"times of the name"}) \o Blank({"permissions"}) \o Cell({"name"}) \o Row))
Ads ==
    Must({"records"})
    \o Each("records", Each("attributes", Cell({"file name", "stream name", "content"}) \o Row))
ResidentData ==
    Must({"records"}) \o Each("records", Need({"attribute"}) \o Cell({"file name", "content"}) \o Row)

(* Symbols of images.                                                      *)

process_file_ranges ==
    Quit({"areas"}) \o Each("areas", Need({"file name"}) \o Pick \o Need({"start", "end"}) \o Row)
\* The symbols of the debug record, then, for what they do not name, the exports.
resolve_wanted ==
    Each("instances", Need({"debug record"}) \o Need({"symbols"}) \o Each("wanted", Need({"address"}) \o Row))
    \o Each("instances again",
         Need({"headers", "image"}) \o Need({"exports"}) \o Each("left", Need({"export"}) \o Row))
module_symbols == Blank({"table"}) \o Quit({"download", "public symbols"}) \o Row
module_debug_info == Quit({"debug record"}) \o Row
kernel_module_instances ==
    Blank({"sessions"}) \o Quit({"PsLoadedModuleList", "links"})
    \o Each("modules",
         Need({"BaseDllName"}) \o Pick \o Need({"DllBase"}) \o Blank({"SizeOfImage"})
         \o Need({"session layer"}) \o Row)
process_module_instances ==
    Quit({"list of processes"})
    \o Each("processes", Need({"address space"}) \o Each("ranges", Pick \o Row))
PeSymbols ==
    trace_kernel \o Quit({"options"}) \o Quit({"instances"}) \o Each("symbols", Row)
=============================================================================
