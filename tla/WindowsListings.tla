---------------------------- MODULE WindowsListings -------------------------
(***************************************************************************)
(* The plugins for Windows that list what the kernel and the processes     *)
(* have, in the words of ListingSteps.  What scans, carves and decodes is  *)
(* in WindowsScans, what reads the registry in RegistryListings.           *)
(***************************************************************************)
EXTENDS ListingSteps

win_kernel == Must({"kernel"})
WinProcesses(body) ==
    win_kernel \o Must({"list of processes"}) \o Each("processes", Need({"pid"}) \o Pick \o body)
\* Of the list, or the one at a place in the image: that there is none is said.
WinSelected(body) ==
    win_kernel \o Tell({"selected processes"}) \o Each("processes", Need({"pid"}) \o body)

(* Processes.                                                              *)

process_row ==
    Cell({"ppid", "name", "threads", "handles", "session", "created", "exited"})
    \o Blank({"WoW64Process", "offset"}) \o Row
\* An image that cannot be put together is written as an empty file.
dump_process_image ==
    Try(Give({"address space", "ImageBaseAddress", "ImageFileName"}) \o Blank({"image"})
        \o Give({"output"}) \o File)
WinPsList == WinProcesses(When("dump", dump_process_image) \o process_row)

\* The place in the image of one that was found ends the listing, if it is asked for.
PsScan ==
    win_kernel \o Must({"pool scan"})
    \o Each("hits",
         Need({"pid"}) \o Pick
         \o When("dump", Try(Give({"process of it"}) \o dump_process_image))
         \o When("physical", Tell({"mapping"})) \o process_row)
virtual_process_from_physical ==
    Quit({"_ETHREAD", "ThreadListHead", "layer"})
    \o Each("offsets", Need({"thread", "Process"}) \o Need({"mapping"}) \o Pick) \o Row
os_version == Quit({"NtMajorVersion", "KdVersionBlock"}) \o Row

\* A process whose parent is not known is no parent either.
WinPsTree ==
    win_kernel \o Must({"list of processes"})
    \o Each("processes",
         Need({"pid", "ppid"}) \o Pick \o Cell({"command line", "audit name"}) \o process_row)

WinCmdLine == WinProcesses(Cell({"command line", "name"}) \o Row)

\* The block is read whole or not at all.
read_environment ==
    Must({"Peb", "ProcessParameters", "Environment", "EnvironmentSize"}) \o Must({"block"})
    \o Each("strings", Pick \o Row)
WinEnvars ==
    WinProcesses(Blank({"name"}) \o Need({"address space", "environment"}) \o Each("variables", Row))

Sessions == WinProcesses(Blank({"session", "name", "created", "user"}) \o Row)

(* Modules.                                                                *)

\* Two lists, the second for a 32-bit process on a 64-bit system.
load_order_modules ==
    Each("lists", Need({"Ldr", "list"}) \o Each("entries", Need({"DllBase"}) \o Row))
dump_ldr_entry == Blank({"FullDllName", "image"}) \o Try(Give({"output"}) \o File)
DllList ==
    win_kernel \o Quit({"pattern"}) \o Blank({"version"}) \o Tell({"selected processes"})
    \o Each("processes",
         Need({"pid"}) \o Blank({"name"}) \o Need({"address space"})
         \o Each("modules",
              When("name", Need({"BaseDllName", "FullDllName"}) \o Pick)
              \o When("base", Blank({"DllBase"}) \o Pick)
              \o When("dump", Try(Give({"DllBase"}) \o dump_ldr_entry))
              \o Cell({"base", "size", "name", "path", "LoadCount", "LoadTime"}) \o Row))

\* One layer for each session, that of the first process in it.
session_layers ==
    Quit({"list of processes"})
    \o Each("processes", Need({"address space", "Session"}) \o Need({"SessionId"}) \o Pick \o Row)
dump_module == Try(Give({"layer of a session"}) \o dump_ldr_entry)
report_modules ==
    Each("modules",
      Blank({"DllBase", "BaseDllName"}) \o Pick
      \o When("dump", Try(Give({"DllBase"}) \o dump_module))
      \o Cell({"base", "size", "name", "path"}) \o Row)
WinModules == win_kernel \o Must({"list of modules"}) \o report_modules
ModScan == win_kernel \o Must({"pool scan"}) \o report_modules

(* The system.                                                             *)

layer_depths == Row \o Each("layers below", Row \o Each("layers below it", Row))
debugger_data_block == Quit({"kdbg", "KdDebuggerDataBlock", "OwnerTag"}) \o Row
\* What is not in memory after the first rows drops them.
Info ==
    win_kernel \o Must({"layer"}) \o Row \o Must({"table"}) \o Row
    \o Each("layers", Must({"layer of it"}) \o Row)
    \o Try(Give({"debugger data block"}) \o Row
           \o Try(Give({"NtBuildLab"}) \o Row) \o Try(Give({"CmNtCSDVersion"}) \o Row))
    \o Must({"KdVersionBlock"}) \o Row \o Must({"MajorVersion", "MinorVersion"}) \o Row
    \o Must({"MachineType"}) \o Row \o Must({"KeNumberProcessors"}) \o Row
    \o Must({"_KUSER_SHARED_DATA"}) \o Cell({"SystemTime", "NtMajorVersion", "NtMinorVersion"})
    \o Blank({"NtSystemRoot", "NtProductType"}) \o Row
    \o Try(Give({"PE headers"}) \o Row)

(* Handles.                                                                *)

HandleEntries(body) ==
    Each("entries", Need({"entry", "object header"}) \o Need({"TypeIndex"}) \o Pick \o body)
handles ==
    Quit({"ObjectTable", "TableCode", "table"})
    \o When("levels", Each("pages", Need({"pointer", "page"}) \o HandleEntries(Row)))
    \o Unless("levels", HandleEntries(Row))
full_key_name ==
    Must({"KeyControlBlock"})
    \o Each("keys above", Must({"ParentKcb", "NameBlock", "Flags"}) \o Must({"NameLength", "Name"}))
    \o Row
file_name_with_device == Quit({"_FILE_OBJECT"}) \o Blank({"DeviceObject", "FileName"}) \o Row
Handles ==
    win_kernel \o Blank({"type map", "cookie"}) \o Tell({"selected processes"})
    \o Each("processes",
         Need({"pid", "ObjectTable", "name"})
         \o Each("handles",
              Need({"type", "Body"}) \o When("Key", Need({"key name"}))
              \o Unless("Key", Cell({"object name"})) \o Row))

(* Memory of processes.                                                    *)

\* A node whose tag is not a VAD's is left out with what is below it, except the root.
walk_vad_tree ==
    Must({"VadRoot", "Root", "types"}) \o Try(Give({"tag of the root"}) \o Row)
    \o Each("children",
         Need({"pointer", "tag"}) \o Row
         \o Each("children of it", Need({"pointer", "tag"}) \o Row))
\* A file that could not be finished is left as it is, and not named in the row.
vad_dump ==
    Try(Give({"start", "end"}) \o Of(1, Give({"address space"})) \o Give({"output"})
        \o File \o Each("chunks", Give({"chunk"})))
file_name ==
    When("ControlArea", Quit({"FilePointer"}))
    \o Unless("ControlArea", Quit({"Subsection", "FilePointer", "_FILE_OBJECT"}))
    \o Quit({"Length", "FileName"}) \o Row
protect_values == Quit({"MmProtectToValue", "values"}) \o Row
VadInfo ==
    WinProcesses(
      Blank({"name", "areas"})
      \o Each("areas",
           When("address", Need({"start", "end"}) \o Pick) \o When("dump", vad_dump)
           \o Cell({"start", "end", "tag", "commit charge", "private memory", "parent"})
           \o Blank({"protection", "file"}) \o Row))
VadWalk ==
    WinProcesses(
      Blank({"name", "areas"}) \o Each("areas", Cell({"parent", "left", "right", "start", "end", "tag"}) \o Row))
control_area ==
    When("ControlArea", Quit({"ControlArea"})) \o Unless("ControlArea", Quit({"Subsection"})) \o Row
file_object == Quit({"FilePointer", "_FILE_OBJECT"}) \o Row

\* A gap in the mapping ends the process's pages.  They are joined while they touch.
MemMap ==
    WinProcesses(
      Need({"address space"}) \o Must({"layer"}) \o When("dump", Blank({"output"}))
      \o Each("windows",
           Leave({"mapping"})
           \o Each("regions", When("dump", Try(Give({"data"}) \o File)) \o Row)))

\* The kinds of regions are one array of ranges, or one of kinds, with a kind for each
\* large page: the same kind twice in a row is one range.
collapse_runs == Must({"count"}) \o Each("entries", Need({"entry"}) \o Row)
determine_map ==
    Must({"_MI_SYSTEM_VA_TYPE", "_MMPTE"})
    \o When("SystemVaRegions",
         Must({"MiVisibleState", "_MI_VISIBLE_STATE", "count"})
         \o Each("regions", Must({"region"}) \o Need({"BaseAddress", "NumberOfBytes"}) \o Row))
    \o Unless("SystemVaRegions", Must({"MmSystemRangeStart", "MiSystemVaType"}) \o collapse_runs)
VirtMap == win_kernel \o Must({"map"}) \o Each("regions", Each("ranges", Row))

\* What a layer's pages are: found by mapping one address after another.
Statistics ==
    Must({"layer"}) \o Each("addresses", Leave({"first of the mapping"}) \o Blank({"mapping"})) \o Row

(* Rights.                                                                 *)

\* The names of users are in the hive of the software.
HiveOf(list, name, body) ==
    Must({"list of hives"})
    \o Each("hives",
         Need({"hive"}) \o Blank({"name of the hive"}) \o Pick \o Need({"root", "key"})
         \o Blank({list}) \o Each(list, name \o body))
user_names ==
    HiveOf("profiles", Need({"name"}),
      Blank({"values"})
      \o Each("values", Blank({"name of it"}) \o Pick \o Try(Give({"data"}) \o Row)))
GetServiceSids == win_kernel \o HiveOf("services", Need({"name"}), Pick \o Row)
\* The keys on the way: one that cannot be read is not descended into.
descend == Each("components", Quit({"subkeys"}) \o Each("children", Need({"name"}) \o Pick)) \o Row

GetSids ==
    win_kernel \o Blank({"users"}) \o Must({"list of processes"})
    \o Each("processes",
         Need({"pid"}) \o Pick \o Blank({"name"}) \o Try(Give({"sids"}) \o Each("sids", Row)) \o Row)
Privileges ==
    WinProcesses(Need({"privileges"}) \o Blank({"name"}) \o Each("privileges", Pick \o Row))

(* Threads and services.                                                   *)

thread_owner == Quit({"Tcb", "Process", "_EPROCESS"}) \o Row
thread_row ==
    Need({"Cid", "StartAddress", "Win32StartAddress"}) \o Need({"pid", "tid"})
    \o Need({"CreateTime", "ExitTime"}) \o Pick \o Blank({"owner", "mapped files"}) \o Row
ThrdScan == win_kernel \o Must({"pool scan"}) \o Each("threads", thread_row)
\* A thread that is met twice ends the list of its process.
Threads ==
    win_kernel \o Must({"list of processes"})
    \o Each("processes",
         Need({"ThreadListHead"}) \o Blank({"links"}) \o Each("threads", thread_row))
OrphanKernelThreads ==
    win_kernel \o Must({"modules", "pool scan"})
    \o Each("threads",
         Need({"owner", "StartAddress"}) \o Pick \o Blank({"exited", "State"}) \o Pick
         \o thread_row)
SuspendedThreads ==
    win_kernel \o Must({"list of processes"})
    \o Each("processes",
         Blank({"ThreadListHead"})
         \o Each("threads",
              Need({"Tcb", "SuspendCount"}) \o Pick \o Blank({"State"}) \o Pick
              \o Need({"owner"}) \o Need({"Cid"}) \o Need({"name"})
              \o Need({"StartAddress", "Win32StartAddress"}) \o Need({"mapped files"}) \o Row))

SvcList ==
    win_kernel \o Must({"service table", "registry of services"}) \o Must({"service list"})
    \o Each("services", Row)
\* Those that were scanned for and that the list does not have.
SvcDiff ==
    win_kernel \o Must({"service table", "registry of services"}) \o Quit({"version"})
    \o Must({"service scan"}) \o Must({"service list"}) \o Each("services", Need({"name"}) \o Pick \o Row)

(* Processors and drivers.                                                 *)

list_kpcrs ==
    Must({"_KPCR", "Prcb"}) \o Blank({"KeNumberProcessors"}) \o Must({"KiProcessorBlock"})
    \o Each("processors", Need({"pointer", "block"}) \o Blank({"CurrentPrcb"}) \o Row)
Kpcrs == win_kernel \o Must({"list of processors"}) \o Each("processors", Row)

\* An address lies in every module whose range has it, and has every symbol there.
Owners(list) == Each(list, Each("symbols", Row))
Ssdt ==
    win_kernel \o Must({"modules"}) \o Must({"KiServiceTable", "KiServiceLimit"})
    \o Each("entries", Need({"entry"}) \o Owners("owners"))
DriverIrp ==
    win_kernel \o Must({"modules"}) \o Must({"pool scan"})
    \o Each("drivers",
         Cell({"name"}) \o Need({"MajorFunction"})
         \o Each("functions", Need({"address"}) \o Pick \o Row \o Owners("owners")))

=============================================================================
