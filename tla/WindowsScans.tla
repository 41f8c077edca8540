----------------------------- MODULE WindowsScans ---------------------------
(***************************************************************************)
(* The plugins for Windows that search memory, follow what a driver or a   *)
(* service keeps, and write files, in the words of ListingSteps.           *)
(***************************************************************************)
EXTENDS ListingSteps

scan_kernel == Must({"kernel"})
ScanProcesses(body) ==
    scan_kernel \o Must({"list of processes"}) \o Each("processes", Need({"pid"}) \o Pick \o body)
PoolScan(body) == scan_kernel \o Must({"pool scan"}) \o Each("objects", body)

(* Files that the system has open.                                         *)

\* The first page that is not in the image ends the file, which stays.
write_pages == Try(Give({"output"}) \o File \o Each("pages", Give({"page"})))
\* What a file has in memory is in up to three places, each with a row of its own,
\* which has the name of what was written or says that it failed.
dump_file ==
    Need({"DeviceType"}) \o Pick \o Blank({"name of the file"}) \o Need({"SectionObjectPointer"})
    \o Each("sections", Need({"control area"}) \o write_pages \o Row)
    \o Try(Give({"cache map"}) \o write_pages \o Row)
control_area_is_valid ==
    Need({"Segment", "ControlArea", "TotalNumberOfPtes", "SizeOfSegment"}) \o Pick
\* Nothing remembers the subsections passed.
gather_control_area_pages ==
    Tell({"size", "Flags", "first subsection"})
    \o Each("subsections",
         Link({"subsection"}) \o Tell({"StartingSector", "SubsectionBase", "PtesInSubsection"})
         \o Each("entries", Tell({"entry"}) \o Pick \o Row) \o Tell({"next subsection"}))
cache_map_is_valid == Need({"FileSize", "ValidDataLength", "SectionSize"}) \o Pick
belongs_to == Need({"view", "SharedCacheMap"}) \o Pick
Views(list) == Each(list, belongs_to \o Need({"BaseAddress", "FileOffset"}) \o Row)
\* The four views in the map itself, then the array, which has arrays if it is large.
gather_cache_map_views ==
    Tell({"SectionSize"}) \o Views("first views") \o Tell({"Vacbs"})
    \o Unless("large", Views("views"))
    \o When("large", Each("arrays", Need({"array"}) \o Views("views of it")))
walk_index == Each("views", Need({"view"}) \o Pick \o Row) \o Each("arrays", Views("views of it"))
file_is_named == Need({"FileName", "Length"}) \o Pick \o Need({"Buffer"})

DumpFiles ==
    scan_kernel \o Quit({"pattern"})
    \o Unless("address",
         Must({"list of processes"})
         \o Each("processes",
              Need({"pid"}) \o Pick \o Blank({"handles", "areas"})
              \o Each("files",
                   Blank({"device of it"}) \o Pick \o dump_file)))
    \o When("address", Each("addresses", Need({"file at it"}) \o dump_file))

(* Pool scans.                                                             *)

FileScan == PoolScan(Need({"FileName"}) \o Row)
MutantScan == PoolScan(Cell({"name"}) \o Row)
SymlinkScan == PoolScan(Need({"name", "LinkTarget"}) \o Cell({"CreationTime"}) \o Row)
scan_drivers ==
    Must({"_DRIVER_OBJECT", "pool scan"}) \o Each("drivers", Need({"DriverStart"}) \o Pick \o Row)
\* Three names; a driver with none of them is passed over.
driver_names == Blank({"object name", "ServiceKeyName", "DriverName"}) \o Pick
DriverScan == PoolScan(driver_names \o Cell({"DriverStart", "DriverSize"}) \o Row)
PoolScanner ==
    PoolScan(When("process", Cell({"ImageFileName"})) \o When("file", Need({"FileName"})) \o Row)

(* Tables of the kernel.                                                   *)

\* Where the kernel's addresses start is a constant, if the variable is not in memory.
kernel_space_start == Blank({"MmSystemRangeStart"}) \o Row
UnloadedModules ==
    scan_kernel \o Blank({"MmLastUnloadedDriver"}) \o Must({"MmUnloadedDrivers"}) \o Quit({"table"})
    \o Must({"_UNLOADED_DRIVER"})
    \o Each("entries",
         Need({"StartAddress", "EndAddress", "CurrentTime", "Name"}) \o Pick \o Row)
list_big_pools ==
    Must({"PoolBigPageTable"}) \o Quit({"PoolBigPageTableSize"}) \o Must({"_POOL_TRACKER_BIG_PAGES"})
    \o Each("entries", Need({"Key", "Va"}) \o Pick \o Row)
BigPools ==
    scan_kernel \o Must({"list of pools"})
    \o Each("pools", Cell({"PoolType", "NumberOfBytes"}) \o Row)

(* Devices.                                                                *)

device_chain == Quit({"DeviceObject"}) \o Each("devices", Row \o Link({"NextDevice"}))
attached_chain == Each("devices", Link({"AttachedDevice"}) \o Row)
\* A device that cannot be read ends its driver, whose other devices were found.
DeviceTree ==
    scan_kernel \o Must({"pool scan"})
    \o Each("drivers",
         Cell({"name"}) \o Row
         \o Each("devices",
              Out(1, Need({"DeviceType"})) \o Cell({"name of the device"}) \o Row
              \o Each("attached",
                   Out(2, Need({"DriverName", "DeviceType of it"}))
                   \o Cell({"name of the attached"}) \o Row)))

(* Services.                                                               *)

prerequisites == Must({"table of the version"}) \o Blank({"registry"}) \o Row
service_table == Must({"version", "symbols"}) \o Row
controller_processes ==
    Must({"list of processes"})
    \o Each("processes",
         Blank({"name"}) \o Pick \o Need({"address space"}) \o Blank({"areas"})
         \o Each("areas", Need({"start", "end"}) \o Row))
executable_range ==
    Quit({"areas"}) \o Each("areas", Need({"file name"}) \o Pick \o Need({"start", "end"}) \o Row)
record_is_valid == Need({"Order", "State", "Start"}) \o Pick
\* A record that cannot be read, or makes no sense, ends the chain.
record_ends_chain == Leave({"Order", "State", "Start"})
\* Nothing remembers the records passed.
traverse ==
    Row \o Each("records",
             Link({"PrevEntry"}) \o Link({"next record"}) \o record_ends_chain \o Row)
enumerate_header == Need({"header", "ServiceRecord"}) \o record_is_valid
service_cells ==
    Cell({"ServiceName", "DisplayName", "Order", "ProcessId", "Start", "State", "BinaryPath"})
    \o Blank({"Type"}) \o Row
\* A process without a layer takes the services of the others with it.
service_scan ==
    Must({"list of controllers"})
    \o Each("controllers",
         Must({"layer", "scan"})
         \o Each("hits",
              Unless("vista", record_is_valid \o service_cells)
              \o When("vista", enumerate_header
                 \o Each("records", Link({"record"}) \o record_ends_chain \o service_cells))))
service_list ==
    Quit({"version"}) \o Must({"list of controllers"})
    \o Each("controllers",
         Need({"executable range"}) \o Must({"layer", "scan"})
         \o Each("hits",
              enumerate_header
              \o Each("records", Link({"record"}) \o record_ends_chain \o service_cells)))
SvcScan ==
    scan_kernel \o Must({"table of services"}) \o Must({"services"}) \o Each("services", Row)
\* The first hive of the system that has the key of the services.
registry_services ==
    Quit({"list of hives"})
    \o Each("hives",
         Need({"hive"}) \o Blank({"name of the hive"}) \o Pick \o Need({"root", "Services"})
         \o Each("services", Need({"name"}) \o Cell({"ImagePath", "ServiceDll"}) \o Row))
registry_string == Quit({"values", "value"}) \o Cell({"data"}) \o Row
service_dll == Quit({"Parameters"}) \o Cell({"ServiceDll"}) \o Row

(* Callbacks.                                                              *)

callback_table == Must({"callbacks", "nt_symbols"}) \o Row
notify_routines ==
    Each("arrays",
      Need({"symbol"})
      \o Each("entries", Need({"_EX_FAST_REF", "block", "Callback"}) \o Pick \o Row))
\* The records of one head, and those of another that say why.
bugcheck_callbacks ==
    Quit({"head", "links"})
    \o Each("records",
         Need({"CallbackRoutine"}) \o Need({"code"}) \o Cell({"Component"}) \o Row)
\* A vector of references, or a list.
registry_callbacks ==
    Quit({"CmpCallBackCount"})
    \o When("CmpCallBackVector",
         Quit({"CmpCallBackVector"})
         \o Each("entries", Need({"_EX_FAST_REF", "block", "Function"}) \o Pick \o Row))
    \o Unless("CmpCallBackVector",
         Quit({"CallbackListHead"}) \o Blank({"links"})
         \o Each("callbacks", Need({"Function"}) \o Blank({"Altitude"}) \o Row))
shutdown_packet_is_parseable ==
    Need({"Flink", "Blink", "DeviceObject"}) \o Need({"DriverStart"}) \o Pick \o Need({"type"})
shutdown_packet == Blank({"MajorFunction"}) \o Cell({"DriverName"})
driver_name == Cell({"object header", "type of the driver", "NameInfo"})
scan ==
    Blank({"type map", "cookie"})
    \o Each("hits",
         When("shutdown", shutdown_packet_is_parseable \o shutdown_packet)
         \o When("notify entry", driver_name \o Need({"EventCategory", "CallbackRoutine"}))
         \o Unless("shutdown", Need({"routine"})) \o Row)
Callbacks ==
    scan_kernel \o Must({"callbacks", "nt_symbols"}) \o Must({"modules"})
    \o Each("callbacks", Row \o Each("owners", Each("symbols", Row)))

(* Processes.                                                              *)

\* A member that cannot be read ends the job, though its list was walked already.
JobLinks ==
    ScanProcesses(
      Need({"Job"}) \o Need({"name"})
      \o Need({"SessionId", "TotalProcesses", "ActiveProcesses", "TotalTerminatedProcesses"})
      \o Cell({"ppid", "session"}) \o Blank({"offset", "WoW64Process"}) \o Row
      \o Need({"ProcessListHead"}) \o Blank({"JobLinks"})
      \o Each("members",
           Leave({"pid of it", "name of it"}) \o Leave({"path of it"})
           \o Cell({"ppid of it"}) \o Row))

\* An image that cannot be put together leaves an empty file, and no row.
pe_dump == Give({"output"}) \o File \o Give({"image"}) \o Row
PeDump ==
    scan_kernel \o Quit({"options"})
    \o Unless("kernel module",
         Must({"list of processes"})
         \o Each("processes",
              Need({"pid"}) \o Pick \o Blank({"name"}) \o Need({"address space"}) \o Try(pe_dump)))
    \o When("kernel module", Quit({"session layer"}) \o Try(pe_dump))
ordinal_name == Quit({"library", "ordinal"}) \o Row
Iat ==
    ScanProcesses(
      Blank({"name"}) \o Need({"address space", "ImageBaseAddress"}) \o Need({"headers"})
      \o Need({"image"}) \o Need({"imports"}) \o Each("imports", Cell({"function"}) \o Row))

truecrypt_base ==
    Quit({"PsLoadedModuleList", "links"})
    \o Each("modules", Need({"BaseDllName"}) \o Pick \o Need({"DllBase"}) \o Row)
Passphrase ==
    scan_kernel \o Quit({"truecrypt.sys"}) \o Quit({"headers", ".data"}) \o Quit({"data"})
    \o Each("positions", Pick \o Row)

(* Searches through what a process has mapped.                             *)

VadYaraScan ==
    scan_kernel \o Tell({"rules"}) \o Must({"list of processes"})
    \o Each("processes",
         Need({"pid"}) \o Pick \o Need({"address space"}) \o Need({"areas"})
         \o Each("areas",
              Need({"start", "end"}) \o Pick \o Need({"data"})
              \o Each("matches", Cell({"time", "ppid", "name", "session", "threads"}) \o Row)))
VadRegExScan ==
    scan_kernel \o Must({"pattern"}) \o Must({"list of processes"})
    \o Each("processes",
         Need({"pid"}) \o Pick \o Blank({"name"}) \o Need({"address space"}) \o Need({"areas"})
         \o Must({"layer", "scan"}) \o Each("hits", Blank({"data"}) \o Row))
=============================================================================
