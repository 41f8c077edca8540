----------------------------- MODULE WindowsKernel --------------------------
(***************************************************************************)
(* What the plugins for Windows read the kernel with (symbols/windows, and *)
(* the registry below it), each function as the steps that make its list.  *)
(* A row is a member of the list; a function that returns a Result or an   *)
(* Option gives one row, or none.                                          *)
(***************************************************************************)
EXTENDS ListingSteps

(* Processes, threads and files.                                           *)

\* Forwards and backwards (ListWalk).
win_list_processes == Must({"PsActiveProcessHead", "links"}) \o Each("processes", Row)

\* A process of no session has none to read.
session_id ==
    Must({"Session"}) \o When("_MM_SESSION_SPACE", Must({"SessionId"}))
    \o Unless("_MM_SESSION_SPACE", Must({"data"})) \o Row
address_space == Must({"DirectoryTableBase", "kernel layer"}) \o Blank({"pid"}) \o Row
peb == Must({"Peb", "_PEB"})
command_line == peb \o Must({"ProcessParameters", "CommandLine"}) \o Row
image_path == peb \o Must({"ProcessParameters", "ImagePathName"}) \o Row
peb32 ==
    Must({"WoW64Process", "types"}) \o When("_EWOW64PROCESS", Must({"Peb"})) \o Quit({"_PEB32"}) \o Row

token == Must({"Token", "_TOKEN"})
format_sid == Must({"Revision", "SubAuthorityCount", "IdentifierAuthority", "SubAuthority"}) \o Row
\* An identifier that makes no sense ends the list, one that cannot be read is left out.
sids ==
    token \o Must({"UserAndGroupCount"}) \o Must({"UserAndGroups", "types"})
    \o Each("groups", Need({"Sid"}) \o Leave({"sense of the sid"}) \o Need({"sid"}) \o Row)
privileges ==
    token \o Must({"Privileges"})
    \o Unless("bits",
         Must({"PrivilegeCount", "types"})
         \o Each("entries", Need({"Attributes", "Luid"}) \o Row))
    \o When("bits", Each("bits", Row))

process_is_valid ==
    Need({"ImageFileName", "UniqueProcessId", "CreateTime"}) \o Blank({"ExitTime"})
    \o Need({"DirectoryTableBase", "ThreadListHead"}) \o Pick
thread_is_valid == Need({"Cid", "CreateTime"}) \o Pick
file_is_valid == Need({"Length", "Buffer", "FileName"}) \o Pick
is_active_userland_process ==
    process_is_valid \o Blank({"ActiveThreads", "pid", "parent_pid", "ExitTime"}) \o Pick

object_header == Must({"_OBJECT_HEADER", "Body"}) \o Row
\* The name is some way before the header, by one member or by a table of the kernel.
name_info ==
    When("NameInfoOffset", Quit({"NameInfoOffset"}))
    \o Unless("NameInfoOffset", Quit({"InfoMask", "ObpInfoMaskToOffset"}))
    \o Quit({"_OBJECT_HEADER_NAME_INFO"})
header_name == name_info \o Quit({"Name"}) \o Row
header_name_checked == name_info \o Quit({"Length", "MaximumLength"}) \o Quit({"Name"}) \o Row

\* A module of no address or size has none to resolve, and is left out.
module_entries(body) ==
    Must({"PsLoadedModuleList", "InLoadOrderLinks"}) \o Each("modules", body)
WindowsModuleResolver ==
    module_entries(Need({"DllBase", "SizeOfImage"}) \o Blank({"BaseDllName"}) \o Row)
\* The other resolver keeps a module by its name.
ModuleCollection ==
    module_entries(Need({"BaseDllName"}) \o Blank({"DllBase", "SizeOfImage"}) \o Row)

(* Portable executables.                                                   *)

pe_header == {"MZ", "PE", "optional header"}
parse_pe == Must(pe_header) \o Row
pe_sections == Must(pe_header) \o Each("sections", Must({"section"}) \o Row)
data_directory == Quit(pe_header) \o Row

\* A function without a readable name takes with it the others of its library; a slot
\* beyond the image, the imports of every library.
imports ==
    Quit(pe_header)
    \o Each("libraries",
         Must({"descriptor"}) \o Blank({"library", "bound"})
         \o Each("slots",
              Must({"name value"}) \o Blank({"address"}) \o Out(1, Need({"hint and name"})))
         \o Row)
exports ==
    Quit(pe_header) \o Must({"directory"})
    \o Each("names",
         Must({"name pointer"}) \o Need({"name"}) \o Must({"ordinal", "address"}) \o Row)

directory_entries == Quit({"counts"}) \o Each("entries", Need({"offset"}) \o Row)
\* The first entry of a kind: one that cannot be read ends the search.
directory_entry == Quit({"counts"}) \o Each("entries", Quit({"name", "offset"}) \o Pick) \o Row
resource_data == Quit({"kind", "name"}) \o Each("languages", Need({"address", "size"}) \o Row)
version_info == Quit({"VS_VERSION_INFO"}) \o Row

\* The image as the sections lie in memory.  A page of it may be missing, a header not.
reconstruct ==
    Must({"headers", "NT headers"}) \o Must({"SizeOfImage"}) \o Blank({"pages"})
    \o Each("sections", Must({"section header"}) \o Pick) \o Row

(* Pools.                                                                  *)

matches_constraint ==
    Need({"BlockSize"}) \o Pick \o Need({"PoolType"}) \o Pick
    \o When("index", Need({"PoolIndex"}) \o Pick)
pool_scan ==
    Must({"_POOL_HEADER", "PoolTag"}) \o Must({"layer", "scan"})
    \o Each("hits", Need({"tag"}) \o Pick \o matches_constraint \o Row)

\* An object is at the end of its block, or, since Windows 8, anywhere in it: every
\* place is tried.
carve ==
    Quit({"type", "_OBJECT_HEADER", "BlockSize"})
    \o Unless("top down", Quit({"object"}) \o Row)
    \o When("top down",
         Blank({"data"})
         \o Each("places", Need({"PointerCount"}) \o Need({"padding"}) \o Need({"object"}) \o Row))
generate_pool_scan ==
    Blank({"type map", "cookie", "version"}) \o Must({"pool scan"})
    \o Each("hits", Each("objects", Unless("trusting the tag", Need({"type of the object"}) \o Pick) \o Row))

\* The table of types ends where it cannot be read.
object_type_map ==
    Quit({"ObTypeIndexTable", "_OBJECT_TYPE"})
    \o Each("types", Leave({"pointer"}) \o Need({"Name"}) \o Row)
header_cookie == Quit({"ObHeaderCookie"}) \o Row
object_type_of_header ==
    When("Type", Quit({"Length", "Name"}))
    \o Unless("Type", Quit({"TypeIndex", "type map"})) \o Row
object_type_of == Quit({"_OBJECT_HEADER", "Body"}) \o object_type_of_header

(* The registry.                                                           *)

\* Forwards up to a hive that is none, backwards up to it, and from every hive that a
\* scan finds if that is not the same one: what lies behind it both ways.
hive_is_valid == Need({"Signature"})
list_hive_objects ==
    Must({"CmpHiveListHead"})
    \o Each("hives", hive_is_valid \o When("filter", Blank({"name"}) \o Pick) \o Need({"hive"}) \o Row)
\* The first of three names that can be read.
hive_object_name == Each("names", Need({"Length", "name"}) \o Row)
open_hive == Must({"BaseBlock", "Storage", "layer"}) \o Row

class_name == Quit({"ClassLength", "Class", "name"}) \o Row
value_data ==
    Must({"DataLength"}) \o When("inline", Must({"layer"})) \o Unless("inline", Must({"Data"}))
    \o Row
decode_value == Must({"data"}) \o Blank({"Type"}) \o Row
read_cell_name == Must({"length"}) \o Blank({"Flags"}) \o Must({"name"}) \o Row
read_key == Must({"_CM_KEY_NODE", "Signature"}) \o Row

\* A list that has no count is an error, whichever lists were read before it.
index_list(body) ==
    Must({"_CM_KEY_INDEX", "Count"}) \o Each("entries", Need({"entry"}) \o Pick \o body)
read_subkey_list ==
    Quit({"signature"})
    \o When("ri", index_list(
         Need({"signature of it"}) \o Must({"Count of it"})
         \o Each("entries of it", Need({"entry of it"}) \o Pick \o Row)))
    \o Unless("ri", index_list(Row))
\* The keys that are kept and those that are not are in two lists, and an error in the
\* second drops the first.
subkeys ==
    Each("stores",
      Need({"SubKeyLists"}) \o Must({"list"}) \o Each("cells", Need({"key node"}) \o Blank({"name"}) \o Row))
key_values ==
    Blank({"Count"}) \o Must({"List", "_CM_KEY_VALUE"})
    \o Each("values", Need({"cell", "vk"}) \o Row)
\* A key whose list of subkeys cannot be read is taken for one without.
walk_keys == Row \o Each("subkeys", Row \o When("recurse", Each("subkeys of it", Row)))

(* Plugins' helpers.                                                       *)

\* Where a process lies in the image is not always to be found: the address that it
\* has is shown then, but a selection by that place ends in an error.
process_offset == Blank({"mapping"}) \o Row
physical_offset_from_virtual == Must({"layer", "mapping"}) \o Row
load_companion_module == Quit({"symbol file"}) \o Must({"table"}) \o Row
selected_processes ==
    When("offset",
      Must({"scan"}) \o Each("hits", Must({"mapping"}) \o Pick \o Row))
    \o Unless("offset",
      Must({"PsActiveProcessHead", "links"}) \o Each("processes", Need({"pid"}) \o Pick \o Row))

=============================================================================
