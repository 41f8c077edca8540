------------------------------ MODULE LinuxKernel ---------------------------
(***************************************************************************)
(* What the plugins for Linux read the kernel with (symbols/linux): the    *)
(* functions that give a list, each as the steps that make it.  A row is   *)
(* a member of the list.  A function that returns a Result or an Option    *)
(* gives one row, or none.                                                 *)
(***************************************************************************)
EXTENDS ListingSteps

(* Tasks.                                                                  *)

\* A task that is not whole, or whose pointers lead nowhere, is not a task.
pointer_is_readable == Need({"pointer", "what it points to"})
Task_is_valid ==
    Need({"task_struct", "pid", "tgid"}) \o pointer_is_readable \o Need({"active_mm"}) \o Pick
threads(body) ==
    Try(Give({"signal", "thread_head", "thread_node"})
        \o Each("threads", Need({"thread", "pid of it"}) \o Pick \o body))
\* Forwards, and backwards for what is left (ListWalk).
list_tasks_filtered ==
    Must({"init_task", "tasks"})
    \o Each("tasks", Task_is_valid \o Pick \o Row \o When("threads", threads(Row)))

\* The member that has the time has three names, and it is a number or a pair.
creation_time ==
    Must({"start_time"}) \o When("timespec", Blank({"tv_nsec"}) \o Must({"tv_sec"}))
    \o Unless("timespec", Must({"nanoseconds"})) \o Row

\* No layer is an answer too: a kernel thread has none, and one whose tables are not
\* in the image is taken for one.
process_layer == Must({"mm", "pgd"}) \o Quit({"table"}) \o Must({"name of the layer"}) \o Row

heap_sections ==
    Must({"mm", "brk", "start_brk", "areas"}) \o Each("areas", Need({"vm_start", "vm_end"}) \o Pick \o Row)

\* The block is read whole or not at all.
environment ==
    Must({"mm", "env_start", "env_end"}) \o Quit({"size"}) \o Must({"layer"}) \o Quit({"block"})
    \o Each("strings", Row)

open_files ==
    Must({"files", "fdt", "fd"}) \o Quit({"first descriptor"}) \o Must({"max_fds", "file"})
    \o Each("descriptors", Need({"pointer"}) \o Pick \o Need({"file of it"}) \o Row)

\* A set that cannot be read, and one of a shape nobody knows, are errors; the last
\* set is not in every kernel.
capabilities ==
    Must({"real_cred", "cap_inheritable", "cap_permitted", "cap_effective", "cap_bset"})
    \o Blank({"cap_ambient"}) \o Row

(* Trees.                                                                  *)

\* A node that cannot be read, or of a type nobody knows, ends the walk, which says so;
\* one that is another node's child is left out.
parse_maple_node(other, body) ==
    Must({"pointer type"}) \o Tell({"parent"}) \o other \o Tell({"node type", "slots"})
    \o Each("slots", Tell({"slot"}) \o Pick \o body)
maple_tree_slots ==
    Must({"ma_root", "ma_flags"})
    \o parse_maple_node(Quit({"owner"}), parse_maple_node(Need({"owner"}), Row))

\* One slot that cannot be read is an error, and no entry is listed.
walk_xarray_node(body) == Each("slots", Must({"slot"}) \o Pick \o body)
xarray_entries ==
    Must({"xa_node", "slots member", "xa_head"}) \o Must({"shift"}) \o walk_xarray_node(walk_xarray_node(Row))

\* Of the radix tree that was there before it, the slot is left out.
walk_radix_node(body) == Each("slots", Need({"slot"}) \o Pick \o body)
radix_tree_entries ==
    Must({"radix_tree_node", "slots member"}) \o Quit({"rnode", "height"})
    \o walk_radix_node(walk_radix_node(Row))

\* A child that cannot be read is left out with what is below it.
rbtree_nodes ==
    Quit({"rb_node"})
    \o Each("children", Need({"node"}) \o Row \o Each("children of it", Need({"node"}) \o Row))

walk_hlist ==
    Must({"type", "member", "first"}) \o Each("nodes", Row \o Link({"next"}))

(* Mapped areas.                                                           *)

Vma_is_valid == Need({"vm_start", "vm_end", "vm_flags"}) \o Pick
\* What a file keeps of its inode: it can be there, unreadable, or missing.
backing_inode ==
    Need({"f_inode", "i_ino", "i_count"})
    \o When("no f_inode", Need({"f_path", "dentry"}) \o Tell({"target of dentry"}) \o Need({"d_inode"}))
    \o Tell({"inode"})
validity ==
    Vma_is_valid \o When("vm_file", backing_inode \o Blank({"i_size", "vm_pgoff"}) \o Pick)
\* The chain of areas up to 6.1, the tree after it.  The areas behind one whose inode
\* is missing are not listed, and the list says that it is cut short.
vmas ==
    Must({"mm", "vm_area_struct", "mmap"})
    \o Unless("mmap", Must({"maple tree"}) \o Tell({"rest of the tree"}) \o Each("areas", validity \o Row))
    \o When("mmap", Each("areas", validity \o Row \o Link({"vm_next"})))

device_and_inode == Quit({"file", "inode", "i_ino"}) \o Blank({"i_sb", "s_dev"}) \o Row

(* Modules.                                                                *)

\* One of the regions that a module is made of, by its number in the kernel's own list.
memory_region_size == Need({"mod_mem_type", "mem", "size"})
core_size == Each("regions", memory_region_size \o Row)
init_size == Each("regions", memory_region_size \o Row)
KernelModule_is_valid == Need({"module", "core size", "text size", "init size"}) \o Pick \o Need({"mkobj"}) \o Pick

module_allocation_range == Must({"addr_min", "addr_max"}) \o Row
scan_modules ==
    Must({"module type", "module_kobject", "mkobj member", "mod member", "allocation range"})
    \o Each("addresses", Pick \o Need({"self reference"}) \o Pick \o KernelModule_is_valid \o Row)

\* Those that the kernel does not refer to more than twice are not modules.
kset_modules ==
    Must({"module_kset", "module_kobject", "kobj member", "list", "walk"})
    \o Each("kobjects", Need({"name"}) \o Blank({"kref"}) \o Pick \o Need({"mod"}) \o Row)
list_modules == Must({"modules", "walk"}) \o Each("modules", Row)

\* The value of an array is that of its elements, None for one that has none.
value_of(element) ==
    Give({"get"})
    \o When("array", Give({"arr", "num", "elem", "elemsize", "kernel_param"}) \o element)
    \o Unless("array", Give({"str", "arg"}))
load_parameters ==
    Quit({"kp", "num_kp", "kernel_param type"})
    \o Each("parameters",
         Need({"name"}) \o Try(value_of(Each("elements", Cell({"get of it", "arg of it"})))) \o Row)

(* The file of a module, put together from its sections.                  *)

section_name == Need({"name"})
attribute_count == Blank({"grp", "bin_attrs"}) \o Each("attributes", Link({"attribute"}) \o Row)
module_sections(body) ==
    Quit({"nsections", "attrs", "element type"}) \o Each("sections", body)
parse_sections(symbols) ==
    Must({"allocation range"})
    \o module_sections(Need({"address"}) \o Pick \o section_name)
    \o Must({"num_symtab", "symtab", "strtab"})
    \o Each("named sections", Must({"data"})) \o Must({".symtab"}) \o symbols
fixed_symbol_table == Each("symbols", Must({"st_name", "st_value", "st_size", "st_other", "st_shndx"}))
extract_module == Must({"sect_attrs", "ELF types"}) \o parse_sections(fixed_symbol_table) \o File

\* A module whose range cannot be read contains no address; the others do.
ModuleResolver ==
    Must({"list of modules"}) \o Each("modules", Need({"name", "base", "size"}) \o Pick \o Row)
    \o Blank({"_text", "_etext"}) \o Each("symbols", Need({"symbol"}) \o Row)

(* Mounts and paths.                                                       *)

\* A namespace is listed with the first of its tasks, and a mount with the first
\* namespace that has it.
mount_points ==
    Must({"list of tasks"})
    \o Each("tasks",
         Need({"nsproxy", "mnt_ns"}) \o Pick \o Each("mounts", Blank({"mnt_id"}) \o Pick \o Row))

\* Of a path that cannot be followed to the root, what is known of it: a name that
\* cannot be read is marked, and a parent that cannot be read ends the path.
read_qstr == Blank({"len", "hash_len", "name"})
containing_mount == Link({"mount type"})
resolve_path ==
    Quit({"fs", "root", "root dentry", "root mnt"}) \o Blank({"d_inode"})
    \o Each("components",
         Link({"dentry"}) \o Blank({"mnt_root"})
         \o When("root of a mount", containing_mount \o Link({"mnt_parent", "mnt_mountpoint", "mnt"}))
         \o Unless("root of a mount", read_qstr \o Row \o Link({"d_parent"})))
    \o Blank({"i_ino", "i_count", "i_nlink"})

\* A parent that cannot be read loses the names below it too.
dentry_path ==
    Each("components", read_qstr \o Must({"d_parent"}) \o Row)

mount_path_start ==
    When("mnt", Quit({"mnt", "mnt_root"})) \o Unless("mnt", Quit({"mnt_mountpoint", "mnt_parent"})) \o Row
path_for_file_of_kind(special) ==
    special \o Quit({"f_path", "dentry", "d_parent", "mnt", "path"}) \o Row
\* The name that a pseudo file system gives a file; when there is none, the path.
special_dentry_name ==
    Try(Give({"f_path", "dentry", "d_op", "d_dname"}) \o Blank({"d_inode", "i_ino", "i_count"})
        \o Give({"module"}) \o When("ns_dname", Blank({"i_private", "ops", "ops name"})) \o Row)

(* Networks.                                                               *)

list_net_namespaces == Must({"net_namespace_list", "walk"}) \o Each("namespaces", Row)
list_net_devices == Must({"dev_base_head", "walk"}) \o Each("devices", Row)
mac_address == Blank({"addr_len"}) \o Quit({"perm_addr"}) \o Row
flag_names ==
    Quit({"symbol table"}) \o Blank({"net_device_flags", "gflags", "state", "netdev_state_t", "operstate"})
    \o Each("flags", Pick \o Row)
ipv4_addresses ==
    Quit({"ip_ptr", "in_device", "in_ifaddr"}) \o Blank({"rt_scope_t"})
    \o Each("addresses",
         Try(Give({"ifa_address", "ifa_prefixlen"}) \o Blank({"ifa_scope"}) \o Row) \o Link({"ifa_next"}))
ipv6_addresses ==
    Quit({"ip6_ptr", "inet6_dev", "addr_list", "walk"})
    \o Each("addresses", Need({"prefix_len", "addr"}) \o Blank({"scope"}) \o Row)

(* Odds and ends.                                                          *)

\* A task that has no list of children has none.
list_tasks_by_children ==
    Must({"init_task"}) \o Row \o Each("children", Row \o Each("children of it", Row))

boot_time_timespec ==
    When("tk_core", Quit({"offs_real"}) \o Blank({"offs_boot"}))
    \o Unless("tk_core", Quit({"wall_to_monotonic"}) \o Blank({"total_sleep_time"})) \o Row

\* The kernel's own table of letters ends at the first that cannot be read, and the
\* letters of the taints behind it are missing.
taint_letters ==
    Each("taint_flags", Leave({"c_true", "c_false", "module"}) \o Pick \o Row)

=============================================================================
