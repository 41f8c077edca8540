----------------------------- MODULE MacListings ----------------------------
(***************************************************************************)
(* The plugins for macOS, and what they read the kernel with               *)
(* (symbols/mac), in the words of ListingSteps.                            *)
(***************************************************************************)
EXTENDS ListingSteps

mac_kernel == Must({"kernel"})
MacProcesses(body) ==
    mac_kernel \o Must({"list of processes"}) \o Each("processes", Need({"pid"}) \o Pick \o body)

(* Processes.                                                              *)

\* Five ways to the processes: the queue of tasks, the list of all processes, and three
\* hash tables.  A chain in a table is followed as far as it leads.
by_tasks ==
    Must({"tasks", "task type"}) \o Each("tasks", Need({"bsd_info", "process"}) \o Row)
by_allproc ==
    Must({"allproc"}) \o Quit({"lh_first"})
    \o Each("processes", Try(Give({"process"}) \o Row) \o Link({"p_list"}))
hash_table(body) == Must({"size", "table", "bucket type"}) \o Each("buckets", body)
by_sessions ==
    hash_table(Each("sessions", Need({"s_leader", "process"}) \o Row \o Link({"s_hash"})))
by_process_group ==
    hash_table(Each("groups",
      Need({"pg_members"}) \o Each("members", Row \o Link({"p_pglist"})) \o Link({"pg_hash"})))
by_pid_hash_table == hash_table(Each("processes", Row \o Link({"p_hash"})))

MacPsList ==
    MacProcesses(Cell({"name", "uid", "gid", "start_time", "ppid"}) \o Row)
\* A process whose parent is not known is no root and no child, and not listed.
MacPsTree == MacProcesses(Need({"ppid"}) \o Cell({"name"}) \o Row)

MacPsAux ==
    MacProcesses(
      Need({"layer", "user_stack", "p_argslen", "p_argc", "page of the arguments"}) \o Pick
      \o Each("arguments", Leave({"argument"})) \o Cell({"name"}) \o Row)

mac_validate == Need({"line", "timestamp"}) \o Pick
mac_recover ==
    Must({"name of the layer", "areas"}) \o Pick \o Must({"scan for marks"}) \o Pick
    \o Must({"scan for entries"}) \o Each("hits", mac_validate \o Row)
\* As on Linux, one shell that cannot be searched drops the history of the others.
MacBash ==
    mac_kernel \o Must({"bash symbols", "hist_entry", "list of processes"})
    \o Each("processes", Need({"pid"}) \o Pick \o Blank({"name"}) \o Pick \o mac_recover)

process_layer_of_proc == Quit({"task", "map", "pmap", "pm_cr3"}) \o Must({"name of the layer"}) \o Row

(* Files.                                                                  *)

descriptor_kind == Blank({"fg_type", "fg_ops"})
file_descriptors ==
    Blank({"fd_lastfile", "fd_nfiles"}) \o Quit({"p_fd", "fd_ofiles", "fileproc"})
    \o Each("descriptors",
         Need({"entry"}) \o Pick \o Need({"f_fglob"}) \o descriptor_kind \o Blank({"fg_data"}) \o Row)
MacLsof == MacProcesses(Each("descriptors", Need({"path"}) \o Row))

\* A name that cannot be read ends the path: what is above it is left out.
vnode_full_path ==
    Blank({"v_flag of it", "v_mount of it", "mnt_flag"})
    \o Each("components",
         Link({"v_name"}) \o Row \o Blank({"v_flag"}) \o Link({"v_mount", "mnt_vnodecovered", "v_parent"}))
vnode_map_path == Each("components", Link({"v_name"}) \o Row \o Link({"v_parent"}))

statfs_string == Cell({"f_mntfromname", "f_mntonname", "f_fstypename"})
list_mounts == Must({"mountlist", "mount type"}) \o Each("mounts", Row \o Link({"mnt_list"}))
MacMount == mac_kernel \o Must({"list of mounts"}) \o Each("mounts", statfs_string \o Row)

\* A node is listed once, by whichever list leads to it first; those that it stands
\* before in a list are followed from it too.
vnode_name == Need({"v_name"})
walk_vnodes(list) == Each(list, Need({"vnode"}) \o vnode_name \o Row)
ListFiles ==
    mac_kernel \o Must({"list of mounts"})
    \o Each("mounts",
         Each("lists", Need({"head of the list"}) \o walk_vnodes("nodes"))
         \o Each("members", Need({"pointer"}) \o Pick \o walk_vnodes("node of it")))

(* Memory.                                                                 *)

vm_map_entries ==
    Must({"task", "map", "hdr"}) \o Blank({"nentries"}) \o Must({"vm_map_entry", "first"})
    \o Each("entries", Link({"entry"}) \o Row \o Link({"next"}))

\* The file behind an entry: the last of a chain of objects has it.
vnode_handle ==
    Quit({"vme_object", "vm_object"}) \o Each("shadows", Link({"shadow"}))
    \o Quit({"pager", "mo_pager_ops", "vnode_pager"}) \o Row

dump_region ==
    Try(Give({"size", "output"}) \o Of(1, Give({"layer"}))
        \o Each("chunks", Leave({"chunk"})) \o File)
MacMaps ==
    MacProcesses(
      Blank({"name", "areas"})
      \o Each("areas",
           Need({"start", "end"}) \o When("address", Pick) \o Blank({"protection", "path"})
           \o When("dump", dump_region) \o Row))

\* As the reference implementation has it, an area that looks suspicious is passed over.
MacMalfind ==
    MacProcesses(
      Blank({"name"}) \o Need({"layer"})
      \o Each("areas",
           Blank({"protection", "path"}) \o Pick \o Need({"start"}) \o Blank({"data"})
           \o Cell({"end"}) \o Row))

(* Networks.                                                               *)

process_sockets(body) ==
    Each("descriptors",
      Need({"f_fglob", "kind"}) \o Pick \o Need({"fg_data", "socket"}) \o body)
address_of == Need({"address"})
describe_mac_socket ==
    Need({"so_proto", "pr_domain", "dom_family"})
    \o When("unix", Need({"so_pcb", "unp_addr", "sun_path"}))
    \o Unless("unix", Pick \o Blank({"pr_protocol"}) \o Need({"so_pcb"}) \o Blank({"inp_ppcb"})
                      \o address_of \o Blank({"inp_lport", "inp_fport"}))
MacNetStat == MacProcesses(Blank({"name"}) \o process_sockets(describe_mac_socket \o Row))

format_sockaddr == Blank({"sa_family", "sa_data", "address"})
\* A byte that cannot be read ends the address.
format_sockaddr_dl ==
    Quit({"sdl_nlen", "sdl_alen", "sdl_data"}) \o Each("bytes", Leave({"byte"}) \o Row)
IfConfig ==
    mac_kernel \o Must({"ifnet_head", "ifnet"})
    \o Each("interfaces",
         Blank({"if_name", "if_unit", "if_flags"}) \o Cell({"if_lladdr"})
         \o Each("addresses", format_sockaddr \o Row) \o Link({"if_link"}))

(* The kernel.                                                             *)

list_extensions ==
    Must({"kmod"}) \o Quit({"first"}) \o Row \o Quit({"next of the first"})
    \o Each("extensions", Link({"extension"}) \o Row \o Link({"next"}))
ExtensionResolver ==
    Blank({"vm_kernel_stext", "vm_kernel_etext"}) \o Row \o Must({"list of extensions"})
    \o Each("extensions", Need({"name"}) \o Blank({"address"}) \o Need({"size"}) \o Row)
MacLsmod ==
    mac_kernel \o Must({"list of extensions"}) \o Each("extensions", Cell({"name", "size"}) \o Row)

\* A handler that is zero is no handler.
Handlers(list, what, cells) == Each(list, Need(what) \o Pick \o Cell(cells) \o Row)

TrustedBsd ==
    mac_kernel \o Blank({"resolver"})
    \o Must({"mac_policy_list", "staticmax", "entries", "mac_policy_list_element"})
    \o Each("policies",
         Need({"mpc", "mpc_ops"}) \o Blank({"mpc_name"}) \o Handlers("hooks", {"hook"}, {}))

SocketFilters ==
    mac_kernel \o Blank({"resolver"}) \o Must({"sock_filter_head", "socket_filter"})
    \o Each("filters",
         Blank({"sf_name"}) \o Need({"sf_filter"}) \o Blank({"sf_entry_head"})
         \o Handlers("callbacks", {"callback"}, {}) \o Link({"sf_global_next"}))

VfsEvents ==
    mac_kernel \o Must({"watcher_table"})
    \o Each("slots",
         Need({"pointer"}) \o Pick \o Need({"watcher"}) \o Blank({"proc_name"})
         \o Need({"event_list", "events"}) \o Pick \o Cell({"pid"}) \o Row)

Scopes(body) ==
    mac_kernel \o Blank({"resolver"}) \o Must({"kauth_scopes", "kauth_scope"})
    \o Each("scopes", Blank({"ks_identifier"}) \o body \o Link({"ks_link"}))
KauthScopes ==
    Scopes(Need({"ks_callback"}) \o Pick \o Blank({"ks_listeners"}) \o Cell({"ks_idata"}) \o Row)
KauthListeners ==
    Scopes(Need({"ks_listeners"}) \o Handlers("listeners", {"listener", "kll_callback"}, {"kll_idata"}))

CheckTrapTable ==
    mac_kernel \o Blank({"resolver"}) \o Must({"mach_trap_table"})
    \o Handlers("entries", {"entry", "mach_trap_function"}, {})
MacCheckSyscall ==
    mac_kernel \o Blank({"resolver"}) \o Must({"sysent"})
    \o Handlers("entries", {"entry", "sy_call"}, {})

\* A setting whose name is not in memory ends the list that it is in.
walk_oid_list(list, below) ==
    Each(list,
      Leave({"oid_name"}) \o Blank({"oid_kind", "oid_arg1"}) \o below
      \o Blank({"value", "oid_handler"}) \o Cell({"oid_number"}) \o Row \o Link({"oid_link"}))
CheckSysctl ==
    mac_kernel \o Blank({"resolver"}) \o Must({"sysctl__children", "sysctl_oid"})
    \o walk_oid_list("settings", walk_oid_list("settings of the node", <<>>))

walk_klist_array ==
    Quit({"table", "size", "klist"}) \o Each("lists", Each("notes", Row \o Link({"kn_link"})))
Kevents ==
    MacProcesses(
      Blank({"name", "p_fd", "p_klist"})
      \o Each("notes", Need({"kn_kevent", "filter"}) \o Pick \o Need({"ident"}) \o Blank({"kn_sfflags"}) \o Row))

\* One processor whose queue has no head ends the listing; the head is in the structure.
MacTimers ==
    mac_kernel \o Blank({"resolver", "real_ncpus"}) \o Must({"cpu_data_ptr", "first", "cpu_data"})
    \o Quit({"rtclock_timer member"})
    \o Each("processors",
         Each("calls", Need({"func"}) \o Cell({"param0", "param1", "deadline", "entry_time"}) \o Row))

Dmesg ==
    mac_kernel \o Must({"msgbufp", "msg_size", "msg_bufx", "msg_bufc"}) \o Each("lines", Row)

=============================================================================
