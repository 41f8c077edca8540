---------------------------- MODULE LinuxListings ---------------------------
(***************************************************************************)
(* The plugins for Linux, each a sequence of steps in the words of         *)
(* ListingSteps.  A read has the name of what is read: a member of a       *)
(* kernel structure, a kernel symbol, or a function that returns an error. *)
(***************************************************************************)
EXTENDS ListingSteps

kernel_module == Must({"kernel"})

\* A task whose thread identifier cannot be read is not selected.
selected == Need({"tid"}) \o Pick
SelectedTasks(body) == kernel_module \o Must({"tasks"}) \o Each("tasks", selected \o body)

module_rows ==
    Each("modules",
      Need({"name"}) \o When("dump", Cell({"sections", "output"}) \o File)
      \o Cell({"sizes", "taints"}) \o Blank({"parameters"}) \o Row)

(* Processes and what they have open or mapped.                            *)

\* An ELF file put together from its segments in memory, one segment after another.
dump_elf ==
    Try(Give({"header"}) \o Each("entries", Leave({"entry"}))
        \o Each("segments", Leave({"pages"})) \o Give({"output"}) \o File)

file_output ==
    Try(Give({"layer", "start_code"})
        \o Each("areas", Need({"start"}) \o Pick \o dump_elf))

LinuxPsList ==
    SelectedTasks(
      Need({"pid"}) \o Cell({"ppid", "comm", "uid", "gid", "euid", "egid", "start_time"})
      \o When("dump", file_output) \o Row)

LinuxPsTree == SelectedTasks(Need({"pid", "ppid"}) \o Cell({"comm"}) \o Row)

\* Tasks carved out of physical memory by the address of their scheduling class.
LinuxPsScan ==
    kernel_module \o Must({"task_struct", "sched_class"}) \o Quit({"needles"})
    \o Must({"scan"})
    \o Each("hits",
         Need({"exit_state"}) \o Pick \o Need({"tid"}) \o Cell({"pid", "comm"})
         \o Blank({"real_parent"}) \o Row)

read_arguments == Cell({"mm", "layer", "arg_start", "arg_end", "arguments"})
LinuxPsAux == SelectedTasks(Blank({"comm"}) \o Cell({"ppid"}) \o read_arguments \o Row)

\* An entry without = ends the environment of its task.
LinuxEnvars ==
    SelectedTasks(
      Pick
      \o Each("environment", Leave({"entry"}) \o Of(1, Cell({"ppid", "comm"})) \o Row))

Capabilities ==
    kernel_module \o Blank({"cap_last_cap"}) \o Must({"tasks"})
    \o Each("tasks",
         selected \o Need({"pid"}) \o Tell({"capabilities"}) \o Tell({"comm", "euid"})
         \o Cell({"ppid"}) \o Row)

\* The areas that could be read are listed before the listing is said to be cut short.
Areas(body) == Each("areas", body) \o Tell({"rest of the areas"})

Elfs ==
    SelectedTasks(
      Blank({"comm"}) \o Need({"layer"})
      \o Areas(Need({"start", "magic"}) \o Pick \o Cell({"end", "name"})
               \o When("dump", dump_elf) \o Row))

dump_vma ==
    Try(Give({"start", "end"}) \o Of(1, Give({"layer"})) \o Give({"size", "output"})
        \o Each("chunks", Leave({"chunk"})) \o File)

Maps ==
    SelectedTasks(
      Need({"pid"}) \o Blank({"comm"})
      \o Areas(When("address", Need({"start", "end"}) \o Pick) \o Blank({"vm_file"})
               \o Cell({"start", "end", "pgoff", "name"}) \o When("dump", dump_vma) \o Row))

\* The maps that the dynamic linker keeps; a pointer, and any pointer can be the last.
walk_link_maps ==
    Each("link maps", Leave({"l_addr", "l_name"}) \o Try(Give({"text"}) \o Row) \o Link({"l_next"}))
link_maps ==
    Try(Give({"header"})
        \o Each("headers",
             Need({"p_type"}) \o Pick \o Need({"p_vaddr"})
             \o Each("dynamic", Leave({"d_tag"}) \o Pick
                      \o Try(Give({"d_ptr", "r_map"}) \o walk_link_maps))))

LibraryList ==
    SelectedTasks(
      Need({"pid"}) \o Blank({"comm"}) \o Need({"layer"}) \o Areas(Need({"start"}) \o link_maps))

\* A file without a path is listed, unless there is no path as the root is damaged: then
\* the whole listing is cut short.
LinuxLsof ==
    SelectedTasks(
      Need({"pid"}) \o Blank({"comm"})
      \o Each("open files",
           Blank({"path"}) \o Of(1, Tell({"root"}))
           \o Cell({"inode", "i_sb", "i_ino", "i_mode", "times", "i_size"}) \o Row))

Ptrace ==
    SelectedTasks(
      Need({"pid"}) \o Blank({"parent", "ptrace"}) \o Pick
      \o Each("ptraced", Need({"tracee"}) \o Of(1, Cell({"comm"})) \o Row))

\* A word of the stack that cannot be read is stepped over.
PsCallStack ==
    kernel_module \o Must({"kallsyms"}) \o Must({"tasks"})
    \o Each("tasks",
         selected \o Blank({"comm"}) \o Unless("kernel thread", Need({"layer"}))
         \o Need({"stack", "sp"}) \o Pick \o Each("words", Need({"word"}) \o Pick \o Row))

\* The tasks of the table of identifiers: an IDR, or before 4.15 chains of hashes.
hashed_upids ==
    Must({"pidhash_shift", "pid_hash", "hlist_head"})
    \o Each("buckets",
         Need({"first"}) \o Each("nodes", Leave({"upid"}) \o Row \o Link({"pid_chain"})))
PidHashTable ==
    kernel_module \o Must({"pid", "task_struct"})
    \o When("idr", Must({"init_pid_ns", "idr_rt", "entries"}))
    \o Unless("idr", Must({"upids"}))
    \o Each("identifiers",
         Need({"numbers", "first", "tid", "parent", "tgid"}) \o Pick \o Cell({"ppid", "comm"}) \o Row)

(* The kernel and its modules.                                             *)

Lsmod == kernel_module \o Must({"list of modules"}) \o module_rows

ModuleExtract ==
    kernel_module \o Quit({"base"}) \o Must({"module"}) \o Quit({"sections"}) \o Blank({"name"})
    \o Quit({"output"}) \o File \o Row

Kthreads ==
    kernel_module \o Blank({"resolver"}) \o Must({"kthread"}) \o Tell({"threadfn member"})
    \o Must({"tasks"})
    \o Each("tasks",
         Pick \o Need({"worker_private", "kthread of the task", "threadfn"}) \o Pick
         \o Blank({"comm", "full_name"}) \o Cell({"tid", "module of it"}) \o Row)

Ebpf ==
    kernel_module \o Tell({"prog_idr"}) \o Must({"idr", "bpf_prog", "idr_rt", "entries"})
    \o Each("programs", Cell({"aux", "name", "tag", "type"}) \o Row)

\* A tree of resources, two levels of it: a child, its siblings, and theirs.
emit_resource(below) == Blank({"name"}) \o Cell({"start", "end"}) \o Row \o below
IoMem ==
    kernel_module \o Must({"iomem_resource"})
    \o emit_resource(Each("child", emit_resource(Each("child", emit_resource(Link({"sibling"}))))
                                   \o Link({"sibling"})))

\* A time namespace is listed once; without the kernel's boot time there is nothing.
BootTime ==
    kernel_module \o Quit({"boot time"}) \o Must({"tasks"})
    \o Each("tasks", Cell({"time_ns"}) \o Pick \o Blank({"offsets"}) \o Cell({"timespec"}) \o Row)

(* Networks.                                                               *)

Devices(body) ==
    kernel_module \o Must({"net_namespace_list"})
    \o Each("namespaces", Cell({"inum"}) \o Each("devices", body))

LinuxAddr ==
    Devices(Blank({"mac", "flags", "operstate"})
      \o Each("addresses", Of(1, Cell({"ifindex", "name"})) \o Row))

LinuxLink ==
    Devices(Blank({"flags", "operstate"})
      \o Cell({"name", "mac", "mtu", "qdisc", "tx_queue_len"}) \o Row)

(* Mounts.                                                                 *)

\* The mount of the closest group that propagates to this one: it gives up with zero.
peer_under_root == Each("peers", Blank({"mnt_ns", "mnt_root", "mnt_mountpoint"}) \o Link({"mnt_share"}))
dominating_id ==
    Try(Give({"fs", "mnt_ns of it"}) \o Each("masters", peer_under_root \o Link({"mnt_master"})))

describe_mount ==
    Need({"mnt", "mnt_root", "path"}) \o Pick \o Need({"mnt_sb", "s_dev"})
    \o Blank({"mnt_flags", "mnt_group_id"}) \o When("master", dominating_id)
    \o Blank({"s_flags", "s_type", "s_subtype", "devname", "mnt_parent", "dentry"})

MountInfo ==
    kernel_module \o Must({"tasks"})
    \o Each("tasks",
         Need({"pid"}) \o Pick \o Need({"fs", "nsproxy", "mnt_ns"}) \o Cell({"ns id"}) \o Pick
         \o Each("mounts", describe_mount \o Blank({"mnt_id"}) \o Pick \o Row))

(* The history of a shell.                                                 *)

validate_entry == Need({"line", "timestamp"}) \o Pick
\* The history of one shell that cannot be searched drops those of the others.
recover_history ==
    Must({"hist_entry", "layer", "heap", "scan for marks", "scan for entries"})
    \o Each("hits", validate_entry \o Row)
LinuxBash ==
    kernel_module \o Must({"bash symbols"}) \o Must({"tasks"})
    \o Each("tasks", selected \o Need({"pid"}) \o Blank({"comm"}) \o Pick \o recover_history)

(* The log of the kernel.                                                  *)

record_lines == Try(Give({"text_blk_lpos", "text_len", "text"}) \o Each("lines", Row))
\* The identifier of the newest record is read again before every record.
Kmsg ==
    kernel_module \o Must({"prb", "desc_ring", "text_data_ring", "tail_id"})
    \o Each("records",
         Must({"head_id"}) \o Blank({"state_var"}) \o Pick
         \o Blank({"facility", "level", "ts_nsec"}) \o Cell({"caller_id"}) \o record_lines)

(* Scans of processes.                                                     *)

VmaRegExScan ==
    SelectedTasks(
      Need({"pid"}) \o Blank({"comm"}) \o Need({"layer"}) \o Blank({"areas"}) \o Pick
      \o Must({"scan"}) \o Each("hits", Blank({"data"}) \o Row))

VmaYaraScan ==
    kernel_module \o Tell({"rules"}) \o Must({"tasks"})
    \o Each("tasks",
         selected \o Need({"pid", "layer"})
         \o Areas(Need({"start", "end"}) \o Pick \o Need({"data"})
                  \o Each("matches", Cell({"match"}) \o Row)))

read_note == Need({"header", "payload"}) \o Pick \o Need({"lines"})
VmCoreInfo == Must({"scan"}) \o Each("notes", read_note \o Each("pairs", Row))

(* Framebuffers.                                                           *)

parse_framebuffer == Blank({"fix", "var", "screen_base", "state"})
dump_framebuffer == Cell({"pixels", "output"}) \o File
Fbdev ==
    kernel_module \o Quit({"num_registered_fb"}) \o Must({"registered_fb", "fb_info"})
    \o Each("framebuffers",
         Need({"pointer"}) \o Pick \o parse_framebuffer \o When("dump", dump_framebuffer)
         \o Cell({"dev"}) \o Row)

(* Tracing.                                                                *)

filter_entries(body) ==
    Blank({"filter_hash", "buckets"}) \o Each("entries", Leave({"ip"}) \o body \o Link({"hlist"}))
CheckFtrace ==
    kernel_module \o Blank({"resolver"}) \o Quit({"ftrace_ops_list symbol"})
    \o Must({"ftrace_ops_list", "ftrace_ops", "ftrace_func_entry"})
    \o Each("ftrace_ops",
         Leave({"func"}) \o Cell({"module"}) \o Blank({"flags"}) \o filter_entries(Row)
         \o Link({"next"}))

\* The array of pointers ends at the first that cannot be read.
CheckTracepoints ==
    kernel_module \o Blank({"resolver"}) \o Must({"tracepoints_ptrs", "tracepoint", "tracepoint_func"})
    \o Each("tracepoints",
         Leave({"pointer"}) \o Pick \o Blank({"name"}) \o Need({"funcs"}) \o Pick
         \o Each("probes", Leave({"func"}) \o Cell({"module", "prio"}) \o Row))

PerfEvents ==
    kernel_module \o Must({"tasks"})
    \o Each("tasks",
         Need({"pid"}) \o Blank({"comm"}) \o Need({"perf_event_ctxp"})
         \o Each("event_list", Blank({"attr", "prog"}) \o Cell({"aux"}) \o Row))

(* Signs of malware.                                                       *)

CheckAfInfo ==
    kernel_module \o Blank({"resolver"})
    \o Each("protocols",
         Need({"seq_afinfo", "seq_ops"}) \o Each("members", Need({"handler"}) \o Pick \o Row))

\* A credential structure is listed when two processes have it.
CheckCreds ==
    kernel_module \o Must({"tasks"}) \o Each("tasks", Need({"pid", "cred"}) \o Pick \o Row)

CheckIdt ==
    kernel_module \o Blank({"resolver"}) \o Must({"idt_table"})
    \o Each("gates", Need({"gate"}) \o Cell({"module", "symbol"}) \o Row)

CheckModules ==
    kernel_module \o Must({"list of modules", "module_kset"}) \o module_rows
sysfs_modules ==
    Must({"module_kset", "list"}) \o Each("kobjects", Need({"mod"}) \o Row)

CheckSyscall ==
    kernel_module \o Blank({"resolver"}) \o Must({"symbols"})
    \o Each("tables", Need({"table symbol"}) \o Pick
         \o Each("entries", Need({"entry"}) \o Cell({"symbol"}) \o Row))

HiddenModules ==
    kernel_module \o Must({"producer of the symbols", "list of modules", "module", "allocation range"})
    \o Each("addresses", Need({"mkobj.mod"}) \o Pick \o module_rows)

KeyboardNotifiers ==
    kernel_module \o Blank({"resolver"}) \o Must({"keyboard_notifier_list", "notifier_block"})
    \o Each("blocks", Leave({"notifier_call"}) \o Try(Cell({"module", "symbol"}) \o Row) \o Link({"next"}))

\* An area is looked at page by page; a page that is not there ends the look.
is_suspicious == Need({"protection", "start", "end"}) \o Pick
dirty_pages(body) == Each("pages", Leave({"page"}) \o Pick \o body)
LinuxMalfind ==
    SelectedTasks(
      Need({"pid"}) \o Blank({"comm"}) \o Need({"layer"})
      \o Areas(is_suspicious \o Cell({"vm_file"})
               \o When("dump-page", dirty_pages(Blank({"data"}) \o Of(1, Cell({"end"})) \o Row))
               \o Unless("dump-page", Blank({"data"}) \o Cell({"end"}) \o Row)))

ModxView ==
    kernel_module \o Must({"list of modules", "module_kset", "scan", "module"})
    \o Each("modules", Cell({"name", "taints"}) \o Row)

\* Four tables of hooks for each network namespace.
Netfilter ==
    kernel_module \o Blank({"resolver", "nf_hook_entry"}) \o Must({"net_namespace_list"})
    \o Each("namespaces",
         Blank({"inum"}) \o Need({"nf"})
         \o Each("tables", Need({"table"})
              \o Each("hooks", Need({"entry", "num_hook_entries", "hooks of it"}) \o Pick
                   \o Each("operations", Need({"pointer"}) \o Pick \o Need({"hook"})
                        \o Blank({"priority"}) \o Cell({"module", "symbol"}) \o Row))))

executable_path == Cell({"exe_file"})
command_line_basename == Cell({"mm", "layer", "arg_start", "arg_end", "arguments"})
ProcessSpoofing ==
    SelectedTasks(executable_path \o command_line_basename \o Cell({"comm", "ppid"}) \o Row)

TtyCheck ==
    kernel_module \o Blank({"resolver"}) \o Must({"tty_drivers"})
    \o Each("drivers",
         Blank({"num"}) \o Need({"ttys"}) \o Pick
         \o Each("ttys", Need({"tty"}) \o Pick \o Need({"tty_struct", "receive_buf"}) \o Pick
              \o Cell({"module", "symbol"}) \o Blank({"name"}) \o Row))

(* Sockets.                                                                *)

\* What a family needs: a part that is not there leaves the socket out, or the cell.
unix_name == Need({"addr", "name"})
socket_inode == Need({"sk_socket", "i_ino"})
inet_address == Cell({"saddr", "daddr", "sport", "dport"})
socket_filter == Cell({"sk_filter"})
describe_socket ==
    Need({"skc_family"}) \o Blank({"sk_type"})
    \o When("unix", unix_name \o socket_inode \o Need({"peer"}))
    \o Unless("unix", inet_address \o Cell({"sk_protocol"}))
    \o Need({"state"}) \o socket_filter

socket_of == Need({"socket_alloc", "sk"})
Sockstat ==
    SelectedTasks(
      Need({"pid"}) \o Blank({"comm"}) \o Cell({"net_ns"})
      \o Each("open files",
           Of(1, Tell({"root"})) \o Need({"f_op"}) \o Pick \o Need({"dentry", "d_inode"})
           \o socket_of \o describe_socket \o Pick \o Row))

\* A descriptor that leads to memory that is not mapped ends the scan, which says so.
walk_descriptor ==
    Need({"f_path", "d_inode"}) \o Tell({"vfs_inode"}) \o Need({"sk", "page of sk"})
Sockscan ==
    kernel_module \o Quit({"needles"}) \o Must({"sock", "file", "scan"}) \o Blank({"net_ns"})
    \o Each("hits",
         Need({"pointer"}) \o When("file operations", walk_descriptor)
         \o Pick \o describe_socket \o Row)

(* Files in the page cache.                                                *)

live_inode == Need({"d_inode", "i_ino"}) \o Pick
cacheable_inode == Give({"d_inode", "i_mapping"})
walk_dentries(body) ==
    Each("children",
      live_inode \o Need({"d_name"}) \o Blank({"name"})
      \o Try(Give({"i_mapping"}) \o body))

\* The inodes of the file systems that are mounted: the root of each and, one level
\* after the other, what is in a directory.
cached_inodes(body) ==
    Must({"mounts"})
    \o Each("mounts",
         Need({"mnt", "path"}) \o Pick \o Need({"mnt_sb", "s_root", "d_parent"}) \o Pick
         \o Try(cacheable_inode \o body) \o walk_dentries(body))

inode_row == Blank({"i_size", "nrpages", "s_dev", "i_mode"}) \o Cell({"times"}) \o Row
Files == kernel_module \o cached_inodes(Pick \o inode_row)

\* A page that makes no sense ends the list of pages, and the log says so.
cached_pages(body) ==
    Blank({"i_size", "i_mapping", "i_pages", "entries"})
    \o Each("pages", Leave({"page", "owner"}) \o Blank({"index", "flags"}) \o body)
write_inode_contents ==
    Each("pages to write", Pick \o Need({"content"}) \o Pick \o Give({"output"})) \o File
InodePages ==
    kernel_module \o Quit({"path"}) \o Must({"inode"}) \o Quit({"i_ino", "i_mode"})
    \o When("dump", Try(write_inode_contents))
    \o cached_pages(Pick \o Row)

recovered_contents == Each("pages", Leave({"page"}) \o Pick \o Need({"content"}))
RecoverFs ==
    kernel_module
    \o cached_inodes(
         Pick \o Need({"s_type"}) \o Pick \o Blank({"s_uuid"}) \o recovered_contents
         \o Need({"i_link"}) \o inode_row)
    \o Try(Give({"output"}) \o File)

(* The symbols that the running kernel knows of itself.                    *)

read_tokens == Must({"token_index", "token_table"})
load_table == Must({"num_syms", "names", "token_table symbol", "token_index symbol"})
\* A name is found by the length of the one before it.
decode_table(body) ==
    read_tokens \o Each("core symbols", Link({"length"}) \o Pick \o Link({"tokens"}) \o Need({"address"}) \o body)
emit_core == decode_table(Blank({"end"}) \o Row)

lookup_exported == Blank({"num_syms of it", "syms", "name of the candidate"})
emit_modules ==
    Must({"list of modules"})
    \o Each("modules",
         Blank({"name"}) \o Need({"kallsyms", "strtab", "symtab"}) \o Blank({"num_symtab"}) \o Pick
         \o Each("module symbols",
              Need({"entry", "name of it"}) \o Pick \o lookup_exported \o Cell({"typetab"}) \o Row))

emit_ftrace ==
    Each("ftrace_mod_maps",
      Need({"funcs"})
      \o Each("functions", Need({"name", "ip"}) \o Blank({"size"}) \o Of(1, Blank({"mod"})) \o Row))
    \o Each("trampolines", Need({"trampoline"}) \o Blank({"trampoline_size"}) \o Row)

emit_bpf ==
    Each("bpf_kallsyms",
      When("bpf_ksym", Need({"name", "start"}) \o Blank({"end"}))
      \o Unless("bpf_ksym", Need({"prog"}) \o Blank({"aux"}) \o Need({"bpf_func"}) \o Blank({"jited_len"}))
      \o Row)

\* The core table is decoded before anything is listed, and the others after it is.
Kallsyms ==
    kernel_module \o Blank({"resolver"}) \o When("core", load_table \o emit_core)
    \o When("others", emit_modules \o emit_ftrace \o emit_bpf)

=============================================================================
