------------------------------ MODULE MCListing -----------------------------
(***************************************************************************)
(* Every plugin and shared reader of the listings, each with two items to  *)
(* a list.  The parts that several of them share have no row of their own  *)
(* and are not run alone.                                                  *)
(***************************************************************************)
EXTENDS TLC, Listing, LinuxListings, LinuxKernel, MacListings, WindowsKernel, WindowsListings, WindowsScans, WindowsTraces, RegistryListings

InLinuxListings ==
    [LinuxPsList |-> LinuxPsList, LinuxPsTree |-> LinuxPsTree, LinuxPsScan |->
     LinuxPsScan, LinuxPsAux |-> LinuxPsAux, LinuxEnvars |-> LinuxEnvars, Capabilities
     |-> Capabilities, Elfs |-> Elfs, Maps |-> Maps, LibraryList |-> LibraryList,
     LinuxLsof |-> LinuxLsof, Ptrace |-> Ptrace, PsCallStack |-> PsCallStack,
     hashed_upids |-> hashed_upids, PidHashTable |-> PidHashTable, Lsmod |-> Lsmod,
     ModuleExtract |-> ModuleExtract, Kthreads |-> Kthreads, Ebpf |-> Ebpf, IoMem |->
     IoMem, BootTime |-> BootTime, LinuxAddr |-> LinuxAddr, LinuxLink |-> LinuxLink,
     MountInfo |-> MountInfo, LinuxBash |-> LinuxBash, Kmsg |-> Kmsg, VmaRegExScan |->
     VmaRegExScan, VmaYaraScan |-> VmaYaraScan, VmCoreInfo |-> VmCoreInfo, Fbdev |->
     Fbdev, CheckFtrace |-> CheckFtrace, CheckTracepoints |-> CheckTracepoints,
     PerfEvents |-> PerfEvents, CheckAfInfo |-> CheckAfInfo, CheckCreds |-> CheckCreds,
     CheckIdt |-> CheckIdt, CheckModules |-> CheckModules, sysfs_modules |->
     sysfs_modules, CheckSyscall |-> CheckSyscall, HiddenModules |-> HiddenModules,
     KeyboardNotifiers |-> KeyboardNotifiers, LinuxMalfind |-> LinuxMalfind, ModxView
     |-> ModxView, Netfilter |-> Netfilter, ProcessSpoofing |-> ProcessSpoofing,
     TtyCheck |-> TtyCheck, Sockstat |-> Sockstat, Sockscan |-> Sockscan, Files |->
     Files, InodePages |-> InodePages, RecoverFs |-> RecoverFs, Kallsyms |-> Kallsyms]

InLinuxKernel ==
    [list_tasks_filtered |-> list_tasks_filtered, creation_time |-> creation_time,
     process_layer |-> process_layer, heap_sections |-> heap_sections, environment |->
     environment, open_files |-> open_files, capabilities |-> capabilities,
     maple_tree_slots |-> maple_tree_slots, xarray_entries |-> xarray_entries,
     radix_tree_entries |-> radix_tree_entries, rbtree_nodes |-> rbtree_nodes,
     walk_hlist |-> walk_hlist, vmas |-> vmas, device_and_inode |-> device_and_inode,
     core_size |-> core_size, init_size |-> init_size, module_allocation_range |->
     module_allocation_range, scan_modules |-> scan_modules, kset_modules |->
     kset_modules, list_modules |-> list_modules, load_parameters |-> load_parameters,
     attribute_count |-> attribute_count, extract_module |-> extract_module,
     ModuleResolver |-> ModuleResolver, mount_points |-> mount_points, resolve_path |->
     resolve_path, dentry_path |-> dentry_path, mount_path_start |-> mount_path_start,
     special_dentry_name |-> special_dentry_name, list_net_namespaces |->
     list_net_namespaces, list_net_devices |-> list_net_devices, mac_address |->
     mac_address, flag_names |-> flag_names, ipv4_addresses |-> ipv4_addresses,
     ipv6_addresses |-> ipv6_addresses, list_tasks_by_children |->
     list_tasks_by_children, boot_time_timespec |-> boot_time_timespec, taint_letters
     |-> taint_letters]

InMacListings ==
    [by_tasks |-> by_tasks, by_allproc |-> by_allproc, by_sessions |-> by_sessions,
     by_process_group |-> by_process_group, by_pid_hash_table |-> by_pid_hash_table,
     MacPsList |-> MacPsList, MacPsTree |-> MacPsTree, MacPsAux |-> MacPsAux, MacBash
     |-> MacBash, process_layer_of_proc |-> process_layer_of_proc, file_descriptors |->
     file_descriptors, MacLsof |-> MacLsof, vnode_full_path |-> vnode_full_path,
     vnode_map_path |-> vnode_map_path, list_mounts |-> list_mounts, MacMount |->
     MacMount, ListFiles |-> ListFiles, vm_map_entries |-> vm_map_entries, vnode_handle
     |-> vnode_handle, MacMaps |-> MacMaps, MacMalfind |-> MacMalfind, MacNetStat |->
     MacNetStat, format_sockaddr_dl |-> format_sockaddr_dl, IfConfig |-> IfConfig,
     list_extensions |-> list_extensions, ExtensionResolver |-> ExtensionResolver,
     MacLsmod |-> MacLsmod, TrustedBsd |-> TrustedBsd, SocketFilters |-> SocketFilters,
     VfsEvents |-> VfsEvents, KauthScopes |-> KauthScopes, KauthListeners |->
     KauthListeners, CheckTrapTable |-> CheckTrapTable, MacCheckSyscall |->
     MacCheckSyscall, CheckSysctl |-> CheckSysctl, walk_klist_array |->
     walk_klist_array, Kevents |-> Kevents, MacTimers |-> MacTimers, Dmesg |-> Dmesg]

InWindowsKernel ==
    [win_list_processes |-> win_list_processes, session_id |-> session_id, address_space
     |-> address_space, command_line |-> command_line, image_path |-> image_path, peb32
     |-> peb32, format_sid |-> format_sid, sids |-> sids, privileges |-> privileges,
     object_header |-> object_header, header_name |-> header_name, header_name_checked
     |-> header_name_checked, WindowsModuleResolver |-> WindowsModuleResolver,
     ModuleCollection |-> ModuleCollection, parse_pe |-> parse_pe, pe_sections |->
     pe_sections, data_directory |-> data_directory, imports |-> imports, exports |->
     exports, directory_entries |-> directory_entries, directory_entry |->
     directory_entry, resource_data |-> resource_data, version_info |-> version_info,
     reconstruct |-> reconstruct, pool_scan |-> pool_scan, carve |-> carve,
     generate_pool_scan |-> generate_pool_scan, object_type_map |-> object_type_map,
     header_cookie |-> header_cookie, object_type_of_header |-> object_type_of_header,
     object_type_of |-> object_type_of, list_hive_objects |-> list_hive_objects,
     hive_object_name |-> hive_object_name, open_hive |-> open_hive, class_name |->
     class_name, value_data |-> value_data, decode_value |-> decode_value,
     read_cell_name |-> read_cell_name, read_key |-> read_key, read_subkey_list |->
     read_subkey_list, subkeys |-> subkeys, key_values |-> key_values, walk_keys |->
     walk_keys, process_offset |-> process_offset, physical_offset_from_virtual |->
     physical_offset_from_virtual, load_companion_module |-> load_companion_module,
     selected_processes |-> selected_processes]

InWindowsListings ==
    [WinPsList |-> WinPsList, PsScan |-> PsScan, virtual_process_from_physical |->
     virtual_process_from_physical, os_version |-> os_version, WinPsTree |-> WinPsTree,
     WinCmdLine |-> WinCmdLine, read_environment |-> read_environment, WinEnvars |->
     WinEnvars, Sessions |-> Sessions, load_order_modules |-> load_order_modules,
     DllList |-> DllList, session_layers |-> session_layers, WinModules |-> WinModules,
     ModScan |-> ModScan, layer_depths |-> layer_depths, debugger_data_block |->
     debugger_data_block, Info |-> Info, handles |-> handles, full_key_name |->
     full_key_name, file_name_with_device |-> file_name_with_device, Handles |->
     Handles, walk_vad_tree |-> walk_vad_tree, file_name |-> file_name, protect_values
     |-> protect_values, VadInfo |-> VadInfo, VadWalk |-> VadWalk, control_area |->
     control_area, file_object |-> file_object, MemMap |-> MemMap, collapse_runs |->
     collapse_runs, determine_map |-> determine_map, VirtMap |-> VirtMap, Statistics |->
     Statistics, user_names |-> user_names, GetServiceSids |-> GetServiceSids, GetSids
     |-> GetSids, Privileges |-> Privileges, thread_owner |-> thread_owner, ThrdScan |->
     ThrdScan, Threads |-> Threads, OrphanKernelThreads |-> OrphanKernelThreads,
     SuspendedThreads |-> SuspendedThreads, SvcList |-> SvcList, SvcDiff |-> SvcDiff,
     list_kpcrs |-> list_kpcrs, Kpcrs |-> Kpcrs, Ssdt |-> Ssdt, DriverIrp |-> DriverIrp]

InWindowsScans ==
    [write_pages |-> write_pages, gather_control_area_pages |->
     gather_control_area_pages, gather_cache_map_views |-> gather_cache_map_views,
     walk_index |-> walk_index, DumpFiles |-> DumpFiles, FileScan |-> FileScan,
     MutantScan |-> MutantScan, SymlinkScan |-> SymlinkScan, scan_drivers |->
     scan_drivers, DriverScan |-> DriverScan, PoolScanner |-> PoolScanner,
     kernel_space_start |-> kernel_space_start, UnloadedModules |-> UnloadedModules,
     list_big_pools |-> list_big_pools, BigPools |-> BigPools, device_chain |->
     device_chain, attached_chain |-> attached_chain, DeviceTree |-> DeviceTree,
     prerequisites |-> prerequisites, service_table |-> service_table,
     controller_processes |-> controller_processes, executable_range |->
     executable_range, traverse |-> traverse, service_cells |-> service_cells,
     service_scan |-> service_scan, service_list |-> service_list, SvcScan |-> SvcScan,
     registry_services |-> registry_services, registry_string |-> registry_string,
     service_dll |-> service_dll, callback_table |-> callback_table, notify_routines |->
     notify_routines, bugcheck_callbacks |-> bugcheck_callbacks, registry_callbacks |->
     registry_callbacks, shutdown_packet |-> shutdown_packet, driver_name |->
     driver_name, scan |-> scan, Callbacks |-> Callbacks, JobLinks |-> JobLinks, PeDump
     |-> PeDump, ordinal_name |-> ordinal_name, Iat |-> Iat, truecrypt_base |->
     truecrypt_base, Passphrase |-> Passphrase, VadYaraScan |-> VadYaraScan,
     VadRegExScan |-> VadRegExScan]

InWindowsTraces ==
    [console_key_values |-> console_key_values, console_settings |-> console_settings,
     host_image |-> host_image, console_hosts |-> console_hosts, conhost_table |->
     conhost_table, scan_console_information |-> scan_console_information,
     command_string |-> command_string, command_count |-> command_count, bucket_commands
     |-> bucket_commands, history_properties |-> history_properties, console_properties
     |-> console_properties, screen_row |-> screen_row, console_screens |->
     console_screens, screen_buffer |-> screen_buffer, row_text |-> row_text, Consoles
     |-> Consoles, CmdScan |-> CmdScan, gui_table |-> gui_table, scan_gui_objects |->
     scan_gui_objects, station_info |-> station_info, scan_window_stations |->
     scan_window_stations, WindowStations |-> WindowStations, desktop_threads |->
     desktop_threads, Desktops |-> Desktops, DeskScan |-> DeskScan, walk_windows |->
     walk_windows, window_process |-> window_process, window_name |-> window_name,
     Windows |-> Windows, netscan_table |-> netscan_table, NetScan |-> NetScan,
     driver_image |-> driver_image, partitions |-> partitions, port_pools |->
     port_pools, pool_ports |-> pool_ports, sockets_on_port |-> sockets_on_port, NetStat
     |-> NetStat, enumerate_records |-> enumerate_records, attributes |-> attributes,
     file_name_of_record |-> file_name_of_record, longest_file_name |->
     longest_file_name, ensure |-> ensure, resident_content |-> resident_content,
     MftScan |-> MftScan, Ads |-> Ads, ResidentData |-> ResidentData,
     process_file_ranges |-> process_file_ranges, resolve_wanted |-> resolve_wanted,
     module_symbols |-> module_symbols, module_debug_info |-> module_debug_info,
     kernel_module_instances |-> kernel_module_instances, process_module_instances |->
     process_module_instances, PeSymbols |-> PeSymbols]

InRegistryListings ==
    [HiveList |-> HiveList, HiveScan |-> HiveScan, GetCellRoutine |-> GetCellRoutine,
     PrintKey |-> PrintKey, parse_properties |-> parse_properties, Certificates |->
     Certificates, UserAssist |-> UserAssist, Amcache |-> Amcache, decode_email |->
     decode_email, decode_actions |-> decode_actions, decode_optional_settings |->
     decode_optional_settings, decode_generic_trigger |-> decode_generic_trigger,
     decode_event_trigger |-> decode_event_trigger, decode_schedule |-> decode_schedule,
     decode_triggers |-> decode_triggers, decode_dynamic_info |-> decode_dynamic_info,
     task_rows |-> task_rows, collect_names |-> collect_names, ScheduledTasks |->
     ScheduledTasks, read_bootkey |-> read_bootkey, read_domain_key |-> read_domain_key,
     lsa_key |-> lsa_key, read_policy |-> read_policy, read_nlkm |-> read_nlkm,
     read_users |-> read_users, decrypt_user |-> decrypt_user, HashDump |-> HashDump,
     LsaDump |-> LsaDump, decode_entry |-> decode_entry, CacheDump |-> CacheDump]

Programs == InLinuxListings @@ InLinuxKernel @@ InMacListings @@ InWindowsKernel @@ InWindowsListings @@ InWindowsScans @@ InWindowsTraces @@ InRegistryListings
AllPlugins == LET all == Programs IN all

\* One damaged item hides others here: README, "Plugins that hide or drop".
MCHiding ==
    {"CheckFtrace", "CheckSysctl", "CheckTracepoints", "InodePages", "KeyboardNotifiers",
     "LibraryList", "LinuxEnvars", "LinuxMalfind", "format_sockaddr_dl", "hashed_upids",
     "taint_letters", "directory_entry", "imports", "object_type_map", "sids", "MemMap",
     "DeviceTree", "JobLinks", "host_image", "screen_buffer", "HashDump", "LsaDump",
     "PrintKey", "service_list", "service_scan", "traverse"}

\* An error drops what had been found.
MCDropping ==
    {"ExtensionResolver", "Kallsyms", "Kmsg", "LinuxBash", "MacBash", "VmaRegExScan",
     "VadRegExScan", "dentry_path", "determine_map", "maple_tree_slots", "xarray_entries",
     "exports", "imports", "pe_sections", "read_subkey_list", "read_users",
     "selected_processes", "service_list", "service_scan", "subkeys", "Info", "MemMap"}
=============================================================================
