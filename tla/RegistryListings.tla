-------------------------- MODULE RegistryListings --------------------------
(***************************************************************************)
(* The plugins that read the registry hives of a Windows image, in the     *)
(* words of ListingSteps.  How the hives are found and how keys and values *)
(* are read out of their cells is in WindowsKernel.                        *)
(***************************************************************************)
EXTENDS ListingSteps

reg_kernel == Must({"kernel"}) \o Must({"CmpHiveListHead", "hives"})

(* The hives.                                                              *)

\* Up to the first hive whose signature is wrong.
hive_chain == Quit({"head"}) \o Each("hives", Link({"links"}) \o Quit({"Signature"}) \o Row)
\* A path with no key for one of its parts, or with one that cannot be read, has no key.
find_key == Quit({"root"}) \o Each("parts", Quit({"subkeys"}) \o Quit({"name"})) \o Row

\* The first hive that cannot be written ends the listing, with the error told.
dump_hive == Tell({"hive", "output", "base block"}) \o Each("chunks", Tell({"output"})) \o File
HiveList ==
    reg_kernel
    \o Each("hives", Pick \o Blank({"path"}) \o When("dump", dump_hive) \o Row)
HiveScan == Must({"kernel"}) \o Must({"pool scan"}) \o Each("hits", Row)

\* An address that no module holds is one that is reported.
GetCellRoutine ==
    Must({"kernel"}) \o Blank({"modules"}) \o Must({"CmpHiveListHead", "hives"})
    \o Each("hives", Need({"GetCellRoutine"}) \o Pick \o Cell({"name", "module"}) \o Row)

(* Keys.                                                                   *)

\* What cannot be read ends the listing of the hive.  A row says so, and comes after
\* those that were there already.
list_node ==
    Try(Give({"last write time", "subkeys"})
        \o Each("children",
             Give({"last write time of it"}) \o Cell({"name"}) \o Row
             \o When("recurse",
                  Need({"name"}) \o Give({"subkeys of it"})
                  \o Each("children of it", Give({"last write time of it"}) \o Cell({"name"}) \o Row)
                  \o Give({"values of it"})))
        \o Give({"values"}) \o Each("values", Cell({"name", "data"}) \o Row))
PrintKey ==
    reg_kernel
    \o Each("hives", Pick \o Need({"hive"}) \o Try(Give({"root", "key"}) \o list_node))

(* Programs and users.                                                     *)

\* A record ends where the next begins.
parse_properties == Each("properties", Link({"length"}) \o Blank({"value"}) \o Row)
certificate_rows ==
    Each("values",
      Need({"data"}) \o Pick
      \o When("dump", Try(Give({"certificate"}) \o Blank({"output"}) \o File)) \o Row)
Certificates ==
    reg_kernel
    \o Each("hives",
         Need({"hive"})
         \o Each("stores",
              Need({"key"}) \o Each("subkeys", Need({"name"}) \o certificate_rows)
              \o certificate_rows))

\* What a value holds is shown as bytes where it makes no record.
UserAssist ==
    Must({"kernel"}) \o Must({"table of types"}) \o Blank({"version", "layout"})
    \o Must({"CmpHiveListHead", "hives"})
    \o Each("hives",
         Pick \o Need({"hive", "hive name"}) \o Need({"root"}) \o Need({"UserAssist"})
         \o Each("programs",
              Need({"name"})
              \o Each("counts",
                   Need({"name"}) \o Cell({"last write time"}) \o Row
                   \o Each("subkeys", Cell({"name"}) \o Row)
                   \o Each("values", Cell({"name", "record"}) \o Blank({"data"}) \o Row))))

\* The first hive of that name.
hive_named == reg_kernel \o Quit({"hive of that name"}) \o Quit({"root"})
amcache_entry == Blank({"values", "name"}) \o Cell({"text", "time"}) \o Row
programs == Each("programs", Need({"name"}) \o amcache_entry)
files == Each("groups", Each("files", amcache_entry))
\* A file goes below its program if that has a row, else beside the programs.
Amcache ==
    hive_named
    \o Try(Give({"InventoryDriverBinary"}) \o Each("drivers", amcache_entry))
    \o Try(Give({"Programs"}) \o programs)
    \o Try(Give({"File"}) \o files)
    \o Try(Give({"InventoryApplication"}) \o programs)
    \o Try(Give({"InventoryApplicationFile"}) \o Each("files", amcache_entry))

(* Scheduled tasks.                                                        *)

\* What a record holds is read one field after another: after one that makes no sense
\* the next record is looked for in the wrong place.
decode_email ==
    Each("fields", Blank({"field"})) \o Try(Give({"attachments"}) \o Each("attachments", Blank({"field"})))
decode_executable == Link({"command", "arguments"}) \o Blank({"working directory"})
decode_actions ==
    Quit({"version"}) \o Blank({"context"})
    \o Each("actions",
         Link({"magic"}) \o Blank({"id"})
         \o When("email", decode_email) \o Unless("email", decode_executable) \o Row)
decode_user ==
    Quit({"skip user", "skip SID"}) \o Quit({"kind", "SID"}) \o Blank({"name"}) \o Row
decode_optional_settings == Quit({"length"}) \o Quit({"fields", "privileges", "periods"}) \o Row
decode_generic_trigger ==
    Blank({"start", "end", "settings", "enabled"}) \o When("new", Blank({"id"})) \o Row
decode_event_trigger ==
    Blank({"subscription"}) \o Quit({"count"}) \o Each("queries", Blank({"name", "value"}) \o Row)
decode_schedule == Blank({"start", "mode", "enabled", "repetition"}) \o Row
decode_triggers ==
    Quit({"version", "flags", "checksum"})
    \o When("new", Blank({"principal", "display name"}))
    \o Blank({"user", "optional settings"})
    \o Each("triggers", Link({"magic"}) \o Blank({"fields"}) \o Row)
decode_dynamic_info == Quit({"magic"}) \o Blank({"created", "last run", "last success"}) \o Row

\* Every action with every trigger; a task with neither has one row.
task_rows ==
    Blank({"values"}) \o Blank({"name", "Actions", "Triggers", "DynamicInfo"})
    \o Each("actions",
         Each("triggers", Of(2, Cell({"name", "principal", "display name", "times", "context"}))
              \o Of(1, Cell({"action", "arguments", "directory"}))
              \o Cell({"trigger", "enabled", "description"}) \o Row))
collect_names ==
    Try(Give({"Id"}) \o Give({"kind", "data", "name"}) \o Row)
    \o Each("children",
         Try(Give({"Id"}) \o Give({"kind", "data", "name"}) \o Row))
ScheduledTasks ==
    hive_named \o Quit({"TaskCache"}) \o Quit({"Tasks"}) \o Blank({"Tree", "names"})
    \o Each("tasks", task_rows)

(* Secrets.                                                                *)

\* Four subkeys, the names of whose classes are the key.
read_bootkey ==
    Must({"root"}) \o Must({"Lsa", "subkeys"})
    \o Each("fragments", Must({"subkey", "class name"})) \o Must({"length", "digits"}) \o Row
read_domain_key ==
    Must({"root"}) \o Must({"Account", "F"}) \o Must({"data", "length", "revision"}) \o Row
lsa_key == Must({"length of the policy"}) \o Must({"length of what it decrypts to"}) \o Row
\* The key of the policy, of one of two kinds.
read_policy ==
    Must({"root", "Policy"}) \o Must({"subkeys of the policy"}) \o Must({"policy key"})
    \o Must({"values", "data"}) \o Must({"lsa key"}) \o Row
read_nlkm ==
    Must({"Secrets"}) \o Must({"NL$KM"}) \o Must({"CurrVal"}) \o Must({"value", "data"})
    \o Must({"secret"}) \o Row

\* One user whose values cannot be read loses all of them.
read_users ==
    Must({"root"}) \o Must({"Users", "subkeys"})
    \o Each("users",
         Need({"name"}) \o Pick \o Must({"values"}) \o Need({"V"}) \o Must({"data"})
         \o Blank({"user name"}) \o Row)
decrypt_user == Try(Give({"offset", "kind", "LM hash"})) \o Try(Give({"offset", "kind", "NT hash"})) \o Row

\* An error of any kind is a warning and an empty grid: it is no error to the caller,
\* and what rows there are counts only once all is read.
secret_hives == Quit({"kernel"}) \o Quit({"hives", "SYSTEM", "the other hive"}) \o Quit({"boot key"})
HashDump ==
    secret_hives \o Quit({"domain key"}) \o Quit({"Users"})
    \o Each("users", Need({"name"}) \o Pick \o Quit({"values"}) \o Need({"V"}) \o Quit({"data"}))
    \o Each("users", Need({"name", "V"}) \o Blank({"user name", "hashes"}) \o Row)
LsaDump ==
    secret_hives \o Quit({"policy"}) \o Quit({"Secrets", "subkeys"})
    \o Each("secrets", Need({"name"}) \o Quit({"subkeys"}) \o Need({"CurrVal"}) \o Quit({"values"}))
    \o Each("secrets", Need({"name", "CurrVal", "value"}) \o Blank({"data"}) \o Cell({"secret"}) \o Row)
decode_entry ==
    Quit({"length", "user length"}) \o Quit({"encrypted", "hash"})
    \o Blank({"user", "domain", "domain name"}) \o Row
CacheDump ==
    secret_hives \o Quit({"policy", "NL$KM"}) \o Quit({"Cache", "values"})
    \o Each("values", Need({"name"}) \o Pick \o Blank({"data"}) \o Need({"entry"}) \o Row)

=============================================================================
