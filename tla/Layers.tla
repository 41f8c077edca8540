------------------------------- MODULE Layers -------------------------------
(***************************************************************************)
(* The layers of a run (layers/mod.rs) as the run puts them together: the  *)
(* swap files, the image and the formats stacked on it                     *)
(* (automagic/stacker.rs), the kernel's address space (automagic/mod.rs),  *)
(* the name a plugin wants it under (cli/runner.rs), and the layers that   *)
(* plugins add of processes and hives.                                     *)
(*                                                                         *)
(* A name is a prefix and a number, 0 for the prefix alone.                *)
(***************************************************************************)
EXTENDS Naturals, Sequences, FiniteSets, SequencesExt

CONSTANTS
    Images,             \* an image says at each depth which formats match
    MAX_STACK_DEPTH,
    Stackers,           \* the choices of formats a run may be told to try
    MaxSwaps,           \* bound: the swap files named
    MaxAdded            \* bound: the layers that plugins add

Formats == <<"crash", "elf", "xen", "lime", "avml", "qemu", "vmware">>

LayersAssumption ==
    /\ MAX_STACK_DEPTH \in Nat /\ MaxSwaps \in Nat /\ MaxAdded \in Nat
    /\ Images \subseteq Seq(SUBSET Range(Formats))
    /\ Stackers \subseteq SUBSET Range(Formats)
ASSUME LayersAssumption

VARIABLES
    image,      \* what the file holds
    companion,  \* there is a .vmss or .vmsn file beside it
    allowed,    \* the formats tried
    wanted,     \* the plugin names the layer it works on
    held,       \* the container: layers by name, and the order of the names
    stage,
    created,    \* the layers stacked, base first
    kernel,     \* the kernel's layer, once there is one
    module      \* the layer the kernel's module reads from

vars == <<image, companion, allowed, wanted, held, stage, created, kernel, module>>

None == <<"none", 0>>
layers == held.layers
order == held.order
---------------------------------------------------------------------------
(* The container.                                                          *)

Named(h) == DOMAIN h.layers
insert(map, name, layer) ==
    [n \in {name} \cup DOMAIN map |-> IF n = name THEN layer ELSE map[n]]
without(map, name) == [n \in DOMAIN map \ {name} |-> map[n]]
retain(names, name) ==
    LET kept[i \in 0..Len(names)] ==
          IF i = 0 THEN <<>>
          ELSE IF names[i] = name THEN kept[i - 1] ELSE Append(kept[i - 1], names[i])
    IN kept[Len(names)]

\* Mutant of free_name: the prefix, free or not.
free_name_taken(h, prefix) == <<prefix, 0>>

\* The prefix alone if it is free, else the first number that is.
free_name(h, prefix) ==
    <<prefix, CHOOSE n \in 0..Cardinality(Named(h)) :
                /\ <<prefix, n>> \notin Named(h)
                /\ \A m \in 0..(n - 1) : <<prefix, m>> \in Named(h)>>

\* A name that is taken keeps its place.
add(h, name, layer) ==
    [layers |-> insert(h.layers, name, layer),
     order |-> IF name \in Named(h) THEN h.order ELSE Append(h.order, name)]

remove(h, name) ==
    [layers |-> without(h.layers, name),
     order |-> retain(h.order, name)]

\* Mutant of rename: the new name goes to the end, and the old one stays.
rename_listed(h, from, to) ==
    [layers |-> insert(without(h.layers, from), to, h.layers[from]),
     order |-> Append(h.order, to)]

\* The new name takes the old one's place.
rename(h, from, to) ==
    LET kept == retain(h.order, to) IN
      IF from \notin Named(h) THEN h
      ELSE [layers |-> insert(without(h.layers, from), to, h.layers[from]),
            order |-> IF from \in Range(kept)
                      THEN [i \in 1..Len(kept) |-> IF kept[i] = from THEN to ELSE kept[i]]
                      ELSE Append(kept, to)]

Layer(kind, on) == [kind |-> kind, on |-> on]
File(path) == Layer(path, {})
---------------------------------------------------------------------------
Init ==
    /\ image \in Images
    /\ companion \in BOOLEAN
    /\ allowed \in Stackers
    /\ wanted \in {None, <<"primary", 0>>}
    /\ held = [layers |-> <<>>, order |-> <<>>]
    /\ stage = "open"
    /\ created = <<>>
    /\ kernel = None
    /\ module = None

Chosen == <<image, companion, allowed, wanted>>

OpenSwap ==
    /\ stage = "open"
    /\ Cardinality(Named(held)) < MaxSwaps
    /\ held' = add(held, free_name(held, "swap_layer"), File("swap"))
    /\ UNCHANGED <<Chosen, stage, created, kernel, module>>

OpenImage ==
    /\ stage = "open"
    /\ LET name == free_name(held, "base_layer") IN
         /\ held' = add(held, name, File("image"))
         /\ created' = <<name>>
    /\ stage' = "stack"
    /\ UNCHANGED <<Chosen, kernel, module>>

current == Last(created)
Matching == IF Len(created) <= Len(image) THEN image[Len(created)] \cap allowed ELSE {}
\* The first in the order of Formats; vmware needs a file with a companion.
Tried(f) == f # "vmware" \/ (layers[current].kind = "image" /\ companion)
Found == {i \in DOMAIN Formats : Formats[i] \in Matching /\ Tried(Formats[i])}
IsFirst(i) == i \in Found /\ \A j \in Found : i <= j

\* Mutant of StackOne: the companion is opened after the layer that rests on it.
StackOneCompanionLast ==
    /\ stage = "stack" /\ Len(created) <= MAX_STACK_DEPTH
    /\ \E i \in DOMAIN Formats :
         LET format == Formats[i]
             name == free_name(held, "memory_layer")
             meta == free_name(held, "meta_layer")
             on == {current} \cup (IF format = "vmware" THEN {meta} ELSE {})
             stacked == add(held, name, Layer(format, on))
         IN /\ IsFirst(i)
            /\ held' = IF format = "vmware" THEN add(stacked, meta, File("meta")) ELSE stacked
            /\ created' = Append(created, name)
    /\ UNCHANGED <<Chosen, stage, kernel, module>>

\* try_stack_one.  The companion of an image that is no vmware image after all is
\* opened and removed on the way.
StackOne ==
    /\ stage = "stack" /\ Len(created) <= MAX_STACK_DEPTH
    /\ \E i \in DOMAIN Formats :
         LET format == Formats[i]
             name == free_name(held, "memory_layer")
             meta == free_name(held, "meta_layer")
             opened == IF format = "vmware" THEN add(held, meta, File("meta")) ELSE held
             on == {current} \cup (IF format = "vmware" THEN {meta} ELSE {})
         IN /\ IsFirst(i)
            /\ held' = add(opened, name, Layer(format, on))
            /\ created' = Append(created, name)
    /\ UNCHANGED <<Chosen, stage, kernel, module>>

\* Mutant of StopStacking: the companion stays although the format did not match.
StopStackingStray ==
    LET name == free_name(held, "memory_layer")
        meta == free_name(held, "meta_layer")
    IN  /\ stage = "stack"
        /\ Found = {} \/ Len(created) > MAX_STACK_DEPTH
        /\ created' = IF Len(created) = 1 THEN <<name>> ELSE created
        /\ held' =
             IF Len(created) = 1
             THEN remove(add(IF Tried("vmware") THEN add(held, meta, File("meta")) ELSE held,
                             name, File("image")), current)
             ELSE held
        /\ stage' = "windows"
        /\ UNCHANGED <<Chosen, kernel, module>>

\* Nothing more matches.  A file with nothing on it takes the name that the layer of
\* a format would have.
StopStacking ==
    LET meta == free_name(held, "meta_layer")
        tried == IF "vmware" \in allowed /\ Tried("vmware") /\ Len(created) <= MAX_STACK_DEPTH
                 THEN remove(add(held, meta, File("meta")), meta)
                 ELSE held
        name == free_name(tried, "memory_layer")
    IN  /\ stage = "stack"
        /\ Found = {} \/ Len(created) > MAX_STACK_DEPTH
        /\ IF Len(created) = 1
           THEN /\ held' = remove(add(tried, name, File("image")), current)
                /\ created' = <<name>>
           ELSE held' = tried /\ UNCHANGED created
        /\ stage' = "windows"
        /\ UNCHANGED <<Chosen, kernel, module>>

(* The kernel.  A detector that says no has added nothing.                 *)

AddressSpace == Layer("intel", {current} \cup {n \in Named(held) : layers[n].kind = "swap"})
Translated ==
    LET name == free_name(held, "layer_name") IN
      [name |-> name, held |-> add(held, name, AddressSpace)]

\* The symbol file of the kernel that was found cannot be read: an error, and the
\* other systems are tried.
WindowsFails ==
    /\ stage = "windows"
    /\ held' = Translated.held
    /\ stage' = "others"
    /\ UNCHANGED <<Chosen, created, kernel, module>>

\* Only Windows is recognised without symbols, and then has no module.
Recognise ==
    /\ stage \in {"windows", "others"}
    /\ held' = Translated.held
    /\ kernel' = Translated.name
    /\ \/ module' = Translated.name
       \/ stage = "windows" /\ module' = None
    /\ stage' = "name"
    /\ UNCHANGED <<Chosen, created>>

RecogniseNothing ==
    /\ stage \in {"windows", "others"}
    /\ stage' = "name"
    /\ UNCHANGED <<Chosen, held, created, kernel, module>>

\* The module keeps the name it was made with, and would read from a layer that is
\* not there: no plugin that names its layer uses the module.
NameKernel ==
    /\ stage = "name"
    /\ IF wanted # None /\ kernel # None /\ wanted # kernel
       THEN held' = rename(held, kernel, wanted) /\ kernel' = wanted
       ELSE UNCHANGED <<held, kernel>>
    /\ stage' = "ready"
    /\ UNCHANGED <<Chosen, created, module>>

(* Plugins that work on the kernel, which name no layer.                   *)

Count(kinds) == Cardinality({n \in Named(held) : n[1] \in kinds})
Room == Count({"process", "hive"}) < MaxAdded

AddProcess ==
    /\ stage \in {"ready", "plugin"} /\ module # None /\ wanted = None /\ Room
    /\ held' = add(held, free_name(held, "process"), AddressSpace)
    /\ stage' = "plugin"
    /\ UNCHANGED <<Chosen, created, kernel, module>>

AddHive ==
    /\ stage \in {"ready", "plugin"} /\ module # None /\ wanted = None /\ Room
    /\ held' = add(held, free_name(held, "hive"), Layer("hive", {module}))
    /\ stage' = "plugin"
    /\ UNCHANGED <<Chosen, created, kernel, module>>

Next ==
    \/ OpenSwap \/ OpenImage \/ StackOne \/ StopStacking
    \/ WindowsFails \/ Recognise \/ RecogniseNothing \/ NameKernel
    \/ AddProcess \/ AddHive

Spec == Init /\ [][Next]_vars
---------------------------------------------------------------------------
(* Correctness.                                                            *)

\* The order lists the names that are held, each once: what layerwriter lists and
\* chooses from is what there is, after any names given, taken back and changed.
OrderIsNames == Range(order) = Named(held) /\ IsInjective(order)

\* A name means the same layer for as long as it is held: what a layer rests on, and
\* what a plugin kept the name of, is not replaced under it.
NamesAreKept ==
    [][\A n \in Named(held) \cap DOMAIN held'.layers : held'.layers[n] = layers[n]]_vars

\* What a layer rests on is there, and nothing is left behind of a format that did not
\* match: each layer is the top, or something rests on it, or it translates.
StackIsWhole ==
    /\ \A n \in Named(held) : layers[n].on \subseteq Named(held)
    /\ stage \notin {"open", "stack"} =>
         \A n \in Named(held) :
           \/ n = current
           \/ layers[n].kind \in {"swap", "intel", "hive"}
           \/ \E m \in Named(held) : n \in layers[m].on

\* What layerwriter writes when no layer is named, the last that is no view of
\* another, is the physical memory of the image.
IsView(n) == layers[n].kind = "intel"
WriterTakesTop ==
    stage = "ready" =>
        \E i \in 1..Len(order) :
            /\ order[i] = current /\ ~IsView(current)
            /\ \A j \in (i + 1)..Len(order) : IsView(order[j])

=============================================================================
