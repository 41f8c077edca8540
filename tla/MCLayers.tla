------------------------------ MODULE MCLayers ------------------------------
(***************************************************************************)
(* Raw images, images of one format, of several at once, and nested ones,  *)
(* one of which is deeper than the stack may be.                           *)
(***************************************************************************)
EXTENDS Layers

MCImages ==
    {<<>>, <<{"lime"}>>, <<{"elf", "xen"}>>, <<{"xen"}>>, <<{"crash", "vmware"}>>, <<{"vmware"}>>,
     <<{"vmware"}, {"elf"}>>, <<{"lime"}, {"vmware"}>>, <<{"avml"}, {"lime"}, {"qemu"}>>,
     [i \in 1..9 |-> {"lime"}]}
MCStackers == {Range(Formats), {"lime", "qemu"}, {"vmware", "elf"}}
=============================================================================
