----------------------------- MODULE DomainXml -----------------------------
(***************************************************************************)
(* The definition of a guest as it is read from libvirt's XML              *)
(* (src/libxkutil/device_parsing.c) and written again                      *)
(* (src/libxkutil/xmlgen.c).                                               *)
(*                                                                         *)
(* A definition is [sys, elements]: the settings of the system, and the    *)
(* set of the other elements, those of the devices with them.  Settings,   *)
(* elements and the structures they are read into are partial functions    *)
(* from field names to values: what is NULL, or not written, is not in the *)
(* domain.  An element has a tag; its attributes and those of its children *)
(* are fields such as "source_file".  A structure has a kind and an id.    *)
(* What parses gives the set of the structures made, so {} when the        *)
(* element is dropped; what generates gives the set of the elements made.  *)
(***************************************************************************)
EXTENDS Integers, Sequences, FiniteSets, TLC

Empty == [n \in {} |-> n]
Has(f, n) == n \in DOMAIN f
HasAll(f, names) == names \subseteq DOMAIN f
Only(f, names) == [n \in DOMAIN f \cap names |-> f[n]]
Without(f, names) == [n \in DOMAIN f \ names |-> f[n]]

\* A table gives for the fields of a structure those of the element:
\* what is taken from an element, and what is written of a structure.
Taken(e, table) == [n \in {m \in DOMAIN table : Has(e, table[m])} |-> e[table[n]]]
Written(d, table) ==
    LET set == DOMAIN table \cap DOMAIN d
    IN  [a \in {table[n] : n \in set} |-> d[CHOOSE n \in set : table[n] = a]]

----------------------------------------------------------------------------
(* Disks and filesystems. *)

FsFields == [access_mode |-> "accessmode", driver_type |-> "driver_type",
             source |-> "source_dir", virtual_dev |-> "target_dir",
             address |-> "address"]
FileFields == [device |-> "device", driver |-> "driver_name",
               driver_type |-> "driver_type", cache |-> "driver_cache",
               virtual_dev |-> "target_dev", bus_type |-> "target_bus",
               readonly |-> "readonly", shareable |-> "shareable",
               address |-> "address"]
DiskFields == [rawio |-> "rawio", sgio |-> "sgio"] @@ FileFields

parse_fs_device(e) ==
    IF HasAll(e, {"type", "source_dir", "target_dir"})
    THEN {[kind |-> "disk", id |-> <<"disk", e.target_dir>>, disk_type |-> "fs"]
            @@ Taken(e, FsFields)}
    ELSE {}

\* A source that is neither a file nor a device, that of a network disk,
\* drops the disk.
BlockSource(e) ==
    IF Has(e, "source_file") THEN {[source |-> e.source_file, disk_type |-> "file"]}
    ELSE IF Has(e, "source_dev") THEN {[source |-> e.source_dev, disk_type |-> "phy"]}
    ELSE IF e.device = "cdrom" /\ ~ Has(e, "source_name")
    THEN {[source |-> "", disk_type |-> "file"]}
    ELSE {}

parse_block_device(e) ==
    IF /\ HasAll(e, {"type", "device", "target_dev"})
       /\ Has(e, "driver_type") \/ Has(e, "driver_cache") => Has(e, "driver_name")
    THEN {[kind |-> "disk", id |-> <<"disk", e.target_dev>>] @@ s @@ Taken(e, DiskFields) :
            s \in BlockSource(e)}
    ELSE {}

parse_disk_device(e) ==
    IF e.tag = "disk" THEN parse_block_device(e) ELSE parse_fs_device(e)

\* A driver without a name is not written.
Driven(d) == IF Has(d, "driver") THEN d ELSE Without(d, {"driver_type", "cache"})

disk_block_xml(d) ==
    {[tag |-> "disk", type |-> "block"]
        @@ (IF d.source = "/dev/null" THEN Empty ELSE [source_dev |-> d.source])
        @@ Written(Driven(d), DiskFields)}

\* A CD drive without a disk has no source.  The fields rawio and sgio are
\* those of a block device only.
disk_file_xml(d) ==
    {[tag |-> "disk", type |-> "file"]
        @@ (IF Has(d, "device") /\ d.device = "cdrom" /\ d.source = "" THEN Empty
            ELSE [source_file |-> d.source])
        @@ Written(Driven(d), FileFields)}

disk_fs_xml(d) == {[tag |-> "filesystem"] @@ Written(d, FsFields)}

\* No element is made of a disk of an unknown type: an error of the whole.
disk_xml(d) == CASE d.disk_type = "phy"  -> disk_block_xml(d)
                 [] d.disk_type = "file" -> disk_file_xml(d)
                 [] d.disk_type = "fs"   -> disk_fs_xml(d)
                 [] OTHER -> {}

----------------------------------------------------------------------------
(* Interfaces. *)

VsiFields == [vsi_type |-> "virtualport_type", manager_id |-> "managerid",
              type_id |-> "typeid", type_id_version |-> "typeidversion",
              instance_id |-> "instanceid", profile_id |-> "profileid"]
NetFields == [type |-> "type", mac |-> "mac_address", device |-> "target_dev",
              model |-> "model_type", filter_ref |-> "filterref",
              reservation |-> "inbound_average", limit |-> "inbound_peak",
              address |-> "address"]
DirectFields == [source |-> "source_dev", net_mode |-> "source_mode"]

\* A port with parameters must have those of 802.1Qbg, whatever its type.
parse_vsi_device(e) ==
    LET port == Taken(e, VsiFields)
    IN  IF \/ DOMAIN port = {"vsi_type"}
           \/ HasAll(port, {"vsi_type", "manager_id", "type_id", "type_id_version"})
        THEN port ELSE Empty

NetSource(e) ==
    IF Has(e, "source_bridge") THEN {[source |-> e.source_bridge]}
    ELSE IF Has(e, "source_network")
    THEN {[source |-> e.source_network, poolid |-> e.source_network]}
    ELSE IF HasAll(e, {"source_dev", "source_mode"}) THEN {Taken(e, DirectFields)}
    ELSE IF Has(e, "source_dev") \/ Has(e, "source_mode") \/ Has(e, "source_address")
    THEN {} ELSE {Empty}

parse_net_device(e) ==
    {[kind |-> "net", id |-> <<"net", e.mac_address>>]
        @@ s @@ Taken(e, NetFields) @@ parse_vsi_device(e) : s \in NetSource(e)}

\* Only the profile of an 802.1Qbh port is written, everything else of others.
set_net_vsi(d) ==
    IF d.vsi_type = "802.1Qbh" THEN Written(Only(d, {"vsi_type", "profile_id"}), VsiFields)
    ELSE Written(Without(d, {"profile_id"}), VsiFields)

set_net_source(d, table) == IF Has(d, "source") THEN {Written(d, table)} ELSE {}

Xen == {"xenpv", "xenfv"}
bridge_net_to_xml(d, type) ==
    {IF type \in Xen THEN [script_path |-> "vif-bridge"] @@ s ELSE s :
        s \in set_net_source(d, [source |-> "source_bridge"])}

\* The error of a direct interface without a source is overwritten when it
\* has a virtual port.
NetPart(d, type) ==
    CASE d.type = "network" -> set_net_source(d, [source |-> "source_network"])
      [] d.type = "bridge"  -> bridge_net_to_xml(d, type)
      [] d.type = "user"    -> {Empty}
      [] d.type = "direct"  ->
            IF Has(d, "vsi_type") THEN {Written(d, DirectFields) @@ set_net_vsi(d)}
            ELSE set_net_source(d, DirectFields)
      [] OTHER -> {}

net_xml(d, type) ==
    {[tag |-> "interface"] @@ Written(d, NetFields) @@ part : part \in NetPart(d, type)}

----------------------------------------------------------------------------
(* Processors, memory and the emulator. *)

\* mutant: the size is that of the first element that is found.
FirstMemory(elements) ==
    LET max == CHOOSE e \in elements : e.tag = "memory"
    IN  {[kind |-> "mem", id |-> <<"mem">>, size |-> max.size, maxsize |-> max.size]
            @@ Only(max, {"dumpCore"})}

\* The two elements of memory make one device; one alone stands for both.
_get_mem_device(elements) ==
    LET SizeOf(tag, other) ==
            LET e == CHOOSE f \in elements :
                        f.tag = (IF \E g \in elements : g.tag = tag THEN tag ELSE other)
            IN  e.size
        found == {e \in elements : e.tag \in {"memory", "currentMemory"}}
        dump == {Only(e, {"dumpCore"}) : e \in {f \in found : Has(f, "dumpCore")}}
    IN  {[kind |-> "mem", id |-> <<"mem">>,
          size |-> SizeOf("currentMemory", "memory"), maxsize |-> SizeOf("memory", "currentMemory")]
            @@ (IF dump = {} THEN Empty ELSE CHOOSE d \in dump : TRUE) :
          any \in {m \in {"mem"} : found # {}}}

mem_xml(d) == {[tag |-> "currentMemory", size |-> d.size],
               [tag |-> "memory", size |-> d.maxsize] @@ Only(d, {"dumpCore"})}

\* Neither the shares of a guest nor how many of its processors are on is
\* read.
parse_vcpu_device(e) ==
    {[kind |-> "proc", id |-> <<"proc">>, quantity |-> IF Has(e, "count") THEN e.count ELSE 1]}

vcpu_xml(d) == {[tag |-> "vcpu", count |-> d.quantity]}

\* The shares are written of every guest that has processors.
cputune_xml(d) == {[tag |-> "cputune", shares |-> IF Has(d, "weight") THEN d.weight ELSE 0]}

parse_emu_device(e) == {[kind |-> "emu", id |-> <<"emu">>, path |-> e.path]}
emu_xml(d) == {[tag |-> "emulator", path |-> d.path]}

----------------------------------------------------------------------------
(* Consoles, graphics, input devices and controllers. *)

\* The members of the union of a console's source, the first to the fourth
\* string of each: a source of another type reads the same strings.
Path == [u1 |-> "source_path"]
SourceFields ==
    [pty |-> Path, dev |-> Path, file |-> Path, pipe |-> Path,
     unix |-> [u1 |-> "source_path", u2 |-> "source_mode"],
     tcp  |-> [u1 |-> "source_mode", u2 |-> "protocol_type", u3 |-> "source_host",
               u4 |-> "source_service"],
     udp  |-> [u1 |-> "bind_host", u2 |-> "bind_service", u3 |-> "connect_host",
               u4 |-> "connect_service"],
     null |-> Empty, vc |-> Empty, stdio |-> Empty, spicevmc |-> Empty]
TargetType == [target_type |-> "target_type"]

\* A target without a port drops the console.
parse_console_device(e) ==
    IF e.type \in DOMAIN SourceFields /\ (Has(e, "target_type") => Has(e, "target_port"))
    THEN {[kind |-> "console", id |-> <<"console", e.target_port>>, source_type |-> e.type]
            @@ Taken(e, TargetType) @@ Taken(e, SourceFields[e.type])}
    ELSE {}

\* The port is not written; "at" is the place of the element among its like.
console_xml(d) ==
    {[tag |-> "console", type |-> d.source_type, at |-> d.id[2]]
        @@ Written(d, TargetType) @@ Written(d, SourceFields[d.source_type])}

VncFields == [port |-> "port", host |-> "listen", keymap |-> "keymap", passwd |-> "passwd"]
SdlFields == [display |-> "display", xauth |-> "xauth", fullscreen |-> "fullscreen"]
VncDefaults == [port |-> "-1", host |-> "127.0.0.1"]
PtyFields == [host |-> "source_path"]

\* A console on a terminal is one of the graphics as well.
parse_graphics_device(e) ==
    CASE e.type = "vnc" -> {[kind |-> "graphics", type |-> "vnc", id |-> <<"vnc">>]
                            @@ Taken(e, VncFields) @@ VncDefaults}
      [] e.type = "sdl" -> {[kind |-> "graphics", type |-> "sdl",
                             id |-> <<"sdl", IF Has(e, "display") THEN e.display ELSE "(null)">>]
                            @@ Taken(e, SdlFields)}
      [] e.type = "pty" -> LET port == ToString(e.target_port)
                           IN  {[kind |-> "graphics", type |-> e.tag, id |-> <<e.tag, port>>,
                                 port |-> port] @@ Taken(e, PtyFields)}
      [] OTHER -> {}

graphics_vnc_xml(d) ==
    {[tag |-> "graphics", type |-> d.type]
        @@ (IF d.type = "sdl" THEN Written(d, SdlFields)
            ELSE Written(d, VncFields)
                @@ [autoport |-> IF d.port = "-1" THEN "yes" ELSE "no"])}

graphics_xml(d) == IF d.type \in {"vnc", "sdl"} THEN graphics_vnc_xml(d) ELSE {}

parse_input_device(e) ==
    IF HasAll(e, {"type", "bus"})
    THEN {[kind |-> "input", id |-> <<"input", e.type, e.bus>>] @@ Only(e, {"type", "bus"})}
    ELSE {}

input_xml(d) == {[tag |-> "input"] @@ Only(d, {"type", "bus"})}

ControllerFields == [type |-> "type", index |-> "index", model |-> "model",
                     ports |-> "ports", vectors |-> "vectors", address |-> "address"]
ControllerTypes == {"ide", "fdc", "scsi", "sata", "ccid", "virtio-serial", "pci", "usb"}

parse_controller_device(e) ==
    IF e.type \in ControllerTypes /\ Has(e, "index")
    THEN {[kind |-> "controller", id |-> <<"controller", e.type, e.index>>]
            @@ Taken(e, [queues |-> "driver_queues"] @@ ControllerFields)}
    ELSE {}

\* The attribute for the queues is misspelt.
controller_xml(d) ==
    {[tag |-> "controller"] @@ Written(d, [queues |-> "driver_queueus"] @@ ControllerFields) :
        type \in ControllerTypes \cap {d.type}}

----------------------------------------------------------------------------
(* The system: what struct domain has of it. *)

FullVirt == {"xenfv", "kvm", "qemu"}

DomainType(sys) ==
    IF sys.os_type = "hvm" /\ sys.typestr = "xen" THEN "xenfv"
    ELSE IF sys.typestr \in {"kvm", "qemu", "lxc"} THEN sys.typestr
    ELSE IF sys.os_type = "linux" THEN "xenpv" ELSE "unknown"

OsFields(type) == CASE type \in FullVirt -> {"loader", "arch", "machine", "boot"}
                    [] type = "xenpv" -> {"kernel", "initrd", "cmdline"}
                    [] type = "lxc" -> {"init"}
                    [] OTHER -> {}

parse_os(sys) ==
    [type |-> DomainType(sys)] @@ Only(sys, {"os_type"} \cup OsFields(DomainType(sys)))

parse_features(sys) == Only(sys, {"acpi", "apic", "pae"})

set_action(sys, event) ==
    IF Has(sys, event) /\ sys[event] \in {"preserve", "restart"} THEN sys[event]
    ELSE "destroy"

parse_domain(sys) ==
    [on_poweroff |-> set_action(sys, "on_poweroff"), on_crash |-> set_action(sys, "on_crash")]
        @@ Only(sys, {"name", "uuid", "bootloader", "bootloader_args", "clock"})
        @@ parse_os(sys) @@ parse_features(sys)

ParserOf(e) ==
    CASE e.tag \in {"disk", "filesystem"} -> parse_disk_device(e)
      [] e.tag = "interface"  -> parse_net_device(e)
      [] e.tag = "vcpu"       -> parse_vcpu_device(e)
      [] e.tag = "emulator"   -> parse_emu_device(e)
      [] e.tag = "console"    -> parse_console_device(e) \cup parse_graphics_device(e)
      [] e.tag = "graphics"   -> parse_graphics_device(e)
      [] e.tag = "input"      -> parse_input_device(e)
      [] e.tag = "controller" -> parse_controller_device(e)
      [] OTHER -> {}

\* get_devices: those of one element each, and the memory.
Devices(elements) == _get_mem_device(elements) \cup UNION {ParserOf(e) : e \in elements}

get_dominfo_from_xml(xml) == [sys |-> parse_domain(xml.sys), devices |-> Devices(xml.elements)]

----------------------------------------------------------------------------
(* What is written of a guest. *)

system_xml(sys) ==
    Only(sys, {"name", "uuid", "bootloader", "bootloader_args", "clock", "on_poweroff",
               "on_crash"})

_xenpv_os_xml(sys) ==
    Only(sys, {"os_type", "kernel", "initrd", "cmdline"})
        @@ [os_type |-> "linux", kernel |-> "/dev/null"]

BootDefault == [boot |-> <<"hd">>]

_xenfv_os_xml(sys) ==
    Only(sys, {"os_type", "loader", "boot"}) @@ BootDefault
        @@ [os_type |-> "hvm", loader |-> "/usr/lib/xen/boot/hvmloader"]

_kvm_os_xml(sys) ==
    Only(sys, {"os_type", "arch", "machine", "boot"}) @@ BootDefault @@ [os_type |-> "hvm"]

_lxc_os_xml(sys) == Only(sys, {"os_type", "init"}) @@ [os_type |-> "exe"]

os_xml(sys) == CASE sys.type = "xenpv" -> {_xenpv_os_xml(sys)}
                 [] sys.type = "xenfv" -> {_xenfv_os_xml(sys)}
                 [] sys.type \in {"kvm", "qemu"} -> {_kvm_os_xml(sys)}
                 [] sys.type = "lxc" -> {_lxc_os_xml(sys)}
                 [] OTHER -> {}

features_xml(sys) == Only(sys, {"acpi", "apic", "pae"})

TypeString(type) == IF type \in Xen THEN "xen" ELSE type

device_to_xml(d, type) ==
    CASE d.kind = "disk"       -> disk_xml(d)
      [] d.kind = "net"        -> net_xml(d, type)
      [] d.kind = "mem"        -> mem_xml(d)
      [] d.kind = "proc"       -> vcpu_xml(d) \cup cputune_xml(d)
      [] d.kind = "emu"        -> emu_xml(d)
      [] d.kind = "console"    -> console_xml(d)
      [] d.kind = "graphics"   -> graphics_xml(d)
      [] d.kind = "input"      -> input_xml(d)
      [] d.kind = "controller" -> controller_xml(d)

\* Every container is given a console more, at the end.
LastPlace == 99
ContainerConsole == [tag |-> "console", type |-> "pty", at |-> LastPlace]

\* A device that cannot be written fails the whole: no definition is made.
system_to_xml(dom) ==
    LET type == dom.sys.type
        Fails == \E d \in dom.devices :
                    d.kind \in {"disk", "net", "controller"} /\ device_to_xml(d, type) = {}
    IN  IF Fails THEN {}
        ELSE {[sys |-> [typestr |-> TypeString(type)] @@ system_xml(dom.sys) @@ os
                        @@ features_xml(dom.sys),
               elements |-> UNION {device_to_xml(d, type) : d \in dom.devices}
                    \cup (IF type = "lxc" THEN {ContainerConsole} ELSE {})] :
              os \in os_xml(dom.sys)}
=============================================================================
