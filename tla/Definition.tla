----------------------------- MODULE Definition -----------------------------
(***************************************************************************)
(* A guest that is off, as libvirt keeps its definition, and the requests  *)
(* that define it and change it.  A request on one resource, or on the     *)
(* system, reads the whole definition into struct domain, changes one part *)
(* and has libvirt define what is written of the whole: what the structure *)
(* has no place for, or what is written otherwise than it was read, is     *)
(* changed with it.  The tables of the second part say what that is: they  *)
(* are the changes that a request makes besides the one it is asked for.   *)
(*                                                                         *)
(* The requests on a guest that is running, and the order of requests that *)
(* overlap, are those of Management.                                       *)
(***************************************************************************)
EXTENDS SystemSettings

CONSTANTS Guests,        \* definitions made by others
          Systems,       \* new systems that are asked for: [vssd, resources, pfx]
          Changes,       \* what is asked of one resource, by its class
          NewResources,  \* resources that are asked to be added
          SystemChanges, \* what is asked of the system
          Outside,       \* elements that others may add
          MaxRequests    \* bound on the requests

VARIABLES guest,    \* at most one definition
          request,  \* the last request and whether it was served
          requests  \* how many there were

vars == <<guest, request, requests>>

NoRequest == [op |-> "none", rasd |-> Empty, served |-> TRUE]

Init == /\ guest \in {{}} \cup {{g} : g \in Guests}
        /\ request = NoRequest
        /\ requests = 0

----------------------------------------------------------------------------
(* What libvirt makes of a definition that it is given. *)

Repeats(pairs) == \E i, j \in DOMAIN pairs : i < j /\ pairs[i][1] = pairs[j][1]

Tagged(elements, tag) == {e \in elements : e.tag = tag}

\* No guest without processors or memory, no two disks of a name, no
\* attribute twice, and no input device of no type.
Acceptable(xml) ==
    /\ \A e \in Tagged(xml.elements, "vcpu") : e.count > 0
    /\ \A e \in Tagged(xml.elements, "memory") :
            /\ e.size > 0
            /\ \A c \in Tagged(xml.elements, "currentMemory") : c.size <= e.size
    /\ \A d, e \in Tagged(xml.elements, "disk") : d # e => d.target_dev # e.target_dev
    /\ \A e \in xml.elements : Has(e, "address") => ~ Repeats(e.address)
    /\ \A e \in Tagged(xml.elements, "input") : HasAll(e, {"type", "bus"})

\* Consoles are numbered in their order and have a target; directories are
\* mounted.
Numbered(consoles, type) ==
    {[target_port |-> Cardinality({d \in consoles : d.at < c.at})] @@ Without(c, {"at"})
        @@ [target_type |-> IF type = "kvm" \/ type = "qemu" THEN "serial" ELSE type] :
     c \in consoles}

Stored(xml) ==
    {[sys |-> xml.sys @@ [on_reboot |-> "restart", uuid |-> "new"],
      elements |-> {IF e.tag = "filesystem" THEN [type |-> "mount"] @@ e ELSE e :
                        e \in xml.elements \ Tagged(xml.elements, "console")}
                        \cup Numbered(Tagged(xml.elements, "console"), xml.sys.typestr)] :
        ok \in {a \in {TRUE} : Acceptable(xml)}}

----------------------------------------------------------------------------
(* The requests. *)

Answer(op, rasd, made) ==
    LET stored == UNION {Stored(m) : m \in made}
    IN  /\ requests < MaxRequests /\ requests' = requests + 1
        /\ guest' \in (IF stored = {} THEN {guest} ELSE {{s} : s \in stored})
        /\ request' = [op |-> op, rasd |-> rasd, served |-> stored # {}]

Prefix(xml) == CASE xml.sys.typestr \in {"kvm", "qemu"} -> "KVM"
                 [] xml.sys.typestr = "xen" -> "Xen"
                 [] xml.sys.typestr = "lxc" -> "LXC"

define_system ==
    /\ guest = {}
    /\ \E s \in Systems : Answer("create", s.vssd, create_system(s.vssd, s.resources, s.pfx))

\* What of a guest can be named: the emulator is none of the resources.
Resources(xml) == {[class |-> d.kind, id |-> d.id] :
                    d \in {e \in Devices(xml.elements) : e.kind # "emu"}}

mod_resource_settings ==
    \E xml \in guest : \E r \in Resources(xml) : \E c \in Changes[r.class] :
        Answer("mod", c @@ r, _update_resources_for("mod", c @@ r, xml))

\* Elements are a set: a second device that is like another is not asked for.
add_resource_settings ==
    \E xml \in guest : \E r \in NewResources :
        LET more == _update_resources_for("add", r, xml)
        IN  /\ more \cap system_to_xml(get_dominfo_from_xml(xml)) = {}
            /\ Answer("add", r, more)

rm_resource_settings ==
    \E xml \in guest : \E r \in Resources(xml) :
        Answer("del", r, _update_resources_for("del", r, xml))

\* The client sends the settings it has read with one of them changed.
mod_system_settings ==
    \E xml \in guest : \E c \in SystemChanges :
        LET sent == c @@ instance_from_dom(get_dominfo_from_xml(xml))
        IN  Answer("system", c, update_system_settings(sent, xml, Prefix(xml)))

\* Another client of libvirt adds what this one may not know of.
Attach ==
    \E xml \in guest : \E e \in Outside \ xml.elements :
        LET more == [xml EXCEPT !.elements = @ \cup {e}]
        IN  /\ Acceptable(more)
            /\ requests < MaxRequests /\ requests' = requests + 1
            /\ guest' = {more}
            /\ request' = [NoRequest EXCEPT !.op = "attach"]

Next == \/ define_system
        \/ mod_resource_settings
        \/ add_resource_settings
        \/ rm_resource_settings
        \/ mod_system_settings
        \/ Attach

Spec == Init /\ [][Next]_vars

----------------------------------------------------------------------------
(* What a request changes besides what it is asked for. *)

\* Elements that are not written again: those of no device, and those that
\* their parser gives up on.
Dropped(e) ==
    \/ e.tag \notin {"disk", "filesystem", "interface", "vcpu", "cputune", "memory",
                     "currentMemory", "emulator", "console", "graphics", "input", "controller"}
    \/ e.tag = "disk" /\ Has(e, "source_name")
    \/ e.tag = "graphics" /\ e.type \notin {"vnc", "sdl"}

\* Fields of an element that a request on another one may change.
Loses(e) ==
    CASE e.tag = "disk"       -> {"boot_order"}
                                    \cup (IF e.type = "file" THEN {"rawio", "sgio"} ELSE {})
      [] e.tag = "interface"  -> {"boot_order", "outbound_average"}
      [] e.tag = "vcpu"       -> {"current"}
      [] e.tag = "cputune"    -> {"shares"}
      [] e.tag = "controller" -> {"driver_queues", "driver_queueus"}
      [] e.tag = "console"    -> {"target_port"}
      [] OTHER -> {}

\* Fields of the system that any request may change.
SysLoses(sys) ==
    {"on_reboot", "hap"}
        \cup (IF DomainType(sys) \in {"kvm", "qemu"} THEN {"loader", "kernel"} ELSE {})
        \cup (IF Has(sys, "boot") THEN {} ELSE {"boot"})

Agree(e, f, except) ==
    /\ DOMAIN e \ except = DOMAIN f \ except
    /\ \A n \in DOMAIN e \ except : e[n] = f[n]

\* The elements that a resource stands for.
Stands(e, r) ==
    CASE r.class = "mem"  -> e.tag \in {"memory", "currentMemory"}
      [] r.class = "proc" -> e.tag \in {"vcpu", "cputune"}
      [] OTHER -> \E d \in ParserOf(e) : d.kind = r.class /\ d.id = r.id

\* A console on a terminal, as one of the graphics, is not written: to delete
\* it is served and does nothing, and to make it another type adds one.
Terminal(r) == r.class = "graphics" /\ r.id[1] = "console"

\* The fields of an element that a property of its resource asks for.
Through(property, shown, written) ==
    {written[n] : n \in {shown[p] : p \in DOMAIN shown \cap {property}} \cap DOMAIN written}

Asked(e, property) ==
    CASE e.tag = "disk" ->
            IF property \in {"Address", "EmulatedType"}
            THEN {"type", "device", "source_file", "source_dev", "rawio", "sgio"}
            ELSE Through(property, DiskProperties, DiskFields)
      [] e.tag = "filesystem" ->
            Through(property, [Address |-> 1, MountPoint |-> 2, VirtualDevice |-> 2],
                    <<"source_dir", "target_dir">>)
      [] e.tag = "interface" ->
            IF property \in {"NetworkType", "NetworkName", "PoolID", "SourceDevice"}
            THEN {"type", "source_bridge", "source_network", "source_dev", "source_mode",
                  "script_path"}
                    \cup {VsiFields[n] : n \in {m \in DOMAIN VsiFields : property = "NetworkType"}}
            ELSE Through(property, NetProperties, DirectFields @@ NetFields)
                    \cup Through(property, VsiProperties, VsiFields)
      [] e.tag = "memory" ->
            Through(property, [AllocationUnits |-> 1, Limit |-> 1, dumpCore |-> 2],
                    <<"size", "dumpCore">>)
      [] e.tag = "currentMemory" ->
            Through(property, [AllocationUnits |-> 1, VirtualQuantity |-> 1], <<"size">>)
      [] e.tag = "vcpu"    -> Through(property, [VirtualQuantity |-> 1], <<"count">>)
      [] e.tag = "cputune" -> Through(property, [Weight |-> 1], <<"shares">>)
      [] e.tag = "console" ->
            {"type", "target_type"}
                \cup UNION {{SourceFields[t][u] : u \in DOMAIN SourceFields[t]} :
                            t \in DOMAIN SourceFields}
      [] e.tag = "graphics" ->
            Through(property, [Address |-> 1, KeyMap |-> 2, Password |-> 3],
                    <<"listen", "keymap", "passwd">>)
                \cup (IF property \in {"Address", "ResourceSubType"}
                      THEN {"port", "autoport"} ELSE {})
                \cup (IF property = "ResourceSubType"
                      THEN {"type", "listen", "keymap", "passwd", "display", "xauth", "fullscreen"}
                      ELSE {})
      [] e.tag = "input" -> Through(property, InputProperties, [type |-> "type", bus |-> "bus"])
      [] e.tag = "controller" -> Through(property, ControllerProperties, ControllerFields)
      [] OTHER -> {}

\* Fields that a request on the resource itself may change as well: a filter
\* is not shown, a password is shown masked, and of SDL only the type is.
TargetLoses(e) ==
    (Loses(e) \ {"shares"})
        \cup CASE e.tag = "interface" -> {"filterref"}
               [] e.tag = "graphics" -> {"passwd", "display", "xauth", "fullscreen"}
               [] OTHER -> {}

\* Fields of the system that a request on it may change: the kind of virtual
\* machine is the one the host prefers; a guest without a list of boot
\* devices has its machine replaced by the host's default; a clock is UTC or
\* the local time.
SystemLoses(sys) ==
    SysLoses(sys) \cup {"typestr"}
        \cup (IF Has(sys, "boot") THEN {} ELSE {"arch", "machine"})
        \cup (IF Has(sys, "clock") /\ sys.clock \in {"utc", "localtime"} THEN {} ELSE {"clock"})

SystemAsked(property) ==
    Through(property, PvProperties @@ [AutomaticShutdownAction |-> "on_poweroff",
                AutomaticRecoveryAction |-> "on_crash", ClockOffset |-> "clock",
                BootDevices |-> "boot", EnableACPI |-> "acpi", InitPath |-> "init"],
            [n \in {"bootloader", "bootloader_args", "kernel", "initrd", "cmdline", "on_poweroff",
                    "on_crash", "clock", "boot", "acpi", "init"} |-> n])

\* Properties of a resource that are asked for in vain, or shown otherwise.
NotKept(r, d) ==
    CASE d.kind = "disk" ->
            {"MountPoint"} \cup (IF d.disk_type = "file" THEN {"rawio", "sgio"} ELSE {})
                \cup (IF Has(d, "driver") THEN {} ELSE {"DriverType", "DriverCache"})
      [] d.kind = "net" ->
            {"FilterRef"} \cup (IF d.type = "bridge" THEN {} ELSE {"NetworkName"})
                \cup (IF d.type = "network" THEN {} ELSE {"PoolID"})
                \cup (IF d.type = "direct" THEN {}
                      ELSE {"SourceDevice", "NetworkMode"} \cup DOMAIN VsiProperties)
      [] d.kind = "mem" ->
            {"Reservation"} \cup (IF Has(r, "AllocationUnits")
                                  THEN {"AllocationUnits", "VirtualQuantity", "Limit"} ELSE {})
      [] d.kind = "graphics" -> {"Password"} \cup (IF d.type = "vnc" THEN {} ELSE DOMAIN r)
      [] d.kind = "controller" -> {"Queues"}
      [] d.kind = "console" ->
            IF d.source_type = "udp"
            THEN {p \in DOMAIN r \cap {"BindURL"} : Len(r[p]) < 3} ELSE {}
      [] OTHER -> {}

----------------------------------------------------------------------------
(* Properties. *)

Properties(r) == DOMAIN r \ {"class", "id"}

OnResource == request'.op \in {"mod", "add", "del"} /\ request'.served

\* A request on one resource leaves the elements of the others as they were,
\* but for what its rewriting of the whole guest is known to lose, brings in
\* none but its own and the console that a container is given each time,
\* and leaves the system alone.  (_update_resources_for and system_to_xml.)
OthersKept ==
    [][OnResource =>
        \A old \in guest, new \in guest' :
            LET Target(e) == request'.op # "add" /\ Stands(e, request'.rasd)
                Kept(e) == \E f \in Tagged(new.elements, e.tag) : Agree(e, f, Loses(e))
                Counted(xml) ==
                    Cardinality({e \in xml.elements : ~ Dropped(e) /\ e.tag # "cputune"})
            IN  /\ \A e \in old.elements : Dropped(e) \/ Target(e) \/ Kept(e)
                /\ Agree(old.sys, new.sys, SysLoses(old.sys))
                /\ \/ request'.op # "add" /\ Terminal(request'.rasd)
                   \/ Counted(new) - (IF old.sys.typestr = "lxc" THEN 1 ELSE 0)
                        = Counted(old) + CASE request'.op = "add" -> 1
                                           [] request'.op = "del" -> -1
                                           [] request'.op = "mod" -> 0]_vars

\* A request changes of what it is made on what it asks for, but for what is
\* known to be lost: of a resource (rasd_to_vdev on the instance completed
\* with what is shown) or of the system (vssd_to_domain).
OnlyAsked ==
    [][request'.served =>
        \A old \in guest, new \in guest' :
            LET r == request'.rasd
                Asks(e) == UNION {Asked(e, p) : p \in Properties(r)}
            IN  /\ request'.op = "mod" =>
                        \A e \in {x \in old.elements : Stands(x, r)} :
                            \E f \in Tagged(new.elements, e.tag) :
                                Agree(e, f, TargetLoses(e) \cup Asks(e))
                /\ request'.op = "system" =>
                        Agree(old.sys, new.sys, SystemLoses(old.sys)
                                \cup UNION {SystemAsked(p) : p \in DOMAIN r})]_vars

\* What is asked of a resource is what is shown of it afterwards.  (What a
\* table of rasd_to_vdev, of xmlgen, of the parser or of rasd_from_vdev does
\* not have, or has otherwise, is asked for in vain.)
ReadsBack ==
    [][request'.op \in {"mod", "add"} /\ request'.served =>
        \A new \in guest' :
            \E d \in {e \in Devices(new.elements) : e.kind = request'.rasd.class} :
                LET shown == rasd_from_vdev(d, Shares(new))
                IN  \A p \in Properties(request'.rasd) \ NotKept(request'.rasd, d) :
                        Has(shown, p) /\ shown[p] = request'.rasd[p]]_vars
=============================================================================
