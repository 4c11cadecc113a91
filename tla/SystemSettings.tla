--------------------------- MODULE SystemSettings ---------------------------
(***************************************************************************)
(* The settings of the system itself, as shown (src/Virt_VSSD.c) and as    *)
(* brought into a definition, and the requests on a whole guest made of    *)
(* them (src/Virt_VirtualSystemManagementService.c): a guest is a struct   *)
(* domain [sys, devices], and what a request makes of it is a set, empty   *)
(* when it is refused.                                                     *)
(***************************************************************************)
EXTENDS ResourceSettings

----------------------------------------------------------------------------
(* What is shown. *)

Shown(flag, sys) == IF Has(sys, flag) THEN sys[flag] ELSE "no"

\* Without a list of boot devices the rest is left out too.
_set_fv_prop(sys) ==
    (IF sys.type = "xenfv" THEN [IsFullVirt |-> "yes"] ELSE Empty)
        @@ (IF Has(sys, "boot")
            THEN Taken(sys, [BootDevices |-> "boot", Arch |-> "arch", Machine |-> "machine"])
            ELSE Empty)

PvProperties ==
    [Bootloader |-> "bootloader", BootloaderArgs |-> "bootloader_args", Kernel |-> "kernel",
     Ramdisk |-> "initrd", CommandLine |-> "cmdline"]
_set_pv_prop(sys) == [IsFullVirt |-> "no"] @@ Taken(sys, PvProperties)

_set_lxc_prop(sys) == Taken(sys, [InitPath |-> "init"])

instance_from_dom(dom) ==
    LET sys == dom.sys
    IN  [VirtualSystemIdentifier |-> sys.name, UUID |-> sys.uuid,
         AutomaticShutdownAction |-> sys.on_poweroff, AutomaticRecoveryAction |-> sys.on_crash,
         EnableACPI |-> Shown("acpi", sys), EnableAPIC |-> Shown("apic", sys),
         EnablePAE |-> Shown("pae", sys)]
            @@ [p \in {q \in {"ClockOffset"} : Has(sys, "clock")} |->
                    IF sys.clock = "localtime" THEN "localtime" ELSE "utc"]
            @@ [p \in {q \in {"Emulator"} : \E d \in dom.devices : d.kind = "emu"} |->
                    (CHOOSE d \in dom.devices : d.kind = "emu").path]
            @@ CASE sys.type \in FullVirt -> _set_fv_prop(sys)
                 [] sys.type = "xenpv" -> _set_pv_prop(sys)
                 [] sys.type = "lxc"   -> _set_lxc_prop(sys)
                 [] OTHER -> Empty

----------------------------------------------------------------------------
(* What is brought into the domain.  "pfx" is the prefix of the class. *)

Given(v, property, default) == IF Has(v, property) THEN v[property] ELSE default

xenpv_vssd_to_domain(v, dom) ==
    {[dom EXCEPT !.sys = [type |-> "xenpv"] @@ Written(v, PvProperties)
                            @@ Without(dom.sys, {"bootloader", "bootloader_args", "kernel",
                                                 "initrd", "cmdline"})]}

bootord_vssd_to_domain(v) == Written(v, [BootDevices |-> "boot"])

XEN_EMULATOR == "/usr/lib/xen/bin/qemu-dm"

\* A domain has one emulator: the one that it had is gone.
fv_set_emulator(devices, emulators) ==
    IF emulators = {} THEN devices
    ELSE {d \in devices : d.kind # "emu"}
            \cup {[kind |-> "emu", id |-> <<"emu">>, path |-> p] : p \in emulators}

\* An architecture or a machine that is not sent is the default of the host,
\* whatever the guest had.  Xen's guests have no default but the emulator.
fv_vssd_to_domain(v, dom, pfx) ==
    LET caps == CHOOSE c \in get_caps_from_xml(Caps) : TRUE
        type == IF pfx = "Xen" THEN "xenfv" ELSE IF use_kvm(caps, DisableKvm) THEN "kvm" ELSE "qemu"
        Sent(property, default) == IF Has(v, property) THEN {v[property]} ELSE default
        arch == Sent("Arch", get_default_arch(caps, "hvm"))
        OfArch == IF arch = {} THEN "any" ELSE CHOOSE a \in arch : TRUE
        machine == Sent("Machine", IF type = "xenfv" THEN {}
                                   ELSE get_default_machine(caps, "hvm", OfArch, type))
        emulator == Sent("Emulator", IF type = "xenfv" THEN {}
                                     ELSE get_default_emulator(caps, "hvm", OfArch, type))
        Value(name, values) == [n \in {m \in {name} : values # {}} |-> CHOOSE x \in values : TRUE]
    IN  IF \E p \in emulator : disk_type_from_file(p) = "unknown" THEN {}
        ELSE {[sys |-> [type |-> type] @@ bootord_vssd_to_domain(v) @@ Value("arch", arch)
                            @@ Value("machine", machine)
                            @@ Without(dom.sys, {"boot", "arch", "machine"}),
               devices |-> fv_set_emulator(dom.devices,
                                IF type = "xenfv" /\ emulator = {} THEN {XEN_EMULATOR}
                                ELSE emulator)]}

lxc_vssd_to_domain(v, dom) ==
    {[dom EXCEPT !.sys = [type |-> "lxc", init |-> Given(v, "InitPath", "/bin/false")] @@ dom.sys]}

\* The clock is the only setting that keeps its old value when it is not
\* sent, and the identifier the only one that must be sent.
vssd_to_domain(v, dom, pfx) ==
    LET fullvirt == Given(v, "IsFullVirt", "no") = "yes"
        Switched(flag, property, default) ==
            [f \in {g \in {flag} : Given(v, property, IF default THEN "yes" ELSE "no") = "yes"}
                |-> "yes"]
        sys == [name |-> v.VirtualSystemIdentifier,
                on_poweroff |-> Given(v, "AutomaticShutdownAction", "destroy"),
                on_crash |-> Given(v, "AutomaticRecoveryAction", "destroy")]
                    @@ Written(v, [UUID |-> "uuid", ClockOffset |-> "clock"])
                    @@ Switched("acpi", "EnableACPI", fullvirt \/ pfx = "KVM")
                    @@ Switched("apic", "EnableAPIC", fullvirt /\ pfx # "KVM")
                    @@ Switched("pae", "EnablePAE", fullvirt /\ pfx # "KVM")
                    @@ Without(dom.sys, {"acpi", "apic", "pae"})
        next == [dom EXCEPT !.sys = sys]
    IN  IF ~ Has(v, "VirtualSystemIdentifier")
            \/ Given(v, "ClockOffset", "utc") \notin {"utc", "localtime"} THEN {}
        ELSE IF fullvirt \/ pfx = "KVM" THEN fv_vssd_to_domain(v, next, pfx)
        ELSE IF pfx = "Xen" THEN xenpv_vssd_to_domain(v, next)
        ELSE lxc_vssd_to_domain(v, next)

----------------------------------------------------------------------------
(* The resources of a new guest. *)

OfKind(dom, kind) == {d \in dom.devices : d.kind = kind}

\* A second disk of a name is refused; of another kind the second replaces
\* the first.
add_device_nodup(d, dom) ==
    IF d.kind = "disk" /\ \E e \in OfKind(dom, "disk") : e.virtual_dev = d.virtual_dev THEN {}
    ELSE {[dom EXCEPT !.devices = {e \in @ : e.kind # d.kind \/ e.id # d.id} \cup {d}]}

\* Consoles have no identity before libvirt gives them a port.
NextConsole(dom) ==
    CHOOSE n \in 0..LastPlace :
        /\ \A d \in OfKind(dom, "console") : d.id[2] < n
        /\ n = 0 \/ \E d \in OfKind(dom, "console") : d.id[2] = n - 1

\* The lists are made for all before any is filled, and those of processors
\* and of memory are written as they are.
make_space(dom) ==
    [dom EXCEPT !.devices = @
        \cup {[kind |-> "proc", id |-> <<"proc">>, quantity |-> 0] :
                none \in {d \in {"proc"} : OfKind(dom, d) = {}}}
        \cup {[kind |-> "mem", id |-> <<"mem">>, size |-> 0, maxsize |-> 0] :
                none \in {d \in {"mem"} : OfKind(dom, d) = {}}}]

\* One processor, memory and input device; the others one after the other.
Classified(dom, r) ==
    LET type == dom.sys.type
        Slot == LET old == OfKind(dom, r.class)
                IN  IF old = {} THEN Empty ELSE CHOOSE d \in old : TRUE
    IN  CASE r.class \in {"proc", "mem", "input"} ->
                {[dom EXCEPT !.devices = (@ \ OfKind(dom, r.class)) \cup {d}] :
                    d \in rasd_to_vdev(r, Slot, type)}
          [] r.class = "console" ->
                {[dom EXCEPT !.devices = @ \cup {d}] :
                    d \in rasd_to_vdev(r, [id |-> <<"console", NextConsole(dom)>>], type)}
          [] OTHER -> UNION {add_device_nodup(d, dom) : d \in rasd_to_vdev(r, Empty, type)}

\* The resources in their order, up to the first that is refused.
classify_resources(resources, dom) ==
    IF resources = << >> THEN {}
    ELSE FoldLeft(LAMBDA doms, r : UNION {Classified(d, r) : d \in doms},
                  {make_space(dom)}, resources)

S390(sys) == sys.type \in {"kvm", "qemu"} /\ Given(sys, "arch", "") \in {"s390", "s390x"}

default_console_device(dom) ==
    IF S390(dom.sys)
    THEN {[kind |-> "console", id |-> <<"console", 0>>, source_type |-> "pty",
           target_type |-> IF Given(dom.sys, "machine", "") = "s390-ccw-virtio" THEN "sclp"
                           ELSE "virtio"]}
    ELSE {}

default_graphics_device(dom) ==
    IF dom.sys.type = "lxc" \/ S390(dom.sys) THEN {}
    ELSE {[kind |-> "graphics", id |-> <<"vnc">>, type |-> "vnc", port |-> "-1",
           host |-> "127.0.0.1", keymap |-> "en-us"]}

default_input_device(dom) ==
    IF dom.sys.type = "lxc" \/ S390(dom.sys) THEN {}
    ELSE LET bus == IF dom.sys.type = "xenpv" THEN "xen" ELSE "ps2"
         IN  {[kind |-> "input", id |-> <<"input", "mouse", bus>>, type |-> "mouse", bus |-> bus]}

add_default_devs(dom) ==
    [dom EXCEPT !.devices = @
        \cup (IF OfKind(dom, "graphics") \cup OfKind(dom, "console") = {}
              THEN default_console_device(dom) \cup default_graphics_device(dom) ELSE {})
        \cup (IF OfKind(dom, "input") = {} THEN default_input_device(dom) ELSE {})]

----------------------------------------------------------------------------
(* The requests, as what they make of the definition: sets of definitions, *)
(* empty when the request fails.                                           *)

NoDomain == [sys |-> [type |-> "unknown"], devices |-> {}]

create_system(vssd, resources, pfx) ==
    LET made == UNION {classify_resources(resources, d) : d \in vssd_to_domain(vssd, NoDomain, pfx)}
    IN  UNION {system_to_xml(add_default_devs(d)) : d \in made}

\* The uuid of a guest cannot be changed, and nothing is sent for the same.
update_system_settings(vssd, xml, pfx) ==
    LET dom == get_dominfo_from_xml(xml)
        Kept(d) == [d EXCEPT !.sys = (IF Given(@, "uuid", "") = "" THEN [uuid |-> dom.sys.uuid]
                                      ELSE Empty) @@ @]
        made == {Kept(d) : d \in vssd_to_domain(vssd, dom, pfx)}
    IN  UNION {system_to_xml(d) : d \in {e \in made : e.sys.uuid = dom.sys.uuid}}

find_list(dom, class, id) == {d \in OfKind(dom, class) : d.id = id}

resource_del(r, dom) ==
    IF r.class \in {"mem", "proc"} THEN {}
    ELSE {[dom EXCEPT !.devices = @ \ {d}] : d \in find_list(dom, r.class, r.id)}

\* Nothing is compared with the devices that are there.
resource_add(r, dom) ==
    LET new == IF r.class = "console" THEN [id |-> <<"console", NextConsole(dom)>>] ELSE Empty
    IN  IF r.class \in {"mem", "proc"} THEN {}
        ELSE {[dom EXCEPT !.devices = @ \cup {d}] : d \in rasd_to_vdev(r, new, dom.sys.type)}

\* mutant: only what is sent is brought in.
NotMerged(r, shown) == r

\* mutant: what is shown now goes before what is sent.
OldFirst(r, shown) == shown @@ r

\* The instance sent is completed with what is shown now.
cu_merge_instances(r, shown) == r @@ shown

resource_mod(r, dom, shares) ==
    UNION {{[dom EXCEPT !.devices = (@ \ {d}) \cup {e}] :
                e \in rasd_to_vdev(cu_merge_instances(r, rasd_from_vdev(d, shares)), d,
                                   dom.sys.type)} :
           d \in find_list(dom, r.class, r.id)}

Shares(xml) == LET tunes == {e \in xml.elements : e.tag = "cputune"}
               IN  IF tunes = {} THEN 0 ELSE (CHOOSE e \in tunes : TRUE).shares

\* The whole guest is read, changed and written again.
_update_resources_for(op, r, xml) ==
    LET dom == get_dominfo_from_xml(xml)
    IN  UNION {system_to_xml(d) :
                d \in CASE op = "add" -> resource_add(r, dom)
                        [] op = "del" -> resource_del(r, dom)
                        [] op = "mod" -> resource_mod(r, dom, Shares(xml))}
=============================================================================
