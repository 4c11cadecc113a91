-------------------------- MODULE ResourceSettings --------------------------
(***************************************************************************)
(* The settings of a guest and of its resources as CIM instances: what is  *)
(* shown of a parsed definition (src/Virt_RASD.c, src/Virt_VSSD.c), and    *)
(* how what a client sends is brought into it                              *)
(* (src/Virt_VirtualSystemManagementService.c).                            *)
(*                                                                         *)
(* An instance is a partial function from property names to values; a      *)
(* property that is NULL is not in its domain.  "class" is the kind of     *)
(* device its class stands for and "id" the device part of its InstanceID. *)
(* An address or a URL is the sequence of its parts, and the two arrays of *)
(* a device address are one sequence of pairs.  What is brought into a     *)
(* device is a set: empty when the instance is refused.                    *)
(***************************************************************************)
EXTENDS Capabilities

CONSTANTS FileType,        \* what each path of the host is: "phy", "file" or "fs"
          Ipv6Hosts,       \* host addresses with colons in them
          Caps,            \* the capabilities of the host
          DisableKvm,      \* the configuration forbids KVM
          Unit,            \* how many of a unit of memory are one of the next, 1024
          DefaultNetwork   \* sets of at most one: the default network pool

\* A path that cannot be looked at, or is none of these, is unknown.
disk_type_from_file(path) == IF path \in DOMAIN FileType THEN FileType[path] ELSE "unknown"

----------------------------------------------------------------------------
(* Disks.  Tables give for a property the field of the device. *)

DiskProperties ==
    [VirtualDevice |-> "virtual_dev", Address |-> "source", BusType |-> "bus_type",
     readonly |-> "readonly", DriverName |-> "driver", DriverType |-> "driver_type",
     DriverCache |-> "cache", AccessMode |-> "access_mode", rawio |-> "rawio",
     sgio |-> "sgio", shareable |-> "shareable", AddressProperties |-> "address"]

set_disk_rasd_params(d) ==
    [EmulatedType |-> IF Has(d, "device") /\ d.device \in {"cdrom", "floppy", "lun"}
                      THEN d.device ELSE "disk"]
        @@ Taken(d, DiskProperties)

\* A flag is in the device when it is set.
Flags == {"readonly", "shareable"}
Set(f) == Without(f, {n \in DOMAIN f \cap Flags : f[n] = "no"})

\* A drive may be empty, and what it holds may not be there.
DriveSource(r) ==
    LET source == IF Has(r, "Address") THEN r.Address ELSE "/dev/null"
        type == disk_type_from_file(source)
        Known(device) ==
            IF type = "unknown" THEN {}
            ELSE {[device |-> device, source |-> source, disk_type |-> type]}
        emulated == IF Has(r, "EmulatedType") THEN r.EmulatedType ELSE "disk"
    IN  CASE emulated = "disk"  -> Known("disk")
          [] emulated = "fs"    -> Known("filesystem")
          [] emulated = "lun"   -> Known("lun")
          [] emulated = "cdrom" ->
                {[device |-> "cdrom", source |-> IF source = "/dev/null" THEN "" ELSE source,
                  disk_type |-> IF source \in {"", "/dev/null"} THEN "file"
                                ELSE IF type = "unknown" THEN "phy" ELSE type]}
          [] emulated = "floppy" ->
                {[device |-> "floppy", source |-> source, disk_type |-> type]}
          [] OTHER -> {}

disk_rasd_to_vdev(r) ==
    IF Has(r, "VirtualDevice")
    THEN {[kind |-> "disk", id |-> <<"disk", r.VirtualDevice>>] @@ s
            @@ Set(Written(r, DiskProperties)) : s \in DriveSource(r)}
    ELSE {}

\* The mount point is never shown, so that it has to be sent each time.
lxc_disk_rasd_to_vdev(r, d) ==
    IF HasAll(r, {"MountPoint", "Address"})
    THEN {[kind |-> "disk", id |-> <<"disk", r.MountPoint>>, virtual_dev |-> r.MountPoint,
           source |-> r.Address, disk_type |-> "fs"] @@ d}
    ELSE {}

----------------------------------------------------------------------------
(* Interfaces. *)

VsiProperties ==
    [VSIType |-> "vsi_type", VSIManagerID |-> "manager_id", VSITypeID |-> "type_id",
     VSITypeIDVersion |-> "type_id_version", VSIInstanceID |-> "instance_id",
     ProfileID |-> "profile_id"]
NetProperties ==
    [Address |-> "mac", NetworkType |-> "type", VirtualDevice |-> "device",
     NetworkMode |-> "net_mode", ResourceSubType |-> "model", Reservation |-> "reservation",
     Limit |-> "limit", AddressProperties |-> "address"]

set_net_vsi_rasd_params(d) == IF Has(d, "vsi_type") THEN Taken(d, VsiProperties) ELSE Empty

\* A limit is shown next to a reservation only.
set_net_rasd_params(d) ==
    Taken(IF Has(d, "reservation") THEN d ELSE Without(d, {"limit"}),
          [NetworkName |-> "source", PoolID |-> "poolid"] @@ NetProperties)
        @@ (IF d.type = "direct" THEN Taken(d, [SourceDevice |-> "source"]) ELSE Empty)

\* The name of a bridge or of a device must not be empty.
Named(r, property) == {[source |-> r[p]] : p \in {q \in {property} : Has(r, q) /\ r[q] # ""}}

_default_network(r) == IF Has(r, "PoolID") THEN {r.PoolID} ELSE DefaultNetwork

\* Of a network its pool counts, not its name.
NetAttachment(r) ==
    CASE r.NetworkType = "bridge"  -> Named(r, "NetworkName")
      [] r.NetworkType = "network" -> {[source |-> n] : n \in _default_network(r)}
      [] r.NetworkType = "user"    -> {Empty}
      [] r.NetworkType = "direct"  ->
            {s @@ Written(r, VsiProperties) : s \in Named(r, "SourceDevice")}
      [] OTHER -> {}

_net_rand_mac == "random"

\* The device is made anew: a filter that is not shown is gone.
net_rasd_to_vdev(r) ==
    IF Has(r, "NetworkType")
    THEN LET mac == IF Has(r, "Address") THEN r.Address ELSE _net_rand_mac
         IN  {[kind |-> "net", id |-> <<"net", mac>>, mac |-> mac] @@ s
                @@ Written(r, NetProperties) : s \in NetAttachment(r)}
    ELSE {}

----------------------------------------------------------------------------
(* Memory and processors. *)

MemoryRasd(d) ==
    [VirtualQuantity |-> d.size, Reservation |-> d.size, Limit |-> d.maxsize,
     AllocationUnits |-> "KiloBytes"] @@ Only(d, {"dumpCore"})

InKilobytes(n, units) ==
    CASE units = "Bytes"     -> n \div Unit
      [] units = "KiloBytes" -> n
      [] units = "MegaBytes" -> n * Unit
      [] units = "GigaBytes" -> n * Unit * Unit

\* The units are those of both sizes.
mem_rasd_to_vdev(r) ==
    LET units == IF Has(r, "AllocationUnits") THEN r.AllocationUnits ELSE "Bytes"
        sizes == {r[p] : p \in {q \in {"VirtualQuantity"} : Has(r, q)}}
        size == IF sizes # {} THEN sizes
                ELSE {r[p] : p \in {q \in {"Reservation"} : Has(r, q)}}
    IN  {[kind |-> "mem", id |-> <<"mem">>, size |-> InKilobytes(n, units),
          maxsize |-> InKilobytes(IF Has(r, "Limit") THEN r.Limit ELSE n, units)]
            @@ Only(r, {"dumpCore"}) :
          n \in {m \in size : units \in {"Bytes", "KiloBytes", "MegaBytes", "GigaBytes"}}}

\* The weight is that of libvirt's scheduler, or of the information store.
set_proc_rasd_params(d, weight) ==
    [VirtualQuantity |-> d.quantity, Weight |-> weight, Limit |-> 0]

proc_rasd_to_vdev(r, type) ==
    {[kind |-> "proc", id |-> <<"proc">>, quantity |-> r[p],
      weight |-> IF Has(r, "Weight") THEN r.Weight ELSE IF type \in Xen THEN 1024 ELSE 0] :
     p \in {q \in {"VirtualQuantity"} : Has(r, q)}}

lxc_proc_rasd_to_vdev(r, d) ==
    IF Has(r, "VirtualQuantity") \/ Has(r, "Limit") THEN {}
    ELSE {[weight |-> IF Has(r, "Weight") THEN r.Weight ELSE 1024] @@ d}

----------------------------------------------------------------------------
(* Consoles. *)

\* A host with colons in it makes no URL.
_build_console_url(protocol, d, host, port) ==
    IF ~ Has(d, host) THEN {}
    ELSE IF protocol = "file" THEN {<<"file", d[host]>>}
    ELSE IF d[host] \in Ipv6Hosts THEN {}
    ELSE IF Has(d, port) THEN {<<protocol, d[host], d[port]>>} ELSE {<<protocol, d[host]>>}

Url(property, urls) == [p \in {q \in {property} : urls # {}} |-> CHOOSE u \in urls : TRUE]

UrlOf(d, mode, urls) ==
    CASE Has(d, mode) /\ d[mode] = "bind"    -> Url("BindURL", urls)
      [] Has(d, mode) /\ d[mode] = "connect" -> Url("ConnectURL", urls)
      [] OTHER -> Empty

set_console_rasd_params(d) ==
    [SourceType |-> d.source_type] @@ Taken(d, [TargetType |-> "target_type"])
        @@ CASE d.source_type \in {"pty", "dev", "file", "pipe"} -> Taken(d, [SourcePath |-> "u1"])
             [] d.source_type = "unix" -> UrlOf(d, "u2", _build_console_url("file", d, "u1", "u1"))
             [] d.source_type = "udp" ->
                    Url("BindURL", _build_console_url("udp", d, "u1", "u2"))
                        @@ Url("ConnectURL", _build_console_url("udp", d, "u3", "u4"))
             [] d.source_type = "tcp" ->
                    UrlOf(d, "u1", _build_console_url(
                                        IF Has(d, "u2") THEN d.u2 ELSE "(null)", d, "u3", "u4"))
             [] OTHER -> Empty

\* The host and the port of a URL; a URL without a port leaves what the
\* place of the port holds.
parse_console_url(url, host, port) ==
    IF Len(url) = 3 THEN (host :> url[2]) @@ (port :> url[3]) ELSE (host :> url[2])

\* The one URL that a socket has, with the mode that its property stands for.
OneUrl(r) ==
    LET Given == DOMAIN r \cap {"BindURL", "ConnectURL"}
    IN  {[mode |-> IF p = "BindURL" THEN "bind" ELSE "connect", url |-> r[p]] :
            p \in {q \in Given : Cardinality(Given) = 1}}

_unixsock_console_rasd_to_vdev(r, d) ==
    {[u1 |-> s.url[2], u2 |-> s.mode] @@ d : s \in {t \in OneUrl(r) : t.url[1] = "file"}}

_udp_console_rasd_to_vdev(r, d) ==
    IF HasAll(r, {"ConnectURL", "BindURL"}) /\ r.ConnectURL[1] = "udp" /\ r.BindURL[1] = "udp"
    THEN {parse_console_url(r.ConnectURL, "u3", "u4")
            @@ parse_console_url(r.BindURL, "u1", "u2") @@ d}
    ELSE {}

_tcp_console_rasd_to_vdev(r, d) ==
    {e \in {[u1 |-> s.mode, u2 |-> s.url[1]] @@ parse_console_url(s.url, "u3", "u4") @@ d :
                s \in OneUrl(r)} :
        Has(e, "u4") /\ e.u2 \notin {"udp", "file"}}

\* The device is changed in place: what the new source does not set keeps
\* what the old one had there.
console_rasd_to_vdev(r, d) ==
    LET typed == [kind |-> "console", source_type |-> r.SourceType]
                    @@ Written(r, [TargetType |-> "target_type"]) @@ d
        Pathed == Written(r, [SourcePath |-> "u1"]) @@ typed
    IN  IF ~ Has(r, "SourceType") \/ r.SourceType \notin DOMAIN SourceFields THEN {}
        ELSE CASE r.SourceType = "pty" -> {Pathed}
               [] r.SourceType \in {"dev", "file", "pipe"} ->
                    IF Has(r, "SourcePath") THEN {Pathed} ELSE {}
               [] r.SourceType = "unix" -> _unixsock_console_rasd_to_vdev(r, typed)
               [] r.SourceType = "udp"  -> _udp_console_rasd_to_vdev(r, typed)
               [] r.SourceType = "tcp"  -> _tcp_console_rasd_to_vdev(r, typed)
               [] OTHER -> {typed}

----------------------------------------------------------------------------
(* Graphics, input devices and controllers. *)

\* A password is masked; of SDL nothing but the type is shown.
set_graphics_rasd_params(d) ==
    LET host == IF Has(d, "host") THEN d.host ELSE "(null)"
    IN  [ResourceSubType |-> d.type,
         Address |-> IF d.type = "sdl" THEN <<"sdl">>
                     ELSE IF host \in Ipv6Hosts THEN <<"">> ELSE <<host, d.port>>]
            @@ (IF d.type = "vnc"
                THEN Taken(d, [KeyMap |-> "keymap"])
                        @@ [p \in {q \in {"Password"} : Has(d, "passwd")} |-> "********"]
                ELSE Empty)

\* An address has a host and a port, or it is refused.
VncAddress(r, default) ==
    LET address == IF Has(r, "Address") THEN r.Address ELSE default
    IN  {[host |-> a[1], port |-> a[2]] : a \in {b \in {address} : Len(b) = 2}}

parse_sdl_address(r) ==
    IF ~ Has(r, "Address") THEN Empty
    ELSE IF Len(r.Address) = 2 THEN [xauth |-> r.Address[1], display |-> r.Address[2]]
    ELSE [xauth |-> r.Address[1]]

Fullscreen(r) == Taken(r, [fullscreen |-> "IsIPV6Only"])

graphics_rasd_to_vdev(r) ==
    IF ~ Has(r, "ResourceSubType") THEN {}
    ELSE LET Typed == [kind |-> "graphics", type |-> r.ResourceSubType]
         IN  CASE r.ResourceSubType = "vnc" ->
                    {Typed @@ [id |-> <<"vnc">>] @@ a @@ Written(r, [Password |-> "passwd"])
                        @@ Written(r, [KeyMap |-> "keymap"]) @@ [keymap |-> "en-us"] :
                     a \in VncAddress(r, IF Has(r, "IsIPV6Only") /\ r.IsIPV6Only = "yes"
                                         THEN <<"[::1]", "-1">> ELSE <<"127.0.0.1", "-1">>)}
               [] r.ResourceSubType \in {"console", "serial"} ->
                    {Typed @@ [id |-> <<r.ResourceSubType, a.port>>] @@ a :
                     a \in VncAddress(r, <<"/dev/pts/0", "0">>)}
               [] r.ResourceSubType = "sdl" ->
                    {Typed @@ [id |-> <<"sdl">>] @@ parse_sdl_address(r) @@ Fullscreen(r)}
               [] OTHER -> {}

InputProperties == [ResourceSubType |-> "type", BusType |-> "bus"]
set_input_rasd_params(d) == Taken(d, InputProperties)

\* Nothing is refused of an input device.
input_rasd_to_vdev(r, d) ==
    LET usual == [mouse |-> [bus |-> "ps2"], tablet |-> [bus |-> "usb"]]
        default == IF Has(r, "ResourceSubType") /\ Has(usual, r.ResourceSubType)
                   THEN usual[r.ResourceSubType] ELSE Empty
    IN  {[kind |-> "input"]
            @@ (IF Has(r, "ResourceSubType") THEN Written(r, InputProperties) ELSE Empty)
            @@ default @@ d @@ [id |-> <<"input", "new">>]}

ControllerProperties ==
    [ResourceSubType |-> "type", Index |-> "index", Model |-> "model", Ports |-> "ports",
     Vectors |-> "vectors", Queues |-> "queues", AddressProperties |-> "address"]
set_controller_rasd_params(d) == Taken(d, ControllerProperties)

\* The address of the instance comes after the one the device has.
controller_rasd_to_vdev(r, d) ==
    LET Address(f) == IF Has(f, "address") THEN f.address ELSE << >>
        new == Written(r, ControllerProperties)
        address == Address(d) \o Address(new)
    IN  IF ~ Has(r, "ResourceSubType") THEN {}
        ELSE {[kind |-> "controller",
               id |-> <<"controller", r.ResourceSubType, IF Has(r, "Index") THEN r.Index ELSE -1>>]
                @@ (IF address = << >> THEN Empty ELSE [address |-> address])
                @@ new @@ (IF Has(r, "Index") THEN d ELSE Without(d, {"index"}))}

----------------------------------------------------------------------------
(* Any resource. *)

rasd_from_vdev(d, shares) ==
    [class |-> d.kind, id |-> d.id]
        @@ CASE d.kind = "disk" -> set_disk_rasd_params(d)
             [] d.kind = "net"  -> set_net_rasd_params(d) @@ set_net_vsi_rasd_params(d)
             [] d.kind = "mem"  -> MemoryRasd(d)
             [] d.kind = "proc" -> set_proc_rasd_params(d, shares)
             [] d.kind = "graphics"   -> set_graphics_rasd_params(d)
             [] d.kind = "input"      -> set_input_rasd_params(d)
             [] d.kind = "console"    -> set_console_rasd_params(d)
             [] d.kind = "controller" -> set_controller_rasd_params(d)

_sysvirt_rasd_to_vdev(r, d, type) ==
    CASE r.class = "disk" -> disk_rasd_to_vdev(r)
      [] r.class = "net"  -> net_rasd_to_vdev(r)
      [] r.class = "mem"  -> mem_rasd_to_vdev(r)
      [] r.class = "proc" -> proc_rasd_to_vdev(r, type)
      [] r.class = "graphics"   -> graphics_rasd_to_vdev(r)
      [] r.class = "console"    -> console_rasd_to_vdev(r, d)
      [] r.class = "input"      -> input_rasd_to_vdev(r, d)
      [] r.class = "controller" -> controller_rasd_to_vdev(r, d)
      [] OTHER -> {}

_container_rasd_to_vdev(r, d) ==
    CASE r.class = "mem"  -> mem_rasd_to_vdev(r)
      [] r.class = "disk" -> lxc_disk_rasd_to_vdev(r, d)
      [] r.class = "net"  -> net_rasd_to_vdev(r)
      [] r.class = "proc" -> lxc_proc_rasd_to_vdev(r, d)
      [] r.class = "input"      -> input_rasd_to_vdev(r, d)
      [] r.class = "controller" -> controller_rasd_to_vdev(r, d)
      [] OTHER -> {}

rasd_to_vdev(r, d, type) ==
    IF type = "lxc" THEN _container_rasd_to_vdev(r, d) ELSE _sysvirt_rasd_to_vdev(r, d, type)
=============================================================================
