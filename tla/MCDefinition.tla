---------------------------- MODULE MCDefinition ----------------------------
(***************************************************************************)
(* Guests of each hypervisor, and what is asked of them.                   *)
(***************************************************************************)
EXTENDS Definition

Files == [path \in {"/img/a", "/img/b"} |-> "file"] @@ ("/dev/sda" :> "phy")
            @@ ("/usr/bin/qemu-kvm" :> "file") @@ ("/usr/lib/xen/bin/qemu-dm" :> "file")
Hosts == {"::1"}

HostCaps ==
    [cpu_arch |-> "x86_64",
     guests |-> <<[ostype |-> "hvm", arch |-> "i686", default_info |-> Empty, domains |-> << >>],
                  [ostype |-> "hvm", arch |-> "x86_64",
                   default_info |-> [emulator |-> "/usr/bin/qemu-kvm",
                                     machines |-> <<[name |-> "pc", canonical_name |-> "pc-1.1"]>>],
                   domains |-> <<[typestr |-> "qemu", info |-> Empty],
                                 [typestr |-> "kvm",
                                  info |-> [machines |-> <<[name |-> "q35"]>>]]>>]>>]

Sys == [name |-> "g", uuid |-> "u1", on_poweroff |-> "destroy", on_crash |-> "restart",
        on_reboot |-> "preserve", clock |-> "utc"]

Sized(max, now, count) ==
    {[tag |-> "memory", size |-> max], [tag |-> "currentMemory", size |-> now],
     [tag |-> "vcpu", count |-> count]}

FileDisk == [tag |-> "disk", type |-> "file", device |-> "disk", source_file |-> "/img/a",
             target_dev |-> "vda", target_bus |-> "virtio", driver_name |-> "qemu",
             driver_type |-> "raw", driver_cache |-> "none", sgio |-> "filtered"]
BlockDisk == [tag |-> "disk", type |-> "block", device |-> "lun", source_dev |-> "/dev/sda",
              target_dev |-> "sda", target_bus |-> "scsi", rawio |-> "yes", shareable |-> "yes",
              address |-> <<<<"type", "drive">>, <<"unit", "1">>>>]
CdRom == [tag |-> "disk", type |-> "file", device |-> "cdrom", target_dev |-> "hdc",
          target_bus |-> "ide", readonly |-> "yes"]
NetworkDisk == [tag |-> "disk", type |-> "network", device |-> "disk", source_name |-> "pool/v",
                target_dev |-> "vdb"]
Network == [tag |-> "interface", type |-> "network", mac_address |-> "m1",
            source_network |-> "default", model_type |-> "virtio", filterref |-> "clean",
            inbound_average |-> 10, inbound_peak |-> 20]
Direct == [tag |-> "interface", type |-> "direct", mac_address |-> "m2", source_dev |-> "eth0",
           source_mode |-> "vepa", virtualport_type |-> "802.1Qbg", managerid |-> "1",
           typeid |-> "2", typeidversion |-> "3"]
Bridge == [tag |-> "interface", type |-> "bridge", mac_address |-> "m3", source_bridge |-> "br0",
           script_path |-> "vif-bridge"]
PtyConsole == [tag |-> "console", type |-> "pty", target_port |-> 0, target_type |-> "serial"]
TcpConsole == [tag |-> "console", type |-> "tcp", target_port |-> 1, target_type |-> "virtio",
               source_mode |-> "connect", protocol_type |-> "raw", source_host |-> "h",
               source_service |-> "2445"]
Vnc == [tag |-> "graphics", type |-> "vnc", port |-> "5901", listen |-> "0.0.0.0",
        keymap |-> "de", passwd |-> "secret", autoport |-> "no"]
Tablet == [tag |-> "input", type |-> "tablet", bus |-> "usb"]
Usb == [tag |-> "controller", type |-> "usb", index |-> 0, model |-> "ehci",
        address |-> <<<<"type", "pci">>, <<"slot", "3">>>>]
Serial == [tag |-> "controller", type |-> "virtio-serial", index |-> 0, ports |-> "4",
           vectors |-> "2", driver_queues |-> "8"]
Hostdev == [tag |-> "hostdev", source_dev |-> "0:1"]

KvmSys == [typestr |-> "kvm", os_type |-> "hvm", arch |-> "x86_64", machine |-> "pc-1.0",
           boot |-> <<"cdrom", "hd">>, acpi |-> "yes", hap |-> "yes"] @@ Sys

KvmGuest ==
    [sys |-> KvmSys,
     elements |-> Sized(2048, 1024, 2)
        \cup {FileDisk, Network, Direct, PtyConsole, Vnc, Tablet, Usb,
              [tag |-> "cputune", shares |-> 512],
              [tag |-> "emulator", path |-> "/usr/bin/qemu-kvm"]}]
\* The boot order is that of its devices.
QemuGuest ==
    [sys |-> [typestr |-> "qemu"] @@ Without(KvmSys, {"boot"}),
     elements |-> Sized(2048, 2048, 1)
        \cup {[boot_order |-> "1"] @@ BlockDisk, CdRom, PtyConsole, TcpConsole, Serial,
              [tag |-> "graphics", type |-> "sdl", display |-> ":0", xauth |-> "x"]}]
XenPvGuest ==
    [sys |-> [typestr |-> "xen", os_type |-> "linux", kernel |-> "/boot/k", initrd |-> "/boot/i",
              cmdline |-> "ro"] @@ Sys,
     elements |-> Sized(1024, 1024, 1) \cup {BlockDisk, Bridge,
        [PtyConsole EXCEPT !.target_type = "xen"]}]
XenFvGuest ==
    [sys |-> [typestr |-> "xen", os_type |-> "hvm", loader |-> "/usr/lib/xen/boot/hvmloader",
              boot |-> <<"hd">>, pae |-> "yes"] @@ [clock |-> "localtime"] @@ Sys,
     elements |-> Sized(1024, 512, 1) \cup {FileDisk, Bridge, Vnc}]
Container ==
    [sys |-> [typestr |-> "lxc", os_type |-> "exe", init |-> "/sbin/init"] @@ Sys,
     elements |-> Sized(512, 512, 1)
        \cup {[tag |-> "filesystem", type |-> "mount", source_dir |-> "/srv", target_dir |-> "/"],
              Network, [PtyConsole EXCEPT !.target_type = "lxc"]}]

MCGuests == {KvmGuest, QemuGuest, XenPvGuest, XenFvGuest, Container}

MCChanges ==
    [disk |-> {Empty, [Address |-> "/img/b"], [BusType |-> "ide"], [DriverCache |-> "writeback"],
               [readonly |-> "yes"], [EmulatedType |-> "cdrom"], [Address |-> "/none"],
               [VirtualDevice |-> "vdz"], [MountPoint |-> "/mnt", Address |-> "/img/b"]},
     net |-> {Empty, [ResourceSubType |-> "e1000"], [NetworkType |-> "bridge", NetworkName |-> "br1"],
              [PoolID |-> "isolated"], [NetworkName |-> "br2"], [NetworkType |-> "user"],
              [Reservation |-> 40], [SourceDevice |-> "eth1"], [VSIInstanceID |-> "5"]},
     mem |-> {Empty, [VirtualQuantity |-> 768], [Limit |-> 4096], [dumpCore |-> "off"],
              [VirtualQuantity |-> 1, AllocationUnits |-> "MegaBytes"], [Reservation |-> 700]},
     proc |-> {Empty, [VirtualQuantity |-> 4], [Weight |-> 256]},
     console |-> {Empty, [SourceType |-> "pty", SourcePath |-> "/dev/pts/4"], [SourceType |-> "pty"],
                  [SourceType |-> "unix", BindURL |-> <<"file", "/run/s">>],
                  [SourceType |-> "tcp", ConnectURL |-> <<"telnet", "h2", "23">>],
                  [SourceType |-> "udp", ConnectURL |-> <<"udp", "h3", "1">>,
                   BindURL |-> <<"udp", "h4">>]},
     graphics |-> {Empty, [Address |-> <<"127.0.0.1", "-1">>], [KeyMap |-> "en-us"],
                   [Password |-> "new"], [ResourceSubType |-> "sdl"]},
     input |-> {Empty, [ResourceSubType |-> "mouse", BusType |-> "ps2"], [BusType |-> "xen"]},
     controller |-> {Empty, [Model |-> "ich9"], [Index |-> 1], [Ports |-> "8"], [Queues |-> "2"]}]

MCNew ==
    {[class |-> "disk", VirtualDevice |-> "vdc", Address |-> "/img/b", DriverName |-> "qemu",
      DriverType |-> "raw"],
     [class |-> "disk", VirtualDevice |-> "vda", Address |-> "/img/b"],
     [class |-> "net", Address |-> "m9", NetworkType |-> "network", ResourceSubType |-> "e1000"],
     [class |-> "console", SourceType |-> "file", SourcePath |-> "/log"],
     [class |-> "input", ResourceSubType |-> "mouse", BusType |-> "usb"],
     [class |-> "controller", ResourceSubType |-> "usb", Index |-> 3]}

Processor == [class |-> "proc", VirtualQuantity |-> 2]
Memory == [class |-> "mem", VirtualQuantity |-> 1, AllocationUnits |-> "MegaBytes"]
OneDisk == [class |-> "disk", VirtualDevice |-> "vda", Address |-> "/img/a"]
MCSystems ==
    {[pfx |-> p, resources |-> r,
      vssd |-> [VirtualSystemIdentifier |-> "g"] @@ f] :
        p \in {"KVM", "Xen", "LXC"}, f \in {Empty, [IsFullVirt |-> "yes"]},
        r \in {<<Processor, Memory, OneDisk>>, <<OneDisk>>, <<Memory, Processor, OneDisk, OneDisk>>}}

MCSystemChanges ==
    {Empty, [AutomaticShutdownAction |-> "restart"], [ClockOffset |-> "localtime"],
     [EnableACPI |-> "no"], [BootDevices |-> <<"network">>], [UUID |-> "u2"], [UUID |-> ""],
     [CommandLine |-> "quiet"], [Emulator |-> "/none"], [InitPath |-> "/bin/sh"]}

MCOutside == {NetworkDisk, Hostdev}
=============================================================================
