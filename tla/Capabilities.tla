---------------------------- MODULE Capabilities ----------------------------
(***************************************************************************)
(* What a host can run, as libvirt's capabilities say it                   *)
(* (src/libxkutil/capability_parsing.c), and the defaults that are taken   *)
(* of it for a guest whose settings leave them out.                        *)
(*                                                                         *)
(* Capabilities are [cpu_arch, guests]; a guest is [ostype, arch,          *)
(* default_info, domains], a domain [typestr, info], and an information is *)
(* a partial function of "emulator", "loader" and "machines", a sequence   *)
(* of [name, canonical_name].                                              *)
(***************************************************************************)
EXTENDS DomainXml, SequencesExt

\* Machines of the default that the domain has none of the name of, after
\* its own.
compare_copy_domain_info_machines(default, own) ==
    own \o SelectSeq(default, LAMBDA m : \A i \in DOMAIN own : own[i].name # m.name)

Machines(info) == IF Has(info, "machines") THEN info.machines ELSE << >>

\* A domain inherits of its guest what it does not say itself.
Extended(info, default) ==
    [machines |-> compare_copy_domain_info_machines(Machines(default), Machines(info))]
        @@ Only(info, {"emulator", "loader"}) @@ Only(default, {"emulator", "loader"})

extend_defaults_cap_guests(caps) ==
    [caps EXCEPT !.guests =
        [i \in DOMAIN caps.guests |->
            [caps.guests[i] EXCEPT !.domains =
                [j \in DOMAIN caps.guests[i].domains |->
                    [caps.guests[i].domains[j] EXCEPT
                        !.info = Extended(@, caps.guests[i].default_info)]]]]]

\* Capabilities without a host processor, or without a guest, are none.
get_caps_from_xml(caps) ==
    IF Has(caps, "cpu_arch") /\ caps.guests # << >>
    THEN {extend_defaults_cap_guests(caps)} ELSE {}

\* The information of the first domain that fits; "any" fits all.
findDomainInfo(caps, os_type, arch, domain_type) ==
    LET Fits(g) == os_type \in {"any", g.ostype} /\ arch \in {"any", g.arch}
        domains == FoldLeft(LAMBDA all, g : all \o g.domains, << >>, SelectSeq(caps.guests, Fits))
        fit == SelectSeq(domains, LAMBDA d : domain_type \in {"any", d.typestr})
    IN  IF fit = << >> THEN {} ELSE {Head(fit).info}

_findDefArch(caps, os_type, host_arch) ==
    LET fit == SelectSeq(caps.guests, LAMBDA g : g.ostype = os_type
                                                    /\ host_arch \in {"any", g.arch})
    IN  IF fit = << >> THEN {} ELSE {Head(fit).arch}

\* Defaults are sets of at most one value: none is NULL.
get_default_arch(caps, os_type) ==
    LET host == _findDefArch(caps, os_type, caps.cpu_arch)
    IN  IF host # {} THEN host ELSE _findDefArch(caps, os_type, "any")

Canonical(m) == IF Has(m, "canonical_name") THEN m.canonical_name ELSE m.name
get_default_machine(caps, os_type, arch, domain_type) ==
    {Canonical(Head(di.machines)) :
        di \in {d \in findDomainInfo(caps, os_type, arch, domain_type) : d.machines # << >>}}

get_default_emulator(caps, os_type, arch, domain_type) ==
    {di.emulator : di \in {d \in findDomainInfo(caps, os_type, arch, domain_type) :
                                Has(d, "emulator")}}

host_supports_kvm(caps) == findDomainInfo(caps, "any", "any", "kvm") # {}
use_kvm(caps, disabled) == host_supports_kvm(caps) /\ ~ disabled
=============================================================================
