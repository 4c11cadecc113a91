---------------------------- MODULE FilterRules ----------------------------
(***************************************************************************)
(* The rules of a network filter: what is read of a <rule> element         *)
(* (src/libxkutil/acl_parsing.c) and which properties of an instance it    *)
(* gives (src/src/Virt_FilterEntry.c).                                     *)
(*                                                                         *)
(* A rule is a protocol and the set of attributes that are written in it.  *)
(* An attribute of one end of a packet is a pair such as                   *)
(* <<"dst", "ipmask">>; its value is the attribute itself, so that a       *)
(* property of an instance names the attribute it was taken from.          *)
(***************************************************************************)
EXTENDS Integers

Ends == {"src", "dst"}
Mac == Ends \X {"macaddr", "macmask"}
Ip == Ends \X {"ipaddr", "ipmask"}
IpRange == Ends \X {"ipfrom", "ipto"}
Ports == Ends \X {"portstart", "portend"}
Single == {"any"} \X {"protocolid", "hwtype", "protocoltype", "opcode"}
ProtocolId == <<"any", "protocolid">>
Attributes == Mac \cup Ip \cup IpRange \cup Ports \cup Single
None == <<"none", "none">>

Protocols == {"mac", "arp", "ip", "tcp", "icmp", "none"}

\* The attributes that the parser of each protocol reads: that of an IP rule
\* looks for "dstmacmaks".  A child it does not know leaves the rule without
\* a type.
ReadBy == [
    mac  |-> Mac \cup {ProtocolId},
    arp  |-> Mac \cup (Single \ {ProtocolId}),
    ip   |-> (Mac \ {<<"dst", "macmask">>}) \cup Ip \cup Ports,
    tcp  |-> {<<"src", "macaddr">>} \cup Ip \cup IpRange \cup Ports,
    icmp |-> Mac \cup Ip \cup IpRange,
    none |-> {}]

\* parse_acl_rule; a field that was not read is NULL.
Parsed(rule) == [protocol |-> rule.protocol, v6 |-> rule.v6,
                 field |-> [a \in Attributes |->
                    IF a \in rule.written \cap ReadBy[rule.protocol] THEN a ELSE None]]

ClassOf == [mac |-> "Hdr8021Filter", arp |-> "Hdr8021Filter",
            ip |-> "IPHeadersFilter", tcp |-> "IPHeadersFilter",
            icmp |-> "IPHeadersFilter", none |-> "FilterEntry"]

\* Both kinds of link layer rule are read through the union's member for mac
\* rules, whose protocol_id is where the other has hw_type.
MacProperties(r) ==
    [a \in Mac \cup {ProtocolId} |->
        IF a = ProtocolId /\ r.protocol = "arp" THEN r.field[<<"any", "hwtype">>]
        ELSE r.field[a]]

\* fill_rule_data: the address of the destination's interface is taken from
\* the source's.
RuleData(r) ==
    [a \in Mac \cup Ip \cup IpRange \cup Ports |->
        IF a = <<"dst", "macaddr">> /\ r.protocol # "tcp"
        THEN r.field[<<"src", "macaddr">>] ELSE r.field[a]]

\* convert_ip_rule_to_instance: an address is the start of the range, when
\* both of its ends are given, and then there is no mask.
IpProperties(r) ==
    LET data == RuleData(r)
        ranged(e) == None \notin {data[<<e, "ipfrom">>], data[<<e, "ipto">>]}
    IN  [a \in (Ends \X {"address", "end", "mask"}) \cup Ports |->
            CASE a[2] = "address" ->
                   data[<<a[1], IF ranged(a[1]) THEN "ipfrom" ELSE "ipaddr">>]
              [] a[2] = "end" -> IF ranged(a[1]) THEN data[<<a[1], "ipto">>] ELSE None
              [] a[2] = "mask" -> IF ranged(a[1]) THEN None ELSE data[<<a[1], "ipmask">>]
              [] OTHER -> data[a]]

\* The numbers of the CIM schema.
ActionOf == [accept |-> 1, drop |-> 2, reject |-> 3, return |-> 4, continue |-> 5]
DirectionOf == [in |-> 1, out |-> 2, inout |-> 3]

\* convert_rule_to_instance
Entry(rule) ==
    LET r == Parsed(rule) IN
    [class |-> ClassOf[r.protocol],
     action |-> ActionOf[rule.action],
     direction |-> DirectionOf[rule.direction],
     version |-> IF r.v6 THEN 6 ELSE 4,
     shows |-> CASE r.protocol \in {"mac", "arp"} -> MacProperties(r)
                 [] r.protocol \in {"ip", "tcp", "icmp"} -> IpProperties(r)
                 [] OTHER -> <<>>]

=============================================================================
