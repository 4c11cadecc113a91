----------------------------- MODULE MCFilters -----------------------------
(***************************************************************************)
(* Filters with two rules: one of ARP, one of TCP with a range of sources. *)
(***************************************************************************)
EXTENDS Filters

MCRules ==
    {[protocol |-> "arp", v6 |-> FALSE, action |-> "drop", direction |-> "in",
      written |-> {<<"src", "macaddr">>, <<"any", "hwtype">>}],
     [protocol |-> "tcp", v6 |-> TRUE, action |-> "accept", direction |-> "inout",
      written |-> {<<"src", "ipfrom">>, <<"src", "ipto">>, <<"dst", "ipaddr">>}]}
=============================================================================
