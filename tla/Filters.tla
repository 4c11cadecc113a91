------------------------------ MODULE Filters ------------------------------
(***************************************************************************)
(* Network filters: the lists, the references from one to another and to   *)
(* the interfaces of a guest (src/src/Virt_FilterList.c,                   *)
(* Virt_NestedFilterList.c, Virt_AppliedFilterList.c,                      *)
(* Virt_EntriesInFilterList.c, Virt_HostedFilterList.c, Virt_FilterEntry.c *)
(* and src/libxkutil/acl_parsing.c).                                       *)
(*                                                                         *)
(* A reference is created or deleted by reading the definition of a filter *)
(* or of a guest, changing it, and defining the whole again; the           *)
(* definition of a filter is written without its rules.                    *)
(***************************************************************************)
EXTENDS FilterRules, FiniteSets, TLC

CONSTANTS
    Calls,          \* threads of the CIMOM in a request
    Names,          \* names of filters
    Devs,           \* network interfaces of the guest
    Rules,          \* the rules that a filter may have
    NoName,
    MaxOps,         \* bound: requests
    MaxOutside,     \* bound: what operators do
    Faults          \* the calls that may fail

FaultKinds == {"list", "lookup", "define", "domain"}

ASSUME FiltersAssumption ==
    /\ IsFiniteSet(Names) /\ NoName \notin Names
    /\ \A r \in Rules : r.protocol \in Protocols /\ r.written \subseteq Attributes
    /\ {MaxOps, MaxOutside} \subseteq Nat /\ Faults \subseteq FaultKinds

VARIABLES
    filter,         \* libvirt's filters
    guest,          \* whether the guest is defined, the filters of its interfaces
    call,           \* the locals and the position of each request, and its history
    made,           \* how many filters there were: every definition has its uuid
    ops,            \* requests so far
    outside         \* changes by operators so far

vars == <<filter, guest, call, made, ops, outside>>

\* "twice" marks a filter that has a reference twice.
NoFilter == [id |-> 0, refs |-> {}, twice |-> FALSE, rules |-> {}]
Readable(n) == filter[n].id # 0 /\ ~filter[n].twice
There == {n \in Names : filter[n].id # 0}

\* The history of a request: the filters that nobody changed since it began to
\* list and that could be looked up, whether nobody else changed anything at all,
\* and whether something happened that may end a listing early.
NoCall == [pc |-> "idle", op |-> "get", n |-> NoName, m |-> NoName, dev |-> NoName,
           id |-> 0, refs |-> {}, net |-> <<>>, room |-> 0, todo |-> {}, got |-> {},
           steady |-> {}, alone |-> FALSE, churn |-> FALSE]

\* libvirt refuses references in a circle; those to no filter it takes.
LoopFree(F) ==
    \A S \in SUBSET Names \ {{}} : \E n \in S : F[n].refs \cap S = {}

Init ==
    /\ filter \in [Names -> {NoFilter} \cup
                      {[id |-> 1, refs |-> R, twice |-> FALSE, rules |-> Rules] :
                          R \in {{}} \cup {{n} : n \in Names}}]
    /\ LoopFree(filter) /\ Cardinality(There) < Cardinality(Names)
    /\ guest = [there |-> TRUE, net |-> [d \in Devs |-> NoName]]
    /\ call = [c \in Calls |-> NoCall]
    /\ made = 1
    /\ ops = 0 /\ outside = 0

-----------------------------------------------------------------------------
At(c, pc) == call[c].pc = pc
Listings == {"enum", "parents", "entries", "owner"}
Changing == {"create", "nest", "unnest", "apply", "unapply"}

\* What a change of the filter n to f means to a request of another.
Running(r) == r.pc \notin {"idle", "done"}
Met(r, n, f) ==
    IF ~Running(r) THEN r
    ELSE [r EXCEPT !.alone = FALSE,
                   !.steady = IF f = filter[n] THEN @ ELSE @ \ {n},
                   !.churn = \/ @
                             \/ /\ r.op \in Listings
                                /\ \/ f.twice \/ f.id = 0
                                   \/ filter[n].id = 0 /\ r.pc = "list"]
Change(who, after, n, f) ==
    /\ filter' = [filter EXCEPT ![n] = f]
    /\ call' = [c \in Calls |-> IF c = who THEN after ELSE Met(call[c], n, f)]
    /\ UNCHANGED guest
ChangeGuest(who, after, g) ==
    /\ guest' = g
    /\ call' = [c \in Calls |-> IF c = who THEN after
                               ELSE [call[c] EXCEPT !.alone = FALSE]]
    /\ UNCHANGED filter

\* Operators of the host.
Outside ==
    /\ outside < MaxOutside
    /\ outside' = outside + 1
    /\ UNCHANGED ops
    /\ \/ /\ UNCHANGED made
          /\ \E n \in Names : filter[n].id # 0 /\ Change("host", NoCall, n, NoFilter)
       \/ \E n, m \in Names, twice \in BOOLEAN :
             LET f == [id |-> IF filter[n].id = 0 THEN made + 1 ELSE filter[n].id,
                       refs |-> {m}, twice |-> twice, rules |-> Rules] IN
             /\ LoopFree([filter EXCEPT ![n] = f])
             /\ Change("host", NoCall, n, f)
             /\ made' = made + 1
       \/ /\ UNCHANGED made
          /\ \/ \E d \in Devs, n \in Names : guest.there /\
                   ChangeGuest("host", NoCall, [guest EXCEPT !.net[d] = n])
             \/ ChangeGuest("host", NoCall, [there |-> ~guest.there,
                                             net |-> [d \in Devs |-> NoName]])

-----------------------------------------------------------------------------
(***************************************************************************)
(* Requests.                                                               *)
(***************************************************************************)
\* A request returns; only whether it worked is kept.
Moved(r, to) ==
    CASE to = "failed" -> NoCall
      [] to = "done" -> [NoCall EXCEPT !.pc = to]
      [] OTHER -> [r EXCEPT !.pc = to]
Goes(c, r, to) ==
    /\ call' = [call EXCEPT ![c] = Moved(r, to)]
    /\ UNCHANGED <<filter, guest, made, ops, outside>>

Begin(c, r) ==
    /\ ~Running(call[c])
    /\ ops < MaxOps
    /\ ops' = ops + 1
    /\ call' = [call EXCEPT ![c] =
          [r EXCEPT !.steady = IF r.op = "children" THEN There ELSE {},
                    !.alone = r.op \in Changing,
                    !.churn = r.op \in Listings /\ \E n \in There : filter[n].twice]]
    /\ UNCHANGED <<filter, guest, made, outside>>

\* Missing properties, no connection, and a rule by its name: the pattern
\* that takes a rule's name apart takes nothing apart (parse_rule_id).
BadRequest(c) == Begin(c, NoCall)
get_rule_by_ref(c) == Begin(c, NoCall)

Lookup(op, n) == [NoCall EXCEPT !.pc = "look", !.op = op, !.n = n]
CreateFilter(c) == \E n \in Names : Begin(c, Lookup("create", n))
DeleteFilter(c) == \E n \in Names : Begin(c, Lookup("delete", n))
get_filter_by_ref(c) == \E n \in Names : Begin(c, Lookup("get", n))
list_to_rule(c) == \E n \in Names : Begin(c, Lookup("rules", n))

parent_to_child(c) == \E n \in Names : Begin(c, Lookup("children", n))
CreateNested(c) == \E n, m \in Names : Begin(c, [Lookup("nest", n) EXCEPT !.m = m])
DeleteNested(c) == \E n, m \in Names : Begin(c, [Lookup("unnest", n) EXCEPT !.m = m])

CreateApplied(c) ==
    \E n \in Names, d \in Devs : Begin(c, [Lookup("apply", n) EXCEPT !.dev = d])
DeleteApplied(c) ==
    \E n \in Names, d \in Devs : Begin(c, [Lookup("unapply", n) EXCEPT !.dev = d])
list_to_net(c) == \E n \in Names : Begin(c, Lookup("nets", n))
net_to_list(c) ==
    \E d \in Devs : Begin(c, [Lookup("lists", NoName) EXCEPT !.pc = "net", !.dev = d])

Listing(op, m) == [NoCall EXCEPT !.pc = "count", !.op = op, !.m = m]
enum_filter_lists(c) == Begin(c, Listing("enum", NoName))
enum_filter_rules(c) == Begin(c, Listing("entries", NoName))
child_to_parent(c) == \E m \in Names : Begin(c, Listing("parents", m))
rule_to_list(c) == \E m \in Names : Begin(c, Listing("owner", m))

(***************************************************************************)
(* get_filter_by_name: a filter that is not there, can not be read or is   *)
(* not understood are the same to the caller.                              *)
(***************************************************************************)
Found(n) == {b \in BOOLEAN : IF b THEN Readable(n)
                             ELSE ~Readable(n) \/ "lookup" \in Faults}
IfFound == [create |-> "failed", delete |-> "undefine", get |-> "done",
            nest |-> "child", unnest |-> "child", apply |-> "domain",
            unapply |-> "domain", children |-> "fetch", nets |-> "done",
            lists |-> "done", rules |-> "done"]
IfMissing == [op \in DOMAIN IfFound |->
    CASE op = "create" -> "define"
      [] op \in {"children", "nets", "lists", "rules"} -> "done"
      [] OTHER -> "failed"]

\* What is used of a filter that is found: its references, and its uuid if it is
\* to be defined again.
Read(r) ==
    [r EXCEPT !.id = IF r.op \in {"nest", "unnest"} THEN filter[r.n].id ELSE 0,
              !.refs = IF r.op \in {"nest", "unnest", "children"} THEN filter[r.n].refs
                       ELSE {},
              !.todo = IF r.op = "children" THEN filter[r.n].refs ELSE {}]
Look(c) ==
    LET r == call[c] IN
    /\ At(c, "look")
    /\ \E found \in Found(r.n) :
          IF found THEN Goes(c, Read(r), IfFound[r.op])
          ELSE Goes(c, r, IfMissing[r.op])

\* The other filter of a reference must be there, also to remove it; a
\* reference that is there is not added again, and one that is not is removed
\* from a filter that has others.
Changeable(r) == IF r.op = "nest" THEN r.m \notin r.refs ELSE r.refs # {}
LookChild(c) ==
    LET r == call[c] IN
    /\ At(c, "child")
    /\ \E found \in Found(r.m) :
          Goes(c, [r EXCEPT !.refs = IF r.op = "nest" THEN @ \cup {r.m} ELSE @ \ {r.m}],
               IF found /\ Changeable(r) THEN "define" ELSE "failed")

(***************************************************************************)
(* create_filter, which is update_filter: the name, the uuid that was read *)
(* and the references.  A new filter has no uuid.  libvirt refuses a name  *)
(* with another uuid; one whose uuid is gone is defined again.             *)
(***************************************************************************)
Written(c) ==
    LET r == call[c] IN
    [id |-> IF r.op = "create" THEN made + 1 ELSE r.id,
     refs |-> r.refs, twice |-> FALSE, rules |-> {}]
Define(c) ==
    LET n == call[c].n
        f == Written(c) IN
    /\ At(c, "define")
    /\ filter[n].id \in {0, f.id} /\ LoopFree([filter EXCEPT ![n] = f])
    /\ Change(c, Moved(call[c], "done"), n, f)
    /\ made' = IF call[c].op = "create" THEN made + 1 ELSE made
    /\ UNCHANGED <<ops, outside>>
DefineFails(c) ==
    LET n == call[c].n IN
    /\ At(c, "define")
    /\ \/ "define" \in Faults \/ filter[n].id \notin {0, Written(c).id}
       \/ ~LoopFree([filter EXCEPT ![n] = Written(c)])
    /\ Goes(c, call[c], "failed")

\* delete_filter looks the name up again.  Success is taken for a failure, and
\* both are answered with success.
Undefine(c) ==
    /\ At(c, "undefine")
    /\ \/ /\ Change(c, Moved(call[c], "done"), call[c].n, NoFilter)
          /\ UNCHANGED <<made, ops, outside>>
       \/ Goes(c, call[c], "done")

(***************************************************************************)
(* AppliedFilterList: the definition of the guest is read, the filter of   *)
(* one interface set or cleared, whichever it was, and the whole defined.  *)
(* A guest that is not found, and a definition that fails, are answered    *)
(* with success.                                                           *)
(***************************************************************************)
ReadDomain(c) ==
    /\ At(c, "domain")
    /\ IF guest.there
       THEN Goes(c, [call[c] EXCEPT !.net = guest.net], "redefine")
       ELSE Goes(c, call[c], "done")
\* mutant: the filters of all interfaces are cleared
update_domain_all(c) ==
    LET r == call[c] IN
    /\ At(c, "redefine")
    /\ \/ /\ ChangeGuest(c, Moved(r, "done"), [there |-> TRUE, net |->
                [d \in Devs |-> IF d = r.dev /\ r.op = "apply" THEN r.n ELSE NoName]])
          /\ UNCHANGED <<made, ops, outside>>
       \/ "domain" \in Faults /\ Goes(c, r, "done")
update_domain(c) ==
    LET r == call[c] IN
    /\ At(c, "redefine")
    /\ \/ /\ ChangeGuest(c, Moved(r, "done"), [there |-> TRUE, net |->
                [r.net EXCEPT ![r.dev] = IF r.op = "apply" THEN r.n ELSE NoName]])
          /\ UNCHANGED <<made, ops, outside>>
       \/ "domain" \in Faults /\ Goes(c, r, "done")

\* net_to_list reads the guest, and then the filter of its interface.
ReadInterface(c) ==
    /\ At(c, "net")
    /\ IF guest.there /\ guest.net[call[c].dev] # NoName
       THEN Goes(c, [call[c] EXCEPT !.n = guest.net[call[c].dev]], "look")
       ELSE Goes(c, call[c], "done")

(***************************************************************************)
(* get_filters: as many names as were counted, each looked up in turn; the *)
(* first that is not found ends the list.  child_to_parent, the rules of   *)
(* all filters and the filter of a rule are taken from that list.          *)
(***************************************************************************)
Adds(r, n) ==
    CASE r.op \in {"enum", "children"} -> {n}
      [] r.op = "parents" -> IF r.m \in filter[n].refs THEN {n} ELSE {}
      [] r.op = "entries" -> {Entry(rule) : rule \in filter[n].rules}
      [] r.op = "owner" -> IF n = r.m /\ filter[n].rules # {} THEN {n} ELSE {}

Count(c) ==
    /\ At(c, "count")
    /\ Goes(c, [call[c] EXCEPT !.room = Cardinality(There), !.steady = There], "list")
\* Counting fails with a negative number, listing with names that are not set:
\* either way the list is empty, and nobody is told.
ListFails(c) ==
    /\ "list" \in Faults
    /\ At(c, "count")
    /\ Goes(c, [call[c] EXCEPT !.churn = TRUE], "fetch")
Listed(c) ==
    {T \in SUBSET There :
        Cardinality(T) = IF Cardinality(There) < call[c].room
                         THEN Cardinality(There) ELSE call[c].room}
List(c) ==
    /\ At(c, "list")
    /\ \E T \in Listed(c) : Goes(c, [call[c] EXCEPT !.todo = T, !.room = 0], "fetch")

\* mutant: parent_to_child ends at a filter that is not found
StopsAll(r) == TRUE
\* A filter that is not found ends a list, while parent_to_child passes over it.
Stops(r) == r.op \in Listings
Fetch(c) ==
    LET r == call[c] IN
    /\ At(c, "fetch") /\ r.todo # {}
    /\ \E n \in r.todo : \E found \in Found(n) :
          Goes(c, IF found THEN [r EXCEPT !.todo = @ \ {n}, !.got = @ \cup Adds(r, n)]
                  ELSE [r EXCEPT !.todo = IF Stops(r) THEN {} ELSE @ \ {n},
                                 !.steady = @ \ {n}, !.churn = @ \/ (Stops(r) /\ Readable(n))],
               "fetch")
Answered(c) == At(c, "fetch") /\ call[c].todo = {}
ReturnAnswer(c) == Answered(c) /\ Goes(c, call[c], "done")

-----------------------------------------------------------------------------
Requests(c) ==
    \/ BadRequest(c) \/ get_rule_by_ref(c)
    \/ CreateFilter(c) \/ DeleteFilter(c) \/ get_filter_by_ref(c) \/ list_to_rule(c)
    \/ parent_to_child(c) \/ CreateNested(c) \/ DeleteNested(c)
    \/ CreateApplied(c) \/ DeleteApplied(c) \/ list_to_net(c) \/ net_to_list(c)
    \/ enum_filter_lists(c) \/ enum_filter_rules(c) \/ child_to_parent(c)
    \/ rule_to_list(c)
Next ==
    \/ Outside
    \/ \E c \in Calls :
          \/ Requests(c) \/ Look(c) \/ LookChild(c) \/ Define(c) \/ DefineFails(c)
          \/ Undefine(c) \/ ReadDomain(c) \/ update_domain(c) \/ ReadInterface(c)
          \/ Count(c) \/ ListFails(c) \/ List(c) \/ Fetch(c) \/ ReturnAnswer(c)
Spec == Init /\ [][Next]_vars

-----------------------------------------------------------------------------
Places == {"idle", "look", "child", "define", "undefine", "domain", "redefine",
           "net", "count", "list", "fetch", "done"}

(***************************************************************************)
(* Every variable has its type, no filter refers to itself over others,    *)
(* and what is to be defined with a uuid was read with one.                *)
(***************************************************************************)
TypeOK ==
    /\ filter \in [Names -> [id : 0 .. made, refs : SUBSET Names, twice : BOOLEAN,
                             rules : SUBSET Rules]]
    /\ \A n \in Names : filter[n].id = 0 => filter[n] = NoFilter
    /\ LoopFree(filter)
    /\ guest \in [there : BOOLEAN, net : [Devs -> Names \cup {NoName}]]
    /\ \A c \in Calls :
          LET r == call[c] IN
          /\ r.pc \in Places /\ r.id \in 0 .. made
          /\ {r.refs, r.todo, r.steady} \subseteq SUBSET Names
          /\ r.pc = "redefine" => r.net \in [Devs -> Names \cup {NoName}]
          /\ r.pc = "define" => (r.op = "create" <=> r.id = 0)

(***************************************************************************)
(* When nobody else changes anything meanwhile, adding or removing a       *)
(* reference changes that reference: no other filter, no other reference,  *)
(* not the uuid (append_filter_ref, remove_filter_ref), no other interface *)
(* (CreateInstance and DeleteInstance of AppliedFilterList).               *)
(***************************************************************************)
Differ(S, T) == (S \ T) \cup (T \ S)
ChangeIsExact ==
    [][\A c \in Calls :
          LET r == call[c] IN
          r.alone /\ call'[c].pc = "done" =>
          /\ At(c, "define") =>
                /\ \A n \in Names \ {r.n} : filter'[n] = filter[n]
                /\ r.op # "create" => filter'[r.n].id = filter[r.n].id
                /\ Differ(filter[r.n].refs, filter'[r.n].refs) \subseteq {r.m}
                /\ r.op # "create" => (r.m \in filter'[r.n].refs <=> r.op = "nest")
          /\ At(c, "redefine") =>
                /\ \A d \in Devs \ {r.dev} : guest'.net[d] = guest.net[d]
                /\ guest'.net[r.dev] \in {guest.net[r.dev], NoName, r.n}
      ]_vars

(***************************************************************************)
(* An answer made from a list has what every filter adds that was there    *)
(* from the count on and was not changed, unless the filters could not be  *)
(* counted, listed or looked up, or one was deleted, created between the   *)
(* count and the list, or is not understood.  The answer of                *)
(* parent_to_child has it even then, but for a filter whose own lookup     *)
(* failed.                                                                 *)
(***************************************************************************)
AnswerComplete ==
    \A c \in Calls :
        LET r == call[c] IN
        Answered(c) =>
        /\ r.op \in Listings /\ ~r.churn =>
              \A n \in r.steady : Adds(r, n) \subseteq r.got
        /\ r.op = "children" =>
              \A n \in r.steady \cap r.refs : Readable(n) => n \in r.got

Symmetric == Permutations(Calls) \cup Permutations(Names) \cup Permutations(Devs)
=============================================================================
