-------------------------- MODULE LifecycleEvent --------------------------
(***************************************************************************)
(* The lifecycle-indication provider in the build with USE_LIBVIRT_EVENT   *)
(* (src/src/Virt_ComputerSystemIndication.c from line 1007).               *)
(*                                                                         *)
(* The thread of a platform registers a callback with libvirt, lists the   *)
(* guests, and runs libvirt's event loop; the callback keeps the list up   *)
(* to date and raises an indication for every event.  Events wait in a     *)
(* queue while the thread is elsewhere, and the callback gives the mutex   *)
(* up between looking a guest up and using what it found.                  *)
(***************************************************************************)
EXTENDS Integers, FiniteSets, Sequences

CONSTANTS
    Platforms, Threads, Domains, None,
    MaxSubs,        \* bound: filters of a platform active at once
    MaxDrift,       \* bound: how far active_filters may fall below subs
    MaxChanges,     \* bound: changes of guests and libvirt failures, together
    Faults          \* the calls that may fail

FaultKinds == {"prefix", "connect", "register", "newThread", "list", "xml", "deliver"}

ASSUME NoneAssumption == None \notin Threads \cup Platforms \cup Domains
ASSUME BoundsAssumption ==
    /\ {MaxSubs, MaxDrift, MaxChanges} \subseteq Nat
    /\ Faults \subseteq FaultKinds
\* libvirt counts the guests, and the list is an array.
ASSUME DomainsAssumption == IsFiniteSet(Domains)

VARIABLES
    enabled,        \* lifecycle_enabled
    mutex,          \* the thread that keeps lifecycle_mutex over several calls
    slot,           \* csi_thread_data[p]
    pc, plat,       \* where each thread is, and the slot it was started for
    cb,             \* the locals of the callback that a thread is in
    room,           \* the counts of the listing; one thread lists at a time
    host,           \* the hypervisors' guests
    queue,          \* events for the callback of a platform; registered or not
    subs,           \* filters the CIMOM was told are active
    missed,         \* history: guests that the callback could not follow
    told,           \* history: the last indication about a guest
    changes

vars == <<enabled, mutex, slot, pc, plat, cb, room, host, queue, subs, missed, told, changes>>
control == <<enabled, mutex, slot, subs>>
world == <<host, queue, changes>>
hist == <<missed, told>>

\* A transient guest runs without a definition.
HostStates == {"absent", "off", "on", "transient"}
Kinds == {"added", "updated", "undefined", "state"}
NoCallback == [of |-> None, kind |-> "none", dom |-> None, at |-> 0]
NoRoom == [off |-> 0, on |-> 0]
EmptySlot == [id |-> None, active |-> 0, args |-> "null", list |-> <<>>]

Init ==
    /\ enabled = FALSE
    /\ mutex = None
    /\ slot = [p \in Platforms |-> EmptySlot]
    /\ pc = [t \in Threads |-> "none"]
    /\ plat = [t \in Threads |-> None]
    /\ cb = [t \in Threads |-> NoCallback]
    /\ room = NoRoom
    /\ host \in [Platforms -> [Domains -> {"absent", "off", "on"}]]
    /\ queue = [p \in Platforms |-> [on |-> FALSE, events |-> <<>>]]
    /\ subs = [p \in Platforms |-> 0]
    /\ missed = [p \in Platforms |-> {}]
    /\ told = [p \in Platforms |-> [d \in Domains |-> "none"]]
    /\ changes = 0

-----------------------------------------------------------------------------
(***************************************************************************)
(* The CIMOM's calls, each one critical section.                           *)
(***************************************************************************)
SetEnabled(b) ==
    /\ mutex = None
    /\ enabled' = b
    /\ UNCHANGED <<mutex, slot, subs, pc, plat, cb, room, world, hist>>

JoinRunning(p) ==
    /\ slot[p].id # None
    /\ slot' = [slot EXCEPT ![p].active = @ + 1]
    /\ UNCHANGED <<pc, plat>>
StartThread(p) ==
    /\ slot[p].id = None
    /\ \E t \in Threads :
          /\ pc[t] = "none"
          /\ pc' = [pc EXCEPT ![t] = "start"]
          /\ plat' = [plat EXCEPT ![t] = p]
          /\ slot' = [slot EXCEPT ![p].id = t, ![p].active = @ + 1, ![p].args = "live"]
\* The arguments are freed, and thread->args keeps the pointer.
ThreadRefused(p) ==
    /\ "newThread" \in Faults
    /\ slot[p].id = None
    /\ subs[p] - slot[p].active < MaxDrift
    /\ slot' = [slot EXCEPT ![p].args = "freed"]
    /\ UNCHANGED <<pc, plat>>
ActivateFilter(p) ==
    /\ mutex = None
    /\ subs[p] < MaxSubs
    /\ subs' = [subs EXCEPT ![p] = @ + 1]
    /\ JoinRunning(p) \/ StartThread(p) \/ ThreadRefused(p)
    /\ UNCHANGED <<enabled, mutex, cb, room, world, hist>>

\* mutant: the last deactivation frees the arguments
DeActivateAndFree(p) ==
    /\ mutex = None
    /\ subs[p] > 0
    /\ subs' = [subs EXCEPT ![p] = @ - 1]
    /\ slot' = [slot EXCEPT ![p].active = @ - 1,
                            ![p].args = IF slot[p].active = 1 THEN "freed" ELSE @]
    /\ UNCHANGED <<enabled, mutex, pc, plat, cb, room, world, hist>>
DeActivateFilter(p) ==
    /\ mutex = None
    /\ subs[p] > 0
    /\ subs' = [subs EXCEPT ![p] = @ - 1]
    /\ slot' = [slot EXCEPT ![p].active = @ - 1]
    /\ UNCHANGED <<enabled, mutex, pc, plat, cb, room, world, hist>>

-----------------------------------------------------------------------------
(***************************************************************************)
(* libvirt.  A change of a guest is an event for the callback, if one is   *)
(* registered.  Starting, stopping and the like are one kind of event.     *)
(***************************************************************************)
Disturb == changes < MaxChanges /\ changes' = changes + 1

\* <<before, after, event>>
Steps == {<<"absent", "off", "added">>, <<"off", "absent", "undefined">>,
          <<"on", "transient", "undefined">>, <<"off", "off", "updated">>,
          <<"on", "on", "updated">>, <<"off", "on", "state">>, <<"on", "off", "state">>,
          <<"absent", "transient", "state">>, <<"transient", "absent", "state">>}
Persistent(s) == s \in {"off", "on"}

\* A guest that stops between the two calls of a listing is in neither list.
Slips(p, s) ==
    s = <<"on", "off", "state">> /\ \E t \in Threads : plat[t] = p /\ pc[t] = "listActive"
HostChange(p) ==
    /\ Disturb
    /\ \E d \in Domains, s \in Steps :
          /\ host[p][d] = s[1]
          /\ host' = [host EXCEPT ![p][d] = s[2]]
          /\ queue' = IF queue[p].on
                      THEN [queue EXCEPT ![p].events = Append(@, [dom |-> d, kind |-> s[3]])]
                      ELSE queue
          /\ missed' = IF Slips(p, s) THEN [missed EXCEPT ![p] = @ \cup {d}] ELSE missed
    /\ UNCHANGED <<control, pc, plat, cb, room, told>>

-----------------------------------------------------------------------------
(***************************************************************************)
(* lifecycle_thread.                                                       *)
(***************************************************************************)
Goto(t, from, to) == pc[t] = from /\ pc' = [pc EXCEPT ![t] = to]
Free == mutex = None

\* init_out and conn_out: the slot still has the id of the thread, its count
\* and its arguments.
GivesUp(t) ==
    /\ Faults \cap {"prefix", "connect"} # {}
    /\ Free
    /\ Goto(t, "start", "dead")
    /\ UNCHANGED <<control, plat, cb, room, world, hist>>

\* From here to the end of the listing the mutex is kept.
Register(t) ==
    /\ Free
    /\ Goto(t, "start", "count")
    /\ mutex' = t
    /\ queue' = [queue EXCEPT ![plat[t]] = [on |-> TRUE, events |-> <<>>]]
    /\ missed' = [missed EXCEPT ![plat[t]] = {}]
    /\ told' = [told EXCEPT ![plat[t]] = [d \in Domains |-> "none"]]
    /\ UNCHANGED <<enabled, slot, subs, plat, cb, room, host, changes>>
RegisterFails(t) ==
    /\ "register" \in Faults
    /\ Free
    /\ Goto(t, "start", "out")
    /\ UNCHANGED <<control, plat, cb, room, world, hist>>

\* The entry of a guest is the first with its uuid.
First(p, d) ==
    LET S == {i \in DOMAIN slot[p].list : slot[p].list[i].dom = d} IN
    IF S = {} THEN 0 ELSE CHOOSE i \in S : \A j \in S : i <= j

\* get_domain_list: the numbers of guests that are defined and do not run and
\* of those that run, then the ones and the others, a call apart.
In(p, S) == {d \in Domains : host[p][d] \in S}
CountDomains(t) ==
    /\ Goto(t, "count", "listInactive")
    /\ room' = [off |-> Cardinality(In(plat[t], {"off"})),
                on |-> Cardinality(In(plat[t], {"on", "transient"}))]
    /\ UNCHANGED <<control, plat, cb, world, hist>>

\* L is what a call that has room for n guests leaves of the guests S: a guest
\* whose lookup fails is left out.
Retrieved(S, L, n) ==
    /\ Cardinality(L) <= n
    /\ \/ (L = S \/ Cardinality(L) = n) /\ UNCHANGED changes
       \/ "list" \in Faults /\ Disturb
Overlooks(t, ds) == missed' = [missed EXCEPT ![plat[t]] = @ \cup
    {d \in ds : First(plat[t], d) = 0}]

\* update_domain_list makes an entry of each.
Listed(t, ds) == [slot EXCEPT ![plat[t]].list =
    @ \o CHOOSE q \in [1 .. Cardinality(ds) -> [dom : ds, xml : {TRUE}]] :
            {q[i].dom : i \in DOMAIN q} = ds]
ListInactive(t) ==
    LET S == In(plat[t], {"off"}) IN
    /\ Goto(t, "listInactive", "listActive")
    /\ \E L \in SUBSET S :
          Retrieved(S, L, room.off) /\ slot' = Listed(t, L) /\ Overlooks(t, S \ L)
    /\ UNCHANGED <<enabled, mutex, subs, plat, cb, room, host, queue, told>>
ListActive(t) ==
    LET S == In(plat[t], {"on", "transient"}) IN
    /\ Goto(t, "listActive", "describe")
    /\ \E L \in SUBSET S :
          Retrieved(S, L, room.on) /\ slot' = Listed(t, L) /\ Overlooks(t, S \ L)
    /\ room' = NoRoom
    /\ UNCHANGED <<enabled, mutex, subs, plat, cb, host, queue, told>>
\* A call that fails ends the list where it is, with no sign of the failure.
ListFails(t) ==
    /\ "list" \in Faults /\ Disturb
    /\ \E c \in {"count", "listInactive", "listActive"} : Goto(t, c, "describe")
    /\ Overlooks(t, In(plat[t], HostStates \ {"absent"}))
    /\ room' = NoRoom
    /\ UNCHANGED <<control, plat, cb, host, queue, told>>

Gone(t) ==
    LET p == plat[t] IN
    {i \in DOMAIN slot[p].list : host[p][slot[p].list[i].dom] = "absent"}
Describe(t) ==
    /\ Goto(t, "describe", "check")
    /\ Gone(t) = {}
    /\ mutex' = None
    /\ UNCHANGED <<enabled, slot, subs, plat, cb, room, world, hist>>
\* One guest that can not be described ends the thread.
DescribeFails(t) ==
    /\ Goto(t, "describe", "end")
    /\ mutex' = None
    /\ \/ Gone(t) # {} /\ UNCHANGED changes
       \/ "xml" \in Faults /\ slot[plat[t]].list # <<>> /\ Disturb
    /\ UNCHANGED <<enabled, slot, subs, plat, cb, room, host, queue, hist>>

\* The loop: a look at the count, and one run of libvirt's loop.
Check(t) ==
    /\ Free
    /\ Goto(t, "check", IF slot[plat[t]].active <= 0 THEN "end" ELSE "run")
    /\ UNCHANGED <<control, plat, cb, room, world, hist>>
LeaveRun(t) ==
    /\ Goto(t, "run", "check")
    /\ UNCHANGED <<control, plat, cb, room, world, hist>>

\* The deregistration frees the list and the arguments (csi_free_thread_data).
Deregister(t) ==
    /\ Free
    /\ Goto(t, "end", "out")
    /\ queue' = [queue EXCEPT ![plat[t]] = [on |-> FALSE, events |-> <<>>]]
    /\ slot' = [slot EXCEPT ![plat[t]].list = <<>>, ![plat[t]].args = "null"]
    /\ UNCHANGED <<enabled, mutex, subs, plat, cb, room, host, changes, hist>>

\* mutant: the id is left in the slot
OutKeepsId(t) ==
    /\ Free
    /\ Goto(t, "out", "none")
    /\ slot' = [slot EXCEPT ![plat[t]].active = 0, ![plat[t]].args = "null"]
    /\ plat' = [plat EXCEPT ![t] = None]
    /\ UNCHANGED <<enabled, mutex, subs, cb, room, world, hist>>
Out(t) ==
    /\ Free
    /\ Goto(t, "out", "none")
    /\ slot' = [slot EXCEPT ![plat[t]].id = None, ![plat[t]].active = 0,
                            ![plat[t]].args = "null"]
    /\ plat' = [plat EXCEPT ![t] = None]
    /\ UNCHANGED <<enabled, mutex, subs, cb, room, world, hist>>

-----------------------------------------------------------------------------
(***************************************************************************)
(* csi_domain_event_cb, in a thread that runs the loop.                    *)
(***************************************************************************)
Misses(t) == missed' = [missed EXCEPT ![cb[t].of] = @ \cup {cb[t].dom}]
EndOfCallback(t) == cb' = [cb EXCEPT ![t] = NoCallback]

\* libvirt has one loop: the thread of any platform may run the callback for the
\* events of p.  An event is dropped, and the list left as it is, while
\* indications are disabled or no filter is active.
Dispatch(t, p) ==
    LET e == Head(queue[p].events) IN
    /\ Free
    /\ pc[t] = "run" /\ queue[p].events # <<>>
    /\ queue' = [queue EXCEPT ![p].events = Tail(@)]
    /\ IF enabled /\ slot[p].active > 0
       THEN /\ pc' = [pc EXCEPT ![t] = "find"]
            /\ cb' = [cb EXCEPT ![t] = [of |-> p, kind |-> e.kind, dom |-> e.dom, at |-> 0]]
            /\ UNCHANGED missed
       ELSE /\ missed' = [missed EXCEPT ![p] = @ \cup {e.dom}]
            /\ UNCHANGED <<pc, cb>>
    /\ UNCHANGED <<control, plat, room, host, changes, told>>

\* Entries are never removed: the branch that would is inside the one for
\* definitions.  The uuid is asked of libvirt.
FindEntry(t) ==
    LET at == First(cb[t].of, cb[t].dom) IN
    /\ Free
    /\ pc[t] = "find" /\ cb[t].kind # "added"
    /\ \/ /\ (at = 0 /\ UNCHANGED changes) \/ ("xml" \in Faults /\ Disturb)
          /\ Goto(t, "find", "run") /\ EndOfCallback(t)
       \/ /\ at # 0 /\ UNCHANGED changes
          /\ Goto(t, "find", "send") /\ cb' = [cb EXCEPT ![t].at = at]
    /\ UNCHANGED <<control, plat, room, host, queue, hist>>

\* csi_dom_xml_new: a guest that has gone, or can not be described, is no more
\* thought of.
NewEntry(t) ==
    /\ Goto(t, "find", "send")
    /\ cb[t].kind = "added"
    /\ host[cb[t].of][cb[t].dom] # "absent"
    /\ UNCHANGED <<control, plat, cb, room, world, hist>>
NewEntryFails(t) ==
    /\ Goto(t, "find", "run")
    /\ cb[t].kind = "added"
    /\ \/ host[cb[t].of][cb[t].dom] = "absent" /\ UNCHANGED changes
       \/ "xml" \in Faults /\ Disturb
    /\ Misses(t) /\ EndOfCallback(t)
    /\ UNCHANGED <<control, plat, room, host, queue, told>>

\* async_ind: an entry without xml has no Deleted indication, and can only be
\* modified while the guest is there.  Whatever does not reach the CIMOM is lost,
\* and the callback goes on as if it had.
IndicationOf == [added |-> "created", updated |-> "modified", state |-> "modified",
                 undefined |-> "deleted"]
HasXml(t) == cb[t].at # 0 => slot[cb[t].of].list[cb[t].at].xml
Deliverable(t) ==
    \/ HasXml(t)
    \/ cb[t].kind # "undefined" /\ host[cb[t].of][cb[t].dom] # "absent"
Delivered(t) == enabled /\ Deliverable(t) /\ UNCHANGED changes
NotDelivered(t) ==
    \/ ~(enabled /\ Deliverable(t)) /\ UNCHANGED changes
    \/ "deliver" \in Faults /\ Disturb
Tell(t, r) == told' = [told EXCEPT ![cb[t].of][cb[t].dom] = r]
async_ind(t) ==
    /\ Free
    /\ Goto(t, "send", "update")
    /\ \/ Delivered(t) /\ Tell(t, IndicationOf[cb[t].kind])
       \/ NotDelivered(t) /\ Tell(t, "lost")
    /\ UNCHANGED <<control, plat, cb, room, host, queue, missed>>

\* The xml that an update leaves in the entry: none when the guest is gone, or
\* libvirt does not give it.
Redescribed(t) ==
    LET h == host[cb[t].of][cb[t].dom] IN
    {h # "absent"} \cup {FALSE : f \in Faults \cap {"xml"}}
\* mutant: the branch for a removed guest comes first; the two details have
\* the same number
EntriesSwapped(t) ==
    LET L == slot[cb[t].of].list IN
    CASE cb[t].kind = "added" -> {SelectSeq(L, LAMBDA e : e.dom # cb[t].dom)}
      [] cb[t].kind = "updated" ->
            {[L EXCEPT ![cb[t].at].xml = x] : x \in Redescribed(t)}
      [] OTHER -> {L}
Entries(t) ==
    LET L == slot[cb[t].of].list IN
    CASE cb[t].kind = "added" -> {Append(L, [dom |-> cb[t].dom, xml |-> TRUE])}
      [] cb[t].kind = "updated" ->
            {[L EXCEPT ![cb[t].at].xml = x] : x \in Redescribed(t)}
      [] OTHER -> {L}
UpdateList(t) ==
    /\ Free
    /\ Goto(t, "update", "run")
    /\ \E L \in Entries(t) : slot' = [slot EXCEPT ![cb[t].of].list = L]
    /\ EndOfCallback(t)
    /\ UNCHANGED <<enabled, mutex, subs, plat, room, world, hist>>

-----------------------------------------------------------------------------
Calls == \/ \E b \in BOOLEAN : SetEnabled(b)
         \/ \E p \in Platforms : ActivateFilter(p) \/ DeActivateFilter(p)
Thread(t) ==
    \/ GivesUp(t) \/ Register(t) \/ RegisterFails(t) \/ CountDomains(t)
    \/ ListInactive(t) \/ ListActive(t) \/ ListFails(t) \/ Describe(t) \/ DescribeFails(t)
    \/ Check(t) \/ LeaveRun(t) \/ Deregister(t) \/ Out(t)
Callback(t) ==
    \/ \E p \in Platforms : Dispatch(t, p)
    \/ FindEntry(t) \/ NewEntry(t) \/ NewEntryFails(t) \/ async_ind(t)
    \/ UpdateList(t)
Next ==
    \/ Calls
    \/ \E p \in Platforms : HostChange(p)
    \/ \E t \in Threads : Thread(t) \/ Callback(t)
Spec == Init /\ [][Next]_vars

-----------------------------------------------------------------------------
Listing == {"count", "listInactive", "listActive", "describe"}
InCallback == {"find", "send", "update"}
Running == Listing \cup InCallback \cup {"start", "check", "run", "end", "out"}

(***************************************************************************)
(* Every variable has its type; while the callback runs, the arguments and *)
(* the entry it holds a pointer to are there, though it has given the      *)
(* mutex up in between.                                                    *)
(***************************************************************************)
TypeOK ==
    /\ enabled \in BOOLEAN
    /\ mutex \in Threads \cup {None}
    /\ room \in [off : Nat, on : Nat]
    /\ \A p \in Platforms :
          /\ slot[p].id \in Threads \cup {None} /\ slot[p].active \in Int
          /\ slot[p].args \in {"null", "live", "freed"}
          /\ \A i \in DOMAIN slot[p].list :
                slot[p].list[i] \in [dom : Domains, xml : BOOLEAN]
          /\ subs[p] \in 0 .. MaxSubs
          /\ missed[p] \subseteq Domains
          /\ \A i \in DOMAIN queue[p].events :
                queue[p].events[i] \in [dom : Domains, kind : Kinds]
    /\ host \in [Platforms -> [Domains -> HostStates]]
    /\ \A t \in Threads :
          /\ pc[t] \in Running \cup {"none", "dead"}
          /\ mutex = t <=> pc[t] \in Listing
          /\ pc[t] \in InCallback =>
                /\ cb[t].kind \in Kinds
                /\ slot[cb[t].of].args = "live"
                /\ cb[t].at <= Len(slot[cb[t].of].list)

(***************************************************************************)
(* The id in a slot is that of a thread that runs for it, which is what    *)
(* ActivateFilter takes it for, or of one that gave up before it           *)
(* registered (lifecycle_thread, its three ways out); and no thread runs   *)
(* for a slot that has another id.                                         *)
(***************************************************************************)
SlotServed ==
    /\ \A p \in Platforms : slot[p].id # None =>
          pc[slot[p].id] \in Running \cup {"dead"} /\ plat[slot[p].id] = p
    /\ \A t \in Threads : pc[t] \in Running => slot[plat[t]].id = t

(***************************************************************************)
(* While the loop runs, a guest that is defined and has no event waiting   *)
(* is in the list, so that its next event raises an indication, and the    *)
(* last indication about it did not tell a client that it was deleted      *)
(* (csi_domain_event_cb, which keeps the list whether or not an            *)
(* indication is delivered).  Left out are guests of which an event came   *)
(* while indications were off, whose definition libvirt did not describe,  *)
(* or that the listing overlooked: they stopped between its two calls, it  *)
(* had no room for them, or it failed (update_domain_list, which succeeds  *)
(* all the same).                                                          *)
(***************************************************************************)
Waiting(p, d) ==
    \/ \E i \in DOMAIN queue[p].events : queue[p].events[i].dom = d
    \/ \E t \in Threads : cb[t].of = p /\ cb[t].dom = d
KnownGuests ==
    \A t \in Threads : pc[t] \in {"check", "run"} =>
        LET p == plat[t] IN
        \A d \in Domains \ missed[p] :
            Persistent(host[p][d]) /\ ~Waiting(p, d) =>
                First(p, d) # 0 /\ told[p][d] # "deleted"
=============================================================================
