------------------------------ MODULE Lifecycle ------------------------------
(***************************************************************************)
(* The lifecycle-indication provider of libvirt-cim in the build without   *)
(* USE_LIBVIRT_EVENT (src/src/Virt_ComputerSystemIndication.c).            *)
(*                                                                         *)
(* The CIMOM activates and deactivates indication filters; the first       *)
(* filter of a platform (Xen, KVM, LXC) starts a poller thread, which      *)
(* compares successive listings of the platform's domains and raises a     *)
(* Created, Deleted or Modified indication for every difference.  The      *)
(* pollers of all platforms share one mutex and one condition variable.    *)
(* A poller keeps the mutex while it lists and delivers, but the           *)
(* hypervisor does not: a domain may change between any two libvirt calls. *)
(***************************************************************************)
EXTENDS Integers, FiniteSets

CONSTANTS
    Platforms,      \* hypervisor platforms with a slot in csi_thread_data
    Threads,        \* identities newThread can return
    Domains,        \* domains that may exist on a platform
    None,           \* no thread, no platform, or a zeroed uuid
    MaxSubs,        \* bound: filters of a platform active at once
    MaxDrift,       \* bound: how far active_filters may fall below subs
    MaxChanges,     \* bound: domain changes and libvirt failures, together
    Faults          \* the calls that may fail, a subset of FaultKinds

FaultKinds ==
    {"prefix", "connect", "newThread", "list", "xml", "build", "deliver"}

ASSUME NoneAssumption == None \notin Threads \cup Platforms \cup Domains
ASSUME DomainsAssumption == IsFiniteSet(Domains)
ASSUME BoundsAssumption ==
    /\ MaxSubs \in Nat /\ MaxDrift \in Nat /\ MaxChanges \in Nat
    /\ Faults \subseteq FaultKinds

VARIABLES
    enabled,        \* lifecycle_enabled
    mutex,          \* the thread that holds lifecycle_mutex, or None
    id,             \* csi_thread_data[p].id
    active,         \* csi_thread_data[p].active_filters
    args,           \* what csi_thread_data[p].args points to
    pc, plat,       \* where each poller is, and the slot it was started for
    view,           \* the local variables of each poller
    host, changes,  \* the hypervisors' domains; changes and failures so far
    subs,           \* filters the CIMOM was told are active
    raising,        \* a raise_indication has found lifecycle_enabled set
    hist,           \* history of each poller, for the properties
    crashed         \* the provider process has died

slot == <<enabled, id, active, args, subs, raising>>
world == <<host, changes>>
vars == <<slot, mutex, pc, plat, view, world, hist, crashed>>

HostStates == {"absent", "off", "on"}

(***************************************************************************)
(* A dom_xml entry: the domain, the libvirt list it was found in and the   *)
(* state read for it.  "null" is an entry whose xml was never filled in,   *)
(* "gone" is DOM_GONE.  Line 357.                                          *)
(***************************************************************************)
Entry == [dom : Domains \cup {None}, from : {"inactive", "active"},
          state : {"off", "on", "gone", "null"}]
Event == [kind : {"created", "deleted", "modified"}, e : Entry]
NoEvent == [kind |-> "none"]

Doms(S) == {e.dom : e \in S}

\* The pcs at which a poller holds the mutex, and those at which its loop runs.
Holding ==
    {"count", "list", "listActive", "describe", "check", "deliver", "emit"}
Looping == Holding \cup {"wait", "woken"}
PCs == Looping \cup {"none", "start", "close", "exit"}

\* room is n_names and n_ids of get_domain_list.
EmptyView == [fresh |-> TRUE, prev |-> {}, cur |-> {}, todo |-> {},
              ind |-> NoEvent, room |-> [off |-> 0, on |-> 0]]

\* The domains the subscriber was told of, and those whose Deleted indication
\* was given up.
EmptyHist == [reported |-> {}, lost |-> {}]

Init ==
    /\ enabled = FALSE
    /\ mutex = None
    /\ id = [p \in Platforms |-> None]
    /\ active = [p \in Platforms |-> 0]
    /\ args = [p \in Platforms |-> "null"]
    /\ pc = [t \in Threads |-> "none"]
    /\ plat = [t \in Threads |-> None]
    /\ view = [t \in Threads |-> EmptyView]
    /\ hist = [t \in Threads |-> EmptyHist]
    /\ subs = [p \in Platforms |-> 0]
    /\ raising = FALSE
    /\ crashed = FALSE
    /\ host \in [Platforms -> [Domains -> {"absent", "on"}]]
    /\ changes = 0

(***************************************************************************)
(* The CIMOM's calls.  Each body is one critical section of                *)
(* lifecycle_mutex and waits for it.  The calls that return early without  *)
(* a change (no object path, unknown platform, no memory) are stutters.    *)
(***************************************************************************)
SetEnabled(b) ==
    /\ mutex = None
    /\ enabled' = b
    /\ UNCHANGED <<id, active, args, subs, raising, mutex, pc, plat, view,
                   world, hist, crashed>>

\* mutant: the flag is written without taking the mutex
SetEnabledUnlocked(b) ==
    /\ enabled' = b
    /\ UNCHANGED <<id, active, args, subs, raising, mutex, pc, plat, view,
                   world, hist, crashed>>

EnableIndications == SetEnabled(TRUE)
DisableIndicationsUnlocked == SetEnabledUnlocked(FALSE)
DisableIndications == SetEnabled(FALSE)

\* Line 786: thread->id > 0, so no thread is started.
JoinRunning(p) ==
    /\ id[p] # None
    /\ active' = [active EXCEPT ![p] = @ + 1]
    /\ UNCHANGED <<id, args, pc, plat>>

StartThread(p) ==
    /\ id[p] = None
    /\ \E t \in Threads :
         /\ pc[t] = "none"
         /\ id' = [id EXCEPT ![p] = t]
         /\ pc' = [pc EXCEPT ![t] = "start"]
         /\ plat' = [plat EXCEPT ![t] = p]
    /\ args' = [args EXCEPT ![p] = "live"]
    /\ active' = [active EXCEPT ![p] = @ + 1]

\* Line 817: the count is taken back and args freed, but thread->args keeps
\* the pointer and the status returned is still CMPI_RC_OK.
ThreadRefused(p) ==
    /\ "newThread" \in Faults
    /\ id[p] = None
    /\ subs[p] - active[p] < MaxDrift
    /\ args' = [args EXCEPT ![p] = "dangling"]
    /\ UNCHANGED <<id, active, pc, plat>>

\* mutant: the guard on thread->id is missing
AlwaysStart(p) ==
    /\ mutex = None /\ subs[p] < MaxSubs
    /\ subs' = [subs EXCEPT ![p] = @ + 1]
    /\ \E t \in Threads :
         /\ pc[t] = "none"
         /\ id' = [id EXCEPT ![p] = t]
         /\ pc' = [pc EXCEPT ![t] = "start"]
         /\ plat' = [plat EXCEPT ![t] = p]
    /\ args' = [args EXCEPT ![p] = "live"]
    /\ active' = [active EXCEPT ![p] = @ + 1]
    /\ UNCHANGED <<enabled, raising, mutex, view, world, hist, crashed>>

\* mutant: a refused thread leaves its filter counted
CountRefused(p) ==
    /\ mutex = None /\ subs[p] < MaxSubs /\ id[p] = None
    /\ active' = [active EXCEPT ![p] = @ + 1]
    /\ UNCHANGED <<enabled, id, args, subs, raising, pc, plat, mutex, view,
                   world, hist, crashed>>

ActivateFilter(p) ==
    /\ mutex = None
    /\ subs[p] < MaxSubs
    /\ subs' = [subs EXCEPT ![p] = @ + 1]
    /\ JoinRunning(p) \/ StartThread(p) \/ ThreadRefused(p)
    /\ UNCHANGED <<enabled, raising, mutex, view, world, hist, crashed>>

\* pthread_cond_signal: one waiter, of whichever platform, is woken.
Waiters == {t \in Threads : pc[t] = "wait"}
SignalOutcomes ==
    IF Waiters = {} THEN {pc}
    ELSE {[pc EXCEPT ![t] = "woken"] : t \in Waiters}

DeActivateFilter(p) ==
    /\ mutex = None
    /\ subs[p] > 0
    /\ subs' = [subs EXCEPT ![p] = @ - 1]
    /\ active' = [active EXCEPT ![p] = @ - 1]
    /\ pc' \in SignalOutcomes
    /\ UNCHANGED <<enabled, id, args, raising, mutex, plat, view, world, hist,
                   crashed>>

(***************************************************************************)
(* raise_indication, called when another provider has changed a guest: it  *)
(* reads the flag and hands a Modified indication to the CIMOM some calls  *)
(* later, neither of them under the mutex.  Only one call at a time is     *)
(* modelled: two share no state.                                           *)
(***************************************************************************)
RaiseChecked ==
    /\ enabled /\ ~raising
    /\ raising' = TRUE
    /\ UNCHANGED <<enabled, id, active, args, subs, mutex, pc, plat, view, world,
                   hist, crashed>>

\* Delivered, or given up on any of the errors on the way.
RaiseReturns ==
    /\ raising
    /\ raising' = FALSE
    /\ UNCHANGED <<enabled, id, active, args, subs, mutex, pc, plat, view, world,
                   hist, crashed>>

(***************************************************************************)
(* The hypervisor: a domain is defined, undefined, started or stopped by   *)
(* anyone, at any time.                                                    *)
(***************************************************************************)
Disturb ==
    /\ changes < MaxChanges
    /\ changes' = changes + 1

HostChange(p) ==
    /\ Disturb
    /\ \E d \in Domains, s \in HostStates :
         /\ s # host[p][d]
         /\ host' = [host EXCEPT ![p][d] = s]
    /\ UNCHANGED <<slot, mutex, pc, plat, view, hist, crashed>>

(***************************************************************************)
(* The poller, lifecycle_thread_native.                                    *)
(***************************************************************************)
Goto(t, from, to) ==
    /\ pc[t] = from
    /\ pc' = [pc EXCEPT ![t] = to]

Lock(t) == mutex = None /\ mutex' = t
Unlock == mutex' = None

\* Line 622: no class prefix, so the loop is never entered.
NoPrefix(t) ==
    /\ "prefix" \in Faults
    /\ Goto(t, "start", "exit")
    /\ UNCHANGED <<slot, mutex, plat, view, world, hist, crashed>>

\* Line 628: lock, fail to connect, unlock.
ConnectFails(t) ==
    /\ "connect" \in Faults
    /\ mutex = None
    /\ Goto(t, "start", "exit")
    /\ UNCHANGED <<slot, mutex, plat, view, world, hist, crashed>>

Connect(t) ==
    /\ Goto(t, "start", "count")
    /\ Lock(t)
    /\ UNCHANGED <<slot, plat, view, world, hist, crashed>>

(***************************************************************************)
(* get_domain_list: the number of defined domains and of running ones,     *)
(* then the defined, inactive domains, then the running ones, a call       *)
(* apart.  The arrays have as many places as were counted, and a domain    *)
(* whose lookup fails is left out.  When a call fails the list is returned *)
(* as far as it got, with no sign of the failure.                          *)
(***************************************************************************)
InState(p, s) == {d \in Domains : host[p][d] = s}
Listed(p, s, list) ==
    {[dom |-> d, from |-> list, state |-> "null"] : d \in InState(p, s)}

CountDomains(t) ==
    /\ Goto(t, "count", "list")
    /\ view' = [view EXCEPT ![t].room =
          [off |-> Cardinality(InState(plat[t], "off")),
           on |-> Cardinality(InState(plat[t], "on"))]]
    /\ UNCHANGED <<slot, mutex, plat, world, hist, crashed>>

\* L is what a call that has room for n domains leaves of the domains S.
Retrieved(S, L, n) ==
    /\ Cardinality(L) <= n
    /\ \/ (L = S \/ Cardinality(L) = n) /\ UNCHANGED changes
       \/ "list" \in Faults /\ Disturb

ListInactive(t) ==
    /\ Goto(t, "list", "listActive")
    /\ LET S == Listed(plat[t], "off", "inactive")
       IN  \E L \in SUBSET S :
             /\ Retrieved(S, L, view[t].room.off)
             /\ view' = [view EXCEPT ![t].cur = L]
    /\ UNCHANGED <<slot, mutex, plat, host, hist, crashed>>

ListFails(t) ==
    /\ "list" \in Faults
    /\ \/ Goto(t, "count", "describe")
       \/ Goto(t, "list", "describe")
       \/ Goto(t, "listActive", "describe")
    /\ Disturb
    /\ UNCHANGED <<slot, mutex, plat, view, host, hist, crashed>>

ListActive(t) ==
    /\ Goto(t, "listActive", "describe")
    /\ LET S == Listed(plat[t], "on", "active")
       IN  \E L \in SUBSET S :
             /\ Retrieved(S, L, view[t].room.on)
             /\ view' = [view EXCEPT ![t].cur = @ \cup L]
    /\ UNCHANGED <<slot, mutex, plat, host, hist, crashed>>

(***************************************************************************)
(* doms_to_xml: fills the entries in.  A domain that has vanished fails    *)
(* the call, or is read as DOM_GONE when it vanished after its xml.        *)
(***************************************************************************)
\* mutant: a domain whose state cannot be read gets no state of its own
FillUnknown(p, e) == [e EXCEPT !.state = host[p][e.dom]]

Fill(p, e) ==
    [e EXCEPT !.state = IF host[p][e.dom] = "absent" THEN "gone"
                        ELSE host[p][e.dom]]
Filled(p, S) == {Fill(p, e) : e \in S}

\* dom_changed compares with the first entry of that uuid (line 491), and the
\* inactive domains come first.  An entry without xml has no equal.
FirstOf(S, d) ==
    {e \in S : e.dom = d /\ (\/ e.from = "inactive"
                             \/ \A f \in S : f.dom = d => f.from = "active")}
Changed(e, cur) == \E c \in FirstOf(cur, e.dom) : c.state # e.state

\* mutant: a domain that is in neither listing is taken for unchanged
NoDeletedEvents(prev, cur) ==
    {[kind |-> "created", e |-> e] : e \in {x \in cur : x.dom \notin Doms(prev)}}
    \cup
    {[kind |-> "modified", e |-> e] : e \in {x \in prev : Changed(x, cur)}}

\* What lines 671-693 raise an indication for.
Differences(prev, cur) ==
    {[kind |-> "created", e |-> e] : e \in {x \in cur : x.dom \notin Doms(prev)}}
    \cup
    {[kind |-> "deleted", e |-> e] : e \in {x \in prev : x.dom \notin Doms(cur)}}
    \cup
    {[kind |-> "modified", e |-> e] : e \in {x \in prev : Changed(x, cur)}}

\* Line 638: the snapshot the first comparison starts from.
FirstSnapshot(t) ==
    /\ Goto(t, "describe", "check")
    /\ view[t].fresh
    /\ LET S == Filled(plat[t], view[t].cur)
       IN  /\ view' = [view EXCEPT ![t] = [EmptyView EXCEPT !.fresh = FALSE,
                                                            !.prev = S]]
           /\ hist' = [hist EXCEPT ![t].reported = Doms(S)]
    /\ UNCHANGED <<slot, mutex, plat, world, crashed>>

\* doms_to_xml fails at this entry: its domain is gone, or libvirt fails.
Unreadable(t, e) ==
    IF host[plat[t]][e.dom] = "absent" THEN UNCHANGED changes
    ELSE "xml" \in Faults /\ Disturb

\* Line 643: "Attempting to continue", with the entries read before the
\* failure, the one that has a uuid but no xml, and zeroes after it.
PartialSnapshot(t) ==
    /\ Goto(t, "describe", "check")
    /\ view[t].fresh
    /\ \E bad \in view[t].cur, read \in SUBSET view[t].cur :
         LET rest == view[t].cur \ (read \cup {bad})
             S == Filled(plat[t], read) \cup {bad}
                  \cup {[r EXCEPT !.dom = None] : r \in rest}
         IN  /\ Unreadable(t, bad)
             /\ bad \notin read
             /\ \A q \in read \cup {bad}, r \in rest \cup {bad} :
                   r.from = "inactive" => q.from = "inactive"
             /\ view' = [view EXCEPT ![t] = [EmptyView EXCEPT !.fresh = FALSE,
                                                              !.prev = S]]
             /\ hist' = [hist EXCEPT ![t].reported = Doms(read)]
    /\ UNCHANGED <<slot, mutex, plat, host, crashed>>

Describe(t) ==
    /\ Goto(t, "describe", "deliver")
    /\ ~view[t].fresh
    /\ LET S == Filled(plat[t], view[t].cur)
       IN  view' = [view EXCEPT ![t].cur = S,
                                ![t].todo = Differences(view[t].prev, S)]
    /\ UNCHANGED <<slot, mutex, plat, world, hist, crashed>>

\* mutant: the failed listing replaces the previous one
DescribeFailsAndForgets(t) ==
    /\ Goto(t, "describe", "wait")
    /\ ~view[t].fresh
    /\ \E e \in view[t].cur : Unreadable(t, e)
    /\ Unlock
    /\ view' = [view EXCEPT ![t].prev = {}, ![t].cur = {}]
    /\ UNCHANGED <<slot, plat, host, hist, crashed>>

\* Line 662: keep the previous listing and wait FAIL_WAIT_TIME.
DescribeFails(t) ==
    /\ Goto(t, "describe", "wait")
    /\ ~view[t].fresh
    /\ \E e \in view[t].cur : Unreadable(t, e)
    /\ Unlock
    /\ view' = [view EXCEPT ![t].cur = {}]
    /\ UNCHANGED <<slot, plat, host, hist, crashed>>

\* Line 650.
Continue(t) ==
    /\ Goto(t, "check", "count")
    /\ active[plat[t]] > 0
    /\ UNCHANGED <<slot, mutex, plat, view, world, hist, crashed>>

\* mutant: the loop ends only on a count of exactly zero
LeaveAtZero(t) ==
    /\ Goto(t, "check", "close")
    /\ active[plat[t]] = 0
    /\ Unlock
    /\ UNCHANGED <<slot, plat, view, world, hist, crashed>>

Leave(t) ==
    /\ Goto(t, "check", "close")
    /\ active[plat[t]] <= 0
    /\ Unlock
    /\ UNCHANGED <<slot, plat, view, world, hist, crashed>>

\* The loops visit the created entries first, then those of the old listing.
NextEvents(t) ==
    LET created == {ev \in view[t].todo : ev.kind = "created"}
    IN  IF created # {} THEN created ELSE view[t].todo

\* async_ind_native, or dom_changed before it, reads the xml of an entry that
\* has none: strcmp or strstr of NULL.
Fatal(ev) == ev.e.state = "null" /\ (ev.kind = "modified" \/ enabled)

ReadNull(t) ==
    /\ pc[t] = "deliver"
    /\ \E ev \in NextEvents(t) : Fatal(ev)
    /\ crashed' = TRUE
    /\ UNCHANGED <<slot, mutex, pc, plat, view, world, hist>>

\* An indication is given up.  The event is not met again, since the new
\* listing replaces the old one all the same (line 699).
GiveUp(h, ev) ==
    [h EXCEPT !.lost = IF ev.kind = "deleted" THEN @ \cup {ev.e.dom} ELSE @]

\* Line 540.
SkipDisabled(t) ==
    /\ ~enabled
    /\ pc[t] = "deliver"
    /\ \E ev \in NextEvents(t) :
         /\ ~Fatal(ev)
         /\ view' = [view EXCEPT ![t].todo = @ \ {ev}]
         /\ hist' = [hist EXCEPT ![t] = GiveUp(@, ev)]
    /\ UNCHANGED <<slot, mutex, pc, plat, world, crashed>>

\* No indication comes of the event: get_domain_by_name finds no such domain
\* (line 561), or the name, the class path or the instance of the guest cannot
\* be made (lines 547, 555 and 567).
NotBuilt(t) ==
    /\ enabled
    /\ pc[t] = "deliver"
    /\ \E ev \in NextEvents(t) :
         /\ ~Fatal(ev)
         /\ IF ev.kind # "deleted" /\ host[plat[t]][ev.e.dom] = "absent"
            THEN UNCHANGED changes
            ELSE "build" \in Faults /\ Disturb
         /\ view' = [view EXCEPT ![t].todo = @ \ {ev}]
         /\ hist' = [hist EXCEPT ![t] = GiveUp(@, ev)]
    /\ UNCHANGED <<slot, mutex, pc, plat, host, crashed>>

BuildIndication(t) ==
    /\ enabled
    /\ Goto(t, "deliver", "emit")
    /\ \E ev \in NextEvents(t) :
         /\ ~Fatal(ev)
         /\ ev.kind # "deleted" => host[plat[t]][ev.e.dom] # "absent"
         /\ view' = [view EXCEPT ![t].todo = @ \ {ev}, ![t].ind = ev]
    /\ UNCHANGED <<slot, mutex, plat, world, hist, crashed>>

\* The subscriber has been told of the event.
Told(h, ev) ==
    CASE ev.kind = "created" -> [reported |-> h.reported \cup {ev.e.dom},
                                 lost |-> h.lost \ {ev.e.dom}]
      [] ev.kind = "deleted" -> [reported |-> h.reported \ {ev.e.dom},
                                 lost |-> h.lost \ {ev.e.dom}]
      [] OTHER -> h

\* _do_indication: stdi_deliver hands the indication to the CIMOM.
DoIndication(t) ==
    /\ Goto(t, "emit", "deliver")
    /\ hist' = [hist EXCEPT ![t] = Told(@, view[t].ind)]
    /\ view' = [view EXCEPT ![t].ind = NoEvent]
    /\ UNCHANGED <<slot, mutex, plat, world, crashed>>

\* Lines 151 to 173 and 198: the indication cannot be made, or the CIMOM does
\* not take it.  "Generally report errors and hope to continue".
NotDelivered(t) ==
    /\ "deliver" \in Faults /\ Disturb
    /\ Goto(t, "emit", "deliver")
    /\ hist' = [hist EXCEPT ![t] = GiveUp(@, view[t].ind)]
    /\ view' = [view EXCEPT ![t].ind = NoEvent]
    /\ UNCHANGED <<slot, mutex, plat, host, crashed>>

\* mutant: prev_xml is not replaced after a batch
KeepOldListing(t) ==
    /\ Goto(t, "deliver", "wait")
    /\ view[t].todo = {}
    /\ Unlock
    /\ view' = [view EXCEPT ![t].cur = {}]
    /\ UNCHANGED <<slot, plat, world, hist, crashed>>

\* Line 699: the new listing becomes the old one.
BatchDone(t) ==
    /\ Goto(t, "deliver", "wait")
    /\ view[t].todo = {}
    /\ Unlock
    /\ view' = [view EXCEPT ![t].prev = view[t].cur, ![t].cur = {}]
    /\ UNCHANGED <<slot, plat, world, hist, crashed>>

\* The timed wait expires, or trigger_indication signals the condition.
Wake(t) ==
    /\ Goto(t, "wait", "woken")
    /\ UNCHANGED <<slot, mutex, plat, view, world, hist, crashed>>

Relock(t) ==
    /\ Goto(t, "woken", "check")
    /\ Lock(t)
    /\ UNCHANGED <<slot, plat, view, world, hist, crashed>>

\* virConnectClose, outside the mutex.
Close(t) ==
    /\ Goto(t, "close", "exit")
    /\ UNCHANGED <<slot, mutex, plat, view, world, hist, crashed>>

\* mutant: the slot is cleared without taking the mutex
ExitEarly(t) ==
    /\ pc[t] = "exit"
    /\ id' = [id EXCEPT ![plat[t]] = None]
    /\ active' = [active EXCEPT ![plat[t]] = 0]
    /\ args' = [args EXCEPT ![plat[t]] = "null"]
    /\ pc' = pc
    /\ UNCHANGED <<enabled, subs, raising, mutex, plat, view, hist, world,
                   crashed>>

\* init_out, line 726: one critical section.
Exit(t) ==
    /\ mutex = None
    /\ Goto(t, "exit", "none")
    /\ id' = [id EXCEPT ![plat[t]] = None]
    /\ active' = [active EXCEPT ![plat[t]] = 0]
    /\ args' = [args EXCEPT ![plat[t]] = "null"]
    /\ plat' = [plat EXCEPT ![t] = None]
    /\ view' = [view EXCEPT ![t] = EmptyView]
    /\ hist' = [hist EXCEPT ![t] = EmptyHist]
    /\ UNCHANGED <<enabled, subs, raising, mutex, world, crashed>>

\* The CIMOM loads the provider again and activates its filters anew.
Restart ==
    /\ crashed
    /\ enabled' = FALSE /\ raising' = FALSE
    /\ mutex' = None /\ crashed' = FALSE
    /\ id' = [p \in Platforms |-> None]
    /\ active' = [p \in Platforms |-> 0]
    /\ args' = [p \in Platforms |-> "null"]
    /\ subs' = [p \in Platforms |-> 0]
    /\ pc' = [t \in Threads |-> "none"]
    /\ plat' = [t \in Threads |-> None]
    /\ view' = [t \in Threads |-> EmptyView]
    /\ hist' = [t \in Threads |-> EmptyHist]
    /\ UNCHANGED world

PollerStep(t) ==
    \/ NoPrefix(t) \/ ConnectFails(t) \/ Connect(t)
    \/ CountDomains(t) \/ ListInactive(t) \/ ListActive(t) \/ ListFails(t)
    \/ FirstSnapshot(t) \/ PartialSnapshot(t)
    \/ Describe(t) \/ DescribeFails(t)
    \/ Continue(t) \/ Leave(t)
    \/ ReadNull(t) \/ SkipDisabled(t) \/ NotBuilt(t)
    \/ BuildIndication(t) \/ DoIndication(t) \/ NotDelivered(t)
    \/ BatchDone(t)
    \/ Wake(t) \/ Relock(t) \/ Close(t) \/ Exit(t)

Call ==
    \/ EnableIndications \/ DisableIndications
    \/ RaiseChecked \/ RaiseReturns
    \/ \E p \in Platforms : ActivateFilter(p) \/ DeActivateFilter(p)

Next ==
    \/ /\ ~crashed
       /\ Call \/ (\E p \in Platforms : HostChange(p))
               \/ (\E t \in Threads : PollerStep(t))
    \/ Restart

Spec == Init /\ [][Next]_vars

(***************************************************************************)
(* A poller thread is scheduled, its timed waits expire, and it gets the   *)
(* mutex if it keeps trying: every holder lets go of it after one finite   *)
(* batch and then sleeps for at least FAIL_WAIT_TIME.  Nothing is assumed  *)
(* of the CIMOM or of the hypervisor.                                      *)
(***************************************************************************)
FairSpec == Spec /\ \A t \in Threads : SF_vars(~crashed /\ PollerStep(t))

-----------------------------------------------------------------------------
(* Properties.                                                             *)

\* What the code may find in its variables: a slot's fields, each poller's
\* position and its listings.  Only a kept listing can hold zeroed entries.
CtlTypeOK ==
    /\ enabled \in BOOLEAN
    /\ mutex \in Threads \cup {None}
    /\ id \in [Platforms -> Threads \cup {None}]
    /\ active \in [Platforms -> Int]
    /\ args \in [Platforms -> {"null", "live", "dangling"}]
    /\ subs \in [Platforms -> 0 .. MaxSubs]
    /\ pc \in [Threads -> PCs]
    /\ plat \in [Threads -> Platforms \cup {None}]
    /\ raising \in BOOLEAN
    /\ crashed \in BOOLEAN

ViewType == [fresh : BOOLEAN, prev : SUBSET Entry,
             cur : SUBSET {e \in Entry : e.dom \in Domains},
             todo : SUBSET Event, ind : Event \cup {NoEvent},
             room : [off : Nat, on : Nat]]
HistType == [reported : SUBSET (Domains \cup {None}),
             lost : SUBSET (Domains \cup {None})]

DataTypeOK ==
    /\ view \in [Threads -> ViewType]
    /\ hist \in [Threads -> HistType]
    /\ host \in [Platforms -> [Domains -> HostStates]]
    /\ changes \in 0 .. MaxChanges

TypeOK == CtlTypeOK /\ DataTypeOK

Alive(t) == pc[t] # "none"

\* However activations, deactivations and exits interleave, a platform never
\* has two pollers: thread->id is set before the mutex is released and cleared
\* only as the poller's last act (lines 727 and 814).
OnePoller ==
    \A t, u \in Threads :
        Alive(t) /\ Alive(u) /\ plat[t] = plat[u] => t = u

\* A poller never runs on freed arguments, although ActivateFilter replaces
\* thread->args and leaves it dangling when newThread fails (line 825).
ArgsLive == \A t \in Threads : Alive(t) => args[plat[t]] = "live"

\* active_filters is never more than the filters the CIMOM has active, through
\* refused threads, failed connections and the reset at line 728; so a poller
\* whose filters are all gone reads a count of zero or less.
CountBounded == \A p \in Platforms : active[p] <= subs[p]

\* Once DisableIndications has returned no poller delivers an indication,
\* although the flag is read some calls before the delivery (line 540).
\* raise_indication, which takes no mutex, may still deliver one.
SilentWhenDisabled == \A t \in Threads : pc[t] = "emit" => enabled

\* A domain the subscriber was told of (by a Created indication, or by being
\* there when the poller started) is one the poller remembers, or there is a
\* Deleted indication for it on its way, or one was given up.  So no failed,
\* short or partial listing makes the poller forget a guest: only with its
\* Deleted indication is a guest forgotten, and then it is for good.
NoForgottenGuest ==
    \A t \in Threads :
        LET v == view[t]
            deleted == {ev.e.dom : ev \in
                          {x \in v.todo \cup {v.ind} : x.kind = "deleted"}}
        IN  pc[t] \in Looping /\ ~v.fresh =>
              hist[t].reported \ hist[t].lost \subseteq
                IF pc[t] \in {"deliver", "emit"} THEN Doms(v.cur) \cup deleted
                ELSE Doms(v.prev)

\* When the last filter of a platform is deactivated its poller ends, whichever
\* poller the signal at line 858 wakes.
PollerStops ==
    \A p \in Platforms :
        (subs[p] = 0 /\ id[p] # None) ~>
            (id[p] = None \/ subs[p] > 0 \/ crashed)

\* A poller that goes on running comes to know every domain that stays, even
\* one that moved between the two lists while they were read.
CreationListed ==
    \A p \in Platforms, t \in Threads, d \in Domains :
        (plat[t] = p /\ host[p][d] # "absent") ~>
            \/ plat[t] # p \/ host[p][d] = "absent" \/ crashed
            \/ d \in Doms(view[t].prev)

\* A reported domain that is gone for good is reported deleted, or its Deleted
\* indication is given up on the way to the CIMOM (disabled, not built, not
\* delivered), or its poller ends: a failed listing only delays it.
DeletionReported ==
    \A p \in Platforms, t \in Threads, d \in Domains :
        (plat[t] = p /\ d \in hist[t].reported /\ host[p][d] = "absent") ~>
            \/ plat[t] # p \/ host[p][d] # "absent" \/ crashed
            \/ d \notin hist[t].reported \/ d \in hist[t].lost

(***************************************************************************)
(* What the code's own words say, and the code does not do.                *)
(***************************************************************************)

\* ActivateFilter starts no thread when one "is already running" (line 785);
\* so an activated filter has a poller.
ActivationServed == \A p \in Platforms : subs[p] > 0 => id[p] # None

\* After a failed first snapshot the poller is "Attempting to continue"
\* (line 643); so the provider survives it.
SurvivesPartialSnapshot == ~crashed
=============================================================================
