-------------------------- MODULE Lifecycle_proofs --------------------------
(***************************************************************************)
(* Theorems about Lifecycle, for every set of platforms, threads and       *)
(* domains and every bound.                                                *)
(***************************************************************************)
EXTENDS Lifecycle, FiniteSetTheorems, TLAPS

(***************************************************************************)
(* The control invariant.  A living poller owns its slot and its slot's    *)
(* arguments, and it holds the mutex exactly at the pcs of Holding.        *)
(***************************************************************************)
SlotOwned ==
    \A t \in Threads :
        Alive(t) => /\ plat[t] \in Platforms
                    /\ id[plat[t]] = t
                    /\ args[plat[t]] = "live"
MutexHeld == \A t \in Threads : mutex = t <=> pc[t] \in Holding

CtlInv ==
    /\ CtlTypeOK
    /\ SlotOwned
    /\ MutexHeld
    /\ CountBounded
    /\ SilentWhenDisabled

LEMMA CtlInit == Init => CtlInv
  <1> SUFFICES ASSUME Init PROVE CtlInv
    OBVIOUS
  <1> USE NoneAssumption, BoundsAssumption DEF Init
  <1>1. CtlTypeOK
    <2>1. /\ pc \in [Threads -> PCs]
          /\ plat \in [Threads -> Platforms \cup {None}]
      BY DEF PCs
    <2>2. /\ active \in [Platforms -> Int]
          /\ subs \in [Platforms -> 0 .. MaxSubs]
      OBVIOUS
    <2>3. /\ id \in [Platforms -> Threads \cup {None}]
          /\ args \in [Platforms -> {"null", "live", "dangling"}]
      OBVIOUS
    <2> QED
      BY <2>1, <2>2, <2>3 DEF CtlTypeOK
  <1>2. SlotOwned
    BY DEF SlotOwned, Alive
  <1>3. MutexHeld
    BY DEF MutexHeld, Holding
  <1>4. CountBounded /\ SilentWhenDisabled
    BY DEF CountBounded, SilentWhenDisabled
  <1> QED
    BY <1>1, <1>2, <1>3, <1>4 DEF CtlInv

(***************************************************************************)
(* Most steps of a poller only move its pc, and they fall into three       *)
(* kinds: the mutex is taken, let go, or neither.                          *)
(***************************************************************************)
LEMMA PollerMoves ==
  ASSUME CtlInv, NEW t \in Threads, NEW a \in PCs, NEW b \in PCs,
         Goto(t, a, b), a # "none", b # "none",
         b = "emit" => enabled,
         UNCHANGED <<slot, plat>>, crashed' \in BOOLEAN,
         \/ (a \in Holding <=> b \in Holding) /\ mutex' = mutex
         \/ a \notin Holding /\ b \in Holding /\ mutex = None /\ mutex' = t
         \/ a \in Holding /\ b \notin Holding /\ mutex' = None
  PROVE  CtlInv'
  <1> USE DEF CtlInv, CtlTypeOK, slot, Goto
  <1>1. CtlTypeOK'
    OBVIOUS
  <1>2. SlotOwned'
    BY DEF SlotOwned, Alive
  <1>3. MutexHeld'
    BY NoneAssumption DEF MutexHeld
  <1>4. CountBounded' /\ SilentWhenDisabled'
    BY DEF CountBounded, SilentWhenDisabled
  <1> QED
    BY <1>1, <1>2, <1>3, <1>4

LEMMA PollerKeepsCtlInv ==
  ASSUME CtlInv, NEW t \in Threads, PollerStep(t)
  PROVE  CtlInv'
  <1> USE DEF PCs, Looping, Holding, Lock, Unlock
  <1> crashed \in BOOLEAN
    BY DEF CtlInv, CtlTypeOK
  <1>1. CASE NoPrefix(t)
    BY <1>1, PollerMoves DEF NoPrefix
  <1>2. CASE ConnectFails(t)
    BY <1>2, PollerMoves DEF ConnectFails
  <1>3. CASE Connect(t)
    BY <1>3, PollerMoves DEF Connect
  <1>4. CASE CountDomains(t) \/ ListInactive(t)
    BY <1>4, PollerMoves DEF CountDomains, ListInactive
  <1>5. CASE ListFails(t)
    BY <1>5, PollerMoves DEF ListFails
  <1>6. CASE ListActive(t)
    BY <1>6, PollerMoves DEF ListActive
  <1>7. CASE FirstSnapshot(t)
    BY <1>7, PollerMoves DEF FirstSnapshot
  <1>8. CASE PartialSnapshot(t)
    BY <1>8, PollerMoves DEF PartialSnapshot
  <1>9. CASE Describe(t)
    BY <1>9, PollerMoves DEF Describe
  <1>10. CASE DescribeFails(t)
    BY <1>10, PollerMoves DEF DescribeFails
  <1>11. CASE Continue(t)
    BY <1>11, PollerMoves DEF Continue
  <1>12. CASE Leave(t)
    BY <1>12, PollerMoves DEF Leave
  <1>13. CASE ReadNull(t)
    BY <1>13 DEF ReadNull, CtlInv, CtlTypeOK, SlotOwned, Alive, MutexHeld,
                 CountBounded, SilentWhenDisabled, slot
  <1>14. CASE SkipDisabled(t) \/ NotBuilt(t)
    BY <1>14 DEF SkipDisabled, NotBuilt, CtlInv, CtlTypeOK, SlotOwned, Alive,
                 MutexHeld, CountBounded, SilentWhenDisabled, slot
  <1>15. CASE BuildIndication(t)
    BY <1>15, PollerMoves DEF BuildIndication
  <1>16. CASE DoIndication(t) \/ NotDelivered(t)
    BY <1>16, PollerMoves DEF DoIndication, NotDelivered
  <1>17. CASE BatchDone(t)
    BY <1>17, PollerMoves DEF BatchDone
  <1>18. CASE Wake(t)
    BY <1>18, PollerMoves DEF Wake
  <1>19. CASE Relock(t)
    BY <1>19, PollerMoves DEF Relock
  <1>20. CASE Close(t)
    BY <1>20, PollerMoves DEF Close
  <1>21. CASE Exit(t)
    <2> DEFINE p == plat[t]
    <2>1. /\ mutex = None /\ mutex' = mutex
          /\ pc[t] = "exit" /\ pc' = [pc EXCEPT ![t] = "none"]
          /\ id' = [id EXCEPT ![p] = None]
          /\ active' = [active EXCEPT ![p] = 0]
          /\ args' = [args EXCEPT ![p] = "null"]
          /\ plat' = [plat EXCEPT ![t] = None]
          /\ UNCHANGED <<enabled, subs, raising, crashed>>
      BY <1>21 DEF Exit, Goto
    <2>2. p \in Platforms /\ id[p] = t
      BY <2>1 DEF CtlInv, SlotOwned, Alive
    <2>3. CtlTypeOK'
      <3>1. active' \in [Platforms -> Int] /\ subs' \in [Platforms -> 0 .. MaxSubs]
        <4>1. /\ active \in [Platforms -> Int]
              /\ subs \in [Platforms -> 0 .. MaxSubs]
          BY DEF CtlInv, CtlTypeOK
        <4>2. active' = [active EXCEPT ![p] = 0] /\ subs' = subs
          BY <2>1
        <4> HIDE DEF p
        <4> QED
          BY <2>2, <4>1, <4>2
      <3>2. /\ id' \in [Platforms -> Threads \cup {None}]
            /\ args' \in [Platforms -> {"null", "live", "dangling"}]
            /\ mutex' \in Threads \cup {None}
        BY <2>1 DEF CtlInv, CtlTypeOK
      <3>3. /\ pc' \in [Threads -> PCs]
            /\ plat' \in [Threads -> Platforms \cup {None}]
        BY <2>1 DEF CtlInv, CtlTypeOK
      <3>4. enabled' \in BOOLEAN /\ crashed' \in BOOLEAN /\ raising' \in BOOLEAN
        BY <2>1 DEF CtlInv, CtlTypeOK
      <3> QED
        BY <3>1, <3>2, <3>3, <3>4 DEF CtlTypeOK
    <2>4. \A u \in Threads : u # t /\ Alive(u) =>
            plat[u] \in Platforms /\ plat[u] # p
      BY <2>2 DEF CtlInv, SlotOwned
    <2>5. SlotOwned'
      BY <2>1, <2>4 DEF CtlInv, CtlTypeOK, SlotOwned, Alive
    <2>6. MutexHeld'
      BY <2>1, NoneAssumption DEF CtlInv, CtlTypeOK, MutexHeld
    <2>7. CountBounded'
      BY <2>1, <2>2, BoundsAssumption DEF CtlInv, CtlTypeOK, CountBounded
    <2>8. SilentWhenDisabled'
      BY <2>1 DEF CtlInv, CtlTypeOK, SilentWhenDisabled
    <2> QED
      BY <2>3, <2>5, <2>6, <2>7, <2>8 DEF CtlInv
  <1> QED
    BY <1>1, <1>2, <1>3, <1>4, <1>5, <1>6, <1>7, <1>8, <1>9, <1>10, <1>11,
       <1>12, <1>13, <1>14, <1>15, <1>16, <1>17, <1>18, <1>19, <1>20, <1>21
       DEF PollerStep

LEMMA CallKeepsCtlInv ==
  ASSUME CtlInv, Call
  PROVE  CtlInv'
  <1> USE DEF CtlInv, CtlTypeOK
  <1>1. ASSUME NEW b \in BOOLEAN, SetEnabled(b)
        PROVE  CtlInv'
    <2> USE <1>1 DEF SetEnabled
    <2>1. CtlTypeOK' /\ SlotOwned' /\ MutexHeld' /\ CountBounded'
      BY DEF SlotOwned, Alive, MutexHeld, CountBounded
    <2>2. \A t \in Threads : pc[t] # "emit"
      BY NoneAssumption DEF MutexHeld, Holding
    <2>3. SilentWhenDisabled'
      BY <2>2 DEF SilentWhenDisabled
    <2> QED
      BY <2>1, <2>3
  <1>2. ASSUME NEW p \in Platforms, ActivateFilter(p)
        PROVE  CtlInv'
    <2> USE <1>2 DEF ActivateFilter
    <2>1. CASE JoinRunning(p)
      BY <2>1, BoundsAssumption
         DEF JoinRunning, SlotOwned, Alive, MutexHeld, CountBounded,
             SilentWhenDisabled
    <2>2. CASE StartThread(p)
      <3>1. PICK t \in Threads : /\ pc[t] = "none"
                                 /\ id' = [id EXCEPT ![p] = t]
                                 /\ pc' = [pc EXCEPT ![t] = "start"]
                                 /\ plat' = [plat EXCEPT ![t] = p]
        BY <2>2 DEF StartThread
      <3> USE <2>2, <3>1 DEF StartThread
      <3>2. CtlTypeOK'
        BY BoundsAssumption DEF PCs
      <3>3. \A u \in Threads : Alive(u) => plat[u] # p
        BY NoneAssumption DEF SlotOwned
      <3>4. SlotOwned'
        BY <3>3 DEF SlotOwned, Alive
      <3>5. MutexHeld' /\ CountBounded' /\ SilentWhenDisabled'
        BY NoneAssumption, BoundsAssumption
           DEF MutexHeld, Holding, CountBounded, SilentWhenDisabled
      <3> QED
        BY <3>2, <3>4, <3>5
    <2>3. CASE ThreadRefused(p)
      BY <2>3, NoneAssumption, BoundsAssumption
         DEF ThreadRefused, SlotOwned, Alive, MutexHeld, CountBounded,
             SilentWhenDisabled
    <2> QED
      BY <2>1, <2>2, <2>3
  <1>3. ASSUME NEW p \in Platforms, DeActivateFilter(p)
        PROVE  CtlInv'
    <2> USE <1>3 DEF DeActivateFilter
    <2>1. \A t \in Threads :
            pc'[t] = pc[t] \/ (pc[t] = "wait" /\ pc'[t] = "woken")
      BY DEF SignalOutcomes, Waiters
    <2>2. pc' \in [Threads -> PCs]
      BY DEF SignalOutcomes, Waiters, PCs, Looping
    <2>3. SlotOwned' /\ MutexHeld' /\ SilentWhenDisabled'
      BY <2>1 DEF SlotOwned, Alive, MutexHeld, Holding, SilentWhenDisabled
    <2>4. CountBounded' /\ subs' \in [Platforms -> 0 .. MaxSubs]
      BY BoundsAssumption DEF CountBounded
    <2> QED
      BY <2>2, <2>3, <2>4
  <1>4. CASE RaiseChecked \/ RaiseReturns
    BY <1>4 DEF RaiseChecked, RaiseReturns, SlotOwned, Alive, MutexHeld, CountBounded,
                SilentWhenDisabled
  <1> QED
    BY <1>1, <1>2, <1>3, <1>4 DEF Call, EnableIndications, DisableIndications

LEMMA CtlStep == CtlInv /\ [Next]_vars => CtlInv'
  <1> SUFFICES ASSUME CtlInv, [Next]_vars PROVE CtlInv'
    OBVIOUS
  <1>1. CASE Call
    BY <1>1, CallKeepsCtlInv
  <1>2. ASSUME NEW t \in Threads, PollerStep(t)
        PROVE  CtlInv'
    BY <1>2, PollerKeepsCtlInv
  <1>3. ASSUME NEW p \in Platforms, HostChange(p)
        PROVE  CtlInv'
    BY <1>3 DEF HostChange, CtlInv, CtlTypeOK, SlotOwned, Alive, MutexHeld,
                CountBounded, SilentWhenDisabled, slot
  <1>4. CASE Restart
    <2>1. /\ enabled' = FALSE /\ raising' = FALSE
          /\ mutex' = None /\ crashed' = FALSE
          /\ id' = [p \in Platforms |-> None]
          /\ active' = [p \in Platforms |-> 0]
          /\ args' = [p \in Platforms |-> "null"]
          /\ subs' = [p \in Platforms |-> 0]
          /\ pc' = [t \in Threads |-> "none"]
          /\ plat' = [t \in Threads |-> None]
      BY <1>4 DEF Restart
    <2>2. CtlTypeOK'
      <3>1. active' \in [Platforms -> Int] /\ subs' \in [Platforms -> 0 .. MaxSubs]
        BY <2>1, BoundsAssumption
      <3>2. /\ id' \in [Platforms -> Threads \cup {None}]
            /\ args' \in [Platforms -> {"null", "live", "dangling"}]
            /\ mutex' \in Threads \cup {None}
        BY <2>1
      <3>3. /\ pc' \in [Threads -> PCs]
            /\ plat' \in [Threads -> Platforms \cup {None}]
        BY <2>1 DEF PCs
      <3>4. enabled' \in BOOLEAN /\ crashed' \in BOOLEAN /\ raising' \in BOOLEAN
        BY <2>1
      <3> QED
        BY <3>1, <3>2, <3>3, <3>4 DEF CtlTypeOK
    <2>3. SlotOwned' /\ MutexHeld' /\ CountBounded' /\ SilentWhenDisabled'
      BY <2>1, NoneAssumption
         DEF SlotOwned, Alive, MutexHeld, Holding, CountBounded,
             SilentWhenDisabled
    <2> QED
      BY <2>2, <2>3 DEF CtlInv
  <1>5. CASE UNCHANGED vars
    BY <1>5 DEF CtlInv, CtlTypeOK, SlotOwned, Alive, MutexHeld, CountBounded,
                SilentWhenDisabled, vars, slot
  <1> QED
    BY <1>1, <1>2, <1>3, <1>4, <1>5 DEF Next

\* The control invariant holds in every reachable state.
THEOREM ControlInvariant == Spec => []CtlInv
  <1>1. Init => CtlInv
    BY CtlInit
  <1>2. CtlInv /\ [Next]_vars => CtlInv'
    BY CtlStep
  <1> QED
    BY <1>1, <1>2, PTL DEF Spec

\* A platform never has two pollers (ActivateFilter's guard on thread->id).
THEOREM AtMostOnePoller == Spec => []OnePoller
  <1>1. CtlInv => OnePoller
    BY DEF CtlInv, SlotOwned, OnePoller
  <1> QED
    BY <1>1, ControlInvariant, PTL

\* A poller's arguments outlive it (stdi_free_ind_args only at its exit).
THEOREM ArgumentsOutlivePoller == Spec => []ArgsLive
  <1>1. CtlInv => ArgsLive
    BY DEF CtlInv, SlotOwned, ArgsLive
  <1> QED
    BY <1>1, ControlInvariant, PTL

\* active_filters never exceeds the CIMOM's active filters.
THEOREM CountNeverExceeds == Spec => []CountBounded
  <1>1. CtlInv => CountBounded
    BY DEF CtlInv
  <1> QED
    BY <1>1, ControlInvariant, PTL

\* No delivery while indications are disabled.
THEOREM DisabledMeansSilent == Spec => []SilentWhenDisabled
  <1>1. CtlInv => SilentWhenDisabled
    BY DEF CtlInv
  <1> QED
    BY <1>1, ControlInvariant, PTL

(***************************************************************************)
(* The data invariant.  What a poller's local variables hold, thread by    *)
(* thread: an indication is in hand only at "emit", an entry a Created     *)
(* indication is due for is in the new listing, and what was reported is   *)
(* in the listing the next comparison starts from, or about to be reported *)
(* deleted, or its Deleted indication was given up.                        *)
(***************************************************************************)
DeletedIn(v) ==
    {ev.e.dom : ev \in {x \in v.todo \cup {v.ind} : x.kind = "deleted"}}

Idle(t) ==
    /\ pc[t] \in {"none", "start"} => view[t].fresh
    /\ pc[t] # "emit" => view[t].ind = NoEvent
CreatedListed(t) ==
    pc[t] \in {"deliver", "emit"} =>
        \A ev \in view[t].todo \cup {view[t].ind} :
            ev.kind = "created" => ev.e.dom \in Doms(view[t].cur)
Remembers(t) ==
    pc[t] \in Looping /\ ~view[t].fresh =>
        hist[t].reported \ hist[t].lost \subseteq
            IF pc[t] \in {"deliver", "emit"}
            THEN Doms(view[t].cur) \cup DeletedIn(view[t])
            ELSE Doms(view[t].prev)

PollerInv(t) == Idle(t) /\ CreatedListed(t) /\ Remembers(t)
DataInv == DataTypeOK /\ \A t \in Threads : PollerInv(t)

LEMMA DataInit == Init => DataInv
  <1> SUFFICES ASSUME Init PROVE DataInv
    OBVIOUS
  <1> USE DEF Init
  <1>1. EmptyView \in ViewType /\ EmptyHist \in HistType
    BY DEF EmptyView, ViewType, EmptyHist, HistType
  <1>2. DataTypeOK
    BY <1>1, BoundsAssumption DEF DataTypeOK, HostStates
  <1>3. \A t \in Threads : PollerInv(t)
    BY DEF PollerInv, Idle, CreatedListed, Remembers, Looping, Holding,
           EmptyView
  <1> QED
    BY <1>2, <1>3 DEF DataInv

\* A step of one poller leaves the local variables of the others alone.
LEMMA OnePollerSteps ==
  ASSUME DataInv, NEW t \in Threads,
         view' \in [Threads -> ViewType], hist' \in [Threads -> HistType],
         host' = host, changes' \in 0 .. MaxChanges,
         \A u \in Threads : u # t => /\ pc'[u] = pc[u]
                                     /\ view'[u] = view[u]
                                     /\ hist'[u] = hist[u],
         PollerInv(t)'
  PROVE  DataInv'
  <1>1. DataTypeOK'
    BY DEF DataInv, DataTypeOK
  <1>2. ASSUME NEW u \in Threads, u # t
        PROVE  PollerInv(u)'
    BY <1>2 DEF DataInv, PollerInv, Idle, CreatedListed, Remembers
  <1> QED
    BY <1>1, <1>2 DEF DataInv

\* The steps that move a poller's pc and touch neither its local variables
\* nor its history.
LEMMA PcKeepsDataInv ==
  ASSUME CtlInv, DataInv, NEW t \in Threads, NEW a \in PCs, NEW b \in PCs,
         Goto(t, a, b), a \notin {"deliver", "emit"},
         b \notin {"none", "start", "deliver", "emit"},
         a \in Looping \/ b \notin Looping \/ view[t].fresh,
         UNCHANGED <<view, hist, host>>, changes' \in 0 .. MaxChanges
  PROVE  DataInv'
  <1>1. pc'[t] = b /\ pc[t] = a /\ \A u \in Threads : u # t => pc'[u] = pc[u]
    BY DEF Goto, CtlInv, CtlTypeOK
  <1>2. PollerInv(t)
    BY DEF DataInv
  <1>3. PollerInv(t)'
    BY <1>1, <1>2 DEF PollerInv, Idle, CreatedListed, Remembers
  <1> QED
    BY <1>1, <1>3, OnePollerSteps DEF DataInv, DataTypeOK

(***************************************************************************)
(* The helpers of get_domain_list and doms_to_xml.                         *)
(***************************************************************************)
LEMMA ListedType ==
  ASSUME NEW p \in Platforms, NEW s, NEW list \in {"inactive", "active"}
  PROVE  Listed(p, s, list) \subseteq {e \in Entry : e.dom \in Domains}
  BY DEF Listed, InState, Entry

\* doms_to_xml keeps the domains of the entries it fills in.
LEMMA FilledType ==
  ASSUME host \in [Platforms -> [Domains -> HostStates]],
         NEW p \in Platforms, NEW S \in SUBSET {e \in Entry : e.dom \in Domains}
  PROVE  /\ Filled(p, S) \subseteq {e \in Entry : e.dom \in Domains}
         /\ Doms(Filled(p, S)) = Doms(S)
  <1>1. ASSUME NEW e \in S
        PROVE  /\ Fill(p, e) \in {x \in Entry : x.dom \in Domains}
               /\ Fill(p, e).dom = e.dom
    <2>1. e \in Entry /\ e.dom \in Domains
      OBVIOUS
    <2>2. host[p][e.dom] \in HostStates
      BY <2>1
    <2> QED
      BY <2>1, <2>2 DEF Fill, Entry, HostStates
  <1> QED
    BY <1>1 DEF Filled, Doms

LEMMA DifferencesType ==
  ASSUME NEW prev \in SUBSET Entry, NEW cur \in SUBSET Entry
  PROVE  Differences(prev, cur) \subseteq Event
  BY DEF Differences, Event

(***************************************************************************)
(* One lemma per step that touches a poller's local variables.             *)
(***************************************************************************)
\* The calls of get_domain_list touch nothing but the counts and the listing.
LEMMA ListingKeeps ==
  ASSUME CtlInv, DataInv, NEW t \in Threads,
         NEW a \in {"count", "list", "listActive"},
         NEW b \in {"list", "listActive", "describe"}, Goto(t, a, b),
         NEW w \in ViewType, view' = [view EXCEPT ![t] = w],
         w.fresh = view[t].fresh, w.ind = view[t].ind, w.prev = view[t].prev,
         hist' = hist, host' = host, changes' \in 0 .. MaxChanges
  PROVE  DataInv'
  <1>1. view' \in [Threads -> ViewType] /\ view'[t] = w
    BY DEF DataInv, DataTypeOK
  <1>2. PollerInv(t) /\ pc[t] = a /\ pc'[t] = b
    BY DEF DataInv, Goto, CtlInv, CtlTypeOK
  <1>3. PollerInv(t)'
    BY <1>1, <1>2 DEF PollerInv, Idle, CreatedListed, Remembers, Looping, Holding
  <1>4. \A u \in Threads : u # t => pc'[u] = pc[u] /\ view'[u] = view[u]
    BY DEF Goto, CtlInv, CtlTypeOK, DataInv, DataTypeOK
  <1> QED
    BY <1>1, <1>3, <1>4, OnePollerSteps DEF DataInv, DataTypeOK

LEMMA CountDomainsKeeps ==
  ASSUME CtlInv, DataInv, NEW t \in Threads, CountDomains(t)
  PROVE  DataInv'
  <1> DEFINE off == Cardinality(InState(plat[t], "off"))
             on == Cardinality(InState(plat[t], "on"))
  <1>1. off \in Nat /\ on \in Nat
    <2>1. /\ IsFiniteSet(InState(plat[t], "off"))
          /\ IsFiniteSet(InState(plat[t], "on"))
      BY DomainsAssumption, FS_Subset DEF InState
    <2> QED
      BY <2>1, FS_CardinalityType
  <1>2. /\ Goto(t, "count", "list")
        /\ view' = [view EXCEPT ![t].room = [off |-> off, on |-> on]]
        /\ hist' = hist /\ host' = host /\ changes' = changes
    BY DEF CountDomains, world
  <1> HIDE DEF off, on
  <1> DEFINE w == [view[t] EXCEPT !.room = [off |-> off, on |-> on]]
  <1>3. /\ w \in ViewType /\ w.fresh = view[t].fresh
        /\ w.ind = view[t].ind /\ w.prev = view[t].prev
    BY <1>1 DEF DataInv, DataTypeOK, ViewType
  <1>4. view' = [view EXCEPT ![t] = w]
    BY <1>2
  <1> HIDE DEF w
  <1> QED
    BY <1>2, <1>3, <1>4, ListingKeeps DEF DataInv, DataTypeOK

\* What the two listing calls leave in cur, and how much they may disturb.
LEMMA ListLists ==
  ASSUME CtlInv, DataInv, NEW t \in Threads, ListInactive(t) \/ ListActive(t)
  PROVE  /\ \E L \in SUBSET {e \in Entry : e.dom \in Domains} :
               view' = [view EXCEPT ![t].cur = L]
         /\ hist' = hist /\ host' = host /\ changes' \in 0 .. MaxChanges
  <1>1. plat[t] \in Platforms /\ view[t] \in ViewType
    BY DEF ListInactive, ListActive, Goto, CtlInv, SlotOwned, Alive, DataInv, DataTypeOK
  <1>2. ASSUME NEW S, NEW L, NEW n, Retrieved(S, L, n)
        PROVE  changes' \in 0 .. MaxChanges
    BY <1>2, BoundsAssumption DEF Retrieved, Disturb, DataInv, DataTypeOK
  <1>3. CASE ListInactive(t)
    <2> DEFINE S == Listed(plat[t], "off", "inactive")
    <2>1. PICK L \in SUBSET S : /\ Retrieved(S, L, view[t].room.off)
                               /\ view' = [view EXCEPT ![t].cur = L]
      BY <1>3 DEF ListInactive
    <2>2. S \subseteq {e \in Entry : e.dom \in Domains}
      BY <1>1, ListedType
    <2>3. hist' = hist /\ host' = host
      BY <1>3 DEF ListInactive
    <2> QED
      BY <1>2, <2>1, <2>2, <2>3
  <1>4. CASE ListActive(t)
    <2> DEFINE S == Listed(plat[t], "on", "active")
    <2>1. PICK L \in SUBSET S :
             /\ Retrieved(S, L, view[t].room.on)
             /\ view' = [view EXCEPT ![t].cur = view[t].cur \cup L]
      BY <1>4 DEF ListActive
    <2>2. S \subseteq {e \in Entry : e.dom \in Domains}
      BY <1>1, ListedType
    <2>3. view[t].cur \subseteq {e \in Entry : e.dom \in Domains}
      BY <1>1 DEF ViewType
    <2>4. hist' = hist /\ host' = host
      BY <1>4 DEF ListActive
    <2>5. view[t].cur \cup L \in SUBSET {e \in Entry : e.dom \in Domains}
      BY <2>2, <2>3
    <2> QED
      BY <1>2, <2>1, <2>4, <2>5
  <1> QED
    BY <1>3, <1>4

LEMMA ListKeeps ==
  ASSUME CtlInv, DataInv, NEW t \in Threads, ListInactive(t) \/ ListActive(t)
  PROVE  DataInv'
  <1>1. /\ hist' = hist /\ host' = host /\ changes' \in 0 .. MaxChanges
        /\ \E L \in SUBSET {e \in Entry : e.dom \in Domains} :
              view' = [view EXCEPT ![t].cur = L]
    BY ListLists
  <1>2. PICK L \in SUBSET {e \in Entry : e.dom \in Domains} :
           view' = [view EXCEPT ![t].cur = L]
    BY <1>1
  <1> DEFINE w == [view[t] EXCEPT !.cur = L]
  <1>3. /\ w \in ViewType /\ w.fresh = view[t].fresh
        /\ w.ind = view[t].ind /\ w.prev = view[t].prev
    BY DEF DataInv, DataTypeOK, ViewType
  <1>4. view' = [view EXCEPT ![t] = w]
    BY <1>2
  <1>5. PICK a \in {"list", "listActive"}, b \in {"listActive", "describe"} :
           Goto(t, a, b)
    BY DEF ListInactive, ListActive
  <1> HIDE DEF w
  <1> QED
    BY <1>1, <1>3, <1>4, <1>5, ListingKeeps

\* A first listing S, of which the domains R were read in full, starts the
\* poller's record of what it reported.
LEMMA FirstListing ==
  ASSUME CtlInv, DataInv, NEW t \in Threads, Goto(t, "describe", "check"),
         NEW S \in SUBSET Entry, NEW R \in SUBSET Doms(S),
         R \subseteq Domains,
         view' = [view EXCEPT ![t] = [EmptyView EXCEPT !.fresh = FALSE,
                                                       !.prev = S]],
         hist' = [hist EXCEPT ![t].reported = R],
         host' = host, changes' \in 0 .. MaxChanges
  PROVE  DataInv'
  <1> DEFINE v == [EmptyView EXCEPT !.fresh = FALSE, !.prev = S]
  <1>1. v \in ViewType /\ v.prev = S /\ v.ind = NoEvent
    BY DEF EmptyView, ViewType
  <1>2. view' = [view EXCEPT ![t] = v]
    OBVIOUS
  <1> HIDE DEF v
  <1>3. view' \in [Threads -> ViewType] /\ hist' \in [Threads -> HistType]
    BY <1>1, <1>2 DEF DataInv, DataTypeOK, HistType
  <1>4. \A u \in Threads : u # t => /\ pc'[u] = pc[u]
                                    /\ view'[u] = view[u]
                                    /\ hist'[u] = hist[u]
    BY <1>2 DEF Goto, CtlInv, CtlTypeOK, DataInv, DataTypeOK
  <1>5. pc'[t] = "check" /\ view'[t] = v /\ hist'[t].reported = R
    BY <1>2 DEF Goto, CtlInv, CtlTypeOK, DataInv, DataTypeOK, HistType
  <1>6. PollerInv(t)'
    BY <1>1, <1>5 DEF PollerInv, Idle, CreatedListed, Remembers
  <1> QED
    BY <1>3, <1>4, <1>6, OnePollerSteps

LEMMA FirstSnapshotKeeps ==
  ASSUME CtlInv, DataInv, NEW t \in Threads, FirstSnapshot(t)
  PROVE  DataInv'
  <1> DEFINE S == Filled(plat[t], view[t].cur)
  <1>1. /\ Goto(t, "describe", "check")
        /\ view' = [view EXCEPT ![t] = [EmptyView EXCEPT !.fresh = FALSE,
                                                         !.prev = S]]
        /\ hist' = [hist EXCEPT ![t].reported = Doms(S)]
        /\ host' = host /\ changes' = changes
    BY DEF FirstSnapshot, world
  <1>2. /\ plat[t] \in Platforms
        /\ view[t].cur \in SUBSET {e \in Entry : e.dom \in Domains}
    BY <1>1 DEF Goto, CtlInv, SlotOwned, Alive, DataInv, DataTypeOK, ViewType
  <1>3. S \in SUBSET {e \in Entry : e.dom \in Domains}
    BY <1>2, FilledType DEF DataInv, DataTypeOK
  <1> HIDE DEF S
  <1>4. S \in SUBSET Entry /\ Doms(S) \subseteq Domains
    BY <1>3 DEF Doms
  <1> QED
    BY <1>1, <1>4, FirstListing DEF DataInv, DataTypeOK

\* The entries read before a failure are kept whole, the others without xml:
\* each domain reported by the partial snapshot is in it.
LEMMA PartialSnapshotKeeps ==
  ASSUME CtlInv, DataInv, NEW t \in Threads, PartialSnapshot(t)
  PROVE  DataInv'
  <1>1. PICK bad \in view[t].cur, read \in SUBSET view[t].cur :
          LET rest == view[t].cur \ (read \cup {bad})
              S == Filled(plat[t], read) \cup {bad}
                   \cup {[r EXCEPT !.dom = None] : r \in rest}
          IN  /\ Unreadable(t, bad)
              /\ view' = [view EXCEPT ![t] = [EmptyView EXCEPT
                                                 !.fresh = FALSE, !.prev = S]]
              /\ hist' = [hist EXCEPT ![t].reported = Doms(read)]
    BY DEF PartialSnapshot
  <1> DEFINE rest == view[t].cur \ (read \cup {bad})
             zeroed == {[r EXCEPT !.dom = None] : r \in rest}
             S == Filled(plat[t], read) \cup {bad} \cup zeroed
  <1>2. /\ Unreadable(t, bad)
        /\ view' = [view EXCEPT ![t] = [EmptyView EXCEPT !.fresh = FALSE,
                                                         !.prev = S]]
        /\ hist' = [hist EXCEPT ![t].reported = Doms(read)]
    BY <1>1
  <1>3. Goto(t, "describe", "check") /\ host' = host
    BY DEF PartialSnapshot
  <1>4. /\ plat[t] \in Platforms
        /\ view[t].cur \in SUBSET {e \in Entry : e.dom \in Domains}
        /\ host \in [Platforms -> [Domains -> HostStates]]
    BY <1>3 DEF Goto, CtlInv, SlotOwned, Alive, DataInv, DataTypeOK, ViewType
  <1>5. /\ Filled(plat[t], read) \subseteq Entry
        /\ Doms(Filled(plat[t], read)) = Doms(read)
    BY <1>4, FilledType
  <1>6. zeroed \subseteq Entry
    BY <1>4 DEF Entry
  <1>7. changes' \in 0 .. MaxChanges
    BY <1>2, BoundsAssumption DEF Unreadable, Disturb, DataInv, DataTypeOK
  <1>8. S \in SUBSET Entry /\ Doms(read) \in SUBSET Doms(S)
    <2> HIDE DEF zeroed
    <2> QED
      BY <1>4, <1>5, <1>6 DEF Doms
  <1>9. Doms(read) \subseteq Domains
    BY <1>4 DEF Doms
  <1> HIDE DEF S
  <1> QED
    BY <1>2, <1>3, <1>7, <1>8, <1>9, FirstListing

\* Every domain of the old listing is in the new one or reported deleted, and
\* a Created indication is only due for an entry of the new one.
LEMMA DifferencesMeaning ==
  ASSUME NEW prev, NEW cur, NEW v,
         v.todo = Differences(prev, cur), v.ind = NoEvent
  PROVE  /\ Doms(prev) \subseteq Doms(cur) \cup DeletedIn(v)
         /\ \A ev \in v.todo \cup {v.ind} :
               ev.kind = "created" => ev.e.dom \in Doms(cur)
  <1>1. ASSUME NEW d \in Doms(prev), d \notin Doms(cur)
        PROVE  d \in DeletedIn(v)
    <2>1. PICK e \in prev : e.dom = d
      BY DEF Doms
    <2> DEFINE ev == [kind |-> "deleted", e |-> e]
    <2>2. ev \in v.todo /\ ev.kind = "deleted" /\ ev.e.dom = d
      BY <1>1, <2>1 DEF Differences
    <2> QED
      BY <2>2 DEF DeletedIn
  <1>2. \A ev \in Differences(prev, cur) :
          ev.kind = "created" => ev.e.dom \in Doms(cur)
    BY DEF Differences, Doms
  <1> QED
    BY <1>1, <1>2 DEF NoEvent

LEMMA DescribeKeeps ==
  ASSUME CtlInv, DataInv, NEW t \in Threads, Describe(t)
  PROVE  DataInv'
  <1> DEFINE S == Filled(plat[t], view[t].cur)
             D == Differences(view[t].prev, S)
  <1>1. /\ Goto(t, "describe", "deliver") /\ ~view[t].fresh
        /\ view' = [view EXCEPT ![t].cur = S, ![t].todo = D]
        /\ hist' = hist /\ host' = host /\ changes' = changes
    BY DEF Describe, world
  <1>2. /\ plat[t] \in Platforms /\ view[t] \in ViewType
        /\ host \in [Platforms -> [Domains -> HostStates]]
    BY <1>1 DEF Goto, CtlInv, SlotOwned, Alive, DataInv, DataTypeOK
  <1>3. /\ S \in SUBSET {e \in Entry : e.dom \in Domains}
        /\ D \subseteq Event
        /\ D = Differences(view[t].prev, S)
    <2>1. /\ view[t].cur \in SUBSET {e \in Entry : e.dom \in Domains}
          /\ view[t].prev \in SUBSET Entry
      BY <1>2 DEF ViewType
    <2>2. S \in SUBSET {e \in Entry : e.dom \in Domains}
      BY <1>2, <2>1, FilledType
    <2> HIDE DEF S
    <2> QED
      BY <2>1, <2>2, DifferencesType
  <1> HIDE DEF S, D
  <1>4. view' \in [Threads -> ViewType]
    BY <1>1, <1>3 DEF DataInv, DataTypeOK, ViewType
  <1>5. \A u \in Threads : u # t => pc'[u] = pc[u] /\ view'[u] = view[u]
    BY <1>1 DEF Goto, CtlInv, CtlTypeOK, DataInv, DataTypeOK
  <1>6. /\ pc'[t] = "deliver" /\ view'[t].cur = S /\ view'[t].todo = D
        /\ view'[t].ind = view[t].ind
    BY <1>1 DEF Goto, CtlInv, CtlTypeOK, DataInv, DataTypeOK, ViewType
  <1>7. /\ view[t].ind = NoEvent
        /\ hist[t].reported \ hist[t].lost \subseteq Doms(view[t].prev)
    BY <1>1 DEF Goto, DataInv, PollerInv, Idle, Remembers, Looping, Holding
  <1>8. /\ Doms(view[t].prev) \subseteq Doms(S) \cup DeletedIn(view'[t])
        /\ \A ev \in view'[t].todo \cup {view'[t].ind} :
              ev.kind = "created" => ev.e.dom \in Doms(S)
    BY <1>3, <1>6, <1>7, DifferencesMeaning
  <1>9. PollerInv(t)'
    BY <1>1, <1>6, <1>7, <1>8 DEF PollerInv, Idle, CreatedListed, Remembers
  <1> QED
    BY <1>1, <1>4, <1>5, <1>9, OnePollerSteps DEF DataInv, DataTypeOK

\* A failed listing is thrown away and the old one kept (line 662).
LEMMA DescribeFailsKeeps ==
  ASSUME CtlInv, DataInv, NEW t \in Threads, DescribeFails(t)
  PROVE  DataInv'
  <1>1. /\ Goto(t, "describe", "wait")
        /\ view' = [view EXCEPT ![t].cur = {}]
        /\ hist' = hist /\ host' = host
    BY DEF DescribeFails
  <1>2. changes' \in 0 .. MaxChanges
    BY BoundsAssumption
       DEF DescribeFails, Unreadable, Disturb, DataInv, DataTypeOK
  <1>3. view' \in [Threads -> ViewType]
    BY <1>1 DEF DataInv, DataTypeOK, ViewType
  <1>4. \A u \in Threads : u # t => pc'[u] = pc[u] /\ view'[u] = view[u]
    BY <1>1 DEF Goto, CtlInv, CtlTypeOK, DataInv, DataTypeOK
  <1>5. /\ pc'[t] = "wait" /\ view'[t].fresh = view[t].fresh
        /\ view'[t].ind = view[t].ind /\ view'[t].prev = view[t].prev
    BY <1>1 DEF Goto, CtlInv, CtlTypeOK, DataInv, DataTypeOK, ViewType
  <1>6. PollerInv(t) /\ pc[t] = "describe"
    BY <1>1 DEF DataInv, Goto
  <1>7. PollerInv(t)'
    BY <1>1, <1>5, <1>6 DEF PollerInv, Idle, CreatedListed, Remembers,
                            Looping, Holding
  <1> QED
    BY <1>1, <1>2, <1>3, <1>4, <1>7, OnePollerSteps DEF DataInv, DataTypeOK

\* Giving an indication up changes nothing but the history's lost deletions.
LEMMA GiveUpType ==
  ASSUME NEW h \in HistType, NEW ev \in Event \cup {NoEvent}
  PROVE  /\ GiveUp(h, ev) \in HistType
         /\ GiveUp(h, ev).reported = h.reported
         /\ h.lost \subseteq GiveUp(h, ev).lost
         /\ ev.kind = "deleted" => ev.e.dom \in GiveUp(h, ev).lost
  <1> DEFINE D == IF ev.kind = "deleted" THEN h.lost \cup {ev.e.dom} ELSE h.lost
  <1>1. GiveUp(h, ev) = [h EXCEPT !.lost = D]
    BY DEF GiveUp
  <1>2. ev.kind = "deleted" => ev.e.dom \in Domains \cup {None}
    BY DEF Event, Entry, NoEvent
  <1>3. D \subseteq Domains \cup {None} /\ h.lost \subseteq D
    BY <1>2 DEF HistType
  <1>4. ev.kind = "deleted" => ev.e.dom \in D
    OBVIOUS
  <1> HIDE DEF D
  <1> QED
    BY <1>1, <1>3, <1>4 DEF HistType

\* An event is passed over: when it is a deletion, the history records it.
LEMMA PassedOver ==
  ASSUME CtlInv, DataInv, NEW t \in Threads, NEW ev \in NextEvents(t),
         pc[t] = "deliver", pc' = pc,
         view' = [view EXCEPT ![t].todo = @ \ {ev}],
         hist' = [hist EXCEPT ![t] = GiveUp(@, ev)],
         host' = host, changes' \in 0 .. MaxChanges
  PROVE  DataInv'
  <1>1. view' \in [Threads -> ViewType]
    BY DEF DataInv, DataTypeOK, ViewType
  <1>2. /\ \A u \in Threads : u # t => view'[u] = view[u]
        /\ view'[t].todo = view[t].todo \ {ev}
        /\ view'[t].cur = view[t].cur /\ view'[t].ind = view[t].ind
        /\ view'[t].fresh = view[t].fresh
    BY DEF DataInv, DataTypeOK, ViewType
  <1>3. hist[t] \in HistType /\ ev \in Event /\ hist \in [Threads -> HistType]
    BY DEF DataInv, DataTypeOK, ViewType, NextEvents
  <1> DEFINE h == GiveUp(hist[t], ev)
  <1>4. /\ h \in HistType /\ h.reported = hist[t].reported
        /\ hist[t].lost \subseteq h.lost
        /\ ev.kind = "deleted" => ev.e.dom \in h.lost
    BY <1>3, GiveUpType
  <1>5. hist' = [hist EXCEPT ![t] = h]
    OBVIOUS
  <1> HIDE DEF h
  <1>6. /\ hist' \in [Threads -> HistType] /\ hist'[t] = h
        /\ \A u \in Threads : u # t => hist'[u] = hist[u]
    BY <1>3, <1>4, <1>5
  <1>7. PollerInv(t)
    BY DEF DataInv
  <1>8. Idle(t)' /\ CreatedListed(t)'
    BY <1>2, <1>7 DEF PollerInv, Idle, CreatedListed
  <1>9. Remembers(t)'
    <2> SUFFICES ASSUME ~view'[t].fresh, NEW d \in h.reported, d \notin h.lost
                 PROVE  d \in Doms(view'[t].cur) \cup DeletedIn(view'[t])
      BY <1>6 DEF Remembers
    <2>1. d \in Doms(view[t].cur) \cup DeletedIn(view[t])
      BY <1>2, <1>4, <1>7 DEF PollerInv, Remembers, Looping, Holding
    <2>2. ASSUME d \in DeletedIn(view[t]) PROVE d \in DeletedIn(view'[t])
      <3>1. PICK x \in view[t].todo \cup {view[t].ind} :
               x.kind = "deleted" /\ x.e.dom = d
        BY <2>2 DEF DeletedIn
      <3>2. x # ev
        BY <1>4, <3>1
      <3> QED
        BY <1>2, <3>1, <3>2 DEF DeletedIn
    <2> QED
      BY <1>2, <2>1, <2>2
  <1> QED
    BY <1>1, <1>2, <1>6, <1>8, <1>9, OnePollerSteps
       DEF DataInv, DataTypeOK, PollerInv

LEMMA SkipDisabledKeeps ==
  ASSUME CtlInv, DataInv, NEW t \in Threads, SkipDisabled(t)
  PROVE  DataInv'
  <1>1. PICK ev \in NextEvents(t) : /\ view' = [view EXCEPT ![t].todo = @ \ {ev}]
                                    /\ hist' = [hist EXCEPT ![t] = GiveUp(@, ev)]
    BY DEF SkipDisabled
  <1>2. /\ pc[t] = "deliver" /\ pc' = pc /\ host' = host
        /\ changes' \in 0 .. MaxChanges
    BY DEF SkipDisabled, world, DataInv, DataTypeOK
  <1> QED
    BY <1>1, <1>2, PassedOver

LEMMA NotBuiltKeeps ==
  ASSUME CtlInv, DataInv, NEW t \in Threads, NotBuilt(t)
  PROVE  DataInv'
  <1>1. PICK ev \in NextEvents(t) : /\ UNCHANGED changes \/ Disturb
                                    /\ view' = [view EXCEPT ![t].todo = @ \ {ev}]
                                    /\ hist' = [hist EXCEPT ![t] = GiveUp(@, ev)]
    BY DEF NotBuilt
  <1>2. pc[t] = "deliver" /\ pc' = pc /\ host' = host
    BY DEF NotBuilt
  <1>3. changes' \in 0 .. MaxChanges
    BY <1>1, BoundsAssumption DEF Disturb, DataInv, DataTypeOK
  <1> QED
    BY <1>1, <1>2, <1>3, PassedOver

LEMMA BuildIndicationKeeps ==
  ASSUME CtlInv, DataInv, NEW t \in Threads, BuildIndication(t)
  PROVE  DataInv'
  <1>1. PICK ev \in NextEvents(t) :
          view' = [view EXCEPT ![t].todo = @ \ {ev}, ![t].ind = ev]
    BY DEF BuildIndication
  <1>2. /\ Goto(t, "deliver", "emit")
        /\ hist' = hist /\ host' = host /\ changes' = changes
    BY DEF BuildIndication, world
  <1>3. view[t] \in ViewType /\ ev \in view[t].todo /\ ev \in Event
    BY DEF NextEvents, DataInv, DataTypeOK, ViewType
  <1>4. view' \in [Threads -> ViewType]
    BY <1>1, <1>3 DEF DataInv, DataTypeOK, ViewType
  <1>5. \A u \in Threads : u # t => pc'[u] = pc[u] /\ view'[u] = view[u]
    BY <1>1, <1>2 DEF Goto, CtlInv, CtlTypeOK, DataInv, DataTypeOK
  <1>6. /\ pc[t] = "deliver" /\ pc'[t] = "emit"
        /\ view'[t].todo = view[t].todo \ {ev} /\ view'[t].ind = ev
        /\ view'[t].cur = view[t].cur /\ view'[t].fresh = view[t].fresh
    BY <1>1, <1>2, <1>3 DEF Goto, CtlInv, CtlTypeOK, DataInv, DataTypeOK,
                            ViewType
  <1>7. PollerInv(t) /\ view[t].ind = NoEvent
    BY <1>6 DEF DataInv, PollerInv, Idle
  <1>8. DeletedIn(view'[t]) = DeletedIn(view[t])
    BY <1>3, <1>6, <1>7 DEF DeletedIn, NoEvent
  <1>9. PollerInv(t)'
    BY <1>2, <1>3, <1>6, <1>7, <1>8
       DEF PollerInv, Idle, CreatedListed, Remembers, Looping, Holding
  <1> QED
    BY <1>2, <1>4, <1>5, <1>9, OnePollerSteps DEF DataInv, DataTypeOK

\* The reported domains grow by one that is in the new listing and shrink by
\* the one whose deletion is delivered; a deletion that is not delivered is
\* recorded, and the other deletions are still due.
LEMMA EventHandled ==
  ASSUME CtlInv, DataInv, NEW t \in Threads, Goto(t, "emit", "deliver"),
         NEW h \in HistType, hist' = [hist EXCEPT ![t] = h],
         \A d \in h.reported \ h.lost :
            \/ d \in hist[t].reported \ hist[t].lost
            \/ view[t].ind.kind = "created" /\ d = view[t].ind.e.dom,
         view[t].ind.kind = "deleted" =>
            view[t].ind.e.dom \notin h.reported \ h.lost,
         view' = [view EXCEPT ![t].ind = NoEvent],
         host' = host, changes' \in 0 .. MaxChanges
  PROVE  DataInv'
  <1>1. view' \in [Threads -> ViewType] /\ hist' \in [Threads -> HistType]
    BY DEF DataInv, DataTypeOK, ViewType
  <1>2. \A u \in Threads : u # t => /\ pc'[u] = pc[u]
                                    /\ view'[u] = view[u]
                                    /\ hist'[u] = hist[u]
    BY DEF Goto, CtlInv, CtlTypeOK, DataInv, DataTypeOK
  <1>3. /\ pc[t] = "emit" /\ pc'[t] = "deliver"
        /\ view'[t].todo = view[t].todo /\ view'[t].ind = NoEvent
        /\ view'[t].cur = view[t].cur /\ view'[t].fresh = view[t].fresh
        /\ hist'[t] = h
    BY DEF Goto, CtlInv, CtlTypeOK, DataInv, DataTypeOK, ViewType
  <1>4. PollerInv(t)
    BY DEF DataInv
  <1>5. Idle(t)' /\ CreatedListed(t)'
    BY <1>3, <1>4 DEF PollerInv, Idle, CreatedListed, NoEvent
  <1>6. Remembers(t)'
    <2> SUFFICES ASSUME ~view'[t].fresh, NEW d \in h.reported \ h.lost
                 PROVE  d \in Doms(view'[t].cur) \cup DeletedIn(view'[t])
      BY <1>3 DEF Remembers
    <2>1. CASE view[t].ind.kind = "created" /\ d = view[t].ind.e.dom
      BY <1>3, <1>4, <2>1 DEF PollerInv, CreatedListed
    <2>2. CASE d \in hist[t].reported \ hist[t].lost
      <3>1. d \in Doms(view[t].cur) \cup DeletedIn(view[t])
        BY <1>3, <1>4, <2>2 DEF PollerInv, Remembers, Looping, Holding
      <3>2. ASSUME d \in DeletedIn(view[t])
            PROVE  d \in DeletedIn(view'[t])
        <4>1. PICK ev \in view[t].todo \cup {view[t].ind} :
                ev.kind = "deleted" /\ ev.e.dom = d
          BY <3>2 DEF DeletedIn
        <4>2. ev \in view[t].todo
          BY <4>1
        <4> QED
          BY <1>3, <4>1, <4>2 DEF DeletedIn
      <3> QED
        BY <1>3, <3>1, <3>2
    <2> QED
      BY <2>1, <2>2
  <1> QED
    BY <1>1, <1>2, <1>5, <1>6, OnePollerSteps DEF DataInv, DataTypeOK, PollerInv

LEMMA ToldType ==
  ASSUME NEW h \in HistType, NEW ev \in Event \cup {NoEvent}
  PROVE  /\ Told(h, ev) \in HistType
         /\ \A d \in Told(h, ev).reported \ Told(h, ev).lost :
               \/ d \in h.reported \ h.lost
               \/ ev.kind = "created" /\ d = ev.e.dom
         /\ ev.kind = "deleted" => ev.e.dom \notin Told(h, ev).reported
  <1>1. CASE ev.kind = "created"
    <2>1. Told(h, ev) = [reported |-> h.reported \cup {ev.e.dom},
                         lost |-> h.lost \ {ev.e.dom}]
      BY <1>1 DEF Told
    <2>2. ev.e.dom \in Domains \cup {None}
      BY <1>1 DEF Event, Entry, NoEvent
    <2> QED
      BY <1>1, <2>1, <2>2 DEF HistType
  <1>2. CASE ev.kind = "deleted"
    <2>1. Told(h, ev) = [reported |-> h.reported \ {ev.e.dom},
                         lost |-> h.lost \ {ev.e.dom}]
      BY <1>2 DEF Told
    <2> QED
      BY <1>2, <2>1 DEF HistType
  <1>3. CASE ev.kind \notin {"created", "deleted"}
    <2>1. Told(h, ev) = h
      BY <1>3 DEF Told
    <2> QED
      BY <1>3, <2>1
  <1> QED
    BY <1>1, <1>2, <1>3

LEMMA DoIndicationKeeps ==
  ASSUME CtlInv, DataInv, NEW t \in Threads, DoIndication(t)
  PROVE  DataInv'
  <1>1. hist[t] \in HistType /\ view[t].ind \in Event \cup {NoEvent}
    BY DEF DataInv, DataTypeOK, ViewType
  <1> DEFINE h == Told(hist[t], view[t].ind)
  <1>2. /\ h \in HistType
        /\ \A d \in h.reported \ h.lost :
              \/ d \in hist[t].reported \ hist[t].lost
              \/ view[t].ind.kind = "created" /\ d = view[t].ind.e.dom
        /\ view[t].ind.kind = "deleted" => view[t].ind.e.dom \notin h.reported
    BY <1>1, ToldType
  <1>3. /\ Goto(t, "emit", "deliver") /\ hist' = [hist EXCEPT ![t] = h]
        /\ view' = [view EXCEPT ![t].ind = NoEvent]
        /\ host' = host /\ changes' \in 0 .. MaxChanges
    BY DEF DoIndication, world, DataInv, DataTypeOK
  <1> HIDE DEF h
  <1> QED
    BY <1>2, <1>3, EventHandled

LEMMA NotDeliveredKeeps ==
  ASSUME CtlInv, DataInv, NEW t \in Threads, NotDelivered(t)
  PROVE  DataInv'
  <1>1. hist[t] \in HistType /\ view[t].ind \in Event \cup {NoEvent}
    BY DEF DataInv, DataTypeOK, ViewType
  <1> DEFINE h == GiveUp(hist[t], view[t].ind)
  <1>2. /\ h \in HistType /\ h.reported = hist[t].reported
        /\ hist[t].lost \subseteq h.lost
        /\ view[t].ind.kind = "deleted" => view[t].ind.e.dom \in h.lost
    BY <1>1, GiveUpType
  <1>3. /\ Goto(t, "emit", "deliver") /\ hist' = [hist EXCEPT ![t] = h]
        /\ view' = [view EXCEPT ![t].ind = NoEvent] /\ host' = host
    BY DEF NotDelivered
  <1>4. changes' \in 0 .. MaxChanges
    BY BoundsAssumption DEF NotDelivered, Disturb, DataInv, DataTypeOK
  <1> HIDE DEF h
  <1> QED
    BY <1>2, <1>3, <1>4, EventHandled

\* The batch is done: no deletion is due any more, and the new listing becomes
\* the old one (line 699).
LEMMA BatchDoneKeeps ==
  ASSUME CtlInv, DataInv, NEW t \in Threads, BatchDone(t)
  PROVE  DataInv'
  <1>1. /\ Goto(t, "deliver", "wait") /\ view[t].todo = {}
        /\ view' = [view EXCEPT ![t].prev = view[t].cur, ![t].cur = {}]
        /\ hist' = hist /\ host' = host /\ changes' = changes
    BY DEF BatchDone, world
  <1>2. view[t] \in ViewType /\ view[t].cur \subseteq Entry
    BY DEF DataInv, DataTypeOK, ViewType
  <1>3. view' \in [Threads -> ViewType]
    BY <1>1, <1>2 DEF DataInv, DataTypeOK, ViewType
  <1>4. \A u \in Threads : u # t => pc'[u] = pc[u] /\ view'[u] = view[u]
    BY <1>1 DEF Goto, CtlInv, CtlTypeOK, DataInv, DataTypeOK
  <1>5. /\ pc[t] = "deliver" /\ pc'[t] = "wait"
        /\ view'[t].fresh = view[t].fresh /\ view'[t].ind = view[t].ind
        /\ view'[t].prev = view[t].cur
    BY <1>1, <1>2 DEF Goto, CtlInv, CtlTypeOK, DataInv, DataTypeOK, ViewType
  <1>6. PollerInv(t) /\ view[t].ind = NoEvent
    BY <1>5 DEF DataInv, PollerInv, Idle
  <1>7. DeletedIn(view[t]) = {}
    BY <1>1, <1>6 DEF DeletedIn, NoEvent
  <1>8. PollerInv(t)'
    BY <1>1, <1>5, <1>6, <1>7 DEF PollerInv, Idle, CreatedListed, Remembers,
                                  Looping, Holding
  <1> QED
    BY <1>1, <1>3, <1>4, <1>8, OnePollerSteps DEF DataInv, DataTypeOK

LEMMA ExitKeeps ==
  ASSUME CtlInv, DataInv, NEW t \in Threads, Exit(t)
  PROVE  DataInv'
  <1>1. /\ Goto(t, "exit", "none")
        /\ view' = [view EXCEPT ![t] = EmptyView]
        /\ hist' = [hist EXCEPT ![t] = EmptyHist]
        /\ host' = host /\ changes' = changes
    BY DEF Exit, world
  <1>2. /\ EmptyView \in ViewType /\ EmptyHist \in HistType
        /\ EmptyView.fresh /\ EmptyView.ind = NoEvent
    BY DEF EmptyView, ViewType, EmptyHist, HistType
  <1>3. view' \in [Threads -> ViewType] /\ hist' \in [Threads -> HistType]
    BY <1>1, <1>2 DEF DataInv, DataTypeOK
  <1>4. \A u \in Threads : u # t => /\ pc'[u] = pc[u]
                                    /\ view'[u] = view[u]
                                    /\ hist'[u] = hist[u]
    BY <1>1 DEF Goto, CtlInv, CtlTypeOK, DataInv, DataTypeOK
  <1>5. pc'[t] = "none" /\ view'[t] = EmptyView
    BY <1>1 DEF Goto, CtlInv, CtlTypeOK, DataInv, DataTypeOK
  <1>6. PollerInv(t)'
    BY <1>2, <1>5 DEF PollerInv, Idle, CreatedListed, Remembers, Looping,
                      Holding
  <1> QED
    BY <1>1, <1>3, <1>4, <1>6, OnePollerSteps DEF DataInv, DataTypeOK

LEMMA PollerKeepsDataInv ==
  ASSUME CtlInv, DataInv, NEW t \in Threads, PollerStep(t)
  PROVE  DataInv'
  <1> USE DEF PCs, Looping, Holding, world
  <1>1. changes \in 0 .. MaxChanges
    BY DEF DataInv, DataTypeOK
  <1>2. CASE NoPrefix(t)
    BY <1>1, <1>2, PcKeepsDataInv DEF NoPrefix
  <1>3. CASE ConnectFails(t)
    BY <1>1, <1>3, PcKeepsDataInv DEF ConnectFails
  <1>4. CASE Connect(t)
    <2>1. view[t].fresh
      BY <1>4 DEF Connect, Goto, DataInv, PollerInv, Idle
    <2> QED
      BY <1>1, <1>4, <2>1, PcKeepsDataInv DEF Connect
  <1>5. CASE ListFails(t)
    <2>1. changes' \in 0 .. MaxChanges
      BY <1>1, <1>5, BoundsAssumption DEF ListFails, Disturb
    <2> QED
      BY <1>5, <2>1, PcKeepsDataInv DEF ListFails
  <1>6. CASE Continue(t)
    BY <1>1, <1>6, PcKeepsDataInv DEF Continue
  <1>7. CASE Leave(t)
    BY <1>1, <1>7, PcKeepsDataInv DEF Leave
  <1>8. CASE Wake(t)
    BY <1>1, <1>8, PcKeepsDataInv DEF Wake
  <1>9. CASE Relock(t)
    BY <1>1, <1>9, PcKeepsDataInv DEF Relock
  <1>10. CASE Close(t)
    BY <1>1, <1>10, PcKeepsDataInv DEF Close
  <1>11. CASE ReadNull(t)
    BY <1>11 DEF ReadNull, DataInv, DataTypeOK, PollerInv, Idle,
                 CreatedListed, Remembers
  <1>12. CASE CountDomains(t) \/ ListInactive(t) \/ ListActive(t)
    BY <1>12, CountDomainsKeeps, ListKeeps
  <1>13. CASE FirstSnapshot(t) \/ PartialSnapshot(t)
    BY <1>13, FirstSnapshotKeeps, PartialSnapshotKeeps
  <1>14. CASE Describe(t) \/ DescribeFails(t)
    BY <1>14, DescribeKeeps, DescribeFailsKeeps
  <1>15. CASE SkipDisabled(t) \/ NotBuilt(t)
    BY <1>15, SkipDisabledKeeps, NotBuiltKeeps
  <1>16. CASE BuildIndication(t) \/ DoIndication(t) \/ NotDelivered(t) \/ BatchDone(t)
    BY <1>16, BuildIndicationKeeps, DoIndicationKeeps, NotDeliveredKeeps, BatchDoneKeeps
  <1>17. CASE Exit(t)
    BY <1>17, ExitKeeps
  <1> QED
    BY <1>2, <1>3, <1>4, <1>5, <1>6, <1>7, <1>8, <1>9, <1>10, <1>11, <1>12,
       <1>13, <1>14, <1>15, <1>16, <1>17 DEF PollerStep

LEMMA CallKeepsDataInv ==
  ASSUME CtlInv, DataInv, Call
  PROVE  DataInv'
  <1>1. UNCHANGED <<view, hist, host, changes>>
    BY DEF Call, EnableIndications, DisableIndications, SetEnabled, RaiseChecked,
           RaiseReturns, ActivateFilter, DeActivateFilter, world
  <1> DEFINE Moves(t) == \/ pc'[t] = pc[t]
                         \/ pc[t] = "none" /\ pc'[t] = "start"
                         \/ pc[t] = "wait" /\ pc'[t] = "woken"
  <1>2. \A t \in Threads : Moves(t)
    <2>1. CASE EnableIndications \/ DisableIndications
      BY <2>1 DEF EnableIndications, DisableIndications, SetEnabled
    <2>2. ASSUME NEW p \in Platforms, ActivateFilter(p)
          PROVE  \A t \in Threads : Moves(t)
      <3>1. pc' = pc \/ \E t \in Threads : /\ pc[t] = "none"
                                           /\ pc' = [pc EXCEPT ![t] = "start"]
        BY <2>2 DEF ActivateFilter, JoinRunning, StartThread, ThreadRefused
      <3> QED
        BY <3>1 DEF CtlInv, CtlTypeOK
    <2>3. ASSUME NEW p \in Platforms, DeActivateFilter(p)
          PROVE  \A t \in Threads : Moves(t)
      BY <2>3 DEF DeActivateFilter, SignalOutcomes, Waiters, CtlInv, CtlTypeOK
    <2>4. CASE RaiseChecked \/ RaiseReturns
      BY <2>4 DEF RaiseChecked, RaiseReturns
    <2> QED
      BY <2>1, <2>2, <2>3, <2>4 DEF Call
  <1>3. ASSUME NEW t \in Threads
        PROVE  PollerInv(t)'
    <2>1. PollerInv(t)
      BY DEF DataInv
    <2> QED
      BY <1>1, <1>2, <2>1 DEF PollerInv, Idle, CreatedListed, Remembers,
                              Looping, Holding
  <1> QED
    BY <1>1, <1>3 DEF DataInv, DataTypeOK

LEMMA DataStep == CtlInv /\ DataInv /\ [Next]_vars => DataInv'
  <1> SUFFICES ASSUME CtlInv, DataInv, [Next]_vars PROVE DataInv'
    OBVIOUS
  <1>1. CASE Call
    BY <1>1, CallKeepsDataInv
  <1>2. ASSUME NEW t \in Threads, PollerStep(t)
        PROVE  DataInv'
    BY <1>2, PollerKeepsDataInv
  <1>3. ASSUME NEW p \in Platforms, HostChange(p)
        PROVE  DataInv'
    <2>1. UNCHANGED <<pc, view, hist>>
      BY <1>3 DEF HostChange
    <2>2. changes' \in 0 .. MaxChanges
      BY <1>3, BoundsAssumption DEF HostChange, Disturb, DataInv, DataTypeOK
    <2>3. host' \in [Platforms -> [Domains -> HostStates]]
      BY <1>3 DEF HostChange, DataInv, DataTypeOK
    <2> QED
      BY <2>1, <2>2, <2>3 DEF DataInv, DataTypeOK, PollerInv, Idle,
                              CreatedListed, Remembers
  <1>4. CASE Restart
    <2>1. /\ pc' = [t \in Threads |-> "none"]
          /\ view' = [t \in Threads |-> EmptyView]
          /\ hist' = [t \in Threads |-> EmptyHist]
          /\ host' = host /\ changes' = changes
      BY <1>4 DEF Restart, world
    <2>2. /\ EmptyView \in ViewType /\ EmptyHist \in HistType
          /\ EmptyView.fresh /\ EmptyView.ind = NoEvent
      BY DEF EmptyView, ViewType, EmptyHist, HistType
    <2>3. DataTypeOK'
      BY <2>1, <2>2 DEF DataInv, DataTypeOK
    <2>4. \A t \in Threads : PollerInv(t)'
      BY <2>1, <2>2 DEF PollerInv, Idle, CreatedListed, Remembers, Looping,
                        Holding
    <2> QED
      BY <2>3, <2>4 DEF DataInv
  <1>5. CASE UNCHANGED vars
    BY <1>5 DEF DataInv, DataTypeOK, PollerInv, Idle, CreatedListed,
                Remembers, vars, world
  <1> QED
    BY <1>1, <1>2, <1>3, <1>4, <1>5 DEF Next

\* The data invariant holds in every reachable state.
THEOREM DataInvariant == Spec => []DataInv
  <1>1. Init => DataInv
    BY DataInit
  <1>2. CtlInv /\ DataInv /\ [Next]_vars => DataInv'
    BY DataStep
  <1> QED
    BY <1>1, <1>2, ControlInvariant, PTL DEF Spec

\* Every variable keeps its type: only the listing the poller started from can
\* hold the zeroed entries of a failed doms_to_xml (line 643), and every event
\* in hand is about an entry of the old or the new listing.
THEOREM TypesCorrect == Spec => []TypeOK
  <1>1. CtlInv /\ DataInv => TypeOK
    BY DEF CtlInv, DataInv, TypeOK
  <1> QED
    BY <1>1, ControlInvariant, DataInvariant, PTL

\* No failed, short or partial listing makes the poller forget a domain it has
\* reported: it is in the listing the next comparison starts from (lines 662
\* and 699), or its Deleted indication is due, or that indication was given up
\* on its way to the CIMOM (lines 540, 547 to 574, 151 to 173 and 198).
THEOREM NothingForgotten == Spec => []NoForgottenGuest
  <1>1. DataInv => NoForgottenGuest
    BY DEF DataInv, PollerInv, Remembers, DeletedIn, NoForgottenGuest
  <1> QED
    BY <1>1, DataInvariant, PTL

-----------------------------------------------------------------------------
(***************************************************************************)
(* What the fairness of FairSpec rests on: whoever holds lifecycle_mutex   *)
(* lets go of it after finitely many steps, whatever the hypervisor does   *)
(* meanwhile.                                                              *)
(***************************************************************************)
Between == {"wait", "woken", "check", "deliver", "emit"}

\* The first listing has been taken by a poller that is in its loop.
Begun == \A t \in Threads : pc[t] \in Between => ~view[t].fresh

\* Where a step of a poller leads: a, b and v, w are its positions and its
\* local variables before and after.
Course(a, b, v, w) ==
    \/ a = "start" /\ b \in {"exit", "count"}
    \/ a = "count" /\ b \in {"list", "describe"} /\ w.fresh = v.fresh
    \/ a = "list" /\ b \in {"listActive", "describe"} /\ w.fresh = v.fresh
    \/ a = "listActive" /\ b = "describe" /\ w.fresh = v.fresh
    \/ a = "describe" /\ v.fresh /\ b = "check" /\ ~w.fresh
    \/ a = "describe" /\ ~v.fresh /\ b = "deliver" /\ ~w.fresh
    \/ a = "describe" /\ ~v.fresh /\ b = "wait" /\ ~w.fresh /\ mutex' = None
    \/ a = "check" /\ b = "count" /\ w.fresh = v.fresh
    \/ a = "check" /\ b = "close" /\ mutex' = None
    \/ /\ a = "deliver" /\ b \in {"deliver", "emit"} /\ w.fresh = v.fresh
       /\ \E ev \in v.todo : w.todo = v.todo \ {ev}
    \/ a = "deliver" /\ b = "wait" /\ w.fresh = v.fresh /\ mutex' = None
    \/ a = "deliver" /\ b = "deliver" /\ w = v /\ crashed'
    \/ a = "emit" /\ b = "deliver" /\ w.fresh = v.fresh /\ w.todo = v.todo
    \/ a = "wait" /\ b = "woken" /\ w.fresh = v.fresh
    \/ a = "woken" /\ b = "check" /\ w.fresh = v.fresh
    \/ a = "close" /\ b = "exit"
    \/ a = "exit" /\ b = "none"

LEMMA PollerCourse ==
  ASSUME CtlInv, DataInv, NEW t \in Threads, PollerStep(t)
  PROVE  /\ Course(pc[t], pc'[t], view[t], view'[t])
         /\ \A u \in Threads \ {t} : pc'[u] = pc[u] /\ view'[u] = view[u]
  <1>1. pc \in [Threads -> PCs] /\ view \in [Threads -> ViewType] /\ view[t] \in ViewType
    BY DEF CtlInv, CtlTypeOK, DataInv, DataTypeOK
  <1>2. ASSUME NEW a, NEW b, Goto(t, a, b), UNCHANGED view
        PROVE  /\ pc[t] = a /\ pc'[t] = b /\ view'[t] = view[t]
               /\ \A u \in Threads \ {t} : pc'[u] = pc[u] /\ view'[u] = view[u]
    BY <1>1, <1>2 DEF Goto
  <1>3. ASSUME NEW a, NEW b, NEW w, Goto(t, a, b), view' = [view EXCEPT ![t] = w]
        PROVE  /\ pc[t] = a /\ pc'[t] = b /\ view'[t] = w
               /\ \A u \in Threads \ {t} : pc'[u] = pc[u] /\ view'[u] = view[u]
    BY <1>1, <1>3 DEF Goto
  <1>4. CASE NoPrefix(t) \/ ConnectFails(t) \/ Connect(t)
    <2>1. PICK b \in {"exit", "count"} : Goto(t, "start", b) /\ UNCHANGED view
      BY <1>4 DEF NoPrefix, ConnectFails, Connect
    <2> QED
      BY <1>2, <2>1 DEF Course
  <1>5. CASE Wake(t) \/ Relock(t) \/ Close(t)
    <2>1. PICK a \in {"wait", "woken", "close"}, b \in {"woken", "check", "exit"} :
             /\ Goto(t, a, b) /\ UNCHANGED view
             /\ <<a, b>> \in {<<"wait", "woken">>, <<"woken", "check">>, <<"close", "exit">>}
      BY <1>5 DEF Wake, Relock, Close
    <2>2. Course(a, b, view[t], view'[t])
      BY <2>1 DEF Course
    <2> QED
      BY <1>2, <2>1, <2>2
  <1>6. CASE ListFails(t)
    <2>1. PICK a \in {"count", "list", "listActive"} : Goto(t, a, "describe") /\ UNCHANGED view
      BY <1>6 DEF ListFails
    <2> QED
      BY <1>2, <2>1 DEF Course
  <1>7. CASE Continue(t)
    BY <1>2, <1>7 DEF Continue, Course
  <1>8. CASE Leave(t)
    BY <1>2, <1>8 DEF Leave, Unlock, Course
  <1>9. CASE CountDomains(t)
    <2>1. PICK r : view' = [view EXCEPT ![t].room = r]
      BY <1>9 DEF CountDomains
    <2> DEFINE w == [view[t] EXCEPT !.room = r]
    <2>2. w.fresh = view[t].fresh
      BY <1>1 DEF ViewType
    <2>3. Goto(t, "count", "list") /\ view' = [view EXCEPT ![t] = w]
      BY <1>9, <2>1 DEF CountDomains
    <2> HIDE DEF w
    <2> QED
      BY <1>3, <2>2, <2>3 DEF Course
  <1>10. CASE ListInactive(t) \/ ListActive(t)
    <2>1. PICK L : view' = [view EXCEPT ![t].cur = L]
      BY <1>10, ListLists
    <2> DEFINE w == [view[t] EXCEPT !.cur = L]
    <2>2. w.fresh = view[t].fresh
      BY <1>1 DEF ViewType
    <2>3. view' = [view EXCEPT ![t] = w]
      BY <2>1
    <2>4. Goto(t, "list", "listActive") \/ Goto(t, "listActive", "describe")
      BY <1>10 DEF ListInactive, ListActive
    <2> HIDE DEF w
    <2> QED
      BY <1>3, <2>2, <2>3, <2>4 DEF Course
  <1>11. CASE FirstSnapshot(t) \/ PartialSnapshot(t)
    <2>1. PICK S : view' = [view EXCEPT ![t] = [EmptyView EXCEPT !.fresh = FALSE, !.prev = S]]
      BY <1>11 DEF FirstSnapshot, PartialSnapshot
    <2> DEFINE w == [EmptyView EXCEPT !.fresh = FALSE, !.prev = S]
    <2>2. ~w.fresh
      BY DEF EmptyView
    <2>3. view' = [view EXCEPT ![t] = w]
      BY <2>1
    <2>4. Goto(t, "describe", "check") /\ view[t].fresh
      BY <1>11 DEF FirstSnapshot, PartialSnapshot
    <2> HIDE DEF w
    <2> QED
      BY <1>3, <2>2, <2>3, <2>4 DEF Course
  <1>12. CASE Describe(t)
    <2>1. PICK S, D : view' = [view EXCEPT ![t].cur = S, ![t].todo = D]
      BY <1>12 DEF Describe
    <2> DEFINE w == [view[t] EXCEPT !.cur = S, !.todo = D]
    <2>2. w.fresh = view[t].fresh
      BY <1>1 DEF ViewType
    <2>3. view' = [view EXCEPT ![t] = w]
      BY <2>1
    <2>4. Goto(t, "describe", "deliver") /\ ~view[t].fresh
      BY <1>12 DEF Describe
    <2> HIDE DEF w
    <2> QED
      BY <1>3, <2>2, <2>3, <2>4 DEF Course
  <1>13. CASE DescribeFails(t)
    <2> DEFINE w == [view[t] EXCEPT !.cur = {}]
    <2>1. w.fresh = view[t].fresh
      BY <1>1 DEF ViewType
    <2>2. /\ Goto(t, "describe", "wait") /\ view' = [view EXCEPT ![t] = w]
          /\ ~view[t].fresh /\ mutex' = None
      BY <1>13 DEF DescribeFails, Unlock
    <2> HIDE DEF w
    <2> QED
      BY <1>3, <2>1, <2>2 DEF Course
  <1>14. CASE ReadNull(t)
    BY <1>14 DEF ReadNull, Course
  <1>15. CASE SkipDisabled(t) \/ NotBuilt(t)
    <2>1. PICK ev \in NextEvents(t) : view' = [view EXCEPT ![t].todo = view[t].todo \ {ev}]
      BY <1>15 DEF SkipDisabled, NotBuilt
    <2>2. pc[t] = "deliver" /\ pc' = pc
      BY <1>15 DEF SkipDisabled, NotBuilt
    <2> DEFINE w == [view[t] EXCEPT !.todo = view[t].todo \ {ev}]
    <2>3. w.fresh = view[t].fresh /\ w.todo = view[t].todo \ {ev}
      BY <1>1 DEF ViewType
    <2>4. view' = [view EXCEPT ![t] = w]
      BY <2>1
    <2>5. ev \in view[t].todo
      BY <2>1 DEF NextEvents
    <2> HIDE DEF w
    <2>6. view'[t] = w /\ \A u \in Threads \ {t} : view'[u] = view[u]
      BY <1>1, <2>4
    <2> QED
      BY <2>2, <2>3, <2>5, <2>6 DEF Course
  <1>16. CASE BuildIndication(t)
    <2>1. PICK ev \in NextEvents(t) :
             view' = [view EXCEPT ![t].todo = view[t].todo \ {ev}, ![t].ind = ev]
      BY <1>16 DEF BuildIndication
    <2> DEFINE w == [view[t] EXCEPT !.todo = view[t].todo \ {ev}, !.ind = ev]
    <2>2. w.fresh = view[t].fresh /\ w.todo = view[t].todo \ {ev}
      BY <1>1 DEF ViewType
    <2>3. view' = [view EXCEPT ![t] = w] /\ Goto(t, "deliver", "emit")
      BY <1>16, <2>1 DEF BuildIndication
    <2>4. ev \in view[t].todo
      BY <2>1 DEF NextEvents
    <2> HIDE DEF w
    <2> QED
      BY <1>3, <2>2, <2>3, <2>4 DEF Course
  <1>17. CASE DoIndication(t) \/ NotDelivered(t)
    <2> DEFINE w == [view[t] EXCEPT !.ind = NoEvent]
    <2>1. w.fresh = view[t].fresh /\ w.todo = view[t].todo
      BY <1>1 DEF ViewType
    <2>2. view' = [view EXCEPT ![t] = w] /\ Goto(t, "emit", "deliver")
      BY <1>17 DEF DoIndication, NotDelivered
    <2> HIDE DEF w
    <2> QED
      BY <1>3, <2>1, <2>2 DEF Course
  <1>18. CASE BatchDone(t)
    <2> DEFINE w == [view[t] EXCEPT !.prev = view[t].cur, !.cur = {}]
    <2>1. w.fresh = view[t].fresh
      BY <1>1 DEF ViewType
    <2>2. view' = [view EXCEPT ![t] = w] /\ Goto(t, "deliver", "wait") /\ mutex' = None
      BY <1>18 DEF BatchDone, Unlock
    <2> HIDE DEF w
    <2> QED
      BY <1>3, <2>1, <2>2 DEF Course
  <1>19. CASE Exit(t)
    BY <1>3, <1>19 DEF Exit, Course
  <1> QED
    BY <1>4, <1>5, <1>6, <1>7, <1>8, <1>9, <1>10, <1>11, <1>12, <1>13, <1>14, <1>15,
       <1>16, <1>17, <1>18, <1>19 DEF PollerStep

LEMMA BegunStep == CtlInv /\ DataInv /\ Begun /\ [Next]_vars => Begun'
  <1> SUFFICES ASSUME CtlInv, DataInv, Begun, [Next]_vars PROVE Begun'
    OBVIOUS
  <1>1. pc \in [Threads -> PCs]
    BY DEF CtlInv, CtlTypeOK
  <1>2. ASSUME NEW t \in Threads, PollerStep(t) PROVE Begun'
    <2>1. /\ Course(pc[t], pc'[t], view[t], view'[t])
          /\ \A u \in Threads \ {t} : pc'[u] = pc[u] /\ view'[u] = view[u]
      BY <1>2, PollerCourse
    <2>2. pc'[t] \in Between => ~view'[t].fresh
      BY <2>1 DEF Course, Begun, Between
    <2> QED
      BY <2>1, <2>2 DEF Begun
  <1>3. CASE Call
    <2>1. UNCHANGED view
      BY <1>3 DEF Call, EnableIndications, DisableIndications, SetEnabled,
                  RaiseChecked, RaiseReturns, ActivateFilter, DeActivateFilter
    <2>2. \A t \in Threads : pc'[t] \in Between => pc[t] \in Between
      <3>1. CASE EnableIndications \/ DisableIndications
        BY <3>1 DEF EnableIndications, DisableIndications, SetEnabled
      <3>2. ASSUME NEW p \in Platforms, ActivateFilter(p)
            PROVE  \A t \in Threads : pc'[t] \in Between => pc[t] \in Between
        BY <1>1, <3>2 DEF ActivateFilter, JoinRunning, StartThread, ThreadRefused, Between
      <3>3. ASSUME NEW p \in Platforms, DeActivateFilter(p)
            PROVE  \A t \in Threads : pc'[t] \in Between => pc[t] \in Between
        <4>1. pc' \in SignalOutcomes
          BY <3>3 DEF DeActivateFilter
        <4>2. CASE pc' = pc
          BY <4>2
        <4>3. CASE pc' # pc
          <5>1. PICK u \in Waiters : pc' = [pc EXCEPT ![u] = "woken"]
            BY <4>1, <4>3 DEF SignalOutcomes
          <5> QED
            BY <1>1, <5>1 DEF Waiters, Between
        <4> QED
          BY <4>2, <4>3
      <3>4. CASE RaiseChecked \/ RaiseReturns
        BY <3>4 DEF RaiseChecked, RaiseReturns
      <3> QED
        BY <1>3, <3>1, <3>2, <3>3, <3>4 DEF Call
    <2> QED
      BY <2>1, <2>2 DEF Begun
  <1>4. CASE Restart
    BY <1>4 DEF Restart, Begun, Between
  <1>5. CASE UNCHANGED <<pc, view>>
    BY <1>5 DEF Begun
  <1> QED
    BY <1>2, <1>3, <1>4, <1>5 DEF Next, HostChange, vars

LEMMA BegunAlways == Spec => []Begun
  <1>1. Init => Begun
    BY DEF Init, Begun, Between
  <1> QED
    BY <1>1, BegunStep, ControlInvariant, DataInvariant, PTL DEF Spec

\* The differences of two listings are finitely many.
LEMMA EventsFinite == IsFiniteSet(Event)
  <1> DEFINE Lists == {"inactive", "active"}
             States == {"off", "on", "gone", "null"}
             Kinds == {"created", "deleted", "modified"}
             Fields == (Domains \cup {None}) \X (Lists \X States)
             e == [x \in Fields |-> [dom |-> x[1], from |-> x[2][1], state |-> x[2][2]]]
             v == [x \in Kinds \X Entry |-> [kind |-> x[1], e |-> x[2]]]
  <1>1. /\ IsFiniteSet({"inactive"}) /\ IsFiniteSet({"active"}) /\ IsFiniteSet({None})
        /\ IsFiniteSet({"off"}) /\ IsFiniteSet({"on"}) /\ IsFiniteSet({"gone"})
        /\ IsFiniteSet({"null"}) /\ IsFiniteSet({"created"}) /\ IsFiniteSet({"deleted"})
        /\ IsFiniteSet({"modified"})
    BY FS_Singleton
  <1>2. IsFiniteSet(Domains \cup {None})
    BY <1>1, DomainsAssumption, FS_Union
  <1>3. IsFiniteSet(Lists)
    <2>1. IsFiniteSet({"inactive"} \cup {"active"})
      BY <1>1, FS_Union
    <2>2. Lists = {"inactive"} \cup {"active"}
      OBVIOUS
    <2> QED
      BY <2>1, <2>2
  <1>4. IsFiniteSet(States)
    <2>1. IsFiniteSet({"off"} \cup {"on"}) /\ IsFiniteSet({"gone"} \cup {"null"})
      BY <1>1, FS_Union
    <2>2. IsFiniteSet(({"off"} \cup {"on"}) \cup ({"gone"} \cup {"null"}))
      BY <2>1, FS_Union
    <2>3. States = ({"off"} \cup {"on"}) \cup ({"gone"} \cup {"null"})
      OBVIOUS
    <2> QED
      BY <2>2, <2>3
  <1>5. IsFiniteSet(Kinds)
    <2>1. IsFiniteSet({"created"} \cup {"deleted"})
      BY <1>1, FS_Union
    <2>2. IsFiniteSet(({"created"} \cup {"deleted"}) \cup {"modified"})
      BY <1>1, <2>1, FS_Union
    <2>3. Kinds = ({"created"} \cup {"deleted"}) \cup {"modified"}
      OBVIOUS
    <2> QED
      BY <2>2, <2>3
  <1>6. IsFiniteSet(Fields)
    <2>1. IsFiniteSet(Lists \X States)
      BY <1>3, <1>4, FS_Product
    <2> HIDE DEF Lists, States
    <2> QED
      BY <1>2, <2>1, FS_Product
  <1>7. IsFiniteSet(Entry)
    <2>1. e \in [Fields -> Entry]
      BY DEF Entry
    <2>2. ASSUME NEW x \in Entry PROVE \E y \in Fields : e[y] = x
      <3>1. <<x.dom, <<x.from, x.state>>>> \in Fields
        BY DEF Entry
      <3>2. e[<<x.dom, <<x.from, x.state>>>>] = x
        BY <3>1 DEF Entry
      <3> QED
        BY <3>1, <3>2
    <2>3. e \in Surjection(Fields, Entry)
      BY <2>1, <2>2 DEF Surjection
    <2> HIDE DEF e, Fields
    <2> QED
      BY <1>6, <2>3, FS_Surjection
  <1>8. IsFiniteSet(Kinds \X Entry)
    BY <1>5, <1>7, FS_Product
  <1>9. v \in [Kinds \X Entry -> Event]
    BY DEF Event
  <1>10. ASSUME NEW x \in Event PROVE \E y \in Kinds \X Entry : v[y] = x
    <2>1. <<x.kind, x.e>> \in Kinds \X Entry
      BY DEF Event
    <2>2. v[<<x.kind, x.e>>] = x
      BY <2>1 DEF Event
    <2> QED
      BY <2>1, <2>2
  <1>11. v \in Surjection(Kinds \X Entry, Event)
    BY <1>9, <1>10 DEF Surjection
  <1> HIDE DEF v, Kinds
  <1> QED
    BY <1>8, <1>11, FS_Surjection

\* At most how many steps the holder of the mutex has left before it lets go:
\* the whole of a batch it has not begun, then two for each event.
Ahead(a, fresh) ==
    CASE a = "count" -> IF fresh THEN 10 ELSE 5
      [] a = "list" -> IF fresh THEN 9 ELSE 4
      [] a = "listActive" -> IF fresh THEN 8 ELSE 3
      [] a = "describe" -> IF fresh THEN 7 ELSE 2
      [] a = "check" -> 6
Left(a, v) ==
    CASE a = "deliver" -> 2 * Cardinality(v.todo)
      [] a = "emit" -> 2 * Cardinality(v.todo) + 1
      [] OTHER -> 2 * Cardinality(Event) + Ahead(a, v.fresh)

LEMMA CourseCounts ==
  ASSUME NEW a \in Holding, NEW b, NEW v \in ViewType, NEW w \in ViewType,
         Course(a, b, v, w), a \in Between => ~v.fresh
  PROVE  \/ mutex' = None
         \/ crashed'
         \/ b \in Holding /\ Left(b, w) \in Nat /\ Left(b, w) < Left(a, v)
  <1>1. /\ IsFiniteSet(v.todo) /\ IsFiniteSet(w.todo)
        /\ Cardinality(w.todo) <= Cardinality(Event)
    BY EventsFinite, FS_Subset DEF ViewType
  <1>2. /\ Cardinality(v.todo) \in Nat /\ Cardinality(w.todo) \in Nat
        /\ Cardinality(Event) \in Nat
    BY <1>1, EventsFinite, FS_CardinalityType
  <1>3. v.fresh \in BOOLEAN /\ w.fresh \in BOOLEAN
    BY DEF ViewType
  <1> DEFINE N == Cardinality(Event)
             m == Cardinality(v.todo)
             n == Cardinality(w.todo)
  <1>4. /\ Left("count", v) = 2 * N + (IF v.fresh THEN 10 ELSE 5)
        /\ Left("count", w) = 2 * N + (IF w.fresh THEN 10 ELSE 5)
        /\ Left("list", v) = 2 * N + (IF v.fresh THEN 9 ELSE 4)
        /\ Left("list", w) = 2 * N + (IF w.fresh THEN 9 ELSE 4)
        /\ Left("listActive", v) = 2 * N + (IF v.fresh THEN 8 ELSE 3)
        /\ Left("listActive", w) = 2 * N + (IF w.fresh THEN 8 ELSE 3)
        /\ Left("describe", v) = 2 * N + (IF v.fresh THEN 7 ELSE 2)
        /\ Left("describe", w) = 2 * N + (IF w.fresh THEN 7 ELSE 2)
        /\ Left("check", v) = 2 * N + 6 /\ Left("check", w) = 2 * N + 6
    BY DEF Left, Ahead
  <1>5. /\ Left("deliver", v) = 2 * m /\ Left("deliver", w) = 2 * n
        /\ Left("emit", v) = 2 * m + 1 /\ Left("emit", w) = 2 * n + 1
    BY DEF Left
  <1>6. ASSUME NEW ev \in v.todo, w.todo = v.todo \ {ev} PROVE n = m - 1
    BY <1>1, <1>6, FS_RemoveElement
  <1>7. w.todo = v.todo => n = m
    OBVIOUS
  <1> USE <1>2 DEF Holding
  <1> HIDE DEF N, m, n
  <1>8. N \in Nat /\ m \in Nat /\ n \in Nat /\ n <= N
    BY <1>1 DEF N, m, n
  <1>9. CASE a \in {"count", "list"}
    BY <1>3, <1>4, <1>8, <1>9 DEF Course
  <1>10. CASE a = "listActive"
    BY <1>3, <1>4, <1>8, <1>10 DEF Course
  <1>11. CASE a = "describe"
    BY <1>3, <1>4, <1>5, <1>8, <1>11 DEF Course
  <1>12. CASE a = "check"
    BY <1>3, <1>4, <1>8, <1>12 DEF Course, Between
  <1>13. CASE a = "deliver"
    BY <1>5, <1>6, <1>8, <1>13 DEF Course
  <1>14. CASE a = "emit"
    BY <1>5, <1>7, <1>8, <1>14 DEF Course
  <1> QED
    BY <1>9, <1>10, <1>11, <1>12, <1>13, <1>14

\* A poller that holds lifecycle_mutex lets go of it after finitely many steps
\* of its own (lifecycle_thread_native): at most ten before it has compared
\* the listings and two for each difference, however the hypervisor and the
\* other threads go on meanwhile, unless the provider dies.
THEOREM BatchesEnd ==
  Spec => [][~crashed => \A t \in Threads : mutex = t =>
               IF PollerStep(t)
               THEN \/ mutex' = None
                    \/ crashed'
                    \/ /\ mutex' = t
                       /\ Left(pc'[t], view'[t]) \in Nat
                       /\ Left(pc'[t], view'[t]) < Left(pc[t], view[t])
               ELSE UNCHANGED <<mutex, pc[t], view[t]>>]_vars
  <1>1. ASSUME CtlInv, CtlInv', DataInv, DataInv', Begun, Next, ~crashed,
               NEW t \in Threads, mutex = t
        PROVE  IF PollerStep(t)
               THEN \/ mutex' = None
                    \/ crashed'
                    \/ /\ mutex' = t
                       /\ Left(pc'[t], view'[t]) \in Nat
                       /\ Left(pc'[t], view'[t]) < Left(pc[t], view[t])
               ELSE UNCHANGED <<mutex, pc[t], view[t]>>
    <2>1. pc[t] \in Holding /\ mutex # None
      BY <1>1, NoneAssumption DEF CtlInv, MutexHeld
    <2>2. ASSUME PollerStep(t)
          PROVE  \/ mutex' = None
                 \/ crashed'
                 \/ /\ mutex' = t
                    /\ Left(pc'[t], view'[t]) \in Nat
                    /\ Left(pc'[t], view'[t]) < Left(pc[t], view[t])
      <3>1. Course(pc[t], pc'[t], view[t], view'[t])
        BY <1>1, <2>2, PollerCourse
      <3>2. view[t] \in ViewType /\ view'[t] \in ViewType
        BY <1>1 DEF DataInv, DataTypeOK
      <3>3. pc[t] \in Between => ~view[t].fresh
        BY <1>1 DEF Begun
      <3>4. \/ mutex' = None
            \/ crashed'
            \/ /\ pc'[t] \in Holding
               /\ Left(pc'[t], view'[t]) \in Nat
               /\ Left(pc'[t], view'[t]) < Left(pc[t], view[t])
        BY <2>1, <3>1, <3>2, <3>3, CourseCounts
      <3> QED
        BY <1>1, <3>4 DEF CtlInv, MutexHeld
    <2>3. ASSUME NEW u \in Threads, u # t, PollerStep(u)
          PROVE  UNCHANGED <<mutex, pc[t], view[t]>>
      <3>1. pc'[t] = pc[t] /\ view'[t] = view[t]
        BY <1>1, <2>3, PollerCourse
      <3>2. mutex' = t
        BY <1>1, <2>1, <3>1 DEF CtlInv, MutexHeld
      <3> QED
        BY <1>1, <3>1, <3>2
    <2>4. /\ Call => RaiseChecked \/ RaiseReturns
          /\ ~Restart
      BY <1>1, <2>1 DEF Call, EnableIndications, DisableIndications, SetEnabled,
                        ActivateFilter, DeActivateFilter, Restart
    <2>5. ASSUME NEW p \in Platforms, HostChange(p)
          PROVE  UNCHANGED <<mutex, pc[t], view[t]>>
      BY <2>5 DEF HostChange
    <2>6. ASSUME RaiseChecked \/ RaiseReturns
          PROVE  UNCHANGED <<mutex, pc[t], view[t]>>
      BY <2>6 DEF RaiseChecked, RaiseReturns
    <2> QED
      BY <1>1, <2>2, <2>3, <2>4, <2>5, <2>6 DEF Next
  <1>2. CtlInv /\ CtlInv' /\ DataInv /\ DataInv' /\ Begun /\ Next =>
          (~crashed => \A t \in Threads : mutex = t =>
             IF PollerStep(t)
             THEN \/ mutex' = None
                  \/ crashed'
                  \/ /\ mutex' = t
                     /\ Left(pc'[t], view'[t]) \in Nat
                     /\ Left(pc'[t], view'[t]) < Left(pc[t], view[t])
             ELSE UNCHANGED <<mutex, pc[t], view[t]>>)
    BY <1>1
  <1> QED
    BY <1>2, BegunAlways, ControlInvariant, DataInvariant, PTL DEF Spec
=============================================================================
