------------------------ MODULE LifecycleEvent_proofs ------------------------
(***************************************************************************)
(* Theorems about LifecycleEvent, for every set of platforms, threads and  *)
(* guests, and every bound.                                                *)
(***************************************************************************)
EXTENDS LifecycleEvent, FiniteSetTheorems, SequenceTheorems, TLAPS

States == Running \cup {"none", "dead"}
Owning == Running \cup {"dead"}

\* The slots, whatever is in their lists.
Slots(L) == [Platforms -> [id : Threads \cup {None}, active : Int,
                           args : {"null", "live", "freed"}, list : L]]
Shape(S) == \E L : S \in Slots(L)

\* A thread that runs was started for a platform.
Placed ==
    /\ pc \in [Threads -> States]
    /\ plat \in [Threads -> Platforms \cup {None}]
    /\ \A t \in Threads : pc[t] \in Owning => plat[t] \in Platforms

Inv == Shape(slot) /\ Placed /\ SlotServed

\* A step that gives no slot another id: no thread starts, and one that ran
\* runs on or is dead.
Still ==
    /\ Shape(slot')
    /\ \A p \in Platforms : slot'[p].id = slot[p].id
    /\ plat' = plat
    /\ pc' \in [Threads -> States]
    /\ \A t \in Threads : pc[t] \in Owning => pc'[t] \in Owning
    /\ \A t \in Threads : pc'[t] \in Running => pc[t] \in Running
    /\ \A t \in Threads : pc'[t] = "dead" => pc[t] \in Owning

LEMMA SlotIds ==
  ASSUME Shape(slot), NEW p \in Platforms
  PROVE  slot[p].id \in Threads \cup {None} /\ slot[p].active \in Int
  BY DEF Shape, Slots

LEMMA InitInv == Init => Inv
  <1> SUFFICES ASSUME Init PROVE Inv
    OBVIOUS
  <1>1. slot \in Slots({<<>>})
    BY DEF Init, EmptySlot, Slots
  <1> QED
    BY <1>1, NoneAssumption
    DEF Init, Inv, Shape, Placed, SlotServed, EmptySlot, States, Running, Owning,
        Listing, InCallback

LEMMA StillInv ==
  ASSUME Inv, Still
  PROVE  Inv'
  <1>1. Placed'
    BY DEF Inv, Placed, Still, Owning
  <1>2. SlotServed'
    BY SlotIds, NoneAssumption DEF Inv, Placed, SlotServed, Still, Owning
  <1> QED
    BY <1>1, <1>2 DEF Inv, Still

(***************************************************************************)
(* The updates of the slots that leave the ids alone.                      *)
(***************************************************************************)
KeepsIds == Shape(slot') /\ \A p \in Platforms : slot'[p].id = slot[p].id

LEMMA ActiveKeepsIds ==
  ASSUME Shape(slot), NEW p, NEW x \in Int, slot' = [slot EXCEPT ![p].active = x]
  PROVE  KeepsIds
  <1>1. PICK L : slot \in Slots(L)
    BY DEF Shape
  <1>2. slot' \in Slots(L) /\ \A q \in Platforms : slot'[q].id = slot[q].id
    BY <1>1 DEF Slots
  <1> QED
    BY <1>2 DEF KeepsIds, Shape

LEMMA ArgsKeepsIds ==
  ASSUME Shape(slot), NEW p, NEW x \in {"null", "live", "freed"},
         slot' = [slot EXCEPT ![p].args = x]
  PROVE  KeepsIds
  <1>1. PICK L : slot \in Slots(L)
    BY DEF Shape
  <1>2. slot' \in Slots(L) /\ \A q \in Platforms : slot'[q].id = slot[q].id
    BY <1>1 DEF Slots
  <1> QED
    BY <1>2 DEF KeepsIds, Shape

LEMMA ListKeepsIds ==
  ASSUME Shape(slot), NEW p, NEW x, slot' = [slot EXCEPT ![p].list = x]
  PROVE  KeepsIds
  <1>1. PICK L : slot \in Slots(L)
    BY DEF Shape
  <1>2. /\ slot' \in Slots(L \cup {x})
        /\ \A q \in Platforms : slot'[q].id = slot[q].id
    BY <1>1 DEF Slots
  <1> QED
    BY <1>2 DEF KeepsIds, Shape

LEMMA SameKeepsIds ==
  ASSUME Shape(slot), slot' = slot
  PROVE  KeepsIds
  BY DEF KeepsIds

\* A thread that goes from one place where it runs to another, or is dead.
LEMMA GotoStill ==
  ASSUME Inv, KeepsIds, plat' = plat, NEW t \in Threads,
         NEW a \in Running, NEW b \in Owning, Goto(t, a, b)
  PROVE  Still
  <1>1. /\ Owning \subseteq States /\ Running \subseteq Owning
        /\ "dead" \in Owning
    BY DEF Owning, States
  <1> QED
    BY <1>1 DEF Inv, Placed, KeepsIds, Still, Goto

LEMMA StayStill ==
  ASSUME Inv, KeepsIds, plat' = plat, pc' = pc
  PROVE  Still
  BY DEF Inv, Placed, KeepsIds, Still, Owning

-----------------------------------------------------------------------------
(***************************************************************************)
(* The two steps that change an id.                                        *)
(***************************************************************************)
LEMMA StartInv ==
  ASSUME Inv, NEW p \in Platforms, StartThread(p)
  PROVE  Inv'
  <1>1. PICK t \in Threads :
          /\ pc[t] = "none"
          /\ pc' = [pc EXCEPT ![t] = "start"]
          /\ plat' = [plat EXCEPT ![t] = p]
          /\ slot' = [slot EXCEPT ![p].id = t, ![p].active = @ + 1, ![p].args = "live"]
    BY DEF StartThread
  <1>2. Shape(slot') /\ slot'[p].id = t
        /\ \A q \in Platforms \ {p} : slot'[q].id = slot[q].id
    <2>1. PICK L : slot \in Slots(L)
      BY DEF Inv, Shape
    <2>2. slot' \in Slots(L)
      BY <1>1, <2>1 DEF Slots
    <2>3. slot'[p].id = t /\ \A q \in Platforms \ {p} : slot'[q].id = slot[q].id
      BY <1>1, <2>1 DEF Slots
    <2> QED
      BY <2>2, <2>3 DEF Shape
  <1>3. /\ pc'[t] = "start" /\ plat'[t] = p
        /\ \A u \in Threads \ {t} : pc'[u] = pc[u] /\ plat'[u] = plat[u]
    BY <1>1 DEF Inv, Placed
  <1>4. "start" \in Running /\ "none" \notin Owning /\ Owning \subseteq States
        /\ Running \subseteq Owning
    BY DEF Running, Listing, InCallback, Owning, States
  <1>5. Placed'
    <2>1. pc' \in [Threads -> States]
      BY <1>1, <1>4 DEF Inv, Placed
    <2>2. plat' \in [Threads -> Platforms \cup {None}]
      BY <1>1 DEF Inv, Placed
    <2> QED
      BY <2>1, <2>2, <1>2, <1>3 DEF Inv, Placed
  <1>6. ASSUME NEW q \in Platforms, slot'[q].id # None
        PROVE  pc'[slot'[q].id] \in Owning /\ plat'[slot'[q].id] = q
    <2>1. CASE q = p
      BY <2>1, <1>2, <1>3, <1>4
    <2>2. CASE q # p
      \* the thread in another slot is one that was there before
      <3>1. slot[q].id \in Threads /\ slot[q].id # t
        BY <2>2, <1>1, <1>2, <1>4, <1>6, SlotIds DEF Inv, SlotServed, Owning
      <3> QED
        BY <3>1, <2>2, <1>2, <1>3, <1>6 DEF Inv, SlotServed, Owning
    <2> QED
      BY <2>1, <2>2
  <1>7. ASSUME NEW u \in Threads, pc'[u] \in Running
        PROVE  slot'[plat'[u]].id = u
    <2>1. CASE u = t
      BY <2>1, <1>2, <1>3
    <2>2. CASE u # t
      \* no thread ran for the slot, which had no id
      <3>1. plat[u] \in Platforms /\ slot[plat[u]].id = u
        BY <2>2, <1>3, <1>4, <1>7 DEF Inv, Placed, SlotServed
      <3>2. plat[u] # p
        BY <3>1, NoneAssumption DEF StartThread
      <3> QED
        BY <3>1, <3>2, <2>2, <1>2, <1>3
    <2> QED
      BY <2>1, <2>2
  <1>8. SlotServed'
    BY <1>6, <1>7 DEF SlotServed, Owning
  <1> QED
    BY <1>2, <1>5, <1>8 DEF Inv

LEMMA OutInv ==
  ASSUME Inv, NEW t \in Threads, Out(t)
  PROVE  Inv'
  <1> DEFINE p == plat[t]
  <1>1. "out" \in Running /\ "none" \in States /\ "none" \notin Owning
        /\ Running \subseteq Owning
    BY DEF Running, Owning, States, Listing, InCallback
  <1>2. p \in Platforms /\ slot[p].id = t /\ pc[t] = "out"
    BY <1>1 DEF Inv, Placed, SlotServed, Out, Goto
  <1>3. Shape(slot') /\ slot'[p].id = None
        /\ \A q \in Platforms \ {p} : slot'[q].id = slot[q].id
    <2>1. PICK L : slot \in Slots(L)
      BY DEF Inv, Shape
    <2>2. slot' \in Slots(L)
      BY <2>1, <1>2 DEF Slots, Out
    <2>3. slot'[p].id = None /\ \A q \in Platforms \ {p} : slot'[q].id = slot[q].id
      BY <2>1, <1>2 DEF Slots, Out
    <2> QED
      BY <2>2, <2>3 DEF Shape
  <1>4. /\ pc'[t] = "none" /\ plat'[t] = None
        /\ \A u \in Threads \ {t} : pc'[u] = pc[u] /\ plat'[u] = plat[u]
    BY DEF Inv, Placed, Out, Goto
  <1>5. Placed'
    <2>1. pc' \in [Threads -> States] /\ plat' \in [Threads -> Platforms \cup {None}]
      BY <1>1 DEF Inv, Placed, Out, Goto
    <2> QED
      BY <2>1, <1>1, <1>3, <1>4 DEF Inv, Placed
  <1>6. ASSUME NEW q \in Platforms, slot'[q].id # None
        PROVE  pc'[slot'[q].id] \in Owning /\ plat'[slot'[q].id] = q
    <2>1. q # p /\ slot'[q].id = slot[q].id
      BY <1>3, <1>6
    <2>2. slot[q].id \in Threads /\ plat[slot[q].id] = q
      BY <2>1, <1>6, SlotIds DEF Inv, SlotServed
    <2> QED
      BY <2>1, <2>2, <1>4, <1>6 DEF Inv, SlotServed, Owning
  <1>7. ASSUME NEW u \in Threads, pc'[u] \in Running
        PROVE  slot'[plat'[u]].id = u
    <2>1. u # t /\ pc[u] \in Running /\ plat'[u] = plat[u]
      BY <1>1, <1>4, <1>7
    <2>2. plat[u] \in Platforms /\ slot[plat[u]].id = u
      BY <2>1, <1>1 DEF Inv, Placed, SlotServed
    <2> QED
      BY <2>1, <2>2, <1>2, <1>3
  <1>8. SlotServed'
    BY <1>6, <1>7 DEF SlotServed, Owning
  <1> QED
    BY <1>3, <1>5, <1>8 DEF Inv

-----------------------------------------------------------------------------
(***************************************************************************)
(* The rest of the steps.                                                  *)
(***************************************************************************)
LEMMA CallInv ==
  ASSUME Inv, Calls
  PROVE  Inv'
  <1>1. ASSUME NEW b \in BOOLEAN, SetEnabled(b)
        PROVE  Inv'
    BY <1>1, SameKeepsIds, StayStill, StillInv DEF SetEnabled, Inv
  <1>2. ASSUME NEW p \in Platforms, ActivateFilter(p)
        PROVE  Inv'
    <2>1. CASE JoinRunning(p)
      <3>1. slot' = [slot EXCEPT ![p].active = slot[p].active + 1]
        BY <2>1 DEF JoinRunning
      <3>2. slot[p].active + 1 \in Int
        BY SlotIds DEF Inv
      <3>3. KeepsIds
        BY <3>1, <3>2, ActiveKeepsIds DEF Inv
      <3> QED
        BY <2>1, <3>3, StayStill, StillInv DEF JoinRunning
    <2>2. CASE StartThread(p)
      BY <2>2, StartInv
    <2>3. CASE ThreadRefused(p)
      <3>1. KeepsIds
        BY <2>3, ArgsKeepsIds DEF ThreadRefused, Inv
      <3> QED
        BY <2>3, <3>1, StayStill, StillInv DEF ThreadRefused
    <2> QED
      BY <1>2, <2>1, <2>2, <2>3 DEF ActivateFilter
  <1>3. ASSUME NEW p \in Platforms, DeActivateFilter(p)
        PROVE  Inv'
    <2>1. slot' = [slot EXCEPT ![p].active = slot[p].active - 1]
      BY <1>3 DEF DeActivateFilter
    <2>2. slot[p].active - 1 \in Int
      BY SlotIds DEF Inv
    <2>3. KeepsIds
      BY <2>1, <2>2, ActiveKeepsIds DEF Inv
    <2> QED
      BY <1>3, <2>3, StayStill, StillInv DEF DeActivateFilter
  <1> QED
    BY <1>1, <1>2, <1>3 DEF Calls

LEMMA ThreadInv ==
  ASSUME Inv, NEW t \in Threads, Thread(t)
  PROVE  Inv'
  <1> USE DEF Running, Listing, InCallback, Owning
  <1>1. CASE GivesUp(t)
    BY <1>1, SameKeepsIds, GotoStill, StillInv DEF GivesUp, control, Inv
  <1>2. CASE Register(t)
    BY <1>2, SameKeepsIds, GotoStill, StillInv DEF Register, Inv
  <1>3. CASE RegisterFails(t)
    BY <1>3, SameKeepsIds, GotoStill, StillInv DEF RegisterFails, control, Inv
  <1>12. CASE CountDomains(t)
    BY <1>12, SameKeepsIds, GotoStill, StillInv DEF CountDomains, control, Inv
  <1>13. CASE ListFails(t)
    BY <1>13, SameKeepsIds, GotoStill, StillInv DEF ListFails, control, Inv
  <1>4. CASE ListInactive(t)
    <2>1. KeepsIds
      BY <1>4, ListKeepsIds DEF ListInactive, Listed, Inv
    <2> QED
      BY <1>4, <2>1, GotoStill, StillInv DEF ListInactive
  <1>5. CASE ListActive(t)
    <2>1. KeepsIds
      BY <1>5, ListKeepsIds DEF ListActive, Listed, Inv
    <2> QED
      BY <1>5, <2>1, GotoStill, StillInv DEF ListActive
  <1>6. CASE Describe(t)
    BY <1>6, SameKeepsIds, GotoStill, StillInv DEF Describe, Inv
  <1>7. CASE DescribeFails(t)
    BY <1>7, SameKeepsIds, GotoStill, StillInv DEF DescribeFails, Inv
  <1>8. CASE Check(t)
    <2>1. Goto(t, "check", "end") \/ Goto(t, "check", "run")
      BY <1>8 DEF Check, Goto
    <2> QED
      BY <1>8, <2>1, SameKeepsIds, GotoStill, StillInv DEF Check, control, Inv
  <1>9. CASE LeaveRun(t)
    BY <1>9, SameKeepsIds, GotoStill, StillInv DEF LeaveRun, control, Inv
  <1>10. CASE Deregister(t)
    <2> DEFINE p == plat[t]
               S == [slot EXCEPT ![p].list = <<>>]
    <2>1. slot' = [slot EXCEPT ![p].list = <<>>, ![p].args = "null"]
      BY <1>10 DEF Deregister
    <2>2. PICK L : slot \in Slots(L)
      BY DEF Inv, Shape
    <2>3. slot' \in Slots(L \cup {<<>>})
      BY <2>1, <2>2 DEF Slots
    <2>4. \A q \in Platforms : slot'[q].id = slot[q].id
      BY <2>1, <2>2 DEF Slots
    <2>5. KeepsIds
      BY <2>3, <2>4 DEF KeepsIds, Shape
    <2> QED
      BY <1>10, <2>5, GotoStill, StillInv DEF Deregister
  <1>11. CASE Out(t)
    BY <1>11, OutInv
  <1> QED
    BY <1>1, <1>2, <1>3, <1>4, <1>5, <1>6, <1>7, <1>8, <1>9, <1>10, <1>11, <1>12, <1>13
    DEF Thread

LEMMA CallbackInv ==
  ASSUME Inv, NEW t \in Threads, Callback(t)
  PROVE  Inv'
  <1> USE DEF Running, Listing, InCallback, Owning
  <1>1. ASSUME NEW p \in Platforms, Dispatch(t, p)
        PROVE  Inv'
    <2>1. Goto(t, "run", "find") \/ pc' = pc
      BY <1>1 DEF Dispatch, Goto
    <2>2. KeepsIds /\ plat' = plat
      BY <1>1, SameKeepsIds DEF Dispatch, control, Inv
    <2> QED
      BY <2>1, <2>2, GotoStill, StayStill, StillInv
  <1>2. CASE FindEntry(t)
    <2>1. Goto(t, "find", "run") \/ Goto(t, "find", "send")
      BY <1>2 DEF FindEntry
    <2> QED
      BY <1>2, <2>1, SameKeepsIds, GotoStill, StillInv DEF FindEntry, control, Inv
  <1>3. CASE NewEntry(t)
    BY <1>3, SameKeepsIds, GotoStill, StillInv DEF NewEntry, control, Inv
  <1>4. CASE NewEntryFails(t)
    BY <1>4, SameKeepsIds, GotoStill, StillInv DEF NewEntryFails, control, Inv
  <1>5. CASE async_ind(t)
    BY <1>5, SameKeepsIds, GotoStill, StillInv DEF async_ind, control, Inv
  <1>6. CASE UpdateList(t)
    <2>1. PICK L \in Entries(t) : slot' = [slot EXCEPT ![cb[t].of].list = L]
      BY <1>6 DEF UpdateList
    <2>2. KeepsIds
      BY <2>1, ListKeepsIds DEF Inv
    <2> QED
      BY <1>6, <2>2, GotoStill, StillInv DEF UpdateList
  <1> QED
    BY <1>1, <1>2, <1>3, <1>4, <1>5, <1>6 DEF Callback

LEMMA NextInv == Inv /\ [Next]_vars => Inv'
  <1> SUFFICES ASSUME Inv, [Next]_vars PROVE Inv'
    OBVIOUS
  <1>1. CASE Calls
    BY <1>1, CallInv
  <1>2. ASSUME NEW p \in Platforms, HostChange(p)
        PROVE  Inv'
    BY <1>2, SameKeepsIds, StayStill, StillInv DEF HostChange, control, Inv
  <1>3. ASSUME NEW t \in Threads, Thread(t) \/ Callback(t)
        PROVE  Inv'
    BY <1>3, ThreadInv, CallbackInv
  <1>4. CASE UNCHANGED vars
    BY <1>4, SameKeepsIds, StayStill, StillInv DEF vars, Inv
  <1> QED
    BY <1>1, <1>2, <1>3, <1>4 DEF Next

(***************************************************************************)
(* The id in a slot, which ActivateFilter takes for a thread that serves   *)
(* the platform, is that of such a thread or of one that gave up, and no   *)
(* thread runs for a slot with another id, whichever way threads leave     *)
(* (lifecycle_thread).                                                     *)
(***************************************************************************)
THEOREM SlotsServed == Spec => []SlotServed
  <1>1. Inv => SlotServed
    BY DEF Inv
  <1> QED
    BY <1>1, InitInv, NextInv, PTL DEF Spec

-----------------------------------------------------------------------------
(***************************************************************************)
(* The types.                                                              *)
(***************************************************************************)
Guest == [dom : Domains, xml : BOOLEAN]
Lists == Seq(Guest)
Event == [dom : Domains, kind : Kinds]
Locals == [of : Platforms \cup {None}, kind : Kinds \cup {"none"},
           dom : Domains \cup {None}, at : Nat]
Tellings == {"none", "created", "modified", "deleted", "lost"}
Rooms == [off : Nat, on : Nat]

Types ==
    /\ enabled \in BOOLEAN
    /\ mutex \in Threads \cup {None}
    /\ slot \in Slots(Lists)
    /\ subs \in [Platforms -> 0 .. MaxSubs]
    /\ cb \in [Threads -> Locals]
    /\ room \in Rooms
    /\ host \in [Platforms -> [Domains -> HostStates]]
    /\ queue \in [Platforms -> [on : BOOLEAN, events : Seq(Event)]]
    /\ missed \in [Platforms -> SUBSET Domains]
    /\ told \in [Platforms -> [Domains -> Tellings]]

\* The mutex is kept over several calls by the thread that lists, and a thread
\* has the locals of a callback exactly while it is in one.
MutexKept == \A t \in Threads : mutex = t <=> pc[t] \in Listing
CallbackAt(t) ==
    IF pc[t] \in InCallback
    THEN cb[t].of \in Platforms /\ cb[t].kind \in Kinds /\ cb[t].dom \in Domains
    ELSE cb[t] = NoCallback

TypeInv == Types /\ MutexKept /\ \A t \in Threads : CallbackAt(t)

\* A non-empty set of numbers has a least one.
LEMMA Least ==
  ASSUME NEW T \in SUBSET Nat, T # {}
  PROVE  \E i \in T : \A j \in T : i <= j
  <1> DEFINE R == OpToRel(<, Nat)
  <1>1. IsWellFoundedOn(R, Nat)
    BY NatLessThanWellFounded
  <1>2. \A x, y \in Nat : x < y => <<x, y>> \in R
    BY DEF OpToRel
  <1> HIDE DEF R
  <1>3. PICK i \in T : \A j \in T : <<j, i>> \notin R
    BY <1>1, WFMin
  <1>4. ASSUME NEW j \in T
        PROVE  i <= j
    <2>1. i \in Nat /\ j \in Nat /\ ~(j < i)
      BY <1>2, <1>3
    <2> QED
      BY <2>1
  <1> QED
    BY <1>4

Has(L, d) == \E i \in DOMAIN L : L[i].dom = d
InList(p, d) == Has(slot[p].list, d)

\* A list that holds on to its entries.
Grows(L, M) == Len(L) <= Len(M) /\ \A d : Has(L, d) => Has(M, d)

LEMMA ListFacts ==
  ASSUME NEW L \in Lists
  PROVE  /\ Len(L) \in Nat /\ DOMAIN L = 1 .. Len(L)
         /\ L \in [1 .. Len(L) -> Guest]
         /\ Grows(L, L)
  BY LenProperties DEF Lists, Grows

LEMMA ConcatGrows ==
  ASSUME NEW L \in Lists, NEW q \in Lists
  PROVE  /\ L \o q \in Lists
         /\ Grows(L, L \o q)
         /\ \A d : Has(q, d) => Has(L \o q, d)
  <1> DEFINE M == L \o q
  <1>1. /\ M \in Lists
        /\ Len(M) = Len(L) + Len(q)
        /\ \A i \in 1 .. Len(L) + Len(q) :
              M[i] = IF i <= Len(L) THEN L[i] ELSE q[i - Len(L)]
    BY ConcatProperties DEF Lists
  <1> HIDE DEF M
  <1>2. /\ DOMAIN L = 1 .. Len(L) /\ Len(L) \in Nat
        /\ DOMAIN q = 1 .. Len(q) /\ Len(q) \in Nat
        /\ DOMAIN M = 1 .. Len(M)
    BY <1>1, ListFacts
  <1>3. ASSUME NEW d, NEW i \in DOMAIN L, L[i].dom = d
        PROVE  \E j \in DOMAIN M : M[j].dom = d
    BY <1>1, <1>2, <1>3
  <1>4. ASSUME NEW d, NEW i \in DOMAIN q, q[i].dom = d
        PROVE  \E j \in DOMAIN M : M[j].dom = d
    <2> DEFINE j == Len(L) + i
    <2>1. j \in 1 .. Len(L) + Len(q) /\ ~(j <= Len(L)) /\ j - Len(L) = i
      BY <1>2, <1>4
    <2>2. j \in DOMAIN M /\ M[j] = q[i]
      BY <1>1, <1>2, <2>1
    <2> QED
      BY <1>4, <2>2
  <1>5. Len(L) <= Len(M)
    BY <1>1, <1>2
  <1> QED
    BY <1>1, <1>3, <1>4, <1>5 DEF Grows, Has, M

LEMMA AppendGrows ==
  ASSUME NEW L \in Lists, NEW e \in Guest
  PROVE  /\ Append(L, e) \in Lists
         /\ Grows(L, Append(L, e))
         /\ Has(Append(L, e), e.dom)
  <1> DEFINE M == Append(L, e)
  <1>1. /\ M \in Lists
        /\ Len(M) = Len(L) + 1
        /\ \A i \in 1 .. Len(L) : M[i] = L[i]
        /\ M[Len(L) + 1] = e
    BY AppendProperties DEF Lists
  <1> HIDE DEF M
  <1>2. /\ DOMAIN L = 1 .. Len(L) /\ Len(L) \in Nat
        /\ DOMAIN M = 1 .. Len(M)
    BY <1>1, ListFacts
  <1>3. Len(L) + 1 \in DOMAIN M /\ \A i \in DOMAIN L : i \in DOMAIN M
    BY <1>1, <1>2
  <1>4. Has(M, e.dom) /\ \A d : Has(L, d) => Has(M, d)
    BY <1>1, <1>2, <1>3 DEF Has
  <1>5. Len(L) <= Len(M)
    BY <1>1, <1>2
  <1> QED
    BY <1>1, <1>4, <1>5 DEF Grows, M

LEMMA ExceptGrows ==
  ASSUME NEW L \in Lists, NEW i, NEW b \in BOOLEAN
  PROVE  /\ [L EXCEPT ![i].xml = b] \in Lists
         /\ Grows(L, [L EXCEPT ![i].xml = b])
  <1> DEFINE M == [L EXCEPT ![i].xml = b]
  <1>1. Len(L) \in Nat /\ DOMAIN L = 1 .. Len(L) /\ L \in [1 .. Len(L) -> Guest]
    BY ListFacts
  <1>2. /\ M \in [1 .. Len(L) -> Guest]
        /\ \A j \in 1 .. Len(L) : M[j].dom = L[j].dom
    BY <1>1 DEF Guest
  <1> HIDE DEF M
  <1>3. M \in Lists
    BY <1>1, <1>2, SeqDef DEF Lists
  <1>4. DOMAIN M = 1 .. Len(L) /\ Len(M) = Len(L)
    BY <1>1, <1>2, <1>3, ListFacts
  <1>5. \A d : Has(L, d) => Has(M, d)
    BY <1>1, <1>2, <1>4 DEF Has
  <1>6. M \in Lists /\ Grows(L, M)
    BY <1>1, <1>3, <1>4, <1>5 DEF Grows
  <1> QED
    BY <1>6 DEF M

LEMMA SlotList ==
  ASSUME Types, NEW p \in Platforms
  PROVE  slot[p].list \in Lists
  BY DEF Types, Slots

\* The entry that FindEntry takes: one of that guest, or none.
LEMMA FirstType ==
  ASSUME Types, NEW p \in Platforms, NEW d
  PROVE  /\ First(p, d) \in 0 .. Len(slot[p].list)
         /\ InList(p, d) => First(p, d) # 0
  <1> DEFINE L == slot[p].list
             S == {i \in DOMAIN L : L[i].dom = d}
  <1>1. L \in Lists
    BY SlotList
  <1> HIDE DEF L
  <1>2. DOMAIN L = 1 .. Len(L) /\ Len(L) \in Nat
    BY <1>1, ListFacts
  <1>3. CASE S = {}
    BY <1>2, <1>3 DEF First, InList, Has, L
  <1>4. CASE S # {}
    <2>1. S \in SUBSET Nat
      BY <1>2
    <2>2. First(p, d) \in S
      <3>1. First(p, d) = CHOOSE i \in S : \A j \in S : i <= j
        BY <1>4 DEF First, L
      <3> HIDE DEF S
      <3>2. \E i \in S : \A j \in S : i <= j
        BY <1>4, <2>1, Least
      <3> QED
        BY <3>1, <3>2
    <2> QED
      BY <1>2, <2>2 DEF L
  <1> QED
    BY <1>3, <1>4

LEMMA NoFirst ==
  ASSUME NEW p, NEW d, First(p, d) # 0
  PROVE  InList(p, d)
  BY DEF First, InList, Has

LEMMA ListReplaced ==
  ASSUME Types, NEW p \in Platforms, NEW M \in Lists,
         slot' = [slot EXCEPT ![p].list = M]
  PROVE  /\ slot' \in Slots(Lists)
         /\ slot'[p].list = M
         /\ slot'[p].id = slot[p].id /\ slot'[p].args = slot[p].args
         /\ \A r \in Platforms \ {p} : slot'[r] = slot[r]
  <1>1. slot \in Slots(Lists)
    BY DEF Types
  <1> QED
    BY <1>1 DEF Slots

\* The guests that libvirt names can be put in a row.
LEMMA RowOf ==
  ASSUME NEW ds, IsFiniteSet(ds)
  PROVE  /\ Cardinality(ds) \in Nat
         /\ \E q \in [1 .. Cardinality(ds) -> [dom : ds, xml : {TRUE}]] :
               {q[i].dom : i \in DOMAIN q} = ds
  <1>1. /\ Cardinality(ds) \in Nat
        /\ \E f : f \in Bijection(1 .. Cardinality(ds), ds)
    BY FS_CardinalityType DEF ExistsBijection
  <1>2. PICK f : f \in Bijection(1 .. Cardinality(ds), ds)
    BY <1>1
  <1> DEFINE g == [i \in 1 .. Cardinality(ds) |-> [dom |-> f[i], xml |-> TRUE]]
  <1>3. /\ f \in [1 .. Cardinality(ds) -> ds]
        /\ \A d \in ds : \E i \in 1 .. Cardinality(ds) : f[i] = d
    BY <1>2 DEF Bijection, Surjection, Injection
  <1>4. /\ g \in [1 .. Cardinality(ds) -> [dom : ds, xml : {TRUE}]]
        /\ {g[i].dom : i \in DOMAIN g} = ds
    BY <1>3
  <1> HIDE DEF g
  <1> QED
    BY <1>1, <1>4

\* What a listing of libvirt adds: an entry for each guest that it names, after
\* those that were there.
LEMMA ListedEffect ==
  ASSUME Types, NEW t, plat[t] \in Platforms, NEW ds \in SUBSET Domains,
         slot' = Listed(t, ds)
  PROVE  \E M \in Lists :
           /\ slot' = [slot EXCEPT ![plat[t]].list = M]
           /\ Grows(slot[plat[t]].list, M)
           /\ \A d \in ds : Has(M, d)
  <1> DEFINE p == plat[t]
             Row == [1 .. Cardinality(ds) -> [dom : ds, xml : {TRUE}]]
             q == CHOOSE r \in Row : {r[i].dom : i \in DOMAIN r} = ds
             L == slot[p].list
  <1>1. ds \subseteq Domains /\ IsFiniteSet(ds)
    BY DomainsAssumption, FS_Subset
  <1>2. /\ Cardinality(ds) \in Nat
        /\ q \in Row
        /\ {q[i].dom : i \in DOMAIN q} = ds
    <2>1. /\ Cardinality(ds) \in Nat
          /\ \E r \in Row : {r[i].dom : i \in DOMAIN r} = ds
      BY <1>1, RowOf
    <2> HIDE DEF Row
    <2> QED
      BY <2>1
  <1>3. slot' = [slot EXCEPT ![p].list = L \o q]
    BY DEF Listed
  <1>4. L \in Lists
    BY SlotList
  <1> HIDE DEF q, L
  <1>5. q \in Lists
    <2>1. q \in [1 .. Cardinality(ds) -> Guest]
      BY <1>1, <1>2 DEF Guest
    <2> QED
      BY <1>2, <2>1, SeqDef DEF Lists
  <1>6. \A d \in ds : Has(q, d)
    BY <1>2 DEF Has
  <1>7. /\ L \o q \in Lists
        /\ Grows(L, L \o q)
        /\ \A d \in ds : Has(L \o q, d)
    BY <1>4, <1>5, <1>6, ConcatGrows
  <1> QED
    BY <1>3, <1>7 DEF L

\* What one call of a listing does: the guests it names are in the list after,
\* and those it leaves out are in the list already or overlooked.
Names(t, S, n) ==
    \E L \in SUBSET S : Retrieved(S, L, n) /\ slot' = Listed(t, L) /\ Overlooks(t, S \ L)

LEMMA NamesEffect ==
  ASSUME Types, NEW t, plat[t] \in Platforms, NEW S \in SUBSET Domains, NEW n,
         Names(t, S, n)
  PROVE  /\ \E M \in Lists :
               /\ slot' = [slot EXCEPT ![plat[t]].list = M]
               /\ Grows(slot[plat[t]].list, M)
               /\ \A d \in S : Has(M, d) \/ d \in missed'[plat[t]]
         /\ \E D \in SUBSET Domains :
               missed' = [missed EXCEPT ![plat[t]] = @ \cup D]
  <1> DEFINE p == plat[t]
  <1>1. PICK L \in SUBSET S : slot' = Listed(t, L) /\ Overlooks(t, S \ L)
    BY DEF Names
  <1>2. PICK M \in Lists :
          /\ slot' = [slot EXCEPT ![p].list = M]
          /\ Grows(slot[p].list, M)
          /\ \A d \in L : Has(M, d)
    BY <1>1, ListedEffect
  <1> DEFINE D == {d \in S \ L : First(p, d) = 0}
  <1>3. missed' = [missed EXCEPT ![p] = @ \cup D] /\ D \in SUBSET Domains
    BY <1>1 DEF Overlooks
  <1>4. ASSUME NEW d \in S
        PROVE  Has(M, d) \/ d \in missed'[p]
    <2>1. CASE d \in D
      <3>1. missed'[p] = missed[p] \cup D
        BY <1>3 DEF Types
      <3> QED
        BY <2>1, <3>1
    <2>2. CASE d \notin L /\ First(p, d) # 0
      BY <1>2, <2>2, NoFirst DEF Grows, InList
    <2> QED
      BY <1>2, <2>1, <2>2
  <1> QED
    BY <1>2, <1>3, <1>4

LEMMA InitTypes == Init => TypeInv
  <1> SUFFICES ASSUME Init PROVE TypeInv
    OBVIOUS
  <1> USE DEF Init
  <1>1. slot \in Slots(Lists)
    <2>1. <<>> \in Lists
      BY EmptySeq DEF Lists
    <2> QED
      BY <2>1 DEF Slots, EmptySlot
  <1>2. queue \in [Platforms -> [on : BOOLEAN, events : Seq(Event)]]
    <2>1. <<>> \in Seq(Event)
      BY EmptySeq
    <2> QED
      BY <2>1
  <1>3. /\ enabled \in BOOLEAN /\ mutex \in Threads \cup {None}
        /\ subs \in [Platforms -> 0 .. MaxSubs]
    <2>1. 0 \in 0 .. MaxSubs
      BY BoundsAssumption
    <2> QED
      BY <2>1
  <1>4. /\ cb \in [Threads -> Locals]
        /\ host \in [Platforms -> [Domains -> HostStates]]
        /\ missed \in [Platforms -> SUBSET Domains]
        /\ told \in [Platforms -> [Domains -> Tellings]]
        /\ room \in Rooms
    BY DEF Locals, NoCallback, HostStates, Tellings, Rooms, NoRoom
  <1>5. Types
    BY <1>1, <1>2, <1>3, <1>4 DEF Types
  <1>6. MutexKept /\ \A t \in Threads : CallbackAt(t)
    BY NoneAssumption DEF MutexKept, CallbackAt, Listing, InCallback
  <1> QED
    BY <1>5, <1>6 DEF TypeInv

\* A thread goes on; it takes the mutex to list, and lets it go after.
LEMMA ControlMoves ==
  ASSUME Inv, TypeInv, NEW t \in Threads, NEW a, NEW b, Goto(t, a, b),
         \A u \in Threads : u # t => cb'[u] = cb[u],
         CallbackAt(t)',
         \/ mutex' = mutex /\ (a \in Listing <=> b \in Listing)
         \/ mutex = None /\ mutex' = t /\ b \in Listing
         \/ mutex' = None /\ a \in Listing /\ b \notin Listing
  PROVE  MutexKept' /\ \A u \in Threads : CallbackAt(u)'
  <1>1. /\ pc[t] = a /\ pc'[t] = b
        /\ \A u \in Threads : u # t => pc'[u] = pc[u]
    BY DEF Goto, Inv, Placed
  <1>2. MutexKept'
    BY <1>1, NoneAssumption DEF TypeInv, MutexKept
  <1>3. \A u \in Threads : CallbackAt(u)'
    BY <1>1 DEF TypeInv, CallbackAt
  <1> QED
    BY <1>2, <1>3

\* A thread that is in no callback before or after.
LEMMA OutsideMoves ==
  ASSUME Inv, TypeInv, NEW t \in Threads, NEW a, NEW b, Goto(t, a, b),
         a \notin InCallback, b \notin InCallback, cb' = cb,
         \/ mutex' = mutex /\ (a \in Listing <=> b \in Listing)
         \/ mutex = None /\ mutex' = t /\ b \in Listing
         \/ mutex' = None /\ a \in Listing /\ b \notin Listing
  PROVE  MutexKept' /\ \A u \in Threads : CallbackAt(u)'
  <1>1. CallbackAt(t)'
    BY DEF Goto, Inv, Placed, TypeInv, CallbackAt
  <1> QED
    BY <1>1, ControlMoves

LEMMA CallTypes ==
  ASSUME Inv, TypeInv, Calls
  PROVE  TypeInv'
  <1>1. ASSUME NEW b \in BOOLEAN, SetEnabled(b)
        PROVE  TypeInv'
    BY <1>1 DEF SetEnabled, TypeInv, Types, MutexKept, CallbackAt, world, hist
  <1>2. ASSUME NEW p \in Platforms, ActivateFilter(p)
        PROVE  TypeInv'
    <2>1. /\ UNCHANGED <<enabled, mutex, cb, room, host, queue, missed, told>>
          /\ subs' = [subs EXCEPT ![p] = @ + 1] /\ subs[p] < MaxSubs
      BY <1>2 DEF ActivateFilter, world, hist
    <2>2. subs' \in [Platforms -> 0 .. MaxSubs]
      BY <2>1, BoundsAssumption DEF TypeInv, Types
    <2>3. slot' \in Slots(Lists)
      <3>1. slot \in Slots(Lists)
        BY DEF TypeInv, Types
      <3>2. slot' \in Slots(Lists)
        <4>1. CASE JoinRunning(p)
          BY <3>1, <4>1 DEF JoinRunning, Slots
        <4>2. CASE StartThread(p)
          BY <3>1, <4>2 DEF StartThread, Slots
        <4>3. CASE ThreadRefused(p)
          BY <3>1, <4>3 DEF ThreadRefused, Slots
        <4> QED
          BY <1>2, <4>1, <4>2, <4>3 DEF ActivateFilter
      <3> QED
        BY <3>2
    <2>4. Types'
      BY <2>1, <2>2, <2>3 DEF TypeInv, Types
    <2>5. pc' = pc \/ \E t \in Threads : Goto(t, "none", "start")
      BY <1>2 DEF ActivateFilter, JoinRunning, StartThread, ThreadRefused, Goto
    <2>6. MutexKept' /\ \A t \in Threads : CallbackAt(t)'
      <3>1. CASE pc' = pc
        BY <2>1, <3>1 DEF TypeInv, MutexKept, CallbackAt
      <3> QED
        BY <2>1, <2>5, <3>1, OutsideMoves DEF Listing, InCallback
    <2> QED
      BY <2>4, <2>6 DEF TypeInv
  <1>3. ASSUME NEW p \in Platforms, DeActivateFilter(p)
        PROVE  TypeInv'
    <2>1. UNCHANGED <<enabled, mutex, pc, cb, room, host, queue, missed, told>>
      BY <1>3 DEF DeActivateFilter, world, hist
    <2>2. subs' \in [Platforms -> 0 .. MaxSubs]
      BY <1>3, BoundsAssumption DEF DeActivateFilter, TypeInv, Types
    <2>3. slot' \in Slots(Lists)
      <3>1. slot \in Slots(Lists)
        BY DEF TypeInv, Types
      <3>2. slot' \in Slots(Lists)
        BY <1>3, <3>1 DEF DeActivateFilter, Slots
      <3> QED
        BY <3>2
    <2> QED
      BY <2>1, <2>2, <2>3 DEF TypeInv, Types, MutexKept, CallbackAt
  <1> QED
    BY <1>1, <1>2, <1>3 DEF Calls

LEMMA HostTypes ==
  ASSUME Inv, TypeInv, NEW p \in Platforms, HostChange(p)
  PROVE  TypeInv'
  <1>1. UNCHANGED <<enabled, mutex, slot, subs, pc, cb, room, told>>
    BY DEF HostChange, control
  <1>2. PICK d \in Domains, s \in Steps :
          /\ host' = [host EXCEPT ![p][d] = s[2]]
          /\ queue' = IF queue[p].on
                      THEN [queue EXCEPT ![p].events =
                                Append(@, [dom |-> d, kind |-> s[3]])]
                      ELSE queue
          /\ missed' = IF Slips(p, s) THEN [missed EXCEPT ![p] = @ \cup {d}]
                       ELSE missed
    BY DEF HostChange
  <1>3. s[2] \in HostStates /\ s[3] \in Kinds
    BY DEF Steps, HostStates, Kinds
  <1>4. /\ host' \in [Platforms -> [Domains -> HostStates]]
        /\ missed' \in [Platforms -> SUBSET Domains]
    BY <1>2, <1>3 DEF TypeInv, Types
  <1>5. queue' \in [Platforms -> [on : BOOLEAN, events : Seq(Event)]]
    <2> DEFINE e == [dom |-> d, kind |-> s[3]]
               E == Seq(Event)
    <2>1. e \in Event
      BY <1>3 DEF Event
    <2>2. queue \in [Platforms -> [on : BOOLEAN, events : E]]
      BY DEF TypeInv, Types
    <2>3. Append(queue[p].events, e) \in E
      BY <2>1, <2>2, AppendProperties
    <2>4. queue' = queue \/ queue' = [queue EXCEPT ![p].events = Append(@, e)]
      BY <1>2
    <2> HIDE DEF e, E
    <2>5. queue' \in [Platforms -> [on : BOOLEAN, events : E]]
      BY <2>2, <2>3, <2>4
    <2> QED
      BY <2>5 DEF E
  <1> QED
    BY <1>1, <1>4, <1>5 DEF TypeInv, Types, MutexKept, CallbackAt

\* The steps of a thread that touch neither a list, the queue nor the history.
LEMMA PlainTypes ==
  ASSUME TypeInv, UNCHANGED <<enabled, slot, subs, cb, room, host, queue, hist>>,
         mutex' \in Threads \cup {None}
  PROVE  Types'
  BY DEF TypeInv, Types, hist

LEMMA ListingNames ==
  ASSUME NEW t, ListInactive(t) \/ ListActive(t)
  PROVE  \E S \in SUBSET Domains : \E n : Names(t, S, n)
  <1>1. \A X : In(plat[t], X) \in SUBSET Domains
    BY DEF In
  <1>2. CASE ListInactive(t)
    <2>1. Names(t, In(plat[t], {"off"}), room.off)
      BY <1>2 DEF ListInactive, Names
    <2> QED
      BY <1>1, <2>1
  <1>3. CASE ListActive(t)
    <2>1. Names(t, In(plat[t], {"on", "transient"}), room.on)
      BY <1>3 DEF ListActive, Names
    <2> QED
      BY <1>1, <2>1
  <1> QED
    BY <1>2, <1>3

LEMMA ThreadTypes ==
  ASSUME Inv, TypeInv, NEW t \in Threads, Thread(t)
  PROVE  TypeInv'
  <1> USE DEF Listing, InCallback
  <1> DEFINE Q == [on : BOOLEAN, events : Seq(Event)]
  <1>0. mutex \in Threads \cup {None} /\ queue \in [Platforms -> Q]
    BY DEF TypeInv, Types
  <1>1. CASE GivesUp(t)
    <2>1. Goto(t, "start", "dead") /\ UNCHANGED <<mutex, cb>>
      BY <1>1 DEF GivesUp, control
    <2> QED
      BY <1>0, <1>1, <2>1, OutsideMoves, PlainTypes
         DEF GivesUp, control, world, TypeInv
  <1>2. CASE Register(t)
    <2>1. plat[t] \in Platforms
      BY <1>2 DEF Register, Goto, Inv, Placed, Owning, Running
    <2>2. /\ Goto(t, "start", "count") /\ mutex = None /\ mutex' = t
          /\ UNCHANGED <<enabled, slot, subs, cb, room, host>>
      BY <1>2 DEF Register, Free
    <2>3. queue' \in [Platforms -> Q]
      <3>1. [on |-> TRUE, events |-> <<>>] \in Q
        BY EmptySeq
      <3> HIDE DEF Q
      <3> QED
        BY <1>0, <1>2, <3>1 DEF Register
    <2>4. /\ missed' \in [Platforms -> SUBSET Domains]
          /\ told' \in [Platforms -> [Domains -> Tellings]]
      BY <1>2, <2>1 DEF Register, TypeInv, Types, Tellings
    <2>5. Types'
      BY <2>2, <2>3, <2>4 DEF TypeInv, Types
    <2> QED
      BY <2>2, <2>5, OutsideMoves DEF TypeInv
  <1>3. CASE RegisterFails(t)
    <2>1. Goto(t, "start", "out") /\ UNCHANGED <<mutex, cb>>
      BY <1>3 DEF RegisterFails, control
    <2> QED
      BY <1>0, <1>3, <2>1, OutsideMoves, PlainTypes
         DEF RegisterFails, control, world, TypeInv
  <1>4. CASE ListInactive(t) \/ ListActive(t)
    <2>1. plat[t] \in Platforms
      BY <1>4 DEF ListInactive, ListActive, Goto, Inv, Placed, Owning, Running
    <2>2. \E S \in SUBSET Domains : \E n : Names(t, S, n)
      BY <1>4, ListingNames
    <2>3. slot' \in Slots(Lists) /\ missed' \in [Platforms -> SUBSET Domains]
      <3>1. PICK S \in SUBSET Domains : \E n : Names(t, S, n)
        BY <2>2
      <3>2. PICK M \in Lists : slot' = [slot EXCEPT ![plat[t]].list = M]
        BY <2>1, <3>1, NamesEffect DEF TypeInv
      <3>3. PICK D \in SUBSET Domains :
              missed' = [missed EXCEPT ![plat[t]] = @ \cup D]
        BY <2>1, <3>1, NamesEffect DEF TypeInv
      <3>4. missed' \in [Platforms -> SUBSET Domains]
        BY <2>1, <3>3 DEF TypeInv, Types
      <3> QED
        BY <2>1, <3>2, <3>4, ListReplaced DEF TypeInv
    <2>4. /\ \/ Goto(t, "listInactive", "listActive")
             \/ Goto(t, "listActive", "describe")
          /\ UNCHANGED <<enabled, mutex, subs, cb, host, queue, told>>
          /\ room' = room \/ room' = NoRoom
      BY <1>4 DEF ListInactive, ListActive
    <2>5. room' \in Rooms
      BY <2>4 DEF TypeInv, Types, Rooms, NoRoom
    <2> QED
      BY <2>3, <2>4, <2>5, OutsideMoves DEF TypeInv, Types
  <1>11. CASE CountDomains(t)
    <2>1. /\ Goto(t, "count", "listInactive")
          /\ UNCHANGED <<enabled, mutex, slot, subs, cb, host, queue, missed, told>>
      BY <1>11 DEF CountDomains, control, world, hist
    <2>2. room' \in Rooms
      <3>1. \A S : Cardinality(In(plat[t], S)) \in Nat
        BY DomainsAssumption, FS_Subset, FS_CardinalityType DEF In
      <3> QED
        BY <1>11, <3>1 DEF CountDomains, Rooms
    <2> QED
      BY <2>1, <2>2, OutsideMoves DEF TypeInv, Types
  <1>12. CASE ListFails(t)
    <2>1. /\ UNCHANGED <<enabled, mutex, slot, subs, cb, host, queue, told>>
          /\ room' = NoRoom
          /\ \E c \in Listing : Goto(t, c, "describe")
      BY <1>12 DEF ListFails, control
    <2>2. plat[t] \in Platforms
      BY <2>1 DEF Goto, Inv, Placed, Owning, Running
    <2>3. missed' \in [Platforms -> SUBSET Domains]
      <3> DEFINE D == {d \in In(plat[t], HostStates \ {"absent"}) : First(plat[t], d) = 0}
      <3>1. missed' = [missed EXCEPT ![plat[t]] = @ \cup D]
        BY <1>12 DEF ListFails, Overlooks
      <3>2. D \subseteq Domains
        BY DEF In
      <3> HIDE DEF D
      <3> QED
        BY <2>2, <3>1, <3>2 DEF TypeInv, Types
    <2>4. room' \in Rooms
      BY <2>1 DEF Rooms, NoRoom
    <2> QED
      BY <2>1, <2>3, <2>4, OutsideMoves DEF TypeInv, Types
  <1>5. CASE Describe(t)
    <2>1. Goto(t, "describe", "check") /\ mutex' = None /\ cb' = cb
      BY <1>5 DEF Describe
    <2> QED
      BY <1>5, <2>1, OutsideMoves, PlainTypes DEF Describe, world, TypeInv
  <1>6. CASE DescribeFails(t)
    <2>1. Goto(t, "describe", "end") /\ mutex' = None /\ cb' = cb
      BY <1>6 DEF DescribeFails
    <2> QED
      BY <1>6, <2>1, OutsideMoves, PlainTypes DEF DescribeFails, TypeInv
  <1>7. CASE Check(t)
    <2>1. /\ Goto(t, "check", "end") \/ Goto(t, "check", "run")
          /\ UNCHANGED <<mutex, cb>>
      BY <1>7 DEF Check, Goto, control
    <2> QED
      BY <1>0, <1>7, <2>1, OutsideMoves, PlainTypes
         DEF Check, control, world, TypeInv
  <1>8. CASE LeaveRun(t)
    <2>1. Goto(t, "run", "check") /\ UNCHANGED <<mutex, cb>>
      BY <1>8 DEF LeaveRun, control
    <2> QED
      BY <1>0, <1>8, <2>1, OutsideMoves, PlainTypes
         DEF LeaveRun, control, world, TypeInv
  <1>9. CASE Deregister(t)
    <2>1. /\ Goto(t, "end", "out")
          /\ UNCHANGED <<enabled, mutex, subs, cb, room, host, missed, told>>
      BY <1>9 DEF Deregister, hist
    <2>2. queue' \in [Platforms -> Q]
      <3>1. [on |-> FALSE, events |-> <<>>] \in Q
        BY EmptySeq
      <3> HIDE DEF Q
      <3> QED
        BY <1>0, <1>9, <3>1 DEF Deregister
    <2>3. slot' \in Slots(Lists)
      <3>1. slot \in Slots(Lists) /\ <<>> \in Lists
        BY EmptySeq DEF TypeInv, Types, Lists
      <3>2. slot' \in Slots(Lists)
        BY <1>9, <3>1 DEF Deregister, Slots
      <3> QED
        BY <3>2
    <2> QED
      BY <2>1, <2>2, <2>3, OutsideMoves DEF TypeInv, Types
  <1>10. CASE Out(t)
    <2>1. /\ Goto(t, "out", "none")
          /\ UNCHANGED <<enabled, mutex, subs, cb, room, host, queue, missed, told>>
      BY <1>10 DEF Out, world, hist
    <2>2. slot' \in Slots(Lists)
      <3>1. slot \in Slots(Lists)
        BY DEF TypeInv, Types
      <3>2. slot' \in Slots(Lists)
        <4>1. plat[t] \in Platforms
          BY <2>1 DEF Goto, Inv, Placed, Owning, Running
        <4> QED
          BY <1>10, <3>1, <4>1 DEF Out, Slots
      <3> QED
        BY <3>2
    <2> QED
      BY <2>1, <2>2, OutsideMoves DEF TypeInv, Types
  <1> QED
    BY <1>1, <1>2, <1>3, <1>4, <1>5, <1>6, <1>7, <1>8, <1>9, <1>10, <1>11, <1>12
    DEF Thread

\* The list after the callback: one entry more, or one whose xml was read anew.
LEMMA EntriesType ==
  ASSUME Types, NEW t \in Threads, cb[t].of \in Platforms, cb[t].dom \in Domains,
         NEW L \in Entries(t)
  PROVE  /\ L \in Lists
         /\ Grows(slot[cb[t].of].list, L)
         /\ cb[t].kind = "added" => Has(L, cb[t].dom)
  <1> DEFINE M == slot[cb[t].of].list
  <1>1. M \in Lists
    BY SlotList
  <1>2. L \in CASE cb[t].kind = "added" ->
                    {Append(M, [dom |-> cb[t].dom, xml |-> TRUE])}
                [] cb[t].kind = "updated" ->
                    {[M EXCEPT ![cb[t].at].xml = x] : x \in Redescribed(t)}
                [] OTHER -> {M}
    BY DEF Entries
  <1> HIDE DEF M
  <1>3. CASE cb[t].kind = "added"
    <2> DEFINE e == [dom |-> cb[t].dom, xml |-> TRUE]
    <2>1. e \in Guest /\ e.dom = cb[t].dom
      BY DEF Guest
    <2>2. L = Append(M, e)
      BY <1>2, <1>3
    <2> HIDE DEF e
    <2> QED
      BY <1>1, <2>1, <2>2, AppendGrows DEF M
  <1>4. CASE cb[t].kind = "updated"
    <2>1. PICK x \in BOOLEAN : L = [M EXCEPT ![cb[t].at].xml = x]
      BY <1>2, <1>4 DEF Redescribed
    <2>2. L \in Lists /\ Grows(M, L)
      BY <1>1, <2>1, ExceptGrows
    <2> QED
      BY <1>4, <2>2 DEF M
  <1>5. CASE cb[t].kind \notin {"added", "updated"}
    <2>1. L = M
      BY <1>2, <1>5
    <2> QED
      BY <1>1, <1>5, <2>1, ListFacts DEF M
  <1> QED
    BY <1>3, <1>4, <1>5

LEMMA MissedType ==
  ASSUME Types, NEW p \in Platforms, NEW d \in Domains,
         \/ missed' = missed
         \/ missed' = [missed EXCEPT ![p] = @ \cup {d}]
  PROVE  missed' \in [Platforms -> SUBSET Domains]
  <1>1. missed \in [Platforms -> SUBSET Domains]
    BY DEF Types
  <1>2. CASE missed' = missed
    BY <1>1, <1>2
  <1>3. CASE missed' = [missed EXCEPT ![p] = @ \cup {d}]
    BY <1>1, <1>3
  <1> QED
    BY <1>2, <1>3

LEMMA ToldType ==
  ASSUME Types, NEW p \in Platforms, NEW d \in Domains, NEW k \in Tellings,
         \/ told' = told
         \/ told' = [told EXCEPT ![p][d] = k]
  PROVE  told' \in [Platforms -> [Domains -> Tellings]]
  <1>1. told \in [Platforms -> [Domains -> Tellings]]
    BY DEF Types
  <1>2. CASE told' = told
    BY <1>1, <1>2
  <1>3. CASE told' = [told EXCEPT ![p][d] = k]
    BY <1>1, <1>3
  <1> QED
    BY <1>2, <1>3

LEMMA DispatchTypes ==
  ASSUME Inv, TypeInv, NEW t \in Threads, NEW p \in Platforms, Dispatch(t, p)
  PROVE  TypeInv'
  <1> DEFINE e == Head(queue[p].events)
             E == Seq(Event)
             c == [of |-> p, kind |-> e.kind, dom |-> e.dom, at |-> 0]
  <1>1. /\ UNCHANGED <<enabled, mutex, slot, subs, room, host, told>>
        /\ pc[t] = "run" /\ queue[p].events # <<>>
        /\ queue' = [queue EXCEPT ![p].events = Tail(@)]
        /\ \/ /\ pc' = [pc EXCEPT ![t] = "find"] /\ cb' = [cb EXCEPT ![t] = c]
              /\ missed' = missed
           \/ /\ missed' = [missed EXCEPT ![p] = @ \cup {e.dom}]
              /\ UNCHANGED <<pc, cb>>
    BY DEF Dispatch, control
  <1>2. queue \in [Platforms -> [on : BOOLEAN, events : E]]
    BY DEF TypeInv, Types
  <1>3. e \in Event /\ Tail(queue[p].events) \in E
    BY <1>1, <1>2, HeadTailProperties
  <1>4. queue' \in [Platforms -> [on : BOOLEAN, events : E]]
    <2> HIDE DEF E, e
    <2> QED
      BY <1>1, <1>2, <1>3
  <1>5. e.dom \in Domains /\ e.kind \in Kinds
    BY <1>3 DEF Event
  <1> HIDE DEF e
  <1>6. c \in Locals
    BY <1>5 DEF Locals
  <1>7. /\ cb' \in [Threads -> Locals]
        /\ missed' \in [Platforms -> SUBSET Domains]
    <2> HIDE DEF c
    <2>1. missed' \in [Platforms -> SUBSET Domains]
      <3>1. \/ missed' = missed
            \/ missed' = [missed EXCEPT ![p] = @ \cup {e.dom}]
        BY <1>1
      <3> QED
        BY <1>5, <3>1, MissedType DEF TypeInv
    <2>2. cb' \in [Threads -> Locals]
      <3>1. cb' = cb \/ cb' = [cb EXCEPT ![t] = c]
        BY <1>1
      <3> QED
        BY <1>6, <3>1 DEF TypeInv, Types
    <2> QED
      BY <2>1, <2>2
  <1>8. Types'
    BY <1>1, <1>4, <1>7 DEF TypeInv, Types
  <1>9. MutexKept' /\ \A u \in Threads : CallbackAt(u)'
    <2>1. CASE UNCHANGED <<pc, cb>>
      BY <1>1, <2>1 DEF TypeInv, MutexKept, CallbackAt
    <2>2. CASE pc' = [pc EXCEPT ![t] = "find"] /\ cb' = [cb EXCEPT ![t] = c]
      <3>1. /\ pc'[t] = "find" /\ cb'[t] = c
            /\ \A u \in Threads : u # t => cb'[u] = cb[u]
        BY <2>2 DEF Inv, Placed, TypeInv, Types
      <3>2. CallbackAt(t)'
        BY <1>5, <3>1 DEF CallbackAt, InCallback
      <3> QED
        BY <1>1, <2>2, <3>1, <3>2, ControlMoves DEF Goto, Listing
    <2> QED
      BY <1>1, <2>1, <2>2
  <1> QED
    BY <1>8, <1>9 DEF TypeInv

LEMMA CallbackTypes ==
  ASSUME Inv, TypeInv, NEW t \in Threads, Callback(t)
  PROVE  TypeInv'
  <1>1. cb[t] \in Locals /\ mutex \in Threads \cup {None} /\ cb \in [Threads -> Locals]
    BY DEF TypeInv, Types
  <1>2. pc[t] \in InCallback =>
          cb[t].of \in Platforms /\ cb[t].kind \in Kinds /\ cb[t].dom \in Domains
    BY DEF TypeInv, CallbackAt
  <1>3. NoCallback \in Locals
    BY DEF NoCallback, Locals
  <1>4. ASSUME NEW p \in Platforms, Dispatch(t, p)
        PROVE  TypeInv'
    BY <1>4, DispatchTypes
  <1>5. CASE FindEntry(t)
    <2> DEFINE at == First(cb[t].of, cb[t].dom)
    <2>1. /\ pc[t] = "find"
          /\ UNCHANGED <<enabled, mutex, slot, subs, room, host, queue, missed, told>>
          /\ \/ Goto(t, "find", "run") /\ cb' = [cb EXCEPT ![t] = NoCallback]
             \/ Goto(t, "find", "send") /\ cb' = [cb EXCEPT ![t].at = at]
      BY <1>5 DEF FindEntry, EndOfCallback, control, hist
    <2>2. at \in Nat
      BY <1>2, <2>1, FirstType, SlotList, ListFacts DEF TypeInv, InCallback
    <2> HIDE DEF at
    <2>3. /\ cb' \in [Threads -> Locals]
          /\ \A u \in Threads : u # t => cb'[u] = cb[u]
      BY <1>1, <1>3, <2>1, <2>2 DEF Locals
    <2>4. CallbackAt(t)'
      BY <1>1, <1>2, <2>1, <2>2
         DEF Goto, Inv, Placed, CallbackAt, InCallback, Locals
    <2> QED
      BY <2>1, <2>3, <2>4, ControlMoves DEF TypeInv, Types, Listing
  <1>6. CASE NewEntry(t)
    <2>1. /\ Goto(t, "find", "send")
          /\ UNCHANGED <<enabled, mutex, slot, subs, cb, room, host, queue, missed, told>>
      BY <1>6 DEF NewEntry, control, world, hist
    <2>2. CallbackAt(t)'
      BY <1>2, <2>1 DEF Goto, Inv, Placed, CallbackAt, InCallback
    <2> QED
      BY <2>1, <2>2, ControlMoves DEF TypeInv, Types, Listing
  <1>7. CASE NewEntryFails(t)
    <2>1. /\ Goto(t, "find", "run")
          /\ UNCHANGED <<enabled, mutex, slot, subs, room, host, queue, told>>
          /\ cb' = [cb EXCEPT ![t] = NoCallback]
          /\ missed' = [missed EXCEPT ![cb[t].of] = @ \cup {cb[t].dom}]
      BY <1>7 DEF NewEntryFails, EndOfCallback, Misses, control
    <2>2. /\ cb' \in [Threads -> Locals]
          /\ missed' \in [Platforms -> SUBSET Domains]
      BY <1>1, <1>2, <1>3, <2>1 DEF TypeInv, Types, Goto, InCallback
    <2>3. CallbackAt(t)' /\ \A u \in Threads : u # t => cb'[u] = cb[u]
      BY <1>1, <2>1 DEF Goto, Inv, Placed, CallbackAt, InCallback
    <2> QED
      BY <2>1, <2>2, <2>3, ControlMoves DEF TypeInv, Types, Listing
  <1>8. CASE async_ind(t)
    <2>1. /\ Goto(t, "send", "update")
          /\ UNCHANGED <<enabled, mutex, slot, subs, cb, room, host, queue, missed>>
          /\ \E r \in {IndicationOf[cb[t].kind], "lost"} :
                told' = [told EXCEPT ![cb[t].of][cb[t].dom] = r]
      BY <1>8 DEF async_ind, Tell, control
    <2>2. /\ cb[t].of \in Platforms /\ cb[t].dom \in Domains
          /\ cb[t].kind \in Kinds
      BY <1>2, <2>1 DEF Goto, InCallback
    <2>3. PICK r \in Tellings : told' = [told EXCEPT ![cb[t].of][cb[t].dom] = r]
      <3>1. IndicationOf[cb[t].kind] \in Tellings /\ "lost" \in Tellings
        BY <2>2 DEF IndicationOf, Kinds, Tellings
      <3> QED
        BY <2>1, <3>1
    <2>4. told' \in [Platforms -> [Domains -> Tellings]]
      BY <2>2, <2>3, ToldType DEF TypeInv
    <2>5. CallbackAt(t)'
      BY <1>2, <2>1 DEF Goto, Inv, Placed, CallbackAt, InCallback
    <2> QED
      BY <2>1, <2>4, <2>5, ControlMoves DEF TypeInv, Types, Listing
  <1>9. CASE UpdateList(t)
    <2>1. PICK L \in Entries(t) : slot' = [slot EXCEPT ![cb[t].of].list = L]
      BY <1>9 DEF UpdateList
    <2>2. /\ Goto(t, "update", "run") /\ cb' = [cb EXCEPT ![t] = NoCallback]
          /\ UNCHANGED <<enabled, mutex, subs, room, host, queue, missed, told>>
      BY <1>9 DEF UpdateList, EndOfCallback, world, hist
    <2>3. /\ cb[t].of \in Platforms /\ cb[t].dom \in Domains
      BY <1>2, <2>2 DEF Goto, InCallback
    <2>4. slot' \in Slots(Lists)
      <3>1. L \in Lists
        BY <2>3, EntriesType DEF TypeInv
      <3> QED
        BY <2>1, <2>3, <3>1, ListReplaced DEF TypeInv
    <2>5. /\ cb' \in [Threads -> Locals] /\ CallbackAt(t)'
          /\ \A u \in Threads : u # t => cb'[u] = cb[u]
      BY <1>1, <1>3, <2>2 DEF Goto, Inv, Placed, CallbackAt, InCallback
    <2> QED
      BY <2>2, <2>4, <2>5, ControlMoves DEF TypeInv, Types, Listing
  <1> QED
    BY <1>4, <1>5, <1>6, <1>7, <1>8, <1>9 DEF Callback

LEMMA NextTypes == Inv /\ TypeInv /\ [Next]_vars => TypeInv'
  <1> SUFFICES ASSUME Inv, TypeInv, [Next]_vars PROVE TypeInv'
    OBVIOUS
  <1>1. CASE UNCHANGED vars
    BY <1>1 DEF vars, TypeInv, Types, MutexKept, CallbackAt
  <1> QED
    BY <1>1, CallTypes, HostTypes, ThreadTypes, CallbackTypes DEF Next

\* For any number of platforms: the variables keep their types, the mutex is
\* kept over several calls by the thread that lists and by no other, and a thread
\* has the locals of a callback exactly while it is in one (lifecycle_thread,
\* csi_domain_event_cb).
THEOREM TypeInvariant == Spec => [](Inv /\ TypeInv)
  <1>1. Init => Inv /\ TypeInv
    BY InitInv, InitTypes
  <1>2. (Inv /\ TypeInv) /\ [Next]_vars => (Inv /\ TypeInv)'
    BY NextInv, NextTypes
  <1> QED
    BY <1>1, <1>2, PTL DEF Spec

-----------------------------------------------------------------------------
(***************************************************************************)
(* What the callback works on.  libvirt has one loop, and the thread of    *)
(* one platform may run the callback for another, whose own thread may     *)
(* free the list under it.  What follows is about runs in which a thread   *)
(* only handles the events of its own platform.                            *)
(***************************************************************************)
OwnEvents == \A t \in Threads : cb[t].of \in {None, plat[t]}

Serving == Running \ {"out"}
ArgsKept == \A t \in Threads : pc[t] \in Serving => slot[plat[t]].args = "live"
EntryKept == \A t \in Threads :
    pc[t] \in InCallback => cb[t].at <= Len(slot[cb[t].of].list)
Held == ArgsKept /\ EntryKept

\* A step that neither replaces the arguments of a platform nor takes an entry
\* out of its list.
Calm(p) == /\ slot'[p].args = slot[p].args
           /\ Grows(slot[p].list, slot'[p].list)

LEMMA SameCalm ==
  ASSUME Types, NEW p \in Platforms, slot'[p] = slot[p]
  PROVE  Calm(p)
  BY SlotList, ListFacts DEF Calm

LEMMA ActiveCalm ==
  ASSUME Types, NEW q, NEW x, slot' = [slot EXCEPT ![q].active = x],
         NEW p \in Platforms
  PROVE  Calm(p)
  <1>1. slot \in Slots(Lists)
    BY DEF Types
  <1>2. slot'[p].list = slot[p].list /\ slot'[p].args = slot[p].args
    BY <1>1 DEF Slots
  <1> QED
    BY <1>2, SlotList, ListFacts DEF Calm

LEMMA NamesCalm ==
  ASSUME Types, NEW t, plat[t] \in Platforms, NEW S \in SUBSET Domains, NEW n,
         Names(t, S, n), NEW p \in Platforms
  PROVE  /\ Calm(p)
         /\ \A d \in S : Has(slot'[plat[t]].list, d) \/ d \in missed'[plat[t]]
  <1>1. PICK M \in Lists :
           /\ slot' = [slot EXCEPT ![plat[t]].list = M]
           /\ Grows(slot[plat[t]].list, M)
           /\ \A d \in S : Has(M, d) \/ d \in missed'[plat[t]]
    BY NamesEffect
  <1>2. /\ slot'[plat[t]].list = M /\ slot'[plat[t]].args = slot[plat[t]].args
        /\ \A r \in Platforms \ {plat[t]} : slot'[r] = slot[r]
    BY <1>1, ListReplaced
  <1>3. \A d \in S : Has(slot'[plat[t]].list, d) \/ d \in missed'[plat[t]]
    BY <1>1, <1>2
  <1>4. CASE p = plat[t]
    BY <1>1, <1>2, <1>3, <1>4 DEF Calm
  <1>5. CASE p # plat[t]
    BY <1>2, <1>3, <1>5, SameCalm
  <1> QED
    BY <1>4, <1>5

LEMMA UpdateCalm ==
  ASSUME Types, NEW t \in Threads, cb[t].of \in Platforms, cb[t].dom \in Domains,
         UpdateList(t), NEW p \in Platforms
  PROVE  /\ Calm(p)
         /\ cb[t].kind = "added" => Has(slot'[cb[t].of].list, cb[t].dom)
  <1> DEFINE q == cb[t].of
  <1>1. PICK L \in Entries(t) : slot' = [slot EXCEPT ![q].list = L]
    BY DEF UpdateList
  <1>2. /\ L \in Lists
        /\ Grows(slot[q].list, L)
        /\ cb[t].kind = "added" => Has(L, cb[t].dom)
    BY EntriesType
  <1>3. /\ slot'[q].list = L /\ slot'[q].args = slot[q].args
        /\ \A r \in Platforms \ {q} : slot'[r] = slot[r]
    BY <1>1, <1>2, ListReplaced
  <1>4. cb[t].kind = "added" => Has(slot'[q].list, cb[t].dom)
    BY <1>2, <1>3
  <1>5. CASE p = q
    BY <1>2, <1>3, <1>4, <1>5 DEF Calm
  <1>6. CASE p # q
    BY <1>3, <1>4, <1>6, SameCalm
  <1> QED
    BY <1>5, <1>6

\* Two threads that run, run for two platforms.
LEMMA Alone ==
  ASSUME Inv, NEW t \in Threads, NEW u \in Threads, u # t,
         pc[t] \in Running, pc[u] \in Running
  PROVE  /\ plat[t] \in Platforms /\ plat[u] \in Platforms
         /\ plat[u] # plat[t]
  BY DEF Inv, Placed, SlotServed, Owning

\* A step that is calm everywhere: a thread that serves did so before, and the
\* entry of a callback is the one it had, or one just found.
LEMMA CalmHeld ==
  ASSUME Inv, TypeInv, TypeInv', Held, plat' = plat,
         \A p \in Platforms : Calm(p),
         \A u \in Threads : pc'[u] \in Serving => pc[u] \in Serving,
         \A u \in Threads : pc'[u] \in InCallback =>
            \/ pc[u] \in InCallback /\ cb'[u] = cb[u]
            \/ cb'[u].at <= Len(slot'[cb'[u].of].list)
  PROVE  Held'
  <1>1. ArgsKept'
    <2> SUFFICES ASSUME NEW u \in Threads, pc'[u] \in Serving
                 PROVE  slot'[plat'[u]].args = "live"
      BY DEF ArgsKept
    <2>1. /\ slot[plat[u]].args = "live"
          /\ plat[u] \in Platforms
      BY DEF Held, ArgsKept, Inv, Placed, Serving, Owning
    <2> QED
      BY <2>1 DEF Calm
  <1>2. EntryKept'
    <2> SUFFICES ASSUME NEW u \in Threads, pc'[u] \in InCallback
                 PROVE  cb'[u].at <= Len(slot'[cb'[u].of].list)
      BY DEF EntryKept
    <2>1. CASE pc[u] \in InCallback /\ cb'[u] = cb[u]
      <3> DEFINE p == cb[u].of
      <3>1. p \in Platforms /\ cb[u].at \in Nat
        BY <2>1 DEF TypeInv, CallbackAt, Types, Locals
      <3>2. slot[p].list \in Lists /\ Len(slot[p].list) \in Nat
        BY <3>1, SlotList, ListFacts DEF TypeInv
      <3>3. cb[u].at <= Len(slot[p].list)
        BY <2>1 DEF Held, EntryKept
      <3>4. Len(slot[p].list) <= Len(slot'[p].list)
        BY <3>1 DEF Calm, Grows
      <3>5. Len(slot'[p].list) \in Nat
        <4>1. slot' \in Slots(Lists)
          BY DEF TypeInv, Types
        <4>2. slot'[p].list \in Lists
          BY <3>1, <4>1 DEF Slots
        <4> QED
          BY <4>2, ListFacts
      <3> HIDE DEF p
      <3>6. cb[u].at <= Len(slot'[p].list)
        BY <3>1, <3>2, <3>3, <3>4, <3>5
      <3> QED
        BY <2>1, <3>6 DEF p
    <2> QED
      BY <2>1
  <1> QED
    BY <1>1, <1>2 DEF Held

LEMMA CallHeld ==
  ASSUME Inv, TypeInv, TypeInv', Held, Calls
  PROVE  Held'
  <1>1. ASSUME NEW b \in BOOLEAN, SetEnabled(b)
        PROVE  Held'
    BY <1>1 DEF SetEnabled, Held, ArgsKept, EntryKept
  <1>2. ASSUME NEW p \in Platforms, ActivateFilter(p)
        PROVE  Held'
    <2>1. slot \in Slots(Lists) /\ cb' = cb
      BY <1>2 DEF TypeInv, Types, ActivateFilter
    <2>2. CASE JoinRunning(p)
      <3>1. \A r \in Platforms : Calm(r)
        BY <2>2, ActiveCalm DEF JoinRunning, TypeInv
      <3> QED
        BY <2>1, <2>2, <3>1, CalmHeld DEF JoinRunning, ActivateFilter
    <2>3. CASE StartThread(p)
      <3>1. PICK u \in Threads :
              /\ pc[u] = "none"
              /\ pc' = [pc EXCEPT ![u] = "start"]
              /\ plat' = [plat EXCEPT ![u] = p]
              /\ slot' = [slot EXCEPT ![p].id = u, ![p].active = @ + 1,
                                      ![p].args = "live"]
        BY <2>3 DEF StartThread
      <3>2. /\ slot'[p].args = "live"
            /\ \A r \in Platforms : slot'[r].list = slot[r].list
            /\ \A r \in Platforms \ {p} : slot'[r] = slot[r]
        BY <2>1, <3>1 DEF Slots
      <3>3. ArgsKept'
        BY <3>1, <3>2 DEF Inv, Placed, Held, ArgsKept, Serving, Owning
      <3>4. ASSUME NEW w \in Threads, pc'[w] \in InCallback
            PROVE  cb'[w].at <= Len(slot'[cb'[w].of].list)
        <4>1. pc[w] \in InCallback
          BY <3>1, <3>4 DEF Inv, Placed, InCallback
        <4>2. cb'[w] = cb[w] /\ cb[w].of \in Platforms
          BY <2>1, <4>1 DEF TypeInv, CallbackAt
        <4>3. slot'[cb[w].of].list = slot[cb[w].of].list
          BY <3>2, <4>2
        <4>4. cb[w].at <= Len(slot[cb[w].of].list)
          BY <4>1 DEF Held, EntryKept
        <4> QED
          BY <4>2, <4>3, <4>4
      <3> QED
        BY <3>3, <3>4 DEF Held, EntryKept
    <2>4. CASE ThreadRefused(p)
      <3>1. /\ slot[p].id = None /\ UNCHANGED <<pc, plat>>
            /\ \A r \in Platforms : slot'[r].list = slot[r].list
            /\ \A r \in Platforms \ {p} : slot'[r] = slot[r]
        BY <2>1, <2>4 DEF ThreadRefused, Slots
      <3>2. ArgsKept'
        BY <3>1, NoneAssumption
           DEF Inv, Placed, SlotServed, Held, ArgsKept, Serving, Owning
      <3>3. EntryKept'
        BY <2>1, <3>1 DEF TypeInv, CallbackAt, Held, EntryKept
      <3> QED
        BY <3>2, <3>3 DEF Held
    <2> QED
      BY <1>2, <2>2, <2>3, <2>4 DEF ActivateFilter
  <1>3. ASSUME NEW p \in Platforms, DeActivateFilter(p)
        PROVE  Held'
    <2>1. \A r \in Platforms : Calm(r)
      BY <1>3, ActiveCalm DEF DeActivateFilter, TypeInv
    <2> QED
      BY <1>3, <2>1, CalmHeld DEF DeActivateFilter
  <1> QED
    BY <1>1, <1>2, <1>3 DEF Calls

\* Only the end of a thread takes arguments and list away: those of its own
\* platform, for which no other thread runs.
LEMMA EndHeld ==
  ASSUME Inv, TypeInv, Held, OwnEvents, NEW t \in Threads,
         Deregister(t) \/ Out(t)
  PROVE  Held'
  <1> DEFINE p == plat[t]
  <1>1. /\ pc[t] \in {"end", "out"} /\ pc'[t] \in {"out", "none"}
        /\ \A u \in Threads \ {t} : pc'[u] = pc[u] /\ plat'[u] = plat[u]
        /\ cb' = cb
    BY DEF Deregister, Out, Goto, Inv, Placed
  <1>2. \A r \in Platforms \ {p} : slot'[r] = slot[r]
    <2>1. slot \in Slots(Lists)
      BY DEF TypeInv, Types
    <2> QED
      BY <2>1 DEF Deregister, Out, Slots
  <1>3. ASSUME NEW u \in Threads, pc'[u] \in Serving
        PROVE  u # t /\ pc[u] \in Serving /\ plat'[u] = plat[u]
               /\ slot'[plat[u]] = slot[plat[u]]
    <2>1. u # t /\ pc[u] \in Serving /\ plat'[u] = plat[u]
      BY <1>1, <1>3 DEF Serving, Running, Listing, InCallback
    <2>2. pc[u] \in Running /\ pc[t] \in Running
      BY <1>1, <2>1 DEF Serving, Running
    <2>3. plat[u] \in Platforms \ {p}
      BY <2>1, <2>2, Alone
    <2> QED
      BY <1>2, <2>1, <2>3
  <1>4. ArgsKept'
    BY <1>3 DEF Held, ArgsKept
  <1>5. ASSUME NEW u \in Threads, pc'[u] \in InCallback
        PROVE  cb'[u].at <= Len(slot'[cb'[u].of].list)
    <2>1. pc'[u] \in Serving
      BY <1>5 DEF Serving, Running, InCallback
    <2>2. u # t /\ pc[u] = pc'[u] /\ slot'[plat[u]] = slot[plat[u]]
      BY <1>1, <1>3, <2>1
    <2>3. cb[u].of = plat[u]
      BY <1>5, <2>2, NoneAssumption DEF OwnEvents, TypeInv, CallbackAt
    <2>4. cb[u].at <= Len(slot[cb[u].of].list)
      BY <1>5, <2>2 DEF Held, EntryKept
    <2> QED
      BY <1>1, <2>2, <2>3, <2>4
  <1> QED
    BY <1>4, <1>5 DEF Held, EntryKept

LEMMA ThreadHeld ==
  ASSUME Inv, TypeInv, TypeInv', Held, OwnEvents, NEW t \in Threads, Thread(t)
  PROVE  Held'
  <1> USE DEF Serving, Running, Listing, InCallback
  <1>1. CASE ListInactive(t) \/ ListActive(t)
    <2>1. plat[t] \in Platforms
      BY <1>1 DEF ListInactive, ListActive, Goto, Inv, Placed, Owning
    <2>2. \E S \in SUBSET Domains : \E n : Names(t, S, n)
      BY <1>1, ListingNames
    <2>3. \A r \in Platforms : Calm(r)
      BY <2>1, <2>2, NamesCalm DEF TypeInv
    <2>4. /\ \/ Goto(t, "listInactive", "listActive")
             \/ Goto(t, "listActive", "describe")
          /\ UNCHANGED <<plat, cb>>
      BY <1>1 DEF ListInactive, ListActive
    <2>5. \A u \in Threads : /\ pc'[u] \in Serving => pc[u] \in Serving
                             /\ pc'[u] \in InCallback => pc[u] \in InCallback
      BY <2>4 DEF Goto, Inv, Placed
    <2> QED
      BY <2>3, <2>4, <2>5, CalmHeld
  <1>2. CASE Deregister(t) \/ Out(t)
    BY <1>2, EndHeld
  <1>3. CASE \/ GivesUp(t) \/ Register(t) \/ RegisterFails(t) \/ CountDomains(t)
             \/ ListFails(t) \/ Describe(t) \/ DescribeFails(t) \/ Check(t)
             \/ LeaveRun(t)
    <2>1. UNCHANGED <<slot, plat, cb>>
      BY <1>3 DEF GivesUp, Register, RegisterFails, CountDomains, ListFails, Describe,
                  DescribeFails, Check, LeaveRun, control
    <2>2. \A r \in Platforms : Calm(r)
      BY <2>1, SameCalm DEF TypeInv
    <2>3. /\ pc[t] \in Listing \cup {"start", "check", "run"}
          /\ pc'[t] \notin InCallback
          /\ \A u \in Threads \ {t} : pc'[u] = pc[u]
      BY <1>3 DEF GivesUp, Register, RegisterFails, CountDomains, ListFails, Describe,
                  DescribeFails, Check, LeaveRun, Goto, Inv, Placed
    <2>4. \A u \in Threads : /\ pc'[u] \in Serving => pc[u] \in Serving
                             /\ pc'[u] \in InCallback => pc[u] \in InCallback
      BY <2>3
    <2> QED
      BY <2>1, <2>2, <2>4, CalmHeld
  <1> QED
    BY <1>1, <1>2, <1>3 DEF Thread

LEMMA CallbackHeld ==
  ASSUME Inv, TypeInv, TypeInv', Held, NEW t \in Threads, Callback(t)
  PROVE  Held'
  <1> DEFINE Keeps == /\ \A u \in Threads : pc'[u] \in Serving => pc[u] \in Serving
                      /\ \A u \in Threads \ {t} : pc'[u] = pc[u] /\ cb'[u] = cb[u]
  <1>1. pc \in [Threads -> States] /\ cb \in [Threads -> Locals]
    BY DEF Inv, Placed, TypeInv, Types
  <1>2. slot' = slot => \A p \in Platforms : Calm(p)
    BY SameCalm DEF TypeInv
  <1>3. pc[t] \in InCallback => cb[t].of \in Platforms /\ cb[t].dom \in Domains
    BY DEF TypeInv, CallbackAt
  <1>4. ASSUME NEW p \in Platforms, Dispatch(t, p)
        PROVE  Held'
    <2>1. UNCHANGED <<slot, plat>>
      BY <1>4 DEF Dispatch, control
    <2>2. CASE UNCHANGED <<pc, cb>>
      BY <1>2, <2>1, <2>2, CalmHeld
    <2>3. CASE /\ pc[t] = "run" /\ pc' = [pc EXCEPT ![t] = "find"]
               /\ cb'[t].at = 0 /\ cb'[t].of = p
               /\ \A u \in Threads \ {t} : cb'[u] = cb[u]
      <3>1. Keeps
        BY <1>1, <2>3 DEF Serving, Running, InCallback
      <3>2. 0 <= Len(slot'[p].list)
        BY <2>1, SlotList, ListFacts DEF TypeInv
      <3> QED
        BY <1>2, <2>1, <2>3, <3>1, <3>2, CalmHeld
    <2> QED
      BY <1>1, <1>4, <2>2, <2>3 DEF Dispatch
  <1>5. CASE FindEntry(t)
    <2> DEFINE at == First(cb[t].of, cb[t].dom)
    <2>1. /\ pc[t] = "find"
          /\ UNCHANGED <<slot, plat>>
          /\ \/ Goto(t, "find", "run") /\ cb' = [cb EXCEPT ![t] = NoCallback]
             \/ Goto(t, "find", "send") /\ cb' = [cb EXCEPT ![t].at = at]
      BY <1>5 DEF FindEntry, EndOfCallback, control
    <2>2. at <= Len(slot'[cb[t].of].list)
      BY <1>3, <2>1, FirstType, SlotList, ListFacts DEF TypeInv, InCallback
    <2> HIDE DEF at
    <2>3. Keeps
      BY <1>1, <2>1 DEF Goto, Serving, Running, InCallback
    <2>4. pc'[t] \in InCallback => cb'[t].at <= Len(slot'[cb'[t].of].list)
      BY <1>1, <2>1, <2>2 DEF Goto, InCallback, Locals
    <2> QED
      BY <1>2, <2>1, <2>3, <2>4, CalmHeld
  <1>6. CASE NewEntry(t) \/ NewEntryFails(t) \/ async_ind(t)
    <2>1. /\ UNCHANGED <<slot, plat>> /\ pc[t] \in InCallback
          /\ \/ /\ pc' = [pc EXCEPT ![t] = "run"]
                /\ cb' = [cb EXCEPT ![t] = NoCallback]
             \/ \E b \in InCallback : pc' = [pc EXCEPT ![t] = b] /\ cb' = cb
      BY <1>6 DEF NewEntry, NewEntryFails, async_ind, Goto, EndOfCallback, control,
                  InCallback
    <2>2. Keeps /\ (pc'[t] \in InCallback => pc[t] \in InCallback /\ cb'[t] = cb[t])
      BY <1>1, <2>1 DEF Serving, Running, InCallback
    <2> QED
      BY <1>2, <2>1, <2>2, CalmHeld
  <1>7. CASE UpdateList(t)
    <2>1. /\ Goto(t, "update", "run") /\ plat' = plat
          /\ cb' = [cb EXCEPT ![t] = NoCallback]
      BY <1>7 DEF UpdateList, EndOfCallback
    <2>2. \A p \in Platforms : Calm(p)
      BY <1>3, <1>7, <2>1, UpdateCalm DEF Goto, InCallback, TypeInv
    <2>3. Keeps /\ pc'[t] \notin InCallback
      BY <1>1, <2>1 DEF Goto, Serving, Running, InCallback
    <2> QED
      BY <2>1, <2>2, <2>3, CalmHeld
  <1> QED
    BY <1>4, <1>5, <1>6, <1>7 DEF Callback

LEMMA NextHeld ==
  Inv /\ TypeInv /\ TypeInv' /\ Held /\ OwnEvents /\ [Next]_vars => Held'
  <1> SUFFICES ASSUME Inv, TypeInv, TypeInv', Held, OwnEvents, [Next]_vars
               PROVE  Held'
    OBVIOUS
  <1>1. CASE UNCHANGED vars
    BY <1>1 DEF vars, Held, ArgsKept, EntryKept
  <1>2. ASSUME NEW p \in Platforms, HostChange(p)
        PROVE  Held'
    BY <1>2 DEF HostChange, control, Held, ArgsKept, EntryKept
  <1> QED
    BY <1>1, <1>2, CallHeld, ThreadHeld, CallbackHeld DEF Next

LEMMA InitHeld == Init => Held
  BY DEF Init, Held, ArgsKept, EntryKept, Serving, Running, Listing, InCallback

LEMMA HeldTypeOK == Inv /\ TypeInv /\ Held /\ OwnEvents => TypeOK
  <1> SUFFICES ASSUME Inv, TypeInv, Held, OwnEvents
               PROVE  TypeOK
    OBVIOUS
  <1>1. ASSUME NEW p \in Platforms
        PROVE  /\ slot[p].id \in Threads \cup {None} /\ slot[p].active \in Int
               /\ slot[p].args \in {"null", "live", "freed"}
               /\ \A i \in DOMAIN slot[p].list :
                     slot[p].list[i] \in [dom : Domains, xml : BOOLEAN]
    <2>1. slot \in Slots(Lists)
      BY DEF TypeInv, Types
    <2>2. slot[p].list \in [1 .. Len(slot[p].list) -> Guest]
      BY SlotList, ListFacts DEF TypeInv
    <2>3. \A i \in DOMAIN slot[p].list :
             slot[p].list[i] \in [dom : Domains, xml : BOOLEAN]
      BY <2>2 DEF Guest
    <2> QED
      BY <2>1, <2>3 DEF Slots
  <1>2. ASSUME NEW p \in Platforms
        PROVE  /\ subs[p] \in 0 .. MaxSubs
               /\ missed[p] \subseteq Domains
               /\ \A i \in DOMAIN queue[p].events :
                     queue[p].events[i] \in [dom : Domains, kind : Kinds]
    <2> DEFINE E == queue[p].events
    <2>1. E \in Seq(Event)
      BY DEF TypeInv, Types
    <2> HIDE DEF E
    <2>2. \A i \in DOMAIN E : E[i] \in [dom : Domains, kind : Kinds]
      BY <2>1, LenProperties DEF Event
    <2> QED
      BY <2>2 DEF E, TypeInv, Types
  <1>3. ASSUME NEW t \in Threads
        PROVE  /\ pc[t] \in Running \cup {"none", "dead"}
               /\ mutex = t <=> pc[t] \in Listing
               /\ pc[t] \in InCallback =>
                     /\ cb[t].kind \in Kinds
                     /\ slot[cb[t].of].args = "live"
                     /\ cb[t].at <= Len(slot[cb[t].of].list)
    <2>1. pc[t] \in InCallback => cb[t].of = plat[t] /\ pc[t] \in Serving
      BY NoneAssumption
         DEF OwnEvents, TypeInv, CallbackAt, Serving, Running, InCallback
    <2> QED
      BY <2>1 DEF Inv, Placed, States, TypeInv, MutexKept, CallbackAt, Held,
                  ArgsKept, EntryKept
  <1>4. /\ enabled \in BOOLEAN /\ mutex \in Threads \cup {None}
        /\ host \in [Platforms -> [Domains -> HostStates]]
        /\ room \in [off : Nat, on : Nat]
    BY DEF TypeInv, Types, Rooms
  <1> QED
    BY <1>1, <1>2, <1>3, <1>4 DEF TypeOK

\* A thread that only handles the events of its own platform finds the
\* arguments and the entry it left when it gave the mutex up: nothing that
\* another thread, a client or libvirt does in between takes them away
\* (csi_domain_event_cb, csi_free_thread_data).
LEMMA TypesUnderOwnEvents == Spec /\ []OwnEvents => []TypeOK
  <1> DEFINE I == Inv /\ TypeInv /\ Held
  <1>1. Init => I
    BY InitInv, InitTypes, InitHeld
  <1>2. I /\ OwnEvents /\ [Next]_vars => I'
    BY NextInv, NextTypes, NextHeld
  <1>3. I /\ OwnEvents => TypeOK
    BY HeldTypeOK
  <1> HIDE DEF I
  <1> QED
    BY <1>1, <1>2, <1>3, PTL DEF Spec

\* With one platform there are no events of another.
LEMMA OnePlatform ==
  ASSUME NEW q, Platforms = {q}
  PROVE  Inv /\ TypeInv => OwnEvents
  <1> SUFFICES ASSUME Inv, TypeInv, NEW t \in Threads
               PROVE  cb[t].of \in {None, plat[t]}
    BY DEF OwnEvents
  <1>1. CASE pc[t] \in InCallback
    BY <1>1 DEF Inv, Placed, Owning, Running, InCallback, TypeInv, CallbackAt
  <1>2. CASE pc[t] \notin InCallback
    BY <1>2 DEF TypeInv, CallbackAt, NoCallback
  <1> QED
    BY <1>1, <1>2

\* So with one platform the types hold, for every number of threads, clients
\* and guests.
THEOREM TypesCorrect ==
  ASSUME NEW q, Platforms = {q}
  PROVE  Spec => []TypeOK
  <1>1. Inv /\ TypeInv => OwnEvents
    BY OnePlatform
  <1> QED
    BY <1>1, TypeInvariant, TypesUnderOwnEvents, PTL

-----------------------------------------------------------------------------
(***************************************************************************)
(* What the provider knows of a guest that is defined, from the            *)
(* registration on.  E are the events that wait, c is where the thread is, *)
(* k its callback, h the guest, L the list, m what could not be followed   *)
(* and s what was last said of the guest.                                  *)
(***************************************************************************)
Registered == Listing \cup InCallback \cup {"check", "run"}
Added(d) == [dom |-> d, kind |-> "added"]
Undefined(d) == [dom |-> d, kind |-> "undefined"]
Among(e, E) == \E i \in DOMAIN E : E[i] = e

\* Who is defined now was defined again after each time it was undefined.
AddedAfter(E, d) == \A i \in DOMAIN E :
    E[i] = Undefined(d) => \E j \in DOMAIN E : i < j /\ E[j] = Added(d)
Handles(c, k, kind, d, S) == c \in S /\ k.kind = kind /\ k.dom = d

Knows(d, E, c, k, h, L, m, s) ==
    Persistent(h) /\ d \notin m =>
        /\ AddedAfter(E, d)
        /\ Handles(c, k, "undefined", d, {"find", "send"}) => Among(Added(d), E)
        /\ \/ Has(L, d) \/ Among(Added(d), E)
           \/ Handles(c, k, "added", d, InCallback)
           \/ c \in {"count", "listInactive"}
           \/ c = "listActive" /\ h = "on"
        /\ s = "deleted" =>
              Among(Added(d), E) \/ Handles(c, k, "added", d, {"find", "send"})
KnowsAll(t, p) == \A d \in Domains :
    Knows(d, queue[p].events, pc[t], cb[t], host[p][d], slot[p].list, missed[p],
          told[p][d])
Follows(t) == pc[t] \in Registered => queue[plat[t]].on /\ KnowsAll(t, plat[t])

Events == Seq(Event)

LEMMA EventFacts ==
  ASSUME NEW E \in Events
  PROVE  Len(E) \in Nat /\ DOMAIN E = 1 .. Len(E) /\ \A i \in DOMAIN E : E[i] \in Event
  BY LenProperties DEF Events

\* A further event hides none that waits.
LEMMA AppendEvent ==
  ASSUME NEW E \in Events, NEW e \in Event
  PROVE  /\ Append(E, e) \in Events
         /\ Among(e, Append(E, e))
         /\ \A f : Among(f, E) => Among(f, Append(E, e))
         /\ \A d : e = Added(d) => AddedAfter(Append(E, e), d)
         /\ \A d : AddedAfter(E, d) /\ e # Undefined(d) => AddedAfter(Append(E, e), d)
  <1> DEFINE F == Append(E, e)
  <1>1. /\ F \in Events
        /\ Len(F) = Len(E) + 1
        /\ \A i \in 1 .. Len(E) : F[i] = E[i]
        /\ F[Len(E) + 1] = e
    BY AppendProperties DEF Events
  <1> HIDE DEF F
  <1>2. /\ DOMAIN E = 1 .. Len(E) /\ Len(E) \in Nat
        /\ DOMAIN F = 1 .. Len(E) + 1
    BY <1>1, EventFacts
  <1>3. Len(E) + 1 \in DOMAIN F /\ \A i \in DOMAIN E : i \in DOMAIN F
    BY <1>2
  <1>4. Among(e, F) /\ \A f : Among(f, E) => Among(f, F)
    BY <1>1, <1>2, <1>3 DEF Among
  <1>5. \A i \in DOMAIN F : i = Len(E) + 1 \/ (i \in DOMAIN E /\ i < Len(E) + 1)
    BY <1>2
  <1>6. \A d : Added(d) # Undefined(d)
    BY DEF Added, Undefined
  <1>7. ASSUME NEW d, e = Added(d)
        PROVE  AddedAfter(F, d)
    BY <1>1, <1>3, <1>5, <1>6, <1>7 DEF AddedAfter
  <1>8. ASSUME NEW d, AddedAfter(E, d), e # Undefined(d)
        PROVE  AddedAfter(F, d)
    BY <1>1, <1>2, <1>3, <1>5, <1>8 DEF AddedAfter
  <1>9. /\ F \in Events /\ Among(e, F)
        /\ \A f : Among(f, E) => Among(f, F)
        /\ \A d : e = Added(d) => AddedAfter(F, d)
        /\ \A d : AddedAfter(E, d) /\ e # Undefined(d) => AddedAfter(F, d)
    BY <1>1, <1>4, <1>7, <1>8
  <1> QED
    BY <1>9 DEF F

\* The first event is taken; what came after it waits on.
LEMMA TailEvents ==
  ASSUME NEW E \in Events, E # <<>>
  PROVE  /\ Head(E) \in Event
         /\ \A f : Among(f, E) /\ Head(E) # f => Among(f, Tail(E))
         /\ \A d : AddedAfter(E, d) => AddedAfter(Tail(E), d)
         /\ \A d : AddedAfter(E, d) /\ Head(E) = Undefined(d) =>
                      Among(Added(d), Tail(E))
  <1> DEFINE T == Tail(E)
             e == Head(E)
  <1>1. /\ T \in Events /\ e \in Event
        /\ Len(E) \in Nat /\ Len(T) = Len(E) - 1
        /\ \A i \in 1 .. Len(T) : T[i] = E[i + 1]
        /\ e = E[1]
    BY HeadTailProperties, LenProperties DEF Events
  <1> HIDE DEF T, e
  <1>2. DOMAIN E = 1 .. Len(E) /\ DOMAIN T = 1 .. Len(E) - 1 /\ Len(T) \in Nat
    BY <1>1, EventFacts
  <1>3. ASSUME NEW i \in DOMAIN E, i # 1
        PROVE  i - 1 \in DOMAIN T /\ T[i - 1] = E[i]
    <2>1. i - 1 \in 1 .. Len(T) /\ (i - 1) + 1 = i
      BY <1>1, <1>2, <1>3
    <2> QED
      BY <1>1, <1>2, <2>1
  <1>4. \A f : Among(f, E) /\ e # f => Among(f, T)
    BY <1>1, <1>3 DEF Among
  <1>5. ASSUME NEW d, AddedAfter(E, d)
        PROVE  AddedAfter(T, d)
    <2> SUFFICES ASSUME NEW i \in DOMAIN T, T[i] = Undefined(d)
                 PROVE  \E j \in DOMAIN T : i < j /\ T[j] = Added(d)
      BY DEF AddedAfter
    <2>1. i \in Nat /\ i + 1 \in DOMAIN E /\ E[i + 1] = Undefined(d)
      BY <1>1, <1>2
    <2>2. PICK j \in DOMAIN E : i + 1 < j /\ E[j] = Added(d)
      BY <1>5, <2>1 DEF AddedAfter
    <2>3. j # 1 /\ i < j - 1
      BY <1>2, <2>1, <2>2
    <2> QED
      BY <1>3, <2>2, <2>3
  <1>6. ASSUME NEW d, AddedAfter(E, d), e = Undefined(d)
        PROVE  Among(Added(d), T)
    <2>1. CASE 1 \in DOMAIN E
      <3>1. PICK j \in DOMAIN E : 1 < j /\ E[j] = Added(d)
        BY <1>1, <1>6, <2>1 DEF AddedAfter
      <3>2. j # 1
        BY <1>2, <3>1
      <3> QED
        BY <1>3, <3>1, <3>2 DEF Among
    <2>2. 1 \in DOMAIN E
      BY <1>1, <1>2
    <2> QED
      BY <2>1, <2>2
  <1> QED
    BY <1>1, <1>4, <1>5, <1>6 DEF T, e

\* An event comes: of another guest, or of this one, whose state it is about.
LEMMA OtherComes ==
  ASSUME NEW d, NEW E \in Events, NEW c, NEW k, NEW h, NEW L, NEW m, NEW s,
         NEW n, m \subseteq n, NEW e \in Event, e.dom # d,
         Knows(d, E, c, k, h, L, m, s)
  PROVE  Knows(d, Append(E, e), c, k, h, L, n, s)
  <1>1. e # Undefined(d)
    BY DEF Undefined
  <1> QED
    BY <1>1, AppendEvent DEF Knows

LEMMA OwnComes ==
  ASSUME NEW d \in Domains, NEW E \in Events, NEW c, NEW k, NEW h, NEW L, NEW m,
         NEW s, NEW n, m \subseteq n, NEW g, NEW x, <<h, g, x>> \in Steps,
         c = "listActive" /\ h = "on" /\ g = "off" => d \in n,
         Knows(d, E, c, k, h, L, m, s)
  PROVE  Knows(d, Append(E, [dom |-> d, kind |-> x]), c, k, g, L, n, s)
  <1> DEFINE e == [dom |-> d, kind |-> x]
  <1>1. e \in Event
    BY DEF Steps, Event, Kinds
  <1>2. CASE x = "added"
    <2>1. e = Added(d)
      BY <1>2 DEF Added
    <2>2. AddedAfter(Append(E, e), d) /\ Among(Added(d), Append(E, e))
      BY <1>1, <2>1, AppendEvent
    <2> QED
      BY <2>2 DEF Knows
  <1>3. CASE x # "added" /\ Persistent(g)
    <2>1. Persistent(h) /\ x # "undefined"
          /\ (c = "listActive" /\ h = "on" => g = "on" \/ d \in n)
      BY <1>3 DEF Steps, Persistent
    <2>2. e # Undefined(d)
      BY <2>1 DEF Undefined
    <2> HIDE DEF e
    <2>3. Knows(d, Append(E, e), c, k, g, L, n, s)
      BY <1>1, <2>1, <2>2, AppendEvent DEF Knows
    <2> QED
      BY <2>3 DEF e
  <1>4. CASE ~Persistent(g)
    BY <1>4 DEF Knows
  <1> QED
    BY <1>2, <1>3, <1>4

\* The first event is dropped, or becomes the callback of the thread.
LEMMA EventDropped ==
  ASSUME NEW d, NEW E \in Events, E # <<>>, NEW c, NEW k, NEW h, NEW L, NEW m,
         NEW s, Knows(d, E, c, k, h, L, m, s)
  PROVE  Knows(d, Tail(E), c, k, h, L, m \cup {Head(E).dom}, s)
  <1>1. CASE Head(E) # Added(d)
    BY <1>1, TailEvents DEF Knows
  <1>2. CASE Head(E) = Added(d)
    BY <1>2 DEF Added, Knows
  <1> QED
    BY <1>1, <1>2

LEMMA EventTaken ==
  ASSUME NEW d, NEW E \in Events, E # <<>>, NEW k, NEW h, NEW L, NEW m, NEW s,
         Knows(d, E, "run", k, h, L, m, s),
         NEW j, j.kind = Head(E).kind, j.dom = Head(E).dom
  PROVE  Knows(d, Tail(E), "find", j, h, L, m, s)
  <1>1. Head(E) \in [dom : Domains, kind : Kinds]
    BY TailEvents DEF Event
  <1>2. Head(E) = Added(d) <=> j.dom = d /\ j.kind = "added"
    BY <1>1 DEF Added
  <1>3. Head(E) = Undefined(d) <=> j.dom = d /\ j.kind = "undefined"
    BY <1>1 DEF Undefined
  <1>4. CASE Head(E) = Added(d)
    BY <1>2, <1>4, TailEvents DEF Knows, Handles, InCallback
  <1>5. CASE Head(E) # Added(d)
    BY <1>3, <1>5, TailEvents DEF Knows, Handles, InCallback
  <1> QED
    BY <1>4, <1>5

LEMMA Registering ==
  ASSUME NEW d, NEW k, NEW h, NEW L, NEW m
  PROVE  Knows(d, <<>>, "count", k, h, L, m, "none")
  BY DEF Knows, AddedAfter, Handles

\* A listing: the counts, the two calls, or its end where one fails.
LEMMA Counted ==
  ASSUME NEW d, NEW E, NEW k, NEW h, NEW L, NEW m, NEW s,
         Knows(d, E, "count", k, h, L, m, s)
  PROVE  Knows(d, E, "listInactive", k, h, L, m, s)
  BY DEF Knows, Handles, InCallback

LEMMA FirstListing ==
  ASSUME NEW d, NEW E, NEW k, NEW h, NEW L, NEW m, NEW s,
         Knows(d, E, "listInactive", k, h, L, m, s),
         NEW n, m \subseteq n, NEW M, h = "off" => Has(M, d) \/ d \in n
  PROVE  Knows(d, E, "listActive", k, h, M, n, s)
  BY DEF Knows, Handles, Persistent, InCallback

LEMMA SecondListing ==
  ASSUME NEW d, NEW E, NEW k, NEW h, NEW L, NEW m, NEW s,
         Knows(d, E, "listActive", k, h, L, m, s),
         NEW n, m \subseteq n, NEW M, Has(L, d) => Has(M, d),
         h = "on" => Has(M, d) \/ d \in n
  PROVE  Knows(d, E, "describe", k, h, M, n, s)
  BY DEF Knows, Handles, Persistent, InCallback

LEMMA ListingEnds ==
  ASSUME NEW d, NEW E, NEW c \in {"count", "listInactive", "listActive"}, NEW k, NEW h,
         NEW L, NEW m, NEW s, Knows(d, E, c, k, h, L, m, s),
         NEW n, m \subseteq n, Persistent(h) => Has(L, d) \/ d \in n
  PROVE  Knows(d, E, "describe", k, h, L, n, s)
  BY DEF Knows, Handles, InCallback

LEMMA BetweenEvents ==
  ASSUME NEW d, NEW E, NEW k, NEW h, NEW L, NEW m, NEW s,
         NEW a \in {"describe", "check", "run"}, NEW b \in {"check", "run"},
         Knows(d, E, a, k, h, L, m, s)
  PROVE  Knows(d, E, b, k, h, L, m, s)
  BY DEF Knows, Handles, InCallback

\* The callback looks the guest up, tells, and replaces the list.
LEMMA Looked ==
  ASSUME NEW d, NEW E, NEW k, NEW h, NEW L, NEW m, NEW s,
         Knows(d, E, "find", k, h, L, m, s), NEW j,
         k.kind # "added" \/ (j.kind = k.kind /\ j.dom = k.dom)
  PROVE  /\ k.kind # "added" => Knows(d, E, "run", j, h, L, m, s)
         /\ j.kind = k.kind /\ j.dom = k.dom => Knows(d, E, "send", j, h, L, m, s)
  BY DEF Knows, Handles, InCallback

LEMMA NotDescribed ==
  ASSUME NEW d, NEW E, NEW k, NEW h, NEW L, NEW m, NEW s,
         Knows(d, E, "find", k, h, L, m, s), NEW j
  PROVE  Knows(d, E, "run", j, h, L, m \cup {k.dom}, s)
  BY DEF Knows, Handles, InCallback

LEMMA Sent ==
  ASSUME NEW d, NEW E, NEW k, NEW h, NEW L, NEW m, NEW s,
         Knows(d, E, "send", k, h, L, m, s), NEW r,
         IF d = k.dom THEN r = "deleted" => k.kind = "undefined" ELSE r = s
  PROVE  Knows(d, E, "update", k, h, L, m, r)
  BY DEF Knows, Handles, InCallback

LEMMA Updated ==
  ASSUME NEW d, NEW E, NEW k, NEW h, NEW L, NEW m, NEW s,
         Knows(d, E, "update", k, h, L, m, s), NEW j, NEW M,
         Has(L, d) => Has(M, d), k.kind = "added" => Has(M, k.dom)
  PROVE  Knows(d, E, "run", j, h, M, m, s)
  BY DEF Knows, Handles, InCallback

\* A step that does not concern a thread and its platform.
Untouched(t) ==
    LET p == plat[t] IN
    /\ pc'[t] = pc[t] /\ plat'[t] = p /\ cb'[t] = cb[t]
    /\ queue'[p] = queue[p] /\ host'[p] = host[p] /\ told'[p] = told[p]
    /\ missed'[p] = missed[p]
    /\ \A d \in Domains : Has(slot[p].list, d) => Has(slot'[p].list, d)

LEMMA UntouchedFollows ==
  ASSUME NEW t, Follows(t), Untouched(t)
  PROVE  Follows(t)'
  BY DEF Follows, KnowsAll, Untouched, Knows

\* A thread that is at work runs for a platform.
LEMMA AtWork ==
  ASSUME Inv, NEW t \in Threads, pc[t] \in Registered
  PROVE  pc[t] \in Running /\ plat[t] \in Platforms
  BY DEF Inv, Placed, Registered, Running, Owning

LEMMA CallFollows ==
  ASSUME Inv, TypeInv, Calls, NEW t \in Threads, Follows(t)
  PROVE  Follows(t)'
  <1>1. /\ UNCHANGED <<cb, host, queue, missed, told>>
        /\ \/ UNCHANGED <<pc, plat>>
           \/ \E u \in Threads, p \in Platforms :
                 /\ pc[u] = "none" /\ pc' = [pc EXCEPT ![u] = "start"]
                 /\ plat' = [plat EXCEPT ![u] = p]
    BY DEF Calls, SetEnabled, ActivateFilter, DeActivateFilter, JoinRunning,
           StartThread, ThreadRefused, world, hist
  <1>2. \A p \in Platforms : slot'[p].list = slot[p].list
    <2>1. slot \in Slots(Lists)
      BY DEF TypeInv, Types
    <2>2. ASSUME NEW p \in Platforms, JoinRunning(p) \/ DeActivateFilter(p)
          PROVE  \A r \in Platforms : slot'[r].list = slot[r].list
      BY <2>1, <2>2 DEF JoinRunning, DeActivateFilter, Slots
    <2>3. ASSUME NEW p \in Platforms, StartThread(p)
          PROVE  \A r \in Platforms : slot'[r].list = slot[r].list
      BY <2>1, <2>3 DEF StartThread, Slots
    <2>4. ASSUME NEW p \in Platforms, ThreadRefused(p)
          PROVE  \A r \in Platforms : slot'[r].list = slot[r].list
      BY <2>1, <2>4 DEF ThreadRefused, Slots
    <2> QED
      BY <2>2, <2>3, <2>4 DEF Calls, SetEnabled, ActivateFilter
  <1>3. (pc'[t] = pc[t] /\ plat'[t] = plat[t]) \/ pc'[t] = "start"
    BY <1>1 DEF Inv, Placed
  <1>4. CASE pc'[t] = pc[t] /\ plat'[t] = plat[t] /\ pc[t] \in Registered
    BY <1>1, <1>2, <1>4, AtWork, UntouchedFollows DEF Untouched
  <1>5. CASE pc'[t] \notin Registered
    BY <1>5 DEF Follows
  <1> QED
    BY <1>3, <1>4, <1>5 DEF Registered, Listing, InCallback

LEMMA HostFollows ==
  ASSUME Inv, TypeInv, NEW q \in Platforms, HostChange(q), NEW t \in Threads,
         Follows(t)
  PROVE  Follows(t)'
  <1> DEFINE p == plat[t]
  <1>1. UNCHANGED <<slot, pc, plat, cb, told>>
    BY DEF HostChange, control
  <1>2. PICK d \in Domains, x \in Steps :
          /\ host[q][d] = x[1]
          /\ host' = [host EXCEPT ![q][d] = x[2]]
          /\ queue' = IF queue[q].on
                      THEN [queue EXCEPT ![q].events =
                                Append(@, [dom |-> d, kind |-> x[3]])]
                      ELSE queue
          /\ missed' = IF Slips(q, x) THEN [missed EXCEPT ![q] = @ \cup {d}]
                       ELSE missed
    BY DEF HostChange
  <1>3. /\ queue \in [Platforms -> [on : BOOLEAN, events : Seq(Event)]]
        /\ host \in [Platforms -> [Domains -> HostStates]]
        /\ missed \in [Platforms -> SUBSET Domains]
    BY DEF TypeInv, Types
  <1>4. CASE pc[t] \notin Registered
    BY <1>1, <1>4 DEF Follows
  <1>5. CASE pc[t] \in Registered /\ p # q
    BY <1>1, <1>2, <1>3, <1>5, AtWork, UntouchedFollows DEF Untouched
  <1>6. CASE pc[t] \in Registered /\ p = q
    <2> DEFINE E == queue[q].events
               e == [dom |-> d, kind |-> x[3]]
    <2>1. queue[q].on /\ KnowsAll(t, q)
      BY <1>6 DEF Follows
    <2>2. /\ queue' = [queue EXCEPT ![q].events = Append(@, e)]
          /\ E \in Events
      BY <1>2, <1>3, <2>1 DEF Events
    <2>3. e \in Event /\ e.dom = d /\ <<x[1], x[2], x[3]>> \in Steps
      BY DEF Steps, Event, Kinds
    <2>4. /\ host'[q][d] = x[2]
          /\ \A f \in Domains \ {d} : host'[q][f] = host[q][f]
      BY <1>2, <1>3
    <2>5. /\ missed[q] \subseteq missed'[q]
          /\ pc[t] = "listActive" /\ x[1] = "on" /\ x[2] = "off" => d \in missed'[q]
      <3>1. pc[t] = "listActive" /\ x[1] = "on" /\ x[2] = "off" => Slips(q, x)
        BY <1>6 DEF Slips, Steps
      <3> QED
        BY <1>2, <1>3, <3>1
    <2> HIDE DEF e
    <2>6. queue'[q].on /\ queue'[q].events = Append(E, e)
      <3> HIDE DEF E
      <3>1. queue'[q].on = queue[q].on /\ queue'[q].events = Append(queue[q].events, e)
        <4> DEFINE S == Seq(Event)
        <4>1. queue \in [Platforms -> [on : BOOLEAN, events : S]]
          BY <1>3
        <4> HIDE DEF S
        <4> QED
          BY <2>2, <4>1
      <3> QED
        BY <2>1, <3>1 DEF E
    <2>7. ASSUME NEW f \in Domains
          PROVE  Knows(f, Append(E, e), pc[t], cb[t], host'[q][f], slot[q].list,
                       missed'[q], told[q][f])
      <3>1. Knows(f, E, pc[t], cb[t], host[q][f], slot[q].list, missed[q], told[q][f])
        BY <2>1 DEF KnowsAll
      <3> HIDE DEF E
      <3>2. CASE f # d
        <4>1. Knows(f, Append(E, e), pc[t], cb[t], host[q][f], slot[q].list,
                    missed'[q], told[q][f])
          BY <2>2, <2>3, <2>5, <3>1, <3>2, OtherComes
        <4> QED
          BY <2>4, <3>2, <4>1
      <3>3. CASE f = d
        <4>1. Knows(f, Append(E, [dom |-> f, kind |-> x[3]]), pc[t], cb[t], x[2],
                    slot[q].list, missed'[q], told[q][f])
          BY <1>2, <2>2, <2>3, <2>5, <3>1, <3>3, OwnComes
        <4> QED
          BY <2>4, <3>3, <4>1 DEF e
      <3> QED
        BY <3>2, <3>3
    <2>8. KnowsAll(t, q)'
      BY <1>1, <2>6, <2>7 DEF KnowsAll
    <2> QED
      BY <1>1, <1>6, <2>6, <2>8 DEF Follows
  <1> QED
    BY <1>4, <1>5, <1>6

\* A thread only works on its own platform, but for the events of another that
\* it drops.
LEMMA OthersFollow ==
  ASSUME Inv, TypeInv, OwnEvents, OwnEvents', NEW t \in Threads, NEW u \in Threads,
         u # t, Thread(u) \/ Callback(u), Follows(t)
  PROVE  Follows(t)'
  <1> DEFINE p == plat[t]
             q == plat[u]
  <1>1. pc[u] \in Running
    BY DEF Thread, Callback, GivesUp, Register, RegisterFails, CountDomains,
           ListInactive, ListActive, ListFails, Describe, DescribeFails, Check, LeaveRun, Deregister, Out,
           Dispatch, FindEntry, NewEntry, NewEntryFails, async_ind, UpdateList,
           Goto, Running, Listing, InCallback
  <1>2. CASE pc[t] \in Registered
    <2>1. p \in Platforms /\ q \in Platforms /\ q # p
      BY <1>1, <1>2, AtWork, Alone
    <2>2. /\ slot \in Slots(Lists) /\ pc \in [Threads -> States]
          /\ cb \in [Threads -> Locals]
          /\ queue \in [Platforms -> [on : BOOLEAN, events : Seq(Event)]]
          /\ missed \in [Platforms -> SUBSET Domains]
          /\ told \in [Platforms -> [Domains -> Tellings]]
      BY DEF Inv, Placed, TypeInv, Types
    <2>3. pc[u] \in InCallback => cb[u].of = q
      BY NoneAssumption DEF OwnEvents, TypeInv, CallbackAt
    <2>4. CASE Thread(u)
      <3>1. /\ pc'[t] = pc[t] /\ plat'[t] = plat[t]
            /\ UNCHANGED <<cb, host>>
        BY <2>2, <2>4 DEF Thread, GivesUp, Register, RegisterFails, CountDomains,
           ListInactive, ListActive, ListFails, Describe, DescribeFails, Check, LeaveRun, Deregister, Out,
           Goto, world, Inv, Placed
      <3>2. queue'[p] = queue[p] /\ told'[p] = told[p] /\ missed'[p] = missed[p]
        BY <2>1, <2>2, <2>4 DEF Thread, GivesUp, Register, RegisterFails, CountDomains,
           ListInactive, ListActive, ListFails, Overlooks, Describe, DescribeFails,
           Check, LeaveRun, Deregister, Out, world, hist
      <3>3. slot'[p] = slot[p]
        BY <2>1, <2>2, <2>4 DEF Thread, GivesUp, Register, RegisterFails, CountDomains,
           ListInactive, ListActive, ListFails, Listed, Describe, DescribeFails, Check,
           LeaveRun, Deregister, Out, control, Slots
      <3> QED
        BY <3>1, <3>2, <3>3, UntouchedFollows DEF Untouched
    <2>5. ASSUME NEW r \in Platforms, Dispatch(u, r)
          PROVE  Follows(t)'
      <3> DEFINE E == queue[r].events
      <3>1. UNCHANGED <<slot, plat, host, told>>
        BY <2>5 DEF Dispatch, control
      <3>2. pc'[t] = pc[t] /\ cb'[t] = cb[t]
        BY <2>2, <2>5 DEF Dispatch
      <3>3. \A x \in Platforms \ {r} :
               queue'[x] = queue[x] /\ missed'[x] = missed[x]
        BY <2>2, <2>5 DEF Dispatch
      <3>4. CASE r # p
        BY <2>1, <3>1, <3>2, <3>3, <3>4, UntouchedFollows DEF Untouched
      <3>5. CASE r = p
        <4>1. missed' = [missed EXCEPT ![r] = @ \cup {Head(E).dom}]
          <5>1. CASE cb' = [cb EXCEPT ![u] = [of |-> r, kind |-> Head(E).kind,
                                              dom |-> Head(E).dom, at |-> 0]]
            <6>1. cb'[u].of = r
              BY <2>2, <5>1
            <6> QED
              BY <2>1, <3>1, <3>5, <6>1, NoneAssumption DEF OwnEvents
          <5> QED
            BY <2>5, <5>1 DEF Dispatch
        <4>2. E # <<>> /\ queue' = [queue EXCEPT ![r].events = Tail(E)]
              /\ E \in Events /\ queue[r].on /\ KnowsAll(t, r)
          BY <1>2, <2>2, <2>5, <3>5 DEF Dispatch, Events, Follows
        <4>3. queue'[r].on /\ queue'[r].events = Tail(E)
          <5> DEFINE S == Seq(Event)
                     T == Tail(E)
          <5>1. queue \in [Platforms -> [on : BOOLEAN, events : S]]
                /\ queue' = [queue EXCEPT ![r].events = T] /\ queue[r].on
            BY <2>2, <4>2
          <5> HIDE DEF S, T
          <5>2. queue'[r].on /\ queue'[r].events = T
            BY <5>1
          <5> QED
            BY <5>2 DEF T
        <4>4. missed'[r] = missed[r] \cup {Head(E).dom}
          BY <2>2, <4>1
        <4>5. ASSUME NEW d \in Domains
              PROVE  Knows(d, Tail(E), pc[t], cb[t], host[r][d], slot[r].list,
                           missed[r] \cup {Head(E).dom}, told[r][d])
          <5>1. Knows(d, E, pc[t], cb[t], host[r][d], slot[r].list, missed[r],
                      told[r][d])
            BY <4>2 DEF KnowsAll
          <5> HIDE DEF E
          <5> QED
            BY <4>2, <5>1, EventDropped
        <4>6. KnowsAll(t, r)'
          BY <3>1, <3>2, <4>3, <4>4, <4>5 DEF KnowsAll
        <4> QED
          BY <3>1, <3>5, <4>3, <4>6 DEF Follows
      <3> QED
        BY <3>4, <3>5
    <2>6. CASE \/ FindEntry(u) \/ NewEntry(u) \/ NewEntryFails(u) \/ async_ind(u)
               \/ UpdateList(u)
      <3>1. cb[u].of = q
        BY <2>3, <2>6 DEF FindEntry, NewEntry, NewEntryFails, async_ind, UpdateList,
           Goto, InCallback
      <3>2. /\ pc'[t] = pc[t] /\ cb'[t] = cb[t]
            /\ UNCHANGED <<plat, host, queue>>
        BY <2>2, <2>6 DEF FindEntry, NewEntry, NewEntryFails, async_ind, UpdateList,
           Goto, EndOfCallback, world
      <3>3. told'[p] = told[p] /\ missed'[p] = missed[p]
        BY <2>1, <2>2, <2>6, <3>1 DEF FindEntry, NewEntry, NewEntryFails, async_ind,
           Tell, UpdateList, Misses, hist
      <3>4. slot'[p] = slot[p]
        BY <2>1, <2>2, <2>6, <3>1 DEF FindEntry, NewEntry, NewEntryFails, async_ind,
           UpdateList, control, Slots
      <3> QED
        BY <3>2, <3>3, <3>4, UntouchedFollows DEF Untouched
    <2> QED
      BY <2>4, <2>5, <2>6 DEF Callback
  <1>3. CASE pc[t] \notin Registered
    <2>1. pc'[t] = pc[t]
      BY DEF Inv, Placed, Thread, Callback, GivesUp, Register, RegisterFails,
             CountDomains, ListInactive, ListActive, ListFails, Describe, DescribeFails, Check, LeaveRun,
             Deregister, Out, Dispatch, FindEntry, NewEntry, NewEntryFails, async_ind,
             UpdateList, Goto
    <2> QED
      BY <1>3, <2>1 DEF Follows
  <1> QED
    BY <1>2, <1>3

\* The thread's own steps.  While it lists it keeps the mutex, and the guests
\* that it lists are those that the listing should find.
LEMMA WorkFollows ==
  ASSUME Inv, TypeInv, NEW t \in Threads, Thread(t), Follows(t)
  PROVE  Follows(t)'
  <1> DEFINE p == plat[t]
  <1> USE DEF Registered, Listing, InCallback
  <1>1. /\ pc \in [Threads -> States] /\ slot \in Slots(Lists)
        /\ queue \in [Platforms -> [on : BOOLEAN, events : Seq(Event)]]
        /\ missed \in [Platforms -> SUBSET Domains]
        /\ told \in [Platforms -> [Domains -> Tellings]]
        /\ host \in [Platforms -> [Domains -> HostStates]]
    BY DEF Inv, Placed, TypeInv, Types
  <1>2. CASE Register(t)
    <2>1. /\ pc'[t] = "count" /\ UNCHANGED <<slot, plat, cb, host>>
          /\ p \in Platforms
      BY <1>1, <1>2 DEF Register, Goto, Inv, Placed, Owning, Running
    <2>2. /\ queue'[p].on /\ queue'[p].events = <<>>
          /\ missed'[p] = {} /\ \A d \in Domains : told'[p][d] = "none"
      BY <1>1, <1>2, <2>1 DEF Register
    <2>3. ASSUME NEW d \in Domains
          PROVE  Knows(d, queue'[p].events, pc'[t], cb'[t], host'[p][d],
                       slot'[p].list, missed'[p], told'[p][d])
      BY <2>1, <2>2, Registering
    <2> QED
      BY <2>1, <2>2, <2>3 DEF Follows, KnowsAll
  <1>7. CASE CountDomains(t)
    <2>1. /\ pc[t] = "count" /\ pc'[t] = "listInactive"
          /\ UNCHANGED <<slot, plat, cb, host, queue, missed, told>>
      BY <1>1, <1>7 DEF CountDomains, Goto, control, world, hist
    <2>2. queue[p].on /\ KnowsAll(t, p)
      BY <2>1 DEF Follows
    <2>3. ASSUME NEW d \in Domains
          PROVE  Knows(d, queue[p].events, "listInactive", cb[t], host[p][d],
                       slot[p].list, missed[p], told[p][d])
      BY <2>1, <2>2, Counted DEF KnowsAll
    <2> QED
      BY <2>1, <2>2, <2>3 DEF Follows, KnowsAll
  <1>3. CASE ListInactive(t)
    <2>1. /\ pc[t] = "listInactive" /\ pc'[t] = "listActive"
          /\ UNCHANGED <<plat, cb, host, queue, told>>
      BY <1>1, <1>3 DEF ListInactive, Goto
    <2>2. p \in Platforms /\ queue[p].on /\ KnowsAll(t, p)
      BY <2>1, AtWork DEF Follows
    <2>3. \A d \in In(p, {"off"}) : Has(slot'[p].list, d) \/ d \in missed'[p]
      <3>1. Names(t, In(p, {"off"}), room.off) /\ In(p, {"off"}) \in SUBSET Domains
        BY <1>3 DEF ListInactive, Names, In
      <3> QED
        BY <2>2, <3>1, NamesCalm DEF TypeInv
    <2>4. missed[p] \subseteq missed'[p]
      BY <1>1, <1>3, <2>2 DEF ListInactive, Overlooks
    <2>5. ASSUME NEW d \in Domains
          PROVE  Knows(d, queue[p].events, "listActive", cb[t], host[p][d],
                       slot'[p].list, missed'[p], told[p][d])
      <3>1. Knows(d, queue[p].events, "listInactive", cb[t], host[p][d],
                  slot[p].list, missed[p], told[p][d])
        BY <2>1, <2>2 DEF KnowsAll
      <3>2. host[p][d] = "off" => Has(slot'[p].list, d) \/ d \in missed'[p]
        BY <2>3 DEF In
      <3> QED
        BY <2>4, <3>1, <3>2, FirstListing
    <2> QED
      BY <2>1, <2>2, <2>5 DEF Follows, KnowsAll
  <1>4. CASE ListActive(t)
    <2>1. /\ pc[t] = "listActive" /\ pc'[t] = "describe"
          /\ UNCHANGED <<plat, cb, host, queue, told>>
      BY <1>1, <1>4 DEF ListActive, Goto
    <2>2. p \in Platforms /\ queue[p].on /\ KnowsAll(t, p)
      BY <2>1, AtWork DEF Follows
    <2>3. /\ Calm(p)
          /\ \A d \in In(p, {"on", "transient"}) :
                Has(slot'[p].list, d) \/ d \in missed'[p]
      <3> DEFINE S == In(p, {"on", "transient"})
      <3>1. Names(t, S, room.on) /\ S \in SUBSET Domains
        BY <1>4 DEF ListActive, Names, In
      <3> HIDE DEF S
      <3>2. Calm(p) /\ \A d \in S : Has(slot'[p].list, d) \/ d \in missed'[p]
        BY <2>2, <3>1, NamesCalm DEF TypeInv
      <3> QED
        BY <3>2 DEF S
    <2>4. missed[p] \subseteq missed'[p]
      BY <1>1, <1>4, <2>2 DEF ListActive, Overlooks
    <2>5. ASSUME NEW d \in Domains
          PROVE  Knows(d, queue[p].events, "describe", cb[t], host[p][d],
                       slot'[p].list, missed'[p], told[p][d])
      <3>1. Knows(d, queue[p].events, "listActive", cb[t], host[p][d],
                  slot[p].list, missed[p], told[p][d])
        BY <2>1, <2>2 DEF KnowsAll
      <3>2. /\ host[p][d] = "on" => Has(slot'[p].list, d) \/ d \in missed'[p]
            /\ Has(slot[p].list, d) => Has(slot'[p].list, d)
        BY <2>3 DEF In, Calm, Grows
      <3> QED
        BY <2>4, <3>1, <3>2, SecondListing
    <2> QED
      BY <2>1, <2>2, <2>5 DEF Follows, KnowsAll
  <1>8. CASE ListFails(t)
    <2>1. /\ pc[t] \in {"count", "listInactive", "listActive"} /\ pc'[t] = "describe"
          /\ UNCHANGED <<slot, plat, cb, host, queue, told>>
      BY <1>1, <1>8 DEF ListFails, Goto, control
    <2>2. p \in Platforms /\ queue[p].on /\ KnowsAll(t, p)
      BY <2>1, AtWork DEF Follows
    <2>3. missed'[p] = missed[p] \cup
             {d \in In(p, HostStates \ {"absent"}) : First(p, d) = 0}
      BY <1>1, <1>8, <2>2 DEF ListFails, Overlooks
    <2>4. ASSUME NEW d \in Domains
          PROVE  Knows(d, queue[p].events, "describe", cb[t], host[p][d],
                       slot[p].list, missed'[p], told[p][d])
      <3>1. Knows(d, queue[p].events, pc[t], cb[t], host[p][d],
                  slot[p].list, missed[p], told[p][d])
        BY <2>2 DEF KnowsAll
      <3>2. Persistent(host[p][d]) => Has(slot[p].list, d) \/ d \in missed'[p]
        BY <2>3, NoFirst DEF In, Persistent, HostStates, InList
      <3>3. missed[p] \subseteq missed'[p]
        BY <2>3
      <3> QED
        BY <2>1, <3>1, <3>2, <3>3, ListingEnds
    <2> QED
      BY <2>1, <2>2, <2>4 DEF Follows, KnowsAll
  <1>5. CASE Describe(t) \/ Check(t) \/ LeaveRun(t)
    <2>1. /\ pc[t] \in {"describe", "check", "run"}
          /\ pc'[t] \in {"check", "run", "end"}
          /\ UNCHANGED <<slot, plat, cb, host, queue, missed, told>>
      BY <1>1, <1>5 DEF Describe, Check, LeaveRun, Goto, control, world, hist
    <2>2. CASE pc'[t] \in {"check", "run"}
      <3>1. queue[p].on /\ KnowsAll(t, p)
        BY <2>1 DEF Follows
      <3>2. ASSUME NEW d \in Domains
            PROVE  Knows(d, queue[p].events, pc'[t], cb[t], host[p][d],
                         slot[p].list, missed[p], told[p][d])
        BY <2>1, <2>2, <3>1, BetweenEvents DEF KnowsAll
      <3> QED
        BY <2>1, <3>1, <3>2 DEF Follows, KnowsAll
    <2> QED
      BY <2>1, <2>2 DEF Follows
  <1>6. CASE \/ GivesUp(t) \/ RegisterFails(t) \/ DescribeFails(t) \/ Deregister(t)
             \/ Out(t)
    <2>1. pc'[t] \in {"dead", "out", "end", "none"}
      BY <1>1, <1>6 DEF GivesUp, RegisterFails, DescribeFails, Deregister, Out, Goto
    <2> QED
      BY <2>1 DEF Follows
  <1> QED
    BY <1>2, <1>3, <1>4, <1>5, <1>6, <1>7, <1>8 DEF Thread

LEMMA TakenFollows ==
  ASSUME Inv, TypeInv, OwnEvents', NEW t \in Threads, NEW p \in Platforms,
         Dispatch(t, p), Follows(t)
  PROVE  Follows(t)'
  <1> DEFINE E == queue[p].events
             r == plat[t]
             c == [of |-> p, kind |-> Head(E).kind, dom |-> Head(E).dom, at |-> 0]
  <1>1. /\ UNCHANGED <<slot, plat, host, told>> /\ pc[t] = "run" /\ E # <<>>
        /\ queue' = [queue EXCEPT ![p].events = Tail(E)]
        /\ \/ /\ pc' = [pc EXCEPT ![t] = "find"] /\ cb' = [cb EXCEPT ![t] = c]
              /\ missed' = missed
           \/ /\ missed' = [missed EXCEPT ![p] = @ \cup {Head(E).dom}]
              /\ UNCHANGED <<pc, cb>>
    BY DEF Dispatch, control
  <1>2. /\ pc \in [Threads -> States] /\ cb \in [Threads -> Locals]
        /\ missed \in [Platforms -> SUBSET Domains] /\ E \in Events
    BY DEF Inv, Placed, TypeInv, Types, Events
  <1>3. r \in Platforms /\ queue[r].on /\ KnowsAll(t, r)
    BY <1>1, AtWork DEF Follows, Registered
  <1>4. /\ queue'[p].on = queue[p].on /\ queue'[p].events = Tail(E)
        /\ \A x \in Platforms \ {p} : queue'[x] = queue[x]
    <2> DEFINE S == Seq(Event)
               T == Tail(E)
    <2>1. queue \in [Platforms -> [on : BOOLEAN, events : S]]
          /\ queue' = [queue EXCEPT ![p].events = T]
      BY <1>1 DEF TypeInv, Types
    <2> HIDE DEF S, T
    <2>2. /\ queue'[p].on = queue[p].on /\ queue'[p].events = T
          /\ \A x \in Platforms \ {p} : queue'[x] = queue[x]
      BY <2>1
    <2> QED
      BY <2>2 DEF T
  <1>5. CASE pc' = [pc EXCEPT ![t] = "find"] /\ cb' = [cb EXCEPT ![t] = c]
             /\ missed' = missed
    <2>1. pc'[t] = "find" /\ cb'[t] = c
      BY <1>2, <1>5
    <2>2. r = p
      BY <1>1, <2>1, NoneAssumption DEF OwnEvents
    <2>3. ASSUME NEW d \in Domains
          PROVE  Knows(d, Tail(E), "find", c, host[p][d], slot[p].list, missed[p],
                       told[p][d])
      <3>1. Knows(d, E, "run", cb[t], host[p][d], slot[p].list, missed[p],
                  told[p][d])
        BY <1>1, <1>3, <2>2 DEF KnowsAll
      <3>2. c.kind = Head(E).kind /\ c.dom = Head(E).dom
        OBVIOUS
      <3> HIDE DEF E, c
      <3> QED
        BY <1>1, <1>2, <3>1, <3>2, EventTaken
    <2> HIDE DEF E, c
    <2> QED
      BY <1>1, <1>3, <1>4, <1>5, <2>1, <2>2, <2>3 DEF Follows, KnowsAll
  <1>6. CASE missed' = [missed EXCEPT ![p] = @ \cup {Head(E).dom}]
             /\ UNCHANGED <<pc, cb>>
    <2>1. CASE r # p
      BY <1>1, <1>2, <1>3, <1>4, <1>6, <2>1, UntouchedFollows DEF Untouched
    <2>2. CASE r = p
      <3>1. missed'[p] = missed[p] \cup {Head(E).dom}
        BY <1>2, <1>6
      <3>2. ASSUME NEW d \in Domains
            PROVE  Knows(d, Tail(E), pc[t], cb[t], host[p][d], slot[p].list,
                         missed[p] \cup {Head(E).dom}, told[p][d])
        <4>1. Knows(d, E, pc[t], cb[t], host[p][d], slot[p].list, missed[p],
                    told[p][d])
          BY <1>3, <2>2 DEF KnowsAll
        <4> HIDE DEF E
        <4> QED
          BY <1>1, <1>2, <4>1, EventDropped
      <3> HIDE DEF E
      <3>3. queue'[p].on /\ queue'[p].events = Tail(E)
        BY <1>3, <1>4, <2>2
      <3>4. KnowsAll(t, p)'
        BY <1>1, <1>6, <3>1, <3>2, <3>3 DEF KnowsAll
      <3> QED
        BY <1>1, <2>2, <3>3, <3>4 DEF Follows
    <2> QED
      BY <2>1, <2>2
  <1> QED
    BY <1>1, <1>5, <1>6

LEMMA CallbackFollows ==
  ASSUME Inv, TypeInv, OwnEvents, OwnEvents', NEW t \in Threads, Callback(t),
         Follows(t)
  PROVE  Follows(t)'
  <1> DEFINE p == plat[t]
             k == cb[t]
  <1> USE DEF Registered, InCallback
  <1>1. /\ pc \in [Threads -> States] /\ cb \in [Threads -> Locals]
        /\ missed \in [Platforms -> SUBSET Domains]
        /\ told \in [Platforms -> [Domains -> Tellings]]
    BY DEF Inv, Placed, TypeInv, Types
  <1>2. CASE \E r \in Platforms : Dispatch(t, r)
    BY <1>2, TakenFollows
  <1>3. ASSUME pc[t] \in InCallback
        PROVE  /\ k.of = p /\ p \in Platforms /\ k.dom \in Domains
               /\ k.kind \in Kinds /\ queue[p].on
               /\ \A d \in Domains : Knows(d, queue[p].events, pc[t], k, host[p][d],
                                           slot[p].list, missed[p], told[p][d])
    BY <1>3, AtWork, NoneAssumption
       DEF OwnEvents, TypeInv, CallbackAt, Follows, KnowsAll
  <1>4. CASE FindEntry(t)
    <2> DEFINE at == First(k.of, k.dom)
    <2>1. /\ pc[t] = "find" /\ k.kind # "added"
          /\ UNCHANGED <<slot, plat, host, queue, missed, told>>
          /\ \/ Goto(t, "find", "run") /\ cb' = [cb EXCEPT ![t] = NoCallback]
             \/ Goto(t, "find", "send") /\ cb' = [cb EXCEPT ![t].at = at]
      BY <1>4 DEF FindEntry, EndOfCallback, control, hist
    <2> HIDE DEF at
    <2>2. \/ pc'[t] = "run"
          \/ pc'[t] = "send" /\ cb'[t].kind = k.kind /\ cb'[t].dom = k.dom
      BY <1>1, <2>1 DEF Goto, Locals
    <2>3. ASSUME NEW d \in Domains
          PROVE  Knows(d, queue[p].events, pc'[t], cb'[t], host[p][d], slot[p].list,
                       missed[p], told[p][d])
      <3>1. Knows(d, queue[p].events, "find", k, host[p][d], slot[p].list,
                  missed[p], told[p][d])
        BY <1>3, <2>1
      <3> HIDE DEF k
      <3> QED
        BY <2>1, <2>2, <3>1, Looked
    <2> QED
      BY <1>3, <2>1, <2>3 DEF Follows, KnowsAll
  <1>5. CASE NewEntry(t)
    <2>1. /\ pc[t] = "find" /\ pc'[t] = "send"
          /\ UNCHANGED <<slot, plat, cb, host, queue, missed, told>>
      BY <1>1, <1>5 DEF NewEntry, Goto, control, world, hist
    <2>2. ASSUME NEW d \in Domains
          PROVE  Knows(d, queue[p].events, "send", k, host[p][d], slot[p].list,
                       missed[p], told[p][d])
      <3>1. Knows(d, queue[p].events, "find", k, host[p][d], slot[p].list,
                  missed[p], told[p][d])
        BY <1>3, <2>1
      <3> HIDE DEF k
      <3> QED
        BY <3>1, Looked
    <2> QED
      BY <1>3, <2>1, <2>2 DEF Follows, KnowsAll
  <1>6. CASE NewEntryFails(t)
    <2>1. /\ pc[t] = "find" /\ pc'[t] = "run"
          /\ UNCHANGED <<slot, plat, host, queue, told>>
          /\ missed' = [missed EXCEPT ![k.of] = @ \cup {k.dom}]
      BY <1>1, <1>6 DEF NewEntryFails, Goto, Misses, control
    <2>2. missed'[p] = missed[p] \cup {k.dom}
      BY <1>1, <1>3, <2>1
    <2>3. ASSUME NEW d \in Domains
          PROVE  Knows(d, queue[p].events, "run", cb'[t], host[p][d], slot[p].list,
                       missed[p] \cup {k.dom}, told[p][d])
      <3>1. Knows(d, queue[p].events, "find", k, host[p][d], slot[p].list,
                  missed[p], told[p][d])
        BY <1>3, <2>1
      <3> HIDE DEF k
      <3> QED
        BY <3>1, NotDescribed
    <2> QED
      BY <1>3, <2>1, <2>2, <2>3 DEF Follows, KnowsAll
  <1>7. CASE async_ind(t)
    <2>1. /\ pc[t] = "send" /\ pc'[t] = "update"
          /\ UNCHANGED <<slot, plat, cb, host, queue, missed>>
          /\ \E r \in {IndicationOf[k.kind], "lost"} :
                told' = [told EXCEPT ![k.of][k.dom] = r]
      BY <1>1, <1>7 DEF async_ind, Tell, Goto, control
    <2>2. PICK r : /\ told' = [told EXCEPT ![k.of][k.dom] = r]
                   /\ r = "deleted" => k.kind = "undefined"
      <3>1. IndicationOf[k.kind] = "deleted" => k.kind = "undefined"
        BY <1>3, <2>1 DEF IndicationOf, Kinds
      <3> QED
        BY <2>1, <3>1
    <2>3. ASSUME NEW d \in Domains
          PROVE  Knows(d, queue[p].events, "update", k, host[p][d], slot[p].list,
                       missed[p], told'[p][d])
      <3>1. Knows(d, queue[p].events, "send", k, host[p][d], slot[p].list,
                  missed[p], told[p][d])
        BY <1>3, <2>1
      <3>2. told'[p][d] = IF d = k.dom THEN r ELSE told[p][d]
        BY <1>1, <1>3, <2>1, <2>2
      <3>3. IF d = k.dom THEN told'[p][d] = "deleted" => k.kind = "undefined"
                         ELSE told'[p][d] = told[p][d]
        BY <2>2, <3>2
      <3> HIDE DEF k
      <3> QED
        BY <3>1, <3>3, Sent
    <2> QED
      BY <1>3, <2>1, <2>3 DEF Follows, KnowsAll
  <1>8. CASE UpdateList(t)
    <2>1. /\ pc[t] = "update" /\ pc'[t] = "run"
          /\ UNCHANGED <<plat, host, queue, missed, told>>
      BY <1>1, <1>8 DEF UpdateList, Goto, world, hist
    <2>2. /\ Calm(p)
          /\ k.kind = "added" => Has(slot'[p].list, k.dom)
      BY <1>3, <1>8, <2>1, UpdateCalm DEF TypeInv
    <2>3. ASSUME NEW d \in Domains
          PROVE  Knows(d, queue[p].events, "run", cb'[t], host[p][d], slot'[p].list,
                       missed[p], told[p][d])
      <3>1. Knows(d, queue[p].events, "update", k, host[p][d], slot[p].list,
                  missed[p], told[p][d])
        BY <1>3, <2>1
      <3>2. Has(slot[p].list, d) => Has(slot'[p].list, d)
        BY <2>2 DEF Calm, Grows
      <3> HIDE DEF k
      <3> QED
        BY <2>2, <3>1, <3>2, Updated
    <2> QED
      BY <1>3, <2>1, <2>3 DEF Follows, KnowsAll
  <1> QED
    BY <1>2, <1>4, <1>5, <1>6, <1>7, <1>8 DEF Callback

AllFollow == \A t \in Threads : Follows(t)

LEMMA InitFollows == Init => AllFollow
  BY DEF Init, AllFollow, Follows, Registered, Listing, InCallback

LEMMA NextFollows ==
  Inv /\ TypeInv /\ OwnEvents /\ OwnEvents' /\ AllFollow /\ [Next]_vars => AllFollow'
  <1> SUFFICES ASSUME Inv, TypeInv, OwnEvents, OwnEvents', AllFollow, [Next]_vars,
                      NEW t \in Threads
               PROVE  Follows(t)'
    BY DEF AllFollow
  <1>1. Follows(t)
    BY DEF AllFollow
  <1>2. CASE UNCHANGED vars
    BY <1>1, <1>2, UntouchedFollows DEF vars, Untouched
  <1>3. CASE Calls
    BY <1>1, <1>3, CallFollows
  <1>4. CASE \E q \in Platforms : HostChange(q)
    BY <1>1, <1>4, HostFollows
  <1>5. ASSUME NEW u \in Threads, Thread(u) \/ Callback(u)
        PROVE  Follows(t)'
    <2>1. CASE u # t
      BY <1>1, <1>5, <2>1, OthersFollow
    <2>2. CASE u = t
      BY <1>1, <1>5, <2>2, WorkFollows, CallbackFollows
    <2> QED
      BY <2>1, <2>2
  <1> QED
    BY <1>2, <1>3, <1>4, <1>5 DEF Next

LEMMA FollowedKnown == Inv /\ TypeInv /\ AllFollow => KnownGuests
  <1> SUFFICES ASSUME Inv, TypeInv, AllFollow,
                      NEW t \in Threads, pc[t] \in {"check", "run"},
                      NEW d \in Domains \ missed[plat[t]],
                      Persistent(host[plat[t]][d]), ~Waiting(plat[t], d)
               PROVE  First(plat[t], d) # 0 /\ told[plat[t]][d] # "deleted"
    BY DEF KnownGuests
  <1> DEFINE p == plat[t]
             E == queue[p].events
  <1>1. p \in Platforms
    BY AtWork DEF Registered
  <1>2. Knows(d, E, pc[t], cb[t], host[p][d], slot[p].list, missed[p], told[p][d])
    BY DEF AllFollow, Follows, KnowsAll, Registered
  <1>3. ~Among(Added(d), E)
    BY DEF Among, Added, Waiting
  <1>4. Has(slot[p].list, d) /\ told[p][d] # "deleted"
    BY <1>2, <1>3 DEF Knows, Handles, InCallback
  <1> QED
    BY <1>1, <1>4, FirstType DEF InList, TypeInv

\* Where a thread only handles the events of its own platform, a defined guest
\* that no event is waiting for, and that is not among the missed, is in the list,
\* and the last indication about it was not a Deleted one (update_domain_list, csi_domain_event_cb).
LEMMA KnownUnderOwnEvents == Spec /\ []OwnEvents => []KnownGuests
  <1> DEFINE I == Inv /\ TypeInv /\ AllFollow
  <1>1. Init => I
    BY InitInv, InitTypes, InitFollows
  <1>2. I /\ OwnEvents /\ OwnEvents' /\ [Next]_vars => I'
    BY NextInv, NextTypes, NextFollows
  <1>3. I => KnownGuests
    BY FollowedKnown
  <1> HIDE DEF I
  <1> QED
    BY <1>1, <1>2, <1>3, PTL DEF Spec

\* So with one platform: a defined guest that was not overlooked, and of which
\* no event was dropped, is in the list however the calls of the listing, the
\* callback's and the deliveries fail, and the last indication about it was not
\* a Deleted one.
THEOREM GuestsKnown ==
  ASSUME NEW q, Platforms = {q}
  PROVE  Spec => []KnownGuests
  <1>1. Inv /\ TypeInv => OwnEvents
    BY OnePlatform
  <1> QED
    BY <1>1, TypeInvariant, KnownUnderOwnEvents, PTL
====
