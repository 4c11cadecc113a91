------------------------- MODULE Management_proofs -------------------------
(***************************************************************************)
(* Theorems about Management, for every set of requests, uuids and         *)
(* devices, every batch and every bound.                                   *)
(***************************************************************************)
EXTENDS Management, TLAPS

(***************************************************************************)
(* Types, part by part.                                                    *)
(***************************************************************************)
Setting == [Devices -> Settings]
Guest == [uuid : Uuids \cup {None}, def : BOOLEAN, run : {"off", "on", "paused"},
          stored : Setting, live : Setting]
Request == [pc : PCs, op : Ops, items : Batches \cup {<<>>}, next : 1 .. MaxBatch + 1,
            uuid : Uuids \cup {None}, copy : [Devices -> Settings \cup {"twice"}],
            ok : BOOLEAN]
Unchecked == {"record", "kill", "lookup"}
History == [alone : BOOLEAN, run : {"off", "on", "paused"}, current : Setting, live : Setting,
            ignored : SUBSET Unchecked]

GuestOK(g) ==
    /\ g \in Guest
    /\ g.uuid # None <=> g.def \/ g.run # "off"
    /\ g.run = "off" => g.live = Nothing
    /\ ~g.def => g.stored = Nothing

CurrentOf(g) == IF g.def THEN g.stored ELSE g.live

(***************************************************************************)
(* What the position of a request says of what it was asked for.           *)
(***************************************************************************)
Destroying == {"find", "forget", "kill", "again", "undefine"}
OfChange == {"refs", "previous", "device", "info", "online", "live"}

Placed(r) ==
    /\ r.pc \in OfChange => r.op \in Changes
    /\ r.pc = "read" => r.op \in Changes \cup {"system"}
    /\ r.pc \in {"define", "result"} => r.op \in Changes \cup {"system", "define"}
    /\ r.pc \in {"check", "settle", "enumerate"} => r.op = "define"
    /\ r.pc \in Destroying => r.op = "destroy"
    /\ r.pc = "idle" => r.op = "none"
    /\ r.op = "system" => r.items = <<>>
    /\ r.op \in Changes =>
          /\ r.items \in Batches
          /\ r.pc # "return" => r.next <= Len(r.items)
          /\ r.pc = "return" /\ ~r.ok => r.next <= Len(r.items)
    /\ r.op \notin Changes => r.next = 1
    /\ r.pc \in {"check", "previous", "device", "info", "online", "live", "define"} =>
          r.uuid # None
    /\ r.copy["proc"] # "twice"
    /\ ~r.ok => r.pc = "return"

(***************************************************************************)
(* What it says of the guest, if nobody else changed it: a change has been *)
(* applied to the resources before the next one and to no other; the copy  *)
(* is the definition, and from ChangeCopy on with the next resource        *)
(* changed.                                                                *)
(***************************************************************************)
TheItem(r) == r.items[r.next]
Reached(r) == {r.items[i] : i \in 1 .. (r.next - 1)}
Wanted(op) == NewSetting(op, "absent")

Applied(op, b, g, done, except) ==
    \A d \in Devices \ (except \cup {"proc"}) :
        IF d \in done
        THEN /\ CurrentOf(g)[d] = Wanted(op)
             /\ b.run = "on" /\ d \notin Cold => g.live[d] = Wanted(op)
        ELSE CurrentOf(g)[d] = b.current[d] /\ g.live[d] = b.live[d]

Copied(r, g, except) ==
    \A d \in Devices \ (except \cup {"proc"}) : r.copy[d] = CurrentOf(g)[d]

Progress(r, b, g) ==
    LET Kept(done, except) == Applied(r.op, b, g, done, except)
        d == TheItem(r)
    IN  /\ g.run = b.run
        /\ r.pc \in OfChange \cup {"read"} => Kept(Reached(r), {})
        /\ r.pc \in {"previous", "device"} => Copied(r, g, {})
        /\ r.pc \in {"info", "online", "live"} =>
              /\ d \notin Cold
              /\ Copied(r, g, {d})
              /\ d # "proc" => r.copy[d] \in {Wanted(r.op), "twice"}
        /\ r.pc = "define" /\ r.op = "system" => Kept({}, {}) /\ Copied(r, g, {})
        /\ r.pc = "define" /\ r.op \in Changes =>
              /\ Kept(Reached(r), {d})
              /\ Copied(r, g, {d})
              /\ d # "proc" => r.copy[d] \in {Wanted(r.op), "twice"}
              /\ d # "proc" /\ b.run = "on" /\ d \notin Cold => g.live[d] = Wanted(r.op)
        /\ r.pc = "result" =>
              Kept(IF r.op = "system" THEN {} ELSE Reached(r) \cup {d}, {})
        /\ r.pc = "return" =>
              Kept(Reached(r), IF r.ok \/ r.op = "system" THEN {} ELSE {d})

\* What it says of a guest that is destroyed, if nobody else changed it.
Gone(r, b, g, rec) ==
    /\ r.pc \in {"kill", "again", "undefine"} /\ "record" \notin b.ignored => ~rec
    /\ r.pc \in {"again", "undefine"} /\ "kill" \notin b.ignored => g.run = "off"
    /\ r.pc = "return" /\ r.ok =>
          /\ "record" \notin b.ignored => ~rec
          /\ "lookup" \notin b.ignored => ~g.def
          /\ b.ignored \cap {"lookup", "kill"} = {} => g.uuid = None

Good(r, b, g, rec) ==
    /\ Placed(r)
    /\ b.alone /\ r.op \in Changes \cup {"system"} => Progress(r, b, g)
    /\ b.alone /\ r.op = "destroy" => Gone(r, b, g, rec)

Inv ==
    /\ GuestOK(guest) /\ recorded \in BOOLEAN /\ ops \in 0 .. MaxOps
    /\ call \in [Calls -> Request] /\ begun \in [Calls -> History]
    /\ \A c \in Calls : Good(call[c], begun[c], guest, recorded)

LEMMA NothingTyped == Nothing \in Setting /\ Nothing["proc"] = "absent"
  BY DEF Nothing, Setting, Settings, Devices

LEMMA UnseenTyped == Unseen \in History /\ ~Unseen.alone
  BY NothingTyped DEF Unseen, History

LEMMA NoGuestOK == GuestOK(NoGuest) /\ NoGuest.uuid = None
  <1>1. NoGuest \in Guest
    BY NothingTyped DEF NoGuest, Guest
  <1>2. NoGuest.uuid = None /\ ~NoGuest.def /\ NoGuest.run = "off"
        /\ NoGuest.live = Nothing /\ NoGuest.stored = Nothing
    BY DEF NoGuest
  <1> QED
    BY <1>1, <1>2 DEF GuestOK

LEMMA NoCallTyped ==
  /\ NoCall \in Request /\ NoCall.pc = "idle" /\ NoCall.op = "none" /\ NoCall.items = <<>>
  /\ NoCall.next = 1 /\ NoCall.uuid = None /\ NoCall.ok /\ NoCall.copy = Nothing
  <1>1. 1 \in 1 .. MaxBatch + 1
    BY BoundsAssumption
  <1>2. Nothing \in [Devices -> Settings \cup {"twice"}]
    BY NothingTyped DEF Setting
  <1> QED
    BY <1>1, <1>2 DEF NoCall, Request, PCs, Ops

LEMMA NoCallGood == ASSUME NEW b, NEW g, NEW rec PROVE Good(NoCall, b, g, rec)
  BY NoCallTyped, NothingTyped DEF Good, Placed, OfChange, Destroying, Changes

LEMMA FreshTyped == ASSUME NEW S PROVE Fresh(S) \in Setting /\ Fresh(S)["proc"] = "new"
  BY DEF Fresh, Setting, Settings, Devices

LEMMA InitInv == Init => Inv
  <1> SUFFICES ASSUME Init PROVE Inv
    OBVIOUS
  <1>1. GuestOK(guest)
    <2>1. CASE guest = NoGuest
      BY <2>1, NoGuestOK
    <2>2. ASSUME NEW u \in Uuids, NEW S \in SUBSET Devices, NEW run \in {"off", "on", "paused"},
                 NEW def \in BOOLEAN, def \/ run # "off",
                 guest = [uuid |-> u, def |-> def, run |-> run,
                          stored |-> IF def THEN Fresh(S) ELSE Nothing,
                          live |-> IF run = "off" THEN Nothing ELSE Fresh(S)]
          PROVE  GuestOK(guest)
      <3>1. /\ (IF def THEN Fresh(S) ELSE Nothing) \in Setting
            /\ (IF run = "off" THEN Nothing ELSE Fresh(S)) \in Setting
        BY FreshTyped, NothingTyped
      <3>2. guest \in Guest
        BY <2>2, <3>1 DEF Guest
      <3>3. /\ guest.uuid = u /\ guest.def = def /\ guest.run = run
            /\ guest.stored = IF def THEN Fresh(S) ELSE Nothing
            /\ guest.live = IF run = "off" THEN Nothing ELSE Fresh(S)
        BY <2>2
      <3>4. u # None
        BY BoundsAssumption
      <3> QED
        BY <2>2, <3>2, <3>3, <3>4 DEF GuestOK
    <2> QED
      BY <2>1, <2>2 DEF Init
  <1>2. recorded \in BOOLEAN
    BY <1>1 DEF Init, GuestOK, Guest
  <1>3. ops \in 0 .. MaxOps
    BY BoundsAssumption DEF Init
  <1> QED
    BY <1>1, <1>2, <1>3, NoCallTyped, UnseenTyped, NoCallGood DEF Init, Inv

(***************************************************************************)
(* The two kinds of steps: those that leave the guest alone, and those     *)
(* that change it and take alone from the others.                          *)
(***************************************************************************)
LEMMA Caller ==
  ASSUME Inv, NEW c \in Calls
  PROVE  /\ call[c] \in Request /\ begun[c] \in History /\ Placed(call[c])
         /\ begun[c].alone /\ call[c].op \in Changes \cup {"system"}
               => Progress(call[c], begun[c], guest)
         /\ begun[c].alone /\ call[c].op = "destroy"
               => Gone(call[c], begun[c], guest, recorded)
         /\ GuestOK(guest)
  BY DEF Inv, Good

LEMMA QuietStep ==
  ASSUME Inv, NEW c \in Calls, NEW r \in Request, NEW b \in History,
         call' = [call EXCEPT ![c] = r], begun' = [begun EXCEPT ![c] = b],
         guest' = guest, recorded' \in {recorded, FALSE}, ops' \in 0 .. MaxOps,
         Good(r, b, guest, recorded')
  PROVE  Inv'
  <1>1. ASSUME NEW d \in Calls PROVE Good(call'[d], begun'[d], guest', recorded')
    <2>1. CASE d = c
      BY <2>1 DEF Inv
    <2>2. CASE d # c
      <3>1. call'[d] = call[d] /\ begun'[d] = begun[d] /\ Good(call[d], begun[d], guest, recorded)
        BY <2>2 DEF Inv
      <3>2. Gone(call[d], begun[d], guest, recorded) => Gone(call[d], begun[d], guest, recorded')
        BY DEF Gone
      <3> QED
        BY <3>1, <3>2 DEF Good
    <2> QED
      BY <2>1, <2>2
  <1> QED
    BY <1>1 DEF Inv

LEMMA LoudStep ==
  ASSUME Inv, NEW c \in Calls, NEW r \in Request,
         call' = [call EXCEPT ![c] = r], Disturbs(c), GuestOK(guest'),
         recorded' \in BOOLEAN, ops' = ops, Good(r, begun[c], guest', recorded')
  PROVE  Inv'
  <1>1. ASSUME NEW d \in Calls PROVE Good(call'[d], begun'[d], guest', recorded')
    <2>1. CASE d = c
      BY <2>1 DEF Inv, Disturbs
    <2>2. CASE d # c
      <3>1. call'[d] = call[d] /\ begun'[d] = Unseen /\ Placed(call[d])
        BY <2>2 DEF Inv, Disturbs, Good
      <3> QED
        BY <3>1, UnseenTyped DEF Good
    <2> QED
      BY <2>1, <2>2
  <1>2. begun' \in [Calls -> History]
    BY UnseenTyped DEF Inv, Disturbs
  <1> QED
    BY <1>1, <1>2 DEF Inv

LEMMA PoweredOffOK ==
  ASSUME GuestOK(guest), guest.run # "off"
  PROVE  GuestOK(PoweredOff) /\ PoweredOff.run = "off"
  <1>1. CASE guest.def
    <2> DEFINE g == [guest EXCEPT !.run = "off", !.live = Nothing]
    <2>1. /\ g \in Guest /\ g.uuid = guest.uuid /\ g.def /\ g.run = "off" /\ g.live = Nothing
      BY <1>1, NothingTyped DEF GuestOK, Guest
    <2>2. g = PoweredOff
      BY <1>1 DEF PoweredOff
    <2> HIDE DEF g
    <2> QED
      BY <1>1, <2>1, <2>2 DEF GuestOK
  <1>2. CASE ~guest.def
    BY <1>2, NoGuestOK DEF PoweredOff, NoGuest
  <1> QED
    BY <1>1, <1>2

LEMMA OutsideStep == Inv /\ Outside => Inv'
  <1> SUFFICES ASSUME Inv, Outside PROVE Inv'
    OBVIOUS
  <1>1. GuestOK(guest')
    <2>1. GuestOK(guest)
      BY DEF Inv
    <2>2. CASE /\ guest.def /\ guest.run = "off"
               /\ guest' = [guest EXCEPT !.run = "on", !.live = guest.stored]
      <3>1. /\ guest' \in Guest /\ guest'.uuid = guest.uuid /\ guest'.def /\ guest'.run = "on"
        BY <2>1, <2>2 DEF GuestOK, Guest
      <3> QED
        BY <2>1, <2>2, <3>1 DEF GuestOK
    <2>3. CASE guest.run # "off" /\ guest' = PoweredOff
      BY <2>1, <2>3, PoweredOffOK
    <2>4. CASE guest.run = "on" /\ guest' = [guest EXCEPT !.run = "paused"]
      <3>1. /\ guest' \in Guest /\ guest'.uuid = guest.uuid /\ guest'.def = guest.def
            /\ guest'.run = "paused" /\ guest'.stored = guest.stored
        BY <2>1, <2>4 DEF GuestOK, Guest
      <3> QED
        BY <2>1, <2>4, <3>1 DEF GuestOK
    <2> QED
      BY <2>2, <2>3, <2>4 DEF Outside
  <1>2. ASSUME NEW d \in Calls PROVE Good(call'[d], begun'[d], guest', recorded')
    <2>1. call'[d] = call[d] /\ begun'[d] = Unseen /\ Placed(call[d])
      BY DEF Inv, Outside, Good
    <2> QED
      BY <2>1, UnseenTyped DEF Good
  <1>3. ops' \in 0 .. MaxOps /\ recorded' \in BOOLEAN /\ call' \in [Calls -> Request]
    BY BoundsAssumption DEF Inv, Outside
  <1>4. begun' \in [Calls -> History]
    BY UnseenTyped DEF Outside
  <1> QED
    BY <1>1, <1>2, <1>3, <1>4 DEF Inv

(***************************************************************************)
(* A request that moves, or fails, and leaves the guest alone.             *)
(***************************************************************************)
Rest(q, r) ==
    /\ q.op = r.op /\ q.items = r.items /\ q.next = r.next /\ q.ok = r.ok
    /\ q.copy = r.copy /\ q.uuid = r.uuid

LEMMA Moved ==
  ASSUME NEW r \in Request, NEW pc \in PCs
  PROVE  LET q == [r EXCEPT !.pc = pc]
         IN  q \in Request /\ q.pc = pc /\ Rest(q, r) /\ TheItem(q) = TheItem(r)
             /\ Reached(q) = Reached(r)
  BY DEF Request, Rest, TheItem, Reached

LEMMA MoveStep ==
  ASSUME Inv, NEW c \in Calls, NEW from, NEW to \in PCs, Step(c, from, to), Same,
         Good([call[c] EXCEPT !.pc = to], begun[c], guest, recorded)
  PROVE  Inv'
  <1>1. /\ call' = [call EXCEPT ![c] = [call[c] EXCEPT !.pc = to]]
        /\ begun' = [begun EXCEPT ![c] = begun[c]]
    BY DEF Step, Same, Inv
  <1>2. [call[c] EXCEPT !.pc = to] \in Request
    BY Caller, Moved
  <1> QED
    BY <1>1, <1>2, Caller, QuietStep DEF Same, Inv

LEMMA FailsStep ==
  ASSUME Inv, NEW c \in Calls, NEW from \in PCs \ {"idle", "return"}, Fails(c, from), Same
  PROVE  Inv'
  <1> DEFINE r == call[c]
             q == [r EXCEPT !.pc = "return", !.ok = FALSE, !.copy = Nothing, !.uuid = None]
             b == begun[c]
             d == TheItem(r)
  <1>1. r \in Request /\ r.pc = from /\ Placed(r)
    BY Caller DEF Fails
  <1>2. /\ q \in Request /\ q.pc = "return" /\ ~q.ok /\ q.copy = Nothing /\ q.op = r.op
        /\ q.items = r.items /\ q.next = r.next
    BY <1>1, NothingTyped DEF Request, PCs, Setting
  <1>3. call' = [call EXCEPT ![c] = q] /\ begun' = [begun EXCEPT ![c] = b]
    BY DEF Fails, Same, Inv
  <1> HIDE DEF q
  <1>4. TheItem(q) = d /\ Reached(q) = Reached(r)
    BY <1>2 DEF TheItem, Reached
  <1>5. Placed(q)
    BY <1>1, <1>2, NothingTyped DEF Placed, OfChange, Destroying
  <1>6. ASSUME b.alone, r.op \in Changes \cup {"system"} PROVE Progress(q, b, guest)
    <2>1. Progress(r, b, guest)
      BY <1>6, Caller
    <2>2. r.op = "system" => Reached(r) = {}
      BY <1>1 DEF Placed, Reached, Changes
    <2>3. Applied(r.op, b, guest, Reached(r), IF r.op = "system" THEN {} ELSE {d})
      <3>1. CASE from \in OfChange \cup {"read"}
        BY <1>1, <2>1, <3>1 DEF Progress, Applied
      <3>2. CASE from = "define"
        BY <1>1, <1>6, <2>1, <2>2, <3>2 DEF Progress, Changes
      <3>3. CASE from = "result"
        BY <1>1, <1>6, <2>1, <2>2, <3>3 DEF Progress, Applied, Changes
      <3>4. from \in OfChange \cup {"read", "define", "result"}
        BY <1>1, <1>6 DEF Placed, Changes, PCs, OfChange, Destroying
      <3> QED
        BY <3>1, <3>2, <3>3, <3>4
    <2>4. guest.run = b.run
      BY <2>1 DEF Progress
    <2> QED
      BY <1>2, <1>4, <2>3, <2>4 DEF Progress, OfChange
  <1>7. Gone(q, b, guest, recorded)
    BY <1>2 DEF Gone
  <1>8. Good(q, b, guest, recorded)
    BY <1>2, <1>5, <1>6, <1>7 DEF Good
  <1> QED
    BY <1>2, <1>3, <1>8, Caller, QuietStep DEF Same, Inv

(***************************************************************************)
(* Requests begin, and return.                                             *)
(***************************************************************************)
LEMMA CurrentTyped ==
  ASSUME Inv
  PROVE  CurrentOf(guest) = Current /\ Current \in Setting /\ guest \in Guest
         /\ guest.live \in Setting /\ (Exists <=> guest.uuid # None)
  BY DEF Inv, GuestOK, Guest, Current, CurrentOf, Exists

LEMMA StartsStep ==
  ASSUME Inv, NEW c \in Calls, NEW r \in Request, Starts(c, r), Placed(r), r.next = 1,
         r.pc \in {"check", "find", "refs", "read"}
  PROVE  Inv'
  <1>1. /\ call' = [call EXCEPT ![c] = r] /\ begun' = [begun EXCEPT ![c] = Seen]
        /\ guest' = guest /\ recorded' = recorded
    BY DEF Starts
  <1>2. ops' \in 0 .. MaxOps
    BY BoundsAssumption DEF Starts, Inv
  <1>3. /\ Seen \in History /\ Seen.run = guest.run /\ Seen.current = CurrentOf(guest)
        /\ Seen.live = guest.live
    BY CurrentTyped DEF Seen, History, Guest
  <1>4. Progress(r, Seen, guest)
    <2>1. Reached(r) = {}
      BY DEF Reached
    <2>2. Applied(r.op, Seen, guest, {}, {})
      BY <1>3 DEF Applied
    <2> QED
      BY <1>3, <2>1, <2>2 DEF Progress
  <1>5. Gone(r, Seen, guest, recorded)
    BY DEF Gone
  <1> QED
    BY <1>1, <1>2, <1>3, <1>4, <1>5, QuietStep DEF Good

LEMMA RequestsStep ==
  ASSUME Inv, NEW c \in Calls,
         \/ DefineSystem(c) \/ DestroySystem(c) \/ ModifySystemSettings(c) \/ ChangeResources(c)
  PROVE  Inv'
  <1>1. CASE DefineSystem(c)
    <2>1. PICK u \in Uuids, S \in SUBSET Devices :
            Starts(c, [NoCall EXCEPT !.pc = "check", !.op = "define", !.uuid = u,
                                     !.copy = Fresh(S)])
      BY <1>1 DEF DefineSystem
    <2> DEFINE r == [NoCall EXCEPT !.pc = "check", !.op = "define", !.uuid = u, !.copy = Fresh(S)]
    <2>2. /\ r \in Request /\ r.pc = "check" /\ r.op = "define" /\ r.uuid = u /\ r.ok
          /\ r.copy = Fresh(S) /\ r.next = 1
      <3>1. Fresh(S) \in [Devices -> Settings \cup {"twice"}]
        BY FreshTyped DEF Setting
      <3> QED
        BY <3>1, NoCallTyped DEF Request, PCs, Ops
    <2>3. Starts(c, r)
      BY <2>1
    <2> HIDE DEF r
    <2>4. Placed(r)
      BY <2>2, FreshTyped, BoundsAssumption DEF Placed, OfChange, Destroying, Changes
    <2> QED
      BY <2>2, <2>3, <2>4, StartsStep
  <1>2. CASE DestroySystem(c)
    <2> DEFINE r == [NoCall EXCEPT !.pc = "find", !.op = "destroy"]
    <2>1. /\ r \in Request /\ r.pc = "find" /\ r.op = "destroy" /\ r.ok /\ r.copy = Nothing
          /\ r.next = 1
      BY NoCallTyped DEF Request, PCs, Ops
    <2>2. Starts(c, r)
      BY <1>2 DEF DestroySystem
    <2> HIDE DEF r
    <2>3. Placed(r)
      BY <2>1, NothingTyped DEF Placed, OfChange, Destroying, Changes
    <2> QED
      BY <2>1, <2>2, <2>3, StartsStep
  <1>3. CASE ModifySystemSettings(c)
    <2>1. PICK u \in Uuids \cup {None} :
            Starts(c, [NoCall EXCEPT !.pc = "read", !.op = "system", !.uuid = u])
      BY <1>3 DEF ModifySystemSettings
    <2> DEFINE r == [NoCall EXCEPT !.pc = "read", !.op = "system", !.uuid = u]
    <2>2. /\ r \in Request /\ r.pc = "read" /\ r.op = "system" /\ r.ok /\ r.copy = Nothing
          /\ r.next = 1 /\ r.items = <<>>
      BY NoCallTyped DEF Request, PCs, Ops
    <2>3. Starts(c, r)
      BY <2>1
    <2> HIDE DEF r
    <2>4. Placed(r)
      BY <2>2, NothingTyped DEF Placed, OfChange, Destroying, Changes
    <2> QED
      BY <2>2, <2>3, <2>4, StartsStep
  <1>4. CASE ChangeResources(c)
    <2>1. PICK op \in Changes, batch \in Batches :
            Starts(c, [NoCall EXCEPT !.pc = IF op = "del" THEN "refs" ELSE "read",
                                     !.op = op, !.items = batch])
      BY <1>4 DEF ChangeResources
    <2> DEFINE pc == IF op = "del" THEN "refs" ELSE "read"
               r == [NoCall EXCEPT !.pc = pc, !.op = op, !.items = batch]
    <2>2. pc \in {"refs", "read"}
      OBVIOUS
    <2>3. Starts(c, r)
      BY <2>1
    <2> HIDE DEF pc
    <2>4. /\ r \in Request /\ r.pc = pc /\ r.op = op /\ r.ok /\ r.copy = Nothing
          /\ r.next = 1 /\ r.items = batch
      BY <2>2, NoCallTyped DEF Request, PCs, Ops
    <2> HIDE DEF r
    <2>5. 1 <= Len(batch)
      BY DEF Batches
    <2>6. Placed(r)
      BY <2>2, <2>4, <2>5, NothingTyped DEF Placed, OfChange, Destroying, Changes
    <2> QED
      BY <2>2, <2>3, <2>4, <2>6, StartsStep
  <1> QED
    BY <1>1, <1>2, <1>3, <1>4

LEMMA ReturnStep ==
  ASSUME Inv, NEW c \in Calls, Return(c)
  PROVE  Inv'
  <1>1. Good(NoCall, Unseen, guest, recorded')
    BY NoCallGood
  <1> QED
    BY <1>1, NoCallTyped, UnseenTyped, QuietStep DEF Return, Inv

(***************************************************************************)
(* The steps that define a guest and those on the way to a change.         *)
(***************************************************************************)
LEMMA FailuresStep ==
  ASSUME Inv, NEW c \in Calls,
         \/ UuidInUse(c) \/ RefsFail(c) \/ ReadFails(c) \/ UuidDiffers(c) \/ NoPrevious(c)
         \/ Refused(c) \/ Vanished(c) \/ LiveFails(c) \/ DefineFails(c) \/ ResultLost(c)
         \/ EnumerateFails(c) \/ NotFound(c) \/ UndefineFails(c)
  PROVE  Inv'
  BY FailsStep DEF PCs, UuidInUse, RefsFail, ReadFails, UuidDiffers, NoPrevious, Refused,
     Vanished, LiveFails, DefineFails, ResultLost, EnumerateFails, NotFound, UndefineFails

LEMMA MovesStep ==
  ASSUME Inv, NEW c \in Calls, UuidFree(c) \/ Refs(c) \/ Previous(c) \/ Enumerate(c)
  PROVE  Inv'
  <1> DEFINE r == call[c]
             b == begun[c]
  <1>1. ASSUME NEW from, NEW to \in PCs, Step(c, from, to), Same,
               <<from, to>> \in {<<"check", "define">>, <<"refs", "read">>,
                                 <<"previous", "device">>, <<"enumerate", "return">>}
        PROVE  Inv'
    <2> DEFINE q == [r EXCEPT !.pc = to]
    <2>1. r.pc = from /\ Placed(r) /\ r \in Request
      BY <1>1, Caller DEF Step
    <2>2. q \in Request /\ q.pc = to /\ Rest(q, r) /\ TheItem(q) = TheItem(r)
          /\ Reached(q) = Reached(r)
      BY <2>1, Moved
    <2> HIDE DEF q
    <2>3. Placed(q)
      BY <1>1, <2>1, <2>2 DEF Placed, Rest, OfChange, Destroying, Changes
    <2>4. ASSUME b.alone, r.op \in Changes \cup {"system"} PROVE Progress(q, b, guest)
      <3>1. Progress(r, b, guest)
        BY <2>4, Caller
      <3>2. from \in {"refs", "previous"}
        BY <1>1, <2>1, <2>4 DEF Placed, Changes
      <3> QED
        BY <1>1, <2>1, <2>2, <3>1, <3>2 DEF Progress, Rest, OfChange, Copied
    <2>5. r.op # "destroy"
      BY <1>1, <2>1 DEF Placed, OfChange, Changes
    <2>6. Good(q, b, guest, recorded)
      BY <2>2, <2>3, <2>4, <2>5 DEF Good, Rest
    <2> QED
      BY <1>1, <2>6, MoveStep DEF q
  <1> QED
    BY <1>1 DEF UuidFree, Refs, Previous, Enumerate, PCs

LEMMA ReadStep ==
  ASSUME Inv, NEW c \in Calls, Read(c)
  PROVE  Inv'
  <1> DEFINE r == call[c]
             b == begun[c]
             to == CASE r.op = "system" -> "define"
                     [] r.op = "mod" -> "previous"
                     [] OTHER -> "device"
             m == Parse(Current)
             q == [r EXCEPT !.uuid = guest.uuid, !.copy = m, !.pc = to]
  <1>1. r \in Request /\ r.pc = "read" /\ Placed(r) /\ r.op \in Changes \cup {"system"}
    BY Caller DEF Read, Placed
  <1>2. /\ to \in {"define", "previous", "device"} /\ to \in PCs
        /\ to = "define" <=> r.op = "system"
    BY DEF PCs
  <1>3. /\ m \in [Devices -> Settings \cup {"twice"}] /\ m["proc"] = "zero"
        /\ \A d \in Devices \ {"proc"} : m[d] = CurrentOf(guest)[d]
    BY CurrentTyped DEF Parse, Setting, Settings, Devices
  <1> HIDE DEF to, m
  <1>4. guest.uuid \in Uuids \cup {None} /\ guest.uuid # None
    BY CurrentTyped DEF Read, Guest
  <1>5. /\ q \in Request /\ q.pc = to /\ q.copy = m /\ q.uuid = guest.uuid /\ q.op = r.op
        /\ q.items = r.items /\ q.next = r.next /\ q.ok = r.ok
    BY <1>1, <1>2, <1>3, <1>4 DEF Request
  <1>6. call' = [call EXCEPT ![c] = q] /\ begun' = [begun EXCEPT ![c] = b] /\ Same
    BY DEF Read, Same, Inv, to, m
  <1> HIDE DEF q
  <1>7. TheItem(q) = TheItem(r) /\ Reached(q) = Reached(r)
    BY <1>5 DEF TheItem, Reached
  <1>8. Placed(q)
    BY <1>1, <1>2, <1>3, <1>4, <1>5 DEF Placed, OfChange, Destroying, Changes
  <1>9. ASSUME b.alone PROVE Progress(q, b, guest)
    <2>1. Progress(r, b, guest)
      BY <1>1, <1>9, Caller
    <2>2. guest.run = b.run /\ Applied(r.op, b, guest, Reached(r), {})
      BY <1>1, <2>1 DEF Progress
    <2>3. Copied(q, guest, {})
      BY <1>3, <1>5 DEF Copied
    <2>4. r.op = "system" => Reached(r) = {}
      BY <1>1 DEF Placed, Reached, Changes
    <2> QED
      BY <1>1, <1>2, <1>5, <1>7, <2>2, <2>3, <2>4 DEF Progress, OfChange, Changes
  <1>10. Good(q, b, guest, recorded)
    BY <1>1, <1>5, <1>8, <1>9 DEF Good, Changes
  <1> QED
    BY <1>5, <1>6, <1>10, Caller, QuietStep DEF Same, Inv

\* The devices of a batch.
LEMMA ItemTyped ==
  ASSUME NEW r \in Request, Placed(r), r.op \in Changes, r.pc # "return"
  PROVE  TheItem(r) \in Devices /\ r.next \in 1 .. Len(r.items)
  BY DEF Placed, Request, Batches, TheItem

LEMMA ChangeCopyStep ==
  ASSUME Inv, NEW c \in Calls, ChangeCopy(c)
  PROVE  Inv'
  <1> DEFINE r == call[c]
             b == begun[c]
             d == TheItem(r)
             to == IF d \in Cold THEN "define" ELSE "info"
             new == NewSetting(r.op, r.copy[d])
             m == [r.copy EXCEPT ![d] = new]
             q == [r EXCEPT !.copy = m, !.pc = to]
  <1>1. r \in Request /\ r.pc = "device" /\ Placed(r) /\ r.op \in Changes /\ d = Item(c)
    BY Caller DEF ChangeCopy, Placed, OfChange, TheItem, Item
  <1>2. d \in Devices /\ r.next <= Len(r.items)
    BY <1>1, ItemTyped
  <1>3. to \in {"define", "info"} /\ to \in PCs /\ (to = "info" <=> d \notin Cold)
    BY DEF PCs
  <1>4. /\ r.op \in {"add", "del"} => d # "proc"
        /\ r.op \in {"mod", "del"} => r.copy[d] # "absent"
    BY <1>1 DEF ChangeCopy
  <1>5. /\ new \in {Wanted(r.op), "twice"} /\ new \in Settings \cup {"twice"}
        /\ r.op = "mod" => new # "twice"
    BY <1>1 DEF Wanted, NewSetting, Changes, Settings
  <1>6. r.copy \in [Devices -> Settings \cup {"twice"}] /\ r.copy["proc"] # "twice"
    BY <1>1 DEF Request, Placed
  <1> HIDE DEF to, new
  <1>7. /\ m \in [Devices -> Settings \cup {"twice"}] /\ m[d] = new
        /\ \A e \in Devices \ {d} : m[e] = r.copy[e]
    BY <1>2, <1>5, <1>6
  <1>8. m["proc"] # "twice"
    <2>1. "proc" \in Devices
      BY DEF Devices
    <2> QED
      BY <1>1, <1>4, <1>5, <1>6, <1>7, <2>1 DEF Changes
  <1>9. call' = [call EXCEPT ![c] = q] /\ begun' = [begun EXCEPT ![c] = b] /\ Same
    BY <1>1 DEF ChangeCopy, Same, Inv, to, new
  <1> HIDE DEF m
  <1>10. /\ q \in Request /\ q.pc = to /\ q.copy = m /\ q.uuid = r.uuid /\ q.op = r.op
         /\ q.items = r.items /\ q.next = r.next /\ q.ok = r.ok
    BY <1>1, <1>3, <1>7 DEF Request
  <1>11. TheItem(q) = d /\ Reached(q) = Reached(r)
    BY <1>10 DEF TheItem, Reached
  <1> HIDE DEF q
  <1>12. Placed(q)
    BY <1>1, <1>3, <1>8, <1>10 DEF Placed, OfChange, Destroying, Changes
  <1>13. ASSUME b.alone PROVE Progress(q, b, guest)
    <2>1. Progress(r, b, guest)
      BY <1>1, <1>13, Caller
    <2>2. /\ guest.run = b.run /\ Applied(r.op, b, guest, Reached(r), {})
          /\ Copied(r, guest, {})
      BY <1>1, <2>1 DEF Progress, OfChange
    <2>3. Copied(q, guest, {d})
      BY <1>7, <1>10, <2>2 DEF Copied
    <2>4. Applied(r.op, b, guest, Reached(r), {d})
      BY <2>2 DEF Applied
    <2>5. q.copy[d] \in {Wanted(r.op), "twice"}
      BY <1>5, <1>7, <1>10
    <2> QED
      BY <1>1, <1>3, <1>10, <1>11, <2>2, <2>3, <2>4, <2>5 DEF Progress, OfChange, Changes
  <1>14. Good(q, b, guest, recorded)
    BY <1>1, <1>10, <1>12, <1>13 DEF Good, Changes
  <1> QED
    BY <1>9, <1>10, <1>14, Caller, QuietStep DEF Same, Inv

(***************************************************************************)
(* Two guests that differ in the processors only say the same of a change. *)
(***************************************************************************)
LEMMA Alike ==
  ASSUME NEW g, NEW h, NEW b, NEW r, NEW op, NEW done, NEW except,
         \A d \in Devices \ {"proc"} :
            CurrentOf(g)[d] = CurrentOf(h)[d] /\ g.live[d] = h.live[d]
  PROVE  /\ Applied(op, b, g, done, except) => Applied(op, b, h, done, except)
         /\ Copied(r, g, except) => Copied(r, h, except)
  BY DEF Applied, Copied

LEMMA SetInfoStep ==
  ASSUME Inv, NEW c \in Calls, NEW from \in {"info", "settle"}, SetInfo(c, from)
  PROVE  Inv'
  <1> DEFINE r == call[c]
             b == begun[c]
             to == AfterInfo[from]
             q == [r EXCEPT !.pc = to]
             v == r.copy["proc"]
             d == TheItem(r)
  <1>1. r \in Request /\ r.pc = from /\ Placed(r) /\ GuestOK(guest)
    BY Caller DEF SetInfo, Step
  <1>2. to \in PCs /\ (from = "info" => to = "online") /\ (from = "settle" => to = "enumerate")
    BY DEF AfterInfo, PCs
  <1> HIDE DEF to
  <1>3. q \in Request /\ q.pc = to /\ Rest(q, r) /\ TheItem(q) = d /\ Reached(q) = Reached(r)
    BY <1>1, <1>2, Moved
  <1>4. call' = [call EXCEPT ![c] = q]
    BY DEF SetInfo, Step, Inv, to
  <1> HIDE DEF q
  <1>5. v \in Settings
    <2>1. "proc" \in Devices
      BY DEF Devices
    <2> QED
      BY <1>1, <2>1 DEF Request, Placed
  <1>6. guest' = [guest EXCEPT !.stored["proc"] = v] /\ guest.def
    BY DEF SetInfo
  <1> HIDE DEF v
  <1>7. /\ guest' \in Guest /\ guest'.uuid = guest.uuid /\ guest'.def /\ guest'.run = guest.run
        /\ guest'.live = guest.live
        /\ \A e \in Devices \ {"proc"} : guest'.stored[e] = guest.stored[e]
    BY <1>1, <1>5, <1>6 DEF GuestOK, Guest, Setting
  <1>8. GuestOK(guest')
    BY <1>1, <1>6, <1>7 DEF GuestOK
  <1>9. \A e \in Devices \ {"proc"} :
           CurrentOf(guest)[e] = CurrentOf(guest')[e] /\ guest.live[e] = guest'.live[e]
    BY <1>6, <1>7 DEF CurrentOf
  <1>10. Placed(q)
    BY <1>1, <1>2, <1>3 DEF Placed, Rest, OfChange, Destroying, Changes
  <1>11. ASSUME b.alone, r.op \in Changes \cup {"system"} PROVE Progress(q, b, guest')
    <2>1. Progress(r, b, guest) /\ from = "info"
      BY <1>1, <1>11, Caller DEF Placed, Changes
    <2>2. /\ guest.run = b.run /\ Applied(r.op, b, guest, Reached(r), {})
          /\ Copied(r, guest, {d}) /\ d \notin Cold
          /\ d # "proc" => r.copy[d] \in {Wanted(r.op), "twice"}
      BY <1>1, <2>1 DEF Progress, OfChange
    <2>3. Applied(r.op, b, guest', Reached(r), {}) /\ Copied(r, guest', {d})
      BY <1>9, <2>2, Alike
    <2>4. Copied(q, guest', {d})
      BY <1>3, <2>3 DEF Copied, Rest
    <2> QED
      BY <1>2, <1>3, <1>7, <2>1, <2>2, <2>3, <2>4 DEF Progress, Rest, OfChange
  <1>12. r.op # "destroy"
    BY <1>1 DEF Placed, OfChange, Changes
  <1>13. Good(q, b, guest', recorded')
    BY <1>3, <1>10, <1>11, <1>12 DEF Good, Rest
  <1> QED
    BY <1>3, <1>4, <1>8, <1>13, LoudStep DEF SetInfo

(***************************************************************************)
(* update_dominfo failed, or the guest was found to run or not to.         *)
(***************************************************************************)
LEMMA TowardsDefineStep ==
  ASSUME Inv, NEW c \in Calls,
         (\E p \in {"info", "settle"} : InfoFails(c, p)) \/ NotOnline(c) \/ Online(c)
  PROVE  Inv'
  <1> DEFINE r == call[c]
             b == begun[c]
             d == TheItem(r)
  <1>1. PICK from \in {"info", "settle", "online"},
             to \in {"online", "enumerate", "define", "live"} :
           /\ Step(c, from, to)
           /\ <<from, to>> \in {<<"info", "online">>, <<"settle", "enumerate">>,
                                <<"online", "define">>, <<"online", "live">>}
           /\ to = "define" => guest.run # "on"
    BY DEF InfoFails, NotOnline, Online, AfterInfo
  <1> DEFINE q == [r EXCEPT !.pc = to]
  <1>2. Same
    BY DEF InfoFails, NotOnline, Online
  <1>3. r.pc = from /\ Placed(r) /\ r \in Request /\ to \in PCs
    BY <1>1, Caller DEF Step, PCs
  <1>4. q \in Request /\ q.pc = to /\ Rest(q, r) /\ TheItem(q) = d /\ Reached(q) = Reached(r)
    BY <1>3, Moved
  <1> HIDE DEF q
  <1>5. Placed(q)
    BY <1>1, <1>3, <1>4 DEF Placed, Rest, OfChange, Destroying, Changes
  <1>6. ASSUME b.alone, r.op \in Changes \cup {"system"} PROVE Progress(q, b, guest)
    <2>1. Progress(r, b, guest) /\ from \in {"info", "online"} /\ r.op \in Changes
      BY <1>1, <1>3, <1>6, Caller DEF Placed, Changes, OfChange
    <2>2. /\ guest.run = b.run /\ Applied(r.op, b, guest, Reached(r), {})
          /\ Copied(r, guest, {d}) /\ d \notin Cold
          /\ d # "proc" => r.copy[d] \in {Wanted(r.op), "twice"}
      BY <1>3, <2>1 DEF Progress, OfChange
    <2>3. Copied(q, guest, {d})
      BY <1>4, <2>2 DEF Copied, Rest
    <2>4. Applied(r.op, b, guest, Reached(r), {d})
      BY <2>2 DEF Applied
    <2>5. CASE to \in {"online", "live"}
      BY <1>4, <2>2, <2>3, <2>5 DEF Progress, Rest, OfChange
    <2>6. CASE to = "define"
      BY <1>1, <1>4, <2>1, <2>2, <2>3, <2>4, <2>6 DEF Progress, Rest, OfChange, Changes
    <2> QED
      BY <1>1, <2>1, <2>5, <2>6
  <1>7. r.op # "destroy"
    BY <1>1, <1>3 DEF Placed, OfChange, Changes
  <1>8. Good(q, b, guest, recorded)
    BY <1>4, <1>5, <1>6, <1>7 DEF Good, Rest
  <1> QED
    BY <1>1, <1>2, <1>3, <1>8, MoveStep DEF q

(***************************************************************************)
(* The running guest is changed, then its definition.                      *)
(***************************************************************************)
LEMMA LiveChangeStep ==
  ASSUME Inv, NEW c \in Calls, LiveChange(c)
  PROVE  Inv'
  <1> DEFINE r == call[c]
             b == begun[c]
             d == TheItem(r)
             new == NewSetting(r.op, guest.live[d])
             q == [r EXCEPT !.pc = "define"]
  <1>1. /\ r \in Request /\ r.pc = "live" /\ Placed(r) /\ GuestOK(guest) /\ r.op \in Changes
        /\ d = Item(c)
    BY Caller DEF LiveChange, Step, Placed, OfChange, TheItem, Item
  <1>2. d \in Devices
    BY <1>1, ItemTyped
  <1>3. /\ guest.run # "off" /\ guest' = [guest EXCEPT !.live[d] = new]
        /\ r.op = "add" => guest.live[d] = "absent"
    BY <1>1 DEF LiveChange
  <1>4. new = Wanted(r.op) /\ new \in Settings
    BY <1>1, <1>3 DEF Wanted, NewSetting, Changes, Settings
  <1> HIDE DEF new
  <1>5. /\ guest' \in Guest /\ guest'.uuid = guest.uuid /\ guest'.def = guest.def
        /\ guest'.run = guest.run /\ guest'.stored = guest.stored /\ guest'.live[d] = new
        /\ \A e \in Devices \ {d} : guest'.live[e] = guest.live[e]
    BY <1>1, <1>2, <1>3, <1>4 DEF GuestOK, Guest, Setting
  <1>6. GuestOK(guest')
    BY <1>1, <1>3, <1>5 DEF GuestOK
  <1>7. /\ q \in Request /\ q.pc = "define" /\ Rest(q, r) /\ TheItem(q) = d
        /\ Reached(q) = Reached(r)
    BY <1>1, Moved DEF PCs
  <1>8. call' = [call EXCEPT ![c] = q]
    BY DEF LiveChange, Step, Inv
  <1> HIDE DEF q
  <1>9. Placed(q)
    BY <1>1, <1>7 DEF Placed, Rest, OfChange, Destroying, Changes
  <1>10. ASSUME b.alone PROVE Progress(q, b, guest')
    <2>1. Progress(r, b, guest)
      BY <1>1, <1>10, Caller
    <2>2. /\ guest.run = b.run /\ Applied(r.op, b, guest, Reached(r), {})
          /\ Copied(r, guest, {d})
          /\ d # "proc" => r.copy[d] \in {Wanted(r.op), "twice"}
      BY <1>1, <2>1 DEF Progress, OfChange
    <2>3. \A e \in Devices \ {d} :
             CurrentOf(guest')[e] = CurrentOf(guest)[e] /\ guest'.live[e] = guest.live[e]
      BY <1>5 DEF CurrentOf
    <2>4. Applied(r.op, b, guest', Reached(r), {d})
      BY <2>2, <2>3 DEF Applied
    <2>5. Copied(q, guest', {d})
      BY <1>7, <2>2, <2>3 DEF Copied, Rest
    <2> QED
      BY <1>1, <1>4, <1>5, <1>7, <2>2, <2>4, <2>5 DEF Progress, Rest, OfChange, Changes
  <1>11. Good(q, b, guest', recorded')
    BY <1>1, <1>7, <1>9, <1>10 DEF Good, Rest, Changes
  <1> QED
    BY <1>6, <1>7, <1>8, <1>11, LoudStep DEF LiveChange, Inv

LEMMA DefineStep ==
  ASSUME Inv, NEW c \in Calls, Define(c)
  PROVE  Inv'
  <1> DEFINE r == call[c]
             b == begun[c]
             d == TheItem(r)
             m == IF r.op = "define" THEN r.copy ELSE Nothing
             q == [r EXCEPT !.pc = "result", !.uuid = None, !.copy = m]
  <1>1. /\ r \in Request /\ r.pc = "define" /\ Placed(r) /\ GuestOK(guest) /\ r.uuid # None
        /\ r.op \in Changes \cup {"system", "define"} /\ r.copy \in Setting
    <2>1. r \in Request /\ r.pc = "define" /\ Placed(r) /\ GuestOK(guest)
      BY Caller DEF Define
    <2>2. \A e \in Devices : r.copy[e] # "twice"
      BY DEF Define, Definable
    <2> QED
      BY <2>1, <2>2 DEF Placed, Request, Setting
  <1>2. m \in [Devices -> Settings \cup {"twice"}] /\ m["proc"] # "twice"
    BY <1>1, NothingTyped DEF Setting, Placed
  <1>3. call' = [call EXCEPT ![c] = q]
    BY DEF Define, Inv
  <1> HIDE DEF m
  <1>4. /\ q \in Request /\ q.pc = "result" /\ q.copy = m /\ q.op = r.op /\ q.items = r.items
        /\ q.next = r.next /\ q.ok = r.ok
    BY <1>1, <1>2 DEF Request, PCs
  <1> HIDE DEF q
  <1>5. TheItem(q) = d /\ Reached(q) = Reached(r)
    BY <1>4 DEF TheItem, Reached
  <1>6. /\ guest' \in Guest /\ guest'.uuid = r.uuid /\ guest'.def /\ guest'.run = guest.run
        /\ guest'.stored = r.copy /\ guest'.live = guest.live
    <2>1. guest' = [guest EXCEPT !.uuid = r.uuid, !.def = TRUE, !.stored = r.copy]
      BY DEF Define
    <2>2. r.uuid \in Uuids \cup {None}
      BY <1>1 DEF Request
    <2> QED
      BY <1>1, <2>1, <2>2 DEF GuestOK, Guest
  <1>7. GuestOK(guest')
    BY <1>1, <1>6 DEF GuestOK
  <1>8. Placed(q)
    BY <1>1, <1>2, <1>4 DEF Placed, OfChange, Destroying, Changes
  <1>9. ASSUME b.alone, r.op \in Changes \cup {"system"} PROVE Progress(q, b, guest')
    <2>1. Progress(r, b, guest)
      BY <1>9, Caller
    <2>2. CurrentOf(guest') = r.copy
      BY <1>6 DEF CurrentOf
    <2>3. CASE r.op = "system"
      <3>1. Applied(r.op, b, guest, {}, {}) /\ Copied(r, guest, {})
        BY <1>1, <2>1, <2>3 DEF Progress
      <3>2. Applied(r.op, b, guest', {}, {})
        BY <1>6, <2>2, <3>1 DEF Applied, Copied
      <3> QED
        BY <1>4, <1>6, <2>1, <2>3, <3>2 DEF Progress, OfChange
    <2>4. CASE r.op \in Changes
      <3>1. /\ Applied(r.op, b, guest, Reached(r), {d}) /\ Copied(r, guest, {d})
            /\ d # "proc" => r.copy[d] \in {Wanted(r.op), "twice"}
            /\ d # "proc" /\ b.run = "on" /\ d \notin Cold => guest.live[d] = Wanted(r.op)
        BY <1>1, <2>1, <2>4 DEF Progress
      <3>2. d \in Devices
        BY <1>1, <2>4, ItemTyped
      <3>3. d # "proc" => r.copy[d] = Wanted(r.op)
        BY <1>1, <3>1, <3>2 DEF Setting, Settings
      <3>4. Applied(r.op, b, guest', Reached(r) \cup {d}, {})
        BY <1>6, <2>2, <3>1, <3>3 DEF Applied, Copied
      <3> QED
        BY <1>4, <1>5, <1>6, <2>1, <2>4, <3>4 DEF Progress, OfChange, Changes
    <2> QED
      BY <1>9, <2>3, <2>4
  <1>10. r.op # "destroy"
    BY <1>1 DEF Changes
  <1>11. Good(q, b, guest', recorded')
    BY <1>4, <1>8, <1>9, <1>10 DEF Good
  <1> QED
    BY <1>3, <1>4, <1>7, <1>11, LoudStep DEF Define, Inv

(***************************************************************************)
(* The request goes on with its next resource, or returns.                 *)
(***************************************************************************)
LEMMA ResultStep ==
  ASSUME Inv, NEW c \in Calls, Result(c)
  PROVE  Inv'
  <1> DEFINE r == call[c]
             b == begun[c]
             next == IF r.op \in Changes THEN r.next + 1 ELSE r.next
             to == IF r.op = "define" THEN "settle"
                   ELSE IF r.op \in Changes /\ r.next < Len(r.items) THEN "read"
                   ELSE "return"
             q == [r EXCEPT !.next = next, !.pc = to]
  <1>1. /\ r \in Request /\ r.pc = "result" /\ Placed(r)
        /\ r.op \in Changes \cup {"system", "define"}
    BY Caller DEF Result, Placed
  <1>2. /\ r.op \in Changes => r.items \in Batches /\ Len(r.items) \in 1 .. MaxBatch
        /\ r.op \in Changes => r.next \in 1 .. Len(r.items)
        /\ r.next \in Nat
    BY <1>1 DEF Placed, Batches, Request
  <1>3. next \in 1 .. MaxBatch + 1
    BY <1>1, <1>2, BoundsAssumption DEF Request
  <1>4. /\ to \in PCs /\ to \in {"settle", "read", "return"}
        /\ to = "settle" <=> r.op = "define"
        /\ to = "read" <=> r.op \in Changes /\ r.next < Len(r.items)
    BY <1>1 DEF PCs, Changes
  <1>5. r.op \in Changes => next = r.next + 1
    OBVIOUS
  <1>6. r.op \notin Changes => next = r.next
    OBVIOUS
  <1>7. call' = [call EXCEPT ![c] = q] /\ begun' = [begun EXCEPT ![c] = b] /\ Same
    BY DEF Result, Same, Inv
  <1> HIDE DEF next, to
  <1>8. /\ q \in Request /\ q.pc = to /\ q.next = next /\ q.copy = r.copy /\ q.op = r.op
        /\ q.items = r.items /\ q.uuid = r.uuid /\ q.ok = r.ok
    BY <1>1, <1>3, <1>4 DEF Request
  <1> HIDE DEF q
  <1>9. Placed(q)
    BY <1>1, <1>2, <1>4, <1>5, <1>6, <1>8 DEF Placed, OfChange, Destroying, Changes
  <1>10. ASSUME b.alone, r.op \in Changes \cup {"system"} PROVE Progress(q, b, guest)
    <2>1. Progress(r, b, guest)
      BY <1>10, Caller
    <2>2. r.ok
      BY <1>1 DEF Placed
    <2>3. CASE r.op = "system"
      <3>1. Applied(r.op, b, guest, {}, {})
        BY <1>1, <2>1, <2>3 DEF Progress
      <3>2. Reached(q) = {}
        BY <1>1, <1>6, <1>8, <2>3 DEF Reached, Placed, Changes
      <3> QED
        BY <1>4, <1>8, <2>1, <2>2, <2>3, <3>1, <3>2 DEF Progress, OfChange, Changes
    <2>4. CASE r.op \in Changes
      <3>1. Applied(r.op, b, guest, Reached(r) \cup {TheItem(r)}, {})
        BY <1>1, <2>1, <2>4 DEF Progress, Changes
      <3>2. Reached(q) = Reached(r) \cup {TheItem(r)}
        BY <1>2, <1>5, <1>8, <2>4 DEF Reached, TheItem
      <3> QED
        BY <1>4, <1>8, <2>1, <2>2, <2>4, <3>1, <3>2 DEF Progress, OfChange, Changes
    <2> QED
      BY <1>10, <2>3, <2>4
  <1>11. r.op # "destroy"
    BY <1>1 DEF Changes
  <1>12. Good(q, b, guest, recorded)
    BY <1>8, <1>9, <1>10, <1>11 DEF Good
  <1> QED
    BY <1>7, <1>8, <1>12, Caller, QuietStep DEF Same, Inv

(***************************************************************************)
(* A guest is destroyed.                                                   *)
(***************************************************************************)
Shift(c, from, to, failed) ==
    /\ Step(c, from, to)
    /\ begun' = [begun EXCEPT ![c].ignored = @ \cup failed]
    /\ recorded' = IF to = "kill" /\ failed = {} THEN FALSE ELSE recorded
    /\ <<from, to>> \in {<<"find", "forget">>, <<"forget", "kill">>, <<"kill", "again">>,
                         <<"again", "undefine">>, <<"again", "return">>}
    /\ to = "kill" => failed \in {{}, {"record"}}
    /\ to = "again" => failed = {"kill"} \/ guest.run = "off"
    /\ to = "return" => failed = {"lookup"} \/ ~Exists

LEMMA DestroyingStep ==
  ASSUME Inv, NEW c \in Calls,
         \/ Find(c) \/ Forget(c) \/ ForgetFails(c) \/ KillFails(c) \/ NotRunning(c)
         \/ Again(c) \/ AgainFails(c)
  PROVE  Inv'
  <1> DEFINE r == call[c]
             b == begun[c]
  <1>0. begun = [begun EXCEPT ![c].ignored = @ \cup {}]
    BY DEF Inv, History
  <1>1. PICK from \in PCs, to \in PCs, failed \in SUBSET Unchecked : Shift(c, from, to, failed)
    <2>1. CASE Find(c)
      <3>1. Shift(c, "find", "forget", {})
        BY <2>1, <1>0 DEF Find, Same, Shift
      <3> QED
        BY <3>1 DEF PCs
    <2>2. CASE Forget(c)
      <3>1. Shift(c, "forget", "kill", {})
        BY <2>2, <1>0 DEF Forget, Shift
      <3> QED
        BY <3>1 DEF PCs
    <2>3. CASE ForgetFails(c)
      <3>1. Shift(c, "forget", "kill", {"record"})
        BY <2>3 DEF ForgetFails, Ignores, Shift
      <3> QED
        BY <3>1 DEF PCs, Unchecked
    <2>4. CASE KillFails(c)
      <3>1. Shift(c, "kill", "again", {"kill"})
        BY <2>4 DEF KillFails, Ignores, Shift
      <3> QED
        BY <3>1 DEF PCs, Unchecked
    <2>5. CASE NotRunning(c)
      <3>1. Shift(c, "kill", "again", {})
        BY <2>5, <1>0 DEF NotRunning, Same, Shift
      <3> QED
        BY <3>1 DEF PCs
    <2>6. CASE Again(c)
      <3>1. CASE Exists
        <4>1. Shift(c, "again", "undefine", {})
          BY <2>6, <3>1, <1>0 DEF Again, Same, Shift
        <4> QED
          BY <4>1 DEF PCs
      <3>2. CASE ~Exists
        <4>1. Shift(c, "again", "return", {})
          BY <2>6, <3>2, <1>0 DEF Again, Same, Shift
        <4> QED
          BY <4>1 DEF PCs
      <3> QED
        BY <3>1, <3>2
    <2>7. CASE AgainFails(c)
      <3>1. Shift(c, "again", "return", {"lookup"})
        BY <2>7 DEF AgainFails, Ignores, Shift
      <3> QED
        BY <3>1 DEF PCs, Unchecked
    <2> QED
      BY <2>1, <2>2, <2>3, <2>4, <2>5, <2>6, <2>7
  <1> DEFINE q == [r EXCEPT !.pc = to]
             ignored == b.ignored \cup failed
             seen == [b EXCEPT !.ignored = ignored]
  <1>2. guest' = guest /\ ops' = ops
    BY DEF Find, Forget, ForgetFails, KillFails, NotRunning, Again, AgainFails, Ignores, Same
  <1>3. /\ r.pc = from /\ Placed(r) /\ r \in Request /\ to \in PCs /\ r.op = "destroy"
        /\ recorded \in BOOLEAN /\ b \in History /\ GuestOK(guest)
    BY <1>1, Caller DEF Shift, Step, PCs, Placed, Destroying, Inv
  <1>4. q \in Request /\ q.pc = to /\ Rest(q, r)
    BY <1>3, Moved
  <1>5. call' = [call EXCEPT ![c] = q] /\ begun' = [begun EXCEPT ![c] = seen]
    BY <1>1 DEF Step, Shift
  <1>6. Placed(q)
    <2> HIDE DEF q
    <2> QED
      BY <1>1, <1>3, <1>4 DEF Shift, Placed, Rest, OfChange, Destroying, Changes
  <1>7. /\ ignored \in SUBSET Unchecked /\ b.ignored \subseteq ignored /\ failed \subseteq ignored
    BY <1>3 DEF History
  <1> HIDE DEF q, ignored
  <1>8. seen \in History /\ seen.ignored = ignored /\ seen.alone = b.alone
    BY <1>3, <1>7 DEF History
  <1> HIDE DEF seen
  <1>9. ASSUME b.alone PROVE Gone(q, seen, guest, recorded')
    <2>1. Gone(r, b, guest, recorded)
      BY <1>3, <1>9, Caller
    <2>2. ~Exists => ~guest.def
      BY <1>3 DEF GuestOK, Exists
    <2> QED
      BY <1>1, <1>3, <1>4, <1>7, <1>8, <2>1, <2>2 DEF Shift, Gone, Exists
  <1>10. Good(q, seen, guest, recorded')
    BY <1>3, <1>4, <1>6, <1>8, <1>9 DEF Good, Rest, Changes
  <1>11. recorded' \in {recorded, FALSE} /\ ops' \in 0 .. MaxOps
    BY <1>1, <1>2 DEF Shift, Inv
  <1> QED
    BY <1>2, <1>4, <1>5, <1>8, <1>10, <1>11, QuietStep

LEMMA UndefineStep ==
  ASSUME Inv, NEW c \in Calls, Kill(c) \/ Undefine(c)
  PROVE  Inv'
  <1> DEFINE r == call[c]
             b == begun[c]
  <1>1. PICK from \in {"kill", "undefine"}, to \in {"again", "return"} :
           /\ Step(c, from, to)
           /\ <<from, to>> \in {<<"kill", "again">>, <<"undefine", "return">>}
           /\ from = "kill" => Kill(c)
           /\ from = "undefine" => Undefine(c)
    BY DEF Kill, Undefine
  <1> DEFINE q == [r EXCEPT !.pc = to]
  <1>2. /\ r.pc = from /\ Placed(r) /\ r \in Request /\ to \in PCs /\ r.op = "destroy"
        /\ recorded \in BOOLEAN /\ GuestOK(guest)
    BY <1>1, Caller DEF Step, PCs, Placed, Destroying, Inv
  <1>3. q \in Request /\ q.pc = to /\ Rest(q, r)
    BY <1>2, Moved
  <1>4. call' = [call EXCEPT ![c] = q]
    BY <1>1 DEF Step, Inv
  <1> HIDE DEF q
  <1>5. Disturbs(c) /\ recorded' = recorded /\ ops' = ops
    BY DEF Kill, Undefine
  <1>6. GuestOK(guest') /\ (to = "again" => guest'.run = "off")
        /\ (to = "return" => ~guest'.def)
        /\ (to = "return" /\ guest.run = "off" => guest'.uuid = None)
    <2>1. CASE from = "kill"
      BY <1>1, <1>2, <2>1, PoweredOffOK DEF Kill
    <2>2. CASE from = "undefine"
      <3>1. CASE guest.run = "off"
        <4>1. guest' = NoGuest
          BY <1>1, <2>2, <3>1 DEF Undefine
        <4>2. ~NoGuest.def
          BY DEF NoGuest
        <4> QED
          BY <1>1, <2>2, <4>1, <4>2, NoGuestOK
      <3>2. CASE guest.run # "off"
        <4>1. guest' = [guest EXCEPT !.def = FALSE, !.stored = Nothing]
          BY <1>1, <2>2, <3>2 DEF Undefine
        <4>2. /\ guest' \in Guest /\ guest'.uuid = guest.uuid /\ ~guest'.def
              /\ guest'.run = guest.run /\ guest'.stored = Nothing /\ guest'.live = guest.live
          BY <1>2, <4>1, NothingTyped DEF GuestOK, Guest
        <4> QED
          BY <1>1, <1>2, <2>2, <3>2, <4>2 DEF GuestOK
      <3> QED
        BY <3>1, <3>2
    <2> QED
      BY <2>1, <2>2
  <1>7. Placed(q)
    BY <1>1, <1>2, <1>3 DEF Placed, Rest, OfChange, Destroying, Changes
  <1>8. ASSUME b.alone PROVE Gone(q, b, guest', recorded')
    <2>1. Gone(r, b, guest, recorded)
      BY <1>2, <1>8, Caller
    <2> QED
      BY <1>1, <1>2, <1>3, <1>5, <1>6, <2>1 DEF Gone
  <1>9. Good(q, b, guest', recorded')
    BY <1>2, <1>3, <1>7, <1>8 DEF Good, Rest, Changes
  <1> QED
    BY <1>2, <1>3, <1>4, <1>5, <1>6, <1>9, LoudStep

(***************************************************************************)
(* The invariant.                                                          *)
(***************************************************************************)
LEMMA NextInv == Inv /\ [Next]_vars => Inv'
  <1> SUFFICES ASSUME Inv, [Next]_vars PROVE Inv'
    OBVIOUS
  <1>1. CASE Outside
    BY <1>1, OutsideStep
  <1>2. ASSUME NEW c \in Calls, Handle(c) PROVE Inv'
    BY <1>2, FailuresStep, MovesStep, ReadStep, ChangeCopyStep, SetInfoStep,
       TowardsDefineStep, LiveChangeStep, DefineStep, ResultStep, DestroyingStep,
       UndefineStep, ReturnStep DEF Handle
  <1>3. CASE UNCHANGED vars
    BY <1>3 DEF vars, Inv, Good, Placed, Progress, Gone, Applied, Copied, Reached, TheItem,
       CurrentOf, GuestOK
  <1> QED
    BY <1>1, <1>2, <1>3, RequestsStep DEF Next

LEMMA Invariant == Spec => []Inv
  BY InitInv, NextInv, PTL DEF Spec

\* Types, as get_dominfo and the handlers use them: a guest that is off has a
\* definition and nothing live.
THEOREM TypesCorrect == Spec => []TypeOK
  <1>1. Inv => TypeOK
    BY DEF Inv, TypeOK, GuestOK, Guest, Exists, Good, Placed, Request, Setting
  <1> QED
    BY <1>1, Invariant, PTL

\* A change during which nobody else changes the guest is in the definition, and
\* in the guest if it runs, and nothing else is changed, however many resources
\* the batch has and whatever fails (_update_resources_for, update_system_settings).
THEOREM ChangesApply == Spec => []AloneApplies
  <1>1. ASSUME Inv, NEW c \in Calls, call[c].pc = "return", begun[c].alone,
               call[c].op \in Changes \cup {"system"},
               NEW d \in Devices \ ((IF call[c].ok \/ call[c].items = <<>> THEN {}
                                     ELSE {Item(c)}) \cup {"proc"})
        PROVE  IF d \in {call[c].items[i] : i \in 1 .. (call[c].next - 1)}
               THEN /\ Current[d] = NewSetting(call[c].op, "absent")
                    /\ begun[c].run = "on" /\ d \notin Cold =>
                          guest.live[d] = NewSetting(call[c].op, "absent")
               ELSE Current[d] = begun[c].current[d] /\ guest.live[d] = begun[c].live[d]
    <2> DEFINE r == call[c]
    <2>1. Progress(r, begun[c], guest) /\ Placed(r)
      BY <1>1, Caller
    <2>2. r.op \in Changes => r.items # <<>>
      BY <2>1 DEF Placed, Batches
    <2>3. d \notin (IF r.ok \/ r.op = "system" THEN {} ELSE {TheItem(r)}) \cup {"proc"}
      BY <1>1, <2>2 DEF Item, TheItem
    <2>4. Applied(r.op, begun[c], guest, Reached(r),
                  IF r.ok \/ r.op = "system" THEN {} ELSE {TheItem(r)})
      BY <1>1, <2>1 DEF Progress
    <2> QED
      BY <1>1, <2>3, <2>4, CurrentTyped DEF Applied, Reached, Wanted
  <1>2. Inv => AloneApplies
    BY <1>1 DEF AloneApplies
  <1> QED
    BY <1>2, Invariant, PTL

\* DestroySystem that reports success and that nobody disturbs has left no record,
\* no definition and no guest, but for the calls whose failing destroy_system does
\* not look at: infostore_delete, virDomainDestroy and the second
\* virDomainLookupByName.
THEOREM DestroyedStaysGone == Spec => []DestroyedIsGone
  <1>1. Inv => DestroyedIsGone
    BY DEF Inv, Good, Gone, DestroyedIsGone, Exists
  <1> QED
    BY <1>1, Invariant, PTL
=============================================================================
