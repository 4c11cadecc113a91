--------------------------- MODULE Filters_proofs ---------------------------
(***************************************************************************)
(* Theorems about Filters, for every set of requests, names, interfaces    *)
(* and rules, and every bound.                                             *)
(***************************************************************************)
EXTENDS Filters, FiniteSetTheorems, TLAPS

FilterType == [id : Nat, refs : SUBSET Names, twice : BOOLEAN, rules : SUBSET Rules]
NetType == [Devs -> Names \cup {NoName}]
Ops == Listings \cup DOMAIN IfFound
Answers == Names \cup {Entry(rule) : rule \in Rules}
CallType == [pc : Places, op : Ops, n : Names \cup {NoName}, m : Names \cup {NoName},
             dev : Devs \cup {NoName}, id : Nat, refs : SUBSET Names,
             net : NetType \cup {<<>>}, room : Nat, todo : SUBSET Names,
             got : SUBSET Answers, steady : SUBSET Names, alone : BOOLEAN,
             churn : BOOLEAN]

\* What a request is for, and what it has, where it stands.
Placed(r) ==
    /\ r.pc = "look" => r.op \in DOMAIN IfFound
    /\ r.pc \in {"look", "child", "define", "undefine", "redefine"} => r.n \in Names
    /\ r.pc = "look" => r.refs = {} /\ r.id = 0
    /\ r.pc \in {"look", "child", "define"} /\ r.op \in {"nest", "unnest"} => r.m \in Names
    /\ r.pc = "child" => r.op \in {"nest", "unnest"} /\ r.id # 0
    /\ r.pc = "define" => /\ r.op \in {"create", "nest", "unnest"}
                          /\ r.op = "create" <=> r.id = 0
                          /\ r.op = "create" => r.refs = {}
    /\ r.pc \in {"look", "domain", "redefine"} /\ r.op \in {"apply", "unapply"} => r.dev \in Devs
    /\ r.pc \in {"domain", "redefine"} => r.op \in {"apply", "unapply"} /\ r.n \in Names
    /\ r.pc = "redefine" => r.net \in NetType
    /\ r.pc = "net" => r.dev \in Devs /\ r.op = "lists" /\ r.refs = {} /\ r.id = 0
    /\ r.pc \in {"count", "list"} => r.op \in Listings
    /\ r.pc = "fetch" => r.op \in Listings \cup {"children"}

\* What a request that nobody disturbed has read is still so.
Undisturbed(r, F, g) ==
    r.alone =>
    /\ r.pc = "child" => r.id = F[r.n].id /\ r.refs = F[r.n].refs
    /\ r.pc = "define" /\ r.op # "create" =>
          /\ r.id = F[r.n].id
          /\ r.refs = IF r.op = "nest" THEN F[r.n].refs \cup {r.m} ELSE F[r.n].refs \ {r.m}
    /\ r.pc = "redefine" => r.net = g.net

\* What a list has so far, and what it will come to.
Present(F) == {n \in Names : F[n].id # 0}
Legible(f) == f.id # 0 /\ ~f.twice
Offers(r, n, F) ==
    CASE r.op \in {"enum", "children"} -> {n}
      [] r.op = "parents" -> IF r.m \in F[n].refs THEN {n} ELSE {}
      [] r.op = "entries" -> {Entry(rule) : rule \in F[n].rules}
      [] OTHER -> IF n = r.m /\ F[n].rules # {} THEN {n} ELSE {}
Gathered(r, F) ==
    /\ r.op \in Listings /\ ~r.churn /\ r.pc \in {"count", "list", "fetch"} =>
          /\ \A n \in Present(F) : ~F[n].twice
          /\ r.pc = "list" => r.steady \subseteq Present(F) /\ Cardinality(Present(F)) = r.room
          /\ r.pc = "fetch" =>
                /\ r.todo \subseteq Present(F)
                /\ \A n \in r.steady : n \in r.todo \/ Offers(r, n, F) \subseteq r.got
    /\ r.op = "children" /\ r.pc = "fetch" =>
          \A n \in r.steady \cap r.refs : Legible(F[n]) => n \in r.todo \cup r.got

Sound(r, F, g) == Placed(r) /\ Undisturbed(r, F, g) /\ Gathered(r, F)

World ==
    /\ filter \in [Names -> FilterType] /\ LoopFree(filter)
    /\ guest \in [there : BOOLEAN, net : NetType]
    /\ made \in Nat
    /\ \A n \in Names : filter[n].id <= made /\ (filter[n].id = 0 => filter[n] = NoFilter)

Requested ==
    /\ call \in [Calls -> CallType]
    /\ \A c \in Calls : call[c].id <= made /\ Sound(call[c], filter, guest)

Inv == World /\ Requested

LEMMA CallerHas ==
  ASSUME Inv, NEW c \in Calls
  PROVE  /\ call[c] \in CallType /\ call[c].id <= made /\ made \in Nat
         /\ Placed(call[c]) /\ Undisturbed(call[c], filter, guest)
         /\ Gathered(call[c], filter)
  BY DEF Inv, World, Requested, Sound

LEMMA NoCallHas ==
  /\ NoCall \in CallType /\ NoCall.pc = "idle" /\ NoCall.id = 0
  /\ [NoCall EXCEPT !.pc = "done"] \in CallType
  /\ [NoCall EXCEPT !.pc = "done"].pc = "done" /\ [NoCall EXCEPT !.pc = "done"].id = 0
  BY DEF NoCall, CallType, Places, Ops, IfFound

LEMMA RestSound ==
  ASSUME NEW r \in CallType, r.pc \in {"idle", "done"}, NEW F, NEW g
  PROVE  Sound(r, F, g)
  BY DEF Sound, Placed, Undisturbed, Gathered

\* All but the position.
Same(q, r) ==
    /\ q.op = r.op /\ q.n = r.n /\ q.m = r.m /\ q.dev = r.dev /\ q.id = r.id
    /\ q.refs = r.refs /\ q.net = r.net /\ q.room = r.room /\ q.todo = r.todo
    /\ q.got = r.got /\ q.steady = r.steady /\ q.alone = r.alone /\ q.churn = r.churn

LEMMA MovedHas ==
  ASSUME NEW r \in CallType, NEW to \in Places \cup {"failed"}
  PROVE  LET q == Moved(r, to) IN
         /\ q \in CallType
         /\ to \in {"done", "failed"} => q.pc \in {"idle", "done"} /\ q.id = 0
         /\ to \notin {"done", "failed"} => q.pc = to /\ Same(q, r)
         /\ q.pc = "done" => to = "done"
  <1>1. CASE to = "failed"
    BY <1>1, NoCallHas DEF Moved
  <1>2. CASE to = "done"
    BY <1>2, NoCallHas DEF Moved
  <1>3. CASE to \notin {"done", "failed"}
    <2> DEFINE q == [r EXCEPT !.pc = to]
    <2>1. Moved(r, to) = q
      BY <1>3 DEF Moved
    <2>2. q \in CallType /\ q.pc = to /\ Same(q, r)
      BY <1>3 DEF CallType, Same
    <2> HIDE DEF q
    <2> QED
      BY <1>3, <2>1, <2>2
  <1> QED
    BY <1>1, <1>2, <1>3

LEMMA OffersAdds ==
  ASSUME NEW r, NEW n, r.op \in Listings \cup {"children"}
  PROVE  Adds(r, n) = Offers(r, n, filter)
  BY DEF Adds, Offers, Listings

LEMMA InitInv == Init => Inv
  <1> SUFFICES ASSUME Init PROVE Inv
    OBVIOUS
  <1>1. World
    <2>1. NoFilter \in FilterType /\ NoFilter.id = 0
      BY DEF NoFilter, FilterType
    <2>2. \A R \in {{}} \cup {{n} : n \in Names} :
            [id |-> 1, refs |-> R, twice |-> FALSE, rules |-> Rules] \in FilterType
      BY DEF FilterType
    <2>3. filter \in [Names -> FilterType] /\ made = 1
      BY <2>1, <2>2 DEF Init
    <2>4. \A n \in Names : filter[n] = NoFilter \/ filter[n].id = 1
      BY <2>1 DEF Init
    <2>5. \A n \in Names : filter[n].id <= made /\ (filter[n].id = 0 => filter[n] = NoFilter)
      BY <2>1, <2>3, <2>4
    <2> QED
      BY <2>3, <2>5 DEF World, Init, NetType
  <1>2. Requested
    BY NoCallHas, RestSound DEF Init, Requested
  <1> QED
    BY <1>1, <1>2 DEF Inv

-----------------------------------------------------------------------------
(***************************************************************************)
(* A step that only a request notices.                                     *)
(***************************************************************************)
LEMMA LocalStep ==
  ASSUME Inv, NEW c \in Calls, NEW q \in CallType, q.id <= made, Sound(q, filter, guest),
         call' = [call EXCEPT ![c] = q], UNCHANGED <<filter, guest, made>>
  PROVE  Inv'
  <1>1. World'
    BY DEF Inv, World, LoopFree
  <1>2. call' \in [Calls -> CallType] /\ call'[c] = q
        /\ \A d \in Calls \ {c} : call'[d] = call[d]
    BY DEF Inv, Requested
  <1>3. Requested'
    BY <1>2 DEF Inv, Requested
  <1> QED
    BY <1>1, <1>3 DEF Inv

LEMMA GoesRest ==
  ASSUME Inv, NEW c \in Calls, NEW r \in CallType, NEW to \in {"done", "failed"},
         Goes(c, r, to)
  PROVE  Inv'
  <1> DEFINE q == Moved(r, to)
  <1>1. q \in CallType /\ q.pc \in {"idle", "done"} /\ q.id = 0
    BY MovedHas DEF Places
  <1>2. q.id <= made
    BY <1>1, CallerHas
  <1> HIDE DEF q
  <1>3. Sound(q, filter, guest)
    BY <1>1, RestSound
  <1> QED
    BY <1>1, <1>2, <1>3, LocalStep DEF Goes, q

LEMMA GoesOn ==
  ASSUME Inv, NEW c \in Calls, NEW r \in CallType, NEW to \in Places \ {"done"},
         Goes(c, r, to), r.id <= made,
         \A q \in CallType : q.pc = to /\ Same(q, r) => Sound(q, filter, guest)
  PROVE  Inv'
  <1> DEFINE q == Moved(r, to)
  <1>1. to \notin {"done", "failed"}
    BY DEF Places
  <1>2. q \in CallType /\ q.pc = to /\ Same(q, r)
    BY <1>1, MovedHas
  <1>3. q.id <= made
    BY <1>2 DEF Same
  <1> HIDE DEF q
  <1> QED
    BY <1>2, <1>3, LocalStep DEF Goes, q

(***************************************************************************)
(* A change of one filter, or of the guest, and the other requests.        *)
(***************************************************************************)
LEMMA MetSound ==
  ASSUME Inv, NEW r \in CallType, Sound(r, filter, guest), NEW n \in Names, NEW f \in FilterType,
         f.id = 0 => f = NoFilter
  PROVE  /\ Met(r, n, f) \in CallType /\ Met(r, n, f).id = r.id
         /\ Met(r, n, f).pc = r.pc
         /\ Sound(Met(r, n, f), [filter EXCEPT ![n] = f], guest)
  <1> DEFINE F == [filter EXCEPT ![n] = f]
             q == [r EXCEPT !.alone = FALSE,
                            !.steady = IF f = filter[n] THEN @ ELSE @ \ {n},
                            !.churn = \/ @
                                      \/ /\ r.op \in Listings
                                         /\ \/ f.twice \/ f.id = 0
                                            \/ filter[n].id = 0 /\ r.pc = "list"]
  <1>1. CASE ~Running(r)
    BY <1>1, RestSound DEF Met, Running
  <1>2. CASE Running(r)
    <2>1. Met(r, n, f) = q
      BY <1>2 DEF Met
    <2>2. /\ q \in CallType /\ q.pc = r.pc /\ q.op = r.op /\ q.n = r.n /\ q.m = r.m
          /\ q.dev = r.dev /\ q.id = r.id /\ q.refs = r.refs /\ q.net = r.net
          /\ q.room = r.room /\ q.todo = r.todo /\ q.got = r.got /\ ~q.alone
          /\ q.steady = IF f = filter[n] THEN r.steady ELSE r.steady \ {n}
          /\ q.churn <=> \/ r.churn
                         \/ /\ r.op \in Listings
                            /\ \/ f.twice \/ f.id = 0
                               \/ (filter[n].id = 0 /\ r.pc = "list")
      BY DEF CallType, FilterType
    <2> HIDE DEF q
    <2>3. F[n] = f /\ \A m \in Names \ {n} : F[m] = filter[m]
      BY DEF Inv, World
    <2> HIDE DEF F
    <2>4. Placed(q)
      BY <2>2 DEF Sound, Placed
    <2>5. Undisturbed(q, F, guest)
      BY <2>2 DEF Undisturbed
    <2>6. ASSUME q.op \in Listings, ~q.churn, q.pc \in {"count", "list", "fetch"}
          PROVE  /\ \A m \in Present(F) : ~F[m].twice
                 /\ q.pc = "list" => /\ q.steady \subseteq Present(F)
                                     /\ Cardinality(Present(F)) = q.room
                 /\ q.pc = "fetch" =>
                       /\ q.todo \subseteq Present(F)
                       /\ \A m \in q.steady : m \in q.todo \/ Offers(q, m, F) \subseteq q.got
      <3>1. /\ ~r.churn /\ ~f.twice /\ f.id # 0 /\ (r.pc = "list" => filter[n].id # 0)
            /\ r.op \in Listings /\ r.pc \in {"count", "list", "fetch"}
        BY <2>2, <2>6
      <3>2. /\ \A m \in Present(filter) : ~filter[m].twice
            /\ r.pc = "list" => /\ r.steady \subseteq Present(filter)
                                /\ Cardinality(Present(filter)) = r.room
            /\ r.pc = "fetch" =>
                  /\ r.todo \subseteq Present(filter)
                  /\ \A m \in r.steady : m \in r.todo \/ Offers(r, m, filter) \subseteq r.got
        BY <3>1 DEF Sound, Gathered
      <3>3. Present(F) = Present(filter) \cup {n}
        BY <2>3, <3>1 DEF Present
      <3>4. r.pc = "list" => Present(F) = Present(filter)
        BY <3>1, <3>3 DEF Present
      <3>5. \A m \in Present(F) : ~F[m].twice
        BY <2>3, <3>1, <3>2, <3>3 DEF Present
      <3>6. \A m \in q.steady : m \in Names /\ F[m] = filter[m] /\ m \in r.steady
        BY <2>2, <2>3 DEF CallType
      <3>7. \A m \in q.steady : Offers(q, m, F) = Offers(r, m, filter)
        BY <2>2, <3>6 DEF Offers
      <3>8. q.pc = "list" => /\ q.steady \subseteq Present(F)
                             /\ Cardinality(Present(F)) = q.room
        BY <2>2, <3>2, <3>4, <3>6
      <3>9. q.pc = "fetch" =>
                       /\ q.todo \subseteq Present(F)
                       /\ \A m \in q.steady : m \in q.todo \/ Offers(q, m, F) \subseteq q.got
        BY <2>2, <3>2, <3>3, <3>6, <3>7
      <3> QED
        BY <3>5, <3>8, <3>9
    <2>7. ASSUME q.op = "children", q.pc = "fetch", NEW m \in q.steady \cap q.refs,
                 Legible(F[m])
          PROVE  m \in q.todo \cup q.got
      <3>1. m \in r.steady \cap r.refs /\ F[m] = filter[m]
        BY <2>2, <2>3, <2>7 DEF CallType
      <3> QED
        BY <2>2, <2>7, <3>1 DEF Sound, Gathered
    <2> QED
      BY <2>1, <2>2, <2>4, <2>5, <2>6, <2>7 DEF Sound, Gathered, F
  <1> QED
    BY <1>1, <1>2

LEMMA ChangeStep ==
  ASSUME Inv, NEW who, NEW after \in CallType, NEW n \in Names, NEW f \in FilterType,
         Change(who, after, n, f), f.id <= made', f.id = 0 => f = NoFilter,
         LoopFree([filter EXCEPT ![n] = f]), made' \in {made, made + 1},
         after.id = 0, after.pc \in {"idle", "done"}
  PROVE  Inv'
  <1> DEFINE F == [filter EXCEPT ![n] = f]
  <1>1. filter' = F /\ guest' = guest
    BY DEF Change
  <1>2. made \in Nat /\ made' \in Nat /\ made <= made'
    BY DEF Inv, World
  <1>3. F \in [Names -> FilterType] /\ F[n] = f /\ \A m \in Names \ {n} : F[m] = filter[m]
    BY DEF Inv, World
  <1>4. World'
    <2>1. \A m \in Names : filter[m].id \in Nat
      BY DEF Inv, World, FilterType
    <2>2. \A m \in Names : F[m].id <= made' /\ (F[m].id = 0 => F[m] = NoFilter)
      BY <1>2, <1>3, <2>1 DEF Inv, World
    <2>3. LoopFree(F)
      OBVIOUS
    <2>4. LoopFree(F) = LoopFree(filter)'
      BY <1>1 DEF LoopFree
    <2> HIDE DEF F
    <2> QED
      BY <1>1, <1>2, <1>3, <2>2, <2>3, <2>4 DEF Inv, World
  <1>5. ASSUME NEW d \in Calls
        PROVE  call'[d] \in CallType /\ call'[d].id <= made' /\ Sound(call'[d], F, guest)
    <2>1. CASE d = who
      <3>1. call'[d] = after
        BY <2>1 DEF Change
      <3> QED
        BY <1>2, <3>1, RestSound
    <2>2. CASE d # who
      <3> DEFINE r == call[d]
      <3>1. call'[d] = Met(r, n, f)
        BY <2>2 DEF Change
      <3>2. r \in CallType /\ r.id <= made /\ r.id \in Nat /\ Sound(r, filter, guest)
        BY DEF Inv, Requested, CallType
      <3> HIDE DEF r
      <3>3. Met(r, n, f) \in CallType /\ Met(r, n, f).id = r.id /\ Sound(Met(r, n, f), F, guest)
        BY <3>2, MetSound
      <3> QED
        BY <1>2, <3>1, <3>2, <3>3
    <2> QED
      BY <2>1, <2>2
  <1>6. Requested'
    <2>1. call' = [c \in Calls |-> call'[c]]
      BY DEF Change
    <2> QED
      BY <1>1, <1>5, <2>1 DEF Requested
  <1> QED
    BY <1>4, <1>6 DEF Inv

LEMMA GuestStep ==
  ASSUME Inv, NEW who, NEW after \in CallType,
         NEW g \in [there : BOOLEAN, net : NetType],
         ChangeGuest(who, after, g), after.id = 0, after.pc \in {"idle", "done"},
         made' = made
  PROVE  Inv'
  <1>1. guest' = g /\ filter' = filter /\ made \in Nat
    BY DEF ChangeGuest, Inv, World
  <1>2. World'
    BY <1>1 DEF Inv, World, LoopFree
  <1>3. ASSUME NEW d \in Calls
        PROVE  call'[d] \in CallType /\ call'[d].id <= made /\ Sound(call'[d], filter, g)
    <2>1. CASE d = who
      <3>1. call'[d] = after
        BY <2>1 DEF ChangeGuest
      <3> QED
        BY <1>1, <3>1, RestSound
    <2>2. CASE d # who
      <3> DEFINE r == call[d]
                 q == [r EXCEPT !.alone = FALSE]
      <3>1. call'[d] = q
        BY <2>2 DEF ChangeGuest
      <3>2. r \in CallType /\ r.id <= made /\ Sound(r, filter, guest)
        BY DEF Inv, Requested
      <3>3. /\ q \in CallType /\ q.pc = r.pc /\ q.op = r.op /\ q.n = r.n /\ q.m = r.m
            /\ q.dev = r.dev /\ q.id = r.id /\ q.refs = r.refs /\ q.net = r.net
            /\ q.room = r.room /\ q.todo = r.todo /\ q.got = r.got /\ ~q.alone
            /\ q.steady = r.steady /\ q.churn = r.churn
        BY <3>2 DEF CallType
      <3> HIDE DEF r, q
      <3>4. Placed(q)
        BY <3>2, <3>3 DEF Sound, Placed
      <3>5. Undisturbed(q, filter, g)
        BY <3>3 DEF Undisturbed
      <3>6. Gathered(q, filter)
        <4>1. \A n : Offers(q, n, filter) = Offers(r, n, filter)
          BY <3>3 DEF Offers
        <4> QED
          BY <3>2, <3>3, <4>1 DEF Sound, Gathered
      <3> QED
        BY <3>1, <3>2, <3>3, <3>4, <3>5, <3>6 DEF Sound
    <2> QED
      BY <2>1, <2>2
  <1>4. call' = [c \in Calls |-> call'[c]]
    BY DEF ChangeGuest
  <1>5. Requested'
    BY <1>1, <1>3, <1>4 DEF Requested
  <1> QED
    BY <1>2, <1>5 DEF Inv

-----------------------------------------------------------------------------
(***************************************************************************)
(* The steps.                                                              *)
(***************************************************************************)
LEMMA OutsideStep == Inv /\ Outside => Inv'
  <1> SUFFICES ASSUME Inv, Outside PROVE Inv'
    OBVIOUS
  <1>1. CASE \E n \in Names : filter[n].id # 0 /\ Change("host", NoCall, n, NoFilter) /\ made' = made
    <2>1. PICK n \in Names : Change("host", NoCall, n, NoFilter) /\ made' = made
      BY <1>1
    <2>2. NoFilter \in FilterType /\ NoFilter.id = 0 /\ NoFilter.refs = {}
      BY DEF NoFilter, FilterType
    <2>3. LoopFree([filter EXCEPT ![n] = NoFilter])
      BY <2>2 DEF Inv, World, LoopFree
    <2>4. made \in Nat
      BY DEF Inv, World
    <2> QED
      BY <2>1, <2>2, <2>3, <2>4, NoCallHas, ChangeStep
  <1>2. CASE \E n, m \in Names, twice \in BOOLEAN :
               LET f == [id |-> IF filter[n].id = 0 THEN made + 1 ELSE filter[n].id,
                         refs |-> {m}, twice |-> twice, rules |-> Rules] IN
               /\ LoopFree([filter EXCEPT ![n] = f])
               /\ Change("host", NoCall, n, f)
               /\ made' = made + 1
    <2>1. PICK n, m \in Names, twice \in BOOLEAN :
               LET f == [id |-> IF filter[n].id = 0 THEN made + 1 ELSE filter[n].id,
                         refs |-> {m}, twice |-> twice, rules |-> Rules] IN
               /\ LoopFree([filter EXCEPT ![n] = f])
               /\ Change("host", NoCall, n, f)
               /\ made' = made + 1
      BY <1>2
    <2> DEFINE f == [id |-> IF filter[n].id = 0 THEN made + 1 ELSE filter[n].id,
                     refs |-> {m}, twice |-> twice, rules |-> Rules]
    <2>2. made \in Nat /\ filter[n].id \in Nat /\ filter[n].id <= made
      BY DEF Inv, World, FilterType
    <2>3. f \in FilterType /\ f.id <= made + 1 /\ f.id # 0
      BY <2>2 DEF FilterType
    <2>4. LoopFree([filter EXCEPT ![n] = f]) /\ Change("host", NoCall, n, f) /\ made' = made + 1
      BY <2>1
    <2> HIDE DEF f
    <2> QED
      BY <2>3, <2>4, NoCallHas, ChangeStep
  <1>3. CASE \E d \in Devs, n \in Names :
               ChangeGuest("host", NoCall, [guest EXCEPT !.net[d] = n]) /\ made' = made
    <2>1. PICK d \in Devs, n \in Names :
               ChangeGuest("host", NoCall, [guest EXCEPT !.net[d] = n]) /\ made' = made
      BY <1>3
    <2>2. [guest EXCEPT !.net[d] = n] \in [there : BOOLEAN, net : NetType]
      BY DEF Inv, World, NetType
    <2> QED
      BY <2>1, <2>2, NoCallHas, GuestStep
  <1>4. CASE /\ ChangeGuest("host", NoCall, [there |-> ~guest.there, net |-> [d \in Devs |-> NoName]])
             /\ made' = made
    <2>1. [there |-> ~guest.there, net |-> [d \in Devs |-> NoName]]
            \in [there : BOOLEAN, net : NetType]
      BY DEF Inv, World, NetType
    <2> QED
      BY <1>4, <2>1, NoCallHas, GuestStep
  <1> QED
    BY <1>1, <1>2, <1>3, <1>4 DEF Outside

LEMMA BeginStep ==
  ASSUME Inv, NEW c \in Calls, NEW r \in CallType, r.id = 0, Placed(r),
         r.pc \in {"idle", "look", "net", "count"}, Begin(c, r)
  PROVE  Inv'
  <1> DEFINE steady == IF r.op = "children" THEN There ELSE {}
             alone == r.op \in Changing
             churn == r.op \in Listings /\ \E n \in There : filter[n].twice
             q == [r EXCEPT !.steady = steady, !.alone = alone, !.churn = churn]
  <1>1. call' = [call EXCEPT ![c] = q] /\ UNCHANGED <<filter, guest, made>>
    BY DEF Begin
  <1>2. steady \in SUBSET Names /\ alone \in BOOLEAN /\ churn \in BOOLEAN
    BY DEF There
  <1>0. churn <=> r.op \in Listings /\ \E n \in There : filter[n].twice
    OBVIOUS
  <1> HIDE DEF steady, alone, churn
  <1>3. /\ q \in CallType /\ q.pc = r.pc /\ q.op = r.op /\ q.n = r.n /\ q.m = r.m
        /\ q.dev = r.dev /\ q.id = r.id /\ q.refs = r.refs /\ q.net = r.net
        /\ q.churn = churn
    BY <1>2 DEF CallType
  <1> HIDE DEF q
  <1>4. Placed(q)
    BY <1>3 DEF Placed
  <1>5. Gathered(q, filter)
    BY <1>0, <1>3 DEF Gathered, Present, There
  <1>6. Undisturbed(q, filter, guest)
    BY <1>3 DEF Undisturbed
  <1>7. q.id <= made
    BY <1>3, CallerHas
  <1> QED
    BY <1>1, <1>3, <1>4, <1>5, <1>6, <1>7, LocalStep DEF Sound

LEMMA LookupHas ==
  ASSUME NEW op \in DOMAIN IfFound, NEW n \in Names \cup {NoName}
  PROVE  LET r == Lookup(op, n) IN
         /\ r \in CallType /\ r.pc = "look" /\ r.op = op /\ r.n = n /\ r.id = 0 /\ r.refs = {}
         /\ n \in Names /\ op \notin {"nest", "unnest", "apply", "unapply"} => Placed(r)
  <1> DEFINE r == Lookup(op, n)
  <1>1. r \in CallType /\ r.pc = "look" /\ r.op = op /\ r.n = n /\ r.id = 0 /\ r.refs = {}
    BY NoCallHas DEF Lookup, NoCall, CallType, Places, Ops
  <1> HIDE DEF r
  <1> QED
    BY <1>1 DEF Placed, r

LEMMA RequestsStep ==
  ASSUME Inv, NEW c \in Calls, Requests(c)
  PROVE  Inv'
  <1>1. ASSUME Begin(c, NoCall) PROVE Inv'
    <2>1. Placed(NoCall)
      BY NoCallHas DEF Placed
    <2> QED
      BY <1>1, <2>1, NoCallHas, BeginStep
  <1>2. ASSUME NEW op \in DOMAIN IfFound, op \notin {"nest", "unnest", "apply", "unapply"},
               NEW n \in Names, Begin(c, Lookup(op, n))
        PROVE  Inv'
    BY <1>2, LookupHas, BeginStep
  <1>3. ASSUME NEW op \in {"nest", "unnest"}, NEW n \in Names, NEW m \in Names,
               Begin(c, [Lookup(op, n) EXCEPT !.m = m])
        PROVE  Inv'
    <2> DEFINE r == Lookup(op, n)
               q == [r EXCEPT !.m = m]
    <2>1. /\ r \in CallType /\ r.pc = "look" /\ r.op = op /\ r.n = n /\ r.id = 0
          /\ r.refs = {} /\ op \in DOMAIN IfFound
      <3>1. op \in DOMAIN IfFound
        BY DEF IfFound
      <3> QED
        BY <3>1, LookupHas
    <2> HIDE DEF r
    <2>2. /\ q \in CallType /\ q.pc = "look" /\ q.op = op /\ q.n = n /\ q.id = 0
          /\ q.refs = {} /\ q.m = m
      BY <2>1 DEF CallType
    <2>3. Begin(c, q)
      BY <1>3 DEF r
    <2> HIDE DEF q
    <2>4. Placed(q)
      BY <2>1, <2>2 DEF Placed
    <2> QED
      BY <2>2, <2>3, <2>4, BeginStep
  <1>4. ASSUME NEW op \in {"apply", "unapply"}, NEW n \in Names, NEW d \in Devs,
               Begin(c, [Lookup(op, n) EXCEPT !.dev = d])
        PROVE  Inv'
    <2> DEFINE r == Lookup(op, n)
               q == [r EXCEPT !.dev = d]
    <2>1. /\ r \in CallType /\ r.pc = "look" /\ r.op = op /\ r.n = n /\ r.id = 0
          /\ r.refs = {} /\ op \in DOMAIN IfFound
      <3>1. op \in DOMAIN IfFound
        BY DEF IfFound
      <3> QED
        BY <3>1, LookupHas
    <2> HIDE DEF r
    <2>2. /\ q \in CallType /\ q.pc = "look" /\ q.op = op /\ q.n = n /\ q.id = 0
          /\ q.refs = {} /\ q.dev = d
      BY <2>1 DEF CallType
    <2>3. Begin(c, q)
      BY <1>4 DEF r
    <2> HIDE DEF q
    <2>4. Placed(q)
      BY <2>1, <2>2 DEF Placed
    <2> QED
      BY <2>2, <2>3, <2>4, BeginStep
  <1>5. ASSUME NEW op \in Listings, NEW m \in Names \cup {NoName}, Begin(c, Listing(op, m))
        PROVE  Inv'
    <2> DEFINE q == Listing(op, m)
    <2>1. q \in CallType /\ q.pc = "count" /\ q.op = op /\ q.id = 0
      BY NoCallHas DEF Listing, CallType, Places, Ops
    <2> HIDE DEF q
    <2>2. Placed(q)
      BY <2>1 DEF Placed
    <2> QED
      BY <1>5, <2>1, <2>2, BeginStep DEF q
  <1>6. ASSUME NEW d \in Devs,
               Begin(c, [Lookup("lists", NoName) EXCEPT !.pc = "net", !.dev = d])
        PROVE  Inv'
    <2> DEFINE r == Lookup("lists", NoName)
               q == [r EXCEPT !.pc = "net", !.dev = d]
    <2>1. r \in CallType /\ r.op = "lists" /\ r.id = 0 /\ r.refs = {}
      <3>1. "lists" \in DOMAIN IfFound
        BY DEF IfFound
      <3> QED
        BY <3>1, LookupHas
    <2> HIDE DEF r
    <2>2. /\ q \in CallType /\ q.pc = "net" /\ q.op = "lists" /\ q.id = 0 /\ q.refs = {}
          /\ q.dev = d
      BY <2>1 DEF CallType, Places
    <2>3. Begin(c, q)
      BY <1>6 DEF r
    <2> HIDE DEF q
    <2>4. Placed(q)
      BY <2>2 DEF Placed
    <2> QED
      BY <2>2, <2>3, <2>4, BeginStep
  <1>7. CASE BadRequest(c) \/ get_rule_by_ref(c)
    BY <1>1, <1>7 DEF BadRequest, get_rule_by_ref
  <1>8. CASE \/ CreateFilter(c) \/ DeleteFilter(c) \/ get_filter_by_ref(c) \/ list_to_rule(c)
             \/ parent_to_child(c) \/ list_to_net(c)
    BY <1>2, <1>8 DEF CreateFilter, DeleteFilter, get_filter_by_ref, list_to_rule,
       parent_to_child, list_to_net, IfFound
  <1>9. CASE CreateNested(c) \/ DeleteNested(c)
    BY <1>3, <1>9 DEF CreateNested, DeleteNested
  <1>10. CASE CreateApplied(c) \/ DeleteApplied(c)
    BY <1>4, <1>10 DEF CreateApplied, DeleteApplied
  <1>11. CASE net_to_list(c)
    BY <1>6, <1>11 DEF net_to_list
  <1>12. CASE \/ enum_filter_lists(c) \/ enum_filter_rules(c) \/ child_to_parent(c)
              \/ rule_to_list(c)
    BY <1>5, <1>12 DEF enum_filter_lists, enum_filter_rules, child_to_parent, rule_to_list,
       Listings
  <1> QED
    BY <1>7, <1>8, <1>9, <1>10, <1>11, <1>12 DEF Requests

\* What is read of a filter that is found.
LEMMA ReadHas ==
  ASSUME Inv, NEW r \in CallType, r.n \in Names
  PROVE  LET q == Read(r) IN
         /\ q \in CallType /\ q.pc = r.pc /\ q.op = r.op /\ q.n = r.n /\ q.m = r.m
         /\ q.dev = r.dev /\ q.net = r.net /\ q.room = r.room /\ q.got = r.got
         /\ q.steady = r.steady /\ q.alone = r.alone /\ q.churn = r.churn
         /\ q.id <= made
         /\ q.op \in {"nest", "unnest"} => q.id = filter[r.n].id /\ q.refs = filter[r.n].refs
         /\ q.op = "children" => q.todo = q.refs
  <1>1. filter[r.n] \in FilterType /\ filter[r.n].id <= made
    BY DEF Inv, World
  <1> DEFINE id == IF r.op \in {"nest", "unnest"} THEN filter[r.n].id ELSE 0
             refs == IF r.op \in {"nest", "unnest", "children"} THEN filter[r.n].refs
                     ELSE {}
             todo == IF r.op = "children" THEN filter[r.n].refs ELSE {}
             q == [r EXCEPT !.id = id, !.refs = refs, !.todo = todo]
  <1>2. filter[r.n].id \in Nat /\ filter[r.n].refs \in SUBSET Names /\ made \in Nat
    BY <1>1 DEF FilterType, Inv, World
  <1>3. /\ id \in Nat /\ id <= made /\ refs \in SUBSET Names /\ todo \in SUBSET Names
        /\ r.op \in {"nest", "unnest"} => id = filter[r.n].id /\ refs = filter[r.n].refs
        /\ r.op = "children" => todo = refs
    BY <1>1, <1>2
  <1>4. Read(r) = q
    BY DEF Read
  <1> HIDE DEF id, refs, todo
  <1>5. /\ q \in CallType /\ q.pc = r.pc /\ q.op = r.op /\ q.n = r.n /\ q.m = r.m
        /\ q.dev = r.dev /\ q.net = r.net /\ q.room = r.room /\ q.got = r.got
        /\ q.steady = r.steady /\ q.alone = r.alone /\ q.churn = r.churn
        /\ q.id = id /\ q.refs = refs /\ q.todo = todo
    BY <1>3 DEF CallType
  <1> QED
    BY <1>3, <1>4, <1>5

LEMMA LookStep ==
  ASSUME Inv, NEW c \in Calls, Look(c)
  PROVE  Inv'
  <1> DEFINE r == call[c]
  <1>1. /\ r \in CallType /\ r.pc = "look" /\ Placed(r) /\ r.id <= made
        /\ r.n \in Names /\ r.op \in DOMAIN IfFound /\ r.refs = {} /\ r.id = 0
    BY CallerHas DEF Look, At, Placed
  <1>2. PICK found \in Found(r.n) :
          IF found THEN Goes(c, Read(r), IfFound[r.op]) ELSE Goes(c, r, IfMissing[r.op])
    BY DEF Look
  <1>3. CASE found
    <2> DEFINE q == Read(r)
    <2>1. /\ q \in CallType /\ q.pc = r.pc /\ q.op = r.op /\ q.n = r.n /\ q.m = r.m
          /\ q.dev = r.dev /\ q.net = r.net /\ q.room = r.room /\ q.got = r.got
          /\ q.steady = r.steady /\ q.alone = r.alone /\ q.churn = r.churn
          /\ q.id <= made
          /\ q.op \in {"nest", "unnest"} => q.id = filter[r.n].id /\ q.refs = filter[r.n].refs
          /\ q.op = "children" => q.todo = q.refs
      BY <1>1, ReadHas
    <2>2. filter[r.n].id # 0 /\ Goes(c, q, IfFound[q.op])
      BY <1>2, <1>3, <2>1 DEF Found, Readable
    <2> HIDE DEF q
    <2>3. CASE q.op \in {"create", "get", "nets", "lists", "rules"}
      BY <2>1, <2>2, <2>3, GoesRest DEF IfFound
    <2>4. CASE q.op = "delete"
      <3>1. IfFound[q.op] = "undefine" /\ "undefine" \in Places \ {"done"}
        BY <2>4 DEF IfFound, Places
      <3>2. ASSUME NEW s \in CallType, s.pc = "undefine", Same(s, q)
            PROVE  Sound(s, filter, guest)
        BY <1>1, <2>1, <2>4, <3>2 DEF Sound, Placed, Undisturbed, Gathered, Same
      <3> QED
        BY <2>1, <2>2, <3>1, <3>2, GoesOn
    <2>5. CASE q.op \in {"nest", "unnest"}
      <3>1. IfFound[q.op] = "child" /\ "child" \in Places \ {"done"}
        BY <2>5 DEF IfFound, Places
      <3>2. ASSUME NEW s \in CallType, s.pc = "child", Same(s, q)
            PROVE  Sound(s, filter, guest)
        BY <1>1, <2>1, <2>2, <2>5, <3>2 DEF Sound, Placed, Undisturbed, Gathered, Same
      <3> QED
        BY <2>1, <2>2, <3>1, <3>2, GoesOn
    <2>6. CASE q.op \in {"apply", "unapply"}
      <3>1. IfFound[q.op] = "domain" /\ "domain" \in Places \ {"done"}
        BY <2>6 DEF IfFound, Places
      <3>2. ASSUME NEW s \in CallType, s.pc = "domain", Same(s, q)
            PROVE  Sound(s, filter, guest)
        BY <1>1, <2>1, <2>2, <2>6, <3>2 DEF Sound, Placed, Undisturbed, Gathered, Same
      <3> QED
        BY <2>1, <2>2, <3>1, <3>2, GoesOn
    <2>7. CASE q.op = "children"
      <3>1. IfFound[q.op] = "fetch" /\ "fetch" \in Places \ {"done"}
        BY <2>7 DEF IfFound, Places
      <3>2. ASSUME NEW s \in CallType, s.pc = "fetch", Same(s, q)
            PROVE  Sound(s, filter, guest)
        BY <1>1, <2>1, <2>2, <2>7, <3>2 DEF Sound, Placed, Undisturbed, Gathered, Same,
           Listings
      <3> QED
        BY <2>1, <2>2, <3>1, <3>2, GoesOn
    <2> QED
      BY <1>1, <2>1, <2>3, <2>4, <2>5, <2>6, <2>7 DEF IfFound
  <1>4. CASE ~found
    <2>1. Goes(c, r, IfMissing[r.op])
      BY <1>2, <1>4
    <2>2. CASE r.op = "create"
      <3>1. IfMissing[r.op] = "define" /\ "define" \in Places \ {"done"}
        BY <1>1, <2>2 DEF IfMissing, IfFound, Places
      <3>2. ASSUME NEW s \in CallType, s.pc = "define", Same(s, r)
            PROVE  Sound(s, filter, guest)
        BY <1>1, <2>2, <3>2 DEF Sound, Placed, Undisturbed, Gathered, Same
      <3> QED
        BY <1>1, <2>1, <3>1, <3>2, GoesOn
    <2>3. CASE r.op # "create"
      <3>1. IfMissing[r.op] \in {"done", "failed"}
        BY <1>1, <2>3 DEF IfMissing
      <3> QED
        BY <1>1, <2>1, <3>1, GoesRest
    <2> QED
      BY <2>2, <2>3
  <1> QED
    BY <1>3, <1>4

LEMMA LookChildStep ==
  ASSUME Inv, NEW c \in Calls, LookChild(c)
  PROVE  Inv'
  <1> DEFINE r == call[c]
             q == [r EXCEPT !.refs = IF r.op = "nest" THEN @ \cup {r.m} ELSE @ \ {r.m}]
  <1>1. /\ r \in CallType /\ r.pc = "child" /\ Placed(r) /\ r.id <= made
        /\ Undisturbed(r, filter, guest) /\ r.n \in Names /\ r.m \in Names
        /\ r.op \in {"nest", "unnest"} /\ r.id # 0
    BY CallerHas DEF LookChild, At, Placed
  <1>2. \/ Goes(c, q, "define") \/ Goes(c, q, "failed")
    BY DEF LookChild
  <1>3. /\ q \in CallType /\ q.op = r.op /\ q.n = r.n /\ q.m = r.m /\ q.id = r.id
        /\ q.alone = r.alone
        /\ q.refs = IF r.op = "nest" THEN r.refs \cup {r.m} ELSE r.refs \ {r.m}
    BY <1>1 DEF CallType
  <1> HIDE DEF q
  <1>4. CASE Goes(c, q, "define")
    <2>1. ASSUME NEW s \in CallType, s.pc = "define", Same(s, q)
          PROVE  Sound(s, filter, guest)
      BY <1>1, <1>3, <2>1 DEF Sound, Placed, Undisturbed, Gathered, Same, Listings
    <2> QED
      BY <1>1, <1>3, <1>4, <2>1, GoesOn DEF Places
  <1>5. CASE Goes(c, q, "failed")
    BY <1>3, <1>5, GoesRest
  <1> QED
    BY <1>2, <1>4, <1>5

\* What is defined.
LEMMA WrittenHas ==
  ASSUME Inv, NEW c \in Calls, At(c, "define")
  PROVE  /\ Written(c) \in FilterType /\ Written(c).refs = call[c].refs
         /\ Written(c).id # 0 /\ made \in Nat
         /\ call[c].op = "create" => Written(c).id = made + 1
         /\ call[c].op # "create" => Written(c).id = call[c].id /\ call[c].id <= made
         /\ call[c].op \in {"create", "nest", "unnest"} /\ call[c].n \in Names
  <1>1. /\ call[c] \in CallType /\ Placed(call[c]) /\ call[c].id <= made /\ made \in Nat
        /\ call[c].id \in Nat /\ call[c].refs \in SUBSET Names
    BY CallerHas DEF CallType
  <1>2. call[c].op = "create" <=> call[c].id = 0
    BY <1>1 DEF Placed, At
  <1> QED
    BY <1>1, <1>2 DEF Written, FilterType, At, Placed

LEMMA DefineStep ==
  ASSUME Inv, NEW c \in Calls, Define(c)
  PROVE  Inv'
  <1>1. At(c, "define")
    BY DEF Define
  <1> DEFINE f == Written(c)
             after == Moved(call[c], "done")
             n == call[c].n
  <1>2. /\ Change(c, after, n, f) /\ LoopFree([filter EXCEPT ![n] = f])
        /\ made' = IF call[c].op = "create" THEN made + 1 ELSE made
    BY DEF Define
  <1>3. after \in CallType /\ after.pc \in {"idle", "done"} /\ after.id = 0
    BY CallerHas, MovedHas DEF Places
  <1>4. f \in FilterType /\ f.id # 0 /\ n \in Names /\ made' \in {made, made + 1} /\ f.id <= made'
    BY <1>1, <1>2, WrittenHas
  <1> HIDE DEF f, after, n
  <1> QED
    BY <1>2, <1>3, <1>4, ChangeStep

LEMMA UndefineStep ==
  ASSUME Inv, NEW c \in Calls, Undefine(c)
  PROVE  Inv'
  <1>1. call[c] \in CallType /\ call[c].n \in Names /\ made \in Nat
    BY CallerHas DEF Undefine, At, Placed
  <1>2. CASE Goes(c, call[c], "done")
    BY <1>1, <1>2, GoesRest
  <1>3. CASE Change(c, Moved(call[c], "done"), call[c].n, NoFilter) /\ made' = made
    <2>1. NoFilter \in FilterType /\ NoFilter.id = 0 /\ NoFilter.refs = {}
      BY DEF NoFilter, FilterType
    <2>2. LoopFree([filter EXCEPT ![call[c].n] = NoFilter])
      BY <2>1 DEF Inv, World, LoopFree
    <2>3. /\ Moved(call[c], "done") \in CallType /\ Moved(call[c], "done").id = 0
          /\ Moved(call[c], "done").pc \in {"idle", "done"}
      BY <1>1, MovedHas DEF Places
    <2> QED
      BY <1>1, <1>3, <2>1, <2>2, <2>3, ChangeStep
  <1> QED
    BY <1>2, <1>3 DEF Undefine

LEMMA DomainStep ==
  ASSUME Inv, NEW c \in Calls, ReadDomain(c)
  PROVE  Inv'
  <1> DEFINE r == call[c]
             q == [r EXCEPT !.net = guest.net]
  <1>1. /\ r \in CallType /\ r.pc = "domain" /\ Placed(r) /\ r.id <= made
        /\ r.op \in {"apply", "unapply"} /\ r.n \in Names /\ r.dev \in Devs
        /\ guest.net \in NetType
    BY CallerHas DEF ReadDomain, At, Placed, Inv, World
  <1>2. Goes(c, q, "redefine") \/ Goes(c, r, "done")
    BY DEF ReadDomain
  <1>3. /\ q \in CallType /\ q.op = r.op /\ q.n = r.n /\ q.dev = r.dev /\ q.id = r.id
        /\ q.net = guest.net
    BY <1>1 DEF CallType
  <1> HIDE DEF q
  <1>4. CASE Goes(c, q, "redefine")
    <2>1. ASSUME NEW s \in CallType, s.pc = "redefine", Same(s, q)
          PROVE  Sound(s, filter, guest)
      BY <1>1, <1>3, <2>1 DEF Sound, Placed, Undisturbed, Gathered, Same
    <2> QED
      BY <1>1, <1>3, <1>4, <2>1, GoesOn DEF Places
  <1>5. CASE Goes(c, r, "done")
    BY <1>1, <1>5, GoesRest
  <1> QED
    BY <1>2, <1>4, <1>5

LEMMA RedefineStep ==
  ASSUME Inv, NEW c \in Calls, update_domain(c)
  PROVE  Inv'
  <1> DEFINE r == call[c]
             g == [there |-> TRUE,
                   net |-> [r.net EXCEPT ![r.dev] = IF r.op = "apply" THEN r.n ELSE NoName]]
  <1>1. r \in CallType /\ r.net \in NetType /\ r.n \in Names
    BY CallerHas DEF update_domain, At, Placed
  <1>2. g \in [there : BOOLEAN, net : NetType]
    BY <1>1 DEF NetType
  <1>3. \/ ChangeGuest(c, Moved(r, "done"), g) /\ made' = made
        \/ Goes(c, r, "done")
    BY DEF update_domain
  <1>4. /\ Moved(r, "done") \in CallType /\ Moved(r, "done").id = 0
        /\ Moved(r, "done").pc \in {"idle", "done"}
    BY <1>1, MovedHas DEF Places
  <1> HIDE DEF g
  <1> QED
    BY <1>1, <1>2, <1>3, <1>4, GuestStep, GoesRest

LEMMA InterfaceStep ==
  ASSUME Inv, NEW c \in Calls, ReadInterface(c)
  PROVE  Inv'
  <1> DEFINE r == call[c]
             q == [r EXCEPT !.n = guest.net[r.dev]]
  <1>1. /\ r \in CallType /\ r.pc = "net" /\ r.id <= made /\ r.dev \in Devs
        /\ r.op = "lists" /\ r.refs = {} /\ r.id = 0 /\ guest.net \in NetType
    BY CallerHas DEF ReadInterface, At, Placed, Inv, World
  <1>2. \/ Goes(c, q, "look") /\ guest.net[r.dev] # NoName
        \/ Goes(c, r, "done")
    BY DEF ReadInterface
  <1>3. CASE Goes(c, q, "look") /\ guest.net[r.dev] # NoName
    <2>1. guest.net[r.dev] \in Names
      BY <1>1, <1>3 DEF NetType
    <2>2. /\ q \in CallType /\ q.op = r.op /\ q.n \in Names /\ q.id = r.id /\ q.refs = r.refs
      BY <1>1, <2>1 DEF CallType
    <2> HIDE DEF q
    <2>3. ASSUME NEW s \in CallType, s.pc = "look", Same(s, q)
          PROVE  Sound(s, filter, guest)
      BY <1>1, <2>2, <2>3 DEF Sound, Placed, Undisturbed, Gathered, Same, IfFound
    <2> QED
      BY <1>1, <1>3, <2>2, <2>3, GoesOn DEF Places
  <1>4. CASE Goes(c, r, "done")
    BY <1>1, <1>4, GoesRest
  <1> QED
    BY <1>2, <1>3, <1>4

-----------------------------------------------------------------------------
(***************************************************************************)
(* Lists.                                                                  *)
(***************************************************************************)
LEMMA PresentFinite ==
  ASSUME Inv
  PROVE  /\ IsFiniteSet(There) /\ There = Present(filter) /\ There \subseteq Names
         /\ Cardinality(There) \in Nat
  <1>1. There = Present(filter) /\ There \in SUBSET Names
    BY DEF There, Present
  <1>2. IsFiniteSet(There)
    BY <1>1, FiltersAssumption, FS_Subset
  <1> QED
    BY <1>1, <1>2, FS_CardinalityType

LEMMA CountStep ==
  ASSUME Inv, NEW c \in Calls, Count(c)
  PROVE  Inv'
  <1> DEFINE r == call[c]
             q == [r EXCEPT !.room = Cardinality(There), !.steady = There]
  <1>1. /\ r \in CallType /\ r.pc = "count" /\ r.id <= made /\ r.op \in Listings
        /\ Gathered(r, filter) /\ Goes(c, q, "list")
    BY CallerHas DEF Count, At, Placed
  <1>2. /\ q \in CallType /\ q.op = r.op /\ q.id = r.id /\ q.churn = r.churn
        /\ q.room = Cardinality(There) /\ q.steady = There
    BY <1>1, PresentFinite DEF CallType
  <1> HIDE DEF q
  <1>3. ASSUME NEW s \in CallType, s.pc = "list", Same(s, q)
        PROVE  Sound(s, filter, guest)
    BY <1>1, <1>2, <1>3, PresentFinite
       DEF Sound, Placed, Undisturbed, Gathered, Same, Listings
  <1> QED
    BY <1>1, <1>2, <1>3, GoesOn DEF Places

LEMMA ListFailsStep ==
  ASSUME Inv, NEW c \in Calls, ListFails(c)
  PROVE  Inv'
  <1> DEFINE r == call[c]
             true == TRUE
             q == [r EXCEPT !.churn = true]
  <1>1. /\ r \in CallType /\ r.pc = "count" /\ r.id <= made /\ r.op \in Listings
        /\ Goes(c, q, "fetch") /\ true
    BY CallerHas DEF ListFails, At, Placed
  <1> HIDE DEF true
  <1>2. q \in CallType /\ q.op = r.op /\ q.id = r.id /\ q.churn = true
    BY <1>1 DEF CallType
  <1> HIDE DEF q
  <1>3. ASSUME NEW s \in CallType, s.pc = "fetch", Same(s, q)
        PROVE  Sound(s, filter, guest)
    BY <1>1, <1>2, <1>3 DEF Sound, Placed, Undisturbed, Gathered, Same, Listings
  <1> QED
    BY <1>1, <1>2, <1>3, GoesOn DEF Places

LEMMA ListStep ==
  ASSUME Inv, NEW c \in Calls, List(c)
  PROVE  Inv'
  <1> DEFINE r == call[c]
  <1>1. PICK T \in Listed(c) : Goes(c, [r EXCEPT !.todo = T, !.room = 0], "fetch")
    BY DEF List
  <1> DEFINE q == [r EXCEPT !.todo = T, !.room = 0]
  <1>2. /\ r \in CallType /\ r.pc = "list" /\ r.id <= made /\ r.op \in Listings
        /\ Gathered(r, filter)
    BY CallerHas DEF List, At, Placed
  <1>3. /\ T \in SUBSET There
        /\ Cardinality(T) = IF Cardinality(There) < r.room THEN Cardinality(There) ELSE r.room
    BY DEF Listed
  <1>4. /\ q \in CallType /\ q.op = r.op /\ q.id = r.id /\ q.churn = r.churn
        /\ q.todo = T /\ q.steady = r.steady
    BY <1>2, <1>3, PresentFinite DEF CallType
  <1>5. ~r.churn => r.steady \subseteq T
    <2> SUFFICES ASSUME ~r.churn PROVE r.steady \subseteq T
      OBVIOUS
    <2>1. r.steady \subseteq There /\ Cardinality(There) = r.room
          /\ \A n \in There : ~filter[n].twice
      BY <1>2, PresentFinite DEF Gathered
    <2>2. Cardinality(T) = Cardinality(There)
      BY <1>3, <2>1, PresentFinite
    <2>3. T = There
      BY <1>3, <2>2, PresentFinite, FS_Subset
    <2> QED
      BY <2>1, <2>3
  <1>6. Goes(c, q, "fetch")
    BY <1>1
  <1> HIDE DEF q
  <1>7. ASSUME NEW s \in CallType, s.pc = "fetch", Same(s, q)
        PROVE  Sound(s, filter, guest)
    BY <1>2, <1>3, <1>4, <1>5, <1>7, PresentFinite
       DEF Sound, Placed, Undisturbed, Gathered, Same, Listings
  <1> QED
    BY <1>2, <1>4, <1>6, <1>7, GoesOn DEF Places

LEMMA FetchStep ==
  ASSUME Inv, NEW c \in Calls, Fetch(c)
  PROVE  Inv'
  <1> DEFINE r == call[c]
  <1>1. /\ r \in CallType /\ r.pc = "fetch" /\ r.id <= made
        /\ r.op \in Listings \cup {"children"} /\ Gathered(r, filter)
    BY CallerHas DEF Fetch, At, Placed
  <1>0. PICK n \in r.todo : \E found \in Found(n) :
          Goes(c, IF found THEN [r EXCEPT !.todo = @ \ {n}, !.got = @ \cup Adds(r, n)]
                  ELSE [r EXCEPT !.todo = IF Stops(r) THEN {} ELSE @ \ {n},
                                 !.steady = @ \ {n}, !.churn = @ \/ (Stops(r) /\ Readable(n))],
               "fetch")
    BY DEF Fetch
  <1>2. PICK found \in Found(n) :
          Goes(c, IF found THEN [r EXCEPT !.todo = @ \ {n}, !.got = @ \cup Adds(r, n)]
                  ELSE [r EXCEPT !.todo = IF Stops(r) THEN {} ELSE @ \ {n},
                                 !.steady = @ \ {n}, !.churn = @ \/ (Stops(r) /\ Readable(n))],
               "fetch")
    BY <1>0
  <1>3. n \in Names /\ filter[n].rules \in SUBSET Rules
    BY <1>1, <1>2 DEF CallType, Inv, World, FilterType
  <1>4. Adds(r, n) = Offers(r, n, filter)
    BY <1>1, OffersAdds
  <1>5. CASE found
    <2> DEFINE q == [r EXCEPT !.todo = @ \ {n}, !.got = @ \cup Offers(r, n, filter)]
    <2>1. Offers(r, n, filter) \in SUBSET Answers
      BY <1>3 DEF Offers, Answers
    <2>2. /\ q \in CallType /\ q.op = r.op /\ q.m = r.m /\ q.id = r.id /\ q.refs = r.refs
          /\ q.churn = r.churn /\ q.steady = r.steady /\ q.todo = r.todo \ {n}
          /\ q.got = r.got \cup Offers(r, n, filter)
      BY <1>1, <2>1 DEF CallType
    <2>3. Goes(c, q, "fetch")
      BY <1>2, <1>4, <1>5
    <2> HIDE DEF q
    <2>4. ASSUME NEW s \in CallType, s.pc = "fetch", Same(s, q)
          PROVE  Sound(s, filter, guest)
      <3>1. Placed(s) /\ Undisturbed(s, filter, guest)
        BY <1>1, <2>2, <2>4 DEF Placed, Undisturbed, Same
      <3>2. \A x : Offers(s, x, filter) = Offers(r, x, filter)
        BY <2>2, <2>4 DEF Offers, Same
      <3>3. r.op = "children" => Offers(r, n, filter) = {n}
        BY DEF Offers
      <3>4. Gathered(s, filter)
        BY <1>1, <2>2, <2>4, <3>2, <3>3 DEF Gathered, Same, Listings
      <3> QED
        BY <3>1, <3>4 DEF Sound
    <2> QED
      BY <1>1, <2>2, <2>3, <2>4, GoesOn DEF Places
  <1>6. CASE ~found
    <2> DEFINE churn == r.churn \/ (Stops(r) /\ Readable(n))
               q == [r EXCEPT !.todo = IF Stops(r) THEN {} ELSE @ \ {n},
                              !.steady = @ \ {n}, !.churn = churn]
    <2>0. churn \in BOOLEAN
      BY <1>1 DEF CallType
    <2>2. Goes(c, q, "fetch")
      BY <1>2, <1>6
    <2>5. churn <=> r.churn \/ (Stops(r) /\ Readable(n))
      OBVIOUS
    <2> HIDE DEF churn
    <2>1. /\ q \in CallType /\ q.op = r.op /\ q.m = r.m /\ q.id = r.id /\ q.refs = r.refs
          /\ q.churn = churn /\ q.steady = r.steady \ {n} /\ q.got = r.got
          /\ q.todo = IF Stops(r) THEN {} ELSE r.todo \ {n}
      BY <1>1, <2>0 DEF CallType
    <2> HIDE DEF q
    <2>4. ASSUME NEW s \in CallType, s.pc = "fetch", Same(s, q)
          PROVE  Sound(s, filter, guest)
      <3>1. Placed(s) /\ Undisturbed(s, filter, guest)
        BY <1>1, <2>1, <2>4 DEF Placed, Undisturbed, Same
      \* A filter that a listing has found and that can be read was looked up in vain.
      <3>2. ~(s.op \in Listings /\ ~s.churn)
        BY <1>1, <1>2, <2>1, <2>4, <2>5 DEF Gathered, Same, Present, Readable, Stops
      <3>3. s.op = "children" =>
              \A x \in s.steady \cap s.refs : Legible(filter[x]) => x \in s.todo \cup s.got
        BY <1>1, <2>1, <2>4 DEF Gathered, Same, Stops, Listings
      <3>5. Gathered(s, filter)
        BY <2>4, <3>2, <3>3 DEF Gathered
      <3> QED
        BY <3>1, <3>5 DEF Sound
    <2> QED
      BY <1>1, <2>1, <2>2, <2>4, GoesOn DEF Places
  <1> QED
    BY <1>5, <1>6

(***************************************************************************)
(* The invariant.                                                          *)
(***************************************************************************)
LEMMA NextInv == Inv /\ [Next]_vars => Inv'
  <1> SUFFICES ASSUME Inv, [Next]_vars PROVE Inv'
    OBVIOUS
  <1>1. CASE Outside
    BY <1>1, OutsideStep
  <1>2. ASSUME NEW c \in Calls, Requests(c) PROVE Inv'
    BY <1>2, RequestsStep
  <1>3. ASSUME NEW c \in Calls, Look(c) \/ LookChild(c) \/ Define(c) \/ Undefine(c)
        PROVE  Inv'
    BY <1>3, LookStep, LookChildStep, DefineStep, UndefineStep
  <1>4. ASSUME NEW c \in Calls, DefineFails(c) PROVE Inv'
    BY <1>4, CallerHas, GoesRest DEF DefineFails
  <1>5. ASSUME NEW c \in Calls, ReadDomain(c) \/ update_domain(c) \/ ReadInterface(c)
        PROVE  Inv'
    BY <1>5, DomainStep, RedefineStep, InterfaceStep
  <1>6. ASSUME NEW c \in Calls, Count(c) \/ ListFails(c) \/ List(c) \/ Fetch(c)
        PROVE  Inv'
    BY <1>6, CountStep, ListFailsStep, ListStep, FetchStep
  <1>7. ASSUME NEW c \in Calls, ReturnAnswer(c) PROVE Inv'
    BY <1>7, CallerHas, GoesRest DEF ReturnAnswer
  <1>8. CASE UNCHANGED vars
    BY <1>8 DEF vars, Inv, World, Requested, LoopFree
  <1> QED
    BY <1>1, <1>2, <1>3, <1>4, <1>5, <1>6, <1>7, <1>8 DEF Next

LEMMA Invariant == Spec => []Inv
  <1> QED
    BY InitInv, NextInv, PTL DEF Spec

(***************************************************************************)
(* The types hold, and no filter comes to refer to itself over others,     *)
(* whatever requests and operators define (TypeOK).                        *)
(***************************************************************************)
THEOREM TypesCorrect == Spec => []TypeOK
  <1>1. Inv => TypeOK
    <2> SUFFICES ASSUME Inv PROVE TypeOK
      OBVIOUS
    <2>1. \A n \in Names : filter[n].id \in 0 .. made
      BY DEF Inv, World, FilterType
    <2>2. filter \in [Names -> [id : 0 .. made, refs : SUBSET Names, twice : BOOLEAN,
                                rules : SUBSET Rules]]
      BY <2>1 DEF Inv, World, FilterType
    <2>3. ASSUME NEW c \in Calls
          PROVE  /\ call[c].pc \in Places /\ call[c].id \in 0 .. made
                 /\ {call[c].refs, call[c].todo, call[c].steady} \subseteq SUBSET Names
                 /\ call[c].pc = "redefine" => call[c].net \in [Devs -> Names \cup {NoName}]
                 /\ call[c].pc = "define" => (call[c].op = "create" <=> call[c].id = 0)
      BY CallerHas DEF CallType, Placed, NetType
    <2> QED
      BY <2>2, <2>3 DEF TypeOK, Inv, World, NetType
  <1> QED
    BY <1>1, Invariant, PTL

-----------------------------------------------------------------------------
(***************************************************************************)
(* A request that ends where it defines something has taken that step.     *)
(***************************************************************************)
LEMMA OthersStay ==
  ASSUME Inv, NEW c \in Calls, NEW d, d # c,
         \/ \E r : call' = [call EXCEPT ![d] = r]
         \/ \E after, f : \E n \in Names : Change(d, after, n, f)
         \/ \E after, g : ChangeGuest(d, after, g)
  PROVE  call'[c].pc = call[c].pc
  <1>1. call \in [Calls -> CallType]
    BY DEF Inv, Requested
  <1>2. CASE \E r : call' = [call EXCEPT ![d] = r]
    BY <1>1, <1>2
  <1>3. CASE \E after, f : \E n \in Names : Change(d, after, n, f)
    <2>1. \E n \in Names : \E f : call'[c] = Met(call[c], n, f)
      BY <1>3 DEF Change
    <2>2. \A n, f : \A r \in CallType : Met(r, n, f).pc = r.pc
      BY DEF Met, CallType
    <2> QED
      BY <1>1, <2>1, <2>2
  <1>4. CASE \E after, g : ChangeGuest(d, after, g)
    <2>1. call'[c] = [call[c] EXCEPT !.alone = FALSE]
      BY <1>4 DEF ChangeGuest
    <2> QED
      BY <1>1, <2>1 DEF CallType
  <1> QED
    BY <1>2, <1>3, <1>4

LEMMA OtherSteps ==
  ASSUME Inv, NEW c \in Calls, NEW d \in Calls, d # c,
         \/ Requests(d) \/ Look(d) \/ LookChild(d) \/ Define(d) \/ DefineFails(d)
         \/ Undefine(d) \/ ReadDomain(d) \/ update_domain(d) \/ ReadInterface(d)
         \/ Count(d) \/ ListFails(d) \/ List(d) \/ Fetch(d) \/ ReturnAnswer(d)
  PROVE  call'[c].pc = call[c].pc
  <1>1. ASSUME NEW r, NEW to, Goes(d, r, to) PROVE call'[c].pc = call[c].pc
    BY <1>1, OthersStay DEF Goes
  <1>2. ASSUME NEW r, Begin(d, r) PROVE call'[c].pc = call[c].pc
    BY <1>2, OthersStay DEF Begin
  <1>3. CASE Requests(d)
    BY <1>2, <1>3
       DEF Requests, BadRequest, get_rule_by_ref, CreateFilter, DeleteFilter,
           get_filter_by_ref, list_to_rule, parent_to_child, CreateNested, DeleteNested,
           CreateApplied, DeleteApplied, list_to_net, net_to_list, enum_filter_lists,
           enum_filter_rules, child_to_parent, rule_to_list
  <1>4. CASE Look(d)
    BY <1>1, <1>4 DEF Look
  <1>5. CASE LookChild(d)
    BY <1>1, <1>5 DEF LookChild
  <1>6. CASE Define(d)
    <2>1. call[d].n \in Names
      BY <1>6, CallerHas DEF Define, At, Placed
    <2> QED
      BY <1>6, <2>1, OthersStay DEF Define
  <1>7. CASE DefineFails(d)
    BY <1>1, <1>7 DEF DefineFails
  <1>8. CASE Undefine(d)
    <2>1. call[d].n \in Names
      BY <1>8, CallerHas DEF Undefine, At, Placed
    <2> QED
      BY <1>1, <1>8, <2>1, OthersStay DEF Undefine
  <1>9. CASE ReadDomain(d)
    BY <1>1, <1>9 DEF ReadDomain
  <1>10. CASE update_domain(d)
    BY <1>1, <1>10, OthersStay DEF update_domain
  <1>11. CASE ReadInterface(d)
    BY <1>1, <1>11 DEF ReadInterface
  <1>12. CASE Count(d) \/ ListFails(d) \/ List(d)
    BY <1>1, <1>12 DEF Count, ListFails, List
  <1>13. CASE Fetch(d)
    BY <1>1, <1>13 DEF Fetch
  <1>14. CASE ReturnAnswer(d)
    BY <1>1, <1>14 DEF ReturnAnswer
  <1> QED
    BY <1>3, <1>4, <1>5, <1>6, <1>7, <1>8, <1>9, <1>10, <1>11, <1>12, <1>13, <1>14

LEMMA EndsByDefining ==
  ASSUME Inv, Next, NEW c \in Calls, call[c].pc \in {"define", "redefine"},
         call'[c].pc = "done"
  PROVE  IF At(c, "define") THEN Define(c) ELSE update_domain(c)
  <1>1. ~Outside
    <2> SUFFICES ASSUME Outside PROVE FALSE
      OBVIOUS
    <2>1. \/ \E n \in Names : \E f : Change("host", NoCall, n, f)
          \/ \E g : ChangeGuest("host", NoCall, g)
      BY DEF Outside
    <2>2. CASE c = "host"
      <3>1. call'[c] = NoCall
        BY <2>1, <2>2 DEF Change, ChangeGuest
      <3> QED
        BY <3>1, NoCallHas
    <2>3. CASE c # "host"
      BY <2>1, <2>3, OthersStay
    <2> QED
      BY <2>2, <2>3
  <1>2. PICK d \in Calls :
          \/ Requests(d) \/ Look(d) \/ LookChild(d) \/ Define(d) \/ DefineFails(d)
          \/ Undefine(d) \/ ReadDomain(d) \/ update_domain(d) \/ ReadInterface(d)
          \/ Count(d) \/ ListFails(d) \/ List(d) \/ Fetch(d) \/ ReturnAnswer(d)
    BY <1>1 DEF Next
  <1>3. d = c
    BY <1>2, OtherSteps
  <1>4. ~Requests(c)
    <2>1. \A r : ~Begin(c, r)
      BY DEF Begin, Running
    <2> QED
      BY <2>1
         DEF Requests, BadRequest, get_rule_by_ref, CreateFilter, DeleteFilter,
             get_filter_by_ref, list_to_rule, parent_to_child, CreateNested, DeleteNested,
             CreateApplied, DeleteApplied, list_to_net, net_to_list, enum_filter_lists,
             enum_filter_rules, child_to_parent, rule_to_list
  <1>5. ~DefineFails(c)
    <2> SUFFICES ASSUME DefineFails(c) PROVE FALSE
      OBVIOUS
    <2>1. call'[c] = Moved(call[c], "failed")
      BY DEF DefineFails, Goes, Inv, Requested
    <2> QED
      BY <2>1, NoCallHas DEF Moved
  <1>6. Define(c) \/ update_domain(c)
    BY <1>2, <1>3, <1>4, <1>5
       DEF Look, LookChild, Undefine, ReadDomain, ReadInterface, Count, ListFails, List, Fetch,
           ReturnAnswer, Answered, At
  <1> QED
    BY <1>6 DEF Define, update_domain, At

(***************************************************************************)
(* Adding or removing a reference, or the filter of an interface, changes  *)
(* that alone, when nobody else changes anything between the read and the  *)
(* definition (ChangeIsExact).                                             *)
(***************************************************************************)
THEOREM ChangesAreExact == Spec => ChangeIsExact
  <1> DEFINE OfFilter(r) ==
               /\ \A n \in Names \ {r.n} : filter'[n] = filter[n]
               /\ r.op # "create" => filter'[r.n].id = filter[r.n].id
               /\ Differ(filter[r.n].refs, filter'[r.n].refs) \subseteq {r.m}
               /\ r.op # "create" => (r.m \in filter'[r.n].refs <=> r.op = "nest")
             OfGuest(r) ==
               /\ \A d \in Devs \ {r.dev} : guest'.net[d] = guest.net[d]
               /\ guest'.net[r.dev] \in {guest.net[r.dev], NoName, r.n}
             Exact(c) ==
               call[c].alone /\ call'[c].pc = "done" =>
                  /\ At(c, "define") => OfFilter(call[c])
                  /\ At(c, "redefine") => OfGuest(call[c])
  <1>1. ASSUME Inv, Next, NEW c \in Calls PROVE Exact(c)
    <2> DEFINE r == call[c]
    <2>1. SUFFICES ASSUME r.alone, call'[c].pc = "done"
                   PROVE  /\ At(c, "define") => OfFilter(r)
                          /\ At(c, "redefine") => OfGuest(r)
      OBVIOUS
    <2>2. r \in CallType /\ Placed(r) /\ Undisturbed(r, filter, guest)
      BY <1>1, CallerHas
    <2>3. CASE At(c, "define")
      <3>1. Define(c)
        BY <1>1, <2>1, <2>3, EndsByDefining DEF At
      <3>2. /\ Written(c).refs = r.refs /\ r.n \in Names /\ r.op \in {"create", "nest", "unnest"}
            /\ r.op = "create" => Written(c).id = made + 1
            /\ r.op # "create" => Written(c).id = r.id
        BY <1>1, <2>3, WrittenHas
      <3>3. /\ filter' = [filter EXCEPT ![r.n] = Written(c)]
            /\ filter[r.n].id \in {0, Written(c).id}
        BY <3>1 DEF Define, Change
      <3>4. filter'[r.n] = Written(c) /\ \A n \in Names \ {r.n} : filter'[n] = filter[n]
        BY <1>1, <3>2, <3>3 DEF Inv, World
      <3>5. CASE r.op = "create"
        <4>1. filter[r.n].id <= made /\ filter[r.n].id \in Nat /\ made \in Nat
          BY <1>1, <3>2 DEF Inv, World, FilterType
        <4>2. filter[r.n] = NoFilter
          BY <1>1, <3>2, <3>3, <3>5, <4>1 DEF Inv, World
        <4>3. filter[r.n].refs = {} /\ Written(c).refs = {}
          BY <2>2, <2>3, <3>2, <3>5, <4>2 DEF NoFilter, Placed, At
        <4> QED
          BY <2>3, <3>4, <3>5, <4>3 DEF Differ, At
      <3>6. CASE r.op # "create"
        <4>1. /\ r.id = filter[r.n].id
              /\ r.refs = IF r.op = "nest" THEN filter[r.n].refs \cup {r.m}
                          ELSE filter[r.n].refs \ {r.m}
          BY <2>1, <2>2, <2>3, <3>6 DEF Undisturbed, At
        <4> QED
          BY <2>3, <3>2, <3>4, <3>6, <4>1 DEF Differ, At
      <3> QED
        BY <3>5, <3>6
    <2>4. CASE At(c, "redefine")
      <3>1. update_domain(c)
        BY <1>1, <2>1, <2>4, EndsByDefining DEF At
      <3>2. r.net = guest.net /\ r.net \in NetType
        BY <2>1, <2>2, <2>4 DEF Undisturbed, Placed, At
      <3>3. \/ guest' = [there |-> TRUE, net |->
                 [r.net EXCEPT ![r.dev] = IF r.op = "apply" THEN r.n ELSE NoName]]
            \/ guest' = guest
        BY <3>1 DEF update_domain, ChangeGuest, Goes
      <3>4. r.dev \in Devs
        BY <2>2, <2>4 DEF Placed, At
      <3> QED
        BY <2>4, <3>2, <3>3, <3>4 DEF NetType, At
    <2> QED
      BY <2>3, <2>4
  <1>2. Inv /\ [Next]_vars => [\A c \in Calls : Exact(c)]_vars
    BY <1>1
  <1>3. Spec => [][\A c \in Calls : Exact(c)]_vars
    BY <1>2, Invariant, PTL DEF Spec
  <1> QED
    BY <1>3 DEF ChangeIsExact

(***************************************************************************)
(* A list is complete unless something ended it early: every filter that   *)
(* was there throughout and could be looked up has added what it has to    *)
(* (AnswerComplete).                                                       *)
(***************************************************************************)
THEOREM AnswersComplete == Spec => []AnswerComplete
  <1>1. Inv => AnswerComplete
    <2> SUFFICES ASSUME Inv, NEW c \in Calls, Answered(c)
                 PROVE  LET r == call[c] IN
                        /\ r.op \in Listings /\ ~r.churn =>
                              \A n \in r.steady : Adds(r, n) \subseteq r.got
                        /\ r.op = "children" =>
                              \A n \in r.steady \cap r.refs : Readable(n) => n \in r.got
      BY DEF AnswerComplete
    <2> DEFINE r == call[c]
    <2>1. r.pc = "fetch" /\ r.todo = {} /\ Gathered(r, filter)
      BY CallerHas DEF Answered, At
    <2>2. ASSUME r.op \in Listings, ~r.churn, NEW n \in r.steady
          PROVE  Adds(r, n) \subseteq r.got
      <3>1. Adds(r, n) = Offers(r, n, filter)
        BY <2>2, OffersAdds
      <3> QED
        BY <2>1, <2>2, <3>1 DEF Gathered
    <2>3. ASSUME r.op = "children", NEW n \in r.steady \cap r.refs, Readable(n)
          PROVE  n \in r.got
      BY <2>1, <2>3 DEF Gathered, Readable, Legible
    <2> QED
      BY <2>2, <2>3
  <1> QED
    BY <1>1, Invariant, PTL
=============================================================================
