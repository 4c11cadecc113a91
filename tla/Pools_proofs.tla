---------------------------- MODULE Pools_proofs ----------------------------
(***************************************************************************)
(* Theorems about Pools, for every set of requests, names, types and       *)
(* volumes and every bound.                                                *)
(***************************************************************************)
EXTENDS Pools, FiniteSetTheorems, TLAPS

Early == {"look", "count", "list", "fetch", "define"}

\* What the position of a request says of it.
Placed(r) ==
    /\ r.stage \in {"check", "result"} => r.k \in Listed
    /\ r.pc = "define" => r.stage = "check"
    /\ r.pc \in {"start", "undo"} => r.stage = "check" /\ r.id # 0
    /\ r.pc = "auto" => r.stage \in {"check", "result"} /\ r.id # 0
    /\ r.pc = "find" => r.stage = "target"
    /\ r.pc \in {"stop", "undefine"} => r.stage = "target" /\ r.k \in Listed /\ r.id # 0
    /\ r.pc = "done" /\ r.stage = "target" => r.k \in Listed /\ r.id # 0
    /\ r.stage = "check" /\ r.pc \in Early => r.id = 0
    /\ r.pc \in {"count", "list", "fetch"} => r.k \in Listed
    /\ r.pc \in {"newvol", "path", "delvol", "refresh"} => r.stage = "read"
    /\ r.pc = "newvol" => r.v \in Vols

\* What it says of the pool p that the request defined or found, when al says
\* that nobody else changed it.
Ensured(r, al, p) ==
    /\ r.pc \in {"start", "undo"} /\ al => p.def /\ ~p.active
    /\ r.stage = "result" /\ al => p.active
    /\ "undo" \notin Faults /\ r.pc \in {"auto", "failed"} /\ r.stage = "check" => ~al
    /\ r.pc = "undefine" /\ p.active => ~al
    /\ r.pc = "done" /\ r.stage = "target" => ~p.def /\ ~al

Good(r, al, P) ==
    /\ Placed(r)
    /\ r.k \in Listed /\ r.id # 0 /\ P[r.k][r.n].id = r.id => Ensured(r, al, P[r.k][r.n])

\* A request as its record is typed.
WellTyped(r, bound) == r \in Request /\ r.id <= bound

World ==
    /\ pool \in [Listed -> [PoolNames -> Pool]]
    /\ files \in [PoolNames -> SUBSET Vols] /\ seen \in [PoolNames -> SUBSET Vols]
    /\ steady \in [Calls -> SUBSET PoolNames] /\ alone \in [Calls -> BOOLEAN]
    /\ made \in Nat /\ ops \in 0 .. MaxOps
    /\ \A k \in Listed, n \in PoolNames :
          /\ pool[k][n].id <= made
          /\ Exists(k, n) <=> (pool[k][n].def \/ pool[k][n].active)
    /\ \A n \in PoolNames : seen[n] # {} => pool["disk"][n].active

Requested ==
    /\ call \in [Calls -> Request]
    /\ \A c \in Calls : WellTyped(call[c], made) /\ Good(call[c], alone[c], pool)

Inv == World /\ Requested

LEMMA InvTypeOK == Inv => TypeOK
  BY DEF Inv, World, Requested, WellTyped, Good, Placed, TypeOK

LEMMA NoCallTyped ==
  /\ NoCall \in Request
  /\ NoCall.pc = "idle" /\ NoCall.stage = "read" /\ NoCall.k = "net" /\ NoCall.id = 0
  /\ NoCall.n = Primordial /\ NoCall.all = FALSE /\ NoCall.auto = FALSE
  BY DEF NoCall, Request, Places, IfFound, Types, Listed, PoolNames

\* A request that knows no pool yet.
LEMMA StrangerGood ==
  ASSUME NEW r \in Request, r.id = 0, Placed(r), NEW al, NEW P, NEW bound \in Nat
  PROVE  WellTyped(r, bound) /\ Good(r, al, P)
  BY DEF WellTyped, Good

LEMMA ReturnedNoCall ==
  ASSUME NEW pc \in {"idle", "done", "failed"}
  PROVE  /\ [NoCall EXCEPT !.pc = pc] \in Request
         /\ [NoCall EXCEPT !.pc = pc].id = 0
         /\ Placed([NoCall EXCEPT !.pc = pc])
  <1> DEFINE r == [NoCall EXCEPT !.pc = pc]
  <1>1. r \in Request /\ r.pc = pc /\ r.stage = "read" /\ r.k = "net" /\ r.id = 0
    BY NoCallTyped DEF Request, Places
  <1> HIDE DEF r
  <1>2. Placed(r)
    BY <1>1 DEF Placed
  <1> QED
    BY <1>1, <1>2 DEF r

LEMMA PoolNamesFinite == IsFiniteSet(PoolNames)
  BY NamesAssumption, FS_AddElement DEF PoolNames

LEMMA InitInv == Init => Inv
  <1> SUFFICES ASSUME Init PROVE Inv
    OBVIOUS
  <1>1. World
    <2>1. pool \in [Listed -> [PoolNames -> Pool]]
      <3>1. NoPool \in Pool
        BY DEF NoPool, Pool
      <3>2. Existing \in Pool
        BY <3>1 DEF Existing, Pool
      <3>3. [Existing EXCEPT !.active = TRUE] \in Pool
        BY <3>2 DEF Pool
      <3>4. \A k \in Listed, n \in PoolNames : pool[k][n] \in Pool
        BY <3>1, <3>2, <3>3 DEF Init
      <3>5. \A k \in Listed : pool[k] = [n \in PoolNames |-> pool[k][n]]
        BY DEF Init
      <3>6. pool = [k \in Listed |-> pool[k]]
        BY DEF Init
      <3> QED
        BY <3>4, <3>5, <3>6
    <2>2. \A k \in Listed, n \in PoolNames :
            /\ pool[k][n].id <= made
            /\ Exists(k, n) <=> (pool[k][n].def \/ pool[k][n].active)
      <3> TAKE k \in Listed, n \in PoolNames
      <3>1. pool[k][n] \in {NoPool, Existing, [Existing EXCEPT !.active = TRUE]}
        BY DEF Init
      <3>2. made = 1
        BY DEF Init
      <3>3. CASE pool[k][n] = NoPool
        BY <3>2, <3>3 DEF NoPool, Exists
      <3>4. CASE pool[k][n] = Existing
        BY <3>2, <3>4 DEF NoPool, Existing, Exists
      <3>5. CASE pool[k][n] = [Existing EXCEPT !.active = TRUE]
        BY <3>2, <3>5 DEF NoPool, Existing, Exists
      <3> QED
        BY <3>1, <3>3, <3>4, <3>5
    <2> QED
      BY <2>1, <2>2, BoundsAssumption DEF Init, World
  <1>2. Requested
    <2>1. Placed(NoCall)
      BY NoCallTyped DEF Placed
    <2>2. call \in [Calls -> Request] /\ \A c \in Calls : call[c] = NoCall
      BY NoCallTyped DEF Init
    <2> QED
      BY <2>1, <2>2, NoCallTyped, StrangerGood DEF Init, Requested
  <1> QED
    BY <1>1, <1>2 DEF Inv

(***************************************************************************)
(* A step of a request that changes no pool.                               *)
(***************************************************************************)
LEMMA QuietStep ==
  ASSUME Inv, NEW c \in Calls, NEW r,
         call' = [call EXCEPT ![c] = r], WellTyped(r, made), Good(r, alone'[c], pool),
         pool' = pool, made' = made,
         files' \in [PoolNames -> SUBSET Vols], seen' \in [PoolNames -> SUBSET Vols],
         \A n \in PoolNames : seen'[n] # {} => pool["disk"][n].active,
         steady' \in [Calls -> SUBSET PoolNames],
         alone' \in [Calls -> BOOLEAN], \A d \in Calls \ {c} : alone'[d] = alone[d],
         ops' \in 0 .. MaxOps
  PROVE  Inv'
  <1>1. World'
    BY DEF Inv, World, Exists
  <1>2. Requested'
    <2>1. call' \in [Calls -> Request]
      BY DEF Inv, Requested, WellTyped
    <2>2. ASSUME NEW d \in Calls
          PROVE  WellTyped(call'[d], made') /\ Good(call'[d], alone'[d], pool')
      <3>1. CASE d = c
        BY <3>1 DEF Inv, Requested
      <3>2. CASE d # c
        BY <3>2 DEF Inv, Requested
      <3> QED
        BY <3>1, <3>2
    <2> QED
      BY <2>1, <2>2 DEF Requested
  <1> QED
    BY <1>1, <1>2 DEF Inv

\* The same, with the volumes and the histories as they were.
LEMMA LocalStep ==
  ASSUME Inv, NEW c \in Calls, NEW r,
         call' = [call EXCEPT ![c] = r], WellTyped(r, made), Good(r, alone[c], pool),
         UNCHANGED <<pool, files, seen, steady, alone, made, ops>>
  PROVE  Inv'
  BY QuietStep DEF Inv, World

(***************************************************************************)
(* A change of one pool: p is the pool that it makes of the old one.       *)
(***************************************************************************)
Continues(p, old, next) ==
    /\ p \in Pool /\ p.id <= next /\ (p.id # 0 <=> p.def \/ p.active)
    /\ p.def => p.id = next \/ (p.id = old.id /\ old.def)

LEMMA ChangedWorld ==
  ASSUME Inv, NEW who, NEW k \in Listed, NEW n \in PoolNames, NEW p,
         Change(who, k, n, p), p \in Pool, p.id <= made', p.id # 0 <=> p.def \/ p.active,
         files' = files, made' \in {made, made + 1}, ops' \in 0 .. MaxOps
  PROVE  World'
  <1>1. pool' \in [Listed -> [PoolNames -> Pool]] /\ pool' = [pool EXCEPT ![k][n] = p]
    BY DEF Inv, World, Change
  <1>2. seen' \in [PoolNames -> SUBSET Vols]
    BY DEF Inv, World, Change, Rescanned
  <1>3. steady' \in [Calls -> SUBSET PoolNames]
    BY DEF Inv, World, Change
  <1>4. alone' \in [Calls -> BOOLEAN]
    <2>1. \A c \in Calls :
            (alone[c] /\ (c = who \/ <<call[c].k, call[c].n>> # <<k, n>>)) \in BOOLEAN
      OBVIOUS
    <2> QED
      BY <2>1 DEF Change
  <1>5. \A l \in Listed, m \in PoolNames :
          /\ pool'[l][m].id <= made'
          /\ Exists(l, m)' <=> (pool'[l][m].def \/ pool'[l][m].active)
    <2> TAKE l \in Listed, m \in PoolNames
    <2>1. CASE l = k /\ m = n
      BY <1>1, <2>1 DEF Inv, World, Exists
    <2>2. CASE ~(l = k /\ m = n)
      <3>1. pool'[l][m] = pool[l][m]
        BY <1>1, <2>2 DEF Inv, World
      <3>2. pool[l][m].id \in Nat /\ made \in Nat /\ pool[l][m].id <= made
        BY DEF Inv, World, Pool
      <3>3. Exists(l, m)' <=> (pool'[l][m].def \/ pool'[l][m].active)
        BY <3>1 DEF Inv, World, Exists
      <3> QED
        BY <3>1, <3>2, <3>3
    <2> QED
      BY <2>1, <2>2
  <1>6. ASSUME NEW m \in PoolNames, seen'[m] # {} PROVE pool'["disk"][m].active
    <2>1. CASE k = "disk" /\ m = n
      <3>1. pool'["disk"][m] = p
        BY <1>1, <2>1 DEF Inv, World
      <3>2. CASE p.active = pool[k][n].active
        BY <2>1, <3>1, <3>2, <1>6 DEF Inv, World, Change
      <3>3. CASE p.active # pool[k][n].active
        <4>1. seen' = [seen EXCEPT ![n] = IF p.active THEN files[n] ELSE {}]
          BY <2>1, <3>3 DEF Change, Rescanned
        <4> QED
          BY <4>1, <3>1, <2>1, <1>6 DEF Inv, World
      <3> QED
        BY <3>2, <3>3
    <2>2. CASE ~(k = "disk" /\ m = n)
      <3>1. pool'["disk"][m] = pool["disk"][m]
        BY <1>1, <2>2 DEF Inv, World, Listed
      <3>2. seen'[m] = seen[m]
        BY <2>2 DEF Inv, World, Change, Rescanned, Listed
      <3> QED
        BY <3>1, <3>2, <1>6 DEF Inv, World
    <2> QED
      BY <2>1, <2>2
  <1>7. made' \in Nat /\ files' \in [PoolNames -> SUBSET Vols]
    BY DEF Inv, World
  <1> QED
    BY <1>1, <1>2, <1>3, <1>4, <1>5, <1>6, <1>7 DEF World

\* What the others are sure of: a change of their pool takes alone from them,
\* and defines no pool that they know.
LEMMA OthersGood ==
  ASSUME Inv, NEW who, NEW k \in Listed, NEW n \in PoolNames, NEW p,
         Change(who, k, n, p), Continues(p, pool[k][n], made + 1),
         NEW d \in Calls, d # who
  PROVE  Good(call[d], alone'[d], pool')
  <1> DEFINE r == call[d]
             old == pool[k][n]
  <1>1. WellTyped(r, made) /\ Good(r, alone[d], pool) /\ made \in Nat /\ r.id \in Nat
    BY DEF Inv, World, Requested, WellTyped, Request
  <1>2. pool' = [pool EXCEPT ![k][n] = p] /\ pool \in [Listed -> [PoolNames -> Pool]]
    BY DEF Inv, World, Change
  <1>3. r.n \in PoolNames
    BY <1>1 DEF WellTyped, Request
  <1>4. CASE r.k = k /\ r.n = n
    <2>1. ~alone'[d]
      BY <1>4 DEF Change
    <2>2. pool'[r.k][r.n] = p
      BY <1>2, <1>4
    <2>3. ASSUME r.id # 0, p.id = r.id PROVE Ensured(r, alone'[d], p)
      <3>1. r.id <= made
        BY <1>1 DEF WellTyped
      <3>2. p.def => p.id = old.id /\ old.def
        BY <2>3, <3>1, <1>1 DEF Continues
      <3>3. r.pc = "done" /\ r.stage = "target" => ~p.def
        BY <3>2, <2>3, <1>1, <1>4 DEF Good, Ensured
      <3> QED
        BY <2>1, <3>3 DEF Ensured
    <2> QED
      BY <1>1, <2>2, <2>3 DEF Good
  <1>5. CASE ~(r.k = k /\ r.n = n)
    <2>1. alone'[d] = alone[d]
      <3>1. alone'[d] = (alone[d] /\ (d = who \/ <<r.k, r.n>> # <<k, n>>))
        BY DEF Change
      <3>2. <<r.k, r.n>> # <<k, n>>
        BY <1>5
      <3>3. alone[d] \in BOOLEAN
        BY DEF Inv, World
      <3> QED
        BY <3>1, <3>2, <3>3
    <2>2. r.k \in Listed => pool'[r.k][r.n] = pool[r.k][r.n]
      BY <1>2, <1>3, <1>5
    <2> QED
      BY <1>1, <2>1, <2>2 DEF Good
  <1> QED
    BY <1>4, <1>5

\* A step of a request that changes a pool.
LEMMA ChangeStep ==
  ASSUME Inv, NEW c \in Calls, NEW k \in Listed, NEW n \in PoolNames, NEW p, NEW r,
         Change(c, k, n, p), Continues(p, pool[k][n], made + 1),
         p.id <= made', made' \in {made, made + 1},
         call' = [call EXCEPT ![c] = r], WellTyped(r, made'), Good(r, alone[c], pool'),
         UNCHANGED <<files, ops>>
  PROVE  Inv'
  <1>1. World'
    BY ChangedWorld DEF Continues, Inv, World
  <1>2. alone'[c] = alone[c]
    <2>1. alone'[c] = (alone[c] /\ (c = c \/ <<call[c].k, call[c].n>> # <<k, n>>))
      BY DEF Change
    <2>2. alone[c] \in BOOLEAN
      BY DEF Inv, World
    <2> QED
      BY <2>1, <2>2
  <1>3. ASSUME NEW d \in Calls PROVE WellTyped(call'[d], made') /\ Good(call'[d], alone'[d], pool')
    <2>1. CASE d = c
      BY <2>1, <1>2 DEF Inv, Requested
    <2>2. CASE d # c
      <3>1. call'[d] = call[d]
        BY <2>2 DEF Inv, Requested
      <3>2. WellTyped(call[d], made')
        BY DEF Inv, World, Requested, WellTyped, Request
      <3> QED
        BY <2>2, <3>1, <3>2, OthersGood
    <2> QED
      BY <2>1, <2>2
  <1>4. call' \in [Calls -> Request]
    BY DEF Inv, Requested, WellTyped
  <1> QED
    BY <1>1, <1>3, <1>4 DEF Inv, Requested


\* An operator changes a pool.
LEMMA HostStep ==
  ASSUME Inv, NEW k \in Listed, NEW n \in PoolNames, NEW p,
         Change(Host, k, n, p), Continues(p, pool[k][n], made + 1), p.id <= made,
         ops' \in 0 .. MaxOps, UNCHANGED <<call, files, made>>
  PROVE  Inv'
  <1>1. World'
    BY ChangedWorld DEF Continues, Inv, World
  <1>2. ASSUME NEW d \in Calls PROVE WellTyped(call'[d], made') /\ Good(call'[d], alone'[d], pool')
    <2>1. d # Host
      BY NamesAssumption
    <2> QED
      BY <2>1, OthersGood DEF Inv, Requested
  <1> QED
    BY <1>1, <1>2 DEF Inv, Requested

\* What libvirt makes of a pool.
LEMMA PoolChanges ==
  ASSUME NEW p \in Pool, NEW next \in Nat, p.id <= next, p.id # 0 <=> p.def \/ p.active
  PROVE  /\ Continues(Stopped(p), p, next) /\ Stopped(p).id <= p.id
         /\ Continues(Undefined(p), p, next) /\ Undefined(p).id <= p.id
         /\ p.def => Continues([p EXCEPT !.active = TRUE], p, next)
         /\ p.def => Continues([p EXCEPT !.auto = TRUE], p, next)
  <1>1. NoPool \in Pool /\ NoPool.id = 0 /\ ~NoPool.def /\ ~NoPool.active
    BY DEF NoPool, Pool
  <1>2. Continues(NoPool, p, next)
    BY <1>1 DEF Continues
  <1>3. ASSUME p.def PROVE Continues([p EXCEPT !.active = FALSE], p, next)
    BY <1>3 DEF Continues, Pool
  <1>4. ASSUME p.def PROVE Continues([p EXCEPT !.active = TRUE], p, next)
    BY <1>4 DEF Continues, Pool
  <1>5. ASSUME p.def PROVE Continues([p EXCEPT !.auto = TRUE], p, next)
    BY <1>5 DEF Continues, Pool
  <1>6. ASSUME p.active PROVE Continues([p EXCEPT !.def = FALSE, !.auto = FALSE], p, next)
    BY <1>6 DEF Continues, Pool
  <1>7. Stopped(p).id <= p.id
    BY <1>1 DEF Stopped, Pool
  <1>8. Undefined(p).id <= p.id
    BY <1>1 DEF Undefined, Pool
  <1>9. Continues(Stopped(p), p, next)
    BY <1>2, <1>3 DEF Stopped
  <1>10. Continues(Undefined(p), p, next)
    BY <1>2, <1>6 DEF Undefined
  <1> QED
    BY <1>4, <1>5, <1>7, <1>8, <1>9, <1>10

LEMMA KnownPool ==
  ASSUME Inv, NEW k \in Listed, NEW n \in PoolNames
  PROVE  /\ pool[k][n] \in Pool /\ made \in Nat /\ pool[k][n].id <= made
         /\ pool[k][n].id # 0 <=> pool[k][n].def \/ pool[k][n].active
  BY DEF Inv, World, Exists

LEMMA OutsideStep == Inv /\ Outside => Inv'
  <1> SUFFICES ASSUME Inv, Outside PROVE Inv'
    OBVIOUS
  <1>1. ops' \in 0 .. MaxOps
    BY BoundsAssumption DEF Inv, World, Outside
  <1>2. ASSUME NEW k \in Listed, NEW n \in PoolNames, UNCHANGED <<call, files, made>>,
               \/ /\ pool[k][n].def /\ ~pool[k][n].active
                  /\ Change(Host, k, n, [pool[k][n] EXCEPT !.active = TRUE])
               \/ pool[k][n].active /\ Change(Host, k, n, Stopped(pool[k][n]))
               \/ Undefinable(k, pool[k][n]) /\ Change(Host, k, n, Undefined(pool[k][n]))
        PROVE  Inv'
    <2> DEFINE p == pool[k][n]
    <2>1. /\ p \in Pool /\ p.id <= made /\ p.id <= made + 1
          /\ made \in Nat /\ made + 1 \in Nat /\ (p.id # 0 <=> p.def \/ p.active)
      BY KnownPool DEF Pool
    <2>2. /\ Continues(Stopped(p), p, made + 1) /\ Stopped(p).id <= p.id
          /\ Continues(Undefined(p), p, made + 1) /\ Undefined(p).id <= p.id
          /\ p.def => Continues([p EXCEPT !.active = TRUE], p, made + 1)
      BY <2>1, PoolChanges
    <2>3. /\ Stopped(p).id <= made /\ Undefined(p).id <= made
          /\ [p EXCEPT !.active = TRUE].id <= made
      <3>1. Stopped(p).id \in Nat /\ Undefined(p).id \in Nat
        BY <2>2 DEF Continues, Pool
      <3>2. [p EXCEPT !.active = TRUE].id = p.id
        BY <2>1 DEF Pool
      <3> QED
        BY <2>1, <2>2, <3>1, <3>2 DEF Pool
    <2> HIDE DEF p
    <2>4. CASE p.def /\ Change(Host, k, n, [p EXCEPT !.active = TRUE])
      BY <1>1, <1>2, <2>2, <2>3, <2>4, HostStep DEF p
    <2>5. CASE Change(Host, k, n, Stopped(p))
      BY <1>1, <1>2, <2>2, <2>3, <2>5, HostStep DEF p
    <2>6. CASE Change(Host, k, n, Undefined(p))
      BY <1>1, <1>2, <2>2, <2>3, <2>6, HostStep DEF p
    <2> QED
      BY <1>2, <2>4, <2>5, <2>6 DEF p
  <1>3. ASSUME NEW n \in Names, NEW v \in Vols,
               files' = IF v \in files[n] THEN [files EXCEPT ![n] = @ \ {v}]
                        ELSE [m \in PoolNames |-> IF m = n THEN files[m] \cup {v}
                                              ELSE files[m] \ {v}],
               UNCHANGED <<pool, seen, steady, alone, call, made>>
        PROVE  Inv'
    <2>1. files' \in [PoolNames -> SUBSET Vols]
      BY <1>3 DEF Inv, World
    <2>2. World'
      BY <1>1, <1>3, <2>1 DEF Inv, World, Exists
    <2> QED
      BY <1>3, <2>2 DEF Inv, Requested
  <1> QED
    BY <1>2, <1>3 DEF Outside


(***************************************************************************)
(* Requests begin without a pool that they know.                           *)
(***************************************************************************)
LEMMA BeginStep ==
  ASSUME Inv, NEW c \in Calls, NEW r \in Request, r.id = 0, Placed(r), Begin(c, r)
  PROVE  Inv'
  <1>1. WellTyped(r, made) /\ Good(r, alone'[c], pool)
    BY StrangerGood DEF Inv, World
  <1>2. ops' \in 0 .. MaxOps
    BY BoundsAssumption DEF Inv, World, Begin
  <1>3. /\ steady' \in [Calls -> SUBSET PoolNames] /\ alone' \in [Calls -> BOOLEAN]
        /\ \A d \in Calls \ {c} : alone'[d] = alone[d]
    BY DEF Inv, World, Begin
  <1>4. /\ files' \in [PoolNames -> SUBSET Vols] /\ seen' \in [PoolNames -> SUBSET Vols]
        /\ \A n \in PoolNames : seen'[n] # {} => pool["disk"][n].active
        /\ pool' = pool /\ made' = made /\ call' = [call EXCEPT ![c] = r]
    BY DEF Inv, World, Begin
  <1> QED
    BY <1>1, <1>2, <1>3, <1>4, QuietStep

\* What a request is for decides its type.
LEMMA PoolRequests ==
  ASSUME NEW r \in PoolIds, NEW auto \in BOOLEAN
  PROVE  /\ r \in Request /\ r.id = 0
         /\ LET q == [r EXCEPT !.pc = "look", !.stage = "check", !.auto = auto]
            IN  r.k \in Listed => q \in Request /\ q.id = 0 /\ Placed(q)
         /\ LET q == [r EXCEPT !.pc = "look", !.stage = "target"]
            IN  q \in Request /\ q.id = 0 /\ Placed(q)
         /\ LET q == [r EXCEPT !.pc = "look"]
            IN  q \in Request /\ q.id = 0 /\ Placed(q)
  <1>1. PICK k \in Types, n \in PoolNames : r = PoolId(k, n)
    BY DEF PoolIds
  <1>2. r \in Request /\ r.id = 0 /\ r.stage = "read"
    BY <1>1, NoCallTyped DEF PoolId, Request
  <1>3. ASSUME r.k \in Listed, NEW q, q = [r EXCEPT !.pc = "look", !.stage = "check", !.auto = auto]
        PROVE  q \in Request /\ q.id = 0 /\ Placed(q)
    <2>1. q \in Request /\ q.id = 0 /\ q.pc = "look" /\ q.stage = "check" /\ q.k \in Listed
      BY <1>2, <1>3 DEF Request, Places, IfFound
    <2> QED
      BY <2>1 DEF Placed
  <1>4. ASSUME NEW q, q = [r EXCEPT !.pc = "look", !.stage = "target"]
        PROVE  q \in Request /\ q.id = 0 /\ Placed(q)
    <2>1. q \in Request /\ q.id = 0 /\ q.pc = "look" /\ q.stage = "target"
      BY <1>2, <1>4 DEF Request, Places, IfFound
    <2> QED
      BY <2>1 DEF Placed
  <1>5. ASSUME NEW q, q = [r EXCEPT !.pc = "look"]
        PROVE  q \in Request /\ q.id = 0 /\ Placed(q)
    <2>1. q \in Request /\ q.id = 0 /\ q.pc = "look" /\ q.stage = "read"
      BY <1>2, <1>5 DEF Request, Places
    <2> QED
      BY <2>1 DEF Placed
  <1> QED
    BY <1>2, <1>3, <1>4, <1>5

LEMMA RequestsStep ==
  ASSUME Inv, NEW c \in Calls, Requests(c)
  PROVE  Inv'
  <1>1. ASSUME Begin(c, [NoCall EXCEPT !.pc = "failed"]) PROVE Inv'
    BY <1>1, ReturnedNoCall, BeginStep
  <1>2. CASE BadArguments(c)
    BY <1>1, <1>2 DEF BadArguments
  <1>3. CASE create_child_pool(c)
    <2>1. PICK r \in PoolIds, auto \in BOOLEAN : \E accepted \in Judged[r.k] :
            IF accepted
            THEN Begin(c, [r EXCEPT !.pc = "look", !.stage = "check",
                                    !.auto = auto /\ r.k = "disk"])
            ELSE Begin(c, [NoCall EXCEPT !.pc = "failed"])
      BY <1>3 DEF create_child_pool
    <2>2. PICK accepted \in Judged[r.k] :
            IF accepted
            THEN Begin(c, [r EXCEPT !.pc = "look", !.stage = "check",
                                    !.auto = auto /\ r.k = "disk"])
            ELSE Begin(c, [NoCall EXCEPT !.pc = "failed"])
      BY <2>1
    <2>3. CASE accepted
      <3>1. r \in Request
        BY PoolRequests
      <3>2. r.k \in Listed
        <4>1. r.k \in Types
          BY <3>1 DEF Request
        <4>2. \A k \in Types : k \in Singles => Judged[k] = {FALSE}
          BY SMT DEF Judged
        <4> QED
          BY <2>2, <2>3, <4>1, <4>2 DEF Types
      <3> DEFINE a == auto /\ r.k = "disk"
      <3>3. a \in BOOLEAN
        OBVIOUS
      <3>4. Begin(c, [r EXCEPT !.pc = "look", !.stage = "check", !.auto = a])
        BY <2>2, <2>3
      <3> HIDE DEF a
      <3> QED
        BY <3>2, <3>3, <3>4, PoolRequests, BeginStep
    <2>4. CASE ~accepted
      BY <1>1, <2>2, <2>4
    <2> QED
      BY <2>3, <2>4
  <1>4. CASE delete_pool(c)
    <2>1. PICK r \in PoolIds : Begin(c, [r EXCEPT !.pc = "look", !.stage = "target"])
      BY <1>4 DEF delete_pool
    <2> QED
      BY <2>1, PoolRequests, BeginStep
  <1>5. CASE GetInstance(c)
    <2>1. PICK r \in PoolIds : Begin(c, [r EXCEPT !.pc = "look"])
      BY <1>5 DEF GetInstance
    <2> QED
      BY <2>1, PoolRequests, BeginStep
  <1>6. CASE EnumInstances(c)
    <2>1. PICK k \in Types :
            Begin(c, [NoCall EXCEPT !.pc = "look", !.k = k, !.all = TRUE])
      BY <1>6 DEF EnumInstances
    <2> DEFINE r == [NoCall EXCEPT !.pc = "look", !.k = k, !.all = TRUE]
    <2>2. r \in Request /\ r.id = 0 /\ r.pc = "look" /\ r.stage = "read"
      BY NoCallTyped DEF Request, Places
    <2>3. Begin(c, r)
      BY <2>1
    <2> HIDE DEF r
    <2>4. Placed(r)
      BY <2>2 DEF Placed
    <2> QED
      BY <2>2, <2>3, <2>4, BeginStep
  <1>7. ASSUME NEW pc \in {"newvol", "delvol", "refresh"}, NEW N \in SUBSET PoolNames,
               NEW V \in SUBSET (Vols \cup {"none"}), VolumeCall(c, pc, N, V),
               pc = "newvol" => V = Vols
        PROVE  Inv'
    <2>1. PICK n \in N, v \in V :
            Begin(c, [NoCall EXCEPT !.pc = pc, !.k = "disk", !.n = n, !.v = v])
      BY <1>7 DEF VolumeCall
    <2> DEFINE r == [NoCall EXCEPT !.pc = pc, !.k = "disk", !.n = n, !.v = v]
    <2>2. r \in Request /\ r.id = 0 /\ r.pc = pc /\ r.stage = "read" /\ r.v = v
      BY NoCallTyped DEF Request, Places, Types, Listed
    <2>3. Begin(c, r)
      BY <2>1
    <2> HIDE DEF r
    <2>4. Placed(r)
      BY <1>7, <2>2 DEF Placed
    <2> QED
      BY <2>2, <2>3, <2>4, BeginStep
  <1>8. CASE create_resource_in_pool(c)
    BY <1>7, <1>8 DEF create_resource_in_pool, PoolNames
  <1>9. CASE delete_resource_in_pool(c)
    BY <1>7, <1>9 DEF delete_resource_in_pool, PoolNames
  <1>10. CASE refresh_resources_in_pool(c)
    BY <1>7, <1>10 DEF refresh_resources_in_pool, PoolNames
  <1> QED
    BY <1>2, <1>3, <1>4, <1>5, <1>6, <1>8, <1>9, <1>10 DEF Requests


(***************************************************************************)
(* A request under way: what its record keeps when it moves or returns.    *)
(***************************************************************************)
Same(q, r) == q.stage = r.stage /\ q.k = r.k /\ q.n = r.n /\ q.id = r.id

LEMMA Caller ==
  ASSUME Inv, NEW c \in Calls
  PROVE  /\ call[c] \in Request /\ call[c].id \in Nat /\ call[c].id <= made /\ made \in Nat
         /\ WellTyped(call[c], made) /\ Placed(call[c]) /\ Good(call[c], alone[c], pool)
         /\ call[c].n \in PoolNames /\ alone[c] \in BOOLEAN
  BY DEF Inv, World, Requested, WellTyped, Good, Request

LEMMA Moved ==
  ASSUME NEW r \in Request, NEW pc \in Places
  PROVE  LET q == [r EXCEPT !.pc = pc]
         IN  q \in Request /\ q.pc = pc /\ Same(q, r) /\ q.auto = r.auto
  BY DEF Request, Same

\* A request that returns is kept as it is, or forgotten.
LEMMA ReturnedGood ==
  ASSUME NEW r \in Request, NEW pc \in {"done", "failed"}, NEW al, NEW P,
         NEW bound \in Nat, r.id <= bound, Good([r EXCEPT !.pc = pc], al, P)
  PROVE  WellTyped(Returned(r, pc), bound) /\ Good(Returned(r, pc), al, P)
  <1>1. CASE r.id # 0 \/ (r.all /\ pc = "done")
    <2>1. [r EXCEPT !.pc = pc] \in Request /\ [r EXCEPT !.pc = pc].id = r.id
      BY DEF Request, Places
    <2>2. Returned(r, pc) = [r EXCEPT !.pc = pc]
      BY <1>1 DEF Returned
    <2> QED
      BY <2>1, <2>2 DEF WellTyped
  <1>2. CASE ~(r.id # 0 \/ (r.all /\ pc = "done"))
    BY <1>2, ReturnedNoCall, StrangerGood DEF Returned
  <1> QED
    BY <1>1, <1>2

\* A request that fails, and one that did not undertake to delete a pool.
LEMMA FailedGood ==
  ASSUME NEW r \in Request, NEW q, q = [r EXCEPT !.pc = "failed"],
         NEW al \in BOOLEAN, NEW P, Good(r, al, P),
         r.stage = "check" /\ r.id # 0 => r.pc = "auto"
  PROVE  Good(q, al, P)
  <1>1. q.pc = "failed" /\ Same(q, r)
    BY Moved DEF Places
  <1>2. Placed(q)
    BY <1>1 DEF Good, Placed, Same, Early
  <1>3. ASSUME r.k \in Listed, r.id # 0, P[r.k][r.n].id = r.id
        PROVE  Ensured(q, al, P[r.k][r.n])
    <2>1. Ensured(r, al, P[r.k][r.n])
      BY <1>3 DEF Good
    <2> QED
      BY <1>1, <1>3, <2>1 DEF Ensured, Same
  <1> QED
    BY <1>1, <1>2, <1>3 DEF Good, Same

LEMMA DoneGood ==
  ASSUME NEW r \in Request, NEW q, q = [r EXCEPT !.pc = "done"],
         NEW al \in BOOLEAN, NEW P, Good(r, al, P), r.stage # "target"
  PROVE  Good(q, al, P)
  <1>1. q.pc = "done" /\ Same(q, r)
    BY Moved DEF Places
  <1>2. Placed(q)
    BY <1>1 DEF Good, Placed, Same, Early
  <1>3. ASSUME r.k \in Listed, r.id # 0, P[r.k][r.n].id = r.id
        PROVE  Ensured(q, al, P[r.k][r.n])
    <2>1. Ensured(r, al, P[r.k][r.n])
      BY <1>3 DEF Good
    <2> QED
      BY <1>1, <1>3, <2>1 DEF Ensured, Same
  <1> QED
    BY <1>1, <1>2, <1>3 DEF Good, Same

LEMMA ReturnsStep ==
  ASSUME Inv, NEW c \in Calls, Returns(c, "failed"),
         call[c].stage = "check" /\ call[c].id # 0 => call[c].pc = "auto",
         UNCHANGED <<pool, files, seen, steady, alone, made, ops>>
  PROVE  Inv'
  <1>1. Good([call[c] EXCEPT !.pc = "failed"], alone[c], pool)
    BY Caller, FailedGood
  <1>2. WellTyped(Returned(call[c], "failed"), made)
        /\ Good(Returned(call[c], "failed"), alone[c], pool)
    BY <1>1, Caller, ReturnedGood
  <1> QED
    BY <1>2, LocalStep DEF Returns

LEMMA FailuresStep ==
  ASSUME Inv, NEW c \in Calls, Failures(c)
  PROVE  Inv'
  <1>1. ASSUME NEW pc \in Connects \cup {"undefine", "newvol", "path"}, NEW kind,
               Fault(c, pc, kind)
        PROVE  Inv'
    <2>1. call[c].stage = "check" => call[c].id = 0
      BY <1>1, Caller DEF Fault, At, Connects, Placed, Early
    <2> QED
      BY <1>1, <2>1, ReturnsStep DEF Fault
  <1> QED
    BY <1>1 DEF Failures, Connects


(***************************************************************************)
(* Lookups.                                                                *)
(***************************************************************************)
Looking == {"look", "count", "list", "fetch"}

\* The outcome of a lookup.
LEMMA AnswerGood ==
  ASSUME NEW r \in Request, NEW al \in BOOLEAN, NEW P, Good(r, al, P), r.pc \in Looking,
         NEW to \in {"done", "failed", "define", "find"},
         to \in {"define", "find"} => r.stage = (IF to = "find" THEN "target" ELSE "check"),
         to = "done" => r.stage # "target"
  PROVE  Good([r EXCEPT !.pc = to], al, P)
  <1>1. r.stage = "check" => r.id = 0
    BY DEF Good, Placed, Early, Looking
  <1>2. CASE to = "done"
    BY <1>2, DoneGood
  <1>3. CASE to = "failed"
    BY <1>1, <1>3, FailedGood
  <1>4. CASE to \in {"define", "find"}
    <2> DEFINE q == [r EXCEPT !.pc = to]
    <2>1. q.pc = to /\ Same(q, r)
      BY DEF Request, Same
    <2> HIDE DEF q
    <2>2. Placed(q)
      BY <1>1, <1>4, <2>1 DEF Good, Placed, Same, Early
    <2>3. ASSUME r.k \in Listed, r.id # 0, P[r.k][r.n].id = r.id
          PROVE  Ensured(q, al, P[r.k][r.n])
      <3>1. Ensured(r, al, P[r.k][r.n])
        BY <2>3 DEF Good
      <3> QED
        BY <1>4, <2>1, <2>3, <3>1 DEF Ensured, Same
    <2>4. Good(q, al, P)
      BY <2>1, <2>2, <2>3 DEF Good, Same
    <2> QED
      BY <2>4 DEF q
  <1> QED
    BY <1>2, <1>3, <1>4

LEMMA AnswerStep ==
  ASSUME Inv, NEW c \in Calls, NEW r \in Request, NEW found \in BOOLEAN,
         Same(r, call[c]), r.pc = call[c].pc, r.pc \in Looking, Answer(c, r, found),
         steady' \in [Calls -> SUBSET PoolNames],
         UNCHANGED <<pool, files, seen, alone, made, ops>>
  PROVE  Inv'
  <1> DEFINE to == IF found THEN IfFound[r.stage] ELSE IfMissing[r.stage]
             left == [r EXCEPT !.room = 0, !.listed = IF r.all THEN @ ELSE {}]
             q == IF to \in {"done", "failed"} THEN Returned(left, to)
                  ELSE [left EXCEPT !.pc = to]
  <1>1. r.stage \in {"check", "result", "target", "read"}
    BY DEF Request, IfFound
  <1>2. /\ to \in {"done", "failed", "define", "find"}
        /\ to \in {"define", "find"} => r.stage = (IF to = "find" THEN "target" ELSE "check")
        /\ to = "done" => r.stage # "target"
    BY <1>1 DEF IfFound, IfMissing
  <1>3. left \in Request /\ Same(left, r) /\ left.pc = r.pc
    BY DEF Request, Same
  <1>4. call' = [call EXCEPT ![c] = q]
    BY DEF Answer
  <1> HIDE DEF to, left
  <1>5. Good(left, alone[c], pool)
    <2>1. Placed(left)
      BY <1>3, Caller DEF Same, Placed, Looking
    <2>2. ASSUME left.k \in Listed, left.id # 0, pool[left.k][left.n].id = left.id
          PROVE  Ensured(left, alone[c], pool[left.k][left.n])
      <3>1. Ensured(call[c], alone[c], pool[left.k][left.n])
        BY <1>3, <2>2, Caller DEF Good, Same
      <3> QED
        BY <1>3, <3>1 DEF Ensured, Same
    <2> QED
      BY <2>1, <2>2 DEF Good
  <1>6. Good([left EXCEPT !.pc = to], alone[c], pool)
    BY <1>2, <1>3, <1>5, Caller, AnswerGood DEF Same
  <1>7. left.id <= made /\ made \in Nat
    BY <1>3, Caller DEF Same
  <1>8. WellTyped(q, made) /\ Good(q, alone[c], pool)
    <2>1. CASE to \in {"done", "failed"}
      BY <1>3, <1>6, <1>7, <2>1, ReturnedGood
    <2>2. CASE to \notin {"done", "failed"}
      <3>1. [left EXCEPT !.pc = to] \in Request /\ [left EXCEPT !.pc = to].id = left.id
        BY <1>2, <1>3 DEF Request, Places
      <3> QED
        BY <1>6, <1>7, <2>2, <3>1 DEF WellTyped
    <2> QED
      BY <2>1, <2>2
  <1> HIDE DEF q
  <1>9. /\ files' \in [PoolNames -> SUBSET Vols] /\ seen' \in [PoolNames -> SUBSET Vols]
        /\ \A n \in PoolNames : seen'[n] # {} => pool["disk"][n].active
        /\ alone' \in [Calls -> BOOLEAN] /\ \A d \in Calls \ {c} : alone'[d] = alone[d]
        /\ ops' \in 0 .. MaxOps /\ pool' = pool /\ made' = made /\ alone'[c] = alone[c]
    BY DEF Inv, World
  <1> QED
    BY <1>4, <1>8, <1>9, QuietStep

\* A lookup that goes on.
LEMMA GoesOnStep ==
  ASSUME Inv, NEW c \in Calls, NEW r \in Request, Same(r, call[c]),
         call[c].pc \in Looking, r.pc \in {"count", "list", "fetch"}, r.k \in Listed,
         call' = [call EXCEPT ![c] = r],
         steady' \in [Calls -> SUBSET PoolNames],
         UNCHANGED <<pool, files, seen, alone, made, ops>>
  PROVE  Inv'
  <1>1. Placed(r)
    BY Caller DEF Placed, Same, Looking, Early
  <1>2. Good(r, alone[c], pool)
    <2>1. ASSUME r.id # 0, pool[r.k][r.n].id = r.id
          PROVE  Ensured(r, alone[c], pool[r.k][r.n])
      <3>1. Ensured(call[c], alone[c], pool[r.k][r.n])
        BY <2>1, Caller DEF Good, Same
      <3> QED
        BY <3>1 DEF Ensured, Same
    <2> QED
      BY <1>1, <2>1 DEF Good
  <1>3. WellTyped(r, made)
    BY Caller DEF WellTyped, Same
  <1>4. /\ files' \in [PoolNames -> SUBSET Vols] /\ seen' \in [PoolNames -> SUBSET Vols]
        /\ \A n \in PoolNames : seen'[n] # {} => pool["disk"][n].active
        /\ alone' \in [Calls -> BOOLEAN] /\ \A d \in Calls \ {c} : alone'[d] = alone[d]
        /\ ops' \in 0 .. MaxOps /\ pool' = pool /\ made' = made /\ alone'[c] = alone[c]
    BY DEF Inv, World
  <1> QED
    BY <1>2, <1>3, <1>4, QuietStep

LEMMA CompareStep ==
  ASSUME Inv, NEW c \in Calls, NEW r \in Request, Same(r, call[c]),
         r.pc = call[c].pc, r.pc \in Looking, r.k \in Listed, Compare(c, r),
         steady' \in [Calls -> SUBSET PoolNames],
         UNCHANGED <<pool, files, seen, alone, made, ops>>
  PROVE  Inv'
  <1>1. CASE r.all
    <2> DEFINE q == [r EXCEPT !.pc = "fetch"]
    <2>1. q \in Request /\ Same(q, call[c]) /\ q.pc = "fetch" /\ q.k \in Listed
      BY DEF Request, Places, Same
    <2>2. call' = [call EXCEPT ![c] = q]
      BY <1>1 DEF Compare
    <2> HIDE DEF q
    <2> QED
      BY <2>1, <2>2, GoesOnStep
  <1>2. CASE ~r.all
    <2> DEFINE q == [r EXCEPT !.listed = @ \cup {Primordial}]
               found == r.n \in r.listed \cup {Primordial}
    <2>1. q \in Request /\ Same(q, call[c]) /\ q.pc = call[c].pc
      BY DEF Request, Same, PoolNames
    <2>2. Answer(c, q, found)
      BY <1>2 DEF Compare
    <2>3. found \in BOOLEAN
      BY DEF Request
    <2> HIDE DEF q, found
    <2> QED
      BY <2>1, <2>2, <2>3, AnswerStep
  <1> QED
    BY <1>1, <1>2


LEMMA LookupsStep ==
  ASSUME Inv, NEW c \in Calls, Lookups(c)
  PROVE  Inv'
  <1> DEFINE r == call[c]
  <1>1. /\ r \in Request /\ Same(r, r) /\ r.k \in Types
        /\ steady \in [Calls -> SUBSET PoolNames]
        /\ r.pc \in {"count", "list", "fetch"} => r.k \in Listed
    BY Caller DEF Same, Request, Inv, World, Placed
  <1>2. CASE LookFails(c)
    BY <1>1, <1>2, AnswerStep DEF LookFails, At, Looking
  <1>3. CASE LookByName(c)
    <2> DEFINE q == [r EXCEPT !.listed = {Primordial}]
               found == SingleFound(r) \/ NetFound(r)
    <2>1. q \in Request /\ Same(q, r) /\ q.pc = "look" /\ r.pc = "look"
      BY <1>1, <1>3 DEF LookByName, At, Request, Same, PoolNames
    <2>2. Answer(c, q, found) /\ found \in BOOLEAN
      BY <1>3 DEF LookByName
    <2> HIDE DEF q, found
    <2> QED
      BY <1>1, <1>3, <2>1, <2>2, AnswerStep DEF LookByName, Looking
  <1>4. CASE Listing(c)
    <2> DEFINE q == [r EXCEPT !.pc = "count"]
    <2>1. q \in Request /\ Same(q, r) /\ q.pc = "count" /\ r.pc = "look" /\ q.k \in Listed
      BY <1>1, <1>4 DEF Listing, At, Request, Same, Places, Listed
    <2>2. call' = [call EXCEPT ![c] = q]
      BY <1>4, Caller DEF Listing, Goes, Inv, Requested
    <2> HIDE DEF q
    <2> QED
      BY <1>1, <1>4, <2>1, <2>2, GoesOnStep DEF Listing, Looking
  <1>5. CASE Count(c)
    <2> DEFINE n == Cardinality(Active(r.k))
               q == [r EXCEPT !.room = n, !.pc = "list"]
    <2>1. r.pc = "count" /\ r.k \in Listed
      BY <1>1, <1>5 DEF Count, At
    <2>2. Active(r.k) \subseteq PoolNames
      BY DEF Active
    <2>3. n \in Nat
      BY <2>2, PoolNamesFinite, FS_Subset, FS_CardinalityType
    <2>4. steady' \in [Calls -> SUBSET PoolNames]
      BY <1>1, <1>5, <2>2 DEF Count
    <2>5. CASE n = 0
      BY <1>1, <1>5, <2>1, <2>4, <2>5, CompareStep DEF Count, Looking
    <2>6. CASE n # 0
      <3>1. q \in Request /\ Same(q, r) /\ q.pc = "list" /\ q.k \in Listed
        BY <1>1, <2>1, <2>3 DEF Request, Same, Places
      <3>2. call' = [call EXCEPT ![c] = q]
        BY <1>5, <2>6 DEF Count, Inv, Requested
      <3> HIDE DEF q
      <3> QED
        BY <1>1, <1>5, <2>1, <2>4, <3>1, <3>2, GoesOnStep DEF Count, Looking
    <2> QED
      BY <2>5, <2>6
  <1>6. CASE List(c)
    <2>1. PICK T \in Fits(r.room, Active(r.k)) : Compare(c, [r EXCEPT !.listed = T])
      BY <1>6 DEF List
    <2> DEFINE q == [r EXCEPT !.listed = T]
    <2>2. T \in SUBSET PoolNames
      BY DEF Fits, Active
    <2>3. q \in Request /\ Same(q, r) /\ q.pc = "list" /\ r.pc = "list" /\ q.k \in Listed
      BY <1>1, <1>6, <2>2 DEF List, At, Request, Same
    <2> HIDE DEF q
    <2> QED
      BY <1>1, <1>6, <2>1, <2>3, CompareStep DEF List, Looking, q
  <1>7. CASE Fetch(c)
    <2>1. PICK L \in SUBSET PoolNames, D \in SUBSET PoolNames :
             /\ Answer(c, [r EXCEPT !.listed = L], TRUE)
             /\ steady' = [steady EXCEPT ![c] = @ \ D]
      BY <1>1, <1>7 DEF Fetch, Request, PoolNames
    <2> DEFINE q == [r EXCEPT !.listed = L]
    <2>2. q \in Request /\ Same(q, r) /\ q.pc = "fetch" /\ r.pc = "fetch"
      BY <1>1, <1>7 DEF Fetch, At, Request, Same
    <2>3. Answer(c, q, TRUE)
      BY <2>1
    <2>4. steady' \in [Calls -> SUBSET PoolNames]
      BY <1>1, <2>1
    <2> HIDE DEF q
    <2> QED
      BY <1>1, <1>7, <2>2, <2>3, <2>4, AnswerStep DEF Fetch, Looking
  <1> QED
    BY <1>2, <1>3, <1>4, <1>5, <1>6, <1>7 DEF Lookups


(***************************************************************************)
(* The steps of define_pool.                                               *)
(***************************************************************************)
\* A change of the pool that the request names, and what it finds there.
LEMMA OwnChange ==
  ASSUME Inv, NEW c \in Calls, call[c].k \in Listed, NEW p,
         Change(c, call[c].k, call[c].n, p)
  PROVE  pool'[call[c].k][call[c].n] = p
  BY Caller DEF Change, Inv, World

LEMMA OwnPool ==
  ASSUME Inv, NEW c \in Calls, call[c].k \in Listed
  PROVE  /\ Defined(c) = pool[call[c].k][call[c].n]
         /\ Defined(c) \in Pool /\ Defined(c).id <= made /\ Defined(c).id <= made + 1
         /\ made \in Nat /\ made + 1 \in Nat
         /\ Defined(c).id # 0 <=> Defined(c).def \/ Defined(c).active
  BY Caller, KnownPool DEF Defined, Pool

\* A request that moves, and a pool that stays.
LEMMA GoesStep ==
  ASSUME Inv, NEW c \in Calls, NEW pc \in Places, Goes(c, pc),
         Placed([call[c] EXCEPT !.pc = pc]),
         call[c].k \in Listed /\ Mine(c)
            => Ensured([call[c] EXCEPT !.pc = pc], alone[c], Defined(c)),
         UNCHANGED <<pool, files, seen, steady, alone, made, ops>>
  PROVE  Inv'
  <1> DEFINE r == [call[c] EXCEPT !.pc = pc]
  <1>1. r \in Request /\ Same(r, call[c])
    BY Caller, Moved
  <1>2. call' = [call EXCEPT ![c] = r]
    BY Caller DEF Goes, Inv, Requested
  <1>3. call[c].k \in Listed /\ Mine(c) => Ensured(r, alone[c], Defined(c))
    OBVIOUS
  <1>4. Placed(r)
    OBVIOUS
  <1> HIDE DEF r
  <1>5. WellTyped(r, made) /\ Good(r, alone[c], pool)
    BY <1>1, <1>3, <1>4, Caller DEF WellTyped, Good, Mine, Defined, Same
  <1> QED
    BY <1>2, <1>5, LocalStep

LEMMA DefinePoolStep ==
  ASSUME Inv, NEW c \in Calls, DefinePool(c)
  PROVE  Inv'
  <1> DEFINE r == call[c]
  <1>1. r.pc = "define" /\ r.stage = "check" /\ r.k \in Listed /\ r.id = 0
    BY Caller DEF DefinePool, At, Placed, Early
  <1>2. CASE ~Exists(r.k, r.n)
    <2> DEFINE p == [Existing EXCEPT !.id = made + 1]
               q == [r EXCEPT !.pc = "start", !.id = made + 1]
    <2>1. Change(c, r.k, r.n, p) /\ made' = made + 1 /\ UNCHANGED <<files, ops>>
      BY <1>2 DEF DefinePool
    <2>2. call' = [call EXCEPT ![c] = q]
      BY <1>2 DEF DefinePool, Inv, Requested
    <2>3. made \in Nat /\ made + 1 # 0 /\ made + 1 \in Nat
      BY Caller
    <2>4. p \in Pool /\ p.id = made + 1 /\ p.def /\ ~p.active
      <3>1. NoPool \in Pool /\ ~NoPool.active
        BY DEF NoPool, Pool
      <3>2. Existing \in Pool /\ Existing.def /\ ~Existing.active
        BY <3>1 DEF Existing, Pool
      <3> QED
        BY <2>3, <3>2 DEF Pool
    <2>5. /\ q \in Request /\ q.pc = "start" /\ q.stage = "check" /\ q.id = made + 1
          /\ q.k = r.k /\ q.n = r.n
      BY <1>1, <2>3, Caller DEF Request, Places
    <2> HIDE DEF p, q
    <2>6. Continues(p, pool[r.k][r.n], made + 1) /\ p.id <= made'
      BY <2>1, <2>3, <2>4 DEF Continues
    <2>7. WellTyped(q, made')
      BY <2>1, <2>3, <2>5 DEF WellTyped
    <2>8. Placed(q)
      BY <1>1, <2>3, <2>5 DEF Placed, Early
    <2>9. pool'[q.k][q.n] = p
      BY <1>1, <2>1, <2>5, OwnChange
    <2>10. Ensured(q, alone[c], p)
      BY <2>4, <2>5 DEF Ensured
    <2>11. Good(q, alone[c], pool')
      BY <2>8, <2>9, <2>10 DEF Good
    <2> QED
      BY <1>1, <2>1, <2>2, <2>6, <2>7, <2>11, Caller, ChangeStep
  <1>3. CASE Exists(r.k, r.n)
    BY <1>1, <1>3, ReturnsStep DEF DefinePool
  <1> QED
    BY <1>2, <1>3

LEMMA StartPoolStep ==
  ASSUME Inv, NEW c \in Calls, StartPool(c)
  PROVE  Inv'
  <1> DEFINE r == call[c]
             old == Defined(c)
             p == [old EXCEPT !.active = TRUE]
             q == [r EXCEPT !.pc = Started(c), !.stage = "result"]
  <1>1. r.pc = "start" /\ r.stage = "check" /\ r.k \in Listed /\ r.id # 0 /\ old.id = r.id
    BY Caller DEF StartPool, At, Placed, Mine
  <1>2. Change(c, r.k, r.n, p) /\ UNCHANGED <<files, made, ops>>
    BY DEF StartPool
  <1>3. call' = [call EXCEPT ![c] = q]
    BY DEF StartPool, Inv, Requested
  <1>4. p \in Pool /\ p.active /\ p.id = old.id /\ p.def = old.def
    BY <1>1, OwnPool DEF Pool
  <1>5. old.def
    BY <1>1, OwnPool DEF StartPool, Defined
  <1>6. Continues(p, old, made + 1) /\ p.id <= made'
    BY <1>1, <1>2, <1>4, <1>5, OwnPool DEF Continues
  <1>7. /\ q \in Request /\ q.pc \in {"auto", "look"} /\ q.stage = "result"
        /\ q.k = r.k /\ q.n = r.n /\ q.id = r.id
    BY Caller DEF Started, Request, Places, IfFound
  <1> HIDE DEF p, q
  <1>8. WellTyped(q, made')
    BY <1>2, <1>7, Caller DEF WellTyped
  <1>9. Placed(q)
    BY <1>1, <1>7 DEF Placed
  <1>10. pool'[q.k][q.n] = p
    BY <1>1, <1>2, <1>7, OwnChange
  <1>11. Ensured(q, alone[c], p)
    BY <1>4, <1>7 DEF Ensured
  <1>12. Good(q, alone[c], pool')
    BY <1>9, <1>10, <1>11 DEF Good
  <1> QED
    BY <1>1, <1>2, <1>3, <1>6, <1>8, <1>12, OwnPool, Caller, ChangeStep

LEMMA StartFailsStep ==
  ASSUME Inv, NEW c \in Calls, StartFails(c)
  PROVE  Inv'
  <1> DEFINE q == [call[c] EXCEPT !.pc = "undo"]
  <1>1. /\ call[c].pc = "start" /\ call[c].stage = "check" /\ call[c].k \in Listed
        /\ call[c].id # 0
    BY Caller DEF StartFails, At, Placed
  <1>2. q \in Request /\ q.pc = "undo" /\ Same(q, call[c])
    BY Caller, Moved DEF Places
  <1> HIDE DEF q
  <1>3. Placed(q)
    BY <1>1, <1>2 DEF Placed, Same, Early
  <1>4. Mine(c) => Ensured(call[c], alone[c], Defined(c))
    BY <1>1, Caller DEF Good, Mine, Defined
  <1>5. Mine(c) => Ensured(q, alone[c], Defined(c))
    BY <1>1, <1>2, <1>4 DEF Ensured, Same
  <1> QED
    BY <1>3, <1>5, GoesStep DEF StartFails, q, Places


\* A request changes the pool that it names, and moves.
LEMMA OwnChangeStep ==
  ASSUME Inv, NEW c \in Calls, call[c].k \in Listed, NEW p, NEW q \in Request,
         Change(c, call[c].k, call[c].n, p), Continues(p, Defined(c), made + 1),
         p.id <= made, Same(q, call[c]), Placed(q), call' = [call EXCEPT ![c] = q],
         p.id = q.id => Ensured(q, alone[c], p), UNCHANGED <<files, made, ops>>
  PROVE  Inv'
  <1>1. pool'[q.k][q.n] = p
    BY OwnChange DEF Same
  <1>2. WellTyped(q, made') /\ Good(q, alone[c], pool')
    BY <1>1, Caller DEF WellTyped, Good, Same
  <1>3. Defined(c) = pool[call[c].k][call[c].n]
    BY OwnPool
  <1> QED
    BY <1>2, <1>3, Caller, ChangeStep

LEMMA UndoPoolStep ==
  ASSUME Inv, NEW c \in Calls, UndoPool(c)
  PROVE  Inv'
  <1> DEFINE r == call[c]
             to == IF r.auto THEN "auto" ELSE "failed"
             q == [r EXCEPT !.pc = to]
             old == Defined(c)
             p == Undefined(old)
  <1>1. r.pc = "undo" /\ r.stage = "check" /\ r.k \in Listed /\ r.id # 0
    BY Caller DEF UndoPool, At, Placed
  <1>2. to \in {"auto", "failed"} /\ to \in Places
    BY DEF Places
  <1>3. q \in Request /\ q.pc = to /\ Same(q, r)
    BY <1>2, Caller DEF Request, Same
  <1>4. Goes(c, to) /\ call' = [call EXCEPT ![c] = q] /\ UNCHANGED <<files, made, ops>>
    BY DEF UndoPool, Goes, Inv, Requested
  <1>5. Mine(c) => Ensured(r, alone[c], old)
    BY <1>1, Caller DEF Good, Mine, Defined
  <1>6. Mine(c) /\ alone[c] => old.def /\ ~old.active
    BY <1>1, <1>5 DEF Ensured
  <1> HIDE DEF to, q
  <1>7. Placed(q)
    BY <1>1, <1>2, <1>3 DEF Placed, Same, Early
  <1>8. CASE Mine(c) /\ Undefinable(r.k, old) /\ Change(c, r.k, r.n, p)
    <2>1. Continues(p, old, made + 1) /\ p.id <= made
      <3>1. Continues(p, old, made + 1) /\ p.id <= old.id
        BY <1>1, OwnPool, PoolChanges
      <3>2. p.id \in Nat
        BY <3>1 DEF Continues, Pool
      <3> QED
        BY <1>1, <3>1, <3>2, OwnPool DEF Pool
    <2>2. ~old.active => p.id = 0
      BY DEF Undefined, NoPool
    <2>3. p.id = q.id => Ensured(q, alone[c], p)
      BY <1>1, <1>2, <1>3, <1>6, <1>8, <2>2 DEF Ensured, Same
    <2> HIDE DEF p
    <2> QED
      BY <1>1, <1>3, <1>4, <1>7, <1>8, <2>1, <2>3, OwnChangeStep
  <1>9. CASE /\ "undo" \in Faults \/ ~Mine(c) \/ ~Undefinable(r.k, old)
             /\ UNCHANGED <<pool, seen, steady, alone>>
    <2>1. "undo" \in Faults \/ ~Mine(c) \/ ~alone[c]
      BY <1>6, <1>9 DEF Undefinable
    <2>2. Mine(c) => Ensured(q, alone[c], old)
      BY <1>1, <1>2, <1>3, <2>1 DEF Ensured, Same
    <2> QED
      BY <1>2, <1>4, <1>7, <1>9, <2>2, GoesStep DEF q
  <1> QED
    BY <1>8, <1>9 DEF UndoPool

LEMMA SetAutostartStep ==
  ASSUME Inv, NEW c \in Calls, SetAutostart(c)
  PROVE  Inv'
  <1> DEFINE r == call[c]
             to == IF r.stage = "result" THEN "look" ELSE "failed"
             q == [r EXCEPT !.pc = to]
             old == Defined(c)
             p == [old EXCEPT !.auto = TRUE]
  <1>1. r.pc = "auto" /\ r.stage \in {"check", "result"} /\ r.k \in Listed /\ r.id # 0
    BY Caller DEF SetAutostart, At, Placed
  <1>2. to \in {"look", "failed"} /\ to \in Places /\ (to = "look" <=> r.stage = "result")
    BY DEF Places
  <1>3. q \in Request /\ q.pc = to /\ Same(q, r)
    BY <1>2, Caller DEF Request, Same
  <1>4. Goes(c, to) /\ call' = [call EXCEPT ![c] = q] /\ UNCHANGED <<files, made, ops>>
    BY DEF SetAutostart, Goes, Inv, Requested
  <1>5. Mine(c) => Ensured(r, alone[c], old)
    BY <1>1, Caller DEF Good, Mine, Defined
  <1> HIDE DEF to, q
  <1>6. Placed(q)
    BY <1>1, <1>2, <1>3 DEF Placed, Same, Early
  <1>7. Mine(c) => Ensured(q, alone[c], old)
    BY <1>1, <1>2, <1>3, <1>5 DEF Ensured, Same
  <1>8. CASE Mine(c) /\ old.def
    <2>1. Change(c, r.k, r.n, p)
      BY <1>8 DEF SetAutostart
    <2>2. p \in Pool /\ p.id = old.id /\ p.def = old.def /\ p.active = old.active
      BY <1>1, OwnPool DEF Pool
    <2>3. Continues(p, old, made + 1) /\ p.id <= made
      BY <1>1, <1>8, <2>2, OwnPool DEF Continues
    <2>4. p.id = q.id => Ensured(q, alone[c], p)
      BY <1>7, <1>8, <2>2 DEF Ensured
    <2> HIDE DEF p
    <2> QED
      BY <1>1, <1>3, <1>4, <1>6, <2>1, <2>3, <2>4, OwnChangeStep
  <1>9. CASE ~(Mine(c) /\ old.def)
    BY <1>2, <1>4, <1>6, <1>7, <1>9, GoesStep DEF SetAutostart, q
  <1> QED
    BY <1>8, <1>9

(***************************************************************************)
(* The steps of destroy_pool.                                              *)
(***************************************************************************)
LEMMA FindPoolStep ==
  ASSUME Inv, NEW c \in Calls, FindPool(c)
  PROVE  Inv'
  <1> DEFINE r == call[c]
             q == [r EXCEPT !.pc = "stop", !.id = pool[r.k][r.n].id]
  <1>1. r.pc = "find" /\ r.stage = "target"
    BY Caller DEF FindPool, At, Placed
  <1>2. CASE r.k \in Listed /\ Exists(r.k, r.n)
    <2>1. /\ pool[r.k][r.n].id \in Nat /\ pool[r.k][r.n].id <= made
          /\ pool[r.k][r.n].id # 0
      BY <1>2, Caller, KnownPool DEF Pool, Exists
    <2>2. /\ q \in Request /\ q.pc = "stop" /\ q.stage = "target" /\ q.k = r.k /\ q.n = r.n
          /\ q.id = pool[r.k][r.n].id
      BY <1>1, <2>1, Caller DEF Request, Places
    <2>3. /\ call' = [call EXCEPT ![c] = q] /\ alone' = [alone EXCEPT ![c] = TRUE]
          /\ UNCHANGED <<pool, files, seen, steady, made, ops>>
      BY <1>2 DEF FindPool, Inv, Requested
    <2> HIDE DEF q
    <2>4. Placed(q)
      BY <1>2, <2>1, <2>2 DEF Placed, Early
    <2>5. \A al, p : Ensured(q, al, p)
      BY <2>2 DEF Ensured
    <2>6. WellTyped(q, made) /\ Good(q, alone'[c], pool)
      BY <2>1, <2>2, <2>4, <2>5 DEF WellTyped, Good
    <2>7. /\ files' \in [PoolNames -> SUBSET Vols] /\ seen' \in [PoolNames -> SUBSET Vols]
          /\ \A n \in PoolNames : seen'[n] # {} => pool["disk"][n].active
          /\ steady' \in [Calls -> SUBSET PoolNames] /\ ops' \in 0 .. MaxOps
          /\ alone' \in [Calls -> BOOLEAN] /\ \A d \in Calls \ {c} : alone'[d] = alone[d]
      BY <2>3 DEF Inv, World
    <2> QED
      BY <2>3, <2>6, <2>7, QuietStep
  <1>3. CASE ~(r.k \in Listed /\ Exists(r.k, r.n))
    BY <1>1, <1>3, ReturnsStep DEF FindPool
  <1> QED
    BY <1>2, <1>3

LEMMA StopPoolStep ==
  ASSUME Inv, NEW c \in Calls, StopPool(c)
  PROVE  Inv'
  <1> DEFINE r == call[c]
             q == [r EXCEPT !.pc = "undefine"]
             old == Defined(c)
             p == Stopped(old)
  <1>1. r.pc = "stop" /\ r.stage = "target" /\ r.k \in Listed /\ r.id # 0
    BY Caller DEF StopPool, At, Placed
  <1>2. CASE Mine(c) /\ old.active
    <2>1. /\ Change(c, r.k, r.n, p) /\ call' = [call EXCEPT ![c] = q]
          /\ UNCHANGED <<files, made, ops>>
      BY <1>2 DEF StopPool, Goes, Inv, Requested
    <2>2. q \in Request /\ q.pc = "undefine" /\ Same(q, r)
      BY Caller, Moved DEF Places
    <2>3. Continues(p, old, made + 1) /\ p.id <= made
      <3>1. Continues(p, old, made + 1) /\ p.id <= old.id
        BY <1>1, OwnPool, PoolChanges
      <3>2. p.id \in Nat
        BY <3>1 DEF Continues, Pool
      <3> QED
        BY <1>1, <3>1, <3>2, OwnPool DEF Pool
    <2>4. ~p.active
      BY <1>1, OwnPool DEF Stopped, NoPool, Pool
    <2> HIDE DEF p, q
    <2>5. Placed(q)
      BY <1>1, <2>2 DEF Placed, Same, Early
    <2>6. Ensured(q, alone[c], p)
      BY <1>1, <2>2, <2>4 DEF Ensured, Same
    <2> QED
      BY <1>1, <2>1, <2>2, <2>3, <2>5, <2>6, OwnChangeStep
  <1>3. CASE ~(Mine(c) /\ old.active)
    BY <1>1, <1>3, ReturnsStep DEF StopPool
  <1> QED
    BY <1>2, <1>3

LEMMA UndefinePoolStep ==
  ASSUME Inv, NEW c \in Calls, UndefinePool(c)
  PROVE  Inv'
  <1> DEFINE r == call[c]
             q == [r EXCEPT !.pc = "done"]
             old == Defined(c)
             p == Undefined(old)
  <1>1. r.pc = "undefine" /\ r.stage = "target" /\ r.k \in Listed /\ r.id # 0
    BY Caller DEF UndefinePool, At, Placed
  <1>2. CASE Mine(c) /\ Undefinable(r.k, old)
    <2>1. /\ Change(c, r.k, r.n, p) /\ call' = [call EXCEPT ![c] = q]
          /\ UNCHANGED <<files, made, ops>>
      BY <1>1, <1>2 DEF UndefinePool, Returns, Returned, Inv, Requested
    <2>2. q \in Request /\ q.pc = "done" /\ Same(q, r)
      BY Caller, Moved DEF Places
    <2>3. Continues(p, old, made + 1) /\ p.id <= made
      <3>1. Continues(p, old, made + 1) /\ p.id <= old.id
        BY <1>1, OwnPool, PoolChanges
      <3>2. p.id \in Nat
        BY <3>1 DEF Continues, Pool
      <3> QED
        BY <1>1, <3>1, <3>2, OwnPool DEF Pool
    <2>4. Ensured(r, alone[c], old)
      BY <1>1, <1>2, Caller DEF Good, Mine, Defined
    <2>5. old.active => ~alone[c]
      BY <1>1, <2>4 DEF Ensured
    <2>6. ~p.def /\ (~old.active => p.id = 0)
      BY <1>1, OwnPool DEF Undefined, NoPool, Pool
    <2> HIDE DEF p, q
    <2>7. Placed(q)
      BY <1>1, <2>2 DEF Placed, Same, Early
    <2>8. p.id = q.id => Ensured(q, alone[c], p)
      BY <1>1, <2>2, <2>5, <2>6 DEF Ensured, Same
    <2> QED
      BY <1>1, <2>1, <2>2, <2>3, <2>7, <2>8, OwnChangeStep
  <1>3. CASE ~(Mine(c) /\ Undefinable(r.k, old))
    BY <1>1, <1>3, ReturnsStep DEF UndefinePool
  <1> QED
    BY <1>2, <1>3


(***************************************************************************)
(* Volumes.                                                                *)
(***************************************************************************)
\* A request about a volume moves, and volumes change with it.
AboutVolume == {"newvol", "path", "delvol", "refresh"}

LEMMA VolumeStep ==
  ASSUME Inv, NEW c \in Calls, NEW q, call' = [call EXCEPT ![c] = q],
         call[c].pc \in AboutVolume,
         q \in {[call[c] EXCEPT !.pc = "path"], Returned(call[c], "done"),
                Returned(call[c], "failed")},
         files' \in [PoolNames -> SUBSET Vols], seen' \in [PoolNames -> SUBSET Vols],
         \A n \in PoolNames : seen'[n] # {} => pool["disk"][n].active,
         UNCHANGED <<pool, steady, alone, made, ops>>
  PROVE  Inv'
  <1> DEFINE r == call[c]
  <1>1. r.stage = "read"
    BY Caller DEF Placed, AboutVolume
  <1>2. WellTyped(q, made) /\ Good(q, alone[c], pool)
    <2>1. CASE q = [r EXCEPT !.pc = "path"]
      <3> DEFINE t == [r EXCEPT !.pc = "path"]
      <3>1. t \in Request /\ t.pc = "path" /\ Same(t, r)
        BY Caller, Moved DEF Places
      <3>2. q = t
        BY <2>1
      <3> HIDE DEF t
      <3>3. Placed(t)
        BY <1>1, <3>1 DEF Placed, Same, Early
      <3>4. \A al, p : Ensured(t, al, p)
        BY <1>1, <3>1 DEF Ensured, Same
      <3> QED
        BY <3>1, <3>2, <3>3, <3>4, Caller DEF WellTyped, Good, Same
    <2>2. CASE q = Returned(r, "done")
      <3>1. Good([r EXCEPT !.pc = "done"], alone[c], pool)
        BY <1>1, Caller, DoneGood
      <3> QED
        BY <2>2, <3>1, Caller, ReturnedGood
    <2>3. CASE q = Returned(r, "failed")
      <3>1. Good([r EXCEPT !.pc = "failed"], alone[c], pool)
        BY <1>1, Caller, FailedGood
      <3> QED
        BY <2>3, <3>1, Caller, ReturnedGood
    <2> QED
      BY <2>1, <2>2, <2>3
  <1>3. /\ steady' \in [Calls -> SUBSET PoolNames] /\ ops' \in 0 .. MaxOps
        /\ alone' \in [Calls -> BOOLEAN] /\ \A d \in Calls \ {c} : alone'[d] = alone[d]
        /\ alone'[c] = alone[c] /\ pool' = pool /\ made' = made
    BY DEF Inv, World
  <1> QED
    BY <1>2, <1>3, QuietStep

LEMMA VolumeReturns ==
  ASSUME Inv, NEW c \in Calls, NEW pc \in {"done", "failed"}, Returns(c, pc),
         call[c].pc \in AboutVolume,
         files' \in [PoolNames -> SUBSET Vols], seen' \in [PoolNames -> SUBSET Vols],
         \A n \in PoolNames : seen'[n] # {} => pool["disk"][n].active,
         UNCHANGED <<pool, steady, alone, made, ops>>
  PROVE  Inv'
  <1>1. call' = [call EXCEPT ![c] = Returned(call[c], pc)]
    BY DEF Returns, Inv, Requested
  <1>2. /\ pc = "done" => Returned(call[c], pc) = Returned(call[c], "done")
        /\ pc = "failed" => Returned(call[c], pc) = Returned(call[c], "failed")
    OBVIOUS
  <1> QED
    BY <1>1, <1>2, VolumeStep

LEMMA VolumeGoes ==
  ASSUME Inv, NEW c \in Calls, Goes(c, "path"), call[c].pc \in AboutVolume,
         files' \in [PoolNames -> SUBSET Vols], seen' \in [PoolNames -> SUBSET Vols],
         \A n \in PoolNames : seen'[n] # {} => pool["disk"][n].active,
         UNCHANGED <<pool, steady, alone, made, ops>>
  PROVE  Inv'
  <1>1. call' = [call EXCEPT ![c] = [call[c] EXCEPT !.pc = "path"]]
    BY DEF Goes, Inv, Requested
  <1> QED
    BY <1>1, VolumeStep

LEMMA VolumesStep ==
  ASSUME Inv, NEW c \in Calls,
         \/ NewVolume(c) \/ VolumePath(c) \/ DeleteVolume(c) \/ DeleteVolumeFails(c)
         \/ RefreshVolumes(c)
  PROVE  Inv'
  <1> DEFINE r == call[c]
  <1>1. /\ files \in [PoolNames -> SUBSET Vols] /\ seen \in [PoolNames -> SUBSET Vols]
        /\ \A n \in PoolNames : seen[n] # {} => pool["disk"][n].active
        /\ r.n \in PoolNames
    BY Caller DEF Inv, World
  <1>2. CASE NewVolume(c)
    <2>1. /\ r.pc \in AboutVolume /\ r.v \in Vols
          /\ UNCHANGED <<pool, steady, alone, made, ops>>
      BY <1>2, Caller DEF NewVolume, At, Placed, AboutVolume
    <2>2. CASE UNCHANGED <<files, seen>>
      BY <1>1, <1>2, <2>1, <2>2, VolumeReturns DEF NewVolume
    <2>3. CASE ~UNCHANGED <<files, seen>>
      <3>1. /\ pool["disk"][r.n].active /\ Goes(c, "path")
            /\ files' = [files EXCEPT ![r.n] = @ \cup {r.v}]
            /\ seen' \in {[seen EXCEPT ![r.n] = @ \cup {r.v}],
                          [seen EXCEPT ![r.n] = files'[r.n]]}
        BY <1>2, <2>3 DEF NewVolume
      <3>2. files' \in [PoolNames -> SUBSET Vols]
        BY <1>1, <2>1, <3>1
      <3>3. seen' \in [PoolNames -> SUBSET Vols]
        BY <1>1, <2>1, <3>1, <3>2
      <3>4. \A n \in PoolNames : seen'[n] # {} => pool["disk"][n].active
        BY <1>1, <3>1
      <3> QED
        BY <2>1, <3>1, <3>2, <3>3, <3>4, VolumeGoes
    <2> QED
      BY <2>2, <2>3
  <1>3. CASE VolumePath(c)
    BY <1>1, <1>3, VolumeReturns DEF VolumePath, At, AboutVolume
  <1>4. CASE DeleteVolume(c)
    <2>1. r.pc \in AboutVolume /\ UNCHANGED <<pool, steady, alone, made, ops>>
      BY <1>4 DEF DeleteVolume, At, AboutVolume
    <2>2. CASE Holding(r.v) # {}
      <3>1. PICK n \in Holding(r.v) :
               /\ files' = [files EXCEPT ![n] = @ \ {r.v}]
               /\ seen' \in {[seen EXCEPT ![n] = @ \ {r.v}],
                             [seen EXCEPT ![n] = files'[n]]}
               /\ Returns(c, "done")
        BY <1>4, <2>2 DEF DeleteVolume
      <3>2. n \in PoolNames /\ pool["disk"][n].active
        BY DEF Holding
      <3>3. files' \in [PoolNames -> SUBSET Vols]
        BY <1>1, <3>1
      <3>4. seen' \in [PoolNames -> SUBSET Vols]
        BY <1>1, <3>1, <3>3
      <3>5. \A m \in PoolNames : seen'[m] # {} => pool["disk"][m].active
        BY <1>1, <3>1, <3>2
      <3> QED
        BY <2>1, <3>1, <3>3, <3>4, <3>5, VolumeReturns
    <2>3. CASE Holding(r.v) = {}
      BY <1>1, <1>4, <2>1, <2>3, VolumeReturns DEF DeleteVolume
    <2> QED
      BY <2>2, <2>3
  <1>5. CASE DeleteVolumeFails(c)
    BY <1>1, <1>5, VolumeReturns DEF DeleteVolumeFails, At, AboutVolume
  <1>6. CASE RefreshVolumes(c)
    <2>1. /\ r.pc \in AboutVolume /\ Returns(c, "done")
          /\ UNCHANGED <<pool, files, steady, alone, made, ops>>
      BY <1>6 DEF RefreshVolumes, At, AboutVolume
    <2>2. seen' \in {seen, [seen EXCEPT ![r.n] = IF pool["disk"][r.n].active
                                                 THEN files[r.n] ELSE @]}
      BY <1>6 DEF RefreshVolumes
    <2>3. seen' \in [PoolNames -> SUBSET Vols]
      BY <1>1, <2>2
    <2>4. \A n \in PoolNames : seen'[n] # {} => pool["disk"][n].active
      BY <1>1, <2>2
    <2> QED
      BY <1>1, <2>1, <2>3, <2>4, VolumeReturns
  <1> QED
    BY <1>2, <1>3, <1>4, <1>5, <1>6

(***************************************************************************)
(* The invariant, and what follows from it.                                *)
(***************************************************************************)
LEMMA NextInv == Inv /\ [Next]_vars => Inv'
  <1> SUFFICES ASSUME Inv, [Next]_vars PROVE Inv'
    OBVIOUS
  <1>1. CASE Outside
    BY <1>1, OutsideStep
  <1>2. ASSUME NEW c \in Calls, Requests(c) PROVE Inv'
    BY <1>2, RequestsStep
  <1>3. ASSUME NEW c \in Calls, Lookups(c) PROVE Inv'
    BY <1>3, LookupsStep
  <1>4. ASSUME NEW c \in Calls, Changes(c) PROVE Inv'
    BY <1>4, DefinePoolStep, StartPoolStep, StartFailsStep, UndoPoolStep, SetAutostartStep,
       FindPoolStep, StopPoolStep, UndefinePoolStep, VolumesStep DEF Changes
  <1>5. ASSUME NEW c \in Calls, Failures(c) PROVE Inv'
    BY <1>5, FailuresStep
  <1>6. CASE UNCHANGED vars
    BY <1>6 DEF vars, Inv, World, Requested, Exists
  <1> QED
    BY <1>1, <1>2, <1>3, <1>4, <1>5, <1>6 DEF Next

LEMMA Invariant == Spec => []Inv
  <1> QED
    BY InitInv, NextInv, PTL DEF Spec

(***************************************************************************)
(* Whatever the requests, the operators of the host and what fails, the    *)
(* types hold, a pool is there exactly when it is defined or runs, and     *)
(* what a request starts, stops or undefines is one that it knows.         *)
(***************************************************************************)
THEOREM TypesCorrect == Spec => []TypeOK
  <1> QED
    BY Invariant, InvTypeOK, PTL

(***************************************************************************)
(* A pool that destroy_pool reported deleted is defined no more.           *)
(***************************************************************************)
THEOREM DeletionsHold == Spec => []DeletedIsGone
  <1>1. Inv => DeletedIsGone
    <2> SUFFICES ASSUME Inv, NEW c \in Calls, At(c, "done"), call[c].stage = "target", Mine(c)
                 PROVE  ~Defined(c).def /\ ~alone[c]
      BY DEF DeletedIsGone
    <2>1. call[c].k \in Listed /\ call[c].id # 0
      BY Caller DEF At, Placed
    <2>2. Ensured(call[c], alone[c], Defined(c))
      BY <2>1, Caller DEF Good, Mine, Defined
    <2> QED
      BY <2>2 DEF Ensured, At
  <1> QED
    BY <1>1, Invariant, PTL

(***************************************************************************)
(* A creation that failed left no pool behind that does not run, provided  *)
(* that libvirt undefines what connect_and_create asks it to.              *)
(***************************************************************************)
THEOREM FailuresLeaveNothing ==
  ASSUME "undo" \notin Faults
  PROVE  Spec => []NoLeftover
  <1>1. Inv => NoLeftover
    <2> SUFFICES ASSUME Inv, NEW c \in Calls, At(c, "failed"), alone[c],
                        call[c].stage \in {"check", "result"}, call[c].id # 0, Mine(c)
                 PROVE  Defined(c).active /\ call[c].stage = "result"
      BY DEF NoLeftover
    <2>1. call[c].k \in Listed
      BY Caller DEF Placed
    <2>2. Ensured(call[c], alone[c], Defined(c))
      BY <2>1, Caller DEF Good, Mine, Defined
    <2> QED
      BY <2>2 DEF Ensured, At
  <1> QED
    BY <1>1, Invariant, PTL

-----------------------------------------------------------------------------
(***************************************************************************)
(* Enumerations.  While one is under way, the pools that ran since its     *)
(* count are all those that run, and no more than it has places for; or a  *)
(* pool was started, and nothing is promised.                              *)
(***************************************************************************)
\* An enumeration, the names st that ran since its count, and the pools.
Running(k, P) == {n \in PoolNames : P[k][n].active}
Complete(r, st, P) ==
    r.all =>
    /\ r.pc \in {"look", "count", "list", "fetch", "done"}
    /\ r.stage = "read" /\ r.id = 0
    /\ r.pc \in {"look", "count"} => st = {}
    /\ r.pc = "list" => st = {} \/ (st = Running(r.k, P) /\ Cardinality(st) <= r.room)
    /\ r.pc = "fetch" => st \subseteq Running(r.k, P)
    /\ r.pc \in {"fetch", "done"} => st \subseteq r.listed
Enumerated == \A c \in Calls : Complete(call[c], steady[c], pool)

LEMMA ChangeComplete ==
  ASSUME Inv, NEW who, NEW k \in Listed, NEW n \in PoolNames, NEW p,
         Change(who, k, n, p), NEW d \in Calls, Complete(call[d], steady[d], pool)
  PROVE  Complete(call[d], steady'[d], pool')
  <1> SUFFICES ASSUME call[d].all
               PROVE  Complete(call[d], steady'[d], pool')
    BY DEF Complete
  <1> DEFINE r == call[d]
             old == pool[k][n]
  <1>1. /\ pool' = [pool EXCEPT ![k][n] = p] /\ pool \in [Listed -> [PoolNames -> Pool]]
        /\ steady[d] \in SUBSET PoolNames /\ r.room \in Nat
        /\ r.pc \in {"list", "fetch"} => r.k \in Listed
    BY Caller DEF Change, Inv, World, Placed, Request
  <1>2. steady'[d] = IF r.k # k \/ p.active = old.active THEN steady[d]
                     ELSE IF p.active THEN IF r.pc = "list" THEN {} ELSE steady[d]
                     ELSE steady[d] \ {n}
    BY DEF Change
  <1>3. CASE r.k # k \/ p.active = old.active
    <2>1. r.k \in Listed => Running(r.k, pool') = Running(r.k, pool)
      BY <1>1, <1>3 DEF Running
    <2> QED
      BY <1>1, <1>2, <1>3, <2>1 DEF Complete
  <1>4. CASE r.k = k /\ p.active # old.active /\ p.active
    <2>1. Running(k, pool) \subseteq Running(k, pool')
      BY <1>1, <1>4 DEF Running
    <2> QED
      BY <1>2, <1>4, <2>1 DEF Complete
  <1>5. CASE r.k = k /\ p.active # old.active /\ ~p.active
    <2>1. Running(k, pool') = Running(k, pool) \ {n}
      BY <1>1, <1>5 DEF Running
    <2>2. steady'[d] = steady[d] \ {n}
      BY <1>2, <1>5
    <2>3. IsFiniteSet(steady[d])
      BY <1>1, PoolNamesFinite, FS_Subset
    <2>4. /\ Cardinality(steady'[d]) <= Cardinality(steady[d])
          /\ Cardinality(steady'[d]) \in Nat /\ Cardinality(steady[d]) \in Nat
      BY <2>2, <2>3, FS_Subset, FS_CardinalityType
    <2>5. Cardinality(steady[d]) <= r.room => Cardinality(steady'[d]) <= r.room
      BY <1>1, <2>4
    <2> QED
      BY <1>5, <2>1, <2>2, <2>5 DEF Complete
  <1> QED
    BY <1>3, <1>4, <1>5

LEMMA RequestStep ==
  ASSUME Inv, Enumerated, NEW c \in Calls, NEW r, call' = [call EXCEPT ![c] = r],
         Complete(r, steady'[c], pool'), pool' = pool,
         \A d \in Calls \ {c} : steady'[d] = steady[d]
  PROVE  Enumerated'
  <1>1. call'[c] = r /\ \A d \in Calls \ {c} : call'[d] = call[d]
    BY DEF Inv, Requested
  <1> QED
    BY <1>1 DEF Enumerated

LEMMA OtherStep ==
  ASSUME Inv, Enumerated, NEW c \in Calls, NEW r, call' = [call EXCEPT ![c] = r], ~r.all,
         \/ UNCHANGED <<pool, steady>>
         \/ \E k \in Listed, n \in PoolNames, p \in Pool : Change(c, k, n, p)
  PROVE  Enumerated'
  <1>1. call'[c] = r /\ \A d \in Calls \ {c} : call'[d] = call[d]
    BY DEF Inv, Requested
  <1>2. Complete(call'[c], steady'[c], pool')
    BY <1>1 DEF Complete
  <1>3. CASE UNCHANGED <<pool, steady>>
    BY <1>1, <1>2, <1>3 DEF Enumerated
  <1>4. CASE \E k \in Listed, n \in PoolNames, p \in Pool : Change(c, k, n, p)
    BY <1>1, <1>2, <1>4, ChangeComplete DEF Enumerated
  <1> QED
    BY <1>3, <1>4

LEMMA NotAll ==
  ASSUME NEW r \in Request, ~r.all, NEW pc
  PROVE  /\ ~[r EXCEPT !.pc = pc].all
         /\ ~Returned(r, pc).all
  <1>1. ~[r EXCEPT !.pc = pc].all
    BY DEF Request
  <1>2. ~[NoCall EXCEPT !.pc = pc].all
    BY DEF NoCall
  <1> QED
    BY <1>1, <1>2 DEF Returned

-----------------------------------------------------------------------------
LEMMA RequestsEnumerated ==
  ASSUME Inv, Enumerated, NEW c \in Calls, Requests(c)
  PROVE  Enumerated'
  <1>1. ASSUME NEW r, Begin(c, r), Complete(r, {}, pool)
        PROVE  Enumerated'
    <2>1. /\ steady'[c] = {} /\ \A d \in Calls \ {c} : steady'[d] = steady[d]
          /\ pool' = pool /\ call' = [call EXCEPT ![c] = r]
      BY <1>1 DEF Begin, Inv, World
    <2> QED
      BY <1>1, <2>1, RequestStep
  <1>2. ASSUME NEW r, Begin(c, r), r.all = FALSE
        PROVE  Enumerated'
    BY <1>1, <1>2 DEF Complete
  <1>3. [NoCall EXCEPT !.pc = "failed"].all = FALSE
    BY DEF NoCall
  <1>4. \A r \in PoolIds : r.all = FALSE
    <2>1. \A k, n : PoolId(k, n).all = FALSE
      BY DEF PoolId, NoCall
    <2> QED
      BY <2>1 DEF PoolIds
  <1>5. \A r \in PoolIds : r \in Request
    BY PoolRequests
  <1>6. CASE BadArguments(c)
    BY <1>2, <1>3, <1>6 DEF BadArguments
  <1>7. CASE create_child_pool(c)
    <2>1. PICK r \in PoolIds, auto \in BOOLEAN : \E accepted \in Judged[r.k] :
            IF accepted
            THEN Begin(c, [r EXCEPT !.pc = "look", !.stage = "check",
                                    !.auto = auto /\ r.k = "disk"])
            ELSE Begin(c, [NoCall EXCEPT !.pc = "failed"])
      BY <1>7 DEF create_child_pool
    <2>2. [r EXCEPT !.pc = "look", !.stage = "check",
                    !.auto = auto /\ r.k = "disk"].all = FALSE
      BY <1>4, <1>5 DEF Request
    <2> QED
      BY <1>2, <1>3, <2>1, <2>2
  <1>8. CASE delete_pool(c)
    <2>1. PICK r \in PoolIds : Begin(c, [r EXCEPT !.pc = "look", !.stage = "target"])
      BY <1>8 DEF delete_pool
    <2>2. [r EXCEPT !.pc = "look", !.stage = "target"].all = FALSE
      BY <1>4, <1>5 DEF Request
    <2> QED
      BY <1>2, <2>1, <2>2
  <1>9. CASE GetInstance(c)
    <2>1. PICK r \in PoolIds : Begin(c, [r EXCEPT !.pc = "look"])
      BY <1>9 DEF GetInstance
    <2>2. [r EXCEPT !.pc = "look"].all = FALSE
      BY <1>4, <1>5 DEF Request
    <2> QED
      BY <1>2, <2>1, <2>2
  <1>10. CASE EnumInstances(c)
    <2>1. PICK k \in Types :
            Begin(c, [NoCall EXCEPT !.pc = "look", !.k = k, !.all = TRUE])
      BY <1>10 DEF EnumInstances
    <2>2. Complete([NoCall EXCEPT !.pc = "look", !.k = k, !.all = TRUE], {}, pool)
      BY DEF NoCall, Complete
    <2> QED
      BY <1>1, <2>1, <2>2
  <1>11. ASSUME NEW pc, NEW N, NEW V, VolumeCall(c, pc, N, V)
         PROVE  Enumerated'
    <2>1. PICK n \in N, v \in V :
            Begin(c, [NoCall EXCEPT !.pc = pc, !.k = "disk", !.n = n, !.v = v])
      BY <1>11 DEF VolumeCall
    <2>2. [NoCall EXCEPT !.pc = pc, !.k = "disk", !.n = n, !.v = v].all = FALSE
      BY DEF NoCall
    <2> QED
      BY <1>2, <2>1, <2>2
  <1> QED
    BY <1>6, <1>7, <1>8, <1>9, <1>10, <1>11
       DEF Requests, create_resource_in_pool, delete_resource_in_pool,
           refresh_resources_in_pool

-----------------------------------------------------------------------------
LEMMA AnswerEnumerated ==
  ASSUME Inv, Enumerated, NEW c \in Calls, NEW r \in Request, NEW found \in BOOLEAN,
         r.all => r.stage = "read" /\ r.id = 0,
         r.all /\ found => steady'[c] \subseteq r.listed,
         Answer(c, r, found), pool' = pool,
         \A d \in Calls \ {c} : steady'[d] = steady[d]
  PROVE  Enumerated'
  <1> DEFINE to == IF found THEN IfFound[r.stage] ELSE IfMissing[r.stage]
             left == [r EXCEPT !.room = 0, !.listed = IF r.all THEN @ ELSE {}]
             q == IF to \in {"done", "failed"} THEN Returned(left, to)
                  ELSE [left EXCEPT !.pc = to]
  <1>1. call' = [call EXCEPT ![c] = q]
    BY DEF Answer
  <1>2. left \in Request /\ left.all = r.all /\ left.id = r.id /\ left.stage = r.stage
        /\ (r.all => left.listed = r.listed)
    BY DEF Request
  <1>3. Complete(q, steady'[c], pool')
    <2>1. CASE ~r.all
      BY <1>2, <2>1, NotAll DEF Complete
    <2>2. CASE r.all /\ ~found
      <3>1. to = "failed"
        BY <2>2 DEF IfMissing
      <3>2. q = [NoCall EXCEPT !.pc = "failed"]
        BY <1>2, <2>2, <3>1 DEF Returned
      <3>3. q.all = FALSE
        BY <3>2 DEF NoCall
      <3> QED
        BY <3>3 DEF Complete
    <2>3. CASE r.all /\ found
      <3>1. to = "done"
        BY <2>3 DEF IfFound
      <3>2. q = [left EXCEPT !.pc = "done"]
        BY <1>2, <2>3, <3>1 DEF Returned
      <3> HIDE DEF q, left
      <3>3. q.pc = "done" /\ q.stage = "read" /\ q.id = 0 /\ q.listed = r.listed
        BY <1>2, <2>3, <3>2 DEF Request
      <3> QED
        BY <2>3, <3>3 DEF Complete
    <2> QED
      BY <2>1, <2>2, <2>3
  <1> QED
    BY <1>1, <1>3, RequestStep

LEMMA CompareEnumerated ==
  ASSUME Inv, Enumerated, NEW c \in Calls, NEW r \in Request, Compare(c, r),
         r.all => r.stage = "read" /\ r.id = 0,
         r.all => steady'[c] \subseteq r.listed /\ steady'[c] \subseteq Running(r.k, pool),
         pool' = pool, \A d \in Calls \ {c} : steady'[d] = steady[d]
  PROVE  Enumerated'
  <1>1. CASE r.all
    <2> DEFINE q == [r EXCEPT !.pc = "fetch"]
    <2>1. call' = [call EXCEPT ![c] = q]
      BY <1>1 DEF Compare
    <2>2. /\ q.pc = "fetch" /\ q.stage = "read" /\ q.id = 0 /\ q.k = r.k
          /\ q.listed = r.listed
      BY <1>1 DEF Request
    <2>3. Complete(q, steady'[c], pool')
      BY <1>1, <2>2 DEF Complete
    <2> QED
      BY <2>1, <2>3, RequestStep
  <1>2. CASE ~r.all
    <2> DEFINE q == [r EXCEPT !.listed = @ \cup {Primordial}]
               found == r.n \in r.listed \cup {Primordial}
    <2>1. /\ q \in Request /\ q.all = r.all /\ q.stage = r.stage /\ q.id = r.id
          /\ q.listed = r.listed \cup {Primordial}
      BY DEF Request, PoolNames
    <2>2. Answer(c, q, found)
      BY <1>2 DEF Compare
    <2>3. found \in BOOLEAN
      BY DEF Request
    <2> HIDE DEF q, found
    <2> QED
      BY <2>1, <2>2, <2>3, AnswerEnumerated
  <1> QED
    BY <1>1, <1>2

\* The list has a place for every pool that was counted and still runs.
LEMMA FitsAll ==
  ASSUME NEW S, IsFiniteSet(S), NEW room \in Nat, Cardinality(S) <= room,
         NEW T \in Fits(room, S)
  PROVE  T = S
  <1>1. T \in SUBSET S
        /\ Cardinality(T) = IF Cardinality(S) < room THEN Cardinality(S) ELSE room
    BY DEF Fits
  <1>2. Cardinality(S) \in Nat
    BY FS_CardinalityType
  <1>3. Cardinality(T) = Cardinality(S)
    BY <1>1, <1>2
  <1> QED
    BY <1>1, <1>3, FS_Subset

LEMMA LookupsEnumerated ==
  ASSUME Inv, Enumerated, NEW c \in Calls, Lookups(c)
  PROVE  Enumerated'
  <1> DEFINE r == call[c]
  <1>1. /\ r \in Request /\ Complete(r, steady[c], pool) /\ r.k \in Types
        /\ r.pc \in {"count", "list", "fetch"} => r.k \in Listed
        /\ steady[c] \in SUBSET PoolNames /\ r.room \in Nat /\ r.all \in BOOLEAN
    BY Caller DEF Enumerated, Request, Inv, World, Placed
  <1>2. r.all => r.stage = "read" /\ r.id = 0
    BY <1>1 DEF Complete
  <1>3. CASE LookFails(c)
    <2>1. Answer(c, r, FALSE) /\ pool' = pool /\ steady' = steady
      BY <1>3 DEF LookFails
    <2> QED
      BY <1>1, <1>2, <2>1, AnswerEnumerated
  <1>4. CASE LookByName(c)
    <2> DEFINE q == [r EXCEPT !.listed = {Primordial}]
               found == SingleFound(r) \/ NetFound(r)
    <2>1. r.pc = "look" /\ Answer(c, q, found) /\ pool' = pool /\ steady' = steady
      BY <1>4 DEF LookByName, At
    <2>2. q \in Request /\ q.all = r.all /\ q.stage = r.stage /\ q.id = r.id
      BY <1>1 DEF Request, PoolNames
    <2>3. r.all => steady[c] = {}
      BY <1>1, <2>1 DEF Complete
    <2>4. found \in BOOLEAN
      BY <1>1 DEF SingleFound, NetFound
    <2> HIDE DEF q, found
    <2> QED
      BY <1>2, <2>1, <2>2, <2>3, <2>4, AnswerEnumerated
  <1>5. CASE Listing(c)
    <2> DEFINE q == [r EXCEPT !.pc = "count"]
    <2>1. r.pc = "look" /\ call' = [call EXCEPT ![c] = q] /\ UNCHANGED <<pool, steady>>
      BY <1>5 DEF Listing, Goes, At
    <2>2. q.pc = "count" /\ q.all = r.all /\ q.stage = r.stage /\ q.id = r.id
      BY <1>1 DEF Request
    <2>3. Complete(q, steady'[c], pool')
      BY <1>1, <2>1, <2>2 DEF Complete
    <2> QED
      BY <2>1, <2>3, RequestStep
  <1>6. CASE Count(c)
    <2> DEFINE n == Cardinality(Active(r.k))
    <2>1. /\ r.pc = "count" /\ pool' = pool /\ r.k \in Listed
          /\ steady' = [steady EXCEPT ![c] = IF r.all THEN Active(r.k) ELSE {}]
          /\ IF n = 0 THEN Compare(c, r)
             ELSE call' = [call EXCEPT ![c].room = n, ![c].pc = "list"]
      BY <1>1, <1>6 DEF Count, At
    <2>2. /\ r.all => steady'[c] = Active(r.k)
          /\ \A d \in Calls \ {c} : steady'[d] = steady[d]
      BY <2>1 DEF Inv, World
    <2>3. Active(r.k) = Running(r.k, pool)
      BY DEF Active, Running
    <2>4. IsFiniteSet(Active(r.k)) /\ n \in Nat
      BY PoolNamesFinite, FS_Subset, FS_CardinalityType DEF Active
    <2>5. CASE n = 0
      <3>1. Active(r.k) = {}
        BY <2>4, <2>5, FS_EmptySet
      <3> QED
        BY <1>1, <1>2, <2>1, <2>2, <2>5, <3>1, CompareEnumerated
    <2>6. CASE n # 0
      <3> DEFINE q == [r EXCEPT !.room = n, !.pc = "list"]
      <3>1. call' = [call EXCEPT ![c] = q]
        BY <2>1, <2>6 DEF Inv, Requested
      <3>2. /\ q.pc = "list" /\ q.all = r.all /\ q.stage = r.stage /\ q.id = r.id
            /\ q.room = n /\ q.k = r.k
        BY <1>1 DEF Request
      <3>3. Complete(q, steady'[c], pool')
        BY <1>2, <2>1, <2>2, <2>3, <2>4, <3>2 DEF Complete
      <3> QED
        BY <2>1, <2>2, <3>1, <3>3, RequestStep
    <2> QED
      BY <2>5, <2>6
  <1>7. CASE List(c)
    <2>1. PICK T \in Fits(r.room, Active(r.k)) : Compare(c, [r EXCEPT !.listed = T])
      BY <1>7 DEF List
    <2> DEFINE q == [r EXCEPT !.listed = T]
    <2>2. r.pc = "list" /\ pool' = pool /\ steady' = steady
      BY <1>7 DEF List, At
    <2>3. T \in SUBSET PoolNames /\ Active(r.k) = Running(r.k, pool)
      BY DEF Fits, Active, Running
    <2>4. /\ q \in Request /\ q.all = r.all /\ q.stage = r.stage /\ q.id = r.id
          /\ q.k = r.k /\ q.listed = T
      BY <1>1, <2>3 DEF Request
    <2>5. r.all => steady[c] \subseteq T /\ steady[c] \subseteq Running(r.k, pool)
      <3> SUFFICES ASSUME r.all, steady[c] # {}
                   PROVE  steady[c] \subseteq T /\ steady[c] \subseteq Running(r.k, pool)
        OBVIOUS
      <3>1. steady[c] = Active(r.k) /\ Cardinality(Active(r.k)) <= r.room
        BY <1>1, <2>2, <2>3 DEF Complete
      <3>2. IsFiniteSet(Active(r.k))
        BY PoolNamesFinite, FS_Subset DEF Active
      <3>3. T = Active(r.k)
        BY <1>1, <3>1, <3>2, FitsAll
      <3> QED
        BY <2>3, <3>1, <3>3
    <2> HIDE DEF q
    <2>6. Compare(c, q)
      BY <2>1 DEF q
    <2> QED
      BY <1>2, <2>2, <2>4, <2>5, <2>6, CompareEnumerated
  <1>8. CASE Fetch(c)
    <2> DEFINE there == {n \in r.listed : r.k = "net" => Exists("net", n)}
                        \cup {Primordial}
    <2>1. PICK L \in SUBSET there :
             /\ Answer(c, [r EXCEPT !.listed = L], TRUE)
             /\ steady' = [steady EXCEPT ![c] = @ \ (there \ L)]
      BY <1>8 DEF Fetch
    <2> DEFINE q == [r EXCEPT !.listed = L]
    <2>2. r.pc = "fetch" /\ Answer(c, q, TRUE) /\ pool' = pool
      BY <1>8, <2>1 DEF Fetch, At
    <2>3. there \subseteq PoolNames
      BY <1>1 DEF Request, PoolNames
    <2>4. /\ q \in Request /\ q.all = r.all /\ q.stage = r.stage /\ q.id = r.id
          /\ q.listed = L
      <3> HIDE DEF there
      <3> QED
        BY <1>1, <2>3 DEF Request
    <2>5. r.all => steady[c] \subseteq there
      <3>1. \A n \in Running("net", pool) : Exists("net", n)
        BY KnownPool DEF Running, Exists, Listed
      <3> QED
        BY <1>1, <2>2, <3>1 DEF Complete
    <2> HIDE DEF q, there
    <2>6. /\ steady'[c] = steady[c] \ (there \ L)
          /\ \A d \in Calls \ {c} : steady'[d] = steady[d]
      BY <2>1 DEF Inv, World
    <2>7. r.all => steady'[c] \subseteq L
      BY <2>5, <2>6
    <2> QED
      BY <1>2, <2>2, <2>4, <2>6, <2>7, AnswerEnumerated
  <1> QED
    BY <1>3, <1>4, <1>5, <1>6, <1>7, <1>8 DEF Lookups

-----------------------------------------------------------------------------
LEMMA FailuresEnumerated ==
  ASSUME Inv, Enumerated, NEW c \in Calls, Failures(c)
  PROVE  Enumerated'
  <1>1. ASSUME NEW pc \in Connects \cup {"undefine", "path"}, NEW kind, Fault(c, pc, kind)
        PROVE  Enumerated'
    <2>1. ~call[c].all
      BY <1>1 DEF Fault, At, Connects, Enumerated, Complete
    <2>2. ~Returned(call[c], "failed").all
      BY <2>1, Caller, NotAll
    <2> QED
      BY <1>1, <2>2, OtherStep DEF Fault, Returns
  <1> QED
    BY <1>1 DEF Failures, Connects

LEMMA ChangesEnumerated ==
  ASSUME Inv, Enumerated, NEW c \in Calls, Changes(c)
  PROVE  Enumerated'
  <1> DEFINE r == call[c]
  <1>1. /\ r \in Request /\ Placed(r) /\ call \in [Calls -> Request]
        /\ r.k \in Listed => Defined(c) \in Pool /\ r.n \in PoolNames
    BY Caller, OwnPool DEF Inv, Requested
  <1>2. r.pc \notin {"look", "count", "list", "fetch", "done"} => ~r.all
    BY DEF Enumerated, Complete
  <1>3. ASSUME NEW pc, Goes(c, pc), ~r.all,
               \/ UNCHANGED <<pool, steady>>
               \/ \E k \in Listed, n \in PoolNames, p \in Pool : Change(c, k, n, p)
        PROVE  Enumerated'
    <2>1. call' = [call EXCEPT ![c] = [r EXCEPT !.pc = pc]]
      BY <1>1, <1>3 DEF Goes
    <2> QED
      BY <1>1, <1>3, <2>1, NotAll, OtherStep
  <1>4. ASSUME NEW pc, Returns(c, pc), ~r.all,
               \/ UNCHANGED <<pool, steady>>
               \/ \E k \in Listed, n \in PoolNames, p \in Pool : Change(c, k, n, p)
        PROVE  Enumerated'
    BY <1>1, <1>4, NotAll, OtherStep DEF Returns
  <1>5. \A p \in Pool : Stopped(p) \in Pool /\ Undefined(p) \in Pool
    BY DEF Stopped, Undefined, NoPool, Pool
  <1>6. CASE DefinePool(c)
    <2>1. r.k \in Listed /\ ~r.all
      BY <1>1, <1>2, <1>6 DEF DefinePool, At, Placed
    <2>2. CASE ~Exists(r.k, r.n)
      <3> DEFINE q == [r EXCEPT !.pc = "start", !.id = made + 1]
      <3>1. call' = [call EXCEPT ![c] = q]
        BY <1>1, <1>6, <2>2 DEF DefinePool
      <3>2. ~q.all
        BY <1>1, <2>1 DEF Request
      <3>3. [Existing EXCEPT !.id = made + 1] \in Pool
        <4>1. Existing \in Pool
          BY DEF Existing, NoPool, Pool
        <4>2. made + 1 \in Nat
          BY <2>1, OwnPool
        <4> QED
          BY <4>1, <4>2 DEF Pool
      <3>4. Change(c, r.k, r.n, [Existing EXCEPT !.id = made + 1])
        BY <1>6, <2>2 DEF DefinePool
      <3> HIDE DEF q
      <3> QED
        BY <1>1, <2>1, <3>1, <3>2, <3>3, <3>4, OtherStep
    <2>3. CASE Exists(r.k, r.n)
      BY <1>4, <1>6, <2>1, <2>3 DEF DefinePool
    <2> QED
      BY <2>2, <2>3
  <1>7. CASE StartPool(c)
    <2> DEFINE q == [r EXCEPT !.pc = Started(c), !.stage = "result"]
    <2>1. r.k \in Listed /\ ~r.all
      BY <1>1, <1>2, <1>7 DEF StartPool, At, Placed
    <2>2. call' = [call EXCEPT ![c] = q]
      BY <1>1, <1>7 DEF StartPool
    <2>3. ~q.all
      BY <1>1, <2>1 DEF Request
    <2>4. [Defined(c) EXCEPT !.active = TRUE] \in Pool
      BY <1>1, <2>1 DEF Pool
    <2>5. Change(c, r.k, r.n, [Defined(c) EXCEPT !.active = TRUE])
      BY <1>7 DEF StartPool
    <2> HIDE DEF q
    <2> QED
      BY <1>1, <2>1, <2>2, <2>3, <2>4, <2>5, OtherStep
  <1>8. CASE StartFails(c)
    BY <1>2, <1>3, <1>8 DEF StartFails, At
  <1>9. CASE UndoPool(c)
    <2>1. r.k \in Listed /\ ~r.all
      BY <1>1, <1>2, <1>9 DEF UndoPool, At, Placed
    <2>2. \/ UNCHANGED <<pool, steady>>
          \/ Change(c, r.k, r.n, Undefined(Defined(c)))
      BY <1>9 DEF UndoPool
    <2> QED
      BY <1>1, <1>3, <1>5, <1>9, <2>1, <2>2 DEF UndoPool
  <1>10. CASE SetAutostart(c)
    <2>1. r.k \in Listed /\ ~r.all
      BY <1>1, <1>2, <1>10 DEF SetAutostart, At, Placed
    <2>2. [Defined(c) EXCEPT !.auto = TRUE] \in Pool
      BY <1>1, <2>1 DEF Pool
    <2>3. \/ UNCHANGED <<pool, steady>>
          \/ Change(c, r.k, r.n, [Defined(c) EXCEPT !.auto = TRUE])
      BY <1>10 DEF SetAutostart
    <2> QED
      BY <1>1, <1>3, <1>10, <2>1, <2>2, <2>3 DEF SetAutostart
  <1>11. CASE FindPool(c)
    <2>1. ~r.all /\ UNCHANGED <<pool, steady>>
      BY <1>2, <1>11 DEF FindPool, At
    <2>2. CASE Returns(c, "failed")
      BY <1>4, <2>1, <2>2
    <2>3. CASE ~Returns(c, "failed")
      <3> DEFINE q == [r EXCEPT !.pc = "stop", !.id = pool[r.k][r.n].id]
      <3>1. call' = [call EXCEPT ![c] = q]
        BY <1>1, <1>11, <2>3 DEF FindPool
      <3>2. ~q.all
        BY <1>1, <2>1 DEF Request
      <3> HIDE DEF q
      <3> QED
        BY <2>1, <3>1, <3>2, OtherStep
    <2> QED
      BY <2>2, <2>3
  <1>12. CASE StopPool(c)
    <2>1. r.k \in Listed /\ ~r.all
      BY <1>1, <1>2, <1>12 DEF StopPool, At, Placed
    <2>2. \/ Change(c, r.k, r.n, Stopped(Defined(c))) /\ Goes(c, "undefine")
          \/ Returns(c, "failed") /\ UNCHANGED <<pool, steady>>
      BY <1>12 DEF StopPool
    <2> QED
      BY <1>1, <1>3, <1>4, <1>5, <2>1, <2>2
  <1>13. CASE UndefinePool(c)
    <2>1. r.k \in Listed /\ ~r.all
      BY <1>1, <1>2, <1>13 DEF UndefinePool, At, Placed
    <2>2. \/ Change(c, r.k, r.n, Undefined(Defined(c))) /\ Returns(c, "done")
          \/ Returns(c, "failed") /\ UNCHANGED <<pool, steady>>
      BY <1>13 DEF UndefinePool
    <2> QED
      BY <1>1, <1>4, <1>5, <2>1, <2>2
  <1>14. CASE \/ NewVolume(c) \/ VolumePath(c) \/ DeleteVolume(c) \/ DeleteVolumeFails(c)
              \/ RefreshVolumes(c)
    <2>1. ~r.all /\ UNCHANGED <<pool, steady>>
      BY <1>2, <1>14
         DEF NewVolume, VolumePath, DeleteVolume, DeleteVolumeFails, RefreshVolumes, At
    <2>2. Goes(c, "path") \/ Returns(c, "done") \/ Returns(c, "failed")
      BY <1>14 DEF NewVolume, VolumePath, DeleteVolume, DeleteVolumeFails, RefreshVolumes
    <2> QED
      BY <1>3, <1>4, <2>1, <2>2
  <1> QED
    BY <1>6, <1>7, <1>8, <1>9, <1>10, <1>11, <1>12, <1>13, <1>14 DEF Changes

LEMMA NextEnumerated == Inv /\ Enumerated /\ [Next]_vars => Enumerated'
  <1> SUFFICES ASSUME Inv, Enumerated, [Next]_vars PROVE Enumerated'
    OBVIOUS
  <1>1. CASE Outside
    <2>1. call' = call
      BY <1>1 DEF Outside
    <2>2. \/ UNCHANGED <<pool, steady>>
          \/ \E k \in Listed, n \in PoolNames : \E p : Change(Host, k, n, p)
      BY <1>1 DEF Outside
    <2> QED
      BY <2>1, <2>2, ChangeComplete DEF Enumerated
  <1>2. ASSUME NEW c \in Calls, Requests(c) \/ Lookups(c) \/ Changes(c) \/ Failures(c)
        PROVE  Enumerated'
    BY <1>2, RequestsEnumerated, LookupsEnumerated, ChangesEnumerated, FailuresEnumerated
  <1>3. CASE UNCHANGED vars
    BY <1>3 DEF vars, Enumerated
  <1> QED
    BY <1>1, <1>2, <1>3 DEF Next

(***************************************************************************)
(* An enumeration names every pool that ran throughout and that could be   *)
(* described, if none was started between the count and the list: the list *)
(* has a place for each (get_diskpool_config, netpool_instance).           *)
(***************************************************************************)
THEOREM SteadyPoolsListed == Spec => []SteadyIsListed
  <1>1. Init => Enumerated
    BY DEF Init, Enumerated, Complete, NoCall
  <1>2. Enumerated => SteadyIsListed
    BY DEF Enumerated, Complete, SteadyIsListed, At
  <1>3. Spec => []Enumerated
    BY <1>1, NextEnumerated, Invariant, PTL DEF Spec
  <1> QED
    BY <1>2, <1>3, PTL
=============================================================================
