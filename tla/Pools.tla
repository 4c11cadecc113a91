------------------------------- MODULE Pools -------------------------------
(***************************************************************************)
(* Resource pools and the volumes in them                                  *)
(* (src/src/Virt_ResourcePoolConfigurationService.c,                       *)
(* src/src/Virt_DevicePool.c and src/libxkutil/pool_parsing.c).            *)
(*                                                                         *)
(* A request is a sequence of libvirt calls that nothing brackets.  A      *)
(* storage pool is found by counting the active pools, listing as many     *)
(* names and comparing them; a network is looked up by its name.           *)
(***************************************************************************)
EXTENDS Integers, FiniteSets, TLC

CONSTANTS
    Calls,          \* threads of the CIMOM in a request
    Names,          \* names of networks and storage pools
    Singles,        \* types that have the pool "0" alone: memory, processors,
                    \* graphics, inputs, controllers
    Vols,           \* volumes, that is paths of files
    MaxInit,        \* bound: pools at first
    MaxOps,         \* bound: requests, and what operators do
    Faults          \* the calls that may fail

FaultKinds == {"connect", "list", "describe", "start", "undo", "undefine", "volume", "path"}

Listed == {"net", "disk"}
Types == Listed \cup Singles
Primordial == "0"
Host == "host"      \* who the operators of the host are
PoolNames == Names \cup {Primordial}

ASSUME NamesAssumption ==
    /\ IsFiniteSet(Names) /\ Primordial \notin Names
    /\ Singles \cap Listed = {} /\ Host \notin Calls
ASSUME BoundsAssumption == {MaxInit, MaxOps} \subseteq Nat /\ Faults \subseteq FaultKinds

VARIABLES
    pool,           \* libvirt's networks and storage pools
    files,          \* volumes on disk, by storage pool
    seen,           \* those that libvirt knows of
    call,           \* the locals and the position of each request
    steady,         \* history: names active since the request counted them, and
                    \* not left out since they could not be described
    alone,          \* history: nobody else changed what the request names
    made,           \* how many pools there were: every definition has its uuid
    ops

vars == <<pool, files, seen, call, steady, alone, made, ops>>

NoPool == [id |-> 0, def |-> FALSE, active |-> FALSE, auto |-> FALSE]
Existing == [NoPool EXCEPT !.id = 1, !.def = TRUE]

\* "stage" says what a lookup is for.
NoCall == [pc |-> "idle", stage |-> "read", k |-> "net", n |-> Primordial,
           all |-> FALSE, auto |-> FALSE, v |-> "none",
           room |-> 0, listed |-> {}, id |-> 0]

Exists(k, n) == pool[k][n].id # 0
Active(k) == {n \in PoolNames : pool[k][n].active}

Init ==
    /\ pool \in [Listed -> [PoolNames -> {NoPool, Existing,
                                          [Existing EXCEPT !.active = TRUE]}]]
    /\ \A k \in Listed : ~Exists(k, Primordial)
    /\ Cardinality({p \in Listed \X Names : Exists(p[1], p[2])}) <= MaxInit
    /\ files = [n \in PoolNames |-> {}] /\ seen = files
    /\ call = [c \in Calls |-> NoCall]
    /\ steady = [c \in Calls |-> {}]
    /\ alone = [c \in Calls |-> FALSE]
    /\ made = 1
    /\ ops = 0

-----------------------------------------------------------------------------
(***************************************************************************)
(* libvirt.  Lists name what is active.  A name that is taken is refused   *)
(* to another uuid, and definitions here carry none.  Undefining a network *)
(* that runs leaves it running until it stops; a storage pool that runs    *)
(* can not be undefined.                                                   *)
(***************************************************************************)
Stopped(p) == IF p.def THEN [p EXCEPT !.active = FALSE] ELSE NoPool
Undefinable(k, p) == p.def /\ ~(k = "disk" /\ p.active)
Undefined(p) ==
    IF p.active THEN [p EXCEPT !.def = FALSE, !.auto = FALSE] ELSE NoPool

\* The volumes of a storage pool are read when it starts.
Rescanned(k, n, p) ==
    IF k = "net" THEN seen
    ELSE [seen EXCEPT ![n] = IF p.active THEN files[n] ELSE {}]

\* One change of the pool n, and what it means to the others.
Change(who, k, n, p) ==
    /\ pool' = [pool EXCEPT ![k][n] = p]
    /\ seen' = IF p.active = pool[k][n].active THEN seen ELSE Rescanned(k, n, p)
    /\ steady' = [c \in Calls |->
          IF call[c].k # k \/ p.active = pool[k][n].active THEN steady[c]
          ELSE IF p.active THEN IF call[c].pc = "list" THEN {} ELSE steady[c]
          ELSE steady[c] \ {n}]
    /\ alone' = [c \in Calls |->
          alone[c] /\ (c = who \/ <<call[c].k, call[c].n>> # <<k, n>>)]

\* Operators of the host, and what else writes into the directories.
Outside ==
    /\ ops < MaxOps
    /\ ops' = ops + 1
    /\ UNCHANGED <<call, made>>
    /\ \/ /\ UNCHANGED files
          /\ \E k \in Listed, n \in PoolNames :
                LET p == pool[k][n] IN
                \/ /\ p.def /\ ~p.active
                   /\ Change(Host, k, n, [p EXCEPT !.active = TRUE])
                \/ p.active /\ Change(Host, k, n, Stopped(p))
                \/ Undefinable(k, p) /\ Change(Host, k, n, Undefined(p))
       \/ /\ \E n \in Names, v \in Vols :
                files' = IF v \in files[n] THEN [files EXCEPT ![n] = @ \ {v}]
                         ELSE [m \in PoolNames |-> IF m = n THEN files[m] \cup {v}
                                               ELSE files[m] \ {v}]
          /\ UNCHANGED <<pool, seen, steady, alone>>

-----------------------------------------------------------------------------
(***************************************************************************)
(* Requests.                                                               *)
(***************************************************************************)
Goes(c, to) == call' = [call EXCEPT ![c].pc = to]
At(c, pc) == call[c].pc = pc

\* A request returns; what a pool that it defined or found was, and what an
\* enumeration returned, is kept for the properties.
Returned(r, pc) ==
    IF r.id # 0 \/ (r.all /\ pc = "done") THEN [r EXCEPT !.pc = pc]
    ELSE [NoCall EXCEPT !.pc = pc]
Returns(c, pc) == call' = [call EXCEPT ![c] = Returned(@, pc)]
Fault(c, pc, kind) ==
    /\ At(c, pc) /\ kind \in Faults
    /\ Returns(c, "failed")
    /\ UNCHANGED <<pool, files, seen, steady, alone, made, ops>>

Begin(c, r) ==
    /\ call[c].pc \in {"idle", "done", "failed"}
    /\ ops < MaxOps
    /\ ops' = ops + 1
    /\ call' = [call EXCEPT ![c] = r]
    /\ steady' = [steady EXCEPT ![c] = {}]
    /\ alone' = [alone EXCEPT ![c] = TRUE]
    /\ UNCHANGED <<pool, files, seen, made>>

\* The instance id names a type and a pool of it.  A missing argument, a
\* reference whose class is not the type of the id, or settings that lack what
\* the type needs, end in an early return.
PoolId(k, n) == [NoCall EXCEPT !.k = k, !.n = n]
PoolIds == {PoolId(k, n) : k \in Types, n \in PoolNames}
BadArguments(c) == Begin(c, [NoCall EXCEPT !.pc = "failed"])

\* What the settings of a pool must have; a network has defaults for all but
\* an unknown forward mode.
KindsOf == [net |-> {"none", "nat", "route"},
            disk |-> {"dir", "fs", "disk", "logical", "netfs", "iscsi", "scsi"}]
OneDevice == {"fs", "disk", "iscsi"}
Needs(kind) ==
    (IF kind \in KindsOf["net"] THEN {} ELSE {"Path"})
    \cup (IF kind \in OneDevice THEN {"DevicePaths"} ELSE {})
    \cup (IF kind \in {"netfs", "iscsi"} THEN {"Host"} ELSE {})
    \cup (IF kind = "netfs" THEN {"SourceDirectory"} ELSE {})
    \cup (IF kind = "scsi" THEN {"AdapterName"} ELSE {})
Properties == {"Path", "DevicePaths", "Host", "SourceDirectory", "AdapterName"}
Accepted(k, kind, given, devices) ==
    /\ kind \in KindsOf[k]
    /\ Needs(kind) \subseteq given
    /\ kind \in OneDevice => devices = 1

\* How the settings of each type are judged; the other types have none.
Judged == [k \in Types |->
    IF k \in Singles THEN {FALSE}
    ELSE {Accepted(k, kind, given, devices) :
             kind \in UNION {KindsOf[l] : l \in Listed},
             given \in SUBSET Properties, devices \in 1 .. 2}]
create_child_pool(c) ==
    \E r \in PoolIds, auto \in BOOLEAN : \E accepted \in Judged[r.k] :
        IF accepted
        THEN Begin(c, [r EXCEPT !.pc = "look", !.stage = "check",
                                !.auto = auto /\ r.k = "disk"])
        ELSE Begin(c, [NoCall EXCEPT !.pc = "failed"])

delete_pool(c) ==
    \E r \in PoolIds : Begin(c, [r EXCEPT !.pc = "look", !.stage = "target"])
GetInstance(c) == \E r \in PoolIds : Begin(c, [r EXCEPT !.pc = "look"])
EnumInstances(c) ==
    \E k \in Types : Begin(c, [NoCall EXCEPT !.pc = "look", !.k = k, !.all = TRUE])

\* The pool of a volume is named by its id, whatever its class; that of a
\* volume to delete is not looked at.
VolumeCall(c, pc, N, V) ==
    \E n \in N, v \in V :
        Begin(c, [NoCall EXCEPT !.pc = pc, !.k = "disk", !.n = n, !.v = v])
create_resource_in_pool(c) == VolumeCall(c, "newvol", Names, Vols)
delete_resource_in_pool(c) == VolumeCall(c, "delvol", {Primordial}, Vols)
refresh_resources_in_pool(c) == VolumeCall(c, "refresh", Names, {"none"})

(***************************************************************************)
(* Looking for pools: _get_pools, for all of a type or for one of a name.  *)
(* A lookup that fails, for whatever reason, tells a creation that the     *)
(* name is free.                                                           *)
(***************************************************************************)
IfFound == [check |-> "failed", result |-> "done", target |-> "find", read |-> "done"]
IfMissing ==
    [check |-> "define", result |-> "failed", target |-> "failed", read |-> "failed"]

Answer(c, r, found) ==
    LET to == IF found THEN IfFound[r.stage] ELSE IfMissing[r.stage]
        left == [r EXCEPT !.room = 0, !.listed = IF r.all THEN @ ELSE {}] IN
    call' = [call EXCEPT ![c] = IF to \in {"done", "failed"} THEN Returned(left, to)
                                ELSE [left EXCEPT !.pc = to]]

LookFails(c) ==
    /\ \/ At(c, "look") /\ "connect" \in Faults
       \/ call[c].pc \in {"count", "list"} /\ "list" \in Faults
    /\ Answer(c, call[c], FALSE)
    /\ UNCHANGED <<pool, files, seen, steady, alone, made, ops>>

\* Memory and the like, the parent of a type, and a network by its name,
\* active or not, need no list.
SingleFound(r) == r.k \in Singles /\ (r.all \/ r.n = Primordial)
NetFound(r) == r.k = "net" /\ (r.n = Primordial \/ Exists("net", r.n))
LookByName(c) ==
    LET r == call[c] IN
    /\ At(c, "look")
    /\ r.k \in Singles \/ (r.k = "net" /\ ~r.all)
    /\ Answer(c, [r EXCEPT !.listed = {Primordial}], SingleFound(r) \/ NetFound(r))
    /\ UNCHANGED <<pool, files, seen, steady, alone, made, ops>>

Listing(c) ==
    /\ At(c, "look")
    /\ call[c].k = "disk" \/ (call[c].k = "net" /\ call[c].all)
    /\ Goes(c, "count")
    /\ UNCHANGED <<pool, files, seen, steady, alone, made, ops>>

\* What was listed, and the parent of the type, are compared with the id, or
\* described one by one.
Compare(c, r) ==
    IF r.all THEN call' = [call EXCEPT ![c] = [r EXCEPT !.pc = "fetch"]]
    ELSE Answer(c, [r EXCEPT !.listed = @ \cup {Primordial}],
                r.n \in r.listed \cup {Primordial})

\* virConnectNumOfStoragePools; nothing is listed when there are none.
Count(c) ==
    LET n == Cardinality(Active(call[c].k)) IN
    /\ At(c, "count")
    /\ steady' = [steady EXCEPT ![c] = IF call[c].all THEN Active(call[c].k) ELSE {}]
    /\ IF n = 0 THEN Compare(c, call[c])
       ELSE call' = [call EXCEPT ![c].room = n, ![c].pc = "list"]
    /\ UNCHANGED <<pool, files, seen, alone, made, ops>>

\* virConnectListStoragePools, into as many places as were counted.
\* mutant: the last place is left for the parent
FitsLess(room, S) ==
    {T \in SUBSET S :
        Cardinality(T) = IF Cardinality(S) < room THEN Cardinality(S) ELSE room - 1}
Fits(room, S) ==
    {T \in SUBSET S :
        Cardinality(T) = IF Cardinality(S) < room THEN Cardinality(S) ELSE room}
List(c) ==
    /\ At(c, "list")
    /\ \E T \in Fits(call[c].room, Active(call[c].k)) :
          Compare(c, [call[c] EXCEPT !.listed = T])
    /\ UNCHANGED <<pool, files, seen, steady, alone, made, ops>>

\* Every network that was listed is looked up.  One that has gone is left out,
\* and so is any pool that can not be looked up or made an instance of: the
\* answer shows no sign of it.
Fetch(c) ==
    LET r == call[c]
        there == {n \in r.listed : r.k = "net" => Exists("net", n)} \cup {Primordial} IN
    /\ At(c, "fetch")
    /\ \E L \in SUBSET there :
          /\ L = there \/ "describe" \in Faults
          /\ Answer(c, [r EXCEPT !.listed = L], TRUE)
          /\ steady' = [steady EXCEPT ![c] = @ \ (there \ L)]
    /\ UNCHANGED <<pool, files, seen, alone, made, ops>>

-----------------------------------------------------------------------------
(***************************************************************************)
(* define_pool: define, start, and undefine what does not start.           *)
(***************************************************************************)
Defined(c) == pool[call[c].k][call[c].n]
Mine(c) == Defined(c).id = call[c].id

\* The name is free to libvirt, or the definition is refused.  After a lookup
\* that failed, a pool can take the name of the parent.
DefinePool(c) ==
    LET r == call[c] IN
    /\ At(c, "define")
    /\ IF ~Exists(r.k, r.n)
       THEN /\ Change(c, r.k, r.n, [Existing EXCEPT !.id = made + 1])
            /\ call' = [call EXCEPT ![c].pc = "start", ![c].id = made + 1]
            /\ made' = made + 1
       ELSE Returns(c, "failed") /\ UNCHANGED <<pool, seen, steady, alone, made>>
    /\ UNCHANGED <<files, ops>>

\* A pool that already runs can not be started.
Started(c) ==
    IF call[c].auto THEN "auto" ELSE "look"
StartPool(c) ==
    LET r == call[c] IN
    /\ At(c, "start") /\ Mine(c) /\ ~Defined(c).active
    /\ Change(c, r.k, r.n, [Defined(c) EXCEPT !.active = TRUE])
    /\ call' = [call EXCEPT ![c].pc = Started(c), ![c].stage = "result"]
    /\ UNCHANGED <<files, made, ops>>
\* mutant: a pool that does not start stays defined
StartFailsOnly(c) ==
    /\ At(c, "start") /\ ("start" \in Faults \/ ~Mine(c) \/ Defined(c).active)
    /\ Returns(c, "failed")
    /\ UNCHANGED <<pool, files, seen, steady, alone, made, ops>>
StartFails(c) ==
    /\ At(c, "start") /\ ("start" \in Faults \/ ~Mine(c) \/ Defined(c).active)
    /\ Goes(c, "undo")
    /\ UNCHANGED <<pool, files, seen, steady, alone, made, ops>>

\* Whether it worked or not, a storage pool to be started with the host is
\* then marked so.
UndoPool(c) ==
    LET r == call[c] IN
    /\ At(c, "undo")
    /\ \/ /\ Mine(c) /\ Undefinable(r.k, Defined(c))
          /\ Change(c, r.k, r.n, Undefined(Defined(c)))
       \/ /\ "undo" \in Faults \/ ~Mine(c) \/ ~Undefinable(r.k, Defined(c))
          /\ UNCHANGED <<pool, seen, steady, alone>>
    /\ Goes(c, IF r.auto THEN "auto" ELSE "failed")
    /\ UNCHANGED <<files, made, ops>>

SetAutostart(c) ==
    LET r == call[c] IN
    /\ At(c, "auto")
    /\ IF Mine(c) /\ Defined(c).def
       THEN Change(c, r.k, r.n, [Defined(c) EXCEPT !.auto = TRUE])
       ELSE UNCHANGED <<pool, seen, steady, alone>>
    /\ Goes(c, IF r.stage = "result" THEN "look" ELSE "failed")
    /\ UNCHANGED <<files, made, ops>>

-----------------------------------------------------------------------------
(***************************************************************************)
(* destroy_pool: look the pool up, stop it, undefine it.                   *)
(***************************************************************************)
\* mutant: a lookup that finds nothing is not checked
FindUnchecked(c) ==
    /\ At(c, "find") /\ call[c].k \in Listed
    /\ call' = [call EXCEPT ![c].pc = "stop",
                            ![c].id = pool[call[c].k][call[c].n].id]
    /\ alone' = [alone EXCEPT ![c] = TRUE]
    /\ UNCHANGED <<pool, files, seen, steady, made, ops>>
FindPool(c) ==
    LET r == call[c] IN
    /\ At(c, "find")
    /\ IF r.k \in Listed /\ Exists(r.k, r.n)
       THEN /\ call' = [call EXCEPT ![c].pc = "stop", ![c].id = pool[r.k][r.n].id]
            /\ alone' = [alone EXCEPT ![c] = TRUE]
       ELSE Returns(c, "failed") /\ UNCHANGED alone
    /\ UNCHANGED <<pool, files, seen, steady, made, ops>>

StopPool(c) ==
    LET r == call[c] IN
    /\ At(c, "stop")
    /\ IF Mine(c) /\ Defined(c).active
       THEN Change(c, r.k, r.n, Stopped(Defined(c))) /\ Goes(c, "undefine")
       ELSE Returns(c, "failed") /\ UNCHANGED <<pool, seen, steady, alone>>
    /\ UNCHANGED <<files, made, ops>>

\* mutant: the result of undefining is dropped
UndefineUnchecked(c) ==
    LET r == call[c] IN
    /\ At(c, "undefine")
    /\ IF Mine(c) /\ Undefinable(r.k, Defined(c))
       THEN Change(c, r.k, r.n, Undefined(Defined(c)))
       ELSE UNCHANGED <<pool, seen, steady, alone>>
    /\ Returns(c, "done")
    /\ UNCHANGED <<files, made, ops>>
UndefinePool(c) ==
    LET r == call[c] IN
    /\ At(c, "undefine")
    /\ IF Mine(c) /\ Undefinable(r.k, Defined(c))
       THEN Change(c, r.k, r.n, Undefined(Defined(c))) /\ Returns(c, "done")
       ELSE Returns(c, "failed") /\ UNCHANGED <<pool, seen, steady, alone>>
    /\ UNCHANGED <<files, made, ops>>

-----------------------------------------------------------------------------
(***************************************************************************)
(* Volumes.  They are found by their path in whatever pool runs.           *)
(***************************************************************************)
\* The refresh that follows a change may fail unseen.
NewVolume(c) ==
    LET r == call[c] IN
    /\ At(c, "newvol")
    /\ IF pool["disk"][r.n].active /\ \A n \in PoolNames : r.v \notin files[n]
       THEN /\ files' = [files EXCEPT ![r.n] = @ \cup {r.v}]
            /\ seen' \in {[seen EXCEPT ![r.n] = @ \cup {r.v}],
                          [seen EXCEPT ![r.n] = files'[r.n]]}
            /\ Goes(c, "path")
       ELSE Returns(c, "failed") /\ UNCHANGED <<files, seen>>
    /\ UNCHANGED <<pool, steady, alone, made, ops>>
VolumePath(c) ==
    /\ At(c, "path")
    /\ Returns(c, "done")
    /\ UNCHANGED <<pool, files, seen, steady, alone, made, ops>>

Holding(v) == {n \in PoolNames : v \in seen[n] /\ pool["disk"][n].active}
DeleteVolume(c) ==
    LET r == call[c] IN
    /\ At(c, "delvol")
    /\ IF Holding(r.v) # {}
       THEN \E n \in Holding(r.v) :
               /\ files' = [files EXCEPT ![n] = @ \ {r.v}]
               /\ seen' \in {[seen EXCEPT ![n] = @ \ {r.v}],
                             [seen EXCEPT ![n] = files'[n]]}
               /\ Returns(c, "done")
       ELSE Returns(c, "failed") /\ UNCHANGED <<files, seen>>
    /\ UNCHANGED <<pool, steady, alone, made, ops>>

\* libvirt answers -1, and the caller takes only 0 for a failure.
DeleteVolumeFails(c) ==
    /\ At(c, "delvol") /\ "volume" \in Faults /\ Holding(call[c].v) # {}
    /\ Returns(c, "done")
    /\ UNCHANGED <<pool, files, seen, steady, alone, made, ops>>

\* A pool that is not found is not reported, nor is a refresh that fails.
RefreshVolumes(c) ==
    LET n == call[c].n IN
    /\ At(c, "refresh")
    /\ seen' \in {seen, [seen EXCEPT ![n] = IF pool["disk"][n].active
                                            THEN files[n] ELSE @]}
    /\ Returns(c, "done")
    /\ UNCHANGED <<pool, files, steady, alone, made, ops>>

-----------------------------------------------------------------------------
Connects == {"define", "find", "newvol", "delvol", "refresh"}
Requests(c) ==
    \/ BadArguments(c) \/ create_child_pool(c) \/ delete_pool(c)
    \/ GetInstance(c) \/ EnumInstances(c) \/ create_resource_in_pool(c)
    \/ delete_resource_in_pool(c) \/ refresh_resources_in_pool(c)
Lookups(c) ==
    LookFails(c) \/ LookByName(c) \/ Listing(c) \/ Count(c) \/ List(c) \/ Fetch(c)
Changes(c) ==
    \/ DefinePool(c) \/ StartPool(c) \/ StartFails(c) \/ UndoPool(c)
    \/ SetAutostart(c) \/ FindPool(c) \/ StopPool(c) \/ UndefinePool(c)
    \/ NewVolume(c) \/ VolumePath(c) \/ DeleteVolume(c) \/ DeleteVolumeFails(c)
    \/ RefreshVolumes(c)
Failures(c) ==
    \/ \E pc \in Connects : Fault(c, pc, "connect")
    \/ Fault(c, "undefine", "undefine") \/ Fault(c, "newvol", "volume")
    \/ Fault(c, "path", "path")

Next ==
    \/ Outside
    \/ \E c \in Calls : Requests(c) \/ Lookups(c) \/ Changes(c) \/ Failures(c)
Spec == Init /\ [][Next]_vars

-----------------------------------------------------------------------------
Pool == [id : Nat, def : BOOLEAN, active : BOOLEAN, auto : BOOLEAN]
Places == {"idle", "look", "count", "list", "fetch", "define", "start", "undo",
           "auto", "find", "stop", "undefine", "newvol", "path", "delvol",
           "refresh", "done", "failed"}
Request == [pc : Places, stage : DOMAIN IfFound, k : Types, n : PoolNames,
            all : BOOLEAN, auto : BOOLEAN, v : Vols \cup {"none"}, room : Nat,
            listed : SUBSET PoolNames, id : Nat]

(***************************************************************************)
(* Every variable has its type, a pool is there exactly when it is defined *)
(* or active, libvirt knows volumes of active pools only, and what a       *)
(* request starts, stops or undefines is a pool that it defined or found.  *)
(***************************************************************************)
TypeOK ==
    /\ pool \in [Listed -> [PoolNames -> Pool]]
    /\ files \in [PoolNames -> SUBSET Vols] /\ seen \in [PoolNames -> SUBSET Vols]
    /\ call \in [Calls -> Request]
    /\ \A c \in Calls :
          /\ call[c].id <= made
          /\ call[c].pc \in {"start", "undo", "stop", "undefine"} => call[c].id # 0
    /\ steady \in [Calls -> SUBSET PoolNames] /\ alone \in [Calls -> BOOLEAN]
    /\ made \in Nat /\ ops \in 0 .. MaxOps
    /\ \A k \in Listed, n \in PoolNames :
          /\ pool[k][n].id <= made
          /\ Exists(k, n) <=> (pool[k][n].def \/ pool[k][n].active)
    /\ \A n \in PoolNames : seen[n] # {} => pool["disk"][n].active

(***************************************************************************)
(* A creation that fails leaves no pool that is defined and does not run:  *)
(* storage pools that do not run are not listed, and neither type could    *)
(* ever be deleted through the service, since a deletion first stops the   *)
(* pool.  What it may leave is a pool that runs, when the lookup of the    *)
(* result failed (define_pool, connect_and_create).                        *)
(***************************************************************************)
NoLeftover ==
    \A c \in Calls :
        At(c, "failed") /\ alone[c] /\ call[c].stage \in {"check", "result"}
            /\ call[c].id # 0 /\ Mine(c)
        => Defined(c).active /\ call[c].stage = "result"

(***************************************************************************)
(* The pool that a deletion found is not defined any more when it is       *)
(* reported deleted, whoever created another of that name since; and it    *)
(* does not run unless somebody started it between the two calls           *)
(* (destroy_pool).                                                         *)
(***************************************************************************)
DeletedIsGone ==
    \A c \in Calls :
        At(c, "done") /\ call[c].stage = "target" /\ Mine(c)
        => ~Defined(c).def /\ ~alone[c]

(***************************************************************************)
(* An enumeration names every pool that ran all the time from its first    *)
(* call, if no pool was started between the count and the list, which has  *)
(* as many places as were counted, and if the pool itself could be looked  *)
(* up and described, the failure of which leaves it out of an answer that  *)
(* succeeds (get_diskpool_config, netpool_instance).                       *)
(***************************************************************************)
SteadyIsListed ==
    \A c \in Calls :
        At(c, "done") /\ call[c].all => steady[c] \subseteq call[c].listed

Symmetric == Permutations(Calls) \cup Permutations(Names) \cup Permutations(Vols)
=============================================================================
