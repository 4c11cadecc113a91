------------------------------ MODULE Management ------------------------------
(***************************************************************************)
(* Defining, changing and destroying one guest                             *)
(* (src/src/Virt_VirtualSystemManagementService.c, get_dominfo and         *)
(* change_device of src/libxkutil/device_parsing.c).                       *)
(*                                                                         *)
(* A change reads the definition, changes one device of the running guest, *)
(* then one device of the copy, and defines the whole copy: libvirt locks  *)
(* single calls only, and nothing locks the guest between them.  The guest *)
(* is found again by its name at every step.                               *)
(***************************************************************************)
EXTENDS Integers, Sequences, TLC

CONSTANTS
    Calls,          \* threads of the CIMOM in a method of the service
    Uuids,          \* uuids that clients ask for or that are generated
    Disks, Nets,    \* devices that a running guest can take or give up
    Controllers,    \* devices that it can not
    Cold,           \* graphics, consoles, inputs: only in the definition
    None,           \* no uuid
    MaxBatch,       \* bound: resources in one request
    MaxOps,         \* bound: requests, and what operators and the guest do
    Faults          \* the calls that may fail

FaultKinds == {"connect", "rasd", "info", "live", "define", "result", "record",
               "kill", "lookup", "undefine"}

ASSUME KindsAssumption ==
    /\ "proc" \notin Disks \cup Nets \cup Controllers \cup Cold
    /\ Cold \cap (Disks \cup Nets \cup Controllers) = {}
    /\ Disks \cap (Nets \cup Controllers) = {} /\ Nets \cap Controllers = {}
ASSUME BoundsAssumption ==
    /\ None \notin Uuids
    /\ MaxBatch \in Nat \ {0} /\ MaxOps \in Nat
    /\ Faults \subseteq FaultKinds

VARIABLES
    guest,          \* libvirt's view: uuid, run state, what is stored and live
    recorded,       \* whether the infostore keeps a limit for its name
    call,           \* the locals and the position of each request
    begun,          \* history: what each request found when it began, until
                    \* another one, or an operator, changes the guest, and what
                    \* has failed since without its looking at it
    ops

vars == <<guest, recorded, call, begun, ops>>

\* A device has a setting; that of "proc" is its weight and limit.
Devices == Disks \cup Nets \cup Controllers \cup Cold \cup {"proc"}
Nothing == [d \in Devices |-> "absent"]
NoGuest == [uuid |-> None, def |-> FALSE, run |-> "off",
            stored |-> Nothing, live |-> Nothing]

Exists == guest.uuid # None
Current == IF guest.def THEN guest.stored ELSE guest.live

(***************************************************************************)
(* get_dominfo: what the parser makes of the definition.  It keeps the     *)
(* number of processors and drops their weight, which cputune_xml then     *)
(* writes as zero.                                                         *)
(***************************************************************************)
Parse(m) == [m EXCEPT !["proc"] = "zero"]

NoCall == [pc |-> "idle", op |-> "none", items |-> <<>>, next |-> 1,
           uuid |-> None, copy |-> Nothing, ok |-> TRUE]
Unseen == [alone |-> FALSE, run |-> "off", current |-> Nothing,
           live |-> Nothing, ignored |-> {}]
Seen == [alone |-> TRUE, run |-> guest.run, current |-> Current,
         live |-> guest.live, ignored |-> {}]

Fresh(S) == [d \in Devices |-> IF d \in S \cup {"proc"} THEN "new" ELSE "absent"]

Init ==
    /\ \/ guest = NoGuest
       \/ \E u \in Uuids, S \in SUBSET Devices, run \in {"off", "on", "paused"},
             def \in BOOLEAN :
            /\ def \/ run # "off"
            /\ guest = [uuid |-> u, def |-> def, run |-> run,
                        stored |-> IF def THEN Fresh(S) ELSE Nothing,
                        live |-> IF run = "off" THEN Nothing ELSE Fresh(S)]
    /\ recorded = guest.def
    /\ call = [c \in Calls |-> NoCall]
    /\ begun = [c \in Calls |-> Unseen]
    /\ ops = 0

Active(c) == call[c].pc # "idle"

-----------------------------------------------------------------------------
(***************************************************************************)
(* libvirt.  A name belongs to one uuid, and a definition names a device   *)
(* once.                                                                   *)
(***************************************************************************)
Definable(u, m) ==
    guest.uuid \in {None, u} /\ \A d \in Devices : m[d] # "twice"

PoweredOff ==
    IF guest.def THEN [guest EXCEPT !.run = "off", !.live = Nothing] ELSE NoGuest

\* Operators and the guest itself.
Outside ==
    /\ ops < MaxOps
    /\ ops' = ops + 1
    /\ begun' = [c \in Calls |-> Unseen]
    /\ \/ /\ guest.def /\ guest.run = "off"
          /\ guest' = [guest EXCEPT !.run = "on", !.live = guest.stored]
       \/ guest.run # "off" /\ guest' = PoweredOff
       \/ guest.run = "on" /\ guest' = [guest EXCEPT !.run = "paused"]
    /\ UNCHANGED <<recorded, call>>

-----------------------------------------------------------------------------
(***************************************************************************)
(* Requests.                                                               *)
(***************************************************************************)
Step(c, from, to) ==
    /\ call[c].pc = from
    /\ call' = [call EXCEPT ![c].pc = to]

\* An early return frees the copy.
Fails(c, from) ==
    /\ call[c].pc = from
    /\ call' = [call EXCEPT ![c].pc = "return", ![c].ok = FALSE,
                            ![c].copy = Nothing, ![c].uuid = None]

Same == UNCHANGED <<guest, recorded, begun, ops>>

\* The others are not alone with the guest.
Disturbs(c) == begun' = [o \in Calls |-> IF o = c THEN begun[c] ELSE Unseen]

Changes == {"add", "mod", "del"}
Batches == UNION {[1 .. n -> Devices] : n \in 1 .. MaxBatch}

\* A method is called with its arguments.  DefineSystem asks for a whole
\* guest, ModifySystemSettings may name a uuid, or not.
Starts(c, r) ==
    /\ ~Active(c)
    /\ ops < MaxOps
    /\ ops' = ops + 1
    /\ call' = [call EXCEPT ![c] = r]
    /\ begun' = [begun EXCEPT ![c] = Seen]
    /\ UNCHANGED <<guest, recorded>>

DefineSystem(c) ==
    \E u \in Uuids, S \in SUBSET Devices :
        Starts(c, [NoCall EXCEPT !.pc = "check", !.op = "define", !.uuid = u,
                                 !.copy = Fresh(S)])
DestroySystem(c) == Starts(c, [NoCall EXCEPT !.pc = "find", !.op = "destroy"])
ModifySystemSettings(c) ==
    \E u \in Uuids \cup {None} :
        Starts(c, [NoCall EXCEPT !.pc = "read", !.op = "system", !.uuid = u])
ChangeResources(c) ==
    \E op \in Changes, b \in Batches :
        Starts(c, [NoCall EXCEPT !.pc = IF op = "del" THEN "refs" ELSE "read",
                                 !.op = op, !.items = b])

Return(c) ==
    /\ call[c].pc = "return"
    /\ call' = [call EXCEPT ![c] = NoCall]
    /\ begun' = [begun EXCEPT ![c] = Unseen]
    /\ UNCHANGED <<guest, recorded, ops>>

(***************************************************************************)
(* create_system: the uuid must not be in use, and the resources are ones  *)
(* that the service knows.                                                 *)
(***************************************************************************)
UuidInUse(c) ==
    /\ Faults \cap {"connect", "rasd"} # {} \/ guest.uuid = call[c].uuid
    /\ Fails(c, "check")
    /\ Same

UuidFree(c) ==
    /\ guest.uuid # call[c].uuid
    /\ Step(c, "check", "define")
    /\ Same

(***************************************************************************)
(* rasd_refs_to_insts: a request to remove devices names them by reference. *)
(* Only the result for the last one is looked at; one before it that is    *)
(* not found leaves a hole in the array, which is not modelled.            *)
(***************************************************************************)
Found(c) ==
    {i \in DOMAIN call[c].items : Exists /\ Current[call[c].items[i]] # "absent"}

RefsFail(c) ==
    /\ "connect" \in Faults \/ Len(call[c].items) \notin Found(c)
    /\ Fails(c, "refs")
    /\ Same

Refs(c) ==
    /\ Found(c) = DOMAIN call[c].items
    /\ Step(c, "refs", "read")
    /\ Same

(***************************************************************************)
(* update_system_settings and _update_resources_for: the definition is     *)
(* read, from the running guest if it has none.                            *)
(***************************************************************************)
ReadFails(c) ==
    /\ Faults \cap {"connect", "rasd"} # {} \/ ~Exists
    /\ Fails(c, "read")
    /\ Same

UuidDiffers(c) ==
    /\ Exists
    /\ call[c].uuid \notin {None, guest.uuid}
    /\ call[c].op = "system"
    /\ Fails(c, "read")
    /\ Same

\* mutant: the uuid of the guest is not put back.
ReadForgets(c) ==
    /\ Exists
    /\ call[c].pc = "read"
    /\ call[c].op = "system" => call[c].uuid \in {None, guest.uuid}
    /\ call' = [call EXCEPT ![c].copy = Parse(Current),
                            ![c].pc = CASE call[c].op = "system" -> "define"
                                        [] call[c].op = "mod" -> "previous"
                                        [] OTHER -> "device"]
    /\ Same

Read(c) ==
    /\ Exists
    /\ call[c].pc = "read"
    /\ call[c].op = "system" => call[c].uuid \in {None, guest.uuid}
    /\ call' = [call EXCEPT ![c].uuid = guest.uuid, ![c].copy = Parse(Current),
                            ![c].pc = CASE call[c].op = "system" -> "define"
                                        [] call[c].op = "mod" -> "previous"
                                        [] OTHER -> "device"]
    /\ Same

\* A modification is merged into the settings of the device as it is now.
Item(c) == call[c].items[call[c].next]

NoPrevious(c) ==
    /\ Fails(c, "previous")
    /\ "connect" \in Faults \/ ~Exists \/ Current[Item(c)] = "absent"
    /\ Same

Previous(c) ==
    /\ Step(c, "previous", "device")
    /\ Exists /\ Current[Item(c)] # "absent"
    /\ Same

(***************************************************************************)
(* resource_add, resource_mod and resource_del on the copy.  A device that *)
(* is there already is added a second time, and libvirt has to refuse it.  *)
(***************************************************************************)
Refused(c) ==
    /\ Fails(c, "device")
    /\ \/ "rasd" \in Faults
       \/ call[c].op \in {"add", "del"} /\ Item(c) = "proc"
       \/ call[c].op \in {"mod", "del"} /\ call[c].copy[Item(c)] = "absent"
    /\ Same

NewSetting(op, old) ==
    CASE op = "add" -> IF old = "absent" THEN "new" ELSE "twice"
      [] op = "mod" -> "changed"
      [] op = "del" -> "absent"

ChangeCopy(c) ==
    LET d == Item(c)  r == call[c]
    IN  /\ r.pc = "device"
        /\ r.op \in {"add", "del"} => d # "proc"
        /\ r.op \in {"mod", "del"} => r.copy[d] # "absent"
        /\ call' = [call EXCEPT ![c].copy[d] = NewSetting(r.op, @),
                                ![c].pc = IF d \in Cold THEN "define" ELSE "info"]
        /\ Same

(***************************************************************************)
(* update_dominfo: the weight of the copy goes into the definition, its    *)
(* limit into the record; nobody looks at the result.                      *)
(***************************************************************************)
AfterInfo == [info |-> "online", settle |-> "enumerate"]

SetInfo(c, from) ==
    /\ guest.def
    /\ Step(c, from, AfterInfo[from])
    /\ guest' = [guest EXCEPT !.stored["proc"] = call[c].copy["proc"]]
    /\ recorded' = TRUE
    /\ Disturbs(c) /\ UNCHANGED ops

InfoFails(c, from) ==
    /\ "info" \in Faults \/ ~guest.def
    /\ Step(c, from, AfterInfo[from])
    /\ Same

(***************************************************************************)
(* _resource_dynamic: a guest that does not run is left alone, and so is a *)
(* paused one, which domain_online takes for one that does not run.        *)
(***************************************************************************)
Vanished(c) ==
    /\ "connect" \in Faults \/ ~Exists
    /\ Fails(c, "online")
    /\ Same

NotOnline(c) ==
    /\ Exists /\ guest.run # "on"
    /\ Step(c, "online", "define")
    /\ Same

Online(c) ==
    /\ guest.run = "on"
    /\ Step(c, "online", "live")
    /\ Same

\* attach_device and detach_device know disks and networks, change_device
\* disks and processors.
Unhandled(op, d) == d \in Controllers \/ (op = "mod" /\ d \in Nets)

\* mutant: the result of attach_device and its like is not looked at.
LiveFailsUnseen(c) == Step(c, "live", "define") /\ Same

LiveFails(c) ==
    /\ call[c].pc = "live"
    /\ LET d == Item(c)  op == call[c].op
       IN  \/ "live" \in Faults \/ guest.run = "off"
           \/ op = "add" /\ guest.live[d] # "absent"
           \/ op = "del" /\ guest.live[d] = "absent"
           \/ Unhandled(op, d)
    /\ Fails(c, "live")
    /\ Same

LiveChange(c) ==
    /\ guest.run # "off"
    /\ Step(c, "live", "define")
    /\ LET d == Item(c)  op == call[c].op
       IN  /\ op = "add" => guest.live[d] = "absent"
           /\ op = "del" => guest.live[d] # "absent"
           /\ ~Unhandled(op, d)
           /\ guest' = [guest EXCEPT !.live[d] = NewSetting(op, @)]
    /\ Disturbs(c) /\ UNCHANGED <<recorded, ops>>

(***************************************************************************)
(* connect_and_create: define, then look for the result.                   *)
(***************************************************************************)
DefineFails(c) ==
    /\ "define" \in Faults \/ ~Definable(call[c].uuid, call[c].copy)
    /\ Fails(c, "define")
    /\ Same

Define(c) ==
    /\ Definable(call[c].uuid, call[c].copy)
    /\ call[c].pc = "define"
    /\ call' = [call EXCEPT ![c].pc = "result", ![c].uuid = None,
                            ![c].copy = IF call[c].op = "define" THEN @ ELSE Nothing]
    /\ guest' = [guest EXCEPT !.uuid = call[c].uuid, !.def = TRUE,
                              !.stored = call[c].copy]
    /\ Disturbs(c) /\ UNCHANGED <<recorded, ops>>

ResultLost(c) ==
    /\ "result" \in Faults \/ ~Exists
    /\ Fails(c, "result")
    /\ Same

\* The next resource of the batch, unless this was the last.
Result(c) ==
    /\ Exists
    /\ call[c].pc = "result"
    /\ LET r == call[c]
           more == r.next < Len(r.items)
       IN  call' = [call EXCEPT ![c].next = IF r.op \in Changes THEN @ + 1 ELSE @,
                                ![c].pc = IF r.op = "define" THEN "settle"
                                          ELSE IF r.op \in Changes /\ more THEN "read"
                                          ELSE "return"]
    /\ Same

\* The resources of a new guest are listed, for the indications.
Enumerate(c) ==
    /\ Exists
    /\ Step(c, "enumerate", "return")
    /\ Same

EnumerateFails(c) ==
    /\ "connect" \in Faults \/ ~Exists
    /\ Fails(c, "enumerate")
    /\ Same

(***************************************************************************)
(* destroy_system: the record is deleted, the guest destroyed ("Okay for   *)
(* this to fail"), looked up again and undefined.  Nobody looks at whether *)
(* the first two fail, and a lookup that fails is taken for a guest that   *)
(* is gone.                                                                *)
(***************************************************************************)
Ignores(c, kind) ==
    /\ kind \in Faults
    /\ begun' = [begun EXCEPT ![c].ignored = @ \cup {kind}]
    /\ UNCHANGED <<guest, recorded, ops>>

NotFound(c) ==
    /\ "connect" \in Faults \/ ~Exists
    /\ Fails(c, "find")
    /\ Same

Find(c) ==
    /\ Exists
    /\ Step(c, "find", "forget")
    /\ Same

Forget(c) ==
    /\ Step(c, "forget", "kill")
    /\ recorded' = FALSE
    /\ UNCHANGED <<guest, begun, ops>>

ForgetFails(c) == Step(c, "forget", "kill") /\ Ignores(c, "record")

Kill(c) ==
    /\ guest.run # "off"
    /\ Step(c, "kill", "again")
    /\ guest' = PoweredOff
    /\ Disturbs(c) /\ UNCHANGED <<recorded, ops>>

KillFails(c) ==
    /\ guest.run # "off"
    /\ Step(c, "kill", "again")
    /\ Ignores(c, "kill")

NotRunning(c) ==
    /\ guest.run = "off"
    /\ Step(c, "kill", "again")
    /\ Same

Again(c) ==
    /\ Step(c, "again", IF Exists THEN "undefine" ELSE "return")
    /\ Same

AgainFails(c) == Step(c, "again", "return") /\ Ignores(c, "lookup")

\* A guest that runs stays, without a definition.
Undefine(c) ==
    /\ guest.def
    /\ Step(c, "undefine", "return")
    /\ guest' = IF guest.run = "off" THEN NoGuest
                ELSE [guest EXCEPT !.def = FALSE, !.stored = Nothing]
    /\ Disturbs(c) /\ UNCHANGED <<recorded, ops>>

\* mutant: the result of virDomainUndefine is not looked at either.
UndefineFailsUnseen(c) ==
    /\ "undefine" \in Faults \/ ~guest.def
    /\ Step(c, "undefine", "return")
    /\ Same

UndefineFails(c) ==
    /\ "undefine" \in Faults \/ ~guest.def
    /\ Fails(c, "undefine")
    /\ Same

Handle(c) ==
    \/ UuidInUse(c) \/ UuidFree(c) \/ RefsFail(c) \/ Refs(c) \/ ReadFails(c) \/ UuidDiffers(c)
    \/ Read(c) \/ NoPrevious(c) \/ Previous(c) \/ Refused(c) \/ ChangeCopy(c)
    \/ (\E p \in {"info", "settle"} : SetInfo(c, p) \/ InfoFails(c, p))
    \/ Vanished(c) \/ NotOnline(c) \/ Online(c) \/ LiveFails(c) \/ LiveChange(c)
    \/ DefineFails(c) \/ Define(c) \/ ResultLost(c) \/ Result(c)
    \/ Enumerate(c) \/ EnumerateFails(c)
    \/ NotFound(c) \/ Find(c) \/ Forget(c) \/ ForgetFails(c) \/ Kill(c)
    \/ KillFails(c) \/ NotRunning(c) \/ Again(c) \/ AgainFails(c) \/ Undefine(c) \/ UndefineFails(c) \/ Return(c)

Next ==
    \/ Outside
    \/ \E c \in Calls : \/ DefineSystem(c) \/ DestroySystem(c)
                        \/ ModifySystemSettings(c) \/ ChangeResources(c)
                        \/ Handle(c)

Spec == Init /\ [][Next]_vars

\* Requests, and uuids, are interchangeable.
Symmetric == Permutations(Calls) \cup Permutations(Uuids)

-----------------------------------------------------------------------------
(***************************************************************************)
(* Properties.                                                             *)
(***************************************************************************)

Settings == {"absent", "zero", "new", "changed"}
PCs == {"idle", "check", "refs", "read", "previous", "device", "info", "online",
        "live", "define", "result", "settle", "enumerate", "find", "forget", "kill",
        "again", "undefine", "return"}
Ops == Changes \cup {"none", "define", "destroy", "system"}

\* Types; a guest that is off has a definition and nothing live.
TypeOK ==
    /\ guest \in [uuid : Uuids \cup {None}, def : BOOLEAN,
                  run : {"off", "on", "paused"},
                  stored : [Devices -> Settings], live : [Devices -> Settings]]
    /\ guest.def \/ guest.run # "off" <=> Exists
    /\ guest.run = "off" => guest.live = Nothing
    /\ ~guest.def => guest.stored = Nothing
    /\ recorded \in BOOLEAN
    /\ \A c \in Calls :
         LET r == call[c]
         IN  /\ r.pc \in PCs /\ r.op \in Ops /\ r.ok \in BOOLEAN
             /\ r.items \in Batches \cup {<<>>} /\ r.next \in 1 .. MaxBatch + 1
             /\ r.uuid \in Uuids \cup {None}
             /\ r.copy \in [Devices -> Settings \cup {"twice"}]
    /\ ops \in 0 .. MaxOps

\* A change during which nobody else changes the guest, whatever they have read
\* and are about to do: what is reported done is in the definition, and in the
\* guest if it ran; a device that was not asked for, or not reached, is as it was
\* in both.  Only the one that failed may be half changed; the weight of the
\* processors is lost.
AloneApplies ==
    \A c \in Calls :
        LET r == call[c]
            b == begun[c]
            done == {r.items[i] : i \in 1 .. (r.next - 1)}
            failed == IF r.ok \/ r.items = <<>> THEN {} ELSE {Item(c)}
        IN  r.pc = "return" /\ b.alone /\ r.op \in Changes \cup {"system"} =>
              \A d \in Devices \ (failed \cup {"proc"}) :
                 IF d \in done
                 THEN /\ Current[d] = NewSetting(r.op, "absent")
                      /\ b.run = "on" /\ d \notin Cold =>
                            guest.live[d] = NewSetting(r.op, "absent")
                 ELSE Current[d] = b.current[d] /\ guest.live[d] = b.live[d]

\* DestroySystem that reports success, and during which nobody else changes the
\* guest, has left no record, no definition and no running guest, except for what
\* failed without being looked at: the record, if its deletion failed; a guest that
\* runs, if virDomainDestroy failed; all of the guest, if the second lookup failed.
DestroyedIsGone ==
    \A c \in Calls :
        LET ignored == begun[c].ignored
        IN  call[c].pc = "return" /\ call[c].ok /\ call[c].op = "destroy"
                /\ begun[c].alone =>
              /\ "record" \notin ignored => ~recorded
              /\ "lookup" \notin ignored => ~guest.def
              /\ ignored \cap {"lookup", "kill"} = {} => ~Exists
=============================================================================
