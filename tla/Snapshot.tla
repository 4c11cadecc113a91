------------------------------- MODULE Snapshot -------------------------------
(***************************************************************************)
(* Snapshots and state changes of one guest                                *)
(* (src/src/Virt_VirtualSystemSnapshotService.c and RequestStateChange of  *)
(* src/src/Virt_ComputerSystem.c).                                         *)
(*                                                                         *)
(* A snapshot job saves the guest's memory to the one path its name has    *)
(* (virDomainSave switches the guest off), restores it from there, or      *)
(* both.  A guest that is off and has an image is reported SUSPENDED and   *)
(* is not started.  Jobs and state changes run on threads of their own and *)
(* exclude each other nowhere; each looks before it acts.                  *)
(***************************************************************************)
EXTENDS Integers

CONSTANTS
    Jobs,           \* snapshot jobs
    Calls,          \* threads of the CIMOM in RequestStateChange
    States,         \* the RequestedStates they ask for
    MaxLives,       \* bound: starts of the guest
    Faults          \* the calls that may fail

FaultKinds == {"thread", "inst", "connect", "save", "restore", "unlink",
               "xml", "define", "state"}

ASSUME StatesAssumption ==
    States \subseteq {"enabled", "disabled", "shutdown", "paused", "reboot",
                      "reset"}
ASSUME BoundsAssumption ==
    MaxLives \in Nat \ {0} /\ Faults \subseteq FaultKinds

VARIABLES
    guest,          \* is it running, is it defined, which memory has it
    lives,          \* starts so far; a memory is named by its start
    image,          \* the file vsss_get_save_path names
    job,            \* struct snap_context and the position of its thread
    inst,           \* JobState in the CIMOM
    call,           \* the locals and the position of each state change
    owed            \* history: the memory a client may count on to get back

vars == <<guest, lives, image, job, inst, call, owed>>

\* The image is a memory, or not there, or being written.
NoImage == 0
Partial == -1
NoMemory == 0
Lives == 1 .. MaxLives

On == guest.run # "off"
Present == On \/ guest.def

NoJob == [pc |-> "none", save |-> FALSE, restore |-> FALSE, ok |-> TRUE]
NoCall == [pc |-> "idle", state |-> "none", seen |-> "off", ok |-> TRUE]

Saving == \E j \in Jobs : job[j].pc = "saving"

Init ==
    /\ \E run \in {"off", "on"}, def \in BOOLEAN :
         /\ run = "on" \/ def
         /\ guest = [run |-> run, def |-> def,
                     mem |-> IF run = "on" THEN 1 ELSE NoMemory]
    /\ lives = 1
    /\ image = NoImage
    /\ job = [j \in Jobs |-> NoJob]
    /\ inst = [j \in Jobs |-> "absent"]
    /\ call = [c \in Calls |-> NoCall]
    /\ owed = NoMemory

-----------------------------------------------------------------------------
(***************************************************************************)
(* What libvirt does to the guest.                                         *)
(***************************************************************************)
Boot ==
    /\ guest.run = "off" /\ guest.def /\ ~Saving
    /\ lives < MaxLives
    /\ lives' = lives + 1
    /\ guest' = [guest EXCEPT !.run = "on", !.mem = lives + 1]

PowerOff == guest' = [guest EXCEPT !.run = "off", !.mem = NoMemory]

\* The guest powers off, asked to or not.
GuestStops ==
    /\ guest.run = "on"
    /\ PowerOff
    /\ UNCHANGED <<lives, image, job, inst, call, owed>>

-----------------------------------------------------------------------------
(***************************************************************************)
(* Snapshot jobs.  The methods create the job before they look at the      *)
(* guest, and return COMPLETED whatever becomes of it.                     *)
(***************************************************************************)
Goto(j, from, to) ==
    /\ job[j].pc = from
    /\ job' = [job EXCEPT ![j].pc = to]

\* _snap_job_set_status: an update that fails is logged and dropped.
SetStatus(j, s) ==
    \/ inst' = [inst EXCEPT ![j] = s]
    \/ "inst" \in Faults /\ UNCHANGED inst

\* snap_job_set_failed, after which the thread ends.
JobFails(j, from) ==
    /\ job[j].pc = from
    /\ job' = [job EXCEPT ![j].pc = "done", ![j].ok = FALSE]
    /\ SetStatus(j, "complete")

guestvars == <<guest, lives, owed>>

\* CreateSnapshot with a type that keeps the guest running or leaves it off,
\* and ApplySnapshot.
StartJob(j) ==
    /\ job[j].pc = "none"
    /\ \E save \in BOOLEAN, restore \in BOOLEAN :
         /\ save \/ restore
         /\ job' = [job EXCEPT ![j] = [pc |-> "start", save |-> save,
                                       restore |-> restore, ok |-> TRUE]]
    /\ inst' = [inst EXCEPT ![j] = "starting"]
    /\ UNCHANGED <<image, guestvars, call>>

\* Line 313: the result of newThread is not looked at.
NoThread(j) ==
    /\ "thread" \in Faults
    /\ Goto(j, "start", "stuck")
    /\ UNCHANGED <<inst, image, guestvars, call>>

MarkRunning(j) ==
    /\ Goto(j, "start", "lookup")
    /\ SetStatus(j, "running")
    /\ UNCHANGED <<image, guestvars, call>>

NotFound(j) ==
    /\ "connect" \in Faults \/ ~Present
    /\ JobFails(j, "lookup")
    /\ UNCHANGED <<image, guestvars, call>>

Lookup(j) ==
    /\ Present
    /\ Goto(j, "lookup", IF job[j].save THEN "save" ELSE "restore")
    /\ UNCHANGED <<inst, image, guestvars, call>>

\* virDomainSave creates or truncates the file and writes; libvirt lets no
\* other call change the guest meanwhile, except to destroy it.
BeginSave(j) ==
    /\ On /\ ~Saving
    /\ Goto(j, "save", "saving")
    /\ image' = Partial
    /\ UNCHANGED <<inst, guestvars, call>>

\* mutant: the thread goes on after snap_job_set_failed
SaveRefusedGoesOn(j) ==
    /\ "save" \in Faults \/ ~On \/ Saving
    /\ Goto(j, "save", IF job[j].restore THEN "restore" ELSE "complete")
    /\ SetStatus(j, "complete")
    /\ UNCHANGED <<image, guestvars, call>>

SaveRefused(j) ==
    /\ "save" \in Faults \/ ~On \/ Saving
    /\ JobFails(j, "save")
    /\ UNCHANGED <<image, guestvars, call>>

\* libvirt removes the file of a save that fails.
SaveFails(j) ==
    /\ "save" \in Faults \/ ~On
    /\ JobFails(j, "saving")
    /\ image' = NoImage
    /\ UNCHANGED <<guestvars, call>>

(***************************************************************************)
(* The guest is off and its memory in the file.  The client may count on   *)
(* it, unless the file was unlinked while it was written, or another job   *)
(* has restored an older image and is about to unlink the path.            *)
(***************************************************************************)
LateDelete == \E o \in Jobs : job[o].pc = "delete"
EndSave(j) ==
    /\ On
    /\ Goto(j, "saving", IF job[j].restore THEN "restore" ELSE "complete")
    /\ image' = IF image = Partial THEN guest.mem ELSE image
    /\ owed' = IF image = Partial /\ ~LateDelete THEN guest.mem ELSE NoMemory
    /\ PowerOff
    /\ SetStatus(j, "running")
    /\ UNCHANGED <<lives, call>>

\* mutant: a restore that fails removes the image
RestoreFailsAndForgets(j) ==
    /\ "restore" \in Faults \/ On \/ Saving \/ image \notin Lives
    /\ JobFails(j, "restore")
    /\ image' = NoImage
    /\ UNCHANGED <<guestvars, call>>

\* mutant: the failure of virDomainRestore is not noticed
RestoreFailsUnseen(j) ==
    /\ "restore" \in Faults \/ On \/ Saving \/ image \notin Lives
    /\ Goto(j, "restore", "complete")
    /\ UNCHANGED <<inst, image, guestvars, call>>

RestoreFails(j) ==
    /\ "restore" \in Faults \/ On \/ Saving \/ image \notin Lives
    /\ JobFails(j, "restore")
    /\ UNCHANGED <<image, guestvars, call>>

\* mutant: a file that is no complete image is restored
RestoreAnything(j) ==
    /\ ~On /\ ~Saving
    /\ Goto(j, "restore", IF job[j].save THEN "complete" ELSE "delete")
    /\ guest' = [guest EXCEPT !.run = "on", !.mem = image]
    /\ owed' = NoMemory
    /\ SetStatus(j, "running")
    /\ UNCHANGED <<lives, image, call>>

Restore(j) ==
    /\ ~On /\ ~Saving /\ image \in Lives
    /\ Goto(j, "restore", IF job[j].save THEN "complete" ELSE "delete")
    /\ \E run \in {"on", "paused"} :
         guest' = [guest EXCEPT !.run = run, !.mem = image]
    /\ owed' = NoMemory
    /\ SetStatus(j, "running")
    /\ UNCHANGED <<lives, image, call>>

\* Line 204; the result of unlink is not looked at.
DeleteImage(j) ==
    /\ Goto(j, "delete", "complete")
    /\ \/ image' = NoImage
       \/ "unlink" \in Faults /\ UNCHANGED image
    /\ UNCHANGED <<inst, guestvars, call>>

Complete(j) ==
    /\ Goto(j, "complete", "done")
    /\ SetStatus(j, "complete")
    /\ UNCHANGED <<image, guestvars, call>>

\* DestroySnapshot unlinks the path, whatever is there.
DestroySnapshot ==
    /\ image # NoImage
    /\ image' = NoImage
    /\ owed' = NoMemory
    /\ UNCHANGED <<guest, lives, job, inst, call>>

Thread(j) ==
    \/ MarkRunning(j) \/ NotFound(j) \/ Lookup(j)
    \/ BeginSave(j) \/ SaveRefused(j) \/ SaveFails(j) \/ EndSave(j)
    \/ RestoreFails(j) \/ Restore(j) \/ DeleteImage(j) \/ Complete(j)

-----------------------------------------------------------------------------
(***************************************************************************)
(* RequestStateChange.  A request that finds no guest, or cannot read its  *)
(* state, changes nothing.  While its memory is saved a guest is paused.   *)
(***************************************************************************)
jobvars == <<job, inst, image>>

Step(c, from, to) ==
    /\ call[c].pc = from
    /\ call' = [call EXCEPT ![c].pc = to]

\* A status is set, and the requested state is still recorded.
Fails(c, from) ==
    /\ call[c].pc = from
    /\ call' = [call EXCEPT ![c].pc = "record", ![c].ok = FALSE]

Request(c) ==
    /\ call[c].pc = "idle"
    /\ Present
    /\ \E s \in States :
         call' = [call EXCEPT ![c] =
                    [pc |-> "act", state |-> s, ok |-> TRUE,
                     seen |-> IF On /\ Saving THEN "paused" ELSE guest.run]]
    /\ UNCHANGED <<jobvars, guestvars>>

Asked(c, s, seen) == call[c].state = s /\ call[c].seen \in seen

Invalid(c) ==
    /\ \/ Asked(c, "enabled", {"on"})
       \/ \E s \in {"disabled", "shutdown", "paused"} :
            Asked(c, s, {"off", "paused"})
       \/ \E s \in {"reboot", "reset"} : Asked(c, s, {"off"})
    /\ Fails(c, "act")
    /\ UNCHANGED <<jobvars, guestvars>>

\* start_domain: "Domain has a snapshot".
HasSnapshot(c) ==
    /\ Asked(c, "enabled", {"off"})
    /\ image # NoImage
    /\ Fails(c, "act")
    /\ UNCHANGED <<jobvars, guestvars>>

HasNone(c) ==
    /\ Asked(c, "enabled", {"off"})
    /\ image = NoImage
    /\ Step(c, "act", "create")
    /\ UNCHANGED <<jobvars, guestvars>>

\* A guest started afresh gives up the memory it was saved with.
Create(c) ==
    /\ Boot
    /\ Step(c, "create", "record")
    /\ owed' = NoMemory
    /\ UNCHANGED <<jobvars>>

\* mutant: the failure of virDomainCreate is not reported
CreateFailsUnseen(c) ==
    /\ "state" \in Faults \/ On \/ ~guest.def \/ Saving
    /\ Step(c, "create", "record")
    /\ UNCHANGED <<jobvars, guestvars>>

CreateFails(c) ==
    /\ "state" \in Faults \/ On \/ ~guest.def \/ Saving
    /\ Fails(c, "create")
    /\ UNCHANGED <<jobvars, guestvars>>

Resume(c) ==
    /\ Asked(c, "enabled", {"paused"})
    /\ guest.run = "paused" /\ ~Saving
    /\ Step(c, "act", "record")
    /\ guest' = [guest EXCEPT !.run = "on"]
    /\ UNCHANGED <<jobvars, lives, owed>>

Suspend(c) ==
    /\ Asked(c, "paused", {"on"})
    /\ On /\ ~Saving
    /\ Step(c, "act", "record")
    /\ guest' = [guest EXCEPT !.run = "paused"]
    /\ UNCHANGED <<jobvars, lives, owed>>

Destroy(c) ==
    /\ Asked(c, "disabled", {"on"})
    /\ On
    /\ Step(c, "act", "record")
    /\ PowerOff
    /\ UNCHANGED <<jobvars, lives, owed>>

\* virDomainShutdown and virDomainReboot ask the guest.
Ask(c) ==
    /\ Asked(c, "shutdown", {"on"}) \/ Asked(c, "reboot", {"on", "paused"})
    /\ On /\ ~Saving
    /\ Step(c, "act", "record")
    /\ UNCHANGED <<jobvars, guestvars>>

CallRefused(c) ==
    /\ \/ Asked(c, "enabled", {"paused"})
       \/ \E s \in {"disabled", "shutdown", "paused"} : Asked(c, s, {"on"})
       \/ Asked(c, "reboot", {"on", "paused"})
    /\ \/ "state" \in Faults \/ ~On \/ Saving
       \/ call[c].state = "enabled" /\ guest.run = "on"
    /\ Fails(c, "act")
    /\ UNCHANGED <<jobvars, guestvars>>

\* domain_reset reads the definition, destroys the guest, looks it up again,
\* defines it if it is gone, and starts it.
ReadXml(c) ==
    /\ Asked(c, "reset", {"on", "paused"})
    /\ Present
    /\ Step(c, "act", "destroy")
    /\ UNCHANGED <<jobvars, guestvars>>

XmlFails(c) ==
    /\ Asked(c, "reset", {"on", "paused"})
    /\ "xml" \in Faults \/ ~Present
    /\ Fails(c, "act")
    /\ UNCHANGED <<jobvars, guestvars>>

ResetDestroy(c) ==
    /\ On
    /\ Step(c, "destroy", "relookup")
    /\ PowerOff
    /\ UNCHANGED <<jobvars, lives, owed>>

ResetDestroyFails(c) ==
    /\ "state" \in Faults \/ ~On
    /\ Fails(c, "destroy")
    /\ UNCHANGED <<jobvars, guestvars>>

Relookup(c) ==
    /\ Step(c, "relookup", IF Present THEN "create" ELSE "define")
    /\ UNCHANGED <<jobvars, guestvars>>

Define(c) ==
    /\ Step(c, "define", "create")
    /\ guest' = [guest EXCEPT !.def = TRUE]
    /\ UNCHANGED <<jobvars, lives, owed>>

DefineFails(c) ==
    /\ "define" \in Faults
    /\ Fails(c, "define")
    /\ UNCHANGED <<jobvars, guestvars>>

\* The requested state is stored, whether the change succeeded or not: a Commit
\* of AtomicStore, of which nothing here depends.
Record(c) ==
    /\ call[c].pc = "record"
    /\ call' = [call EXCEPT ![c] = NoCall]
    /\ UNCHANGED <<jobvars, guestvars>>

ChangeStep(c) ==
    \/ Invalid(c) \/ HasSnapshot(c) \/ HasNone(c) \/ Create(c) \/ CreateFails(c)
    \/ Resume(c) \/ Suspend(c) \/ Destroy(c) \/ Ask(c) \/ CallRefused(c)
    \/ ReadXml(c) \/ XmlFails(c) \/ ResetDestroy(c) \/ ResetDestroyFails(c)
    \/ Relookup(c) \/ Define(c) \/ DefineFails(c) \/ Record(c)

Next ==
    \/ GuestStops \/ DestroySnapshot
    \/ \E j \in Jobs : StartJob(j) \/ NoThread(j) \/ Thread(j)
    \/ \E c \in Calls : Request(c) \/ ChangeStep(c)

Spec == Init /\ [][Next]_vars
\* A job's thread goes on: its libvirt calls return.  Nothing is assumed of
\* clients and guests.
FairSpec == Spec /\ \A j \in Jobs : WF_vars(Thread(j))

-----------------------------------------------------------------------------
(* Properties.                                                             *)

\* What a client reads as EnabledState (lines 178 and 283 of
\* Virt_ComputerSystem.c).
EnabledState ==
    IF On THEN (IF Saving \/ guest.run = "paused" THEN "paused" ELSE "enabled")
    ELSE IF image # NoImage THEN "suspended" ELSE "disabled"

JobPCs == {"none", "start", "stuck", "lookup", "save", "saving", "restore",
           "delete", "complete", "done"}
CallPCs == {"idle", "act", "create", "destroy", "relookup", "define", "record"}

GuestType == [run : {"off", "on", "paused"}, def : BOOLEAN,
              mem : Lives \cup {NoMemory}]
JobType == [pc : JobPCs, save : BOOLEAN, restore : BOOLEAN, ok : BOOLEAN]
CallType == [pc : CallPCs, state : States \cup {"none"},
             seen : {"off", "on", "paused"}, ok : BOOLEAN]

\* Types; a guest has a memory exactly while it runs.
TypeOK ==
    /\ guest \in GuestType
    /\ On <=> guest.mem # NoMemory
    /\ lives \in Lives
    /\ image \in Lives \cup {NoImage, Partial}
    /\ job \in [Jobs -> JobType]
    /\ inst \in [Jobs -> {"absent", "starting", "running", "complete"}]
    /\ call \in [Calls -> CallType]
    /\ owed \in Lives \cup {NoMemory}

\* The memory of a guest that a job has saved and switched off is in the image
\* and the guest is shown as suspended, until it is restored, given up by the
\* client or started afresh: no failing or overlapping job loses it, except
\* by the late unlink of line 204.
MemoryKept ==
    owed # NoMemory => image = owed /\ EnabledState = "suspended"

\* A reset that reports success has not lost a guest that lived only in
\* memory: it is defined (line 1005).
ResetDefines ==
    \A c \in Calls :
        call[c].pc = "record" /\ call[c].state = "reset" /\ call[c].ok
            => guest.def

\* A guest that a snapshot switched off only to take it is running again, or
\* the job ends with an error.
ComesBack ==
    \A j \in Jobs :
        job[j].pc = "restore" /\ job[j].save ~> On \/ ~job[j].ok

\* To a client the job only advances.
Job == INSTANCE CimJob WITH state <- inst, told <- [j \in Jobs |-> "nothing"]
ImplementsJob == Job!Spec

(***************************************************************************)
(* What the code's own words say, and the code does not do.                *)
(***************************************************************************)

\* "Domain has a snapshot" (line 1040): a guest that has one is not enabled by
\* starting it afresh.
NotBootedOver ==
    [][\A c \in Calls :
         call[c].state = "enabled" /\ Create(c) => image = NoImage]_vars
=============================================================================
