------------------------------ MODULE Migration ------------------------------
(***************************************************************************)
(* The migration service (src/src/Virt_VSMigrationService.c).              *)
(*                                                                         *)
(* MigrateVirtualSystemToHost and ...ToSystem create a CIM job and a       *)
(* thread.  The thread moves one guest from the local host: by libvirt's   *)
(* live migration, by shutting it down and starting it there, or as a      *)
(* stopped guest.  After that it undefines the guest here and defines it   *)
(* there, from the XML it read before.  Between any two libvirt calls the  *)
(* guest may stop, an operator may start, pause or resume it, and another  *)
(* job may move it.  No lock is taken.                                     *)
(***************************************************************************)
EXTENDS Integers, FiniteSets

CONSTANTS
    Jobs,           \* migration jobs
    Hosts, Local,   \* hosts; a job may also name "localhost"
    Types,          \* the MigrationTypes asked for
    None,           \* no value
    MaxTries,       \* bound: MIGRATE_SHUTDOWN_TIMEOUT
    MaxOps,         \* bound: actions of operators
    Faults          \* the calls that may fail

FaultKinds == {"inst", "thread", "store", "connect", "xml", "migrate",
               "shutdown", "info", "undefine", "define", "create"}

ASSUME HostsAssumption == Local \in Hosts
ASSUME TypesAssumption == Types \subseteq {"other", "live", "resume", "restart"}
ASSUME BoundsAssumption ==
    MaxTries \in Nat \ {0} /\ MaxOps \in Nat /\ Faults \subseteq FaultKinds

VARIABLES
    guest,          \* the guest on each host: is it running, is it defined
    other,          \* hosts with a guest of the same name and another uuid
    record,         \* the infostore record of the name, on the local host
    job,            \* struct migration_job and the position of its thread
    inst, told,     \* JobState in the CIMOM; the last indication raised
    ops,            \* operator actions so far
    exposed,        \* history: an operator started the guest, two jobs of which
                    \* one restarts it overlapped, or a paused guest was asked
                    \* to shut down
    durable         \* history: the guest is defined somewhere, or should be

vars == <<guest, other, record, job, inst, told, ops, exposed, durable>>
world == <<other, ops, exposed>>

Nowhere == [run |-> "off", def |-> FALSE]
Present(h) == guest[h] # Nowhere
Taken(h) == Present(h) \/ h \in other

NoJob == [pc |-> "none", host |-> Local, type |-> None, tries |-> 0,
          ok |-> TRUE, dom |-> FALSE]
\* The handler returned without a thread, or the thread has ended.
Ended == {"none", "stuck", "done"}
Alive(j) == job[j].pc \notin Ended

Init ==
    /\ \E run \in {"off", "on", "paused"}, def \in BOOLEAN, away \in BOOLEAN :
         /\ run # "off" \/ def
         /\ guest = [h \in Hosts |->
                IF h = Local THEN [run |-> run, def |-> def]
                ELSE [run |-> "off", def |-> away]]
    /\ durable = \E h \in Hosts : guest[h].def
    /\ other \in SUBSET {h \in Hosts : ~Present(h)}
    /\ record = [of |-> None, migrating |-> FALSE]
    /\ job = [j \in Jobs |-> NoJob]
    /\ inst = [j \in Jobs |-> "absent"]
    /\ told = [j \in Jobs |-> "nothing"]
    /\ ops = 0
    /\ exposed = FALSE

Goto(j, from, to) ==
    /\ job[j].pc = from
    /\ job' = [job EXCEPT ![j].pc = to]

\* The thread gives up: rc is set and control goes to "out".
Fail(j, from) ==
    /\ job[j].pc = from
    /\ job' = [job EXCEPT ![j].pc = "clear", ![j].ok = FALSE]

(***************************************************************************)
(* Operators and the guest itself.                                         *)
(***************************************************************************)
Operate == ops < MaxOps /\ ops' = ops + 1

Start(h) ==
    /\ Operate
    /\ \/ guest[h].run = "off" /\ guest[h].def
       \/ guest[h].run = "paused"
    /\ guest' = [guest EXCEPT ![h].run = "on"]
    /\ exposed' = TRUE
    /\ UNCHANGED <<other, record, job, inst, told, durable>>

Pause(h) ==
    /\ Operate
    /\ guest[h].run = "on"
    /\ guest' = [guest EXCEPT ![h].run = "paused"]
    /\ UNCHANGED <<other, record, job, inst, told, exposed, durable>>

OtherDefined(h) ==
    /\ Operate
    /\ ~Taken(h)
    /\ h # Local
    /\ other' = other \cup {h}
    /\ UNCHANGED <<guest, record, job, inst, told, exposed, durable>>

\* A guest goes down, asked to or not; a transient one is then gone.
GuestStops(h) ==
    /\ guest[h].run = "on"
    /\ guest' = [guest EXCEPT ![h].run = "off"]
    /\ UNCHANGED <<other, record, job, inst, told, ops, exposed, durable>>

(***************************************************************************)
(* The method, migrate_do.  A request that fails before the job instance   *)
(* is created (line 1563 or 1569) changes nothing and is a stutter.        *)
(***************************************************************************)
Request(j) ==
    /\ job[j].pc = "none"
    /\ \E h \in Hosts, type \in Types :
         /\ job' = [job EXCEPT ![j] = [NoJob EXCEPT !.pc = "created", !.host = h,
                                                    !.type = type]]
         /\ exposed' = (exposed \/ \E o \in Jobs :
                            Alive(o) /\ "restart" \in {type, job[o].type})
    /\ inst' = [inst EXCEPT ![j] = "starting"]
    /\ UNCHANGED <<guest, other, record, told, ops, durable>>

\* Line 1575: the job is returned to the client, but has no thread.
RequestLost(j) ==
    /\ "inst" \in Faults
    /\ Goto(j, "created", "stuck")
    /\ UNCHANGED <<guest, record, inst, told, durable, world>>

\* set_infstore_migration_flag: the name is looked up on the connection to the
\* destination.  infostore_open starts a new record for another uuid.
SetFlag(j) ==
    /\ Goto(j, "created", "spawn")
    /\ LET h == job[j].host
           marked == [of |-> IF h \in other THEN "other" ELSE "mine",
                      migrating |-> TRUE]
       IN  IF Taken(h)
           THEN \/ record' = marked
                \/ "store" \in Faults /\ UNCHANGED record
           ELSE UNCHANGED record
    /\ \/ told' = [told EXCEPT ![j] = "created"]
       \/ "inst" \in Faults /\ UNCHANGED told
    /\ UNCHANGED <<guest, inst, durable, world>>

Spawn(j) ==
    /\ Goto(j, "spawn", "start")
    /\ UNCHANGED <<guest, record, inst, told, durable, world>>

\* Line 1590: the result of newThread is not looked at.
SpawnFails(j) ==
    /\ "thread" \in Faults
    /\ Goto(j, "spawn", "stuck")
    /\ UNCHANGED <<guest, record, inst, told, durable, world>>

(***************************************************************************)
(* migrate_job_set_state: nothing happens when the job instance cannot be  *)
(* read; when only the update fails the indication is still raised.        *)
(***************************************************************************)
SetState(j, state) ==
    \/ /\ inst' = [inst EXCEPT ![j] = state]
       /\ told' = [told EXCEPT ![j] = "modified"]
    \/ /\ "inst" \in Faults
       /\ UNCHANGED inst
       /\ told' \in {told, [told EXCEPT ![j] = "modified"]}

MarkRunning(j) ==
    /\ Goto(j, "start", "lookup")
    /\ SetState(j, "running")
    /\ UNCHANGED <<guest, record, durable, world>>

(***************************************************************************)
(* migrate_vs.                                                             *)
(***************************************************************************)
NotFound(j) ==
    /\ ~Present(Local) \/ "connect" \in Faults
    /\ Fail(j, "lookup")
    /\ UNCHANGED <<guest, record, inst, told, durable, world>>

Lookup(j) ==
    /\ Present(Local)
    /\ job[j].pc = "lookup"
    /\ job' = [job EXCEPT ![j].pc = "remote", ![j].dom = TRUE]
    /\ UNCHANGED <<guest, record, inst, told, durable, world>>

RemoteExists(j) ==
    /\ job[j].host # Local /\ Taken(job[j].host)
    /\ Fail(j, "remote")
    /\ UNCHANGED <<guest, record, inst, told, durable, world>>

RemoteFree(j) ==
    /\ job[j].host = Local \/ ~Taken(job[j].host)
    /\ Goto(j, "remote", "xml")
    /\ UNCHANGED <<guest, record, inst, told, durable, world>>

\* prepare_migrate.
XmlFails(j) ==
    /\ ~Present(Local) \/ "xml" \in Faults
    /\ Fail(j, "xml")
    /\ UNCHANGED <<guest, record, inst, told, durable, world>>

Prepare(j) ==
    /\ Present(Local)
    /\ Goto(j, "xml", job[j].type)
    /\ UNCHANGED <<guest, record, inst, told, durable, world>>

\* ensure_dom_offline.
NotOffline(j) ==
    /\ ~Present(Local) \/ guest[Local].run # "off" \/ "info" \in Faults
    /\ Fail(j, "other")
    /\ UNCHANGED <<guest, record, inst, told, durable, world>>

EnsureOffline(j) ==
    /\ Present(Local) /\ guest[Local].run = "off"
    /\ Goto(j, "other", "undefine")
    /\ UNCHANGED <<guest, record, inst, told, durable, world>>

\* handle_migrate: libvirt moves the running guest, not its definition.
CanMove(d) ==
    /\ guest[Local].run # "off"
    /\ d # Local /\ d \notin other /\ guest[d].run = "off"

MigrateFails(j) ==
    /\ ~CanMove(job[j].host) \/ "migrate" \in Faults
    /\ Fail(j, "live") \/ Fail(j, "resume")
    /\ UNCHANGED <<guest, record, inst, told, durable, world>>

Migrate(j) ==
    /\ CanMove(job[j].host)
    /\ Goto(j, "live", "undefine") \/ Goto(j, "resume", "undefine")
    /\ guest' = [guest EXCEPT ![Local].run = "off",
                              ![job[j].host].run = guest[Local].run]
    /\ UNCHANGED <<record, inst, told, durable, world>>

\* handle_restart_migrate: ask once, then look every second.
ShutdownFails(j) ==
    /\ guest[Local].run = "off" \/ "shutdown" \in Faults
    /\ Fail(j, "restart")
    /\ UNCHANGED <<guest, record, inst, told, durable, world>>

Shutdown(j) ==
    /\ guest[Local].run # "off"
    /\ Goto(j, "restart", "poll")
    /\ exposed' = (exposed \/ guest[Local].run = "paused")
    /\ UNCHANGED <<guest, other, record, inst, told, ops, durable>>

\* A paused guest is not online (misc_util.c, line 617), nor is one whose
\* state cannot be read.
Online == guest[Local].run = "on"

Again(j) == job' = [job EXCEPT ![j].tries = @ + 1]

StillOnline(j) ==
    /\ job[j].pc = "poll" /\ job[j].tries < MaxTries
    /\ Online
    /\ Again(j)
    /\ UNCHANGED <<guest, record, inst, told, durable, world>>

\* mutant: after the last look the migration goes on
ShutdownAssumed(j) ==
    /\ job[j].pc = "poll" /\ job[j].tries = MaxTries
    /\ job' = [job EXCEPT ![j].pc = "undefine", ![j].tries = 0]
    /\ UNCHANGED <<guest, record, inst, told, durable, world>>

ShutdownTimesOut(j) ==
    /\ job[j].tries = MaxTries
    /\ Fail(j, "poll")
    /\ UNCHANGED <<guest, record, inst, told, durable, world>>

WentDown(j) ==
    /\ job[j].pc = "poll" /\ job[j].tries < MaxTries
    /\ ~Online \/ "info" \in Faults
    /\ job' = [job EXCEPT ![j].pc = "undefine", ![j].tries = 0]
    /\ UNCHANGED <<guest, record, inst, told, durable, world>>

(***************************************************************************)
(* complete_migrate.  The guest is undefined here before it is defined     *)
(* there; that this failed is only logged.  A running guest either cannot  *)
(* be undefined or becomes transient, as the version of libvirt has it.    *)
(***************************************************************************)
RelookupFails(j) ==
    /\ ~Present(Local)
    /\ Goto(j, "undefine", "define")
    /\ UNCHANGED <<guest, record, inst, told, durable, world>>

Undefine(j) ==
    /\ guest[Local].def
    /\ Goto(j, "undefine", "define")
    /\ guest' = [guest EXCEPT ![Local].def = FALSE]
    /\ UNCHANGED <<record, inst, told, durable, world>>

\* mutant: a failed try is not counted
UndefineForever(j) ==
    /\ Present(Local)
    /\ guest[Local].run # "off" \/ "undefine" \in Faults
    /\ job[j].pc = "undefine"
    /\ UNCHANGED <<guest, record, job, inst, told, durable, world>>

UndefineFails(j) ==
    /\ Present(Local)
    /\ guest[Local].run # "off" \/ "undefine" \in Faults
    /\ job[j].pc = "undefine"
    /\ job' = IF job[j].tries + 1 < MaxTries
              THEN [job EXCEPT ![j].tries = @ + 1]
              ELSE [job EXCEPT ![j].pc = "define", ![j].tries = 0]
    /\ UNCHANGED <<guest, record, inst, told, durable, world>>

\* mutant: the job does not report that it lost the definition
DefineFailsUnseen(j) ==
    /\ job[j].host \in other \/ "define" \in Faults
    /\ Goto(j, "define", "clear")
    /\ durable' = FALSE
    /\ UNCHANGED <<guest, record, inst, told, world>>

DefineFails(j) ==
    /\ job[j].host \in other \/ "define" \in Faults
    /\ Fail(j, "define")
    /\ durable' = FALSE
    /\ UNCHANGED <<guest, record, inst, told, world>>

\* mutant: only a guest that is to be restarted is defined there
DefineForRestart(j) ==
    /\ job[j].host \notin other
    /\ Goto(j, "define", IF job[j].type = "restart" THEN "boot" ELSE "clear")
    /\ guest' = IF job[j].type = "restart"
                THEN [guest EXCEPT ![job[j].host].def = TRUE] ELSE guest
    /\ durable' = TRUE
    /\ UNCHANGED <<record, inst, told, world>>

\* mutant: a guest of the same name is defined over
DefineAnyway(j) ==
    /\ Goto(j, "define", IF job[j].type = "restart" THEN "boot" ELSE "clear")
    /\ guest' = [guest EXCEPT ![job[j].host].def = TRUE]
    /\ durable' = TRUE
    /\ UNCHANGED <<record, inst, told, world>>

Define(j) ==
    /\ job[j].host \notin other
    /\ Goto(j, "define", IF job[j].type = "restart" THEN "boot" ELSE "clear")
    /\ guest' = [guest EXCEPT ![job[j].host].def = TRUE]
    /\ durable' = TRUE
    /\ UNCHANGED <<record, inst, told, world>>

BootFails(j) ==
    /\ guest[job[j].host] # [run |-> "off", def |-> TRUE] \/ "create" \in Faults
    /\ Fail(j, "boot")
    /\ UNCHANGED <<guest, record, inst, told, durable, world>>

Boot(j) ==
    /\ guest[job[j].host] = [run |-> "off", def |-> TRUE]
    /\ Goto(j, "boot", "clear")
    /\ guest' = [guest EXCEPT ![job[j].host].run = "on"]
    /\ UNCHANGED <<record, inst, told, durable, world>>

\* mutant: the flag is cleared only after a success
ClearAfterSuccess(j) ==
    /\ Goto(j, "clear", "finish")
    /\ IF job[j].dom /\ job[j].ok
       THEN record' = [of |-> "mine", migrating |-> FALSE]
       ELSE UNCHANGED record
    /\ UNCHANGED <<guest, inst, told, durable, world>>

\* clear_infstore_migration_flag; dom is NULL if the lookup failed.
ClearFlag(j) ==
    /\ Goto(j, "clear", "finish")
    /\ IF job[j].dom
       THEN \/ record' = [of |-> "mine", migrating |-> FALSE]
            \/ "store" \in Faults /\ UNCHANGED record
       ELSE UNCHANGED record
    /\ UNCHANGED <<guest, inst, told, durable, world>>

Finish(j) ==
    /\ Goto(j, "finish", "goodbye")
    /\ SetState(j, "complete")
    /\ UNCHANGED <<guest, record, durable, world>>

\* mutant: the job is reported running once more when its thread ends
FinishAgain(j) ==
    /\ Goto(j, "goodbye", "done")
    /\ inst' = [inst EXCEPT ![j] = "running"]
    /\ told' = [told EXCEPT ![j] = "deleted"]
    /\ UNCHANGED <<guest, record, durable, world>>

\* raise_deleted_ind: an indication; the job instance stays where it is.
RaiseDeleted(j) ==
    /\ Goto(j, "goodbye", "done")
    /\ \/ told' = [told EXCEPT ![j] = "deleted"]
       \/ "inst" \in Faults /\ UNCHANGED told
    /\ UNCHANGED <<guest, record, inst, durable, world>>

Thread(j) ==
    \/ MarkRunning(j) \/ NotFound(j) \/ Lookup(j)
    \/ RemoteExists(j) \/ RemoteFree(j) \/ XmlFails(j) \/ Prepare(j)
    \/ NotOffline(j) \/ EnsureOffline(j) \/ MigrateFails(j) \/ Migrate(j)
    \/ ShutdownFails(j) \/ Shutdown(j)
    \/ StillOnline(j) \/ ShutdownTimesOut(j) \/ WentDown(j)
    \/ RelookupFails(j) \/ Undefine(j) \/ UndefineFails(j)
    \/ DefineFails(j) \/ Define(j) \/ BootFails(j) \/ Boot(j)
    \/ ClearFlag(j) \/ Finish(j) \/ RaiseDeleted(j)

Handler(j) ==
    Request(j) \/ RequestLost(j) \/ SetFlag(j) \/ Spawn(j) \/ SpawnFails(j)

Outside ==
    \E h \in Hosts : Start(h) \/ Pause(h) \/ OtherDefined(h) \/ GuestStops(h)

Next == Outside \/ \E j \in Jobs : Handler(j) \/ Thread(j)

Spec == Init /\ [][Next]_vars
\* A thread that has something to do gets to do it: its libvirt calls return
\* and its sleeps end.  Nothing is assumed of guests and operators.
FairSpec == Spec /\ \A j \in Jobs : WF_vars(Thread(j))

-----------------------------------------------------------------------------
(* Properties.                                                             *)

PCs == Ended \cup {"created", "spawn", "start", "lookup", "remote", "xml",
    "poll", "undefine", "define", "boot", "clear", "finish", "goodbye"} \cup Types
JobType == [pc : PCs, host : Hosts, type : Types \cup {None},
            tries : 0 .. MaxTries, ok : BOOLEAN, dom : BOOLEAN]

\* Types; no guest shares its host with another guest of its name.
TypeOK ==
    /\ guest \in [Hosts -> [run : {"off", "on", "paused"}, def : BOOLEAN]]
    /\ other \subseteq {h \in Hosts : ~Present(h)}
    /\ record \in [of : {None, "mine", "other"}, migrating : BOOLEAN]
    /\ job \in [Jobs -> JobType]
    /\ inst \in [Jobs -> {"absent", "starting", "running", "complete"}]
    /\ told \in [Jobs -> {"nothing", "created", "modified", "deleted"}]
    /\ ops \in 0 .. MaxOps
    /\ exposed \in BOOLEAN /\ durable \in BOOLEAN

\* The guest runs on one host at a time, also when jobs overlap, unless one of
\* them restarts it, a paused guest is restarted, or an operator starts it:
\* shutdown is waited for and a timeout ends the job (line 1127).
RunsOnce ==
    ~exposed => Cardinality({h \in Hosts : guest[h].run = "on"}) <= 1

\* A guest that is defined stays defined somewhere, or a job holds its XML and
\* is about to define it, or the job's define failed and said so (line 1200).
DefinitionKept ==
    durable => \/ \E h \in Hosts : guest[h].def
               \/ \E j \in Jobs : job[j].pc = "define"

\* A job that ends without an error has left the guest defined at its
\* destination, whatever became of the undefine and of other jobs.
SuccessMeansThere ==
    \A j \in Jobs :
        /\ job[j].pc \in {"clear", "finish", "goodbye", "done"}
        /\ job[j].ok /\ job[j].host # Local
        => guest[job[j].host].def

\* The migrating flag does not outlive the jobs, unless one of them had no
\* thread or found no domain; this as long as the record can be opened.
FlagCleared ==
    record.migrating =>
        \E j \in Jobs :
            \/ Alive(j) \/ job[j].pc = "stuck"
            \/ job[j].pc = "done" /\ ~job[j].dom

\* A thread comes to its end although guests may never shut down and may never
\* be undefined: every loop is counted.
ThreadEnds == \A j \in Jobs : job[j].pc = "start" ~> job[j].pc = "done"

\* To the client the job instance and its indications only advance.
Job == INSTANCE CimJob WITH state <- inst
ImplementsJob == Job!Spec

(***************************************************************************)
(* What the code's own words say, and the code does not do.                *)
(***************************************************************************)

\* "Domain ... did shutdown" (line 1132): a job that restarts the guest goes on
\* to undefine it only when it is off.
ShutdownMeansOff ==
    \A j \in Jobs :
        job[j].pc = "undefine" /\ job[j].type = "restart"
            => guest[Local].run = "off"

\* OperatingStatus is MIGRATING while the guest migrates (line 221 of
\* Virt_ComputerSystem.c reads the flag migrate_do sets).
MigratingShown ==
    \A j \in Jobs :
        job[j].pc = "undefine" /\ Present(Local)
            => record = [of |-> "mine", migrating |-> TRUE]
=============================================================================
