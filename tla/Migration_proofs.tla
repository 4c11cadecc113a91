-------------------------- MODULE Migration_proofs --------------------------
(***************************************************************************)
(* Theorems about Migration, for every set of jobs and hosts, every bound  *)
(* and every choice of the calls that may fail.                            *)
(***************************************************************************)
EXTENDS Migration, FiniteSetTheorems, TLAPS

\* Every job past the request knows what it was asked for.
Requested ==
    \A j \in Jobs : job[j].pc # "none" => job[j].type \in Types

\* A job that has not failed comes to the end only past its define.
Inv ==
    /\ TypeOK
    /\ Requested
    /\ DefinitionKept
    /\ \A j \in Jobs :
         /\ job[j].pc \in {"boot", "clear", "finish", "goodbye", "done"}
         /\ job[j].ok /\ job[j].host # Local
         => guest[job[j].host].def

LEMMA InitInv == Init => Inv
  <1> SUFFICES ASSUME Init PROVE Inv
    OBVIOUS
  <1> USE HostsAssumption, TypesAssumption, BoundsAssumption DEF Init
  <1>1. job \in [Jobs -> JobType]
    BY DEF NoJob, JobType, PCs, Ended
  <1>2. guest \in [Hosts -> [run : {"off", "on", "paused"}, def : BOOLEAN]]
    OBVIOUS
  <1>3. other \subseteq {h \in Hosts : ~Present(h)}
    OBVIOUS
  <1>4. /\ record \in [of : {None, "mine", "other"}, migrating : BOOLEAN]
        /\ inst \in [Jobs -> {"absent", "starting", "running", "complete"}]
        /\ told \in [Jobs -> {"nothing", "created", "modified", "deleted"}]
        /\ ops \in 0 .. MaxOps
    OBVIOUS
  <1>5. exposed \in BOOLEAN
    OBVIOUS
  <1>6. durable \in BOOLEAN
    <2>1. durable = \E h \in Hosts : guest[h].def
      OBVIOUS
    <2> QED
      BY <2>1, Zenon
  <1>7. TypeOK
    BY <1>1, <1>2, <1>3, <1>4, <1>5, <1>6 DEF TypeOK
  <1>8. Requested
    BY DEF Requested, NoJob
  <1>9. DefinitionKept
    BY DEF DefinitionKept
  <1> QED
    BY <1>7, <1>8, <1>9 DEF Inv, NoJob

(***************************************************************************)
(* Every step but an undefine keeps what is defined, and every step        *)
(* replaces the record of at most one job.                                 *)
(***************************************************************************)
Final == {"boot", "clear", "finish", "goodbye", "done"}
GuestType == [run : {"off", "on", "paused"}, def : BOOLEAN]
RestTyped ==
    /\ record' \in [of : {None, "mine", "other"}, migrating : BOOLEAN]
    /\ inst' \in [Jobs -> {"absent", "starting", "running", "complete"}]
    /\ told' \in [Jobs -> {"nothing", "created", "modified", "deleted"}]
    /\ ops' \in 0 .. MaxOps
GuestsTyped ==
    /\ guest' \in [Hosts -> GuestType]
    /\ other' \subseteq {h \in Hosts : guest'[h] = Nowhere}
DefsKept == \A h \in Hosts : guest[h].def => guest'[h].def

LEMMA JobMoves ==
  ASSUME Inv, NEW j \in Jobs, NEW r \in JobType,
         job' = [job EXCEPT ![j] = r],
         r.pc # "none" => r.type \in Types,
         r.pc \in Final /\ r.ok /\ r.host # Local => guest'[r.host].def,
         RestTyped, GuestsTyped, DefsKept,
         exposed' \in BOOLEAN, durable' \in BOOLEAN,
         durable' => durable \/ \E h \in Hosts : guest'[h].def,
         job[j].pc = "define" => ~durable' \/ \E h \in Hosts : guest'[h].def
  PROVE  Inv'
  <1>1. job' \in [Jobs -> JobType]
    BY DEF Inv, TypeOK
  <1>2. other' \subseteq {h \in Hosts : ~Present(h)'}
    BY DEF GuestsTyped, Present, Nowhere
  <1>3. TypeOK'
    BY <1>1, <1>2 DEF TypeOK, RestTyped, GuestsTyped, GuestType
  <1>4. Requested'
    BY DEF Inv, Requested, TypeOK
  <1>5. DefinitionKept'
    <2>1. CASE durable /\ ~\E h \in Hosts : guest'[h].def
      <3>1. PICK o \in Jobs : job[o].pc = "define"
        BY <2>1 DEF Inv, DefinitionKept, DefsKept
      <3>2. CASE o = j
        BY <2>1, <3>1, <3>2 DEF DefinitionKept
      <3>3. CASE o # j
        <4>1. job'[o] = job[o]
          BY <3>3 DEF Inv, TypeOK
        <4> QED
          BY <3>1, <4>1 DEF DefinitionKept
      <3> QED
        BY <3>2, <3>3
    <2> QED
      BY <2>1 DEF DefinitionKept
  <1>6. \A o \in Jobs : job'[o].pc \in Final /\ job'[o].ok /\ job'[o].host # Local
                          => guest'[job'[o].host].def
    <2> SUFFICES ASSUME NEW o \in Jobs, job'[o].pc \in Final, job'[o].ok,
                        job'[o].host # Local
                 PROVE  guest'[job'[o].host].def
      OBVIOUS
    <2>1. CASE o = j
      BY <2>1 DEF Inv, TypeOK
    <2>2. CASE o # j
      <3>1. job'[o] = job[o] /\ job[o].host \in Hosts
        BY <2>2 DEF Inv, TypeOK, JobType
      <3>2. guest[job[o].host].def
        BY <3>1 DEF Inv, Final
      <3> QED
        BY <3>1, <3>2 DEF DefsKept
    <2> QED
      BY <2>1, <2>2
  <1> QED
    BY <1>3, <1>4, <1>5, <1>6 DEF Inv, Final

\* What a step that leaves the guests alone has to say of them.
LEMMA GuestsAlone ==
  ASSUME Inv, UNCHANGED <<guest, other, ops>>
  PROVE  /\ GuestsTyped /\ DefsKept
         /\ ops' \in 0 .. MaxOps
         /\ record \in [of : {None, "mine", "other"}, migrating : BOOLEAN]
         /\ inst \in [Jobs -> {"absent", "starting", "running", "complete"}]
         /\ told \in [Jobs -> {"nothing", "created", "modified", "deleted"}]
  BY DEF Inv, TypeOK, GuestsTyped, DefsKept, GuestType, Present

LEMMA GotoKeepsInv ==
  ASSUME Inv, NEW j \in Jobs, NEW a, NEW b \in PCs \ {"none"}, Goto(j, a, b),
         a # "none",
         b \in Final => a \in Final \/ guest'[job[j].host].def,
         a = "define" => \E h \in Hosts : guest'[h].def,
         RestTyped, GuestsTyped, DefsKept,
         exposed' \in BOOLEAN, durable' \in BOOLEAN,
         durable' => durable \/ \E h \in Hosts : guest'[h].def
  PROVE  Inv'
  <1> DEFINE r == [job[j] EXCEPT !.pc = b]
  <1>1. /\ job[j] \in JobType /\ job[j].host \in Hosts
        /\ job[j].pc # "none" => job[j].type \in Types
        /\ job[j].pc \in Final /\ job[j].ok /\ job[j].host # Local
             => guest[job[j].host].def
    BY DEF Inv, TypeOK, Requested, Final, JobType
  <1>2. /\ r \in JobType /\ r.pc = b /\ r.type = job[j].type
        /\ r.ok = job[j].ok /\ r.host = job[j].host
    BY <1>1 DEF JobType
  <1>3. job[j].pc = a /\ job' = [job EXCEPT ![j] = r]
    BY DEF Goto
  <1> HIDE DEF r
  <1>4. r.pc \in Final /\ r.ok /\ r.host # Local => guest'[r.host].def
    BY <1>1, <1>2, <1>3 DEF DefsKept
  <1> QED
    BY <1>1, <1>2, <1>3, <1>4, JobMoves

LEMMA FailKeepsInv ==
  ASSUME Inv, NEW j \in Jobs, NEW a, Fail(j, a), a # "none",
         a = "define" => ~durable',
         durable' = durable \/ durable' = FALSE,
         UNCHANGED <<guest, record, inst, told, world>>
  PROVE  Inv'
  <1> DEFINE r == [job[j] EXCEPT !.pc = "clear", !.ok = FALSE]
  <1>1. /\ job[j] \in JobType
        /\ job[j].pc # "none" => job[j].type \in Types
    BY DEF Inv, TypeOK, Requested
  <1>2. r \in JobType /\ r.pc = "clear" /\ r.type = job[j].type /\ ~r.ok
    BY <1>1 DEF JobType, PCs
  <1>3. job[j].pc = a /\ job' = [job EXCEPT ![j] = r]
    BY DEF Fail
  <1>4. RestTyped /\ GuestsTyped /\ DefsKept
    BY GuestsAlone DEF world, RestTyped
  <1>5. exposed' \in BOOLEAN
    BY DEF Inv, TypeOK, world
  <1>6. durable' \in BOOLEAN
    BY DEF Inv, TypeOK
  <1>7. durable' => durable
    OBVIOUS
  <1>8. job[j].pc = "define" => ~durable'
    BY <1>3
  <1>9. (r.pc # "none" => r.type \in Types) /\ ~r.ok
    BY <1>1, <1>2, <1>3
  <1> HIDE DEF r
  <1> QED
    BY <1>2, <1>3, <1>4, <1>5, <1>6, <1>7, <1>8, <1>9, JobMoves

LEMMA HandlerKeepsInv ==
  ASSUME Inv, NEW j \in Jobs, Handler(j)
  PROVE  Inv'
  <1> USE DEF world, PCs, Ended, Final
  <1>1. UNCHANGED <<guest, other, ops, durable>>
    BY DEF Handler, Request, RequestLost, SetFlag, Spawn, SpawnFails
  <1>2. /\ GuestsTyped /\ DefsKept /\ ops' \in 0 .. MaxOps
        /\ record \in [of : {None, "mine", "other"}, migrating : BOOLEAN]
        /\ inst \in [Jobs -> {"absent", "starting", "running", "complete"}]
        /\ told \in [Jobs -> {"nothing", "created", "modified", "deleted"}]
    BY <1>1, GuestsAlone
  <1>3. exposed \in BOOLEAN /\ durable \in BOOLEAN
    BY DEF Inv, TypeOK
  <1>4. CASE Request(j)
    <2>1. PICK h \in Hosts, type \in Types :
             /\ job' = [job EXCEPT ![j] = [NoJob EXCEPT !.pc = "created",
                                            !.host = h, !.type = type]]
             /\ exposed' = (exposed \/ \E o \in Jobs :
                              Alive(o) /\ "restart" \in {type, job[o].type})
      BY <1>4 DEF Request
    <2>2. exposed' \in BOOLEAN
      BY <1>3, <2>1, Zenon
    <2> DEFINE r == [NoJob EXCEPT !.pc = "created", !.host = h, !.type = type]
    <2>3. r \in JobType /\ r.type \in Types /\ r.pc = "created"
      <3>1. 0 \in 0 .. MaxTries
        BY BoundsAssumption
      <3>2. NoJob \in JobType
        BY <3>1, HostsAssumption DEF NoJob, JobType
      <3> QED
        BY <3>2 DEF JobType
    <2>4. job' = [job EXCEPT ![j] = r]
      BY <2>1
    <2>5. /\ job[j].pc = "none"
          /\ inst' = [inst EXCEPT ![j] = "starting"]
          /\ UNCHANGED <<record, told>>
      BY <1>4 DEF Request
    <2>6. RestTyped
      BY <1>2, <2>5 DEF RestTyped
    <2> HIDE DEF r
    <2>7. durable' \in BOOLEAN /\ (durable' => durable)
      BY <1>1, <1>3
    <2>8. job[j].pc # "define" /\ r.pc \notin Final
      BY <2>3, <2>5
    <2> QED
      BY <1>2, <2>2, <2>3, <2>4, <2>6, <2>7, <2>8, JobMoves
  <1>5. CASE RequestLost(j)
    BY <1>1, <1>2, <1>3, <1>5, GotoKeepsInv DEF RequestLost, RestTyped
  <1>6. CASE SetFlag(j)
    <2>1. \/ record' = record
          \/ record' = [of |-> "mine", migrating |-> TRUE]
          \/ record' = [of |-> "other", migrating |-> TRUE]
      BY <1>6, Zenon DEF SetFlag
    <2>2. /\ [of |-> "mine", migrating |-> TRUE]
               \in [of : {None, "mine", "other"}, migrating : BOOLEAN]
          /\ [of |-> "other", migrating |-> TRUE]
               \in [of : {None, "mine", "other"}, migrating : BOOLEAN]
      OBVIOUS
    <2>3. record' \in [of : {None, "mine", "other"}, migrating : BOOLEAN]
      BY <1>2, <2>1, <2>2, Zenon
    <2>4. RestTyped /\ Goto(j, "created", "spawn") /\ UNCHANGED exposed
      BY <1>2, <1>6, <2>3 DEF RestTyped, SetFlag
    <2> QED
      BY <1>1, <1>2, <1>3, <2>4, GotoKeepsInv
  <1>7. CASE Spawn(j) \/ SpawnFails(j)
    BY <1>1, <1>2, <1>3, <1>7, GotoKeepsInv DEF Spawn, SpawnFails, RestTyped
  <1> QED
    BY <1>4, <1>5, <1>6, <1>7 DEF Handler

Quiet == UNCHANGED <<guest, record, inst, told, durable, world>>

\* A step that counts, or notes that the domain was found.
LEMMA RecordKeepsInv ==
  ASSUME Inv, NEW j \in Jobs, NEW r \in JobType,
         job' = [job EXCEPT ![j] = r],
         r.pc \notin Final, r.pc # "none", job[j].pc \notin {"none", "define"},
         r.type = job[j].type, Quiet
  PROVE  Inv'
  <1>1. RestTyped /\ GuestsTyped /\ DefsKept
    BY GuestsAlone DEF world, RestTyped, Quiet
  <1>2. job[j].type \in Types
    BY DEF Inv, Requested
  <1>3. exposed' \in BOOLEAN
    BY DEF Inv, TypeOK, world, Quiet
  <1>4. durable' \in BOOLEAN /\ (durable' => durable)
    BY DEF Inv, TypeOK, Quiet
  <1> QED
    BY <1>1, <1>2, <1>3, <1>4, JobMoves

\* A step that changes how the guest runs on a host, or defines it there.
LEMMA GuestChanges ==
  ASSUME Inv, NEW g \in [Hosts -> GuestType], guest' = g, UNCHANGED other,
         \A h \in Hosts : guest[h].def => g[h].def,
         \A h \in other : g[h] = Nowhere
  PROVE  GuestsTyped /\ DefsKept
  BY DEF GuestsTyped, DefsKept, Inv, TypeOK

LEMMA DefinedGuest ==
  ASSUME NEW x \in GuestType
  PROVE  [x EXCEPT !.def = TRUE] \in GuestType /\ [x EXCEPT !.def = TRUE].def
  BY DEF GuestType

LEMMA ThreadKeepsInv ==
  ASSUME Inv, NEW j \in Jobs, Thread(j)
  PROVE  Inv'
  <1> USE TypesAssumption DEF world, PCs, Ended, Final
  <1>1. UNCHANGED other /\ UNCHANGED ops
    BY DEF Thread, MarkRunning, NotFound, Lookup, RemoteExists, RemoteFree,
           XmlFails, Prepare, NotOffline, EnsureOffline, MigrateFails, Migrate,
           ShutdownFails, Shutdown, StillOnline, ShutdownTimesOut, WentDown,
           RelookupFails, Undefine, UndefineFails, DefineFails, Define,
           BootFails, Boot, ClearFlag, Finish, RaiseDeleted
  <1>2. exposed \in BOOLEAN /\ durable \in BOOLEAN
    BY DEF Inv, TypeOK
  <1>3. UNCHANGED guest => GuestsTyped /\ DefsKept
    BY <1>1, GuestsAlone
  <1>4. /\ ops' \in 0 .. MaxOps
        /\ record \in [of : {None, "mine", "other"}, migrating : BOOLEAN]
        /\ inst \in [Jobs -> {"absent", "starting", "running", "complete"}]
        /\ told \in [Jobs -> {"nothing", "created", "modified", "deleted"}]
    BY <1>1 DEF Inv, TypeOK
  <1>5. /\ job \in [Jobs -> JobType] /\ job[j] \in JobType
        /\ job[j].pc # "none" => job[j].type \in Types
    BY DEF Inv, TypeOK, Requested
  <1>6. /\ guest \in [Hosts -> GuestType]
        /\ \A h \in other : h \in Hosts /\ guest[h] = Nowhere
    BY DEF Inv, TypeOK, GuestType, Present
  <1>7. job[j].host \in Hosts /\ Local \in Hosts
    BY <1>5, HostsAssumption DEF JobType
  <1>8. CASE NotFound(j)
    BY <1>8, FailKeepsInv DEF NotFound
  <1>9. CASE RemoteExists(j)
    BY <1>9, FailKeepsInv DEF RemoteExists
  <1>10. CASE XmlFails(j)
    BY <1>10, FailKeepsInv DEF XmlFails
  <1>11. CASE NotOffline(j)
    BY <1>11, FailKeepsInv DEF NotOffline
  <1>12. CASE MigrateFails(j)
    BY <1>12, FailKeepsInv DEF MigrateFails
  <1>13. CASE ShutdownFails(j)
    BY <1>13, FailKeepsInv DEF ShutdownFails
  <1>14. CASE ShutdownTimesOut(j)
    BY <1>14, FailKeepsInv DEF ShutdownTimesOut
  <1>15. CASE DefineFails(j)
    BY <1>15, FailKeepsInv DEF DefineFails
  <1>16. CASE BootFails(j)
    BY <1>16, FailKeepsInv DEF BootFails
  <1>17. CASE RemoteFree(j)
    BY <1>2, <1>3, <1>4, <1>17, GotoKeepsInv DEF RemoteFree, RestTyped
  <1>18. CASE EnsureOffline(j)
    BY <1>2, <1>3, <1>4, <1>18, GotoKeepsInv DEF EnsureOffline, RestTyped
  <1>19. CASE RelookupFails(j)
    BY <1>2, <1>3, <1>4, <1>19, GotoKeepsInv DEF RelookupFails, RestTyped
  <1>20. CASE Prepare(j)
    <2> DEFINE b == job[j].type
    <2>1. Goto(j, "xml", b) /\ Quiet
      BY <1>20 DEF Prepare, Quiet
    <2>2. b \in Types
      BY <1>5, <2>1 DEF Goto
    <2>3. b \in PCs \ {"none"} /\ b \notin Final
      BY <2>2
    <2>4. RestTyped /\ GuestsTyped /\ DefsKept
      BY <1>3, <1>4, <2>1 DEF Quiet, RestTyped
    <2>5. exposed' \in BOOLEAN /\ durable' \in BOOLEAN /\ durable' = durable
      BY <1>2, <2>1 DEF Quiet
    <2> HIDE DEF b, PCs, Final
    <2> QED
      BY <2>1, <2>3, <2>4, <2>5, GotoKeepsInv
  <1>21. CASE Lookup(j)
    <2> DEFINE r == [job[j] EXCEPT !.pc = "remote", !.dom = TRUE]
    <2>1. r \in JobType /\ r.pc \in PCs \ (Final \cup {"none"})
             /\ r.type = job[j].type
      BY <1>5, <1>21, BoundsAssumption DEF Lookup, JobType
    <2>2. job' = [job EXCEPT ![j] = r] /\ job[j].pc \notin {"none", "define"}
      BY <1>21 DEF Lookup, Again
    <2>3. Quiet
      BY <1>21 DEF Lookup, Quiet
    <2> HIDE DEF r
    <2> QED
      BY <2>1, <2>2, <2>3, RecordKeepsInv
  <1>22. CASE StillOnline(j)
    <2> DEFINE r == [job[j] EXCEPT !.tries = job[j].tries + 1]
    <2>1. r \in JobType /\ r.pc \in PCs \ (Final \cup {"none"})
             /\ r.type = job[j].type
      BY <1>5, <1>22, BoundsAssumption DEF StillOnline, JobType
    <2>2. job' = [job EXCEPT ![j] = r] /\ job[j].pc \notin {"none", "define"}
      BY <1>22 DEF StillOnline, Again
    <2>3. Quiet
      BY <1>22 DEF StillOnline, Quiet
    <2> HIDE DEF r
    <2> QED
      BY <2>1, <2>2, <2>3, RecordKeepsInv
  <1>23. CASE WentDown(j)
    <2> DEFINE r == [job[j] EXCEPT !.pc = "undefine", !.tries = 0]
    <2> 0 \in 0 .. MaxTries
      BY BoundsAssumption
    <2>1. r \in JobType /\ r.pc \in PCs \ (Final \cup {"none"})
             /\ r.type = job[j].type
      BY <1>5, <1>23, BoundsAssumption DEF WentDown, JobType
    <2>2. job' = [job EXCEPT ![j] = r] /\ job[j].pc \notin {"none", "define"}
      BY <1>23 DEF WentDown, Again
    <2>3. Quiet
      BY <1>23 DEF WentDown, Quiet
    <2> HIDE DEF r
    <2> QED
      BY <2>1, <2>2, <2>3, RecordKeepsInv
  <1>24. CASE UndefineFails(j)
    <2>1. CASE job[j].tries + 1 < MaxTries
      <3> DEFINE r == [job[j] EXCEPT !.tries = job[j].tries + 1]
      <3>1. r \in JobType /\ r.pc = "undefine" /\ r.type = job[j].type
        BY <1>5, <2>1, <1>24, BoundsAssumption DEF UndefineFails, JobType
      <3>2. job' = [job EXCEPT ![j] = r] /\ job[j].pc = "undefine" /\ Quiet
        BY <2>1, <1>24 DEF UndefineFails, Quiet
      <3> HIDE DEF r
      <3> QED
        BY <3>1, <3>2, RecordKeepsInv
    <2>2. CASE ~(job[j].tries + 1 < MaxTries)
      <3> DEFINE r == [job[j] EXCEPT !.pc = "define", !.tries = 0]
      <3> 0 \in 0 .. MaxTries
        BY BoundsAssumption
      <3>1. r \in JobType /\ r.pc = "define" /\ r.type = job[j].type
        BY <1>5 DEF JobType
      <3>2. job' = [job EXCEPT ![j] = r] /\ job[j].pc = "undefine" /\ Quiet
        BY <2>2, <1>24 DEF UndefineFails, Quiet
      <3> HIDE DEF r
      <3> QED
        BY <3>1, <3>2, RecordKeepsInv
    <2> QED
      BY <2>1, <2>2
  <1>25. CASE Shutdown(j)
    <2>1. exposed' = (exposed \/ guest[Local].run = "paused")
      BY <1>25 DEF Shutdown
    <2>2. exposed' \in BOOLEAN
      BY <1>2, <2>1, Zenon
    <2>3. /\ Goto(j, "restart", "poll")
          /\ UNCHANGED <<guest, record, inst, told, durable>>
      BY <1>25 DEF Shutdown
    <2> QED
      BY <1>2, <1>3, <1>4, <2>2, <2>3, GotoKeepsInv DEF RestTyped
  <1>26. CASE MarkRunning(j)
    <2>1. /\ Goto(j, "start", "lookup") /\ SetState(j, "running")
          /\ UNCHANGED <<guest, record, durable, exposed>>
      BY <1>26 DEF MarkRunning
    <2>2. /\ inst' \in [Jobs -> {"absent", "starting", "running", "complete"}]
          /\ told' \in [Jobs -> {"nothing", "created", "modified", "deleted"}]
      BY <1>4, <2>1 DEF SetState
    <2> QED
      BY <1>2, <1>3, <1>4, <2>1, <2>2, GotoKeepsInv DEF RestTyped
  <1>27. CASE Finish(j)
    <2>1. /\ Goto(j, "finish", "goodbye") /\ SetState(j, "complete")
          /\ UNCHANGED <<guest, record, durable, exposed>>
      BY <1>27 DEF Finish
    <2>2. /\ inst' \in [Jobs -> {"absent", "starting", "running", "complete"}]
          /\ told' \in [Jobs -> {"nothing", "created", "modified", "deleted"}]
      BY <1>4, <2>1 DEF SetState
    <2> QED
      BY <1>2, <1>3, <1>4, <2>1, <2>2, GotoKeepsInv DEF RestTyped
  <1>28. CASE ClearFlag(j)
    <2>1. /\ Goto(j, "clear", "finish")
          /\ record' = record \/ record' = [of |-> "mine", migrating |-> FALSE]
          /\ UNCHANGED <<guest, inst, told, durable, exposed>>
      BY <1>28, Zenon DEF ClearFlag
    <2>2. [of |-> "mine", migrating |-> FALSE]
            \in [of : {None, "mine", "other"}, migrating : BOOLEAN]
      OBVIOUS
    <2>3. record' \in [of : {None, "mine", "other"}, migrating : BOOLEAN]
      BY <1>4, <2>1, <2>2, Zenon
    <2> QED
      BY <1>2, <1>3, <1>4, <2>1, <2>3, GotoKeepsInv DEF RestTyped
  <1>29. CASE RaiseDeleted(j)
    <2>1. /\ Goto(j, "goodbye", "done")
          /\ told' = told \/ told' = [told EXCEPT ![j] = "deleted"]
          /\ UNCHANGED <<guest, record, inst, durable, exposed>>
      BY <1>29 DEF RaiseDeleted
    <2> QED
      BY <1>2, <1>3, <1>4, <2>1, GotoKeepsInv DEF RestTyped
  <1>30. CASE Migrate(j)
    <2>1. /\ Goto(j, "live", "undefine") \/ Goto(j, "resume", "undefine")
          /\ CanMove(job[j].host)
          /\ guest' = [guest EXCEPT ![Local].run = "off",
                                    ![job[j].host].run = guest[Local].run]
          /\ UNCHANGED <<record, inst, told, durable, exposed>>
      BY <1>30 DEF Migrate
    <2> DEFINE g == [guest EXCEPT ![Local].run = "off",
                                  ![job[j].host].run = guest[Local].run]
    <2>2. /\ g \in [Hosts -> GuestType]
          /\ \A h \in Hosts : guest[h].def => g[h].def
      BY <1>6, <1>7 DEF GuestType
    <2>3. \A h \in other : g[h] = Nowhere
      BY <1>6, <1>7, <2>1 DEF CanMove, Nowhere
    <2>4. guest' = g
      BY <2>1
    <2> HIDE DEF g
    <2>5. GuestsTyped /\ DefsKept
      BY <1>1, <2>2, <2>3, <2>4, GuestChanges
    <2> QED
      BY <1>2, <1>4, <2>1, <2>5, GotoKeepsInv DEF RestTyped
  <1>31. CASE Define(j)
    <2> DEFINE d == job[j].host
               g == [guest EXCEPT ![d].def = TRUE]
               b == IF job[j].type = "restart" THEN "boot" ELSE "clear"
    <2>1. /\ Goto(j, "define", b) /\ d \notin other
          /\ guest' = g /\ durable' = TRUE
          /\ UNCHANGED <<record, inst, told, exposed>>
      BY <1>31 DEF Define
    <2>2. /\ g \in [Hosts -> GuestType]
          /\ \A h \in Hosts : guest[h].def => g[h].def
          /\ g[d].def
      <3>1. [guest[d] EXCEPT !.def = TRUE] \in GuestType /\ [guest[d] EXCEPT !.def = TRUE].def
        BY <1>6, <1>7, DefinedGuest
      <3>2. g[d] = [guest[d] EXCEPT !.def = TRUE] /\ \A h \in Hosts \ {d} : g[h] = guest[h]
        BY <1>6, <1>7
      <3>3. g \in [Hosts -> GuestType]
        BY <1>6, <1>7, <3>1
      <3> HIDE DEF g
      <3> QED
        BY <3>1, <3>2, <3>3, <1>7
    <2>3. \A h \in other : g[h] = Nowhere
      BY <1>6, <2>1
    <2>4. b \in PCs \ {"none"}
      OBVIOUS
    <2>5. d \in Hosts
      BY <1>7
    <2>6. durable' \in BOOLEAN
      BY <2>1
    <2> HIDE DEF g, b
    <2>7. GuestsTyped /\ DefsKept
      BY <1>1, <2>1, <2>2, <2>3, GuestChanges
    <2>8. RestTyped
      BY <1>4, <2>1 DEF RestTyped
    <2> QED
      BY <1>2, <2>1, <2>2, <2>4, <2>5, <2>6, <2>7, <2>8, GotoKeepsInv
  <1>32. CASE Boot(j)
    <2> DEFINE g == [guest EXCEPT ![job[j].host].run = "on"]
    <2>1. /\ Goto(j, "boot", "clear") /\ guest' = g
          /\ guest[job[j].host] = [run |-> "off", def |-> TRUE]
          /\ UNCHANGED <<record, inst, told, durable, exposed>>
      BY <1>32 DEF Boot
    <2>2. /\ g \in [Hosts -> GuestType]
          /\ \A h \in Hosts : guest[h].def => g[h].def
      BY <1>6, <1>7 DEF GuestType
    <2>3. \A h \in other : g[h] = Nowhere
      BY <1>6, <2>1 DEF Nowhere
    <2> HIDE DEF g
    <2>4. GuestsTyped /\ DefsKept
      BY <1>1, <2>1, <2>2, <2>3, GuestChanges
    <2> QED
      BY <1>2, <1>4, <2>1, <2>4, GotoKeepsInv DEF RestTyped
  <1>33. CASE Undefine(j)
    <2> DEFINE g == [guest EXCEPT ![Local].def = FALSE]
               r == [job[j] EXCEPT !.pc = "define"]
    <2>1. /\ job[j].pc = "undefine" /\ job' = [job EXCEPT ![j] = r]
          /\ guest[Local].def /\ guest' = g
          /\ UNCHANGED <<record, inst, told, durable, exposed>>
      BY <1>33 DEF Undefine, Goto
    <2>2. /\ r \in JobType /\ r.pc = "define" /\ r.type = job[j].type
          /\ r.type \in Types
      BY <1>5, <2>1 DEF JobType
    <2>3. g \in [Hosts -> GuestType] /\ \A h \in Hosts \ {Local} : g[h] = guest[h]
      BY <1>6, <1>7 DEF GuestType
    <2>4. Local \notin other
      BY <1>6, <2>1 DEF Nowhere
    <2> HIDE DEF g, r
    <2>5. job' \in [Jobs -> JobType] /\ job'[j] = r
      BY <1>5, <2>1, <2>2
    <2>6. TypeOK'
      <3>1. guest' \in [Hosts -> [run : {"off", "on", "paused"}, def : BOOLEAN]]
        BY <2>1, <2>3 DEF GuestType
      <3>2. other' \subseteq {h \in Hosts : ~Present(h)'}
        BY <1>1, <1>6, <2>1, <2>3, <2>4 DEF Present
      <3>3. exposed' \in BOOLEAN /\ durable' \in BOOLEAN
        BY <1>2, <2>1
      <3> QED
        BY <1>4, <2>1, <2>5, <3>1, <3>2, <3>3 DEF TypeOK
    <2>7. Requested'
      BY <1>5, <2>1, <2>2 DEF Requested, Inv
    <2>8. DefinitionKept'
      BY <2>2, <2>5 DEF DefinitionKept
    <2>9. \A o \in Jobs : job'[o].pc \in Final /\ job'[o].ok /\ job'[o].host # Local
                            => guest'[job'[o].host].def
      <3> SUFFICES ASSUME NEW o \in Jobs, job'[o].pc \in Final, job'[o].ok,
                          job'[o].host # Local
                   PROVE  guest'[job'[o].host].def
        OBVIOUS
      <3>1. o # j
        BY <2>2, <2>5
      <3>2. job'[o] = job[o] /\ job[o].host \in Hosts
        BY <1>5, <2>1, <3>1 DEF JobType
      <3>3. guest[job[o].host].def
        BY <3>2 DEF Inv
      <3> QED
        BY <2>1, <2>3, <3>2, <3>3
    <2> QED
      BY <2>6, <2>7, <2>8, <2>9 DEF Inv
  <1> QED
    BY <1>8, <1>9, <1>10, <1>11, <1>12, <1>13, <1>14, <1>15, <1>16, <1>17, <1>18, <1>19, <1>20, <1>21, <1>22, <1>23, <1>24, <1>25, <1>26, <1>27, <1>28, <1>29, <1>30, <1>31, <1>32, <1>33 DEF Thread

LEMMA OutsideKeepsInv ==
  ASSUME Inv, Outside
  PROVE  Inv'
  <1>1. PICK h \in Hosts : Start(h) \/ Pause(h) \/ OtherDefined(h) \/ GuestStops(h)
    BY DEF Outside
  <1>2. /\ UNCHANGED <<record, job, inst, told, durable>>
        /\ ops' = ops \/ (ops < MaxOps /\ ops' = ops + 1)
        /\ exposed' = exposed \/ exposed' = TRUE
    BY <1>1 DEF Start, Pause, OtherDefined, GuestStops, Operate
  <1>3. /\ guest \in [Hosts -> GuestType]
        /\ \A o \in other : o \in Hosts /\ guest[o] = Nowhere
    BY DEF Inv, TypeOK, GuestType, Present
  <1>4. /\ guest' \in [Hosts -> GuestType]
        /\ \A x \in Hosts : guest'[x].def = guest[x].def
        /\ other' \subseteq {x \in Hosts : guest'[x] = Nowhere}
    <2>1. CASE OtherDefined(h)
      BY <1>3, <2>1 DEF OtherDefined, Taken, Present
    <2>2. CASE Start(h)
      BY <1>3, <2>2 DEF Start, GuestType, Nowhere
    <2>3. CASE Pause(h)
      BY <1>3, <2>3 DEF Pause, GuestType, Nowhere
    <2>4. CASE GuestStops(h)
      BY <1>3, <2>4 DEF GuestStops, GuestType, Nowhere
    <2> QED
      BY <1>1, <2>1, <2>2, <2>3, <2>4
  <1>5. TypeOK'
    <2>1. ops' \in 0 .. MaxOps
      BY <1>2, BoundsAssumption DEF Inv, TypeOK
    <2>2. exposed' \in BOOLEAN /\ durable' \in BOOLEAN
      BY <1>2 DEF Inv, TypeOK
    <2>3. /\ guest' \in [Hosts -> [run : {"off", "on", "paused"}, def : BOOLEAN]]
          /\ other' \subseteq {x \in Hosts : ~Present(x)'}
      BY <1>4 DEF GuestType, Present, Nowhere
    <2>4. /\ record' \in [of : {None, "mine", "other"}, migrating : BOOLEAN]
          /\ job' \in [Jobs -> JobType]
          /\ inst' \in [Jobs -> {"absent", "starting", "running", "complete"}]
          /\ told' \in [Jobs -> {"nothing", "created", "modified", "deleted"}]
      BY <1>2 DEF Inv, TypeOK
    <2> QED
      BY <2>1, <2>2, <2>3, <2>4 DEF TypeOK
  <1>6. Requested'
    BY <1>2 DEF Inv, Requested
  <1>7. DefinitionKept'
    BY <1>2, <1>4 DEF Inv, DefinitionKept
  <1>8. \A o \in Jobs : job'[o].pc \in Final /\ job'[o].ok /\ job'[o].host # Local
                          => guest'[job'[o].host].def
    <2>1. \A o \in Jobs : job[o].host \in Hosts
      BY DEF Inv, TypeOK, JobType
    <2> QED
      BY <1>2, <1>4, <2>1 DEF Inv, Final
  <1> QED
    BY <1>5, <1>6, <1>7, <1>8 DEF Inv, Final

\* The invariant holds of every behaviour of the service and its surroundings.
THEOREM Invariance == Spec => []Inv
  <1>1. Inv /\ [Next]_vars => Inv'
    <2> SUFFICES ASSUME Inv, [Next]_vars PROVE Inv'
      OBVIOUS
    <2>1. CASE Next
      BY <2>1, HandlerKeepsInv, ThreadKeepsInv, OutsideKeepsInv DEF Next
    <2>2. CASE UNCHANGED vars
      BY <2>2 DEF vars, Inv, TypeOK, Requested, DefinitionKept, Present
    <2> QED
      BY <2>1, <2>2
  <1> QED
    BY <1>1, InitInv, PTL DEF Spec

\* Every variable keeps its type, the tries of the polling loops stay bounded,
\* and no host ever has two guests of the name.
THEOREM TypesCorrect == Spec => []TypeOK
  <1>1. Inv => TypeOK
    BY DEF Inv
  <1> QED
    BY <1>1, Invariance, PTL

\* However jobs, operators and failures interleave, a guest that is defined
\* stays defined somewhere or is in the hands of a job, unless a define fails.
THEOREM DefinitionNeverLost == Spec => []DefinitionKept
  <1>1. Inv => DefinitionKept
    BY DEF Inv
  <1> QED
    BY <1>1, Invariance, PTL

\* A job that reports success has left the guest defined at its destination.
THEOREM SuccessIsThere == Spec => []SuccessMeansThere
  <1>1. Inv => SuccessMeansThere
    BY DEF Inv, SuccessMeansThere
  <1> QED
    BY <1>1, Invariance, PTL

(***************************************************************************)
(* The job instance and its indications, as a client sees them.            *)
(***************************************************************************)
Early == {"none", "created", "spawn", "start", "stuck"}
Mid == PCs \ (Early \cup {"goodbye", "done"})

\* Where a thread is bounds what the CIMOM has been told of its job.
Shape(pc, state, kind) ==
    /\ pc = "none" <=> state = "absent"
    /\ pc \in {"none", "created"} => kind = "nothing"
    /\ pc \in {"spawn", "start", "stuck"} => kind \in {"nothing", "created"}
    /\ pc \in Early \ {"none"} => state = "starting"
    /\ pc \in Mid => state \in {"starting", "running"}
    /\ pc \in Mid \cup {"goodbye"} => kind \in {"nothing", "created", "modified"}
Shapes == \A j \in Jobs : Shape(job[j].pc, inst[j], told[j])

LEMMA ThreadInMid ==
  ASSUME Inv, NEW j \in Jobs, Thread(j)
  PROVE  /\ \A o \in Jobs \ {j} : job'[o] = job[o]
         /\ \/ MarkRunning(j) \/ Finish(j) \/ RaiseDeleted(j)
            \/ /\ job[j].pc \in Mid /\ job'[j].pc \in Mid
               /\ UNCHANGED <<inst, told>>
  <1> USE DEF Goto, Fail, PCs, Ended, Early, Mid
  <1> /\ job \in [Jobs -> JobType] /\ job[j].pc \in PCs
      /\ job[j].pc # "none" => job[j].type \in Types
    BY DEF Inv, TypeOK, Requested, JobType
  <1>1. CASE MarkRunning(j) \/ Finish(j) \/ RaiseDeleted(j)
    BY <1>1 DEF MarkRunning, Finish, RaiseDeleted
  <1>2. CASE NotFound(j)
    BY <1>2 DEF NotFound
  <1>3. CASE RemoteExists(j)
    BY <1>3 DEF RemoteExists
  <1>4. CASE XmlFails(j)
    BY <1>4 DEF XmlFails
  <1>5. CASE NotOffline(j)
    BY <1>5 DEF NotOffline
  <1>6. CASE MigrateFails(j)
    <2>1. /\ job[j].pc \in {"live", "resume"} /\ UNCHANGED <<inst, told>>
          /\ job' = [job EXCEPT ![j].pc = "clear", ![j].ok = FALSE]
      BY <1>6 DEF MigrateFails
    <2>2. job'[j].pc = "clear" /\ \A o \in Jobs \ {j} : job'[o] = job[o]
      BY <2>1 DEF JobType
    <2> QED
      BY <2>1, <2>2
  <1>7. CASE ShutdownFails(j)
    BY <1>7 DEF ShutdownFails
  <1>8. CASE ShutdownTimesOut(j)
    BY <1>8 DEF ShutdownTimesOut
  <1>9. CASE DefineFails(j)
    BY <1>9 DEF DefineFails
  <1>10. CASE BootFails(j)
    BY <1>10 DEF BootFails
  <1>11. CASE Lookup(j)
    BY <1>11 DEF Lookup
  <1>12. CASE RemoteFree(j)
    BY <1>12 DEF RemoteFree
  <1>13. CASE EnsureOffline(j)
    BY <1>13 DEF EnsureOffline
  <1>14. CASE Migrate(j)
    <2>1. /\ job[j].pc \in {"live", "resume"}
          /\ job' = [job EXCEPT ![j].pc = "undefine"]
      BY <1>14 DEF Migrate
    <2> QED
      BY <2>1, <1>14 DEF Migrate
  <1>15. CASE Shutdown(j)
    BY <1>15 DEF Shutdown
  <1>16. CASE StillOnline(j)
    BY <1>16 DEF StillOnline, Again
  <1>17. CASE WentDown(j)
    BY <1>17 DEF WentDown
  <1>18. CASE RelookupFails(j)
    BY <1>18 DEF RelookupFails
  <1>19. CASE Undefine(j)
    BY <1>19 DEF Undefine
  <1>20. CASE UndefineFails(j)
    BY <1>20 DEF UndefineFails
  <1>21. CASE Define(j)
    BY <1>21 DEF Define
  <1>22. CASE Boot(j)
    BY <1>22 DEF Boot
  <1>23. CASE ClearFlag(j)
    BY <1>23 DEF ClearFlag
  <1>24. CASE Prepare(j)
    BY <1>24, TypesAssumption DEF Prepare
  <1> QED
    BY <1>1, <1>2, <1>3, <1>4, <1>5, <1>6, <1>7, <1>8, <1>9, <1>10, <1>11, <1>12, <1>13, <1>14, <1>15, <1>16, <1>17, <1>18, <1>19, <1>20, <1>21, <1>22, <1>23, <1>24 DEF Thread

LEMMA ThreadIsJobStep ==
  ASSUME Inv, Shapes, NEW j \in Jobs, Thread(j)
  PROVE  Shapes' /\ [Job!Next]_<<inst, told>>
  <1>1. /\ inst \in [Jobs -> {"absent", "starting", "running", "complete"}]
        /\ told \in [Jobs -> {"nothing", "created", "modified", "deleted"}]
        /\ job \in [Jobs -> JobType]
    BY DEF Inv, TypeOK
  <1>2. CASE job[j].pc \in Mid /\ job'[j].pc \in Mid /\ UNCHANGED <<inst, told>>
    <2>1. Shapes'
      BY <1>2, ThreadInMid DEF Shapes, Shape, Early, Mid
    <2> QED
      BY <1>2, <2>1
  <1>3. ASSUME NEW a, NEW b, NEW s,
               \/ a = "start" /\ b = "lookup" /\ s = "running"
               \/ a = "finish" /\ b = "goodbye" /\ s = "complete",
               Goto(j, a, b), SetState(j, s)
        PROVE  Shapes' /\ [Job!Next]_<<inst, told>>
    <2>1. /\ job[j].pc = a /\ job'[j].pc = b
          /\ \A o \in Jobs \ {j} : job'[o] = job[o]
      BY <1>1, <1>3 DEF Goto, JobType
    <2>2. /\ inst[j] \in {"starting", "running"}
          /\ told[j] \in {"nothing", "created", "modified"}
          /\ a = "start" => inst[j] = "starting"
      BY <1>3, <2>1 DEF Shapes, Shape, Early, Mid, PCs
    <2>3. \E t \in {inst[j], s}, k \in {told[j], "modified"} :
             inst' = [inst EXCEPT ![j] = t] /\ told' = [told EXCEPT ![j] = k]
      BY <1>1, <1>3 DEF SetState
    <2>4. Job!Advance(j)
      <3>1. {inst[j], s} \subseteq Job!NextStates[inst[j]]
        BY <1>3, <2>2 DEF Job!NextStates
      <3>2. {told[j], "modified"} \subseteq Job!NextKinds[told[j]]
        BY <2>2 DEF Job!NextKinds
      <3> QED
        BY <2>2, <2>3, <3>1, <3>2 DEF Job!Advance
    <2>5. Shapes'
      BY <1>1, <1>3, <2>1, <2>2, <2>3 DEF Shapes, Shape, Early, Mid, PCs, Ended
    <2> QED
      BY <2>4, <2>5 DEF Job!Next
  <1>4. CASE MarkRunning(j)
    BY <1>3, <1>4 DEF MarkRunning
  <1>5. CASE Finish(j)
    BY <1>3, <1>5 DEF Finish
  <1>6. CASE RaiseDeleted(j)
    <2>1. /\ job[j].pc = "goodbye" /\ job'[j].pc = "done"
          /\ \A o \in Jobs \ {j} : job'[o] = job[o]
          /\ UNCHANGED inst
      BY <1>1, <1>6 DEF RaiseDeleted, Goto, JobType
    <2>2. inst[j] # "absent" /\ told[j] \in {"nothing", "created", "modified"}
      BY <2>1 DEF Shapes, Shape
    <2>3. \E k \in {told[j], "deleted"} : told' = [told EXCEPT ![j] = k]
      BY <1>1, <1>6 DEF RaiseDeleted
    <2>4. inst[j] \in Job!NextStates[inst[j]] /\ inst' = [inst EXCEPT ![j] = inst[j]]
      BY <1>1, <2>1, <2>2 DEF Job!NextStates
    <2>5. Job!Advance(j)
      <3>1. {told[j], "deleted"} \subseteq Job!NextKinds[told[j]]
        BY <2>2 DEF Job!NextKinds
      <3> QED
        BY <2>2, <2>3, <2>4, <3>1 DEF Job!Advance
    <2>6. Shapes'
      BY <1>1, <2>1, <2>2, <2>3 DEF Shapes, Shape, Early, Mid, PCs, Ended
    <2> QED
      BY <2>5, <2>6 DEF Job!Next
  <1> QED
    BY <1>2, <1>4, <1>5, <1>6, ThreadInMid

LEMMA HandlerIsJobStep ==
  ASSUME Inv, Shapes, NEW j \in Jobs, Handler(j)
  PROVE  Shapes' /\ [Job!Next]_<<inst, told>>
  <1>1. /\ inst \in [Jobs -> {"absent", "starting", "running", "complete"}]
        /\ told \in [Jobs -> {"nothing", "created", "modified", "deleted"}]
        /\ job \in [Jobs -> JobType]
    BY DEF Inv, TypeOK
  <1>2. CASE Request(j)
    <2>1. /\ job[j].pc = "none" /\ job'[j].pc = "created"
          /\ \A o \in Jobs \ {j} : job'[o] = job[o]
          /\ inst' = [inst EXCEPT ![j] = "starting"] /\ UNCHANGED told
      BY <1>1, <1>2 DEF Request, NoJob
    <2>2. inst[j] = "absent" /\ told[j] = "nothing"
      BY <2>1 DEF Shapes, Shape
    <2>3. Job!Next
      BY <2>1, <2>2 DEF Job!Next, Job!Create
    <2>4. Shapes'
      BY <1>1, <2>1, <2>2 DEF Shapes, Shape, Early, Mid
    <2> QED
      BY <2>3, <2>4
  <1>3. CASE SetFlag(j)
    <2>1. /\ job[j].pc = "created" /\ job'[j].pc = "spawn"
          /\ \A o \in Jobs \ {j} : job'[o] = job[o]
          /\ told' = [told EXCEPT ![j] = "created"] \/ told' = told
          /\ UNCHANGED inst
      BY <1>1, <1>3 DEF SetFlag, Goto, JobType
    <2>2. inst[j] = "starting" /\ told[j] = "nothing"
      BY <2>1 DEF Shapes, Shape, Early
    <2>3. /\ inst' = [inst EXCEPT ![j] = inst[j]]
          /\ \E k \in {"nothing", "created"} : told' = [told EXCEPT ![j] = k]
      BY <1>1, <2>1, <2>2
    <2>4. Job!Next
      <3>1. /\ "starting" \in Job!NextStates["starting"]
            /\ {"nothing", "created"} \subseteq Job!NextKinds["nothing"]
        BY DEF Job!NextStates, Job!NextKinds
      <3>2. Job!Advance(j)
        BY <2>1, <2>2, <2>3, <3>1 DEF Job!Advance
      <3> QED
        BY <3>2 DEF Job!Next
    <2>5. Shapes'
      BY <1>1, <2>1, <2>2 DEF Shapes, Shape, Early, Mid
    <2> QED
      BY <2>4, <2>5
  <1>4. CASE RequestLost(j) \/ Spawn(j) \/ SpawnFails(j)
    <2>1. /\ \/ job[j].pc = "created" /\ job'[j].pc = "stuck"
             \/ job[j].pc = "spawn" /\ job'[j].pc \in {"start", "stuck"}
          /\ \A o \in Jobs \ {j} : job'[o] = job[o]
          /\ UNCHANGED <<inst, told>>
      BY <1>1, <1>4 DEF RequestLost, Spawn, SpawnFails, Goto, JobType
    <2>2. Shapes'
      BY <2>1 DEF Shapes, Shape, Early, Mid
    <2> QED
      BY <2>1, <2>2
  <1> QED
    BY <1>2, <1>3, <1>4 DEF Handler

\* To a client a migration is a CIM job that is created once and only
\* advances, whatever fails and however jobs interleave (safety part).
THEOREM MigrationIsCimJob == Spec => ImplementsJob
  <1>1. Init => Shapes /\ Job!Init
    <2> SUFFICES ASSUME Init PROVE Shapes /\ Job!Init
      OBVIOUS
    <2>1. Shapes
      BY DEF Init, Shapes, Shape, NoJob, Early, Mid
    <2> QED
      BY <2>1 DEF Init, Job!Init
  <1>2. Inv /\ Shapes /\ [Next]_vars => Shapes' /\ [Job!Next]_<<inst, told>>
    <2> SUFFICES ASSUME Inv, Shapes, [Next]_vars
                 PROVE  Shapes' /\ [Job!Next]_<<inst, told>>
      OBVIOUS
    <2>1. CASE Outside
      <3>1. UNCHANGED <<job, inst, told>>
        BY <2>1 DEF Outside, Start, Pause, OtherDefined, GuestStops
      <3> QED
        BY <3>1 DEF Shapes
    <2>2. CASE UNCHANGED vars
      BY <2>2 DEF vars, Shapes
    <2> QED
      BY <2>1, <2>2, HandlerIsJobStep, ThreadIsJobStep DEF Next
  <1> QED
    BY <1>1, <1>2, Invariance, PTL DEF Spec, ImplementsJob, Job!Spec

(***************************************************************************)
(* One guest that runs.  While nobody has started the guest and no job     *)
(* that restarts it has met another one, such a job is alone, from its     *)
(* request for the shutdown on the guest runs here at most, and from the   *)
(* look that saw it down it runs nowhere until the job starts it.          *)
(***************************************************************************)
On(h) == guest[h].run = "on"
Kind(r) ==
    /\ r.pc \in {"other", "live", "resume", "restart"} => r.type = r.pc
    /\ r.pc \in {"poll", "boot"} => r.type = "restart"
Restarted == {"undefine", "define", "boot"}

Lone ==
    /\ \A g, h \in Hosts : On(g) /\ On(h) => g = h
    /\ \A j \in Jobs : Alive(j) /\ job[j].type = "restart" =>
         /\ \A o \in Jobs \ {j} : ~Alive(o)
         /\ job[j].pc = "poll" => \A h \in Hosts \ {Local} : ~On(h)
         /\ job[j].pc \in Restarted => \A h \in Hosts : ~On(h)

RunInv == (\A j \in Jobs : Kind(job[j])) /\ (~exposed => Lone)

(***************************************************************************)
(* The migrating flag: somebody is still to clear it, or will never.       *)
(***************************************************************************)
Last == {"finish", "goodbye", "done"}
Clears(r) == r.pc \notin Last \cup {"none"} \/ (r.pc \in Last /\ ~r.dom)
FlagInv == record.migrating => \E j \in Jobs : Clears(job[j])

LEMMA GotoIs ==
  ASSUME Inv, NEW j \in Jobs, NEW b, job' = [job EXCEPT ![j].pc = b]
  PROVE  /\ \A o \in Jobs \ {j} : job'[o] = job[o]
         /\ job'[j].pc = b /\ job'[j].type = job[j].type /\ job'[j].dom = job[j].dom
  BY DEF Inv, TypeOK, JobType

LEMMA FailIs ==
  ASSUME Inv, NEW j \in Jobs, NEW a, Fail(j, a)
  PROVE  /\ \A o \in Jobs \ {j} : job'[o] = job[o]
         /\ job[j].pc = a /\ job'[j].pc = "clear" /\ job'[j].type = job[j].type
  <1> DEFINE r == [job[j] EXCEPT !.pc = "clear", !.ok = FALSE]
  <1>1. job[j] \in JobType /\ job \in [Jobs -> JobType]
    BY DEF Inv, TypeOK
  <1>2. r.pc = "clear" /\ r.type = job[j].type
    BY <1>1 DEF JobType
  <1>3. job' = [job EXCEPT ![j] = r] /\ job[j].pc = a
    BY DEF Fail
  <1> HIDE DEF r
  <1> QED
    BY <1>1, <1>2, <1>3

\* Where a step of a thread leads.
LEMMA ThreadIs ==
  ASSUME Inv, NEW j \in Jobs, Thread(j)
  PROVE  /\ \A o \in Jobs \ {j} : job'[o] = job[o]
         /\ Alive(j) /\ job'[j].type = job[j].type
         /\ Kind(job[j]) => Kind(job'[j])
         /\ Kind(job[j]) /\ job[j].type = "restart" =>
              /\ job'[j].pc = "poll" => job[j].pc = "poll" \/ Shutdown(j)
              /\ job'[j].pc \in Restarted => job[j].pc \in Restarted \/ WentDown(j)
         /\ job'[j].pc \notin Last \cup {"none"} \/ ClearFlag(j) \/ Finish(j) \/ RaiseDeleted(j)
  <1> USE DEF Kind, Alive, Ended, Restarted, Last
  <1>1. CASE MarkRunning(j)
    BY <1>1, GotoIs DEF MarkRunning, Goto
  <1>2. CASE RemoteFree(j)
    BY <1>2, GotoIs DEF RemoteFree, Goto
  <1>3. CASE EnsureOffline(j)
    BY <1>3, GotoIs DEF EnsureOffline, Goto
  <1>4. CASE RelookupFails(j)
    BY <1>4, GotoIs DEF RelookupFails, Goto
  <1>5. CASE Undefine(j)
    BY <1>5, GotoIs DEF Undefine, Goto
  <1>6. CASE Boot(j)
    BY <1>6, GotoIs DEF Boot, Goto
  <1>7. CASE ClearFlag(j)
    BY <1>7, GotoIs DEF ClearFlag, Goto
  <1>8. CASE Finish(j)
    BY <1>8, GotoIs DEF Finish, Goto
  <1>9. CASE RaiseDeleted(j)
    BY <1>9, GotoIs DEF RaiseDeleted, Goto
  <1>10. CASE Migrate(j)
    BY <1>10, GotoIs DEF Migrate, Goto
  <1>11. CASE Shutdown(j)
    BY <1>11, GotoIs DEF Shutdown, Goto
  <1>12. CASE NotFound(j)
    BY <1>12, FailIs DEF NotFound
  <1>13. CASE RemoteExists(j)
    BY <1>13, FailIs DEF RemoteExists
  <1>14. CASE XmlFails(j)
    BY <1>14, FailIs DEF XmlFails
  <1>15. CASE NotOffline(j)
    BY <1>15, FailIs DEF NotOffline
  <1>16. CASE MigrateFails(j)
    BY <1>16, FailIs DEF MigrateFails
  <1>17. CASE ShutdownFails(j)
    BY <1>17, FailIs DEF ShutdownFails
  <1>18. CASE ShutdownTimesOut(j)
    BY <1>18, FailIs DEF ShutdownTimesOut
  <1>19. CASE DefineFails(j)
    BY <1>19, FailIs DEF DefineFails
  <1>20. CASE BootFails(j)
    BY <1>20, FailIs DEF BootFails
  <1>21. CASE Prepare(j)
    <2>1. job[j].pc = "xml" /\ job' = [job EXCEPT ![j].pc = job[j].type]
      BY <1>21 DEF Prepare, Goto
    <2>2. job[j].type \in Types
      BY <2>1 DEF Inv, Requested
    <2> QED
      BY <2>1, <2>2, GotoIs, TypesAssumption
  <1>22. CASE Define(j)
    BY <1>22, GotoIs DEF Define, Goto
  <1>23. CASE Lookup(j)
    <2> DEFINE r == [job[j] EXCEPT !.pc = "remote", !.dom = TRUE]
    <2>1. job' = [job EXCEPT ![j] = r] /\ job \in [Jobs -> JobType] /\ job[j] \in JobType
      BY <1>23 DEF Lookup, Again, Inv, TypeOK
    <2>2. r.pc = "remote" /\ r.type = job[j].type
      BY <1>23, <2>1 DEF Lookup, JobType
    <2> HIDE DEF r
    <2> QED
      BY <1>23, <2>1, <2>2 DEF Lookup
  <1>24. CASE StillOnline(j)
    <2> DEFINE r == [job[j] EXCEPT !.tries = job[j].tries + 1]
    <2>1. job' = [job EXCEPT ![j] = r] /\ job \in [Jobs -> JobType] /\ job[j] \in JobType
      BY <1>24 DEF StillOnline, Again, Inv, TypeOK
    <2>2. r.pc = "poll" /\ r.type = job[j].type
      BY <1>24, <2>1 DEF StillOnline, JobType
    <2> HIDE DEF r
    <2> QED
      BY <1>24, <2>1, <2>2 DEF StillOnline
  <1>25. CASE WentDown(j)
    <2> DEFINE r == [job[j] EXCEPT !.pc = "undefine", !.tries = 0]
    <2>1. job' = [job EXCEPT ![j] = r] /\ job \in [Jobs -> JobType] /\ job[j] \in JobType
      BY <1>25 DEF WentDown, Again, Inv, TypeOK
    <2>2. r.pc = "undefine" /\ r.type = job[j].type
      BY <1>25, <2>1 DEF WentDown, JobType
    <2> HIDE DEF r
    <2> QED
      BY <1>25, <2>1, <2>2 DEF WentDown
  <1>26. CASE UndefineFails(j)
    <2>1. job[j].pc = "undefine" /\ job \in [Jobs -> JobType] /\ job[j] \in JobType
      BY <1>26 DEF UndefineFails, Inv, TypeOK
    <2>2. PICK r : /\ job' = [job EXCEPT ![j] = r] /\ r.type = job[j].type
                   /\ r.pc \in {"undefine", "define"}
      <3>1. CASE job' = [job EXCEPT ![j].tries = job[j].tries + 1]
        <4> DEFINE r == [job[j] EXCEPT !.tries = job[j].tries + 1]
        <4>1. job' = [job EXCEPT ![j] = r] /\ r.type = job[j].type /\ r.pc = "undefine"
          BY <2>1, <3>1 DEF JobType
        <4> HIDE DEF r
        <4> QED
          BY <4>1
      <3>2. CASE job' = [job EXCEPT ![j].pc = "define", ![j].tries = 0]
        <4> DEFINE r == [job[j] EXCEPT !.pc = "define", !.tries = 0]
        <4>1. job' = [job EXCEPT ![j] = r] /\ r.type = job[j].type /\ r.pc = "define"
          BY <2>1, <3>2 DEF JobType
        <4> HIDE DEF r
        <4> QED
          BY <4>1
      <3> QED
        BY <1>26, <2>1, <3>1, <3>2 DEF UndefineFails
    <2> QED
      BY <2>1, <2>2
  <1> QED
    BY <1>1, <1>2, <1>3, <1>4, <1>5, <1>6, <1>7, <1>8, <1>9, <1>10, <1>11, <1>12, <1>13, <1>14, <1>15, <1>16, <1>17, <1>18, <1>19, <1>20, <1>21, <1>22, <1>23, <1>24, <1>25, <1>26 DEF Thread

\* Only a move and a start change where the guest runs.
LEMMA ThreadRuns ==
  ASSUME Inv, NEW j \in Jobs, Thread(j), ~Migrate(j), ~Boot(j)
  PROVE  \A h \in Hosts : guest'[h].run = guest[h].run
  <1>1. guest \in [Hosts -> GuestType]
    BY DEF Inv, TypeOK, GuestType
  <1>2. ASSUME NEW d \in Hosts, NEW def \in BOOLEAN, guest' = [guest EXCEPT ![d].def = def]
        PROVE  \A h \in Hosts : guest'[h].run = guest[h].run
    BY <1>1, <1>2 DEF GuestType
  <1>3. CASE Undefine(j)
    BY <1>2, <1>3, HostsAssumption DEF Undefine
  <1>4. CASE Define(j)
    <2>1. job[j].host \in Hosts
      BY DEF Inv, TypeOK, JobType
    <2> QED
      BY <1>2, <1>4, <2>1 DEF Define
  <1>5. CASE UNCHANGED guest
    BY <1>5
  <1> QED
    BY <1>3, <1>4, <1>5
       DEF Thread, MarkRunning, NotFound, Lookup, RemoteExists, RemoteFree, XmlFails,
           Prepare, NotOffline, EnsureOffline, MigrateFails, ShutdownFails, Shutdown,
           StillOnline, ShutdownTimesOut, WentDown, RelookupFails, UndefineFails,
           DefineFails, BootFails, ClearFlag, Finish, RaiseDeleted

\* A job that restarts the guest and is alive has no other beside it.
LEMMA LoneStep ==
  ASSUME Inv, Lone, NEW j \in Jobs, Alive(j), \A o \in Jobs \ {j} : job'[o] = job[o],
         \A g, h \in Hosts : On(g)' /\ On(h)' => g = h,
         job'[j].type = job[j].type,
         Alive(j)' /\ job[j].type = "restart" =>
           /\ job'[j].pc = "poll" => \A h \in Hosts \ {Local} : ~On(h)'
           /\ job'[j].pc \in Restarted => \A h \in Hosts : ~On(h)'
  PROVE  Lone'
  <1>1. ASSUME NEW i \in Jobs, Alive(i)', job'[i].type = "restart"
        PROVE  /\ \A o \in Jobs \ {i} : ~Alive(o)'
               /\ job'[i].pc = "poll" => \A h \in Hosts \ {Local} : ~On(h)'
               /\ job'[i].pc \in Restarted => \A h \in Hosts : ~On(h)'
    <2>1. CASE i = j
      BY <1>1, <2>1 DEF Lone, Alive
    <2>2. CASE i # j
      BY <1>1, <2>2 DEF Lone, Alive
    <2> QED
      BY <2>1, <2>2
  <1> QED
    BY <1>1 DEF Lone

LEMMA ThreadLone ==
  ASSUME Inv, RunInv, NEW j \in Jobs, Thread(j), "info" \notin Faults, ~exposed'
  PROVE  Lone'
  <1>1. ~exposed /\ (Shutdown(j) => guest[Local].run # "paused")
    <2>1. exposed' = exposed \/ Shutdown(j)
      BY DEF Thread, MarkRunning, NotFound, Lookup, RemoteExists, RemoteFree, XmlFails,
             Prepare, NotOffline, EnsureOffline, MigrateFails, Migrate, ShutdownFails,
             StillOnline, ShutdownTimesOut, WentDown, RelookupFails, Undefine,
             UndefineFails, DefineFails, Define, BootFails, Boot, ClearFlag, Finish,
             RaiseDeleted, world
    <2>2. Shutdown(j) => ~exposed /\ guest[Local].run # "paused"
      BY DEF Shutdown
    <2> QED
      BY <2>1, <2>2
  <1>2. Lone /\ Kind(job[j])
    BY <1>1 DEF RunInv
  <1>3. /\ \A o \in Jobs \ {j} : job'[o] = job[o]
        /\ Alive(j) /\ job'[j].type = job[j].type
        /\ job[j].type = "restart" =>
             /\ job'[j].pc = "poll" => job[j].pc = "poll" \/ Shutdown(j)
             /\ job'[j].pc \in Restarted => job[j].pc \in Restarted \/ WentDown(j)
    BY <1>2, ThreadIs
  <1>4. /\ guest \in [Hosts -> GuestType] /\ Local \in Hosts /\ job[j].host \in Hosts
        /\ \A h \in Hosts : guest[h].run \in {"off", "on", "paused"}
    BY HostsAssumption DEF Inv, TypeOK, GuestType, JobType
  <1>5. CASE Migrate(j)
    <2>1. job[j].pc \in {"live", "resume"} /\ job[j].type # "restart"
      BY <1>2, <1>5 DEF Migrate, Goto, Kind
    <2> DEFINE d == job[j].host
    <2>2. d # Local /\ guest' = [guest EXCEPT ![Local].run = "off", ![d].run = guest[Local].run]
      BY <1>5 DEF Migrate, CanMove
    <2>3. /\ guest'[Local].run = "off" /\ guest'[d].run = guest[Local].run
          /\ \A h \in Hosts \ {Local, d} : guest'[h] = guest[h]
      BY <1>4, <2>2 DEF GuestType
    <2>4. \A g, h \in Hosts : On(g)' /\ On(h)' => g = h
      BY <1>2, <1>4, <2>2, <2>3 DEF Lone, On
    <2> QED
      BY <1>2, <1>3, <2>1, <2>4, LoneStep
  <1>6. CASE Boot(j)
    <2>1. job[j].pc = "boot" /\ job[j].type = "restart" /\ job'[j].pc = "clear"
      BY <1>2, <1>6, GotoIs DEF Boot, Goto, Kind
    <2>2. \A h \in Hosts : ~On(h)
      BY <1>2, <1>3, <2>1 DEF Lone, Restarted
    <2>3. guest' = [guest EXCEPT ![job[j].host].run = "on"]
      BY <1>6 DEF Boot
    <2>4. \A h \in Hosts : On(h)' => h = job[j].host
      BY <1>4, <2>2, <2>3 DEF On, GuestType
    <2>5. \A g, h \in Hosts : On(g)' /\ On(h)' => g = h
      BY <2>4
    <2> QED
      BY <1>2, <1>3, <2>1, <2>5, LoneStep DEF Restarted
  <1>7. CASE ~Migrate(j) /\ ~Boot(j)
    <2>1. \A h \in Hosts : On(h)' <=> On(h)
      BY <1>7, ThreadRuns DEF On
    <2>2. \A g, h \in Hosts : On(g)' /\ On(h)' => g = h
      BY <1>2, <2>1 DEF Lone
    <2>3. Shutdown(j) => \A h \in Hosts \ {Local} : ~On(h)
      BY <1>1, <1>2, <1>4 DEF Shutdown, Lone, On
    <2>4. job[j].type = "restart" /\ WentDown(j) => \A h \in Hosts : ~On(h)
      BY <1>2, <1>3 DEF WentDown, Online, Lone, On
    <2>5. job[j].type = "restart" =>
            /\ job'[j].pc = "poll" => \A h \in Hosts \ {Local} : ~On(h)'
            /\ job'[j].pc \in Restarted => \A h \in Hosts : ~On(h)'
      BY <1>2, <1>3, <2>1, <2>3, <2>4 DEF Lone
    <2> QED
      BY <1>2, <1>3, <2>2, <2>5, LoneStep
  <1> QED
    BY <1>5, <1>6, <1>7

LEMMA HandlerLone ==
  ASSUME Inv, RunInv, NEW j \in Jobs, Handler(j)
  PROVE  RunInv'
  <1>1. CASE Request(j)
    <2>1. PICK h \in Hosts, type \in Types :
            /\ job' = [job EXCEPT ![j] = [NoJob EXCEPT !.pc = "created", !.host = h,
                                                      !.type = type]]
            /\ exposed' = (exposed \/ \E o \in Jobs :
                             Alive(o) /\ "restart" \in {type, job[o].type})
      BY <1>1 DEF Request
    <2> DEFINE r == [NoJob EXCEPT !.pc = "created", !.host = h, !.type = type]
    <2>2. r.pc = "created" /\ r.type = type
      BY DEF NoJob
    <2>3. /\ job \in [Jobs -> JobType] /\ job' = [job EXCEPT ![j] = r]
          /\ job[j].pc = "none" /\ UNCHANGED guest
      BY <1>1, <2>1 DEF Request, Inv, TypeOK
    <2> HIDE DEF r
    <2>4. \A o \in Jobs : job'[o] = IF o = j THEN r ELSE job[o]
      BY <2>3
    <2>5. \A o \in Jobs : Kind(job'[o])
      BY <2>2, <2>4 DEF RunInv, Kind
    <2>6. ASSUME ~exposed' PROVE Lone'
      <3>1. /\ ~exposed /\ Lone
            /\ \A o \in Jobs : ~(Alive(o) /\ "restart" \in {type, job[o].type})
        BY <2>1, <2>6 DEF RunInv
      <3>2. \A g, h2 \in Hosts : On(g)' /\ On(h2)' => g = h2
        BY <2>3, <3>1 DEF Lone, On
      <3>3. ASSUME NEW i \in Jobs, Alive(i)', job'[i].type = "restart"
            PROVE  i = j /\ \A o \in Jobs \ {i} : ~Alive(o)'
        <4>1. i = j
          BY <2>4, <3>1, <3>3 DEF Alive
        <4>2. type = "restart"
          BY <2>2, <2>4, <3>3, <4>1
        <4> QED
          BY <2>4, <3>1, <4>1, <4>2 DEF Alive
      <3> QED
        BY <2>2, <2>4, <3>2, <3>3 DEF Lone, Restarted
    <2> QED
      BY <2>5, <2>6 DEF RunInv
  <1>2. CASE RequestLost(j) \/ SetFlag(j) \/ Spawn(j) \/ SpawnFails(j)
    <2>1. PICK b \in {"stuck", "spawn", "start"} : job' = [job EXCEPT ![j].pc = b]
      BY <1>2 DEF RequestLost, SetFlag, Spawn, SpawnFails, Goto
    <2>2. Alive(j) /\ UNCHANGED <<guest, exposed>>
      BY <1>2 DEF RequestLost, SetFlag, Spawn, SpawnFails, Goto, Alive, Ended, world
    <2>3. /\ \A o \in Jobs \ {j} : job'[o] = job[o]
          /\ job'[j].pc = b /\ job'[j].type = job[j].type
      BY <2>1, GotoIs
    <2>4. \A o \in Jobs : Kind(job'[o])
      BY <2>3 DEF RunInv, Kind
    <2>5. ASSUME ~exposed' PROVE Lone'
      <3>1. Lone
        BY <2>2, <2>5 DEF RunInv
      <3>2. \A g, h \in Hosts : On(g)' /\ On(h)' => g = h
        BY <2>2, <3>1 DEF Lone, On
      <3>3. job'[j].pc # "poll" /\ job'[j].pc \notin Restarted
        BY <2>3 DEF Restarted
      <3> QED
        BY <2>2, <2>3, <3>1, <3>2, <3>3, LoneStep
    <2> QED
      BY <2>4, <2>5 DEF RunInv
  <1> QED
    BY <1>1, <1>2 DEF Handler

LEMMA OutsideLone ==
  ASSUME Inv, RunInv, Outside \/ UNCHANGED vars
  PROVE  RunInv'
  <1>1. UNCHANGED job
    BY DEF Outside, Start, Pause, OtherDefined, GuestStops, vars
  <1>2. ASSUME ~exposed' PROVE ~exposed /\ \A h \in Hosts : On(h)' => On(h)
    <2>1. CASE UNCHANGED vars
      BY <1>2, <2>1 DEF vars, On
    <2>2. CASE Outside
      <3>1. PICK d \in Hosts : Start(d) \/ Pause(d) \/ OtherDefined(d) \/ GuestStops(d)
        BY <2>2 DEF Outside
      <3>2. guest \in [Hosts -> GuestType]
        BY DEF Inv, TypeOK, GuestType
      <3>3. CASE Pause(d)
        BY <1>2, <3>2, <3>3 DEF Pause, On, GuestType
      <3>4. CASE GuestStops(d)
        BY <1>2, <3>2, <3>4 DEF GuestStops, On, GuestType
      <3>5. CASE OtherDefined(d)
        BY <1>2, <3>5 DEF OtherDefined, On
      <3> QED
        BY <1>2, <3>1, <3>3, <3>4, <3>5 DEF Start
    <2> QED
      BY <2>1, <2>2
  <1> QED
    BY <1>1, <1>2 DEF RunInv, Lone, Alive

\* The guest runs on one host at a time, also when jobs overlap, as long as its
\* state can be read (domain_online, handle_restart_migrate).
THEOREM RunsAtMostOnce ==
  ASSUME "info" \notin Faults
  PROVE  Spec => []RunsOnce
  <1>1. Init => RunInv
    <2> SUFFICES ASSUME Init PROVE RunInv
      OBVIOUS
    <2>1. \A j \in Jobs : job[j] = NoJob
      BY DEF Init
    <2>2. \A h \in Hosts : On(h) => h = Local
      BY DEF Init, On
    <2> QED
      BY <2>1, <2>2 DEF RunInv, Lone, Kind, NoJob, Alive, Ended
  <1>2. Inv /\ RunInv /\ [Next]_vars => RunInv'
    <2> SUFFICES ASSUME Inv, RunInv, [Next]_vars PROVE RunInv'
      OBVIOUS
    <2>1. ASSUME NEW j \in Jobs, Thread(j) PROVE RunInv'
      <3>1. Kind(job[j]) /\ \A o \in Jobs : Kind(job[o])
        BY DEF RunInv
      <3>2. \A o \in Jobs : Kind(job'[o])
        BY <2>1, <3>1, ThreadIs
      <3>3. ~exposed' => Lone'
        BY <2>1, ThreadLone
      <3> QED
        BY <3>2, <3>3 DEF RunInv
    <2> QED
      BY <2>1, HandlerLone, OutsideLone DEF Next
  <1>3. RunInv => RunsOnce
    <2> SUFFICES ASSUME RunInv, ~exposed
                 PROVE  Cardinality({h \in Hosts : guest[h].run = "on"}) <= 1
      BY DEF RunsOnce
    <2> DEFINE S == {h \in Hosts : guest[h].run = "on"}
    <2>1. CASE S = {}
      BY <2>1, FS_EmptySet
    <2>2. CASE S # {}
      <3>1. PICK h \in Hosts : guest[h].run = "on"
        BY <2>2
      <3>2. S = {h}
        BY <3>1 DEF RunInv, Lone, On
      <3>3. Cardinality({h}) = 1
        BY FS_Singleton
      <3> QED
        BY <3>2, <3>3
    <2> QED
      BY <2>1, <2>2
  <1> QED
    BY <1>1, <1>2, <1>3, Invariance, PTL DEF Spec

\* The migrating flag does not outlive the jobs that could clear it, as long as
\* the record can be opened (clear_infstore_migration_flag).
THEOREM FlagIsCleared ==
  ASSUME "store" \notin Faults
  PROVE  Spec => []FlagCleared
  <1>1. Init => FlagInv
    BY DEF Init, FlagInv
  <1>2. Inv /\ FlagInv /\ [Next]_vars => FlagInv'
    <2> SUFFICES ASSUME Inv, FlagInv, [Next]_vars, record'.migrating
                 PROVE  \E j \in Jobs : Clears(job'[j])
      BY DEF FlagInv
    <2>1. CASE Outside \/ UNCHANGED vars
      BY <2>1 DEF FlagInv, Outside, Start, Pause, OtherDefined, GuestStops, vars
    <2>2. ASSUME NEW j \in Jobs, \A o \in Jobs \ {j} : job'[o] = job[o], record' = record,
                 Clears(job[j]) => Clears(job'[j])
          PROVE  \E i \in Jobs : Clears(job'[i])
      <3>1. PICK i \in Jobs : Clears(job[i])
        BY <2>2 DEF FlagInv
      <3> QED
        BY <2>2, <3>1
    <2>3. ASSUME NEW j \in Jobs, Handler(j) PROVE \E i \in Jobs : Clears(job'[i])
      <3>1. CASE Request(j)
        <4>1. job[j].pc = "none" /\ record' = record
          BY <3>1 DEF Request
        <4>2. \A o \in Jobs \ {j} : job'[o] = job[o]
          BY <3>1 DEF Request, Inv, TypeOK
        <4> QED
          BY <2>2, <4>1, <4>2 DEF Clears, Last
      <3>2. CASE RequestLost(j) \/ SetFlag(j) \/ Spawn(j) \/ SpawnFails(j)
        <4>1. PICK b \in {"stuck", "spawn", "start"} : job' = [job EXCEPT ![j].pc = b]
          BY <3>2 DEF RequestLost, SetFlag, Spawn, SpawnFails, Goto
        <4> QED
          BY <4>1, GotoIs DEF Clears, Last
      <3> QED
        BY <2>3, <3>1, <3>2 DEF Handler
    <2>4. ASSUME NEW j \in Jobs, Thread(j) PROVE \E i \in Jobs : Clears(job'[i])
      <3>1. /\ \A o \in Jobs \ {j} : job'[o] = job[o]
            /\ \/ job'[j].pc \notin Last \cup {"none"}
               \/ ClearFlag(j) \/ Finish(j) \/ RaiseDeleted(j)
        BY <2>4, ThreadIs
      <3>2. CASE ClearFlag(j)
        <4>1. job'[j].pc = "finish" /\ job'[j].dom = job[j].dom
          BY <3>2, GotoIs DEF ClearFlag, Goto
        <4>2. CASE job[j].dom
          <5>1. record' = [of |-> "mine", migrating |-> FALSE]
            BY <3>2, <4>2 DEF ClearFlag
          <5>2. record'.migrating = FALSE
            BY <5>1
          <5> QED
            BY <5>2
        <4>3. CASE ~job[j].dom
          BY <4>1, <4>3 DEF Clears, Last
        <4> QED
          BY <4>2, <4>3
      <3>3. CASE Finish(j) \/ RaiseDeleted(j)
        <4>1. /\ job[j].pc \in Last /\ job'[j].pc \in Last /\ job'[j].dom = job[j].dom
              /\ record' = record
          BY <3>3, GotoIs DEF Finish, RaiseDeleted, Goto, Last
        <4> QED
          BY <2>2, <3>1, <4>1 DEF Clears
      <3>4. CASE job'[j].pc \notin Last \cup {"none"}
        BY <3>4 DEF Clears
      <3> QED
        BY <3>1, <3>2, <3>3, <3>4
    <2> QED
      BY <2>1, <2>3, <2>4 DEF Next
  <1>3. Inv /\ FlagInv => FlagCleared
    <2> SUFFICES ASSUME Inv, FlagInv, record.migrating, NEW j \in Jobs, Clears(job[j])
                 PROVE  Alive(j) \/ job[j].pc = "stuck" \/ (job[j].pc = "done" /\ ~job[j].dom)
      BY DEF FlagInv, FlagCleared
    <2> QED
      BY DEF Clears, Last, Alive, Ended
  <1> QED
    BY <1>1, <1>2, <1>3, Invariance, PTL DEF Spec

-----------------------------------------------------------------------------
(***************************************************************************)
(* What ThreadEnds needs of the code, for every bound: no path of the      *)
(* thread leads back, and the two loops use up their tries.                *)
(***************************************************************************)
Ahead == [start |-> 12, lookup |-> 11, remote |-> 10, xml |-> 9,
          other |-> 8, live |-> 8, resume |-> 8, restart |-> 8,
          poll |-> 7, undefine |-> 6, define |-> 5, boot |-> 4, clear |-> 3,
          finish |-> 2, goodbye |-> 1, done |-> 0]
Working == DOMAIN Ahead \ {"done"}
Left(r) == (MaxTries + 1) * Ahead[r.pc] + (MaxTries - r.tries)
CountsDown(j) == Left(job'[j]) \in Nat /\ Left(job'[j]) < Left(job[j])

LEMMA OnwardLeft ==
  ASSUME NEW a \in Nat, NEW b \in Nat, b < a, NEW N \in Nat,
         NEW s \in 0 .. N, NEW t \in 0 .. N
  PROVE  /\ (N + 1) * b + (N - t) \in Nat
         /\ (N + 1) * b + (N - t) < (N + 1) * a + (N - s)
  <1>1. PICK d \in Nat : a = b + 1 + d
    <2>1. a - b - 1 \in Nat /\ a = b + 1 + (a - b - 1)
      OBVIOUS
    <2> QED
      BY <2>1
  <1>2. (N + 1) * b \in Nat /\ (N + 1) * d \in Nat
    OBVIOUS
  <1>3. (N + 1) * a = (N + 1) * b + (N + 1) + (N + 1) * d
    BY <1>1
  <1> QED
    BY <1>2, <1>3

LEMMA AheadIs == \A p \in DOMAIN Ahead : Ahead[p] \in Nat
  BY DEF Ahead

\* A step to a position nearer the end, whatever it does to the count.
LEMMA Onward ==
  ASSUME Inv, NEW j \in Jobs, NEW r, job' = [job EXCEPT ![j] = r],
         r.tries \in 0 .. MaxTries, job[j].pc \in DOMAIN Ahead,
         r.pc \in DOMAIN Ahead, Ahead[r.pc] < Ahead[job[j].pc]
  PROVE  CountsDown(j)
  <1>1. job'[j] = r /\ job[j].tries \in 0 .. MaxTries
    BY DEF Inv, TypeOK, JobType
  <1>2. Ahead[r.pc] \in Nat /\ Ahead[job[j].pc] \in Nat
    BY AheadIs
  <1>3. MaxTries \in Nat
    BY BoundsAssumption
  <1>4. Left(r) \in Nat /\ Left(r) < Left(job[j])
    BY <1>1, <1>2, <1>3, OnwardLeft DEF Left
  <1> QED
    BY <1>1, <1>4 DEF CountsDown

LEMMA GotoOnward ==
  ASSUME Inv, NEW j \in Jobs, NEW a \in DOMAIN Ahead, NEW b \in DOMAIN Ahead,
         Goto(j, a, b), Ahead[b] < Ahead[a]
  PROVE  CountsDown(j)
  <1> DEFINE r == [job[j] EXCEPT !.pc = b]
  <1>1. job[j] \in JobType
    BY DEF Inv, TypeOK
  <1>2. r.pc = b /\ r.tries \in 0 .. MaxTries
    BY <1>1 DEF JobType
  <1>3. job' = [job EXCEPT ![j] = r] /\ job[j].pc = a
    BY DEF Goto
  <1> HIDE DEF r
  <1> QED
    BY <1>2, <1>3, Onward

LEMMA FailOnward ==
  ASSUME Inv, NEW j \in Jobs, NEW a \in DOMAIN Ahead, Fail(j, a), 3 < Ahead[a]
  PROVE  CountsDown(j)
  <1> DEFINE r == [job[j] EXCEPT !.pc = "clear", !.ok = FALSE]
  <1>1. job[j] \in JobType
    BY DEF Inv, TypeOK
  <1>2. r.pc = "clear" /\ r.tries \in 0 .. MaxTries
    BY <1>1 DEF JobType
  <1>3. job' = [job EXCEPT ![j] = r] /\ job[j].pc = a
    BY DEF Fail
  <1>4. "clear" \in DOMAIN Ahead /\ Ahead["clear"] = 3
    BY DEF Ahead
  <1> HIDE DEF r
  <1> QED
    BY <1>2, <1>3, <1>4, Onward

\* One more try at the same place.
LEMMA TryCounts ==
  ASSUME Inv, NEW j \in Jobs, job[j].pc \in DOMAIN Ahead,
         job[j].tries < MaxTries,
         job' = [job EXCEPT ![j].tries = job[j].tries + 1]
  PROVE  CountsDown(j)
  <1> DEFINE r == [job[j] EXCEPT !.tries = job[j].tries + 1]
  <1>1. job[j] \in JobType /\ job \in [Jobs -> JobType]
    BY DEF Inv, TypeOK
  <1>2. r.pc = job[j].pc /\ r.tries = job[j].tries + 1
    BY <1>1 DEF JobType
  <1>3. job' = [job EXCEPT ![j] = r]
    OBVIOUS
  <1> HIDE DEF r
  <1>4. job'[j] = r
    BY <1>1, <1>3
  <1> DEFINE n == (MaxTries + 1) * Ahead[job[j].pc]
  <1>5. n \in Nat
    BY AheadIs, BoundsAssumption
  <1>6. Left(r) = n + (MaxTries - r.tries) /\ Left(job[j]) = n + (MaxTries - job[j].tries)
    BY <1>2 DEF Left
  <1>7. MaxTries \in Nat /\ job[j].tries \in Nat
    BY <1>1, BoundsAssumption DEF JobType
  <1> HIDE DEF n
  <1> QED
    BY <1>2, <1>4, <1>5, <1>6, <1>7 DEF CountsDown

LEMMA ThreadOnward ==
  ASSUME Inv, NEW j \in Jobs, Thread(j)
  PROVE  CountsDown(j)
  <1>1. job[j] \in JobType
    BY DEF Inv, TypeOK
  <1>2. CASE \/ NotFound(j) \/ RemoteExists(j) \/ XmlFails(j) \/ NotOffline(j)
             \/ MigrateFails(j) \/ ShutdownFails(j) \/ ShutdownTimesOut(j)
             \/ DefineFails(j) \/ BootFails(j)
    <2>1. PICK a \in DOMAIN Ahead : Fail(j, a) /\ 3 < Ahead[a]
      BY <1>2 DEF NotFound, RemoteExists, XmlFails, NotOffline, MigrateFails,
                  ShutdownFails, ShutdownTimesOut, DefineFails, BootFails, Ahead
    <2> QED
      BY <2>1, FailOnward
  <1>3. CASE \/ MarkRunning(j) \/ RemoteFree(j) \/ EnsureOffline(j) \/ Migrate(j)
             \/ Shutdown(j) \/ RelookupFails(j) \/ Undefine(j)
    <2>1. PICK a \in DOMAIN Ahead, b \in DOMAIN Ahead : Goto(j, a, b) /\ Ahead[b] < Ahead[a]
      BY <1>3 DEF MarkRunning, RemoteFree, EnsureOffline, Migrate, Shutdown,
                  RelookupFails, Undefine, Ahead
    <2> QED
      BY <2>1, GotoOnward
  <1>4. CASE Define(j) \/ Boot(j) \/ ClearFlag(j) \/ Finish(j) \/ RaiseDeleted(j)
    <2>1. PICK a \in DOMAIN Ahead, b \in DOMAIN Ahead : Goto(j, a, b) /\ Ahead[b] < Ahead[a]
      BY <1>4 DEF Define, Boot, ClearFlag, Finish, RaiseDeleted, Ahead
    <2> QED
      BY <2>1, GotoOnward
  <1>5. CASE Prepare(j)
    <2>1. Goto(j, "xml", job[j].type) /\ job[j].pc = "xml"
      BY <1>5 DEF Prepare, Goto
    <2>2. job[j].type \in {"other", "live", "resume", "restart"}
      BY <2>1, TypesAssumption DEF Inv, Requested
    <2>3. /\ "xml" \in DOMAIN Ahead /\ job[j].type \in DOMAIN Ahead
          /\ Ahead[job[j].type] < Ahead["xml"]
      BY <2>2 DEF Ahead
    <2> QED
      BY <2>1, <2>3, GotoOnward
  <1>6. CASE Lookup(j)
    <2> DEFINE r == [job[j] EXCEPT !.pc = "remote", !.dom = TRUE]
    <2>1. r.pc = "remote" /\ r.tries \in 0 .. MaxTries
      BY <1>1 DEF JobType
    <2>2. job' = [job EXCEPT ![j] = r] /\ job[j].pc = "lookup"
      BY <1>6 DEF Lookup
    <2>3. {"remote", "lookup"} \subseteq DOMAIN Ahead /\ Ahead["remote"] < Ahead["lookup"]
      BY DEF Ahead
    <2> HIDE DEF r
    <2> QED
      BY <2>1, <2>2, <2>3, Onward
  <1>7. CASE StillOnline(j)
    <2>1. "poll" \in DOMAIN Ahead
      BY DEF Ahead
    <2> QED
      BY <1>7, <2>1, TryCounts DEF StillOnline, Again
  <1>8. CASE WentDown(j)
    <2> DEFINE r == [job[j] EXCEPT !.pc = "undefine", !.tries = 0]
    <2>1. r.pc = "undefine" /\ r.tries \in 0 .. MaxTries
      BY <1>1, BoundsAssumption DEF JobType
    <2>2. job' = [job EXCEPT ![j] = r] /\ job[j].pc = "poll"
      BY <1>8 DEF WentDown
    <2>3. {"poll", "undefine"} \subseteq DOMAIN Ahead /\ Ahead["undefine"] < Ahead["poll"]
      BY DEF Ahead
    <2> HIDE DEF r
    <2> QED
      BY <2>1, <2>2, <2>3, Onward
  <1>9. CASE UndefineFails(j)
    <2>1. job[j].pc = "undefine" /\ {"define", "undefine"} \subseteq DOMAIN Ahead
          /\ Ahead["define"] < Ahead["undefine"]
      BY <1>9 DEF UndefineFails, Ahead
    <2>2. CASE job[j].tries + 1 < MaxTries
      <3>1. job' = [job EXCEPT ![j].tries = job[j].tries + 1]
        BY <1>9, <2>2 DEF UndefineFails
      <3>2. job[j].tries < MaxTries
        BY <1>1, <2>2, BoundsAssumption DEF JobType
      <3> QED
        BY <2>1, <3>1, <3>2, TryCounts
    <2>3. CASE ~(job[j].tries + 1 < MaxTries)
      <3> DEFINE r == [job[j] EXCEPT !.pc = "define", !.tries = 0]
      <3>1. r.pc = "define" /\ r.tries \in 0 .. MaxTries
        BY <1>1, BoundsAssumption DEF JobType
      <3>2. job' = [job EXCEPT ![j] = r]
        BY <1>9, <2>3 DEF UndefineFails
      <3> HIDE DEF r
      <3> QED
        BY <2>1, <3>1, <3>2, Onward
    <2> QED
      BY <2>2, <2>3
  <1> QED
    BY <1>2, <1>3, <1>4, <1>5, <1>6, <1>7, <1>8, <1>9 DEF Thread

\* However long a guest takes to shut down and however often it cannot be
\* undefined, every step of a thread leaves it less to do, and nobody else
\* gives it more (handle_restart_migrate, complete_migrate): with the fairness
\* of FairSpec it comes to its end, unless it is blocked; that it never is, TLC
\* shows (ThreadEnds).
THEOREM ThreadCountsDown ==
  Spec => [][\A j \in Jobs : job[j].pc \in Working =>
               \/ ~Thread(j) /\ job'[j] = job[j]
               \/ Thread(j) /\ CountsDown(j)]_vars
  <1>1. Inv /\ Next => \A j \in Jobs : job[j].pc \in Working =>
                         \/ ~Thread(j) /\ job'[j] = job[j]
                         \/ Thread(j) /\ CountsDown(j)
    <2> SUFFICES ASSUME Inv, Next, NEW j \in Jobs, job[j].pc \in Working, ~Thread(j)
                 PROVE  job'[j] = job[j]
      BY ThreadOnward
    <2>1. CASE Outside
      BY <2>1 DEF Outside, Start, Pause, OtherDefined, GuestStops
    <2>2. ASSUME NEW o \in Jobs, Thread(o) PROVE job'[j] = job[j]
      BY <2>2, ThreadIs
    <2>3. ASSUME NEW o \in Jobs, Handler(o) PROVE job'[j] = job[j]
      <3>1. job[o].pc \in {"none", "created", "spawn"}
        BY <2>3, Zenon DEF Handler, Request, RequestLost, SetFlag, Spawn, SpawnFails, Goto
      <3>2. o # j
        BY <3>1 DEF Working, Ahead
      <3>3. PICK r : job' = [job EXCEPT ![o] = r]
        <4>1. CASE Request(o)
          BY <4>1, Zenon DEF Request
        <4>2. CASE RequestLost(o) \/ SetFlag(o) \/ Spawn(o) \/ SpawnFails(o)
          BY <4>2 DEF RequestLost, SetFlag, Spawn, SpawnFails, Goto
        <4> QED
          BY <2>3, <4>1, <4>2 DEF Handler
      <3> QED
        BY <3>2, <3>3 DEF Inv, TypeOK
    <2> QED
      BY <2>1, <2>2, <2>3 DEF Next
  <1> QED
    BY <1>1, Invariance, PTL DEF Spec
=============================================================================
