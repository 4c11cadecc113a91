--------------------------- MODULE Snapshot_proofs ---------------------------
(***************************************************************************)
(* Theorems about Snapshot, for every set of jobs, callers and states and  *)
(* every choice of the calls that may fail.                                *)
(***************************************************************************)
EXTENDS Snapshot, TLAPS

\* A guest is saved by one job at a time.
OneSaver ==
    \A i, o \in Jobs : job[i].pc = "saving" /\ job[o].pc = "saving" => i = o

\* While a memory is owed the guest is off and no job is about to touch the
\* image: none is writing it and none is about to unlink it.
Safe ==
    owed # NoMemory => image = owed /\ ~On /\ ~Saving /\ ~LateDelete

Inv == TypeOK /\ OneSaver /\ Safe

LEMMA InitInv == Init => Inv
  <1> SUFFICES ASSUME Init PROVE Inv
    OBVIOUS
  <1> USE StatesAssumption, BoundsAssumption DEF Init
  <1>1. 1 \in Lives
    BY DEF Lives
  <1>2. guest \in GuestType /\ (On <=> guest.mem # NoMemory)
    BY <1>1 DEF GuestType, On, NoMemory
  <1>3. job \in [Jobs -> JobType] /\ \A j \in Jobs : job[j].pc = "none"
    BY DEF NoJob, JobType, JobPCs
  <1>4. call \in [Calls -> CallType]
    BY DEF NoCall, CallType, CallPCs
  <1>5. inst \in [Jobs -> {"absent", "starting", "running", "complete"}]
    OBVIOUS
  <1>6. TypeOK
    BY <1>1, <1>2, <1>3, <1>4, <1>5 DEF TypeOK
  <1>7. OneSaver /\ Safe
    BY <1>3 DEF OneSaver, Safe
  <1> QED
    BY <1>6, <1>7 DEF Inv

(***************************************************************************)
(* What a step does to the positions of the jobs.                          *)
(***************************************************************************)
Moves(j, a, b) ==
    /\ job[j].pc = a
    /\ job' \in [Jobs -> JobType]
    /\ job'[j].pc = b
    /\ \A o \in Jobs \ {j} : job'[o] = job[o]

LEMMA GotoMoves ==
  ASSUME TypeOK, NEW j \in Jobs, NEW a, NEW b \in JobPCs, Goto(j, a, b)
  PROVE  Moves(j, a, b)
  BY DEF TypeOK, Goto, Moves, JobType

LEMMA JobFailsMoves ==
  ASSUME TypeOK, NEW j \in Jobs, NEW a, JobFails(j, a)
  PROVE  /\ Moves(j, a, "done")
         /\ inst' \in [Jobs -> {"absent", "starting", "running", "complete"}]
  <1>1. "done" \in JobPCs
    BY DEF JobPCs
  <1>2. Moves(j, a, "done")
    BY <1>1 DEF TypeOK, JobFails, Moves, JobType
  <1>3. \/ inst' = [inst EXCEPT ![j] = "complete"]
        \/ inst' = inst
    BY DEF JobFails, SetStatus
  <1> QED
    BY <1>2, <1>3 DEF TypeOK

LEMMA SetStatusTyped ==
  ASSUME TypeOK, NEW j \in Jobs,
         NEW s \in {"starting", "running", "complete"}, SetStatus(j, s)
  PROVE  inst' \in [Jobs -> {"absent", "starting", "running", "complete"}]
  BY DEF TypeOK, SetStatus

(***************************************************************************)
(* A step of a job, and what it has to say of the memories.                *)
(***************************************************************************)
InstType == [Jobs -> {"absent", "starting", "running", "complete"}]
GuestTyped == guest \in GuestType /\ (On <=> guest.mem # NoMemory)

LEMMA JobStep ==
  ASSUME Inv, NEW j \in Jobs, NEW a, NEW b, Moves(j, a, b),
         b = "saving" => ~Saving,
         inst' \in InstType, GuestTyped', call' = call, lives' = lives,
         image' \in Lives \cup {NoImage, Partial},
         owed' \in Lives \cup {NoMemory},
         Safe'
  PROVE  Inv'
  <1>1. TypeOK'
    BY DEF Inv, TypeOK, Moves, GuestTyped, InstType
  <1>2. OneSaver'
    <2> SUFFICES ASSUME NEW i \in Jobs, NEW o \in Jobs,
                        job'[i].pc = "saving", job'[o].pc = "saving"
                 PROVE  i = o
      BY DEF OneSaver
    <2>1. CASE b = "saving"
      BY <2>1 DEF Moves, Saving
    <2>2. CASE b # "saving"
      BY <2>2 DEF Moves, Inv, OneSaver
    <2> QED
      BY <2>1, <2>2
  <1> QED
    BY <1>1, <1>2 DEF Inv

\* A job that neither begins to write nor is about to unlink the image, and
\* leaves guest and image as they are.
LEMMA QuietMove ==
  ASSUME Inv, NEW j \in Jobs, NEW a, NEW b, Moves(j, a, b),
         b \notin {"saving", "delete"}, inst' \in InstType,
         UNCHANGED <<guest, lives, image, owed, call>>
  PROVE  Inv'
  <1>1. GuestTyped' /\ (On' <=> On)
    BY DEF Inv, TypeOK, GuestTyped, On
  <1>2. (Saving' => Saving) /\ (LateDelete' => LateDelete)
    BY DEF Moves, Saving, LateDelete
  <1>3. Safe'
    BY <1>1, <1>2 DEF Inv, Safe
  <1>4. /\ image' \in Lives \cup {NoImage, Partial}
        /\ owed' \in Lives \cup {NoMemory}
    BY DEF Inv, TypeOK
  <1> QED
    BY <1>1, <1>3, <1>4, JobStep

(***************************************************************************)
(* A step that leaves the jobs and the image alone.                        *)
(***************************************************************************)
LEMMA OtherStep ==
  ASSUME Inv, UNCHANGED jobvars, GuestTyped', lives' \in Lives,
         call' \in [Calls -> CallType],
         owed' \in {owed, NoMemory}, owed' # NoMemory => ~On'
  PROVE  Inv'
  <1>1. TypeOK'
    BY DEF Inv, TypeOK, GuestTyped, jobvars
  <1>2. OneSaver'
    BY DEF Inv, OneSaver, jobvars
  <1>3. (Saving' <=> Saving) /\ (LateDelete' <=> LateDelete)
    BY DEF Saving, LateDelete, jobvars
  <1>4. Safe'
    BY <1>3 DEF Inv, Safe, jobvars
  <1> QED
    BY <1>1, <1>2, <1>4 DEF Inv

LEMMA StepTyped ==
  ASSUME TypeOK, NEW c \in Calls, NEW a, NEW b \in CallPCs, Step(c, a, b)
  PROVE  call' \in [Calls -> CallType]
  BY DEF TypeOK, Step, CallType

LEMMA FailsTyped ==
  ASSUME TypeOK, NEW c \in Calls, NEW a, Fails(c, a)
  PROVE  call' \in [Calls -> CallType]
  <1>1. "record" \in CallPCs
    BY DEF CallPCs
  <1> QED
    BY <1>1 DEF TypeOK, Fails, CallType

\* A request that changes nothing but its own position.
LEMMA CallOnly ==
  ASSUME Inv, UNCHANGED <<jobvars, guestvars>>, call' \in [Calls -> CallType]
  PROVE  Inv'
  <1>1. GuestTyped' /\ (On' <=> On) /\ UNCHANGED jobvars
    BY DEF Inv, TypeOK, GuestTyped, On, guestvars
  <1>2. lives' \in Lives /\ owed' = owed
    BY DEF Inv, TypeOK, guestvars
  <1>3. owed' # NoMemory => ~On'
    BY <1>1, <1>2 DEF Inv, Safe
  <1> QED
    BY <1>1, <1>2, <1>3, OtherStep

(***************************************************************************)
(* The steps of a job.                                                     *)
(***************************************************************************)
LEMMA QuietJobs ==
  ASSUME Inv, NEW j \in Jobs,
         \/ StartJob(j) \/ NoThread(j) \/ MarkRunning(j) \/ NotFound(j)
         \/ Lookup(j) \/ SaveRefused(j) \/ RestoreFails(j) \/ Complete(j)
  PROVE  Inv'
  <1> USE DEF guestvars
  <1>0. /\ TypeOK /\ inst \in InstType
        /\ {"start", "stuck", "lookup", "save", "restore", "complete",
            "done"} \subseteq JobPCs
    BY DEF Inv, TypeOK, InstType, JobPCs
  <1>1. CASE StartJob(j)
    <2>1. Moves(j, "none", "start")
      BY <1>0, <1>1 DEF StartJob, Moves, TypeOK, JobType
    <2>2. inst' \in InstType
      BY <1>0, <1>1 DEF StartJob, InstType
    <2> QED
      BY <1>1, <2>1, <2>2, QuietMove DEF StartJob
  <1>2. CASE NoThread(j)
    <2>1. Moves(j, "start", "stuck")
      BY <1>0, <1>2, GotoMoves DEF NoThread
    <2> QED
      BY <1>0, <1>2, <2>1, QuietMove DEF NoThread
  <1>3. CASE MarkRunning(j)
    <2>1. Moves(j, "start", "lookup")
      BY <1>0, <1>3, GotoMoves DEF MarkRunning
    <2>2. inst' \in InstType
      BY <1>0, <1>3, SetStatusTyped DEF MarkRunning, InstType
    <2> QED
      BY <1>3, <2>1, <2>2, QuietMove DEF MarkRunning
  <1>4. CASE NotFound(j)
    <2>1. Moves(j, "lookup", "done") /\ inst' \in InstType
      BY <1>0, <1>4, JobFailsMoves DEF NotFound, InstType
    <2> QED
      BY <1>4, <2>1, QuietMove DEF NotFound
  <1>5. CASE Lookup(j)
    <2>1. PICK b \in {"save", "restore"} : Goto(j, "lookup", b)
      BY <1>5 DEF Lookup
    <2>2. Moves(j, "lookup", b)
      BY <1>0, <2>1, GotoMoves
    <2> QED
      BY <1>0, <1>5, <2>2, QuietMove DEF Lookup
  <1>6. CASE SaveRefused(j)
    <2>1. Moves(j, "save", "done") /\ inst' \in InstType
      BY <1>0, <1>6, JobFailsMoves DEF SaveRefused, InstType
    <2> QED
      BY <1>6, <2>1, QuietMove DEF SaveRefused
  <1>7. CASE RestoreFails(j)
    <2>1. Moves(j, "restore", "done") /\ inst' \in InstType
      BY <1>0, <1>7, JobFailsMoves DEF RestoreFails, InstType
    <2> QED
      BY <1>7, <2>1, QuietMove DEF RestoreFails
  <1>8. CASE Complete(j)
    <2>1. Moves(j, "complete", "done")
      BY <1>0, <1>8, GotoMoves DEF Complete
    <2>2. inst' \in InstType
      BY <1>0, <1>8, SetStatusTyped DEF Complete, InstType
    <2> QED
      BY <1>8, <2>1, <2>2, QuietMove DEF Complete
  <1> QED
    BY <1>1, <1>2, <1>3, <1>4, <1>5, <1>6, <1>7, <1>8

\* The file is truncated only while the guest runs: nothing is owed then.
LEMMA BeginSaveInv ==
  ASSUME Inv, NEW j \in Jobs, BeginSave(j) PROVE Inv'
  <1> USE DEF guestvars
  <1>1. TypeOK /\ inst' \in InstType /\ "saving" \in JobPCs
    BY DEF Inv, TypeOK, InstType, JobPCs, BeginSave
  <1>2. Moves(j, "save", "saving")
    BY <1>1, GotoMoves DEF BeginSave
  <1>3. owed = NoMemory
    BY DEF Inv, Safe, BeginSave
  <1>4. Safe'
    BY <1>3 DEF Safe, BeginSave
  <1>5. GuestTyped' /\ owed' \in Lives \cup {NoMemory}
    BY <1>1 DEF TypeOK, GuestTyped, On, BeginSave
  <1> QED
    BY <1>1, <1>2, <1>4, <1>5, JobStep DEF BeginSave

\* A file is removed by the job that writes it: nothing is owed then.
LEMMA SaveFailsInv ==
  ASSUME Inv, NEW j \in Jobs, SaveFails(j) PROVE Inv'
  <1> USE DEF guestvars
  <1>1. TypeOK
    BY DEF Inv
  <1>2. Moves(j, "saving", "done") /\ inst' \in InstType
    BY <1>1, JobFailsMoves DEF SaveFails, InstType
  <1>3. owed = NoMemory
    BY DEF Inv, Safe, SaveFails, JobFails, Saving
  <1>4. Safe'
    BY <1>3 DEF Safe, SaveFails
  <1>5. GuestTyped' /\ owed' \in Lives \cup {NoMemory}
    BY <1>1 DEF TypeOK, GuestTyped, On, SaveFails
  <1> QED
    BY <1>2, <1>4, <1>5, JobStep DEF SaveFails

\* The only step that owes a memory: the guest is off, its memory in the file,
\* and the one job that was writing it has left off.
LEMMA EndSaveInv ==
  ASSUME Inv, NEW j \in Jobs, EndSave(j) PROVE Inv'
  <1>1. TypeOK /\ {"restore", "complete"} \subseteq JobPCs
    BY DEF Inv, JobPCs
  <1>2. PICK b \in {"restore", "complete"} : Goto(j, "saving", b)
    BY DEF EndSave
  <1>3. Moves(j, "saving", b)
    BY <1>1, <1>2, GotoMoves
  <1>4. inst' \in InstType
    BY <1>1, SetStatusTyped DEF EndSave, InstType
  <1>5. guest.mem \in Lives /\ guest \in GuestType
    BY <1>1 DEF TypeOK, EndSave, GuestType
  <1>6. GuestTyped' /\ ~On'
    BY <1>5 DEF GuestTyped, EndSave, PowerOff, On, GuestType
  <1>7. /\ image' \in Lives \cup {NoImage, Partial}
        /\ owed' \in Lives \cup {NoMemory}
    BY <1>1, <1>5 DEF EndSave, TypeOK
  <1>8. ~Saving'
    <2> SUFFICES ASSUME NEW o \in Jobs, job'[o].pc = "saving" PROVE FALSE
      BY DEF Saving
    <2> QED
      BY <1>2, <1>3 DEF Moves, Inv, OneSaver
  <1>9. Safe'
    <2> SUFFICES ASSUME owed' # NoMemory PROVE Safe'
      BY DEF Safe
    <2>1. image' = owed' /\ ~LateDelete
      BY DEF EndSave
    <2>2. ~LateDelete'
      BY <1>2, <1>3, <2>1 DEF LateDelete, Moves
    <2> QED
      BY <1>6, <1>8, <2>1, <2>2 DEF Safe
  <1> QED
    BY <1>2, <1>3, <1>4, <1>6, <1>7, <1>9, JobStep DEF EndSave

\* A restored guest is owed nothing, so the unlink that follows loses nothing.
LEMMA RestoreInv ==
  ASSUME Inv, NEW j \in Jobs, Restore(j) PROVE Inv'
  <1>1. TypeOK /\ {"delete", "complete"} \subseteq JobPCs
    BY DEF Inv, JobPCs
  <1>2. PICK b \in {"delete", "complete"} : Goto(j, "restore", b)
    BY DEF Restore
  <1>3. Moves(j, "restore", b)
    BY <1>1, <1>2, GotoMoves
  <1>4. inst' \in InstType
    BY <1>1, SetStatusTyped DEF Restore, InstType
  <1>5. PICK run \in {"on", "paused"} :
          guest' = [guest EXCEPT !.run = run, !.mem = image]
    BY DEF Restore
  <1>6. image \in Lives /\ image # NoMemory
    BY BoundsAssumption DEF Restore, Lives, NoMemory
  <1>7. guest' \in GuestType
    BY <1>1, <1>5, <1>6 DEF TypeOK, GuestType
  <1>8. guest'.run # "off" /\ guest'.mem # NoMemory
    BY <1>1, <1>5, <1>6 DEF TypeOK, GuestType
  <1>9. GuestTyped'
    BY <1>7, <1>8 DEF GuestTyped, On
  <1>10. Safe'
    BY DEF Safe, Restore
  <1>11. /\ image' \in Lives \cup {NoImage, Partial}
         /\ owed' \in Lives \cup {NoMemory}
    BY <1>1 DEF Restore, TypeOK
  <1> QED
    BY <1>2, <1>3, <1>4, <1>9, <1>10, <1>11, JobStep DEF Restore

LEMMA DeleteImageInv ==
  ASSUME Inv, NEW j \in Jobs, DeleteImage(j) PROVE Inv'
  <1> USE DEF guestvars
  <1>1. TypeOK /\ inst' \in InstType /\ "complete" \in JobPCs
    BY DEF Inv, TypeOK, InstType, JobPCs, DeleteImage
  <1>2. Moves(j, "delete", "complete")
    BY <1>1, GotoMoves DEF DeleteImage
  <1>3. owed = NoMemory
    BY DEF Inv, Safe, DeleteImage, Goto, LateDelete
  <1>4. Safe'
    BY <1>3 DEF Safe, DeleteImage
  <1>5. GuestTyped' /\ owed' \in Lives \cup {NoMemory}
    BY <1>1 DEF TypeOK, GuestTyped, On, DeleteImage
  <1>6. image' \in Lives \cup {NoImage, Partial}
    BY <1>1 DEF TypeOK, DeleteImage
  <1> QED
    BY <1>1, <1>2, <1>4, <1>5, <1>6, JobStep DEF DeleteImage

(***************************************************************************)
(* The steps of clients and of the guest.                                  *)
(***************************************************************************)
LEMMA DestroySnapshotInv == ASSUME Inv, DestroySnapshot PROVE Inv'
  <1>1. TypeOK'
    BY DEF Inv, TypeOK, DestroySnapshot, On
  <1>2. OneSaver' /\ Safe'
    BY DEF Inv, OneSaver, Safe, DestroySnapshot
  <1> QED
    BY <1>1, <1>2 DEF Inv

\* A guest that is switched off, or stays off, takes no memory away.
LEMMA PowerOffInv ==
  ASSUME Inv, PowerOff, UNCHANGED <<jobvars, lives, owed>>,
         On, call' \in [Calls -> CallType]
  PROVE  Inv'
  <1>1. TypeOK /\ owed = NoMemory
    BY DEF Inv, Safe
  <1>2. GuestTyped'
    BY <1>1 DEF TypeOK, GuestTyped, GuestType, PowerOff, On
  <1>3. lives' \in Lives /\ UNCHANGED jobvars
    BY <1>1 DEF TypeOK
  <1> QED
    BY <1>1, <1>2, <1>3, OtherStep

\* A guest that runs is suspended or resumed.
LEMMA RunInv ==
  ASSUME Inv, NEW run \in {"on", "paused"}, On,
         guest' = [guest EXCEPT !.run = run],
         UNCHANGED <<jobvars, lives, owed>>, call' \in [Calls -> CallType]
  PROVE  Inv'
  <1>1. TypeOK /\ owed = NoMemory
    BY DEF Inv, Safe
  <1>2. GuestTyped'
    BY <1>1 DEF TypeOK, GuestTyped, GuestType, On
  <1>3. lives' \in Lives /\ UNCHANGED jobvars
    BY <1>1 DEF TypeOK
  <1> QED
    BY <1>1, <1>2, <1>3, OtherStep

LEMMA CreateInv == ASSUME Inv, NEW c \in Calls, Create(c) PROVE Inv'
  <1>1. TypeOK /\ "record" \in CallPCs
    BY DEF Inv, CallPCs
  <1>2. call' \in [Calls -> CallType]
    BY <1>1, StepTyped DEF Create
  <1>3. lives' \in Lives /\ lives' # NoMemory
    BY <1>1, BoundsAssumption DEF Create, Boot, TypeOK, Lives, NoMemory
  <1>4. guest' \in GuestType
    BY <1>1, <1>3 DEF Create, Boot, TypeOK, GuestType
  <1>5. guest'.run = "on" /\ guest'.mem = lives'
    BY <1>1 DEF Create, Boot, TypeOK, GuestType
  <1>6. GuestTyped'
    BY <1>3, <1>4, <1>5 DEF GuestTyped, On
  <1>7. UNCHANGED jobvars /\ owed' = NoMemory
    BY DEF Create
  <1> QED
    BY <1>2, <1>3, <1>6, <1>7, OtherStep

LEMMA DefineInv == ASSUME Inv, NEW c \in Calls, Define(c) PROVE Inv'
  <1>1. TypeOK /\ "create" \in CallPCs
    BY DEF Inv, CallPCs
  <1>2. call' \in [Calls -> CallType]
    BY <1>1, StepTyped DEF Define
  <1>3. GuestTyped' /\ (On' <=> On)
    BY <1>1 DEF Define, TypeOK, GuestTyped, GuestType, On
  <1>4. lives' \in Lives /\ UNCHANGED jobvars /\ owed' = owed
    BY <1>1 DEF TypeOK, Define
  <1>5. owed' # NoMemory => ~On'
    BY <1>3, <1>4 DEF Inv, Safe
  <1> QED
    BY <1>2, <1>3, <1>4, <1>5, OtherStep

\* Requests, refusals and the steps of domain_reset that only look.
LEMMA QuietCalls ==
  ASSUME Inv, NEW c \in Calls,
         \/ Request(c) \/ Invalid(c) \/ HasSnapshot(c) \/ HasNone(c)
         \/ CreateFails(c) \/ Ask(c) \/ CallRefused(c) \/ ReadXml(c)
         \/ XmlFails(c) \/ ResetDestroyFails(c) \/ Relookup(c)
         \/ DefineFails(c) \/ Record(c)
  PROVE  Inv'
  <1>1. TypeOK /\ CallPCs = {"idle", "act", "create", "destroy", "relookup",
                             "define", "record"}
    BY DEF Inv, CallPCs
  <1>2. UNCHANGED <<jobvars, guestvars>>
    BY DEF Request, Invalid, HasSnapshot, HasNone, CreateFails, Ask,
           CallRefused, ReadXml, XmlFails, ResetDestroyFails, Relookup,
           DefineFails, Record
  <1>3. CASE Request(c)
    <2>1. (IF On /\ Saving THEN "paused" ELSE guest.run)
              \in {"off", "on", "paused"}
      BY <1>1 DEF TypeOK, GuestType
    <2>2. PICK s \in States :
            call' = [call EXCEPT ![c] =
                       [pc |-> "act", state |-> s, ok |-> TRUE,
                        seen |-> IF On /\ Saving THEN "paused"
                                 ELSE guest.run]]
      BY <1>3 DEF Request
    <2> DEFINE n == [pc |-> "act", state |-> s, ok |-> TRUE,
                     seen |-> IF On /\ Saving THEN "paused" ELSE guest.run]
    <2>3. n \in CallType
      BY <1>1, <2>1 DEF CallType
    <2>4. call' = [call EXCEPT ![c] = n]
      BY <2>2
    <2> HIDE DEF n
    <2> QED
      BY <1>1, <1>2, <2>3, <2>4, CallOnly DEF TypeOK
  <1>4. CASE Record(c)
    <2>1. NoCall \in CallType
      BY <1>1 DEF NoCall, CallType
    <2> QED
      BY <1>1, <1>2, <1>4, <2>1, CallOnly DEF TypeOK, Record
  <1>5. CASE \/ Invalid(c) \/ HasSnapshot(c) \/ CreateFails(c)
             \/ CallRefused(c) \/ XmlFails(c) \/ ResetDestroyFails(c)
             \/ DefineFails(c)
    <2>1. PICK a \in {"act", "create", "destroy", "define"} : Fails(c, a)
      BY <1>5 DEF Invalid, HasSnapshot, CreateFails, CallRefused, XmlFails,
                  ResetDestroyFails, DefineFails
    <2> QED
      BY <1>1, <1>2, <2>1, FailsTyped, CallOnly
  <1>6. CASE HasNone(c) \/ Ask(c) \/ ReadXml(c) \/ Relookup(c)
    <2>1. PICK a \in {"act", "relookup"},
               b \in {"create", "record", "destroy", "define"} : Step(c, a, b)
      BY <1>6 DEF HasNone, Ask, ReadXml, Relookup
    <2> QED
      BY <1>1, <1>2, <2>1, StepTyped, CallOnly
  <1> QED
    BY <1>3, <1>4, <1>5, <1>6

LEMMA StepInv == Inv /\ [Next]_vars => Inv'
  <1> SUFFICES ASSUME Inv, [Next]_vars PROVE Inv'
    OBVIOUS
  <1>0. TypeOK /\ {"record", "relookup"} \subseteq CallPCs
    BY DEF Inv, CallPCs
  <1>1. CASE GuestStops
    BY <1>0, <1>1, PowerOffInv DEF GuestStops, jobvars, On, TypeOK
  <1>2. CASE DestroySnapshot
    BY <1>2, DestroySnapshotInv
  <1>3. ASSUME NEW j \in Jobs, StartJob(j) \/ NoThread(j) \/ Thread(j)
        PROVE  Inv'
    BY <1>3, QuietJobs, BeginSaveInv, SaveFailsInv, EndSaveInv, RestoreInv,
       DeleteImageInv DEF Thread
  <1>4. ASSUME NEW c \in Calls, Request(c) \/ ChangeStep(c) PROVE Inv'
    <2>1. CASE Create(c)
      BY <2>1, CreateInv
    <2>2. CASE Define(c)
      BY <2>2, DefineInv
    <2>3. CASE Resume(c)
      <3>1. call' \in [Calls -> CallType]
        BY <1>0, <2>3, StepTyped DEF Resume
      <3>2. On
        BY <2>3 DEF Resume, On
      <3> QED
        BY <2>3, <3>1, <3>2, RunInv DEF Resume
    <2>4. CASE Suspend(c)
      <3>1. call' \in [Calls -> CallType]
        BY <1>0, <2>4, StepTyped DEF Suspend
      <3> QED
        BY <2>4, <3>1, RunInv DEF Suspend
    <2>5. CASE Destroy(c)
      <3>1. call' \in [Calls -> CallType]
        BY <1>0, <2>5, StepTyped DEF Destroy
      <3> QED
        BY <2>5, <3>1, PowerOffInv DEF Destroy
    <2>6. CASE ResetDestroy(c)
      <3>1. call' \in [Calls -> CallType]
        BY <1>0, <2>6, StepTyped DEF ResetDestroy
      <3> QED
        BY <2>6, <3>1, PowerOffInv DEF ResetDestroy
    <2> QED
      BY <1>4, <2>1, <2>2, <2>3, <2>4, <2>5, <2>6, QuietCalls DEF ChangeStep
  <1>5. CASE UNCHANGED vars
    <2>1. TypeOK'
      BY <1>5 DEF vars, Inv, TypeOK, On
    <2>2. OneSaver' /\ Safe'
      BY <1>5 DEF vars, Inv, OneSaver, Safe, On, Saving, LateDelete
    <2> QED
      BY <2>1, <2>2 DEF Inv
  <1> QED
    BY <1>1, <1>2, <1>3, <1>4, <1>5 DEF Next

LEMMA Invariance == Spec => []Inv
  BY InitInv, StepInv, PTL DEF Spec

\* The job contexts, the records of the CIMOM, the guest and its image keep
\* their types whatever the requests do; a guest has a memory exactly while it
\* runs.
THEOREM TypesCorrect == Spec => []TypeOK
  <1>1. Inv => TypeOK
    BY DEF Inv
  <1> QED
    BY <1>1, Invariance, PTL

\* The memory of a guest that a snapshot job has saved and switched off stays
\* in the image, and the guest is shown as suspended, through any interleaving
\* of snapshot jobs, state changes, deletions and failures, until it is
\* restored or given up.
THEOREM MemoryIsKept == Spec => []MemoryKept
  <1>1. Inv => MemoryKept
    <2> SUFFICES ASSUME Inv, owed # NoMemory
                 PROVE  image = owed /\ EnabledState = "suspended"
      BY DEF MemoryKept
    <2>1. image = owed /\ ~On
      BY DEF Inv, Safe
    <2>2. image # NoImage
      BY <2>1 DEF NoImage, NoMemory
    <2> QED
      BY <2>1, <2>2 DEF EnabledState
  <1> QED
    BY <1>1, Invariance, PTL

\* No step undefines the guest, and of the requests that have not failed only
\* one that has created the guest leaves a reset behind it.
LEMMA ResetStep ==
  ASSUME Inv, Inv', ResetDefines, [Next]_vars PROVE ResetDefines'
  <1>0. TypeOK /\ TypeOK'
    BY DEF Inv
  <1>1. guest.def => guest'.def
    BY <1>0 DEF TypeOK, GuestType, Next, vars, GuestStops, DestroySnapshot,
       PowerOff, StartJob, NoThread, Thread, MarkRunning, NotFound, Lookup,
       BeginSave, SaveRefused, SaveFails, EndSave, RestoreFails, Restore,
       DeleteImage, Complete, Request, ChangeStep, Invalid, HasSnapshot,
       HasNone, Create, Boot, CreateFails, Resume, Suspend, Destroy, Ask,
       CallRefused, ReadXml, XmlFails, ResetDestroy, ResetDestroyFails,
       Relookup, Define, DefineFails, Record, guestvars
  <1>2. SUFFICES ASSUME NEW d \in Calls, call'[d].pc = "record",
                        call'[d].state = "reset", call'[d].ok
                 PROVE  guest'.def
    BY DEF ResetDefines
  <1>3. CASE call'[d] = call[d]
    BY <1>1, <1>2, <1>3 DEF ResetDefines
  <1>4. CASE call'[d] # call[d]
    <2>1. PICK c \in Calls : Request(c) \/ ChangeStep(c)
      BY <1>4 DEF Next, vars, GuestStops, DestroySnapshot, StartJob, NoThread,
         Thread, MarkRunning, NotFound, Lookup, BeginSave, SaveRefused,
         SaveFails, EndSave, RestoreFails, Restore, DeleteImage, Complete
    <2>2. CASE Create(c)
      BY <1>0, <2>2 DEF Create, Boot, TypeOK, GuestType
    <2>3. ~Request(c) /\ ~Record(c)
      BY <1>0, <1>2, <1>4 DEF Request, Record, NoCall, TypeOK, CallType
    <2>4. \A a : ~Fails(c, a)
      BY <1>0, <1>2, <1>4 DEF Fails, TypeOK, CallType
    <2>5. CASE Resume(c) \/ Suspend(c) \/ Destroy(c) \/ Ask(c)
      <3>1. Step(c, "act", "record") /\ call[c].state # "reset"
        BY <2>5 DEF Resume, Suspend, Destroy, Ask, Asked
      <3> QED
        BY <1>0, <1>2, <1>4, <3>1 DEF Step, TypeOK, CallType
    <2>6. CASE HasNone(c) \/ ReadXml(c) \/ ResetDestroy(c) \/ Relookup(c)
               \/ Define(c)
      <3>1. PICK a \in {"act", "destroy", "relookup", "define"},
                 b \in {"create", "destroy", "relookup", "define"} :
              Step(c, a, b)
        BY <2>6 DEF HasNone, ReadXml, ResetDestroy, Relookup, Define
      <3> QED
        BY <1>0, <1>2, <1>4, <3>1 DEF Step, TypeOK, CallType
    <2> QED
      BY <2>1, <2>2, <2>3, <2>4, <2>5, <2>6 DEF ChangeStep, Invalid,
         HasSnapshot, CreateFails, CallRefused, XmlFails, ResetDestroyFails,
         DefineFails
  <1> QED
    BY <1>3, <1>4

\* A reset that reports success leaves the guest defined, even one that
\* existed only in memory, whatever destroys it meanwhile.
THEOREM ResetKeepsGuest == Spec => []ResetDefines
  <1>1. Init => ResetDefines
    BY DEF Init, ResetDefines, NoCall
  <1> QED
    BY <1>1, ResetStep, Invariance, PTL DEF Spec

(***************************************************************************)
(* Snapshot implements CimJob: what JobState can be where the thread is.   *)
(***************************************************************************)
Shape(pc, state) ==
    /\ pc = "none" <=> state = "absent"
    /\ pc \in {"start", "stuck"} => state = "starting"
    /\ pc # "done" => state # "complete"
Shapes == \A j \in Jobs : Shape(job[j].pc, inst[j])

\* A thread goes from a to b, and JobState with it, or not.
Advances(j, a, b) ==
    /\ Moves(j, a, b)
    /\ a # "done" /\ b # "none"
    /\ b \in {"start", "stuck"} => a \in {"start", "stuck"} /\ inst' = inst
    /\ \/ inst' = inst
       \/ inst' = [inst EXCEPT ![j] = "running"]
       \/ b = "done" /\ inst' = [inst EXCEPT ![j] = "complete"]

LEMMA JobAdvances ==
  ASSUME Inv, Shapes, NEW j \in Jobs,
         StartJob(j) \/ NoThread(j) \/ Thread(j)
  PROVE  \/ StartJob(j)
         \/ \E a \in JobPCs \ {"none"}, b \in JobPCs : Advances(j, a, b)
  <1>0. /\ TypeOK
        /\ JobPCs = {"none", "start", "stuck", "lookup", "save", "saving",
                     "restore", "delete", "complete", "done"}
    BY DEF Inv, JobPCs
  <1>1. CASE NoThread(j)
    <2>1. Moves(j, "start", "stuck") /\ inst' = inst
      BY <1>0, <1>1, GotoMoves DEF NoThread
    <2> QED
      BY <1>0, <2>1 DEF Advances
  <1>2. CASE \/ Lookup(j) \/ BeginSave(j) \/ DeleteImage(j)
    <2>1. PICK a \in {"lookup", "save", "delete"},
               b \in {"save", "restore", "saving", "complete"} : Goto(j, a, b)
      BY <1>2 DEF Lookup, BeginSave, DeleteImage
    <2>2. Moves(j, a, b)
      BY <1>0, <2>1, GotoMoves
    <2>3. inst' = inst
      BY <1>2 DEF Lookup, BeginSave, DeleteImage
    <2> QED
      BY <1>0, <2>2, <2>3 DEF Advances
  <1>3. CASE MarkRunning(j) \/ EndSave(j) \/ Restore(j)
    <2>1. PICK a \in {"start", "saving", "restore"},
               b \in {"lookup", "restore", "complete", "delete"} : Goto(j, a, b)
      BY <1>3 DEF MarkRunning, EndSave, Restore
    <2>2. Moves(j, a, b)
      BY <1>0, <2>1, GotoMoves
    <2>3. inst' = inst \/ inst' = [inst EXCEPT ![j] = "running"]
      BY <1>3 DEF MarkRunning, EndSave, Restore, SetStatus
    <2> QED
      BY <1>0, <2>2, <2>3 DEF Advances
  <1>4. CASE NotFound(j) \/ SaveRefused(j) \/ SaveFails(j) \/ RestoreFails(j)
    <2>1. PICK a \in {"lookup", "save", "saving", "restore"} : JobFails(j, a)
      BY <1>4 DEF NotFound, SaveRefused, SaveFails, RestoreFails
    <2>2. Moves(j, a, "done")
      BY <1>0, <2>1, JobFailsMoves
    <2>3. inst' = inst \/ inst' = [inst EXCEPT ![j] = "complete"]
      BY <2>1 DEF JobFails, SetStatus
    <2> QED
      BY <1>0, <2>2, <2>3 DEF Advances
  <1>5. CASE Complete(j)
    <2>1. Moves(j, "complete", "done")
      BY <1>0, <1>5, GotoMoves DEF Complete
    <2>2. inst' = inst \/ inst' = [inst EXCEPT ![j] = "complete"]
      BY <1>5 DEF Complete, SetStatus
    <2> QED
      BY <1>0, <2>1, <2>2 DEF Advances
  <1> QED
    BY <1>1, <1>2, <1>3, <1>4, <1>5 DEF Thread

LEMMA JobsStep ==
  ASSUME Inv, Shapes, NEW j \in Jobs,
         StartJob(j) \/ NoThread(j) \/ Thread(j)
  PROVE  Shapes' /\ [Job!Next]_<<inst, [o \in Jobs |-> "nothing"]>>
  <1> DEFINE told == [o \in Jobs |-> "nothing"]
  <1>0. inst \in InstType /\ TypeOK /\ Shape(job[j].pc, inst[j])
    BY DEF Inv, TypeOK, InstType, Shapes
  <1>1. told = [told EXCEPT ![j] = "nothing"] /\ told[j] = "nothing"
    OBVIOUS
  <1>2. CASE StartJob(j)
    <2>1. /\ inst[j] = "absent" /\ inst' = [inst EXCEPT ![j] = "starting"]
          /\ job'[j].pc = "start" /\ \A o \in Jobs \ {j} : job'[o] = job[o]
      BY <1>0, <1>2 DEF StartJob, Shape, TypeOK
    <2>2. Shapes'
      BY <1>0, <2>1 DEF Shapes, Shape, InstType
    <2>3. Job!Create(j)
      BY <2>1 DEF Job!Create
    <2> QED
      BY <2>2, <2>3 DEF Job!Next
  <1>3. ASSUME NEW a \in JobPCs \ {"none"}, NEW b \in JobPCs, Advances(j, a, b)
        PROVE  Shapes' /\ [Job!Next]_<<inst, told>>
    <2>1. inst[j] \in {"starting", "running"}
      BY <1>0, <1>3 DEF Advances, Moves, Shape, InstType
    <2>2. Shapes'
      BY <1>0, <1>3, <2>1 DEF Advances, Moves, Shapes, Shape, InstType
    <2>3. CASE inst' # inst
      <3>1. PICK s \in {"running", "complete"} : inst' = [inst EXCEPT ![j] = s]
        BY <1>3, <2>3 DEF Advances
      <3>2. s \in Job!NextStates[inst[j]] /\ "nothing" \in Job!NextKinds["nothing"]
        BY <2>1 DEF Job!NextStates, Job!NextKinds
      <3>3. Job!Advance(j)
        BY <1>1, <2>1, <3>1, <3>2 DEF Job!Advance
      <3> QED
        BY <2>2, <3>3 DEF Job!Next
    <2> QED
      BY <2>2, <2>3
  <1> QED
    BY <1>2, <1>3, JobAdvances

\* What a client sees: the JobStates; the service raises no indications.
client == <<inst, [j \in Jobs |-> "nothing"]>>

\* To a client a snapshot is a CIM job that is created once and only advances,
\* although its saves and restores interleave with anything and its failures
\* end it early (safety part).
THEOREM SnapshotIsCimJob == Spec => ImplementsJob
  <1>1. Init => Shapes /\ Job!Init
    <2> SUFFICES ASSUME Init PROVE Shapes /\ Job!Init
      OBVIOUS
    <2>1. Shapes
      BY DEF Init, Shapes, Shape, NoJob
    <2> QED
      BY <2>1 DEF Init, Job!Init
  <1>2. Inv /\ Shapes /\ [Next]_vars
          => Shapes' /\ [Job!Next]_client
    <2> SUFFICES ASSUME Inv, Shapes, [Next]_vars
                 PROVE  Shapes' /\ [Job!Next]_client
      OBVIOUS
    <2>1. CASE UNCHANGED <<job, inst>>
      BY <2>1 DEF Shapes, client
    <2>2. ASSUME NEW c \in Calls, Request(c) \/ ChangeStep(c)
          PROVE  UNCHANGED <<job, inst>>
      BY <2>2 DEF Request, ChangeStep, Invalid, HasSnapshot, HasNone, Create,
         CreateFails, Resume, Suspend, Destroy, Ask, CallRefused, ReadXml,
         XmlFails, ResetDestroy, ResetDestroyFails, Relookup, Define,
         DefineFails, Record, jobvars
    <2>3. CASE GuestStops \/ DestroySnapshot \/ UNCHANGED vars
      BY <2>1, <2>3 DEF GuestStops, DestroySnapshot, vars
    <2> QED
      BY <2>1, <2>2, <2>3, JobsStep DEF Next, client
  <1>3. Spec => Job!Init /\ [][Job!Next]_client
    BY <1>1, <1>2, Invariance, PTL DEF Spec
  <1> QED
    BY <1>3, PTL DEF ImplementsJob, Job!Spec, client

-----------------------------------------------------------------------------
(***************************************************************************)
(* What ComesBack needs of the code, for all constants: a thread that has  *)
(* begun has finitely much left to do, and leaves its restore in one of    *)
(* two ways.                                                               *)
(***************************************************************************)
Left == [lookup |-> 6, save |-> 5, saving |-> 4, restore |-> 3, delete |-> 2,
         complete |-> 1, done |-> 0]
Working == DOMAIN Left \ {"done"}

LEMMA OthersAlone ==
  ASSUME Inv, NEW j \in Jobs, StartJob(j) \/ NoThread(j) \/ Thread(j)
  PROVE  \A o \in Jobs \ {j} : job'[o] = job[o]
  <1>1. job \in [Jobs -> JobType]
    BY DEF Inv, TypeOK
  <1> QED
    BY <1>1 DEF StartJob, NoThread, Thread, MarkRunning, NotFound, Lookup, BeginSave,
        SaveRefused, SaveFails, EndSave, RestoreFails, Restore, DeleteImage, Complete,
        Goto, JobFails

LEMMA ThreadGoesOn ==
  ASSUME Inv, NEW j \in Jobs, Thread(j), job[j].pc \in Working
  PROVE  /\ job'[j].pc \in DOMAIN Left /\ Left[job'[j].pc] < Left[job[j].pc]
         /\ job[j].pc = "restore" => On' \/ ~job'[j].ok
  <1>1. TypeOK /\ job \in [Jobs -> JobType]
    BY DEF Inv, TypeOK
  <1>2. job[j].pc # "start"
    BY DEF Working, Left
  <1>3. CASE NotFound(j) \/ SaveRefused(j) \/ SaveFails(j) \/ RestoreFails(j)
    <2>1. PICK a \in {"lookup", "save", "saving", "restore"} : JobFails(j, a)
      BY <1>3 DEF NotFound, SaveRefused, SaveFails, RestoreFails
    <2> DEFINE r == [job[j] EXCEPT !.pc = "done", !.ok = FALSE]
    <2>2. r.pc = "done" /\ ~r.ok
      BY <1>1 DEF JobType
    <2>3. job[j].pc = a /\ job' = [job EXCEPT ![j] = r]
      BY <2>1 DEF JobFails
    <2> HIDE DEF r
    <2>4. job'[j].pc = "done" /\ ~job'[j].ok
      BY <1>1, <2>2, <2>3
    <2> QED
      BY <2>3, <2>4 DEF Left
  <1>4. CASE Lookup(j) \/ BeginSave(j) \/ EndSave(j) \/ DeleteImage(j) \/ Complete(j)
    <2>1. PICK a \in DOMAIN Left, b \in DOMAIN Left :
             Goto(j, a, b) /\ Left[b] < Left[a] /\ a # "restore"
      BY <1>4 DEF Lookup, BeginSave, EndSave, DeleteImage, Complete, Left
    <2>2. job[j].pc = a /\ job'[j].pc = b
      BY <1>1, <2>1 DEF Goto, JobType
    <2> QED
      BY <2>1, <2>2
  <1>5. CASE Restore(j)
    <2>1. PICK b \in {"complete", "delete"} : Goto(j, "restore", b)
      BY <1>5 DEF Restore
    <2>2. job[j].pc = "restore" /\ job'[j].pc = b
      BY <1>1, <2>1 DEF Goto, JobType
    <2>3. On'
      <3>1. guest \in GuestType
        BY DEF Inv, TypeOK
      <3> QED
        BY <1>5, <3>1 DEF Restore, On, GuestType
    <2> QED
      BY <2>2, <2>3 DEF Left
  <1>6. ~MarkRunning(j)
    BY <1>2 DEF MarkRunning, Goto
  <1> QED
    BY <1>3, <1>4, <1>5, <1>6 DEF Thread

\* A job's thread has ever less left to do and nobody else moves it, and the
\* step with which it leaves its restore either has the guest run again or
\* fails the job (do_snapshot, snap_job_set_failed): a guest that was
\* switched off only to be saved is not left off in silence.
THEOREM RestoreDecides ==
  Spec => [][\A j \in Jobs : job[j].pc \in Working =>
               IF Thread(j)
               THEN /\ job'[j].pc \in DOMAIN Left
                    /\ Left[job'[j].pc] < Left[job[j].pc]
                    /\ job[j].pc = "restore" => On' \/ ~job'[j].ok
               ELSE job'[j] = job[j]]_vars
  <1>1. Inv /\ Next => \A j \in Jobs : job[j].pc \in Working =>
               IF Thread(j)
               THEN /\ job'[j].pc \in DOMAIN Left
                    /\ Left[job'[j].pc] < Left[job[j].pc]
                    /\ job[j].pc = "restore" => On' \/ ~job'[j].ok
               ELSE job'[j] = job[j]
    <2> SUFFICES ASSUME Inv, Next, NEW j \in Jobs, job[j].pc \in Working, ~Thread(j)
                 PROVE  job'[j] = job[j]
      BY ThreadGoesOn
    <2>1. ASSUME NEW c \in Calls, Request(c) \/ ChangeStep(c)
          PROVE  job' = job
      BY <2>1 DEF Request, ChangeStep, Invalid, HasSnapshot, HasNone, Create,
         CreateFails, Resume, Suspend, Destroy, Ask, CallRefused, ReadXml,
         XmlFails, ResetDestroy, ResetDestroyFails, Relookup, Define,
         DefineFails, Record, jobvars
    <2>2. CASE GuestStops \/ DestroySnapshot
      BY <2>2 DEF GuestStops, DestroySnapshot
    <2>3. ASSUME NEW o \in Jobs, StartJob(o) \/ NoThread(o) \/ Thread(o)
          PROVE  job'[j] = job[j]
      <3>1. CASE o = j
        <4>1. job[j].pc \in {"none", "start"}
          BY <2>3, <3>1 DEF StartJob, NoThread, Goto
        <4> QED
          BY <4>1 DEF Working, Left
      <3>2. CASE o # j
        BY <2>3, <3>2, OthersAlone
      <3> QED
        BY <3>1, <3>2
    <2> QED
      BY <2>1, <2>2, <2>3 DEF Next
  <1> QED
    BY <1>1, Invariance, PTL DEF Spec
=============================================================================
