------------------------------ MODULE InfoStore ------------------------------
(***************************************************************************)
(* libxkutil/infostore.c: the provider's own record of a domain, one XML   *)
(* file per domain name, that keeps what libvirt does not (requested       *)
(* state, scheduler weight and limit, a migration flag).                   *)
(*                                                                         *)
(* A caller opens the file, takes flock(LOCK_EX) on it, parses it into     *)
(* memory, reads or sets a key, and closes: the whole document is written  *)
(* back over the truncated file, even when nothing was set.  The record    *)
(* carries the uuid of its domain; a caller whose domain has another uuid  *)
(* unlinks the file and opens a new one.  A lock is on the inode, and      *)
(* unlink takes the name away from under those who wait for it.            *)
(***************************************************************************)
EXTENDS Integers, FiniteSets

CONSTANTS
    Clients,        \* provider threads
    Inodes,         \* files; an unlinked one nobody holds can be used again
    Keys,           \* keys of a record, other than "uuid"
    Uuids,          \* uuids of the guests that get this name in turn
    None,           \* no inode, no client, or a key that is not set
    Empty, Damaged, \* a file of length zero, and one that does not parse
    MaxRedefs,      \* bound: how often the name is given to another guest
    MaxDeletes,     \* bound: how often infostore_delete removes the record
    Faults          \* the calls that may fail: "open", "uuid", "save"; "crash"

ASSUME SetsAssumption == Keys # {} /\ Uuids # {}
ASSUME NoneAssumption == None \notin Clients \cup Inodes \cup Uuids
ASSUME ContentAssumption ==
    /\ Empty # Damaged
    /\ {Empty, Damaged, None} \cap
         [uuid : Uuids \cup {None}, val : [Keys -> Uuids \cup {None}]] = {}
ASSUME InodesAssumption ==
    IsFiniteSet(Clients) /\ IsFiniteSet(Inodes)
    /\ Cardinality(Inodes) > Cardinality(Clients)
ASSUME BoundsAssumption ==
    /\ MaxRedefs \in Nat /\ MaxDeletes \in Nat
    /\ Faults \subseteq {"open", "uuid", "save", "crash"}

VARIABLES
    path,           \* the inode the name leads to, or None
    file,           \* the content of each inode
    lock,           \* who holds the flock of each inode
    client,         \* the infostore_ctx and the position of each caller
    guest, redefs,  \* the uuid of the guest of this name now; changes of it
    mixed,          \* history: callers of two uuids have been active at once
    deletes         \* history: how often infostore_delete removed the record

vars == <<path, file, lock, client, guest, redefs, mixed, deletes>>

Doc == [uuid : Uuids \cup {None}, val : [Keys -> Uuids \cup {None}]]
EmptyDoc == [uuid |-> None, val |-> [k \in Keys |-> None]]
Content == Doc \cup {Empty, Damaged}

(***************************************************************************)
(* A caller: its pc; the uuid of its virDomainPtr; the inode its fd is     *)
(* open on; the document in memory and, for the properties, the one it     *)
(* loaded, and whether its save failed.  A value is the uuid on whose      *)
(* behalf it was written.                                                  *)
(***************************************************************************)
Idle == [pc |-> "idle", uuid |-> None, ino |-> None,
         doc |-> EmptyDoc, loaded |-> EmptyDoc,
         stale |-> FALSE, again |-> FALSE, named |-> TRUE, failed |-> FALSE]

Init ==
    /\ path = None
    /\ file = [i \in Inodes |-> Empty]
    /\ lock = [i \in Inodes |-> None]
    /\ client = [c \in Clients |-> Idle]
    /\ guest = CHOOSE u \in Uuids : TRUE
    /\ redefs = 0
    /\ mixed = FALSE
    /\ deletes = 0

Active == {c \in Clients : client[c].pc # "idle"}
InUse == {path} \cup {client[c].ino : c \in Clients}
\* A file without a name is freed when its last descriptor is closed.
Reclaim == [i \in Inodes |-> IF i \in InUse' THEN file[i] ELSE Empty]

\* The name is given to another guest, behind the provider's back.
Redefine ==
    /\ redefs < MaxRedefs
    /\ redefs' = redefs + 1
    /\ \E u \in Uuids \ {guest} : guest' = u
    /\ UNCHANGED <<path, file, lock, client, mixed, deletes>>

\* A handler looks the domain up and calls infostore_open.
Begin(c) ==
    /\ client[c].pc = "idle"
    /\ client' = [client EXCEPT ![c] = [Idle EXCEPT !.pc = "open",
                                                    !.uuid = guest]]
    /\ mixed' = (mixed \/ \E o \in Active : client[o].uuid # guest)
    /\ UNCHANGED <<path, file, lock, guest, redefs, deletes>>

\* Line 185: open with O_CREAT.
Open(c) ==
    /\ client[c].pc = "open"
    /\ IF path # None
       THEN /\ client' = [client EXCEPT ![c].pc = "flock", ![c].ino = path]
            /\ UNCHANGED path
       ELSE LET i == CHOOSE i \in Inodes : i \notin InUse
            IN  /\ path' = i
                /\ client' = [client EXCEPT ![c].pc = "flock", ![c].ino = i]
    /\ UNCHANGED <<file, lock, guest, redefs, mixed, deletes>>

\* The provider process is gone: its descriptors are closed, its locks with
\* them.  A file being written is left empty or cut short.
Torn(i) == \E c \in Clients : client[c].ino = i /\ client[c].pc = "write"
Die ==
    /\ client' = [c \in Clients |-> Idle]
    /\ lock' = [i \in Inodes |-> None]
    /\ \E cut \in BOOLEAN :
         file' = [i \in Inodes |-> IF i # path THEN Empty
                                  ELSE IF cut /\ Torn(i) THEN Damaged
                                  ELSE file[i]]
    /\ UNCHANGED <<path, guest, redefs, mixed, deletes>>

\* infostore_open returns NULL, except after delete_and_open for another uuid,
\* where line 307 sets the uuid of a NULL store.
Refused(c) ==
    IF client[c].again /\ client[c].named
    THEN Die
    ELSE /\ client' = [client EXCEPT ![c] = Idle]
         /\ lock' = [i \in Inodes |-> IF lock[i] = c THEN None ELSE lock[i]]
         /\ UNCHANGED <<path, guest, redefs, mixed, deletes>>
         /\ file' = Reclaim

OpenFails(c) ==
    /\ "open" \in Faults
    /\ client[c].pc = "open"
    /\ Refused(c)

\* mutant: no lock is taken
NoFlock(c) ==
    /\ client[c].pc = "flock"
    /\ lock' = [lock EXCEPT ![client[c].ino] = c]
    /\ client' = [client EXCEPT ![c].pc = "load"]
    /\ UNCHANGED <<path, file, guest, redefs, mixed, deletes>>

\* Line 191.
Flock(c) ==
    /\ client[c].pc = "flock"
    /\ lock[client[c].ino] = None
    /\ lock' = [lock EXCEPT ![client[c].ino] = c]
    /\ client' = [client EXCEPT ![c].pc = "load"]
    /\ UNCHANGED <<path, file, guest, redefs, mixed, deletes>>

Parsed(content) == IF content = Empty THEN EmptyDoc ELSE content

\* mutant: a document that did not parse is used
LoadDamaged(c) ==
    /\ client[c].pc = "load"
    /\ file[client[c].ino] = Damaged
    /\ client' = [client EXCEPT ![c].pc = "use", ![c].doc = Damaged]
    /\ UNCHANGED <<path, file, lock, guest, redefs, mixed, deletes>>

\* Line 205: the file does not parse.
LoadFails(c) ==
    /\ client[c].pc = "load"
    /\ file[client[c].ino] = Damaged
    /\ Refused(c)

\* mutant: the record is taken over whatever its uuid
LoadAnyUuid(c) ==
    /\ client[c].pc = "load"
    /\ file[client[c].ino] # Damaged
    /\ LET doc == Parsed(file[client[c].ino])
       IN  client' = [client EXCEPT ![c].pc = "use", ![c].loaded = doc,
                                    ![c].doc = [doc EXCEPT !.uuid = client[c].uuid]]
    /\ UNCHANGED <<path, file, lock, guest, redefs, mixed, deletes>>

\* Lines 297 and 307: the record has no uuid, ours, or was opened again after
\* delete_and_open, when it is not compared.
Load(c) ==
    /\ client[c].pc = "load"
    /\ file[client[c].ino] # Damaged
    /\ LET doc == Parsed(file[client[c].ino])
       IN  /\ client[c].again \/ doc.uuid \in {None, client[c].uuid}
           /\ client' = [client EXCEPT
                  ![c].pc = "use", ![c].loaded = doc,
                  ![c].doc = IF client[c].named
                             THEN [doc EXCEPT !.uuid = client[c].uuid] ELSE doc]
    /\ UNCHANGED <<path, file, lock, guest, redefs, mixed, deletes>>

\* Lines 290 and 301: the uuid is another one, or cannot be had; the store is
\* closed, which saves it, to be deleted and opened again.
LoadStale(c) ==
    /\ client[c].pc = "load"
    /\ file[client[c].ino] # Damaged
    /\ ~client[c].again
    /\ LET doc == Parsed(file[client[c].ino])
       IN  \E named \in BOOLEAN :
             /\ IF named THEN doc.uuid \notin {None, client[c].uuid}
                ELSE "uuid" \in Faults
             /\ client' = [client EXCEPT
                    ![c].pc = "truncate", ![c].loaded = doc, ![c].doc = doc,
                    ![c].stale = TRUE, ![c].named = named]
    /\ UNCHANGED <<path, file, lock, guest, redefs, mixed, deletes>>

\* infostore_set_u64, infostore_set_bool or one of the getters.
SetKey(doc, k, u) == [doc EXCEPT !.val[k] = u]
Use(c) ==
    /\ client[c].pc = "use"
    /\ \E doc \in {client[c].doc}
                   \cup {SetKey(client[c].doc, k, client[c].uuid) : k \in Keys} :
         client' = [client EXCEPT ![c].pc = "truncate", ![c].doc = doc]
    /\ UNCHANGED <<path, file, lock, guest, redefs, mixed, deletes>>

\* Line 157.
Truncate(c) ==
    /\ client[c].pc = "truncate"
    /\ file' = [file EXCEPT ![client[c].ino] = Empty]
    /\ client' = [client EXCEPT ![c].pc = "write"]
    /\ UNCHANGED <<path, lock, guest, redefs, mixed, deletes>>

\* Line 166.
Write(c) ==
    /\ client[c].pc = "write"
    /\ file' = [file EXCEPT ![client[c].ino] = client[c].doc]
    /\ client' = [client EXCEPT ![c].pc = "close", ![c].doc = EmptyDoc,
                                ![c].loaded = EmptyDoc]
    /\ UNCHANGED <<path, lock, guest, redefs, mixed, deletes>>

\* Lines 160-171: the save fails, and nobody looks at its result; the file is
\* empty, cut short, or kept a tail of what it was.
WriteFails(c) ==
    /\ "save" \in Faults
    /\ client[c].pc = "write"
    /\ \E left \in {Empty, Damaged} : file' = [file EXCEPT ![client[c].ino] = left]
    /\ client' = [client EXCEPT ![c].pc = "close", ![c].doc = EmptyDoc,
                                ![c].loaded = EmptyDoc, ![c].failed = TRUE]
    /\ UNCHANGED <<path, lock, guest, redefs, mixed, deletes>>

\* mutant: the descriptor of a stale store is leaked, and its lock with it
CloseLeaky(c) ==
    /\ client[c].pc = "close"
    /\ lock' = IF client[c].stale THEN lock
               ELSE [lock EXCEPT ![client[c].ino] = None]
    /\ client' = [client EXCEPT
           ![c] = IF client[c].stale
                  THEN [client[c] EXCEPT !.pc = "unlink", !.ino = None,
                                         !.failed = FALSE]
                  ELSE Idle]
    /\ UNCHANGED <<path, guest, redefs, mixed, deletes>>
    /\ file' = Reclaim

\* Line 55: close releases the flock.
Close(c) ==
    /\ client[c].pc = "close"
    /\ lock' = [lock EXCEPT ![client[c].ino] = None]
    /\ client' = [client EXCEPT
           ![c] = IF client[c].stale
                  THEN [client[c] EXCEPT !.pc = "unlink", !.ino = None,
                                         !.failed = FALSE]
                  ELSE Idle]
    /\ UNCHANGED <<path, guest, redefs, mixed, deletes>>
    /\ file' = Reclaim

\* delete_and_open, line 269: whatever file has the name now is unlinked.
Unlink(c) ==
    /\ client[c].pc = "unlink"
    /\ path' = None
    /\ client' = [client EXCEPT ![c].pc = "open", ![c].stale = FALSE,
                                ![c].again = TRUE]
    /\ UNCHANGED <<lock, guest, redefs, mixed, deletes>>
    /\ file' = Reclaim

\* infostore_delete, called when a guest is destroyed, takes no lock.
Delete ==
    /\ path # None
    /\ deletes < MaxDeletes
    /\ deletes' = deletes + 1
    /\ path' = None
    /\ UNCHANGED <<client, lock, guest, redefs, mixed>>
    /\ file' = Reclaim

Crash ==
    /\ "crash" \in Faults
    /\ Active # {}
    /\ Die

Step(c) ==
    \/ Open(c) \/ OpenFails(c) \/ Flock(c) \/ Load(c) \/ LoadFails(c)
    \/ LoadStale(c) \/ Use(c) \/ Truncate(c) \/ Write(c) \/ WriteFails(c)
    \/ Close(c) \/ Unlink(c)

Next ==
    \/ \E c \in Clients : Begin(c) \/ Step(c)
    \/ Redefine \/ Delete \/ Crash

Spec == Init /\ [][Next]_vars
\* Every caller goes on, and gets a lock that is free again and again.
FairSpec == Spec /\ \A c \in Clients : SF_vars(Step(c))

-----------------------------------------------------------------------------
(* Properties.                                                             *)

PCs == {"idle", "open", "flock", "load", "use", "truncate", "write", "close",
        "unlink"}
ClientType == [pc : PCs, uuid : Uuids \cup {None},
               ino : Inodes \cup {None}, doc : Doc, loaded : Doc,
               stale : BOOLEAN, again : BOOLEAN, named : BOOLEAN,
               failed : BOOLEAN]

\* Types: in particular a caller never has a document that did not parse.
TypeOK ==
    /\ path \in Inodes \cup {None}
    /\ file \in [Inodes -> Content]
    /\ lock \in [Inodes -> Clients \cup {None}]
    /\ client \in [Clients -> ClientType]
    /\ guest \in Uuids
    /\ redefs \in 0 .. MaxRedefs
    /\ mixed \in BOOLEAN
    /\ deletes \in 0 .. MaxDeletes

\* What is in the file when its holder comes to write is what that holder
\* parsed: flock covers the whole of open, use and close, also of callers that
\* only read and yet save (line 316).
HeldIsLoaded ==
    \A c \in Clients :
        /\ client[c].pc \in {"use", "truncate"} =>
             Parsed(file[client[c].ino]) = client[c].loaded
        /\ client[c].pc = "write" => file[client[c].ino] = Empty

\* Unless callers of two guests of the same name overlap, nobody is given a
\* value that was stored for the other guest (the comparison at line 301).
NoInheritance ==
    ~mixed =>
      \A c \in Clients : client[c].pc = "use" =>
        \A k \in Keys : client[c].doc.val[k] \in {None, client[c].uuid}

\* No caller waits for ever: none holds one lock while it waits for another,
\* and a lock on a file that has lost its name is released all the same.
OpsFinish ==
    \A c \in Clients : client[c].pc # "idle" ~> client[c].pc = "idle"

(***************************************************************************)
(* To its callers the file is an atomic record: the one its name leads to, *)
(* and while its holder is between truncation and writing, the one that    *)
(* was there before.                                                       *)
(***************************************************************************)
Record ==
    IF path = None THEN EmptyDoc
    ELSE IF \E c \in Clients : client[c].ino = path /\ client[c].pc = "write"
         THEN client[CHOOSE c \in Clients :
                client[c].ino = path /\ client[c].pc = "write"].loaded
         ELSE Parsed(file[path])

At(c) == IF client[c].ino = None THEN "out"
         ELSE IF client[c].ino = path THEN "in" ELSE "cut"
Due(r) == IF r.pc \in {"truncate", "write"} /\ ~r.stale THEN r.doc ELSE None
Users == [c \in Clients |->
            [uuid |-> client[c].uuid, at |-> At(c), due |-> Due(client[c]),
             stale |-> client[c].stale, again |-> client[c].again,
             failed |-> client[c].failed]]

Store == INSTANCE AtomicStore
         WITH content <- Record, user <- Users, destroyed <- deletes

\* A caller that has the record open reads it as it is, sets one key of it and
\* keeps every other, and stores that before it leaves; one that was cut off by
\* an unlink changes nothing that others see.  The record is lost only by
\* infostore_delete, by a caller that met another guest's uuid (once in its
\* call), by a failing save, or by a crash of the provider while it was written.
ImplementsStore == Store!Spec

(***************************************************************************)
(* What does not hold: that a caller of infostore_open removes only the    *)
(* record of another guest.  Two callers that both met the old record      *)
(* unlink one after the other, and the second takes away the new record    *)
(* the first has made (line 269), with what it has set.                    *)
(***************************************************************************)
StaleRemoved ==
    [][\A c \in Clients : Unlink(c) /\ path # None =>
         file[path] \in {Empty, Damaged} \/ file[path].uuid # client[c].uuid]_vars
=============================================================================
