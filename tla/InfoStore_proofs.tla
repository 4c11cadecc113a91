--------------------------- MODULE InfoStore_proofs ---------------------------
(***************************************************************************)
(* Theorems about InfoStore, for every number of callers, inodes, keys and *)
(* uuids: the record is read and changed as a whole, whatever is unlinked, *)
(* redefined or cut short, and no guest is given another's values.         *)
(***************************************************************************)
EXTENDS InfoStore, FiniteSetTheorems, TLAPS

(***************************************************************************)
(* The invariant.  A caller has a file exactly from its open to its close, *)
(* and the lock of that file from flock on.  While it holds the lock the   *)
(* file is what it has loaded, or empty once it is truncated; what it will *)
(* write is what it has loaded with one key set, for its uuid.  A file     *)
(* that nobody can reach is empty.                                         *)
(***************************************************************************)
Holding == {"load", "use", "truncate", "write", "close"}

Claimed(doc, u) == {doc, [doc EXCEPT !.uuid = u]}
Outcomes(doc, u) ==
    Claimed(doc, u) \cup {SetKey(d, k, u) : d \in Claimed(doc, u), k \in Keys}

Saving == {"truncate", "write"}

\* What a caller's position says of what it went through: a stale record is
\* saved as it was loaded, and another guest's is used by nobody who has not
\* just unlinked one.
Past(r) ==
    /\ r.pc = "idle" => r = Idle
    /\ r.failed => r.pc = "close"
    /\ r.stale => r.pc \in Saving \cup {"close", "unlink"} /\ ~r.again
    /\ r.pc = "unlink" => r.stale
    /\ r.stale /\ r.pc \in Saving => r.doc = r.loaded
    /\ r.pc \in Saving \cup {"use"} /\ ~r.stale /\ ~r.again =>
         r.loaded.uuid \in {None, r.uuid}

ClientOK(r) ==
    /\ r \in ClientType
    /\ r.pc \in Holding \cup {"flock"} <=> r.ino # None
    /\ r.pc # "idle" => r.uuid \in Uuids
    /\ r.pc = "use" => r.doc \in Claimed(r.loaded, r.uuid)
    /\ r.pc \in Saving => r.doc \in Outcomes(r.loaded, r.uuid)
    /\ Past(r)

FileOf(r, f) ==
    /\ r.pc \in {"use", "truncate"} => f[r.ino] # Damaged /\ Parsed(f[r.ino]) = r.loaded
    /\ r.pc = "write" => f[r.ino] = Empty

Owns(r, i) == r.ino = i /\ r.pc \in Holding

Inv ==
    /\ path \in Inodes \cup {None} /\ file \in [Inodes -> Content]
    /\ lock \in [Inodes -> Clients \cup {None}]
    /\ client \in [Clients -> ClientType]
    /\ guest \in Uuids /\ redefs \in 0 .. MaxRedefs /\ mixed \in BOOLEAN
    /\ deletes \in 0 .. MaxDeletes
    /\ \A c \in Clients : ClientOK(client[c]) /\ FileOf(client[c], file)
    /\ \A c \in Clients, i \in Inodes : lock[i] = c <=> Owns(client[c], i)
    /\ \A i \in Inodes \ InUse : file[i] = Empty

LEMMA EmptyTyped ==
  /\ EmptyDoc \in Doc /\ EmptyDoc \in Content /\ Empty \in Content /\ Damaged \in Content
  /\ Empty # Damaged /\ Parsed(Empty) = EmptyDoc
  /\ \A f \in Content : f # Damaged => Parsed(f) \in Doc
  BY ContentAssumption DEF EmptyDoc, Doc, Content, Parsed

LEMMA SetTyped ==
  ASSUME NEW doc \in Doc, NEW u \in Uuids
  PROVE  /\ [doc EXCEPT !.uuid = u] \in Doc
         /\ \A k \in Keys : SetKey(doc, k, u) \in Doc
  BY DEF Doc, SetKey

LEMMA IdleOK ==
  /\ ClientOK(Idle) /\ Idle.pc = "idle" /\ Idle.ino = None
  /\ Idle.stale = FALSE /\ Idle.again = FALSE /\ Idle.failed = FALSE
  /\ Idle.uuid = None
  /\ \A f : FileOf(Idle, f)
  /\ \A i \in Inodes : ~Owns(Idle, i)
  <1>1. /\ Idle \in ClientType /\ Idle.pc = "idle" /\ Idle.ino = None
        /\ Idle.stale = FALSE /\ Idle.again = FALSE /\ Idle.failed = FALSE
        /\ Idle.uuid = None
    BY EmptyTyped DEF Idle, ClientType, PCs
  <1>2. Past(Idle)
    BY <1>1 DEF Past, Saving
  <1> QED
    BY <1>1, <1>2, NoneAssumption DEF ClientOK, FileOf, Owns, Holding, Saving

LEMMA InitInv == Init => Inv
  <1> SUFFICES ASSUME Init PROVE Inv
    OBVIOUS
  <1>1. \A c \in Clients : client[c] = Idle
    BY DEF Init
  <1>2. client \in [Clients -> ClientType]
    BY IdleOK DEF Init, ClientOK
  <1>3. guest \in Uuids
    BY SetsAssumption DEF Init
  <1>4. redefs \in 0 .. MaxRedefs
    BY BoundsAssumption DEF Init
  <1>11. mixed \in BOOLEAN
    BY DEF Init
  <1>5. file \in [Inodes -> Content] /\ lock \in [Inodes -> Clients \cup {None}]
    BY EmptyTyped DEF Init
  <1>6. \A i \in Inodes : file[i] = Empty /\ lock[i] = None
    BY DEF Init
  <1>7. \A c \in Clients : c # None
    BY NoneAssumption
  <1>8. path = None /\ deletes \in 0 .. MaxDeletes
    BY BoundsAssumption DEF Init
  <1>9. \A c \in Clients, i \in Inodes : lock[i] = c <=> Owns(client[c], i)
    BY <1>1, <1>6, <1>7, IdleOK
  <1>10. \A c \in Clients : ClientOK(client[c]) /\ FileOf(client[c], file)
    BY <1>1, IdleOK
  <1> QED
    BY <1>2, <1>3, <1>4, <1>5, <1>6, <1>8, <1>9, <1>10, <1>11 DEF Inv

(***************************************************************************)
(* A step of one caller.                                                   *)
(***************************************************************************)
LEMMA ClientStep ==
  ASSUME Inv, NEW c \in Clients, NEW r, ClientOK(r), client' = [client EXCEPT ![c] = r],
         path' \in Inodes \cup {None}, file' \in [Inodes -> Content],
         lock' \in [Inodes -> Clients \cup {None}],
         guest' \in Uuids, redefs' \in 0 .. MaxRedefs, mixed' \in BOOLEAN,
         deletes' \in 0 .. MaxDeletes,
         \A i \in Inodes : lock'[i] = c <=> Owns(r, i),
         \A d \in Clients \ {c}, i \in Inodes : lock'[i] = d <=> lock[i] = d,
         FileOf(r, file'),
         \A d \in Clients \ {c} :
            client[d].pc \in {"use", "truncate", "write"} =>
               file'[client[d].ino] = file[client[d].ino],
         \A i \in Inodes \ InUse' : file'[i] = Empty
  PROVE  Inv'
  <1>1. client' \in [Clients -> ClientType]
    BY DEF Inv, ClientOK
  <1>2. \A d \in Clients : client'[d] = IF d = c THEN r ELSE client[d]
    BY DEF Inv
  <1>3. ASSUME NEW d \in Clients PROVE ClientOK(client'[d]) /\ FileOf(client'[d], file')
    <2>1. CASE d = c
      BY <1>2, <2>1
    <2>2. CASE d # c
      BY <1>2, <2>2 DEF Inv, FileOf
    <2> QED
      BY <2>1, <2>2
  <1>4. ASSUME NEW d \in Clients, NEW i \in Inodes PROVE lock'[i] = d <=> Owns(client'[d], i)
    <2>1. CASE d = c
      BY <1>2, <2>1
    <2>2. CASE d # c
      BY <1>2, <2>2 DEF Inv
    <2> QED
      BY <2>1, <2>2
  <1> QED
    BY <1>1, <1>3, <1>4 DEF Inv

\* Two callers that own inodes own different ones.
LEMMA Exclusive ==
  ASSUME Inv, NEW c \in Clients, NEW d \in Clients \ {c}, client[c].pc \in Holding,
         client[d].pc \in Holding
  PROVE  client[c].ino # client[d].ino
  <1>1. client[c].ino \in Inodes
    BY NoneAssumption DEF Inv, ClientOK, ClientType
  <1>2. Owns(client[c], client[c].ino)
    BY DEF Owns
  <1> QED
    BY <1>1, <1>2 DEF Inv, Owns

LEMMA LocalStep ==
  ASSUME Inv, NEW c \in Clients, NEW r, ClientOK(r), client' = [client EXCEPT ![c] = r],
         UNCHANGED <<path, file, lock, guest, redefs, deletes>>, mixed' \in BOOLEAN,
         r.ino = client[c].ino, r.pc \in Holding <=> client[c].pc \in Holding,
         FileOf(r, file)
  PROVE  Inv'
  <1>1. \A i \in Inodes : Owns(r, i) <=> Owns(client[c], i)
    BY DEF Owns
  <1>2. \A i \in Inodes : lock'[i] = c <=> Owns(r, i)
    BY <1>1 DEF Inv
  <1>3. InUse' = InUse
    <2>1. \A d \in Clients : client'[d].ino = client[d].ino
      BY DEF Inv
    <2> QED
      BY <2>1 DEF InUse
  <1>4. \A i \in Inodes \ InUse' : file'[i] = Empty
    BY <1>3 DEF Inv
  <1> QED
    BY <1>2, <1>4, ClientStep DEF Inv

\* A file that loses its last user.
LEMMA ReclaimStep ==
  ASSUME Inv, NEW c \in Clients, NEW r, ClientOK(r), client' = [client EXCEPT ![c] = r],
         path' \in {path, None}, file' = Reclaim, r.pc \notin Holding,
         lock' \in [Inodes -> Clients \cup {None}],
         \A i \in Inodes : lock'[i] # c,
         \A d \in Clients \ {c}, i \in Inodes : lock'[i] = d <=> lock[i] = d,
         UNCHANGED <<guest, redefs, mixed, deletes>>
  PROVE  Inv'
  <1>1. \A i \in Inodes : file'[i] = IF i \in InUse' THEN file[i] ELSE Empty
    BY DEF Reclaim
  <1>2. file' \in [Inodes -> Content]
    BY EmptyTyped DEF Reclaim, Inv
  <1>3. ASSUME NEW d \in Clients \ {c}, client[d].pc \in {"use", "truncate", "write"}
        PROVE  file'[client[d].ino] = file[client[d].ino]
    <2>1. client'[d] = client[d]
      BY DEF Inv
    <2>2. client[d].ino \in InUse'
      BY <2>1 DEF InUse
    <2>3. client[d].ino \in Inodes
      BY <1>3, NoneAssumption DEF Inv, ClientOK, ClientType, Holding
    <2> QED
      BY <1>1, <2>2, <2>3
  <1>4. \A i \in Inodes : ~Owns(r, i)
    BY DEF Owns
  <1>5. FileOf(r, file')
    BY DEF FileOf, Holding
  <1>6. path' \in Inodes \cup {None}
    BY DEF Inv
  <1>7. \A i \in Inodes : lock'[i] = c <=> Owns(r, i)
    BY <1>4
  <1>8. \A i \in Inodes \ InUse' : file'[i] = Empty
    BY <1>1
  <1>9. guest' \in Uuids /\ redefs' \in 0 .. MaxRedefs /\ mixed' \in BOOLEAN
         /\ deletes' \in 0 .. MaxDeletes
    BY DEF Inv
  <1> QED
    BY <1>2, <1>3, <1>5, <1>6, <1>7, <1>8, <1>9, ClientStep

\* What a caller has.
LEMMA Caller ==
  ASSUME Inv, NEW c \in Clients
  PROVE  /\ client[c] \in ClientType /\ ClientOK(client[c]) /\ FileOf(client[c], file)
         /\ client[c].pc \in Holding \cup {"flock"} =>
               client[c].ino \in Inodes /\ file[client[c].ino] \in Content
         /\ client[c].pc \in Holding => lock[client[c].ino] = c
         /\ \A i \in Inodes : lock[i] = c => client[c].pc \in Holding /\ client[c].ino = i
  BY NoneAssumption DEF Inv, ClientOK, ClientType, Owns

LEMMA BeginStep ==
  ASSUME Inv, NEW c \in Clients, Begin(c)
  PROVE  Inv'
  <1> DEFINE r == [Idle EXCEPT !.pc = "open", !.uuid = guest]
  <1>1. /\ r \in ClientType /\ r.pc = "open" /\ r.uuid = guest /\ r.ino = None /\ guest \in Uuids
        /\ ~r.stale /\ ~r.again /\ ~r.failed
    <2>1. guest \in Uuids
      BY DEF Inv
    <2>2. Idle \in ClientType /\ Idle.ino = None /\ ~Idle.stale /\ ~Idle.again /\ ~Idle.failed
      BY IdleOK DEF ClientOK
    <2> QED
      BY <2>1, <2>2 DEF ClientType, PCs
  <1>2. client' = [client EXCEPT ![c] = r]
    BY DEF Begin
  <1> HIDE DEF r
  <1>3. ClientOK(r) /\ FileOf(r, file)
    BY <1>1 DEF ClientOK, FileOf, Holding, Past, Saving
  <1>4. client[c].ino = None
    BY DEF Begin, Inv, ClientOK, Holding
  <1>5. mixed' \in BOOLEAN
    BY DEF Begin, Inv
  <1>6. r.pc \in Holding <=> client[c].pc \in Holding
    BY <1>1 DEF Begin, Holding
  <1>7. UNCHANGED <<path, file, lock, guest, redefs, deletes>>
    BY DEF Begin
  <1> QED
    BY <1>1, <1>2, <1>3, <1>4, <1>5, <1>6, <1>7, LocalStep

LEMMA LoadStep ==
  ASSUME Inv, NEW c \in Clients, Load(c) \/ LoadStale(c)
  PROVE  Inv'
  <1> DEFINE q == client[c]
             doc == Parsed(file[q.ino])
  <1>1. /\ q \in ClientType /\ q.pc = "load" /\ q.ino \in Inodes /\ file[q.ino] \in Content
        /\ file[q.ino] # Damaged /\ q.uuid \in Uuids
    BY Caller DEF Load, LoadStale, Holding, ClientOK
  <1>2. doc \in Doc
    BY <1>1, EmptyTyped
  <1>3. [doc EXCEPT !.uuid = q.uuid] \in Doc
    BY <1>1, <1>2 DEF Doc
  <1>4. ASSUME NEW r, r \in ClientType, r.pc \in {"use", "truncate"}, r.ino = q.ino,
               r.uuid = q.uuid, r.loaded = doc, r.doc \in Claimed(doc, q.uuid), Past(r),
               client' = [client EXCEPT ![c] = r]
        PROVE  Inv'
    <2>1. ClientOK(r) /\ FileOf(r, file)
      BY <1>1, <1>4, NoneAssumption DEF ClientOK, FileOf, Holding, Outcomes, Saving
    <2>2. r.pc \in Holding <=> client[c].pc \in Holding
      BY <1>1, <1>4 DEF Holding
    <2>3. UNCHANGED <<path, file, lock, guest, redefs, deletes>> /\ mixed' = mixed
      BY DEF Load, LoadStale
    <2>4. mixed' \in BOOLEAN
      BY <2>3 DEF Inv
    <2> QED
      BY <1>4, <2>1, <2>2, <2>3, <2>4, LocalStep
  <1>5. CASE Load(c)
    <2> DEFINE new == IF q.named THEN [doc EXCEPT !.uuid = q.uuid] ELSE doc
               r == [q EXCEPT !.pc = "use", !.loaded = doc, !.doc = new]
    <2>1. new \in Doc /\ new \in Claimed(doc, q.uuid)
      BY <1>2, <1>3 DEF Claimed
    <2>2. client' = [client EXCEPT ![c] = r]
      BY <1>5 DEF Load, Inv
    <2> HIDE DEF new, doc
    <2>3. r \in ClientType /\ r.pc = "use" /\ r.ino = q.ino /\ r.uuid = q.uuid
          /\ r.loaded = doc /\ r.doc = new /\ r.stale = q.stale /\ r.again = q.again
          /\ r.failed = q.failed
      BY <1>1, <1>2, <2>1 DEF ClientType, PCs
    <2>4. ~q.stale /\ ~q.failed /\ (q.again \/ doc.uuid \in {None, q.uuid})
      BY <1>1, <1>5, Caller DEF Load, ClientOK, Past, Saving, doc
    <2> HIDE DEF r
    <2>5. Past(r)
      BY <2>3, <2>4 DEF Past, Saving
    <2> QED
      BY <1>4, <2>1, <2>2, <2>3, <2>5
  <1>6. CASE LoadStale(c)
    <2>1. PICK named \in BOOLEAN :
            client' = [client EXCEPT ![c].pc = "truncate", ![c].loaded = doc, ![c].doc = doc,
                                     ![c].stale = TRUE, ![c].named = named]
      BY <1>6 DEF LoadStale
    <2> DEFINE r == [q EXCEPT !.pc = "truncate", !.loaded = doc, !.doc = doc,
                              !.stale = TRUE, !.named = named]
    <2>2. client' = [client EXCEPT ![c] = r]
      BY <2>1 DEF Inv
    <2> HIDE DEF doc
    <2>3. r \in ClientType /\ r.pc = "truncate" /\ r.ino = q.ino /\ r.uuid = q.uuid
          /\ r.loaded = doc /\ r.doc = doc /\ r.stale /\ r.again = q.again
          /\ r.failed = q.failed
      BY <1>1, <1>2, <2>1 DEF ClientType, PCs
    <2>4. ~q.failed /\ ~q.again
      BY <1>1, <1>6, Caller DEF LoadStale, ClientOK, Past
    <2> HIDE DEF r
    <2>5. Past(r)
      BY <2>3, <2>4 DEF Past, Saving
    <2> QED
      BY <1>4, <2>2, <2>3, <2>5 DEF Claimed
  <1> QED
    BY <1>5, <1>6

LEMMA UseStep ==
  ASSUME Inv, NEW c \in Clients, Use(c)
  PROVE  Inv'
  <1> DEFINE q == client[c]
  <1>1. /\ q \in ClientType /\ q.pc = "use" /\ q.ino \in Inodes /\ q.uuid \in Uuids
        /\ q.doc \in Claimed(q.loaded, q.uuid) /\ FileOf(q, file)
        /\ ~q.stale /\ ~q.failed /\ (q.again \/ q.loaded.uuid \in {None, q.uuid})
    BY Caller DEF Use, Holding, ClientOK, Past, Saving
  <1>2. PICK doc \in {q.doc} \cup {SetKey(q.doc, k, q.uuid) : k \in Keys} :
           client' = [client EXCEPT ![c].pc = "truncate", ![c].doc = doc]
    BY DEF Use
  <1> DEFINE r == [q EXCEPT !.pc = "truncate", !.doc = doc]
  <1>3. client' = [client EXCEPT ![c] = r]
    BY <1>2 DEF Inv
  <1>4. doc \in Doc
    <2>1. q.doc \in Doc
      BY <1>1 DEF ClientType
    <2> QED
      BY <1>1, <1>2, <2>1, SetTyped
  <1>5. doc \in Outcomes(q.loaded, q.uuid)
    BY <1>1, <1>2 DEF Outcomes
  <1>6. /\ r \in ClientType /\ r.pc = "truncate" /\ r.ino = q.ino /\ r.uuid = q.uuid
        /\ r.loaded = q.loaded /\ r.doc = doc /\ r.stale = q.stale /\ r.again = q.again
        /\ r.failed = q.failed
    BY <1>1, <1>4 DEF ClientType, PCs
  <1> HIDE DEF r
  <1>7. ClientOK(r) /\ FileOf(r, file)
    BY <1>1, <1>5, <1>6, NoneAssumption DEF ClientOK, FileOf, Holding, Past, Saving
  <1>8. r.pc \in Holding <=> client[c].pc \in Holding
    BY <1>1, <1>6 DEF Holding
  <1>9. UNCHANGED <<path, file, lock, guest, redefs, deletes>> /\ mixed' = mixed
    BY DEF Use
  <1>10. mixed' \in BOOLEAN
    BY <1>9 DEF Inv
  <1> QED
    BY <1>3, <1>6, <1>7, <1>8, <1>9, <1>10, LocalStep

(***************************************************************************)
(* There is always an inode left: a caller that opens holds none.          *)
(***************************************************************************)
LEMMA FreeInode ==
  ASSUME path = None, client \in [Clients -> ClientType]
  PROVE  \E i \in Inodes : i \notin InUse
  <1> DEFINE f == [c \in Clients |-> client[c].ino]
             T == {client[c].ino : c \in Clients}
  <1>1. f \in Surjection(Clients, T)
    BY DEF Surjection
  <1>2. IsFiniteSet(T) /\ Cardinality(T) <= Cardinality(Clients)
    BY <1>1, InodesAssumption, FS_Surjection
  <1>3. /\ Cardinality(T) \in Nat /\ Cardinality(Clients) \in Nat
        /\ Cardinality(Inodes) \in Nat /\ Cardinality(Clients) < Cardinality(Inodes)
    BY <1>2, InodesAssumption, FS_CardinalityType
  <1>4. ~(Inodes \subseteq T)
    <2>1. Inodes \subseteq T => Cardinality(Inodes) <= Cardinality(T)
      BY <1>2, FS_Subset
    <2> QED
      BY <1>2, <1>3, <2>1
  <1> QED
    BY <1>4, NoneAssumption DEF InUse

LEMMA OpenStep ==
  ASSUME Inv, NEW c \in Clients, Open(c)
  PROVE  Inv'
  <1> DEFINE q == client[c]
  <1>1. /\ q \in ClientType /\ q.pc = "open" /\ q.ino = None /\ q.uuid \in Uuids
        /\ ~q.stale /\ ~q.failed
    BY Caller DEF Open, Holding, ClientOK, Past, Saving
  <1>2. ASSUME NEW i \in Inodes, path' = i, path # None => path = i,
               path = None => i \notin InUse,
               client' = [client EXCEPT ![c].pc = "flock", ![c].ino = i]
        PROVE  Inv'
    <2> DEFINE r == [q EXCEPT !.pc = "flock", !.ino = i]
    <2>1. client' = [client EXCEPT ![c] = r]
      BY <1>2 DEF Inv
    <2>2. /\ r \in ClientType /\ r.pc = "flock" /\ r.ino = i /\ r.uuid = q.uuid
          /\ r.stale = q.stale /\ r.failed = q.failed
      BY <1>1 DEF ClientType, PCs
    <2> HIDE DEF r
    <2>3. ClientOK(r) /\ FileOf(r, file)
      BY <1>1, <2>2, NoneAssumption DEF ClientOK, FileOf, Holding, Past, Saving
    <2>4. \A j \in Inodes : lock'[j] = c <=> Owns(r, j)
      BY <1>1, <2>2, Caller DEF Open, Owns, Holding
    <2>5. \A j \in Inodes \ InUse' : file'[j] = Empty
      <3>1. \A d \in Clients \ {c} : client'[d] = client[d]
        BY <2>1 DEF Inv
      <3>2. \A j \in Inodes : j \in InUse => j \in InUse'
        BY <1>1, <1>2, <3>1, NoneAssumption DEF InUse
      <3> QED
        BY <3>2 DEF Inv, Open
    <2>6. UNCHANGED <<file, lock, guest, redefs, mixed, deletes>>
      BY DEF Open
    <2>7. file' \in [Inodes -> Content] /\ lock' \in [Inodes -> Clients \cup {None}]
          /\ guest' \in Uuids /\ redefs' \in 0 .. MaxRedefs /\ mixed' \in BOOLEAN
         /\ deletes' \in 0 .. MaxDeletes
      BY <2>6 DEF Inv
    <2> QED
      BY <1>2, <2>1, <2>3, <2>4, <2>5, <2>6, <2>7, ClientStep
  <1>3. CASE path # None
    BY <1>2, <1>3 DEF Open, Inv
  <1>4. CASE path = None
    <2> DEFINE i == CHOOSE i \in Inodes : i \notin InUse
    <2>1. i \in Inodes /\ i \notin InUse
      BY <1>4, FreeInode DEF Inv
    <2>2. path' = i /\ client' = [client EXCEPT ![c].pc = "flock", ![c].ino = i]
      BY <1>4 DEF Open
    <2> HIDE DEF i
    <2> QED
      BY <1>2, <1>4, <2>1, <2>2
  <1> QED
    BY <1>3, <1>4

LEMMA FlockStep ==
  ASSUME Inv, NEW c \in Clients, Flock(c)
  PROVE  Inv'
  <1> DEFINE q == client[c]
             r == [q EXCEPT !.pc = "load"]
  <1>1. /\ q \in ClientType /\ q.pc = "flock" /\ q.ino \in Inodes /\ q.uuid \in Uuids
        /\ lock[q.ino] = None /\ ~q.stale /\ ~q.failed
    BY Caller DEF Flock, ClientOK, Past, Saving
  <1>2. client' = [client EXCEPT ![c] = r]
    BY DEF Flock, Inv
  <1>3. /\ r \in ClientType /\ r.pc = "load" /\ r.ino = q.ino /\ r.uuid = q.uuid
        /\ r.stale = q.stale /\ r.failed = q.failed
    BY <1>1 DEF ClientType, PCs
  <1> HIDE DEF r
  <1>4. ClientOK(r) /\ FileOf(r, file)
    BY <1>1, <1>3, NoneAssumption DEF ClientOK, FileOf, Holding, Past, Saving
  <1>5. lock' = [lock EXCEPT ![q.ino] = c] /\ lock \in [Inodes -> Clients \cup {None}]
    BY DEF Flock, Inv
  <1>6. \A i \in Inodes : lock'[i] = c <=> Owns(r, i)
    <2>1. \A i \in Inodes : lock[i] # c
      BY <1>1, Caller DEF Holding
    <2> QED
      BY <1>1, <1>3, <1>5, <2>1 DEF Owns, Holding
  <1>7. \A d \in Clients \ {c}, i \in Inodes : lock'[i] = d <=> lock[i] = d
    BY <1>1, <1>5, NoneAssumption
  <1>8. \A j \in Inodes \ InUse' : file'[j] = Empty
    <2>1. \A d \in Clients : client'[d].ino = client[d].ino
      BY <1>2, <1>3 DEF Inv
    <2>2. InUse' = InUse
      BY <2>1 DEF InUse, Flock
    <2> QED
      BY <2>2 DEF Inv, Flock
  <1>9. UNCHANGED <<path, file, guest, redefs, mixed, deletes>>
    BY DEF Flock
  <1>10. /\ path' \in Inodes \cup {None} /\ file' \in [Inodes -> Content]
         /\ guest' \in Uuids /\ redefs' \in 0 .. MaxRedefs /\ mixed' \in BOOLEAN
         /\ deletes' \in 0 .. MaxDeletes
    BY <1>9 DEF Inv
  <1>11. lock' \in [Inodes -> Clients \cup {None}]
    BY <1>5
  <1> QED
    BY <1>2, <1>4, <1>6, <1>7, <1>8, <1>9, <1>10, <1>11, ClientStep

\* The file of a caller is written by nobody else.
LEMMA SaveStep ==
  ASSUME Inv, NEW c \in Clients, Truncate(c) \/ Write(c) \/ WriteFails(c)
  PROVE  Inv'
  <1> DEFINE q == client[c]
  <1>1. /\ q \in ClientType /\ q.pc \in {"truncate", "write"} /\ q.ino \in Inodes
        /\ q.uuid \in Uuids /\ q.pc \in Holding
        /\ q.doc \in Outcomes(q.loaded, q.uuid) /\ Past(q)
    BY Caller DEF Truncate, Write, WriteFails, ClientOK, Holding, Saving
  <1>2. PICK new \in {Empty, Damaged, q.doc} :
          /\ file' = [file EXCEPT ![q.ino] = new] /\ file \in [Inodes -> Content]
          /\ q.pc = "truncate" => new = Empty
    BY DEF Truncate, Write, WriteFails, Inv
  <1>3. q.doc \in Content /\ new \in Content
    BY <1>1, EmptyTyped DEF ClientType, Content
  <1>4. PICK r : /\ client' = [client EXCEPT ![c] = r]
                 /\ r \in ClientType /\ r.ino = q.ino /\ r.uuid = q.uuid
                 /\ \/ /\ q.pc = "truncate" /\ r.pc = "write" /\ r.doc = q.doc
                       /\ r.loaded = q.loaded /\ r.failed = q.failed
                    \/ q.pc = "write" /\ r.pc = "close"
                 /\ r.stale = q.stale /\ r.again = q.again
    <2>1. CASE Truncate(c)
      <3> DEFINE r == [q EXCEPT !.pc = "write"]
      <3>1. client' = [client EXCEPT ![c] = r]
        BY <2>1 DEF Truncate, Inv
      <3>2. /\ r \in ClientType /\ r.ino = q.ino /\ r.uuid = q.uuid /\ r.pc = "write"
            /\ r.doc = q.doc /\ r.loaded = q.loaded /\ r.failed = q.failed
            /\ r.stale = q.stale /\ r.again = q.again
        BY <1>1 DEF ClientType, PCs
      <3> HIDE DEF r
      <3> QED
        BY <2>1, <3>1, <3>2 DEF Truncate
    <2>2. CASE Write(c)
      <3> DEFINE r == [q EXCEPT !.pc = "close", !.doc = EmptyDoc, !.loaded = EmptyDoc]
      <3>1. client' = [client EXCEPT ![c] = r]
        BY <2>2 DEF Write, Inv
      <3>2. /\ r \in ClientType /\ r.ino = q.ino /\ r.uuid = q.uuid /\ r.pc = "close"
            /\ r.stale = q.stale /\ r.again = q.again
        BY <1>1, EmptyTyped DEF ClientType, PCs
      <3> HIDE DEF r
      <3> QED
        BY <2>2, <3>1, <3>2 DEF Write
    <2>3. CASE WriteFails(c)
      <3> DEFINE r == [q EXCEPT !.pc = "close", !.doc = EmptyDoc, !.loaded = EmptyDoc,
                                !.failed = TRUE]
      <3>1. client' = [client EXCEPT ![c] = r]
        BY <2>3 DEF WriteFails, Inv
      <3>2. /\ r \in ClientType /\ r.ino = q.ino /\ r.uuid = q.uuid /\ r.pc = "close"
            /\ r.stale = q.stale /\ r.again = q.again
        BY <1>1, EmptyTyped DEF ClientType, PCs
      <3> HIDE DEF r
      <3> QED
        BY <2>3, <3>1, <3>2 DEF WriteFails
    <2> QED
      BY <2>1, <2>2, <2>3
  <1>5. ClientOK(r)
    BY <1>1, <1>4, NoneAssumption DEF ClientOK, Holding, Past, Saving
  <1>6. FileOf(r, file')
    BY <1>1, <1>2, <1>4 DEF FileOf
  <1>7. \A i \in Inodes : lock'[i] = c <=> Owns(r, i)
    BY <1>1, <1>4, Caller DEF Truncate, Write, WriteFails, Owns, Holding
  <1>8. ASSUME NEW d \in Clients \ {c}, client[d].pc \in {"use", "truncate", "write"}
        PROVE  file'[client[d].ino] = file[client[d].ino]
    <2>1. client[d].ino # q.ino
      BY <1>1, <1>8, Exclusive DEF Holding
    <2> QED
      BY <1>2, <1>8, <2>1, Caller DEF Holding
  <1>9. \A j \in Inodes \ InUse' : file'[j] = Empty
    <2>1. \A d \in Clients : client'[d].ino = client[d].ino
      BY <1>4 DEF Inv
    <2>2. InUse' = InUse /\ q.ino \in InUse
      BY <2>1 DEF InUse, Truncate, Write, WriteFails
    <2> QED
      BY <1>2, <2>2 DEF Inv
  <1>10. UNCHANGED <<path, lock, guest, redefs, mixed, deletes>>
    BY DEF Truncate, Write, WriteFails
  <1>11. /\ path' \in Inodes \cup {None} /\ lock' \in [Inodes -> Clients \cup {None}]
         /\ guest' \in Uuids /\ redefs' \in 0 .. MaxRedefs /\ mixed' \in BOOLEAN
         /\ deletes' \in 0 .. MaxDeletes
    BY <1>10 DEF Inv
  <1>12. file' \in [Inodes -> Content]
    BY <1>2, <1>3
  <1> QED
    BY <1>4, <1>5, <1>6, <1>7, <1>8, <1>9, <1>10, <1>11, <1>12, ClientStep

LEMMA CloseStep ==
  ASSUME Inv, NEW c \in Clients, Close(c)
  PROVE  Inv'
  <1> DEFINE q == client[c]
  <1>1. /\ q \in ClientType /\ q.pc = "close" /\ q.ino \in Inodes /\ q.uuid \in Uuids
        /\ Past(q)
    BY Caller DEF Close, ClientOK, Holding
  <1>2. PICK r : /\ client' = [client EXCEPT ![c] = r] /\ ClientOK(r) /\ r.pc \notin Holding
    <2>1. CASE q.stale
      <3> DEFINE r == [q EXCEPT !.pc = "unlink", !.ino = None, !.failed = FALSE]
      <3>1. client' = [client EXCEPT ![c] = r]
        BY <2>1 DEF Close
      <3>2. /\ r \in ClientType /\ r.pc = "unlink" /\ r.ino = None /\ r.uuid = q.uuid
            /\ r.stale = q.stale /\ r.again = q.again /\ r.failed = FALSE
        BY <1>1 DEF ClientType, PCs
      <3> HIDE DEF r
      <3>3. ClientOK(r) /\ r.pc \notin Holding
        BY <1>1, <2>1, <3>2 DEF ClientOK, Holding, Past, Saving
      <3> QED
        BY <3>1, <3>3
    <2>2. CASE ~q.stale
      <3>1. client' = [client EXCEPT ![c] = Idle]
        BY <2>2 DEF Close
      <3> QED
        BY <3>1, IdleOK DEF Holding
    <2> QED
      BY <2>1, <2>2
  <1>3. lock' = [lock EXCEPT ![q.ino] = None] /\ lock \in [Inodes -> Clients \cup {None}]
    BY DEF Close, Inv
  <1>4. /\ lock[q.ino] = c /\ \A i \in Inodes : lock[i] = c => q.ino = i
    BY <1>1, Caller DEF Holding
  <1>5. \A i \in Inodes : lock'[i] # c
    BY <1>1, <1>3, <1>4, NoneAssumption
  <1>6. \A d \in Clients \ {c}, i \in Inodes : lock'[i] = d <=> lock[i] = d
    BY <1>1, <1>3, <1>4, NoneAssumption
  <1>7. lock' \in [Inodes -> Clients \cup {None}]
    BY <1>3
  <1> QED
    BY <1>2, <1>5, <1>6, <1>7, ReclaimStep DEF Close

LEMMA UnlinkStep ==
  ASSUME Inv, NEW c \in Clients, Unlink(c)
  PROVE  Inv'
  <1> DEFINE q == client[c]
             r == [q EXCEPT !.pc = "open", !.stale = FALSE, !.again = TRUE]
  <1>1. /\ q \in ClientType /\ q.pc = "unlink" /\ q.ino = None /\ q.uuid \in Uuids
        /\ ~q.failed
    BY Caller DEF Unlink, ClientOK, Holding, Past
  <1>2. client' = [client EXCEPT ![c] = r]
    BY DEF Unlink, Inv
  <1>3. /\ r \in ClientType /\ r.pc = "open" /\ r.ino = None /\ r.uuid = q.uuid
        /\ ~r.stale /\ r.failed = q.failed
    BY <1>1 DEF ClientType, PCs
  <1> HIDE DEF r
  <1>4. ClientOK(r) /\ r.pc \notin Holding
    BY <1>1, <1>3 DEF ClientOK, Holding, Past, Saving
  <1>5. \A i \in Inodes : lock'[i] # c
    BY <1>1, Caller DEF Unlink, Holding
  <1>6. lock' = lock /\ lock' \in [Inodes -> Clients \cup {None}]
    BY DEF Unlink, Inv
  <1>7. path' \in {path, None} /\ file' = Reclaim /\ UNCHANGED <<guest, redefs, mixed, deletes>>
    BY DEF Unlink
  <1> QED
    BY <1>2, <1>4, <1>5, <1>6, <1>7, ReclaimStep

\* The process is gone.
LEMMA DieStep ==
  ASSUME Inv, Die
  PROVE  Inv'
  <1>1. \A c \in Clients : client'[c] = Idle
    BY DEF Die
  <1>2. client' \in [Clients -> ClientType]
    BY IdleOK DEF Die, ClientOK
  <1>3. lock' \in [Inodes -> Clients \cup {None}] /\ \A i \in Inodes : lock'[i] = None
    BY DEF Die
  <1>4. \A c \in Clients, i \in Inodes : lock'[i] = c <=> Owns(client'[c], i)
    BY <1>1, <1>3, IdleOK, NoneAssumption
  <1>5. \A c \in Clients : ClientOK(client'[c]) /\ FileOf(client'[c], file')
    BY <1>1, IdleOK
  <1>6. PICK cut \in BOOLEAN :
          file' = [i \in Inodes |-> IF i # path THEN Empty
                                    ELSE IF cut /\ Torn(i) THEN Damaged ELSE file[i]]
    BY DEF Die
  <1>7. file' \in [Inodes -> Content]
    BY <1>6, EmptyTyped DEF Inv
  <1>8. \A i \in Inodes \ InUse' : file'[i] = Empty
    BY <1>6 DEF InUse, Die
  <1>9. UNCHANGED <<path, guest, redefs, mixed, deletes>>
    BY DEF Die
  <1> QED
    BY <1>2, <1>3, <1>4, <1>5, <1>7, <1>8, <1>9 DEF Inv

LEMMA RefusedStep ==
  ASSUME Inv, NEW c \in Clients, OpenFails(c) \/ LoadFails(c)
  PROVE  Inv'
  <1>1. Refused(c)
    BY DEF OpenFails, LoadFails
  <1>2. CASE Die
    BY <1>2, DieStep
  <1>3. CASE ~(client[c].again /\ client[c].named)
    <2>1. /\ client' = [client EXCEPT ![c] = Idle]
          /\ lock' = [i \in Inodes |-> IF lock[i] = c THEN None ELSE lock[i]]
          /\ UNCHANGED <<path, guest, redefs, mixed, deletes>> /\ file' = Reclaim
      BY <1>1, <1>3 DEF Refused
    <2>2. lock \in [Inodes -> Clients \cup {None}]
      BY DEF Inv
    <2>3. lock' \in [Inodes -> Clients \cup {None}] /\ \A i \in Inodes : lock'[i] # c
      BY <2>1, <2>2, NoneAssumption
    <2>4. \A d \in Clients \ {c}, i \in Inodes : lock'[i] = d <=> lock[i] = d
      BY <2>1, <2>2, NoneAssumption
    <2>5. ClientOK(Idle) /\ Idle.pc \notin Holding
      BY IdleOK DEF Holding
    <2> QED
      BY <2>1, <2>3, <2>4, <2>5, ReclaimStep
  <1> QED
    BY <1>1, <1>2, <1>3 DEF Refused

\* Nobody's caller changes: infostore_delete and a redefinition.
LEMMA OutsideStep ==
  ASSUME Inv, Delete \/ Redefine
  PROVE  Inv'
  <1>1. CASE Delete
    <2>1. \A i \in Inodes : file'[i] = IF i \in InUse' THEN file[i] ELSE Empty
      BY <1>1 DEF Delete, Reclaim
    <2>2. file' \in [Inodes -> Content]
      BY <1>1, EmptyTyped DEF Delete, Reclaim, Inv
    <2>3. UNCHANGED <<lock, client, guest, redefs, mixed>> /\ path' = None
      BY <1>1 DEF Delete
    <2>7. deletes' \in 0 .. MaxDeletes
      BY <1>1, BoundsAssumption DEF Delete, Inv
    <2>4. ASSUME NEW c \in Clients PROVE FileOf(client[c], file')
      <3>1. client[c].ino \in InUse'
        BY <2>3 DEF InUse
      <3>2. client[c].pc \in Holding => client[c].ino \in Inodes
        BY Caller
      <3> QED
        BY <2>1, <3>1, <3>2, Caller DEF FileOf, Holding
    <2>5. \A i \in Inodes \ InUse' : file'[i] = Empty
      BY <2>1
    <2>6. \A c \in Clients : ClientOK(client'[c]) /\ FileOf(client'[c], file')
      BY <2>3, <2>4 DEF Inv
    <2> QED
      BY <2>2, <2>3, <2>5, <2>6, <2>7 DEF Inv
  <1>2. CASE Redefine
    <2>1. UNCHANGED <<path, file, lock, client, mixed, deletes>>
      BY <1>2 DEF Redefine
    <2>2. guest' \in Uuids
      BY <1>2 DEF Redefine
    <2>3. redefs' \in 0 .. MaxRedefs
      BY <1>2, BoundsAssumption DEF Redefine, Inv
    <2>4. InUse' = InUse
      BY <2>1 DEF InUse
    <2> QED
      BY <2>1, <2>2, <2>3, <2>4 DEF Inv
  <1> QED
    BY <1>1, <1>2

LEMMA NextInv == Inv /\ [Next]_vars => Inv'
  <1> SUFFICES ASSUME Inv, [Next]_vars PROVE Inv'
    OBVIOUS
  <1>1. ASSUME NEW c \in Clients, Begin(c) \/ Step(c) PROVE Inv'
    BY <1>1, BeginStep, OpenStep, FlockStep, LoadStep, UseStep, SaveStep, CloseStep,
       UnlinkStep, RefusedStep DEF Step
  <1>2. CASE Delete \/ Redefine
    BY <1>2, OutsideStep
  <1>3. CASE Crash
    BY <1>3, DieStep DEF Crash
  <1>4. CASE UNCHANGED vars
    <2>1. UNCHANGED <<path, file, lock, client, guest, redefs, mixed, deletes>>
      BY <1>4 DEF vars
    <2>2. InUse' = InUse
      BY <2>1 DEF InUse
    <2> QED
      BY <2>1, <2>2 DEF Inv
  <1> QED
    BY <1>1, <1>2, <1>3, <1>4 DEF Next

LEMMA Invariant == Spec => []Inv
  BY InitInv, NextInv, PTL DEF Spec

\* Types; in particular nobody works on a document that did not parse
\* (infostore_open).
THEOREM TypesCorrect == Spec => []TypeOK
  <1>1. Inv => TypeOK
    BY DEF Inv, TypeOK
  <1> QED
    BY <1>1, Invariant, PTL

\* What is in the file when its holder comes to write is what that holder
\* parsed: the flock covers open, use and close (infostore_open, infostore_close).
THEOREM HolderSeesItsOwn == Spec => []HeldIsLoaded
  <1>1. Inv => HeldIsLoaded
    BY DEF Inv, FileOf, HeldIsLoaded
  <1> QED
    BY <1>1, Invariant, PTL

(***************************************************************************)
(* The refinement.  The record of the name is what its writer has loaded,  *)
(* while there is one, and otherwise what the file of the name says; two   *)
(* callers never write to the same file.                                   *)
(***************************************************************************)
Writes(r, i) == r.ino = i /\ r.pc = "write"

LEMMA RecordIs ==
  Inv => /\ path = None => Record = EmptyDoc
         /\ \A c \in Clients :
              path # None /\ Writes(client[c], path) => Record = client[c].loaded
         /\ path # None /\ (\A c \in Clients : ~Writes(client[c], path)) =>
              Record = Parsed(file[path])
  <1> SUFFICES ASSUME Inv PROVE
         /\ path = None => Record = EmptyDoc
         /\ \A c \in Clients :
              path # None /\ Writes(client[c], path) => Record = client[c].loaded
         /\ path # None /\ (\A c \in Clients : ~Writes(client[c], path)) =>
              Record = Parsed(file[path])
    OBVIOUS
  <1>1. ASSUME NEW c \in Clients, path # None, Writes(client[c], path)
        PROVE  Record = client[c].loaded
    <2> DEFINE w == CHOOSE d \in Clients : client[d].ino = path /\ client[d].pc = "write"
    <2>1. w \in Clients /\ client[w].ino = path /\ client[w].pc = "write"
      BY <1>1 DEF Writes
    <2>2. Record = client[w].loaded
      BY <1>1 DEF Record, Writes
    <2> HIDE DEF w
    <2>3. w = c
      BY <1>1, <2>1, Exclusive DEF Writes, Holding
    <2> QED
      BY <2>2, <2>3
  <1> QED
    BY <1>1 DEF Record, Writes

LEMMA RecordNext ==
  Inv' => /\ path' = None => Record' = EmptyDoc
          /\ \A c \in Clients :
               path' # None /\ Writes(client'[c], path') => Record' = client'[c].loaded
          /\ path' # None /\ (\A c \in Clients : ~Writes(client'[c], path')) =>
               Record' = Parsed(file'[path'])
  <1>1. (Inv => /\ path = None => Record = EmptyDoc
                /\ \A c \in Clients :
                     path # None /\ Writes(client[c], path) => Record = client[c].loaded
                /\ path # None /\ (\A c \in Clients : ~Writes(client[c], path)) =>
                     Record = Parsed(file[path]))'
    BY RecordIs, PTL
  <1> QED
    BY <1>1 DEF Writes, Parsed, EmptyDoc

\* A step of one caller that neither starts nor ends a write to the file of
\* the name, and leaves that file as it is.
LEMMA QuietRecord ==
  ASSUME Inv, Inv', NEW c \in Clients, NEW r, client' = [client EXCEPT ![c] = r],
         path' = path, path # None => file'[path] = file[path],
         ~Writes(client[c], path), ~Writes(r, path)
  PROVE  Record' = Record
  <1>1. \A d \in Clients : client'[d] = IF d = c THEN r ELSE client[d]
    BY DEF Inv
  <1>2. CASE path = None
    BY <1>2, RecordIs, RecordNext
  <1>3. CASE path # None /\ \E d \in Clients : Writes(client[d], path)
    <2>1. PICK d \in Clients : Writes(client[d], path)
      BY <1>3
    <2>2. client'[d] = client[d]
      BY <1>1, <2>1
    <2> QED
      BY <1>3, <2>1, <2>2, RecordIs, RecordNext
  <1>4. CASE path # None /\ \A d \in Clients : ~Writes(client[d], path)
    <2>1. \A d \in Clients : ~Writes(client'[d], path')
      BY <1>1, <1>4
    <2> QED
      BY <1>4, <2>1, RecordIs, RecordNext
  <1> QED
    BY <1>2, <1>3, <1>4

LEMMA QuietSteps ==
  ASSUME Inv, Inv', NEW c \in Clients,
         \/ Begin(c) \/ Flock(c) \/ Load(c) \/ LoadStale(c) \/ Use(c) \/ Close(c)
         \/ Open(c) /\ path # None
         \/ (OpenFails(c) \/ LoadFails(c)) /\ ~Die
  PROVE  Record' = Record
  <1>1. client[c].pc # "write" /\ path' = path
    BY DEF Begin, Flock, Load, LoadStale, Use, Close, Open, OpenFails, LoadFails, Refused
  <1>2. client \in [Clients -> ClientType] /\ client[c] \in ClientType /\ path \in Inodes \cup {None}
    BY DEF Inv
  <1>3. PICK r : client' = [client EXCEPT ![c] = r] /\ r.pc # "write"
    <2>1. CASE Begin(c)
      <3> DEFINE r == [Idle EXCEPT !.pc = "open", !.uuid = guest]
      <3>1. client' = [client EXCEPT ![c] = r]
        BY <2>1 DEF Begin
      <3>2. r.pc = "open"
        BY IdleOK DEF ClientOK, ClientType
      <3> HIDE DEF r
      <3> QED
        BY <3>1, <3>2
    <2>2. CASE Flock(c)
      <3> DEFINE r == [client[c] EXCEPT !.pc = "load"]
      <3>1. client' = [client EXCEPT ![c] = r] /\ r.pc = "load"
        BY <1>2, <2>2 DEF Flock, ClientType
      <3> HIDE DEF r
      <3> QED
        BY <3>1
    <2>3. CASE Load(c)
      <3> DEFINE doc == Parsed(file[client[c].ino])
                 new == IF client[c].named THEN [doc EXCEPT !.uuid = client[c].uuid] ELSE doc
                 r == [client[c] EXCEPT !.pc = "use", !.loaded = doc, !.doc = new]
      <3>1. client' = [client EXCEPT ![c] = r]
        BY <1>2, <2>3 DEF Load
      <3> HIDE DEF doc, new
      <3>2. r.pc = "use"
        BY <1>2 DEF ClientType
      <3> HIDE DEF r
      <3> QED
        BY <3>1, <3>2
    <2>4. CASE LoadStale(c)
      <3> DEFINE doc == Parsed(file[client[c].ino])
      <3>1. PICK named \in BOOLEAN :
              client' = [client EXCEPT ![c].pc = "truncate", ![c].loaded = doc, ![c].doc = doc,
                                       ![c].stale = TRUE, ![c].named = named]
        BY <2>4 DEF LoadStale
      <3> DEFINE r == [client[c] EXCEPT !.pc = "truncate", !.loaded = doc, !.doc = doc,
                                        !.stale = TRUE, !.named = named]
      <3>2. client' = [client EXCEPT ![c] = r]
        BY <1>2, <3>1
      <3> HIDE DEF doc
      <3>3. r.pc = "truncate"
        BY <1>2, Zenon DEF ClientType
      <3> HIDE DEF r
      <3> QED
        BY <3>2, <3>3
    <2>5. CASE Use(c)
      <3>1. PICK doc : client' = [client EXCEPT ![c].pc = "truncate", ![c].doc = doc]
        BY <2>5 DEF Use
      <3> DEFINE r == [client[c] EXCEPT !.pc = "truncate", !.doc = doc]
      <3>2. client' = [client EXCEPT ![c] = r] /\ r.pc = "truncate"
        BY <1>2, <3>1 DEF ClientType
      <3> HIDE DEF r
      <3> QED
        BY <3>2
    <2>6. CASE Close(c)
      <3> DEFINE r == IF client[c].stale
                      THEN [client[c] EXCEPT !.pc = "unlink", !.ino = None, !.failed = FALSE]
                      ELSE Idle
      <3>1. client' = [client EXCEPT ![c] = r]
        BY <2>6 DEF Close
      <3>2. r.pc # "write"
        BY <1>2, IdleOK DEF ClientType
      <3> HIDE DEF r
      <3> QED
        BY <3>1, <3>2
    <2>7. CASE Open(c) /\ path # None
      <3> DEFINE r == [client[c] EXCEPT !.pc = "flock", !.ino = path]
      <3>1. client' = [client EXCEPT ![c] = r] /\ r.pc = "flock"
        BY <1>2, <2>7 DEF Open, ClientType
      <3> HIDE DEF r
      <3> QED
        BY <3>1
    <2>8. CASE (OpenFails(c) \/ LoadFails(c)) /\ ~Die
      BY <2>8, IdleOK DEF OpenFails, LoadFails, Refused
    <2> QED
      BY <2>1, <2>2, <2>3, <2>4, <2>5, <2>6, <2>7, <2>8
  <1>4. path # None => file'[path] = file[path]
    <2>1. file' = file \/ file' = Reclaim
      BY DEF Begin, Flock, Load, LoadStale, Use, Close, Open, OpenFails, LoadFails, Refused
    <2>2. path # None => path \in InUse' /\ path \in Inodes
      BY <1>1, <1>2 DEF InUse
    <2> QED
      BY <2>1, <2>2 DEF Reclaim
  <1> QED
    BY <1>1, <1>3, <1>4, QuietRecord DEF Writes

\* A new file is as good as none.
LEMMA OpenRecord ==
  ASSUME Inv, Inv', NEW c \in Clients, Open(c), path = None
  PROVE  Record' = Record
  <1> DEFINE i == CHOOSE i \in Inodes : i \notin InUse
  <1>1. i \in Inodes /\ i \notin InUse
    BY FreeInode DEF Inv
  <1>2. path' = i /\ client' = [client EXCEPT ![c].pc = "flock", ![c].ino = i]
        /\ file' = file
    BY DEF Open
  <1> HIDE DEF i
  <1>3. file[i] = Empty /\ path' # None
    BY <1>1, <1>2, NoneAssumption DEF Inv
  <1>4. \A d \in Clients : ~Writes(client'[d], path')
    <2>1. client \in [Clients -> ClientType] /\ client[c] \in ClientType
      BY DEF Inv
    <2>2. \A d \in Clients \ {c} : client'[d] = client[d]
      BY <1>2, <2>1
    <2>3. client'[c].pc = "flock"
      BY <1>2, <2>1 DEF ClientType
    <2> QED
      BY <1>1, <1>2, <2>2, <2>3 DEF Writes, InUse
  <1> QED
    BY <1>2, <1>3, <1>4, RecordIs, RecordNext, EmptyTyped

\* Between truncation and writing the record is the one that was loaded.
LEMMA TruncateRecord ==
  ASSUME Inv, Inv', NEW c \in Clients, Truncate(c)
  PROVE  Record' = Record
  <1> DEFINE q == client[c]
             r == [q EXCEPT !.pc = "write"]
  <1>1. /\ q \in ClientType /\ q.pc = "truncate" /\ q.ino \in Inodes
        /\ Parsed(file[q.ino]) = q.loaded
    BY Caller DEF Truncate, Holding, FileOf
  <1>2. client' = [client EXCEPT ![c] = r] /\ path' = path
    BY DEF Truncate, Inv
  <1>3. r.pc = "write" /\ r.ino = q.ino /\ r.loaded = q.loaded
    BY <1>1 DEF ClientType, PCs
  <1>4. file' = [file EXCEPT ![q.ino] = Empty] /\ file \in [Inodes -> Content]
    BY DEF Truncate, Inv
  <1> HIDE DEF r
  <1>5. CASE q.ino = path
    <2>1. \A d \in Clients : ~Writes(client[d], path)
      BY <1>1, <1>5, Exclusive DEF Writes, Holding
    <2>2. Record = q.loaded
      BY <1>1, <1>5, <2>1, RecordIs, NoneAssumption
    <2>3. client'[c] = r
      BY <1>2 DEF Inv
    <2>4. Record' = r.loaded
      BY <1>1, <1>2, <1>3, <1>5, <2>3, RecordNext, NoneAssumption DEF Writes
    <2> QED
      BY <1>3, <2>2, <2>4
  <1>6. CASE q.ino # path
    <2>1. path # None => file'[path] = file[path]
      BY <1>4, <1>6 DEF Inv
    <2> QED
      BY <1>1, <1>2, <1>3, <1>6, <2>1, QuietRecord DEF Writes
  <1> QED
    BY <1>5, <1>6

\* Who has the record open knows it: the lock keeps others from writing it.
LEMMA HolderRecord ==
  ASSUME Inv, NEW c \in Clients, client[c].pc \in Holding, client[c].ino = path
  PROVE  /\ path \in Inodes /\ path # None
         /\ client[c].pc = "write" => Record = client[c].loaded
         /\ client[c].pc # "write" => Record = Parsed(file[path])
  <1>1. path \in Inodes /\ path # None
    BY Caller, NoneAssumption
  <1>2. ASSUME client[c].pc # "write" PROVE \A d \in Clients : ~Writes(client[d], path)
    BY <1>2, Exclusive DEF Writes, Holding
  <1> QED
    BY <1>1, <1>2, RecordIs DEF Writes

(***************************************************************************)
(* What a caller is to the record.                                         *)
(***************************************************************************)
Where(r, p) == IF r.ino = None THEN "out" ELSE IF r.ino = p THEN "in" ELSE "cut"
Seen(r, p) == [uuid |-> r.uuid, at |-> Where(r, p), due |-> Due(r),
               stale |-> r.stale, again |-> r.again, failed |-> r.failed]

LEMMA UsersAre ==
  /\ Users = [c \in Clients |-> Seen(client[c], path)]
  /\ Users' = [c \in Clients |-> Seen(client'[c], path')]
  BY DEF Users, Seen, Where, At, Due

LEMMA UserStep ==
  ASSUME Inv, NEW c \in Clients, NEW r, client' = [client EXCEPT ![c] = r],
         \A d \in Clients \ {c} : Where(client[d], path') = Where(client[d], path)
  PROVE  /\ Users[c] = Seen(client[c], path)
         /\ Users' = [Users EXCEPT ![c] = Seen(r, path')]
  <1>1. \A d \in Clients : client'[d] = IF d = c THEN r ELSE client[d]
    BY DEF Inv
  <1>2. \A d \in Clients \ {c} : Seen(client'[d], path') = Seen(client[d], path)
    BY <1>1 DEF Seen
  <1> QED
    BY <1>1, <1>2, UsersAre

LEMMA SamePath ==
  ASSUME path' = path
  PROVE  \A d \in Clients : Where(client[d], path') = Where(client[d], path)
  OBVIOUS

\* A step that is none to the record.
LEMMA UserStutter ==
  ASSUME Inv, NEW c \in Clients, NEW r, client' = [client EXCEPT ![c] = r], path' = path,
         Seen(r, path) = Seen(client[c], path)
  PROVE  Users' = Users
  <1>1. Users' = [Users EXCEPT ![c] = Users[c]]
    BY UserStep, SamePath
  <1> QED
    BY <1>1, UsersAre

\* The record is removed: those who have it open are cut off.
LEMMA UsersCutOff ==
  ASSUME NEW us, us = [c \in Clients |-> Seen(client'[c], path)], path' = None
  PROVE  Users' = Store!CutOff(us)
  <1>1. ASSUME NEW c \in Clients
        PROVE  Seen(client'[c], path') = IF us[c].at = "in" THEN [us[c] EXCEPT !.at = "cut"]
                                         ELSE us[c]
    <2>1. Where(client'[c], path') =
            IF Where(client'[c], path) = "in" THEN "cut" ELSE Where(client'[c], path)
      BY DEF Where
    <2>2. us[c] = Seen(client'[c], path) /\ us[c].at = Where(client'[c], path)
      BY DEF Seen
    <2> QED
      BY <2>1, <2>2 DEF Seen
  <1> QED
    BY <1>1, UsersAre DEF Store!CutOff

LEMMA IdleSeen == \A p : Seen(Idle, p) = Store!Out
  <1>1. \A p : Where(Idle, p) = "out" /\ Due(Idle) = None
    BY IdleOK DEF Where, Due
  <1> QED
    BY <1>1, IdleOK, Zenon DEF Seen, Store!Out

LEMMA BeginStore ==
  ASSUME Inv, Inv', NEW c \in Clients, Begin(c)
  PROVE  Store!Begin(c)
  <1> DEFINE r == [Idle EXCEPT !.pc = "open", !.uuid = guest]
  <1>1. client' = [client EXCEPT ![c] = r] /\ path' = path /\ deletes' = deletes
    BY DEF Begin
  <1>2. client[c] = Idle /\ guest \in Uuids
    BY Caller DEF Begin, ClientOK, Past, Inv
  <1>3. /\ r.pc = "open" /\ r.uuid = guest /\ r.ino = None /\ r.stale = FALSE
        /\ r.again = FALSE /\ r.failed = FALSE
    BY IdleOK DEF ClientOK, ClientType
  <1> HIDE DEF r
  <1>4. Due(r) = Due(Idle) /\ Where(r, path) = Where(Idle, path)
    BY <1>3, IdleOK DEF Due, Where
  <1>5. Seen(Idle, path) = Store!Out /\ Seen(r, path) = [Store!Out EXCEPT !.uuid = guest]
    <2>1. r.stale = Idle.stale /\ r.again = Idle.again /\ r.failed = Idle.failed
      BY <1>3, IdleOK
    <2>2. Seen(r, path) = [Seen(Idle, path) EXCEPT !.uuid = r.uuid]
      BY <1>4, <2>1 DEF Seen
    <2> QED
      BY <1>3, <2>2, IdleSeen
  <1>6. Users[c] = Store!Out /\ Users' = [Users EXCEPT ![c] = Seen(r, path')]
    BY <1>1, <1>2, <1>5, UserStep, SamePath
  <1>7. Store!Becomes(c, [Store!Out EXCEPT !.uuid = guest])
    BY <1>1, <1>5, <1>6 DEF Store!Becomes
  <1> QED
    BY <1>1, <1>2, <1>6, <1>7, QuietSteps DEF Store!Begin

LEMMA OpenStore ==
  ASSUME Inv, Inv', NEW c \in Clients, Open(c)
  PROVE  Store!Open(c)
  <1> DEFINE q == client[c]
             r == [q EXCEPT !.pc = "flock", !.ino = path']
  <1>1. /\ q \in ClientType /\ q.pc = "open" /\ q.ino = None /\ q.uuid \in Uuids
        /\ ~q.stale /\ client \in [Clients -> ClientType]
    BY Caller DEF Open, ClientOK, Holding, Past, Saving, Inv
  <1>2. client' = [client EXCEPT ![c] = r] /\ deletes' = deletes
    BY <1>1 DEF Open
  <1>3. /\ path' \in Inodes /\ path' # None
        /\ path = None => \A d \in Clients : client[d].ino # path'
    <2>1. CASE path # None
      BY <2>1, NoneAssumption DEF Open, Inv
    <2>2. CASE path = None
      <3> DEFINE i == CHOOSE i \in Inodes : i \notin InUse
      <3>1. i \in Inodes /\ i \notin InUse
        BY <2>2, FreeInode DEF Inv, Open
      <3>2. path' = i
        BY <2>2 DEF Open
      <3> HIDE DEF i
      <3> QED
        BY <3>1, <3>2, NoneAssumption DEF InUse
    <2> QED
      BY <2>1, <2>2
  <1>4. \A d \in Clients \ {c} : Where(client[d], path') = Where(client[d], path)
    BY <1>3 DEF Where, Open
  <1>5. /\ r.ino = path' /\ r.uuid = q.uuid /\ r.pc = "flock" /\ r.stale = q.stale
        /\ r.again = q.again /\ r.failed = q.failed
    BY <1>1 DEF ClientType
  <1> HIDE DEF r
  <1>6. Users[c] = Seen(q, path) /\ Users' = [Users EXCEPT ![c] = Seen(r, path')]
    BY <1>2, <1>4, UserStep
  <1>7. Seen(r, path') = [Seen(q, path) EXCEPT !.at = "in"]
    BY <1>1, <1>3, <1>5 DEF Seen, Where, Due
  <1>8. Seen(q, path).at = "out" /\ Seen(q, path).uuid # None /\ ~Seen(q, path).stale
    BY <1>1, NoneAssumption DEF Seen, Where
  <1>9. Record' = Record
    BY OpenRecord, QuietSteps
  <1> QED
    BY <1>2, <1>6, <1>7, <1>8, <1>9 DEF Store!Open, Store!Becomes

\* Waiting for the lock, parsing and truncating change nothing that others see.
LEMMA SilentStore ==
  ASSUME Inv, Inv', NEW c \in Clients, Flock(c) \/ Load(c) \/ Truncate(c)
  PROVE  UNCHANGED <<Record, Users, deletes>>
  <1> DEFINE q == client[c]
  <1>1. /\ q \in ClientType /\ client \in [Clients -> ClientType] /\ path' = path
        /\ deletes' = deletes /\ Past(q)
    BY Caller DEF Inv, Flock, Load, Truncate, ClientOK
  <1>2. PICK r : /\ client' = [client EXCEPT ![c] = r]
                 /\ r.ino = q.ino /\ r.uuid = q.uuid /\ r.stale = q.stale
                 /\ r.again = q.again /\ r.failed = q.failed /\ Due(r) = Due(q)
    <2>1. CASE Flock(c)
      <3> DEFINE r == [q EXCEPT !.pc = "load"]
      <3>1. client' = [client EXCEPT ![c] = r] /\ q.pc = "flock"
        BY <1>1, <2>1 DEF Flock
      <3>2. /\ r.ino = q.ino /\ r.uuid = q.uuid /\ r.stale = q.stale /\ r.pc = "load"
            /\ r.again = q.again /\ r.failed = q.failed
        BY <1>1 DEF ClientType
      <3> HIDE DEF r
      <3> QED
        BY <3>1, <3>2 DEF Due
    <2>2. CASE Load(c)
      <3> DEFINE doc == Parsed(file[client[c].ino])
                 new == IF client[c].named THEN [doc EXCEPT !.uuid = client[c].uuid] ELSE doc
                 r == [client[c] EXCEPT !.pc = "use", !.loaded = doc, !.doc = new]
      <3>1. client' = [client EXCEPT ![c] = r] /\ q.pc = "load"
        BY <1>1, <2>2 DEF Load
      <3> HIDE DEF doc, new
      <3>2. /\ r.ino = q.ino /\ r.uuid = q.uuid /\ r.stale = q.stale /\ r.pc = "use"
            /\ r.again = q.again /\ r.failed = q.failed
        BY <1>1 DEF ClientType
      <3> HIDE DEF r
      <3> QED
        BY <3>1, <3>2 DEF Due
    <2>3. CASE Truncate(c)
      <3> DEFINE r == [q EXCEPT !.pc = "write"]
      <3>1. client' = [client EXCEPT ![c] = r] /\ q.pc = "truncate"
        BY <1>1, <2>3 DEF Truncate
      <3>2. /\ r.ino = q.ino /\ r.uuid = q.uuid /\ r.stale = q.stale /\ r.pc = "write"
            /\ r.again = q.again /\ r.failed = q.failed /\ r.doc = q.doc
        BY <1>1 DEF ClientType
      <3> HIDE DEF r
      <3> QED
        BY <3>1, <3>2 DEF Due
    <2> QED
      BY <2>1, <2>2, <2>3
  <1>3. Seen(r, path) = Seen(q, path)
    BY <1>2 DEF Seen, Where
  <1>4. Record' = Record
    BY TruncateRecord, QuietSteps
  <1> QED
    BY <1>1, <1>2, <1>3, <1>4, UserStutter

\* Another guest's record is not taken over.
LEMMA StaleStore ==
  ASSUME Inv, Inv', NEW c \in Clients, LoadStale(c)
  PROVE  Store!Condemn(c)
  <1> DEFINE q == client[c]
             doc == Parsed(file[q.ino])
  <1>1. /\ q \in ClientType /\ client \in [Clients -> ClientType] /\ path' = path
        /\ deletes' = deletes /\ q.pc = "load" /\ q.ino \in Inodes /\ q.pc \in Holding
        /\ q.ino # None /\ ~q.stale /\ ~q.again /\ doc \in Doc
    BY Caller, EmptyTyped, NoneAssumption DEF Inv, LoadStale, ClientOK, Past, Saving, Holding
  <1>2. PICK named \in BOOLEAN :
          /\ IF named THEN doc.uuid \notin {None, q.uuid} ELSE "uuid" \in Faults
          /\ client' = [client EXCEPT ![c].pc = "truncate", ![c].loaded = doc, ![c].doc = doc,
                                      ![c].stale = TRUE, ![c].named = named]
    BY DEF LoadStale
  <1> HIDE DEF doc
  <1> DEFINE r == [q EXCEPT !.pc = "truncate", !.loaded = doc, !.doc = doc,
                            !.stale = TRUE, !.named = named]
  <1>3. client' = [client EXCEPT ![c] = r]
    BY <1>1, <1>2
  <1>4. /\ r.ino = q.ino /\ r.uuid = q.uuid /\ r.stale = TRUE
        /\ r.again = q.again /\ r.failed = q.failed
    BY <1>1 DEF ClientType
  <1> HIDE DEF r
  <1>11. Due(r) = None /\ Due(q) = None /\ Where(r, path) = Where(q, path)
    BY <1>1, <1>4 DEF Where, Due
  <1>5. Seen(r, path) = [Seen(q, path) EXCEPT !.stale = TRUE]
    <2>1. Seen(r, path) = [Seen(q, path) EXCEPT !.stale = r.stale]
      BY <1>4, <1>11 DEF Seen
    <2> QED
      BY <1>4, <2>1
  <1>6. /\ Seen(q, path).at # "out" /\ Seen(q, path).due = None /\ ~Seen(q, path).stale
        /\ ~Seen(q, path).again /\ Seen(q, path).uuid = q.uuid
        /\ Seen(q, path).at = "in" => q.ino = path
    BY <1>1 DEF Seen, Where, Due
  <1>7. Users[c] = Seen(q, path) /\ Users' = [Users EXCEPT ![c] = Seen(r, path)]
    BY <1>1, <1>3, UserStep, SamePath
  <1>8. q.ino = path => Record = doc
    BY <1>1, HolderRecord DEF doc
  <1>9. q.ino = path =>
          /\ Record \in Store!Doc
          /\ Record.uuid \notin {None, q.uuid} \/ "uuid" \in Faults
    BY <1>1, <1>2, <1>8 DEF Doc, Store!Doc
  <1>10. Record' = Record
    BY QuietSteps
  <1> QED
    BY <1>1, <1>5, <1>6, <1>7, <1>9, <1>10 DEF Store!Condemn, Store!Becomes

\* What a caller comes to store is the record with one change.
LEMMA OutcomesChange ==
  ASSUME NEW doc \in Doc, NEW u \in Uuids, NEW d \in Outcomes(doc, u)
  PROVE  d \in Store!Changes(doc, u)
  <1>1. Store!Changes(doc, u) =
          Claimed(doc, u) \cup {[e EXCEPT !.val[k] = u] : e \in Claimed(doc, u), k \in Keys}
    BY DEF Claimed, Store!Changes
  <1>2. Outcomes(doc, u) =
          Claimed(doc, u) \cup {[e EXCEPT !.val[k] = u] : e \in Claimed(doc, u), k \in Keys}
    BY DEF Outcomes, SetKey
  <1> QED
    BY <1>1, <1>2

LEMMA UseStore ==
  ASSUME Inv, Inv', NEW c \in Clients, Use(c)
  PROVE  Store!Set(c)
  <1> DEFINE q == client[c]
  <1>1. /\ q \in ClientType /\ client \in [Clients -> ClientType] /\ path' = path
        /\ deletes' = deletes /\ q.pc = "use" /\ q.ino \in Inodes /\ q.pc \in Holding
        /\ q.ino # None /\ ~q.stale /\ q.uuid \in Uuids /\ q.loaded \in Doc /\ q.doc \in Doc
        /\ q.again \/ q.loaded.uuid \in {None, q.uuid}
        /\ Parsed(file[q.ino]) = q.loaded
    BY Caller, NoneAssumption
       DEF Inv, Use, ClientOK, ClientType, Past, Saving, Holding, FileOf
  <1>2. PICK doc \in {q.doc} \cup {SetKey(q.doc, k, q.uuid) : k \in Keys} :
          client' = [client EXCEPT ![c].pc = "truncate", ![c].doc = doc]
    BY DEF Use
  <1> DEFINE r == [q EXCEPT !.pc = "truncate", !.doc = doc]
  <1>3. client' = [client EXCEPT ![c] = r]
    BY <1>1, <1>2
  <1>4. /\ r.ino = q.ino /\ r.uuid = q.uuid /\ r.stale = q.stale /\ r.pc = "truncate"
        /\ r.again = q.again /\ r.failed = q.failed /\ r.doc = doc
    BY <1>1 DEF ClientType
  <1> HIDE DEF r
  <1>5. doc \in Outcomes(q.loaded, q.uuid)
    <2>1. r \in ClientType /\ ClientOK(r)
      <3>1. client'[c] = r
        BY <1>1, <1>3
      <3> QED
        BY <3>1 DEF Inv, ClientOK
    <2>2. r.loaded = q.loaded
      BY <1>1 DEF r, ClientType
    <2> QED
      BY <1>4, <2>1, <2>2 DEF ClientOK, Saving
  <1>6. doc \in Doc
    BY <1>1, SetTyped
  <1>7. Seen(r, path) = [Seen(q, path) EXCEPT !.due = doc]
    BY <1>1, <1>4 DEF Seen, Where, Due, Saving
  <1>8. /\ Seen(q, path).at # "out" /\ Seen(q, path).due = None /\ ~Seen(q, path).stale
        /\ Seen(q, path).again = q.again /\ Seen(q, path).uuid = q.uuid
        /\ Seen(q, path).at = "in" => q.ino = path
    BY <1>1 DEF Seen, Where, Due
  <1>9. Users[c] = Seen(q, path) /\ Users' = [Users EXCEPT ![c] = Seen(r, path)]
    BY <1>1, <1>3, UserStep, SamePath
  <1>10. q.ino = path => Record = q.loaded
    BY <1>1, HolderRecord
  <1>11. Doc = Store!Doc
    BY DEF Doc, Store!Doc
  <1>12. doc \in Store!Changes(q.loaded, q.uuid)
    BY <1>1, <1>5, OutcomesChange
  <1>13. Record' = Record
    BY QuietSteps
  <1>14. doc \in IF Seen(q, path).at = "in" THEN Store!Changes(Record, q.uuid) ELSE Store!Doc
    BY <1>6, <1>8, <1>10, <1>11, <1>12
  <1>15. Seen(q, path).at = "in" =>
           Record \in Store!Doc /\ (q.again \/ Record.uuid \in {None, q.uuid})
    BY <1>1, <1>8, <1>10, <1>11
  <1> QED
    BY <1>1, <1>7, <1>8, <1>9, <1>13, <1>14, <1>15 DEF Store!Set, Store!Becomes

LEMMA WriteStore ==
  ASSUME Inv, Inv', NEW c \in Clients, Write(c)
  PROVE  [Store!Next]_(Store!vars)
  <1> DEFINE q == client[c]
             r == [q EXCEPT !.pc = "close", !.doc = EmptyDoc, !.loaded = EmptyDoc]
  <1>1. /\ q \in ClientType /\ q.pc = "write" /\ q.ino \in Inodes /\ q.uuid \in Uuids
        /\ q.doc \in Outcomes(q.loaded, q.uuid) /\ q.doc \in Doc /\ q.loaded \in Doc
        /\ q.pc \in Holding /\ q.ino # None /\ (q.stale => q.doc = q.loaded)
        /\ client \in [Clients -> ClientType]
    BY Caller, NoneAssumption
       DEF Write, Holding, ClientOK, ClientType, Past, Saving, Inv
  <1>2. client' = [client EXCEPT ![c] = r] /\ path' = path /\ deletes' = deletes
    BY DEF Write, Inv
  <1>3. /\ r.pc = "close" /\ r.ino = q.ino /\ r.uuid = q.uuid /\ r.stale = q.stale
        /\ r.again = q.again /\ r.failed = q.failed
    BY <1>1 DEF ClientType, PCs
  <1>4. file' = [file EXCEPT ![q.ino] = q.doc] /\ file \in [Inodes -> Content]
    BY DEF Write, Inv
  <1> HIDE DEF r
  <1>5. ASSUME q.ino = path PROVE Record = q.loaded /\ Record' = q.doc
    <2>1. client'[c] = r /\ r.pc \in Holding
      BY <1>2, <1>3 DEF Inv, Holding
    <2>2. \A d \in Clients : ~Writes(client'[d], path')
      <3>1. \A d \in Clients \ {c} : client'[d] = client[d] /\ ~Writes(client[d], path)
        BY <1>1, <1>2, <1>5, Exclusive DEF Writes, Holding, Inv
      <3> QED
        BY <1>2, <1>3, <2>1, <3>1 DEF Writes
    <2>3. Record' = Parsed(file'[path'])
      BY <1>1, <1>2, <1>5, <2>2, RecordNext
    <2>4. file'[path'] = q.doc /\ q.doc # Empty
      BY <1>1, <1>2, <1>4, <1>5, ContentAssumption DEF Doc
    <2> QED
      BY <1>1, <1>5, <2>3, <2>4, HolderRecord DEF Parsed
  <1>6. ASSUME q.ino # path PROVE Record' = Record
    <2>1. path # None => file'[path] = file[path]
      BY <1>4, <1>6 DEF Inv
    <2> QED
      BY <1>1, <1>2, <1>3, <1>6, <2>1, QuietRecord DEF Writes
  <1>7. CASE q.stale
    <2>1. Seen(r, path) = Seen(q, path)
      BY <1>3, <1>7 DEF Seen, Where, Due
    <2> QED
      BY <1>1, <1>2, <1>5, <1>6, <1>7, <2>1, UserStutter DEF Store!vars
  <1>8. CASE ~q.stale
    <2>1. Due(q) = q.doc /\ Due(r) = None /\ Where(r, path) = Where(q, path) /\ q.doc # None
      BY <1>1, <1>3, <1>8, ContentAssumption DEF Due, Where, Doc
    <2>2. Seen(r, path) = [Seen(q, path) EXCEPT !.due = None]
      BY <1>3, <2>1 DEF Seen
    <2>3. /\ Seen(q, path).due = q.doc /\ Seen(q, path).uuid = q.uuid
          /\ Seen(q, path).at = "in" <=> q.ino = path
      BY <1>1, <2>1 DEF Seen, Where
    <2>4. Users[c] = Seen(q, path) /\ Users' = [Users EXCEPT ![c] = Seen(r, path)]
      BY <1>1, <1>2, UserStep, SamePath
    <2>5. q.doc \in Store!Changes(q.loaded, q.uuid)
      BY <1>1, OutcomesChange
    <2>6. Store!Commit(c)
      BY <1>2, <1>5, <1>6, <2>1, <2>2, <2>3, <2>4, <2>5 DEF Store!Commit, Store!Becomes
    <2> QED
      BY <2>6 DEF Store!Next
  <1> QED
    BY <1>7, <1>8

\* What a failing save changes in what is seen of a caller.
LEMMA SpoilSeen ==
  ASSUME NEW q, NEW r, NEW p, r.uuid = q.uuid, Where(r, p) = Where(q, p), r.stale = q.stale, r.again = q.again
  PROVE  Seen(r, p) = [Seen(q, p) EXCEPT !.failed = r.failed, !.due = Due(r)]
  <1> DEFINE x == Seen(q, p)
             y == [x EXCEPT !.failed = r.failed]
  <1>1. x = [uuid |-> q.uuid, at |-> Where(q, p), due |-> Due(q),
            stale |-> q.stale, again |-> q.again, failed |-> q.failed]
    BY DEF Seen
  <1> HIDE DEF x
  <1>2. y = [uuid |-> q.uuid, at |-> Where(q, p), due |-> Due(q),
            stale |-> q.stale, again |-> q.again, failed |-> r.failed]
    BY <1>1
  <1>3. [x EXCEPT !.failed = r.failed, !.due = Due(r)] = [y EXCEPT !.due = Due(r)]
    BY <1>1
  <1> HIDE DEF y
  <1>4. Seen(r, p) = [uuid |-> q.uuid, at |-> Where(q, p), due |-> Due(r),
                     stale |-> q.stale, again |-> q.again, failed |-> r.failed]
    BY Zenon DEF Seen
  <1>5. Seen(r, p) = [y EXCEPT !.due = Due(r)]
    BY <1>2, <1>4
  <1> QED
    BY <1>3, <1>5 DEF x

LEMMA SpoilStore ==
  ASSUME Inv, Inv', NEW c \in Clients, WriteFails(c)
  PROVE  Store!Spoil(c)
  <1> DEFINE q == client[c]
             r == [q EXCEPT !.pc = "close", !.doc = EmptyDoc, !.loaded = EmptyDoc,
                            !.failed = TRUE]
  <1>1. /\ q \in ClientType /\ q.pc = "write" /\ q.ino \in Inodes /\ q.pc \in Holding
        /\ q.ino # None /\ ~q.failed /\ client \in [Clients -> ClientType]
    BY Caller, NoneAssumption DEF WriteFails, Holding, ClientOK, Past, Inv
  <1>2. /\ client' = [client EXCEPT ![c] = r] /\ path' = path /\ deletes' = deletes
        /\ "save" \in Faults
    BY DEF WriteFails, Inv
  <1>3. /\ r.pc = "close" /\ r.ino = q.ino /\ r.uuid = q.uuid /\ r.stale = q.stale
        /\ r.again = q.again /\ r.failed = TRUE
    BY <1>1 DEF ClientType, PCs
  <1>4. PICK left \in {Empty, Damaged} :
          file' = [file EXCEPT ![q.ino] = left] /\ file \in [Inodes -> Content]
    BY DEF WriteFails, Inv
  <1> HIDE DEF r
  <1>5. ASSUME q.ino = path PROVE Record' \in {EmptyDoc, Damaged}
    <2>1. client'[c] = r /\ r.pc \in Holding
      BY <1>2, <1>3 DEF Inv, Holding
    <2>2. \A d \in Clients : ~Writes(client'[d], path')
      <3>1. \A d \in Clients \ {c} : client'[d] = client[d] /\ ~Writes(client[d], path)
        BY <1>1, <1>2, <1>5, Exclusive DEF Writes, Holding, Inv
      <3> QED
        BY <1>2, <1>3, <2>1, <3>1 DEF Writes
    <2>3. Record' = Parsed(file'[path'])
      BY <1>1, <1>2, <1>5, <2>2, RecordNext
    <2>4. file'[path'] = left
      BY <1>1, <1>2, <1>4, <1>5
    <2> QED
      BY <2>3, <2>4 DEF Parsed
  <1>6. ASSUME q.ino # path PROVE Record' = Record
    <2>1. path # None => file'[path] = file[path]
      BY <1>4, <1>6 DEF Inv
    <2> QED
      BY <1>1, <1>2, <1>3, <1>6, <2>1, QuietRecord DEF Writes
  <1>7. Due(r) = None /\ Where(r, path) = Where(q, path)
    BY <1>3 DEF Due, Where
  <1>8. Seen(r, path) = [Seen(q, path) EXCEPT !.failed = TRUE, !.due = None]
    <2>1. /\ r.uuid = q.uuid /\ Where(r, path) = Where(q, path)
          /\ r.stale = q.stale /\ r.again = q.again
      BY <1>3, <1>7
    <2>2. Seen(r, path) = [Seen(q, path) EXCEPT !.failed = r.failed, !.due = Due(r)]
      BY <2>1, SpoilSeen, Zenon
    <2> QED
      BY <1>3, <1>7, <2>2
  <1>9. /\ Seen(q, path).at # "out" /\ ~Seen(q, path).failed
        /\ Seen(q, path).at = "in" <=> q.ino = path
    BY <1>1 DEF Seen, Where
  <1>10. Users[c] = Seen(q, path) /\ Users' = [Users EXCEPT ![c] = Seen(r, path)]
    BY <1>1, <1>2, UserStep, SamePath
  <1>11. EmptyDoc = Store!EmptyDoc
    BY DEF EmptyDoc, Store!EmptyDoc
  <1> QED
    BY <1>2, <1>5, <1>6, <1>8, <1>9, <1>10, <1>11 DEF Store!Spoil, Store!Becomes

LEMMA LeaveStore ==
  ASSUME Inv, Inv', NEW c \in Clients, Close(c) \/ ((OpenFails(c) \/ LoadFails(c)) /\ ~Die)
  PROVE  Store!Leave(c)
  <1> DEFINE q == client[c]
  <1>1. /\ q \in ClientType /\ client \in [Clients -> ClientType] /\ path' = path
        /\ deletes' = deletes /\ q.pc \in {"open", "load", "close"} /\ q.uuid \in Uuids
        /\ Past(q)
    BY Caller DEF Inv, Close, OpenFails, LoadFails, Refused, ClientOK
  <1>2. Record' = Record
    BY QuietSteps
  <1>3. /\ Users[c] = Seen(q, path) /\ Seen(q, path).uuid # None /\ Seen(q, path).due = None
        /\ Seen(q, path).stale = q.stale
    BY <1>1, UsersAre, NoneAssumption DEF Seen, Due
  <1>4. Users[c] # Store!Out
    BY <1>3 DEF Store!Out
  <1>5. CASE q.stale
    <2> DEFINE r == [q EXCEPT !.pc = "unlink", !.ino = None, !.failed = FALSE]
    <2>1. q.pc = "close" /\ q.ino # None
      BY <1>1, <1>5, Caller, NoneAssumption DEF Past, Saving, Holding
    <2>2. client' = [client EXCEPT ![c] = r]
      BY <1>1, <1>5, <2>1 DEF Close, OpenFails, LoadFails
    <2>3. /\ r.pc = "unlink" /\ r.ino = None /\ r.uuid = q.uuid /\ r.stale = q.stale
          /\ r.again = q.again /\ r.failed = FALSE
      BY <1>1 DEF ClientType
    <2> HIDE DEF r
    <2>4. Due(r) = None /\ Due(q) = None /\ Where(r, path) = "out" /\ Where(q, path) # "out"
      BY <1>5, <2>1, <2>3 DEF Due, Where
    <2>5. Seen(r, path) = [Seen(q, path) EXCEPT !.at = "out", !.failed = FALSE]
      <3>1. /\ r.uuid = q.uuid /\ Due(r) = Due(q)
            /\ r.stale = q.stale /\ r.again = q.again
        BY <2>3, <2>4
      <3> DEFINE y == [Seen(q, path) EXCEPT !.at = "out"]
      <3>2. y = [uuid |-> q.uuid, at |-> "out", due |-> Due(q), stale |-> q.stale,
                 again |-> q.again, failed |-> q.failed]
        BY DEF Seen
      <3>3. Seen(r, path) = [uuid |-> q.uuid, at |-> "out", due |-> Due(q), stale |-> q.stale,
                             again |-> q.again, failed |-> r.failed]
        BY <2>4, <3>1, Zenon DEF Seen
      <3> HIDE DEF y
      <3>4. Seen(r, path) = [y EXCEPT !.failed = r.failed]
        BY <3>2, <3>3
      <3>5. Seen(r, path) = [y EXCEPT !.failed = FALSE]
        BY <2>3, <3>2, <3>4
      <3> QED
        BY <3>5, Zenon DEF y
    <2>6. Seen(q, path).at # "out"
      BY <2>4 DEF Seen
    <2>7. Users' = [Users EXCEPT ![c] = Seen(r, path)]
      BY <1>1, <2>2, UserStep, SamePath
    <2> QED
      BY <1>1, <1>2, <1>3, <1>4, <1>5, <2>3, <2>5, <2>6, <2>7
         DEF Store!Leave, Store!Becomes
  <1>6. CASE ~q.stale
    <2>1. client' = [client EXCEPT ![c] = Idle]
      BY <1>6 DEF Close, OpenFails, LoadFails, Refused
    <2>2. Users' = [Users EXCEPT ![c] = Seen(Idle, path')]
      BY <1>1, <2>1, UserStep, SamePath
    <2>3. Users' = [Users EXCEPT ![c] = Store!Out]
      BY <2>2, IdleSeen
    <2> QED
      BY <1>1, <1>2, <1>3, <1>4, <1>6, <2>3 DEF Store!Leave, Store!Becomes
  <1> QED
    BY <1>5, <1>6

\* A name that is taken away leaves no record, and cuts off who has it open.
LEMMA RemoveStore ==
  ASSUME Inv, Inv', NEW c \in Clients, Unlink(c)
  PROVE  Store!Remove(c)
  <1> DEFINE q == client[c]
             r == [q EXCEPT !.pc = "open", !.stale = FALSE, !.again = TRUE]
             us == [Users EXCEPT ![c] = [Seen(q, path) EXCEPT !.stale = FALSE, !.again = TRUE]]
  <1>1. /\ q \in ClientType /\ client \in [Clients -> ClientType] /\ path' = None
        /\ deletes' = deletes /\ q.pc = "unlink" /\ q.ino = None /\ q.stale
        /\ Seen(q, path) = Users[c]
    BY Caller, UsersAre DEF Unlink, ClientOK, Holding, Past, Inv
  <1>2. client' = [client EXCEPT ![c] = r]
    BY <1>1 DEF Unlink
  <1>3. /\ r.pc = "open" /\ r.ino = q.ino /\ r.uuid = q.uuid /\ r.stale = FALSE
        /\ r.again = TRUE /\ r.failed = q.failed
    BY <1>1 DEF ClientType
  <1> HIDE DEF r
  <1>4. Seen(r, path) = [Seen(q, path) EXCEPT !.stale = FALSE, !.again = TRUE]
    <2>1. Due(r) = Due(q) /\ Where(r, path) = Where(q, path)
      BY <1>1, <1>3 DEF Due, Where
    <2>3. r.uuid = q.uuid /\ r.failed = q.failed
      BY <1>3
    <2> DEFINE y == [Seen(q, path) EXCEPT !.stale = r.stale]
    <2>2. y = [uuid |-> q.uuid, at |-> Where(q, path), due |-> Due(q), stale |-> r.stale,
               again |-> q.again, failed |-> q.failed]
      BY DEF Seen
    <2>4. y = [Seen(q, path) EXCEPT !.stale = FALSE]
      BY <1>3 DEF Seen
    <2>5. Seen(r, path) = [uuid |-> q.uuid, at |-> Where(q, path), due |-> Due(q),
                           stale |-> r.stale, again |-> r.again, failed |-> q.failed]
      BY <2>1, <2>3, Zenon DEF Seen
    <2> HIDE DEF y
    <2>6. Seen(r, path) = [y EXCEPT !.again = r.again]
      BY <2>2, <2>5
    <2>7. Seen(r, path) = [y EXCEPT !.again = TRUE]
      BY <1>3, <2>2, <2>6
    <2> QED
      BY <2>4, <2>7, Zenon
  <1>5. us = [d \in Clients |-> Seen(client'[d], path)]
    <2>1. \A d \in Clients : client'[d] = IF d = c THEN r ELSE client[d]
      BY <1>1, <1>2
    <2> QED
      BY <1>4, <2>1, UsersAre
  <1> HIDE DEF us
  <1>6. Users' = Store!CutOff(us)
    BY <1>1, <1>5, UsersCutOff
  <1>7. Users[c].stale /\ Users[c].at = "out"
    BY <1>1 DEF Seen, Where
  <1>8. Record' = Store!EmptyDoc
    BY <1>1, RecordNext DEF EmptyDoc, Store!EmptyDoc
  <1> QED
    BY <1>1, <1>6, <1>7, <1>8 DEF Store!Remove, us

LEMMA DestroyStore ==
  ASSUME Inv, Inv', Delete
  PROVE  Store!Destroy
  <1>1. path' = None /\ client' = client /\ deletes' = deletes + 1
    BY DEF Delete
  <1>2. Users = [c \in Clients |-> Seen(client'[c], path)]
    BY <1>1, UsersAre
  <1>3. Users' = Store!CutOff(Users)
    BY <1>1, <1>2, UsersCutOff
  <1>4. Record' = Store!EmptyDoc
    BY <1>1, RecordNext DEF EmptyDoc, Store!EmptyDoc
  <1> QED
    BY <1>1, <1>3, <1>4 DEF Store!Destroy

\* A crash loses or damages the record only when it was being written.
LEMMA CrashStore ==
  ASSUME Inv, Inv', Die
  PROVE  Store!Crash
  <1>1. /\ path' = path /\ deletes' = deletes /\ \A d \in Clients : client'[d] = Idle
    BY DEF Die
  <1>2. \A d \in Clients : ~Writes(client'[d], path')
    BY <1>1, IdleOK DEF Writes
  <1>3. PICK cut \in BOOLEAN :
          file' = [i \in Inodes |-> IF i # path THEN Empty
                                    ELSE IF cut /\ Torn(i) THEN Damaged ELSE file[i]]
    BY DEF Die
  <1>4. Users' = [d \in Clients |-> Store!Out]
    BY <1>1, UsersAre, IdleSeen
  <1>5. CASE path = None
    <2>1. Record' = Record
      BY <1>1, <1>5, RecordIs, RecordNext
    <2> QED
      BY <1>1, <1>4, <2>1 DEF Store!Crash
  <1>6. CASE path # None
    <2>1. path \in Inodes
      BY <1>6 DEF Inv
    <2>2. Record' = Parsed(file'[path])
      BY <1>1, <1>2, <1>6, RecordNext
    <2>3. file'[path] = IF cut /\ Torn(path) THEN Damaged ELSE file[path]
      BY <1>3, <2>1
    <2>4. CASE Torn(path)
      <3>1. PICK c \in Clients : client[c].ino = path /\ client[c].pc = "write"
        BY <2>4 DEF Torn
      <3>2. file[path] = Empty
        BY <3>1 DEF Inv, FileOf
      <3>3. Record' \in {EmptyDoc, Damaged}
        BY <2>2, <2>3, <3>2, ContentAssumption DEF Parsed
      <3>4. Users[c].at = "in"
        BY <1>6, <3>1, UsersAre DEF Seen, Where
      <3>5. EmptyDoc = Store!EmptyDoc
        BY DEF EmptyDoc, Store!EmptyDoc
      <3> QED
        BY <1>1, <1>4, <3>3, <3>4, <3>5 DEF Store!Crash
    <2>5. CASE ~Torn(path)
      <3>1. Record = Parsed(file[path])
        BY <1>6, <2>5, RecordIs DEF Torn, Writes
      <3>2. Record' = Record
        BY <2>2, <2>3, <2>5, <3>1
      <3> QED
        BY <1>1, <1>4, <3>2 DEF Store!Crash
    <2> QED
      BY <2>4, <2>5
  <1> QED
    BY <1>5, <1>6

LEMMA StoreStep ==
  Inv /\ Inv' /\ [Next]_vars => [Store!Next]_(Store!vars)
  <1> SUFFICES ASSUME Inv, Inv', [Next]_vars PROVE [Store!Next]_(Store!vars)
    OBVIOUS
  <1>1. ASSUME NEW c \in Clients, Begin(c) \/ Step(c) PROVE [Store!Next]_(Store!vars)
    <2>1. CASE Begin(c) \/ Open(c) \/ LoadStale(c) \/ Use(c)
      BY <2>1, BeginStore, OpenStore, StaleStore, UseStore DEF Store!Next
    <2>2. CASE Flock(c) \/ Load(c) \/ Truncate(c)
      BY <2>2, SilentStore DEF Store!vars
    <2>3. CASE Write(c)
      BY <2>3, WriteStore
    <2>4. CASE WriteFails(c) \/ Unlink(c)
      BY <2>4, SpoilStore, RemoveStore DEF Store!Next
    <2>6. CASE Close(c)
      <3>1. Store!Leave(c)
        BY <2>6, LeaveStore
      <3> QED
        BY <3>1 DEF Store!Next
    <2>5. CASE OpenFails(c) \/ LoadFails(c)
      BY <2>5, LeaveStore, CrashStore DEF Store!Next
    <2> QED
      BY <1>1, <2>1, <2>2, <2>3, <2>4, <2>5, <2>6 DEF Step
  <1>2. CASE Delete
    BY <1>2, DestroyStore DEF Store!Next
  <1>3. CASE Crash
    BY <1>3, CrashStore DEF Crash, Store!Next
  <1>4. CASE UNCHANGED <<path, file, client, deletes>>
    <2>1. Record' = Record
      BY <1>4 DEF Record, Parsed
    <2>2. Users' = Users
      BY <1>4, UsersAre
    <2> QED
      BY <1>4, <2>1, <2>2 DEF Store!vars
  <1> QED
    BY <1>1, <1>2, <1>3, <1>4 DEF Next, vars, Redefine

\* To its users the file is one record that each changes as a whole, starting
\* from what it is, and that is lost only by a removal, a failing save or a
\* crash (infostore_open, save_xml, infostore_close, infostore_delete).
THEOREM StoreImplemented == Spec => ImplementsStore
  <1>1. Init => Store!Init
    <2> SUFFICES ASSUME Init PROVE Store!Init
      OBVIOUS
    <2>1. Record = Store!EmptyDoc
      BY DEF Init, Record, Store!EmptyDoc, EmptyDoc
    <2>2. Users = [c \in Clients |-> Store!Out]
      BY UsersAre, IdleSeen DEF Init
    <2> QED
      BY <2>1, <2>2 DEF Init, Store!Init
  <1>2. Inv /\ Inv' /\ [Next]_vars => [Store!Next]_(Store!vars)
    BY StoreStep
  <1> QED
    BY <1>1, <1>2, Invariant, PTL DEF Spec, ImplementsStore, Store!Spec

(***************************************************************************)
(* Inheritance.  While callers of two uuids have never been active at      *)
(* once, every record holds values of its own uuid only; a caller that has *)
(* deleted a stale record and opens again, when the uuid is not compared,  *)
(* can only meet files made since, by callers of its own uuid.             *)
(***************************************************************************)
Clean(doc) == \A k \in Keys : doc.val[k] \in {None, doc.uuid}

Ours(i, u, f, cl) ==
    /\ f[i] \in {Empty, Damaged} \/ f[i].uuid \in {None, u}
    /\ \A d \in Clients :
         cl[d].ino = i /\ cl[d].pc \in Saving => cl[d].doc.uuid \in {None, u}

CleanFiles == \A i \in Inodes : file[i] \in {Empty, Damaged} \/ Clean(file[i])
SameUuid == \A c, d \in Active : client[c].uuid = client[d].uuid
DocOK(r) ==
    /\ r.pc \in {"use"} \cup Saving => Clean(r.doc)
    /\ r.pc = "use" => r.doc.uuid = r.uuid
AgainOK(r, p, f, cl) ==
    r.again => /\ r.pc = "open" /\ p # None => Ours(p, r.uuid, f, cl)
               /\ r.pc \in {"flock", "load"} => Ours(r.ino, r.uuid, f, cl)

Kin ==
    /\ \A c \in Clients : client[c].named
    /\ ~mixed => /\ CleanFiles /\ SameUuid
                 /\ \A c \in Clients : DocOK(client[c]) /\ AgainOK(client[c], path, file, client)

\* While the uuids agree, nobody spoils a file that is fit for u.
LEMMA OursStep ==
  ASSUME Inv, Kin, ~mixed, NEW u, NEW i \in Inodes, Ours(i, u, file, client),
         NEW c \in Clients, NEW r, client' = [client EXCEPT ![c] = r],
         r.pc \in Saving => r.uuid = u,
         \/ file'[i] \in {file[i], Empty, Damaged}
         \/ client[c].pc = "write" /\ i = client[c].ino /\ file'[i] = client[c].doc,
         r.pc \in Saving =>
           /\ r.ino = client[c].ino
           /\ \/ r.doc.uuid = r.uuid
              \/ client[c].pc \in Saving /\ r.doc = client[c].doc
              \/ file[r.ino] # Damaged /\ r.doc = Parsed(file[r.ino])
  PROVE  Ours(i, u, file', client')
  <1>1. file'[i] \in {Empty, Damaged} \/ file'[i].uuid \in {None, u}
    BY DEF Ours, Saving
  <1>2. ASSUME NEW d \in Clients, client'[d].ino = i, client'[d].pc \in Saving
        PROVE  client'[d].doc.uuid \in {None, u}
    <2>1. client'[d] = IF d = c THEN r ELSE client[d]
      BY DEF Inv
    <2>2. CASE d # c
      BY <1>2, <2>1, <2>2 DEF Ours
    <2>3. CASE d = c
      <3>1. EmptyDoc.uuid = None
        BY DEF EmptyDoc
      <3> QED
        BY <1>2, <2>1, <2>3, <3>1 DEF Ours, Parsed
    <2> QED
      BY <2>2, <2>3
  <1> QED
    BY <1>1, <1>2 DEF Ours

\* A step of one caller on behalf of its uuid, or with which it finishes.
LEMMA KinStep ==
  ASSUME Inv, Inv', Kin, NEW c \in Clients, NEW r, client' = [client EXCEPT ![c] = r],
         mixed' = mixed, r.named, client[c].pc # "idle",
         r.pc = "idle" \/ r.uuid = client[c].uuid, r.pc = "idle" => r.again = FALSE,
         \A i \in Inodes :
           \/ file'[i] \in {file[i], Empty, Damaged}
           \/ client[c].pc = "write" /\ i = client[c].ino /\ file'[i] = client[c].doc,
         ~mixed => DocOK(r),
         r.pc \in Saving =>
           /\ r.ino = client[c].ino
           /\ \/ r.doc.uuid = r.uuid
              \/ client[c].pc \in Saving /\ r.doc = client[c].doc
              \/ file[r.ino] # Damaged /\ r.doc = Parsed(file[r.ino]),
         \/ path' \in {path, None}
         \/ /\ path' \in Inodes /\ file[path'] = Empty
            /\ \A d \in Clients : client[d].ino # path',
         r.again => /\ r.pc = "open" => path' = None
                    /\ r.pc = "flock" => client[c].again /\ client[c].pc = "open" /\ r.ino = path'
                                         /\ r.ino # None
                    /\ r.pc = "load" => client[c].again /\ client[c].pc = "flock"
                                        /\ r.ino = client[c].ino
  PROVE  Kin'
  <1>1. \A d \in Clients : client'[d] = IF d = c THEN r ELSE client[d]
    BY DEF Inv
  <1>2. \A d \in Clients : client'[d].named
    BY <1>1 DEF Kin
  <1>3. ASSUME ~mixed
        PROVE  /\ CleanFiles' /\ SameUuid'
               /\ \A d \in Clients : DocOK(client'[d]) /\ AgainOK(client'[d], path', file', client')
    <2>1. CleanFiles'
      BY <1>3 DEF Kin, CleanFiles, DocOK, Saving, Clean
    <2>2. SameUuid'
      <3>1. \A d \in Clients : client'[d].pc # "idle" =>
                client[d].pc # "idle" /\ client'[d].uuid = client[d].uuid
        BY <1>1
      <3> QED
        BY <1>3, <3>1 DEF Kin, SameUuid, Active
    <2>3. ASSUME NEW d \in Clients PROVE DocOK(client'[d])
      BY <1>1, <1>3 DEF Kin
    <2> DEFINE u == client[c].uuid
    <2>4. ASSUME NEW i \in Inodes, Ours(i, u, file, client) PROVE Ours(i, u, file', client')
      BY <1>3, <2>4, OursStep DEF Saving
    <2>5. path' # None => path' \in Inodes /\ (path' = path \/ Ours(path', u, file, client))
      BY DEF Inv, Ours
    <2>6. ASSUME NEW d \in Clients PROVE AgainOK(client'[d], path', file', client')
      <3> SUFFICES ASSUME client'[d].again, client'[d].pc \in {"open", "flock", "load"}
                   PROVE  /\ client'[d].pc = "open" /\ path' # None =>
                               Ours(path', client'[d].uuid, file', client')
                          /\ client'[d].pc \in {"flock", "load"} =>
                               Ours(client'[d].ino, client'[d].uuid, file', client')
        BY DEF AgainOK
      <3>1. CASE d = c
        <4>1. client'[d] = r /\ r.uuid = u
          BY <1>1, <3>1
        <4>2. AgainOK(client[c], path, file, client)
          BY <1>3 DEF Kin
        <4>3. CASE r.pc = "flock"
          BY <2>4, <2>5, <4>1, <4>2, <4>3 DEF AgainOK
        <4>4. CASE r.pc = "load"
          <5>1. r.ino \in Inodes /\ Ours(r.ino, u, file, client)
            BY <3>1, <4>1, <4>2, <4>4, Caller DEF AgainOK
          <5> QED
            BY <2>4, <4>1, <4>4, <5>1
        <4> QED
          BY <4>1, <4>3, <4>4
      <3>2. CASE d # c
        <4>1. client'[d] = client[d]
          BY <1>1, <3>2
        <4>2. client[d].uuid = u
          BY <1>3, <4>1 DEF Kin, SameUuid, Active
        <4>3. AgainOK(client[d], path, file, client)
          BY <1>3 DEF Kin
        <4>4. CASE client[d].pc = "open" /\ path' # None
          BY <2>4, <2>5, <4>1, <4>2, <4>3, <4>4 DEF AgainOK
        <4>5. CASE client[d].pc \in {"flock", "load"}
          <5>1. client[d].ino \in Inodes /\ Ours(client[d].ino, u, file, client)
            BY <4>1, <4>2, <4>3, <4>5, Caller DEF AgainOK, Holding
          <5> QED
            BY <2>4, <4>1, <4>2, <4>5, <5>1
        <4> QED
          BY <4>1, <4>4, <4>5
      <3> QED
        BY <3>1, <3>2
    <2> QED
      BY <2>1, <2>2, <2>3, <2>6
  <1> QED
    BY <1>2, <1>3 DEF Kin

LEMMA KinOpen ==
  ASSUME Inv, Inv', Kin, NEW c \in Clients, Open(c) \/ Flock(c)
  PROVE  Kin'
  <1> DEFINE q == client[c]
  <1>1. client \in [Clients -> ClientType] /\ q \in ClientType /\ q.named /\ q.pc # "idle"
    BY DEF Inv, Kin, Open, Flock
  <1>2. PICK i \in Inodes, pc \in {"flock", "load"} :
              /\ client' = [client EXCEPT ![c] = [q EXCEPT !.pc = pc, !.ino = i]]
              /\ \/ pc = "flock" /\ Open(c) /\ i = path'
                 \/ pc = "load" /\ Flock(c) /\ i = q.ino
    <2>1. CASE Open(c)
      <3>1. path' \in Inodes /\ client' = [client EXCEPT ![c].pc = "flock", ![c].ino = path']
        <4>1. CASE path # None
          BY <2>1, <4>1 DEF Open, Inv
        <4>2. CASE path = None
          <5> DEFINE i == CHOOSE i \in Inodes : i \notin InUse
          <5>1. i \in Inodes
            BY <4>2, FreeInode DEF Inv
          <5> QED
            BY <2>1, <4>2, <5>1 DEF Open
        <4> QED
          BY <4>1, <4>2
      <3> QED
        BY <1>1, <2>1, <3>1
    <2>2. CASE Flock(c)
      <3>1. q.ino \in Inodes
        BY <2>2, Caller DEF Flock
      <3>2. [q EXCEPT !.pc = "load"] = [q EXCEPT !.pc = "load", !.ino = q.ino]
        BY <1>1 DEF ClientType
      <3> QED
        BY <1>1, <2>2, <3>1, <3>2 DEF Flock
    <2> QED
      BY <2>1, <2>2
  <1> DEFINE r == [q EXCEPT !.pc = pc, !.ino = i]
  <1>3. /\ r \in ClientType /\ r.pc = pc /\ r.ino = i /\ r.uuid = q.uuid
        /\ r.again = q.again /\ r.named = q.named
    BY <1>1, <1>2 DEF ClientType, PCs
  <1>4. client' = [client EXCEPT ![c] = r]
    BY <1>2
  <1> HIDE DEF r
  <1>5. file' = file /\ mixed' = mixed
    BY DEF Open, Flock
  <1>6. \/ path' \in {path, None}
        \/ /\ path' \in Inodes /\ file[path'] = Empty
           /\ \A d \in Clients : client[d].ino # path'
    <2>1. CASE Flock(c) \/ path # None
      BY <2>1 DEF Open, Flock
    <2>2. CASE Open(c) /\ path = None
      <3> DEFINE j == CHOOSE j \in Inodes : j \notin InUse
      <3>1. j \in Inodes /\ j \notin InUse
        BY <2>2, FreeInode DEF Inv
      <3>2. path' = j
        BY <2>2 DEF Open
      <3> HIDE DEF j
      <3> QED
        BY <3>1, <3>2 DEF Inv, InUse
    <2> QED
      BY <2>1, <2>2
  <1>7. DocOK(r) /\ r.pc \notin Saving /\ r.pc # "idle"
    BY <1>2, <1>3 DEF DocOK, Saving
  <1>8. r.again => /\ r.pc = "open" => path' = None
                   /\ r.pc = "flock" => client[c].again /\ client[c].pc = "open"
                                        /\ r.ino = path' /\ r.ino # None
                   /\ r.pc = "load" => client[c].again /\ client[c].pc = "flock"
                                       /\ r.ino = client[c].ino
    BY <1>2, <1>3, NoneAssumption DEF Open, Flock
  <1> QED
    BY <1>1, <1>3, <1>4, <1>5, <1>6, <1>7, <1>8, KinStep

LEMMA KinLoad ==
  ASSUME Inv, Inv', Kin, "uuid" \notin Faults, NEW c \in Clients, Load(c) \/ LoadStale(c)
  PROVE  Kin'
  <1> DEFINE q == client[c]
             doc == Parsed(file[q.ino])
  <1>1. /\ q \in ClientType /\ q.named /\ q.pc = "load" /\ q.ino \in Inodes
        /\ file[q.ino] \in Content /\ file[q.ino] # Damaged /\ q.uuid \in Uuids
    BY Caller DEF Kin, Load, LoadStale, Holding, ClientOK
  <1>2. client \in [Clients -> ClientType] /\ doc \in Doc
    BY <1>1, EmptyTyped DEF Inv
  <1>3. ~mixed => Clean(doc)
    <2>1. Clean(EmptyDoc)
      BY DEF Clean, EmptyDoc
    <2> QED
      BY <1>1, <2>1 DEF Kin, CleanFiles, Parsed
  <1>4. path' = path /\ file' = file /\ mixed' = mixed
    BY DEF Load, LoadStale
  <1>5. CASE Load(c)
    <2> DEFINE new == [doc EXCEPT !.uuid = q.uuid]
               r == [q EXCEPT !.pc = "use", !.loaded = doc, !.doc = new]
    <2>1. client' = [client EXCEPT ![c] = r]
      BY <1>1, <1>2, <1>5 DEF Load
    <2>2. new \in Doc /\ new.uuid = q.uuid /\ new.val = doc.val
      BY <1>1, <1>2, SetTyped DEF Doc
    <2>3. ~mixed => doc.uuid \in {None, q.uuid}
      <3>1. CASE ~q.again
        BY <1>5, <3>1 DEF Load
      <3>2. CASE q.again /\ ~mixed
        <4>1. Ours(q.ino, q.uuid, file, client)
          BY <1>1, <3>2 DEF Kin, AgainOK
        <4> QED
          BY <1>1, <4>1 DEF Ours, Parsed, EmptyDoc
      <3> QED
        BY <3>1, <3>2
    <2>4. ~mixed => Clean(new)
      BY <1>3, <2>2, <2>3 DEF Clean
    <2> HIDE DEF new, doc
    <2>5. /\ r \in ClientType /\ r.pc = "use" /\ r.uuid = q.uuid /\ r.doc = new
          /\ r.named = q.named
      BY <1>1, <1>2, <2>2 DEF ClientType, PCs
    <2> HIDE DEF r
    <2>6. ~mixed => DocOK(r)
      BY <2>2, <2>4, <2>5 DEF DocOK
    <2> QED
      BY <1>1, <1>4, <2>1, <2>5, <2>6, KinStep DEF Saving
  <1>6. CASE LoadStale(c)
    <2>1. PICK named \in BOOLEAN :
            /\ IF named THEN doc.uuid \notin {None, q.uuid} ELSE "uuid" \in Faults
            /\ client' = [client EXCEPT ![c].pc = "truncate", ![c].loaded = doc, ![c].doc = doc,
                                        ![c].stale = TRUE, ![c].named = named]
      BY <1>6 DEF LoadStale
    <2>2. named = TRUE
      BY <2>1
    <2> DEFINE r == [q EXCEPT !.pc = "truncate", !.loaded = doc, !.doc = doc,
                              !.stale = TRUE, !.named = named]
    <2>3. client' = [client EXCEPT ![c] = r]
      BY <1>2, <2>1
    <2> HIDE DEF doc
    <2>4. /\ r \in ClientType /\ r.pc = "truncate" /\ r.uuid = q.uuid /\ r.doc = doc
          /\ r.ino = q.ino /\ r.named = named
      BY <1>1, <1>2 DEF ClientType, PCs
    <2> HIDE DEF r
    <2>5. ~mixed => DocOK(r)
      BY <1>3, <2>4 DEF DocOK
    <2>6. file[r.ino] # Damaged /\ r.doc = Parsed(file[r.ino])
      BY <1>1, <2>4 DEF doc
    <2> QED
      BY <1>1, <1>4, <2>2, <2>3, <2>4, <2>5, <2>6, KinStep
  <1> QED
    BY <1>5, <1>6

LEMMA KinUse ==
  ASSUME Inv, Inv', Kin, NEW c \in Clients, Use(c)
  PROVE  Kin'
  <1> DEFINE q == client[c]
  <1>1. /\ q \in ClientType /\ q.named /\ q.pc = "use" /\ q.uuid \in Uuids
    BY Caller DEF Kin, Use, ClientOK
  <1>2. PICK doc \in {q.doc} \cup {SetKey(q.doc, k, q.uuid) : k \in Keys} :
           client' = [client EXCEPT ![c].pc = "truncate", ![c].doc = doc]
    BY DEF Use
  <1> DEFINE r == [q EXCEPT !.pc = "truncate", !.doc = doc]
  <1>3. client' = [client EXCEPT ![c] = r]
    BY <1>2 DEF Inv
  <1>4. q.doc \in Doc /\ doc \in Doc
    <2>1. q.doc \in Doc
      BY <1>1 DEF ClientType
    <2> QED
      BY <1>1, <1>2, <2>1, SetTyped
  <1>5. /\ r \in ClientType /\ r.pc = "truncate" /\ r.ino = q.ino /\ r.uuid = q.uuid
        /\ r.doc = doc /\ r.named = q.named
    BY <1>1, <1>4 DEF ClientType, PCs
  <1> HIDE DEF r
  <1>6. ~mixed => Clean(doc) /\ doc.uuid = q.uuid
    <2>1. ~mixed => Clean(q.doc) /\ q.doc.uuid = q.uuid
      BY <1>1 DEF Kin, DocOK
    <2> QED
      BY <1>2, <1>4, <2>1 DEF SetKey, Doc, Clean
  <1>7. ~mixed => DocOK(r)
    BY <1>5, <1>6 DEF DocOK
  <1>8. path' = path /\ file' = file /\ mixed' = mixed
    BY DEF Use
  <1>9. CASE ~mixed
    BY <1>1, <1>3, <1>5, <1>6, <1>7, <1>8, <1>9, KinStep
  <1>10. CASE mixed
    BY <1>1, <1>3, <1>5, <1>8, <1>10 DEF Kin, Inv
  <1> QED
    BY <1>9, <1>10

LEMMA KinSave ==
  ASSUME Inv, Inv', Kin, NEW c \in Clients, Truncate(c) \/ Write(c) \/ WriteFails(c)
  PROVE  Kin'
  <1> DEFINE q == client[c]
  <1>1. /\ q \in ClientType /\ q.named /\ q.ino \in Inodes
        /\ client \in [Clients -> ClientType] /\ file \in [Inodes -> Content]
    BY Caller DEF Kin, Truncate, Write, WriteFails, Holding, Inv
  <1>2. path' = path /\ mixed' = mixed
    BY DEF Truncate, Write, WriteFails
  <1>3. CASE Truncate(c)
    <2> DEFINE r == [q EXCEPT !.pc = "write"]
    <2>1. client' = [client EXCEPT ![c] = r]
      BY <1>1, <1>3 DEF Truncate
    <2>2. /\ r \in ClientType /\ r.pc = "write" /\ r.ino = q.ino /\ r.uuid = q.uuid
          /\ r.doc = q.doc /\ r.named = q.named
      BY <1>1 DEF ClientType, PCs
    <2> HIDE DEF r
    <2>3. q.pc = "truncate" /\ file' = [file EXCEPT ![q.ino] = Empty]
      BY <1>3 DEF Truncate
    <2>4. ~mixed => DocOK(r)
      BY <2>2, <2>3 DEF Kin, DocOK, Saving
    <2>5. \A i \in Inodes : file'[i] \in {file[i], Empty, Damaged}
      BY <1>1, <2>3
    <2> QED
      BY <1>1, <1>2, <2>1, <2>2, <2>3, <2>4, <2>5, KinStep DEF Saving
  <1>4. CASE Write(c)
    <2> DEFINE r == [q EXCEPT !.pc = "close", !.doc = EmptyDoc, !.loaded = EmptyDoc]
    <2>1. client' = [client EXCEPT ![c] = r]
      BY <1>1, <1>4 DEF Write
    <2>2. /\ r \in ClientType /\ r.pc = "close" /\ r.uuid = q.uuid /\ r.named = q.named
      BY <1>1, EmptyTyped DEF ClientType, PCs
    <2> HIDE DEF r
    <2>3. q.pc = "write" /\ file' = [file EXCEPT ![q.ino] = q.doc]
      BY <1>4 DEF Write
    <2>4. DocOK(r)
      BY <2>2 DEF DocOK, Saving
    <2>5. \A i \in Inodes : \/ file'[i] \in {file[i], Empty, Damaged}
                            \/ i = q.ino /\ file'[i] = q.doc
      BY <1>1, <2>3
    <2> QED
      BY <1>1, <1>2, <2>1, <2>2, <2>3, <2>4, <2>5, KinStep DEF Saving
  <1>5. CASE WriteFails(c)
    <2> DEFINE r == [q EXCEPT !.pc = "close", !.doc = EmptyDoc, !.loaded = EmptyDoc,
                              !.failed = TRUE]
    <2>1. client' = [client EXCEPT ![c] = r]
      BY <1>1, <1>5 DEF WriteFails
    <2>2. /\ r \in ClientType /\ r.pc = "close" /\ r.uuid = q.uuid /\ r.named = q.named
      BY <1>1, EmptyTyped DEF ClientType, PCs
    <2> HIDE DEF r
    <2>3. q.pc = "write" /\ \E left \in {Empty, Damaged} : file' = [file EXCEPT ![q.ino] = left]
      BY <1>5 DEF WriteFails
    <2>4. DocOK(r)
      BY <2>2 DEF DocOK, Saving
    <2>5. \A i \in Inodes : file'[i] \in {file[i], Empty, Damaged}
      BY <1>1, <2>3
    <2> QED
      BY <1>1, <1>2, <2>1, <2>2, <2>3, <2>4, <2>5, KinStep DEF Saving
  <1> QED
    BY <1>3, <1>4, <1>5

LEMMA KinLeave ==
  ASSUME Inv, Inv', Kin, NEW c \in Clients,
         Close(c) \/ Unlink(c) \/ ((OpenFails(c) \/ LoadFails(c)) /\ ~Die)
  PROVE  Kin'
  <1> DEFINE q == client[c]
  <1>1. /\ q \in ClientType /\ q.named /\ q.pc # "idle" /\ q.pc \notin Saving
        /\ client \in [Clients -> ClientType] /\ file \in [Inodes -> Content]
    BY DEF Kin, Close, Unlink, OpenFails, LoadFails, Saving, Inv
  <1>2. mixed' = mixed /\ path' \in {path, None} /\ file' = Reclaim
    BY DEF Close, Unlink, OpenFails, LoadFails, Refused
  <1>3. \A i \in Inodes : file'[i] \in {file[i], Empty, Damaged}
    BY <1>2 DEF Reclaim
  <1>4. PICK r : /\ client' = [client EXCEPT ![c] = r] /\ r.named
                 /\ r.pc \in {"idle", "open", "unlink"}
                 /\ r.pc = "idle" \/ r.uuid = q.uuid
                 /\ r.pc = "idle" => r.again = FALSE
                 /\ r.pc = "open" => path' = None
    <2>1. CASE client' = [client EXCEPT ![c] = Idle]
      <3>1. Idle.named /\ Idle.pc = "idle" /\ Idle.again = FALSE
        BY DEF Idle
      <3> QED
        BY <2>1, <3>1
    <2>2. CASE Close(c) /\ q.stale
      <3> DEFINE r == [q EXCEPT !.pc = "unlink", !.ino = None, !.failed = FALSE]
      <3>1. client' = [client EXCEPT ![c] = r]
        BY <2>2 DEF Close
      <3>2. r \in ClientType /\ r.named = q.named /\ r.pc = "unlink" /\ r.uuid = q.uuid
        BY <1>1 DEF ClientType, PCs
      <3> HIDE DEF r
      <3> QED
        BY <1>1, <3>1, <3>2
    <2>3. CASE Unlink(c)
      <3> DEFINE r == [q EXCEPT !.pc = "open", !.stale = FALSE, !.again = TRUE]
      <3>1. client' = [client EXCEPT ![c] = r] /\ path' = None
        BY <1>1, <2>3 DEF Unlink
      <3>2. r \in ClientType /\ r.named = q.named /\ r.pc = "open" /\ r.uuid = q.uuid
        BY <1>1 DEF ClientType, PCs
      <3> HIDE DEF r
      <3> QED
        BY <1>1, <3>1, <3>2
    <2> QED
      BY <2>1, <2>2, <2>3 DEF Close, OpenFails, LoadFails, Refused
  <1>5. DocOK(r) /\ r.pc \notin Saving
    BY <1>4 DEF DocOK, Saving
  <1> QED
    BY <1>1, <1>2, <1>3, <1>4, <1>5, KinStep

\* A caller of another uuid is noticed when it begins.
LEMMA KinBegin ==
  ASSUME Inv, Kin, NEW c \in Clients, Begin(c)
  PROVE  Kin'
  <1> DEFINE r == [Idle EXCEPT !.pc = "open", !.uuid = guest]
  <1>1. client' = [client EXCEPT ![c] = r] /\ client \in [Clients -> ClientType]
        /\ path' = path /\ file' = file
    BY DEF Begin, Inv
  <1>2. Idle \in ClientType /\ Idle.named = TRUE /\ Idle.again = FALSE
    BY IdleOK DEF ClientOK, Idle
  <1>3. r.pc = "open" /\ r.uuid = guest
    BY <1>2 DEF ClientType
  <1>4. r.named = TRUE
    BY <1>2 DEF ClientType
  <1>5. r.again = FALSE
    BY <1>2 DEF ClientType
  <1> HIDE DEF r
  <1>6. \A d \in Clients : client'[d] = IF d = c THEN r ELSE client[d]
    BY <1>1
  <1>7. \A d \in Clients : client'[d].named
    BY <1>4, <1>6 DEF Kin
  <1>8. ASSUME ~mixed'
        PROVE  /\ CleanFiles' /\ SameUuid'
               /\ \A d \in Clients :
                     DocOK(client'[d]) /\ AgainOK(client'[d], path', file', client')
    <2>1. ~mixed /\ \A d \in Clients : client[d].pc # "idle" => client[d].uuid = guest
      BY <1>8 DEF Begin, Active
    <2>2. CleanFiles'
      BY <1>1, <2>1 DEF Kin, CleanFiles
    <2>3. SameUuid'
      BY <1>3, <1>6, <2>1 DEF SameUuid, Active
    <2>4. \A d \in Clients : DocOK(client'[d])
      BY <1>3, <1>6, <2>1 DEF Kin, DocOK, Saving
    <2>5. ASSUME NEW i, NEW u, Ours(i, u, file, client) PROVE Ours(i, u, file', client')
      BY <1>1, <1>3, <1>6, <2>5 DEF Ours, Saving
    <2>6. ASSUME NEW d \in Clients PROVE AgainOK(client'[d], path', file', client')
      <3>1. CASE d = c
        BY <1>5, <1>6, <3>1 DEF AgainOK
      <3>2. CASE d # c
        BY <1>1, <1>6, <2>1, <2>5, <3>2 DEF AgainOK, Kin
      <3> QED
        BY <3>1, <3>2
    <2> QED
      BY <2>2, <2>3, <2>4, <2>6
  <1> QED
    BY <1>7, <1>8 DEF Kin

LEMMA KinDie ==
  ASSUME Inv, Kin, Die
  PROVE  Kin'
  <1>1. \A c \in Clients : client'[c] = Idle
    BY DEF Die
  <1>2. Idle.named = TRUE /\ Idle.again = FALSE /\ Idle.pc = "idle"
    BY DEF Idle
  <1>3. \A i \in Inodes : file'[i] \in {file[i], Empty, Damaged}
    BY DEF Die
  <1>4. ~mixed' => CleanFiles'
    BY <1>3 DEF Kin, CleanFiles, Die
  <1>5. SameUuid'
    BY <1>1, <1>2 DEF SameUuid, Active
  <1>6. \A c \in Clients : DocOK(client'[c]) /\ AgainOK(client'[c], path', file', client')
    BY <1>1, <1>2 DEF DocOK, AgainOK, Saving
  <1>7. \A c \in Clients : client'[c].named
    BY <1>1, <1>2
  <1> QED
    BY <1>4, <1>5, <1>6, <1>7 DEF Kin

LEMMA KinOutside ==
  ASSUME Inv, Kin, Delete \/ Redefine \/ UNCHANGED vars
  PROVE  Kin'
  <1>1. client' = client /\ mixed' = mixed /\ path' \in {path, None}
    BY DEF Delete, Redefine, vars
  <1>2. \A i \in Inodes : file'[i] \in {file[i], Empty}
    BY DEF Delete, Redefine, vars, Reclaim
  <1>3. ASSUME NEW i \in Inodes, NEW u, Ours(i, u, file, client)
        PROVE  Ours(i, u, file', client')
    BY <1>1, <1>2, <1>3 DEF Ours
  <1>4. ASSUME NEW c \in Clients, ~mixed PROVE AgainOK(client'[c], path', file', client')
    <2>1. AgainOK(client[c], path, file, client)
      BY <1>4 DEF Kin
    <2>2. /\ client[c].pc \in {"flock", "load"} => client[c].ino \in Inodes
          /\ path # None => path \in Inodes
      BY Caller DEF Holding, Inv
    <2> QED
      BY <1>1, <1>3, <2>1, <2>2 DEF AgainOK
  <1>5. ~mixed => CleanFiles'
    BY <1>2 DEF Kin, CleanFiles
  <1>6. ~mixed => SameUuid'
    BY <1>1 DEF Kin, SameUuid, Active
  <1>7. ~mixed => \A c \in Clients : DocOK(client'[c])
    BY <1>1 DEF Kin
  <1>8. \A c \in Clients : client'[c].named
    BY <1>1 DEF Kin
  <1> QED
    BY <1>1, <1>4, <1>5, <1>6, <1>7, <1>8 DEF Kin

LEMMA KinNext ==
  ASSUME "uuid" \notin Faults
  PROVE  Inv /\ Inv' /\ Kin /\ [Next]_vars => Kin'
  <1> SUFFICES ASSUME Inv, Inv', Kin, [Next]_vars PROVE Kin'
    OBVIOUS
  <1>1. ASSUME NEW c \in Clients, Begin(c) \/ Step(c) PROVE Kin'
    BY <1>1, KinBegin, KinOpen, KinLoad, KinUse, KinSave, KinLeave, KinDie DEF Step
  <1>2. CASE Delete \/ Redefine \/ UNCHANGED vars
    BY <1>2, KinOutside
  <1>3. CASE Crash
    BY <1>3, KinDie DEF Crash
  <1> QED
    BY <1>1, <1>2, <1>3 DEF Next

\* Unless callers of two guests of the same name overlap, nobody is given a
\* value that was stored for the other guest (infostore_open compares the
\* uuids).  The uuid of a domain can always be had.
THEOREM NothingInherited ==
  ASSUME "uuid" \notin Faults
  PROVE  Spec => []NoInheritance
  <1>1. Init => Kin
    <2> SUFFICES ASSUME Init PROVE Kin
      OBVIOUS
    <2>1. \A c \in Clients : client[c] = Idle
      BY DEF Init
    <2>2. Idle.named = TRUE /\ Idle.again = FALSE /\ Idle.pc = "idle"
      BY DEF Idle
    <2>3. CleanFiles /\ SameUuid
      BY <2>1, <2>2 DEF Init, CleanFiles, SameUuid, Active
    <2>4. \A c \in Clients : DocOK(client[c]) /\ AgainOK(client[c], path, file, client)
      BY <2>1, <2>2 DEF DocOK, AgainOK, Saving
    <2> QED
      BY <2>1, <2>2, <2>3, <2>4 DEF Kin
  <1>2. Inv /\ Inv' /\ Kin /\ [Next]_vars => Kin'
    BY KinNext
  <1>3. Kin => NoInheritance
    BY DEF Kin, DocOK, Clean, NoInheritance
  <1> QED
    BY <1>1, <1>2, <1>3, Invariant, PTL DEF Spec


-----------------------------------------------------------------------------
(***************************************************************************)
(* What OpsFinish needs of the code, for every number of callers: a caller *)
(* goes back to its open once at most, after delete_and_open, and who      *)
(* waits for a lock holds none.                                            *)
(***************************************************************************)
Ahead == [open |-> 8, flock |-> 7, load |-> 6, use |-> 5, truncate |-> 4,
          write |-> 3, close |-> 2, unlink |-> 1]
Left(r) == IF r.pc = "idle" THEN 0 ELSE Ahead[r.pc] + (IF r.again THEN 0 ELSE 8)

\* A store is stale before it is opened again, never after.
Once(r) == (r.stale => ~r.again) /\ (r.pc = "unlink" => r.stale)
OpenedOnce == \A c \in Clients : Once(client[c])

LEMMA IdleLeft == Once(Idle) /\ Left(Idle) = 0
  BY DEF Once, Left, Idle

LEMMA LeftIs ==
  ASSUME NEW r \in ClientType
  PROVE  /\ Left(r) \in Nat
         /\ r.pc # "idle" => Left(r) > 0
  BY DEF Left, Ahead, ClientType, PCs

\* The caller goes on to a later position of the same pass.
LEMMA OnwardOnce ==
  ASSUME NEW r \in ClientType, Once(r), NEW s,
         r.pc \in DOMAIN Ahead, s.pc \in DOMAIN Ahead \ {"unlink"},
         Ahead[s.pc] < Ahead[r.pc],
         s.again = r.again, s.stale = r.stale \/ s.stale = FALSE
  PROVE  Once(s) /\ Left(s) < Left(r)
  <1>1. r.again \in BOOLEAN
    BY DEF ClientType
  <1>2. Once(s)
    BY DEF Once
  <1>3. r.pc # "idle" /\ s.pc # "idle" /\ Ahead[s.pc] \in Int /\ Ahead[r.pc] \in Int
    BY DEF Ahead
  <1> QED
    BY <1>1, <1>2, <1>3 DEF Left

LEMMA StepIs ==
  ASSUME Inv, NEW c \in Clients, Step(c), Once(client[c])
  PROVE  /\ Once(client'[c]) /\ Left(client'[c]) < Left(client[c])
         /\ \A d \in Clients \ {c} : client'[d] \in {client[d], Idle}
  <1>1. client \in [Clients -> ClientType] /\ client[c] \in ClientType
    BY DEF Inv
  <1>2. ASSUME NEW r, client' = [client EXCEPT ![c] = r],
               Once(r), Left(r) < Left(client[c])
        PROVE  /\ Once(client'[c]) /\ Left(client'[c]) < Left(client[c])
               /\ \A d \in Clients \ {c} : client'[d] \in {client[d], Idle}
    BY <1>1, <1>2
  <1>3. ASSUME Refused(c), client[c].pc # "idle"
        PROVE  /\ Once(client'[c]) /\ Left(client'[c]) < Left(client[c])
               /\ \A d \in Clients \ {c} : client'[d] \in {client[d], Idle}
    <2>1. \A d \in Clients : client'[d] = Idle \/ (d # c /\ client'[d] = client[d])
      BY <1>1, <1>3 DEF Refused, Die
    <2>2. client'[c] = Idle
      BY <2>1
    <2>3. Left(client[c]) > 0
      BY <1>1, <1>3, LeftIs
    <2> QED
      BY <2>1, <2>2, <2>3, IdleLeft
  <1>4. ASSUME NEW r, client' = [client EXCEPT ![c] = r],
               client[c].pc \in DOMAIN Ahead, r.pc \in DOMAIN Ahead \ {"unlink"},
               Ahead[r.pc] < Ahead[client[c].pc],
               r.again = client[c].again, r.stale = client[c].stale
        PROVE  /\ Once(client'[c]) /\ Left(client'[c]) < Left(client[c])
               /\ \A d \in Clients \ {c} : client'[d] \in {client[d], Idle}
    <2>1. Once(r) /\ Left(r) < Left(client[c])
      BY <1>1, <1>4, OnwardOnce
    <2> QED
      BY <1>2, <1>4, <2>1
  <1>5. CASE Open(c)
    <2>1. PICK i : client' = [client EXCEPT ![c].pc = "flock", ![c].ino = i]
      BY <1>5 DEF Open
    <2> DEFINE r == [client[c] EXCEPT !.pc = "flock", !.ino = i]
    <2>2. r.pc = "flock" /\ r.again = client[c].again /\ r.stale = client[c].stale
      BY <1>1 DEF ClientType
    <2>3. client' = [client EXCEPT ![c] = r] /\ client[c].pc = "open"
      BY <1>5, <2>1 DEF Open
    <2>4. {"open", "flock"} \subseteq DOMAIN Ahead /\ Ahead["flock"] < Ahead["open"]
      BY DEF Ahead
    <2> HIDE DEF r
    <2> QED
      BY <1>4, <2>2, <2>3, <2>4
  <1>6. CASE Flock(c)
    <2> DEFINE r == [client[c] EXCEPT !.pc = "load"]
    <2>1. r.pc = "load" /\ r.again = client[c].again /\ r.stale = client[c].stale
      BY <1>1 DEF ClientType
    <2>2. client' = [client EXCEPT ![c] = r] /\ client[c].pc = "flock"
      BY <1>6 DEF Flock
    <2>3. {"flock", "load"} \subseteq DOMAIN Ahead /\ Ahead["load"] < Ahead["flock"]
      BY DEF Ahead
    <2> HIDE DEF r
    <2> QED
      BY <1>4, <2>1, <2>2, <2>3
  <1>7. CASE Load(c)
    <2>1. PICK doc, d : client' = [client EXCEPT ![c].pc = "use", ![c].loaded = doc, ![c].doc = d]
      BY <1>7 DEF Load
    <2> DEFINE r == [client[c] EXCEPT !.pc = "use", !.loaded = doc, !.doc = d]
    <2>2. r.pc = "use" /\ r.again = client[c].again /\ r.stale = client[c].stale
      BY <1>1 DEF ClientType
    <2>3. client' = [client EXCEPT ![c] = r] /\ client[c].pc = "load"
      BY <1>7, <2>1 DEF Load
    <2>4. {"load", "use"} \subseteq DOMAIN Ahead /\ Ahead["use"] < Ahead["load"]
      BY DEF Ahead
    <2> HIDE DEF r
    <2> QED
      BY <1>4, <2>2, <2>3, <2>4
  <1>8. CASE LoadStale(c)
    <2>1. PICK doc, named : client' = [client EXCEPT
                  ![c].pc = "truncate", ![c].loaded = doc, ![c].doc = doc,
                  ![c].stale = TRUE, ![c].named = named]
      BY <1>8 DEF LoadStale
    <2> DEFINE r == [client[c] EXCEPT !.pc = "truncate", !.loaded = doc, !.doc = doc,
                                      !.stale = TRUE, !.named = named]
    <2>2. r.pc = "truncate" /\ r.again = client[c].again
      BY <1>1 DEF ClientType
    <2>3. client' = [client EXCEPT ![c] = r] /\ client[c].pc = "load" /\ ~client[c].again
      BY <1>8, <2>1 DEF LoadStale
    <2> HIDE DEF r
    <2>4. Once(r) /\ Left(r) < Left(client[c])
      <3>1. Once(r) /\ Left(r) = 12 /\ Left(client[c]) = 14
        BY <2>2, <2>3 DEF Once, Left, Ahead
      <3> QED
        BY <3>1
    <2> QED
      BY <1>2, <2>3, <2>4
  <1>9. CASE Use(c)
    <2>1. PICK d : client' = [client EXCEPT ![c].pc = "truncate", ![c].doc = d]
      BY <1>9 DEF Use
    <2> DEFINE r == [client[c] EXCEPT !.pc = "truncate", !.doc = d]
    <2>2. r.pc = "truncate" /\ r.again = client[c].again /\ r.stale = client[c].stale
      BY <1>1 DEF ClientType
    <2>3. client' = [client EXCEPT ![c] = r] /\ client[c].pc = "use"
      BY <1>9, <2>1 DEF Use
    <2>4. {"use", "truncate"} \subseteq DOMAIN Ahead /\ Ahead["truncate"] < Ahead["use"]
      BY DEF Ahead
    <2> HIDE DEF r
    <2> QED
      BY <1>4, <2>2, <2>3, <2>4
  <1>10. CASE Truncate(c)
    <2> DEFINE r == [client[c] EXCEPT !.pc = "write"]
    <2>1. r.pc = "write" /\ r.again = client[c].again /\ r.stale = client[c].stale
      BY <1>1 DEF ClientType
    <2>2. client' = [client EXCEPT ![c] = r] /\ client[c].pc = "truncate"
      BY <1>10 DEF Truncate
    <2>3. {"truncate", "write"} \subseteq DOMAIN Ahead /\ Ahead["write"] < Ahead["truncate"]
      BY DEF Ahead
    <2> HIDE DEF r
    <2> QED
      BY <1>4, <2>1, <2>2, <2>3
  <1>11. CASE Write(c)
    <2> DEFINE r == [client[c] EXCEPT !.pc = "close", !.doc = EmptyDoc, !.loaded = EmptyDoc]
    <2>1. r.pc = "close" /\ r.again = client[c].again /\ r.stale = client[c].stale
      BY <1>1 DEF ClientType
    <2>2. client' = [client EXCEPT ![c] = r] /\ client[c].pc = "write"
      BY <1>11 DEF Write
    <2>3. {"write", "close"} \subseteq DOMAIN Ahead /\ Ahead["close"] < Ahead["write"]
      BY DEF Ahead
    <2> HIDE DEF r
    <2> QED
      BY <1>4, <2>1, <2>2, <2>3
  <1>12. CASE Close(c)
    <2>1. client[c].pc = "close" /\ Left(client[c]) > 0
      BY <1>1, <1>12, LeftIs DEF Close
    <2>2. CASE client[c].stale
      <3> DEFINE r == [client[c] EXCEPT !.pc = "unlink", !.ino = None, !.failed = FALSE]
      <3>1. r.pc = "unlink" /\ r.again = client[c].again /\ r.stale = client[c].stale
        BY <1>1 DEF ClientType
      <3>2. client' = [client EXCEPT ![c] = r]
        BY <1>12, <2>2 DEF Close
      <3>3. ~client[c].again
        BY <2>2 DEF Once
      <3> HIDE DEF r
      <3>4. Once(r) /\ Left(r) < Left(client[c])
        <4>1. Once(r) /\ Left(r) = 9 /\ Left(client[c]) = 10
          BY <2>1, <2>2, <3>1, <3>3 DEF Once, Left, Ahead
        <4> QED
          BY <4>1
      <3> QED
        BY <1>2, <3>2, <3>4
    <2>3. CASE ~client[c].stale
      <3>1. client' = [client EXCEPT ![c] = Idle]
        BY <1>12, <2>3 DEF Close
      <3> QED
        BY <1>2, <2>1, <3>1, IdleLeft
    <2> QED
      BY <2>2, <2>3
  <1>13. CASE Unlink(c)
    <2> DEFINE r == [client[c] EXCEPT !.pc = "open", !.stale = FALSE, !.again = TRUE]
    <2>1. r.pc = "open" /\ ~r.stale /\ r.again
      BY <1>1 DEF ClientType
    <2>2. client' = [client EXCEPT ![c] = r] /\ client[c].pc = "unlink"
      BY <1>13 DEF Unlink
    <2>3. ~client[c].again
      BY <2>2 DEF Once
    <2> HIDE DEF r
    <2>4. Once(r) /\ Left(r) < Left(client[c])
      <3>1. Once(r) /\ Left(r) = 8 /\ Left(client[c]) = 9
        BY <2>1, <2>2, <2>3 DEF Once, Left, Ahead
      <3> QED
        BY <3>1
    <2> QED
      BY <1>2, <2>2, <2>4
  <1>14. CASE OpenFails(c) \/ LoadFails(c)
    BY <1>3, <1>14 DEF OpenFails, LoadFails
  <1>15. CASE WriteFails(c)
    <2> DEFINE r == [client[c] EXCEPT !.pc = "close", !.doc = EmptyDoc, !.loaded = EmptyDoc,
                                      !.failed = TRUE]
    <2>1. r.pc = "close" /\ r.again = client[c].again /\ r.stale = client[c].stale
      BY <1>1 DEF ClientType
    <2>2. client' = [client EXCEPT ![c] = r] /\ client[c].pc = "write"
      BY <1>15 DEF WriteFails
    <2>3. {"write", "close"} \subseteq DOMAIN Ahead /\ Ahead["close"] < Ahead["write"]
      BY DEF Ahead
    <2> HIDE DEF r
    <2> QED
      BY <1>4, <2>1, <2>2, <2>3
  <1> QED
    BY <1>5, <1>6, <1>7, <1>8, <1>9, <1>10, <1>11, <1>12, <1>13, <1>14, <1>15 DEF Step

LEMMA OnceNext ==
  ASSUME Inv, OpenedOnce, [Next]_vars
  PROVE  OpenedOnce'
  <1> USE DEF OpenedOnce
  <1>1. ASSUME NEW c \in Clients, Step(c) PROVE \A d \in Clients : Once(client'[d])
    BY <1>1, StepIs, IdleLeft
  <1>2. ASSUME NEW c \in Clients, Begin(c) PROVE \A d \in Clients : Once(client'[d])
    <2> DEFINE r == [Idle EXCEPT !.pc = "open", !.uuid = guest]
    <2>1. Once(r)
      BY DEF Once, Idle
    <2>2. client' = [client EXCEPT ![c] = r] /\ client \in [Clients -> ClientType]
      BY <1>2 DEF Begin, Inv
    <2> HIDE DEF r
    <2> QED
      BY <2>1, <2>2
  <1>3. CASE Crash
    BY <1>3, IdleLeft DEF Crash, Die
  <1>4. CASE Redefine \/ Delete \/ UNCHANGED vars
    BY <1>4 DEF Redefine, Delete, vars
  <1> QED
    BY <1>1, <1>2, <1>3, <1>4 DEF Next

LEMMA OnceOnly == Spec => []OpenedOnce
  <1>1. Init => OpenedOnce
    BY IdleLeft DEF Init, OpenedOnce
  <1>2. Inv /\ OpenedOnce /\ [Next]_vars => OpenedOnce'
    BY OnceNext
  <1> QED
    BY <1>1, <1>2, Invariant, PTL DEF Spec

\* Who holds the lock a caller waits for.
WaitsFor(c) == lock[client[c].ino]
NoRing ==
    \A c \in Clients : client[c].pc = "flock" =>
        /\ \A i \in Inodes : lock[i] # c
        /\ WaitsFor(c) # None => \E d \in Clients \ {c} :
             /\ WaitsFor(c) = d
             /\ client[d].ino = client[c].ino /\ client[d].pc \in Holding

\* A caller that waits for a lock holds none, and one of the others holds the
\* lock it waits for and waits itself for nothing (infostore_open opens and
\* locks one file, and delete_and_open closes it before it opens the next): no
\* ring of callers can wait for one another.
THEOREM WaitersHoldNothing == Spec => []NoRing
  <1>1. Inv => NoRing
    <2> SUFFICES ASSUME Inv, NEW c \in Clients, client[c].pc = "flock"
                 PROVE  /\ \A i \in Inodes : lock[i] # c
                        /\ lock[client[c].ino] # None => \E d \in Clients \ {c} :
                             /\ lock[client[c].ino] = d
                             /\ client[d].ino = client[c].ino /\ client[d].pc \in Holding
      BY DEF NoRing, WaitsFor
    <2>1. \A i \in Inodes : ~Owns(client[c], i)
      BY DEF Owns, Holding
    <2>2. \A i \in Inodes : lock[i] # c
      BY <2>1 DEF Inv
    <2>3. client[c].ino \in Inodes
      BY DEF Inv, ClientOK, ClientType
    <2>4. ASSUME lock[client[c].ino] # None
          PROVE  \E d \in Clients \ {c} :
                   /\ lock[client[c].ino] = d
                   /\ client[d].ino = client[c].ino /\ client[d].pc \in Holding
      <3>1. PICK d \in Clients : lock[client[c].ino] = d
        BY <2>3, <2>4 DEF Inv
      <3>2. Owns(client[d], client[c].ino)
        BY <2>3, <3>1 DEF Inv
      <3> QED
        BY <2>2, <2>3, <3>1, <3>2 DEF Owns
    <2> QED
      BY <2>2, <2>4
  <1> QED
    BY <1>1, Invariant, PTL

Nearer(c) ==
    /\ Left(client'[c]) \in Nat
    /\ client'[c] = client[c] \/ Left(client'[c]) < Left(client[c])
    /\ Step(c) => Left(client'[c]) < Left(client[c])

\* Every step of a caller leaves it less to do, also when it finds the record of
\* another guest and starts again, and what others do, a crash included, never
\* gives it more (infostore_open, delete_and_open, infostore_close): with the
\* fairness of FairSpec, which gives it the lock, it comes to its end.
THEOREM CallerCountsDown ==
  Spec => [][\A c \in Clients : client[c].pc # "idle" => Nearer(c)]_vars
  <1>1. ASSUME Inv, Inv', OpenedOnce, Next, NEW c \in Clients, client[c].pc # "idle"
        PROVE  Nearer(c)
    <2>1. client[c] \in ClientType /\ client'[c] \in ClientType
      BY <1>1 DEF Inv
    <2>2. Left(client'[c]) \in Nat /\ Left(client[c]) > 0
      BY <1>1, <2>1, LeftIs
    <2>3. Step(c) => Left(client'[c]) < Left(client[c])
      BY <1>1, StepIs DEF OpenedOnce
    <2>4. client'[c] \in {client[c], Idle} \/ Step(c)
      <3>1. ASSUME NEW d \in Clients, Step(d) PROVE client'[c] \in {client[c], Idle} \/ Step(c)
        BY <1>1, <3>1, StepIs DEF OpenedOnce
      <3>2. ASSUME NEW d \in Clients, Begin(d) PROVE client'[c] = client[c]
        BY <1>1, <3>2 DEF Begin, Inv
      <3>3. CASE Crash
        BY <3>3 DEF Crash, Die
      <3>4. CASE Redefine \/ Delete
        BY <3>4 DEF Redefine, Delete
      <3> QED
        BY <1>1, <3>1, <3>2, <3>3, <3>4 DEF Next
    <2> QED
      BY <2>2, <2>3, <2>4, IdleLeft DEF Nearer
  <1>2. Inv /\ Inv' /\ OpenedOnce /\ Next =>
          \A c \in Clients : client[c].pc # "idle" => Nearer(c)
    BY <1>1
  <1> QED
    BY <1>2, OnceOnly, Invariant, PTL DEF Spec
=============================================================================
