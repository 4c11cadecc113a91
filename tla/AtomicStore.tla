----------------------------- MODULE AtomicStore -----------------------------
(***************************************************************************)
(* What the users of libxkutil/infostore.c can rely on: one record per     *)
(* domain name that each of them opens, changes in one step and leaves, so *)
(* that changes of two callers never overwrite one another.  The record is *)
(* lost only in the ways named here: a guest is destroyed, a caller that   *)
(* met the record of another guest removes what is there when it comes to  *)
(* it, a save fails, the provider dies.  Who has the record open when it   *)
(* is removed is cut off, and what it sets is lost.                        *)
(***************************************************************************)
EXTENDS Naturals

CONSTANTS Clients, Keys, Uuids, None, Damaged, Faults

VARIABLES
    content,    \* the record of the name, or Damaged
    user,       \* what each caller has to do with it
    destroyed   \* how often infostore_delete removed it

vars == <<content, user, destroyed>>

Doc == [uuid : Uuids \cup {None}, val : [Keys -> Uuids \cup {None}]]
EmptyDoc == [uuid |-> None, val |-> [k \in Keys |-> None]]
\* A caller: its guest, whether it has the record open or one that was removed,
\* what it is to store.
Out == [uuid |-> None, at |-> "out", due |-> None, stale |-> FALSE,
        again |-> FALSE, failed |-> FALSE]

Init ==
    /\ content = EmptyDoc
    /\ user = [c \in Clients |-> Out]
    /\ destroyed = 0

Becomes(c, u) == user' = [user EXCEPT ![c] = u]

Begin(c) ==
    /\ user[c] = Out
    /\ \E u \in Uuids : Becomes(c, [Out EXCEPT !.uuid = u])
    /\ UNCHANGED <<content, destroyed>>

Open(c) ==
    LET u == user[c] IN
    /\ u.uuid # None /\ u.at = "out" /\ ~u.stale
    /\ Becomes(c, [u EXCEPT !.at = "in"])
    /\ UNCHANGED <<content, destroyed>>

\* The record is claimed for a guest, or one of its keys is set, or both.
Changes(doc, uuid) ==
    LET claimed == {doc, [doc EXCEPT !.uuid = uuid]}
    IN  claimed \cup {[d EXCEPT !.val[k] = uuid] : d \in claimed, k \in Keys}

\* A caller reads the record as it is and changes it.  It is the record of no
\* other guest, unless the caller has just removed one.
Set(c) ==
    LET u == user[c] IN
    /\ u.at # "out" /\ ~u.stale /\ u.due = None
    /\ u.at = "in" =>
         content \in Doc /\ (u.again \/ content.uuid \in {None, u.uuid})
    /\ \E d \in IF u.at = "in" THEN Changes(content, u.uuid) ELSE Doc :
         Becomes(c, [u EXCEPT !.due = d])
    /\ UNCHANGED <<content, destroyed>>

\* The change is stored, in the record as it still is, before the caller leaves.
Commit(c) ==
    LET u == user[c] IN
    /\ u.due # None
    /\ Becomes(c, [u EXCEPT !.due = None])
    /\ IF u.at = "in"
       THEN u.due \in Changes(content, u.uuid) /\ content' = u.due
       ELSE UNCHANGED content
    /\ UNCHANGED destroyed

\* A caller finds the record to be of another guest, or cannot tell; or it has
\* open one that was removed.  This happens once in a call.
Condemn(c) ==
    LET u == user[c] IN
    /\ u.at # "out" /\ u.due = None /\ ~u.stale /\ ~u.again
    /\ u.at = "in" =>
         /\ content \in Doc
         /\ content.uuid \notin {None, u.uuid} \/ "uuid" \in Faults
    /\ Becomes(c, [u EXCEPT !.stale = TRUE])
    /\ UNCHANGED <<content, destroyed>>

\* A save fails and leaves nothing, or what does not parse.
Spoil(c) ==
    LET u == user[c] IN
    /\ "save" \in Faults
    /\ u.at # "out" /\ ~u.failed
    /\ Becomes(c, [u EXCEPT !.failed = TRUE, !.due = None])
    /\ IF u.at = "in" THEN content' \in {EmptyDoc, Damaged} ELSE UNCHANGED content
    /\ UNCHANGED destroyed

Leave(c) ==
    LET u == user[c] IN
    /\ u # Out /\ u.due = None /\ (u.stale => u.at # "out")
    /\ Becomes(c, IF u.stale THEN [u EXCEPT !.at = "out", !.failed = FALSE] ELSE Out)
    /\ UNCHANGED <<content, destroyed>>

\* The record is no more, for those that have it open either.
CutOff(us) ==
    [c \in Clients |-> IF us[c].at = "in" THEN [us[c] EXCEPT !.at = "cut"] ELSE us[c]]

Remove(c) ==
    /\ user[c].stale /\ user[c].at = "out"
    /\ content' = EmptyDoc
    /\ user' = CutOff([user EXCEPT ![c].stale = FALSE, ![c].again = TRUE])
    /\ UNCHANGED destroyed

Destroy ==
    /\ destroyed' = destroyed + 1
    /\ content' = EmptyDoc
    /\ user' = CutOff(user)

\* The provider is gone, and with it every caller; the record was being written
\* or is as it was.
Crash ==
    /\ user' = [c \in Clients |-> Out]
    /\ \/ UNCHANGED content
       \/ \E c \in Clients : user[c].at = "in" /\ content' \in {EmptyDoc, Damaged}
    /\ UNCHANGED destroyed

Next ==
    \/ \E c \in Clients : \/ Begin(c) \/ Open(c) \/ Set(c) \/ Commit(c)
                          \/ Condemn(c) \/ Spoil(c) \/ Leave(c) \/ Remove(c)
    \/ Destroy \/ Crash
Spec == Init /\ [][Next]_vars
=============================================================================
