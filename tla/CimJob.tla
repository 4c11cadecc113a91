------------------------------- MODULE CimJob -------------------------------
(***************************************************************************)
(* What a CIM client may rely on when it watches a job of the provider: a  *)
(* job is created once, its JobState only advances, and the indications    *)
(* about it come in the order created, modified, deleted.  A state or an   *)
(* indication may be skipped, since every update of the job instance may   *)
(* fail.                                                                   *)
(***************************************************************************)
CONSTANT Jobs

VARIABLES state,    \* JobState of each job, or "absent"
          told      \* the latest kind of indication raised for it

\* What a state, and the latest indication, may be followed by.
NextStates ==
    [starting |-> {"starting", "running", "complete"},
     running |-> {"running", "complete"},
     complete |-> {"complete"}]
NextKinds ==
    [nothing |-> {"nothing", "created", "modified", "deleted"},
     created |-> {"created", "modified", "deleted"},
     modified |-> {"modified", "deleted"},
     deleted |-> {"deleted"}]

Init ==
    /\ state = [j \in Jobs |-> "absent"]
    /\ told = [j \in Jobs |-> "nothing"]

Create(j) ==
    /\ state[j] = "absent"
    /\ state' = [state EXCEPT ![j] = "starting"]
    /\ UNCHANGED told

Advance(j) ==
    /\ state[j] # "absent"
    /\ \E s \in NextStates[state[j]] : state' = [state EXCEPT ![j] = s]
    /\ \E k \in NextKinds[told[j]] : told' = [told EXCEPT ![j] = k]

Next == \E j \in Jobs : Create(j) \/ Advance(j)
Spec == Init /\ [][Next]_<<state, told>>
=============================================================================
