----------------------------- MODULE JobHistory -----------------------------
(***************************************************************************)
(* What the durable history promises about a job, whatever the API, Redis, *)
(* the broker and the workers do: its record appears once, never goes back *)
(* to queued, and each later status has its reason.                        *)
(***************************************************************************)
CONSTANTS Jobs

VARIABLES
    record,     \* status of the durable record
    happened,   \* what happened to the job: completed, archived, raised, cancelled
    refused     \* the jobs whose submission failed

vars == <<record, happened, refused>>

Init ==
    /\ record = [j \in Jobs |-> "absent"]
    /\ happened = [j \in Jobs |-> {}]
    /\ refused = {}

Write(j, status) == record' = [record EXCEPT ![j] = status]

\* Something happens to a job whose record exists, recorded at once or not.
Witness(j, event) ==
    /\ record[j] # "absent"
    /\ happened' = [happened EXCEPT ![j] = @ \cup {event}]

Submit(j) ==
    /\ record[j] = "absent"
    /\ Write(j, "queued")
    /\ refused' \in {refused, refused \cup {j}}
    /\ UNCHANGED happened

Refuse(j) ==
    /\ refused' = refused \cup {j}
    /\ UNCHANGED <<record, happened>>

\* The start of an execution; the last write of a start may be the one that raises.
Start(j) ==
    /\ record[j] # "absent"
    /\ Write(j, "started")
    /\ happened' \in {happened, [happened EXCEPT ![j] = @ \cup {"raised"}]}
    /\ UNCHANGED refused

Happen(j) ==
    /\ \E event \in {"completed", "raised", "cancelled"} : Witness(j, event)
    /\ UNCHANGED <<record, refused>>

Succeed(j) ==
    /\ "completed" \in happened[j]
    /\ Write(j, "success")
    /\ \E event \in {"archived", "raised"} : Witness(j, event)
    /\ UNCHANGED refused

Fail(j) ==
    /\ "raised" \in happened[j] \/ j \in refused
    /\ Write(j, "failure")
    /\ UNCHANGED <<happened, refused>>

Revoke(j) ==
    /\ "cancelled" \in happened[j]
    /\ Write(j, "revoked")
    /\ UNCHANGED <<happened, refused>>

Next ==
    \E j \in Jobs :
        \/ Submit(j) \/ Refuse(j) \/ Start(j) \/ Happen(j)
        \/ Succeed(j) \/ Fail(j) \/ Revoke(j)

Spec == Init /\ [][Next]_vars
=============================================================================
