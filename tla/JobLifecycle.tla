---------------------------- MODULE JobLifecycle ----------------------------
(***************************************************************************)
(* The life of a workspace job: its submission by the API (main.py), its   *)
(* durable record in S3 (history.py), its Redis metadata (auth.py,         *)
(* storage.py, workspaces.py), the Celery message that carries it          *)
(* (celery_app.py) and the solo workers that execute it (HistoryTask).     *)
(*                                                                         *)
(* The three submission routes (hand-fim, parity, compare) run the same    *)
(* sequence of calls, so one submission per job stands for all of them.    *)
(* One action is one call that another process can observe: a Redis        *)
(* command or transaction, an S3 request, a broker operation.              *)
(***************************************************************************)
EXTENDS Naturals, FiniteSets

CONSTANTS
    Jobs,       \* job identifiers (uuid4, so never reused)
    Workers,    \* Celery workers, each a solo pool that runs one task at a time
    NoJob,      \* what an idle worker holds
    Faults,     \* the kinds of fault this instance admits
    MaxFaults   \* bound on the number of faults in a behaviour

FaultKinds == {
    "storeError",        \* an S3 request raises; a write may have been applied or not
    "redisError",        \* a Redis request raises; a write may have been applied or not
    "sendError",         \* apply_async raises and no message was queued
    "ambiguousSend",     \* apply_async raises although the message was queued
    "apiCrash",          \* the API process stops, or an uncaught exception ends the request
    "workerCrash",       \* a worker process is killed
    "redisLoss",         \* Redis comes back empty
    "expiry",            \* the time to live of one Redis key runs out
    "visibilityTimeout"} \* the broker redelivers what a live worker has not acknowledged yet

ASSUME LifecycleAssumption ==
    /\ NoJob \notin Jobs
    /\ Faults \subseteq FaultKinds
    /\ MaxFaults \in Nat

VARIABLES
    record,      \* S3: status in jobs/<job_id>/record.json
    owner,       \* Redis: the jobs with an owner key
    bound,       \* Redis: the jobs with a workspace association
    credentials, \* Redis: the jobs with S3 credentials
    backend,     \* Redis: state in the Celery result backend
    message,     \* Redis: where the broker keeps the job's message
    inbox,       \* broadcasts of control.revoke that a worker has not handled
    submission,  \* progress of the POST that submits the job
    cancel,      \* progress of a DELETE of the job
    phase,       \* what each worker is doing
    task,        \* the job each worker holds
    revoked,     \* the revocations each worker remembers
    happened,    \* history variable: what really happened to the job
    faults       \* number of faults so far

redisVars  == <<owner, bound, credentials, backend>>
brokerVars == <<message, inbox>>
apiVars    == <<submission, cancel>>
workerVars == <<phase, task, revoked>>
vars == <<record, redisVars, brokerVars, apiVars, workerVars, happened, faults>>

Terminal == {"success", "failure", "revoked"}
Records  == {"absent", "queued", "started"} \cup Terminal
States   == {"PENDING", "STARTED", "SUCCESS", "FAILURE", "REVOKED"}

Submissions ==
    {"new", "prepare", "track", "bind", "enqueue", "accepted",
     "recordFailure", "deleteCredentials", "untrack", "rejected", "halfRejected", "lost"}

Phases ==
    {"idle", "received", "archiveRevoked", "opening", "recordStarted", "running",
     "recordSuccess", "recordFailure", "reportSuccess", "reportFailure",
     "acknowledge", "down"}

TypeOK ==
    /\ record \in [Jobs -> Records]
    /\ owner \subseteq Jobs
    /\ bound \subseteq Jobs
    /\ credentials \subseteq Jobs
    /\ backend \in [Jobs -> States]
    /\ message \in [Jobs -> {"none", "ready", "unacknowledged"}]
    /\ inbox \in [Workers -> SUBSET Jobs]
    /\ submission \in [Jobs -> Submissions]
    /\ cancel \in [Jobs -> {"none", "readRecord", "readState", "revoke", "mark"}]
    /\ phase \in [Workers -> Phases]
    /\ task \in [Workers -> Jobs \cup {NoJob}]
    /\ revoked \in [Workers -> SUBSET Jobs]
    /\ happened \in [Jobs -> SUBSET {"completed", "archived", "raised", "cancelled"}]
    /\ faults \in 0..MaxFaults

Init ==
    /\ record = [j \in Jobs |-> "absent"]
    /\ owner = {}
    /\ bound = {}
    /\ credentials = {}
    /\ backend = [j \in Jobs |-> "PENDING"]
    /\ message = [j \in Jobs |-> "none"]
    /\ inbox = [w \in Workers |-> {}]
    /\ submission = [j \in Jobs |-> "new"]
    /\ cancel = [j \in Jobs |-> "none"]
    /\ phase = [w \in Workers |-> "idle"]
    /\ task = [w \in Workers |-> NoJob]
    /\ revoked = [w \in Workers |-> {}]
    /\ happened = [j \in Jobs |-> {}]
    /\ faults = 0

\* A step that is, or goes on after, a fault of kind f.
Fault(f) ==
    /\ f \in Faults
    /\ faults < MaxFaults
    /\ faults' = faults + 1

NoFault == UNCHANGED faults

(***************************************************************************)
(* Submission: main.py, __submit_hand_fim, submit_parity, submit_compare.  *)
(***************************************************************************)
SubmitTo(j, step) == submission' = [submission EXCEPT ![j] = step]

\* create_job_credentials runs outside the try: nothing is cleaned up after an error.
CreateCredentials(j) ==
    /\ submission[j] = "new"
    /\ \/ /\ credentials' = credentials \cup {j}
          /\ SubmitTo(j, "prepare")
          /\ NoFault
       \/ /\ credentials' \in {credentials, credentials \cup {j}}
          /\ SubmitTo(j, "halfRejected")
          /\ Fault("redisError")
    /\ UNCHANGED <<record, owner, bound, backend, brokerVars, cancel, workerVars, happened>>

\* history.prepare: the queued record, written if absent, with the job's own
\* credentials. On an error `archive` is still empty, so the failure is not recorded.
Prepare(j) ==
    /\ submission[j] = "prepare"
    /\ \/ /\ j \in credentials
          /\ record' = [record EXCEPT ![j] = "queued"]
          /\ SubmitTo(j, "track")
          /\ NoFault
       \/ /\ j \in credentials
          /\ \E applied \in {record[j], "queued"} : record' = [record EXCEPT ![j] = applied]
          /\ SubmitTo(j, "deleteCredentials")
          /\ Fault("storeError")
       \/ /\ j \notin credentials
          /\ SubmitTo(j, "deleteCredentials")
          /\ NoFault
          /\ UNCHANGED record
    /\ UNCHANGED <<redisVars, brokerVars, cancel, workerVars, happened>>

TrackOwner(j) ==
    /\ submission[j] = "track"
    /\ \/ /\ owner' = owner \cup {j}
          /\ SubmitTo(j, "bind")
          /\ NoFault
       \/ /\ owner' \in {owner, owner \cup {j}}
          /\ SubmitTo(j, "recordFailure")
          /\ Fault("redisError")
    /\ UNCHANGED <<record, bound, credentials, backend, brokerVars, cancel, workerVars, happened>>

BindJob(j) ==
    /\ submission[j] = "bind"
    /\ \/ /\ bound' = bound \cup {j}
          /\ SubmitTo(j, "enqueue")
          /\ NoFault
       \/ /\ bound' \in {bound, bound \cup {j}}
          /\ SubmitTo(j, "recordFailure")
          /\ Fault("redisError")
    /\ UNCHANGED <<record, owner, credentials, backend, brokerVars, cancel, workerVars, happened>>

\* apply_async(task_id=job_id, retry=False).
Enqueue(j) ==
    /\ submission[j] = "enqueue"
    /\ \/ /\ message' = [message EXCEPT ![j] = "ready"]
          /\ SubmitTo(j, "accepted")
          /\ NoFault
       \/ /\ message' = [message EXCEPT ![j] = "ready"]
          /\ SubmitTo(j, "recordFailure")
          /\ Fault("ambiguousSend")
       \/ /\ SubmitTo(j, "recordFailure")
          /\ Fault("sendError")
          /\ UNCHANGED message
    /\ UNCHANGED <<record, redisVars, inbox, cancel, workerVars, happened>>

\* Mutant of RecordEnqueueFailure: no finally clause, so an error of the write
\* ends the request with the access of the job still there.
RecordEnqueueFailureWithoutFinally(j) ==
    /\ submission[j] = "recordFailure"
    /\ \/ /\ j \in credentials
          /\ record' = [record EXCEPT ![j] = "failure"]
          /\ SubmitTo(j, "deleteCredentials")
          /\ NoFault
       \/ /\ SubmitTo(j, "rejected")
          /\ Fault("storeError")
          /\ UNCHANGED record
    /\ UNCHANGED <<redisVars, brokerVars, cancel, workerVars, happened>>

\* The except clause: history.enqueue_failed overwrites whatever record is
\* there, and the finally clause runs whether or not that write succeeded.
RecordEnqueueFailure(j) ==
    /\ submission[j] = "recordFailure"
    /\ \/ /\ j \in credentials
          /\ record' = [record EXCEPT ![j] = "failure"]
          /\ NoFault
       \/ /\ j \in credentials
          /\ Fault("storeError")
          /\ UNCHANGED record
       \/ /\ j \notin credentials
          /\ NoFault
          /\ UNCHANGED record
    /\ SubmitTo(j, "deleteCredentials")
    /\ UNCHANGED <<redisVars, brokerVars, cancel, workerVars, happened>>

\* Mutant of DeleteCredentials: only the owner key is cleaned up.
KeepCredentials(j) ==
    /\ submission[j] = "deleteCredentials"
    /\ SubmitTo(j, "untrack")
    /\ NoFault
    /\ UNCHANGED <<record, redisVars, brokerVars, cancel, workerVars, happened>>

DeleteCredentials(j) ==
    /\ submission[j] = "deleteCredentials"
    /\ \/ /\ credentials' = credentials \ {j}
          /\ SubmitTo(j, "untrack")
          /\ NoFault
       \/ /\ credentials' \in {credentials, credentials \ {j}}
          /\ SubmitTo(j, "halfRejected")
          /\ Fault("redisError")
    /\ UNCHANGED <<record, owner, bound, backend, brokerVars, cancel, workerVars, happened>>

UntrackOwner(j) ==
    /\ submission[j] = "untrack"
    /\ \/ /\ owner' = owner \ {j}
          /\ SubmitTo(j, "rejected")
          /\ NoFault
       \/ /\ owner' \in {owner, owner \ {j}}
          /\ SubmitTo(j, "halfRejected")
          /\ Fault("redisError")
    /\ UNCHANGED <<record, bound, credentials, backend, brokerVars, cancel, workerVars, happened>>

\* The request ends without its except clause: the process died, or the
\* exception is not in the list the routes catch (RuntimeError from history.__write).
AbandonSubmission(j) ==
    /\ submission[j] \notin {"new", "accepted", "rejected", "halfRejected", "lost"}
    /\ SubmitTo(j, "lost")
    /\ Fault("apiCrash")
    /\ UNCHANGED <<record, redisVars, brokerVars, cancel, workerVars, happened>>

(***************************************************************************)
(* Cancellation: main.py, cancel_job. Each check reads another store, and  *)
(* the queued record may be read long before "revoked" is written.         *)
(***************************************************************************)
CancelTo(j, step) == cancel' = [cancel EXCEPT ![j] = step]

\* __require_job_owner and job_is_bound; a refusal (403) changes nothing.
CancelAuthorize(j) ==
    /\ cancel[j] = "none"
    /\ j \in owner
    /\ j \in bound
    /\ CancelTo(j, "readRecord")
    /\ NoFault
    /\ UNCHANGED <<record, redisVars, brokerVars, submission, workerVars, happened>>

CancelReadRecord(j) ==
    /\ cancel[j] = "readRecord"
    /\ CancelTo(j, IF record[j] = "queued" THEN "readState" ELSE "none")
    /\ NoFault
    /\ UNCHANGED <<record, redisVars, brokerVars, submission, workerVars, happened>>

\* Celery stores no RECEIVED state, so PENDING is the one state that passes.
CancelReadState(j) ==
    /\ cancel[j] = "readState"
    /\ CancelTo(j, IF backend[j] = "PENDING" THEN "revoke" ELSE "none")
    /\ NoFault
    /\ UNCHANGED <<record, redisVars, brokerVars, submission, workerVars, happened>>

\* control.revoke(terminate=False): a broadcast that only running workers get.
CancelRevoke(j) ==
    /\ cancel[j] = "revoke"
    /\ inbox' = [w \in Workers |-> IF phase[w] = "down" THEN inbox[w] ELSE inbox[w] \cup {j}]
    /\ happened' = [happened EXCEPT ![j] = @ \cup {"cancelled"}]
    /\ CancelTo(j, "mark")
    /\ NoFault
    /\ UNCHANGED <<record, redisVars, message, submission, workerVars>>

\* Mutant of CancelMark: a requested cancellation gets a status of its own.
MarkCancellationRequested(j) ==
    /\ cancel[j] = "mark"
    /\ record' = [record EXCEPT ![j] = "cancellation_requested"]
    /\ CancelTo(j, "none")
    /\ NoFault
    /\ UNCHANGED <<redisVars, brokerVars, submission, workerVars, happened>>

\* history.mark_cancelled reads the record again, but only to set its status:
\* the write does not depend on what the status was.
CancelMark(j) ==
    /\ cancel[j] = "mark"
    /\ \/ /\ record' = [record EXCEPT ![j] = "revoked"]
          /\ NoFault
       \/ /\ Fault("storeError")
          /\ UNCHANGED record
    /\ CancelTo(j, "none")
    /\ UNCHANGED <<redisVars, brokerVars, submission, workerVars, happened>>

\* The DELETE ends early: the API process stops, or control.revoke raises.
AbandonCancel(j) ==
    /\ cancel[j] # "none"
    /\ CancelTo(j, "none")
    /\ Fault("apiCrash")
    /\ UNCHANGED <<record, redisVars, brokerVars, submission, workerVars, happened>>

(***************************************************************************)
(* The broker, the result backend and the worker process: Celery on Redis, *)
(* configured by celery_app.py (solo pool, prefetch 1, late acknowledgement)*)
(***************************************************************************)
Holds(w, j) == task[w] = j

WorkTo(w, step) == phase' = [phase EXCEPT ![w] = step]

\* The Redis backend ignores every update after SUCCESS.
Store(j, state) ==
    backend' = [backend EXCEPT ![j] = IF @ = "SUCCESS" THEN @ ELSE state]

\* Mutant of Receive: early acknowledgement (without task_acks_late).
ReceiveAcknowledging(w, j) ==
    /\ phase[w] = "idle"
    /\ message[j] = "ready"
    /\ message' = [message EXCEPT ![j] = "none"]
    /\ task' = [task EXCEPT ![w] = j]
    /\ WorkTo(w, "received")
    /\ NoFault
    /\ UNCHANGED <<record, redisVars, inbox, apiVars, revoked, happened>>

Receive(w, j) ==
    /\ phase[w] = "idle"
    /\ message[j] = "ready"
    /\ message' = [message EXCEPT ![j] = "unacknowledged"]
    /\ task' = [task EXCEPT ![w] = j]
    /\ WorkTo(w, "received")
    /\ NoFault
    /\ UNCHANGED <<record, redisVars, inbox, apiVars, revoked, happened>>

\* A solo pool handles control messages between tasks only.
HearRevocations(w) ==
    /\ phase[w] = "idle"
    /\ inbox[w] # {}
    /\ revoked' = [revoked EXCEPT ![w] = @ \cup inbox[w]]
    /\ inbox' = [inbox EXCEPT ![w] = {}]
    /\ NoFault
    /\ UNCHANGED <<record, redisVars, message, apiVars, phase, task, happened>>

\* The acknowledgement removes a message that is outstanding; one that was
\* restored to the queue in the meantime stays there.
Acknowledged(j) ==
    [message EXCEPT ![j] = IF @ = "unacknowledged" THEN "none" ELSE @]

\* A revoked task is reported and acknowledged before its signal handler runs.
Discard(w) ==
    /\ phase[w] = "received"
    /\ task[w] \in revoked[w]
    /\ Store(task[w], "REVOKED")
    /\ message' = Acknowledged(task[w])
    /\ WorkTo(w, "archiveRevoked")
    /\ NoFault
    /\ UNCHANGED <<record, owner, bound, credentials, inbox, apiVars, task, revoked, happened>>

\* task_track_started
ReportStarted(w) ==
    /\ phase[w] = "received"
    /\ task[w] \notin revoked[w]
    /\ Store(task[w], "STARTED")
    /\ WorkTo(w, "opening")
    /\ NoFault
    /\ UNCHANGED <<record, owner, bound, credentials, brokerVars, apiVars, task, revoked, happened>>

ReportResult(w) ==
    /\ \/ /\ phase[w] = "reportSuccess"
          /\ Store(task[w], "SUCCESS")
       \/ /\ phase[w] = "reportFailure"
          /\ Store(task[w], "FAILURE")
    /\ WorkTo(w, "acknowledge")
    /\ NoFault
    /\ UNCHANGED <<record, owner, bound, credentials, brokerVars, apiVars, task, revoked, happened>>

Acknowledge(w) ==
    /\ phase[w] = "acknowledge"
    /\ message' = Acknowledged(task[w])
    /\ task' = [task EXCEPT ![w] = NoJob]
    /\ WorkTo(w, "idle")
    /\ NoFault
    /\ UNCHANGED <<record, redisVars, inbox, apiVars, revoked, happened>>

CrashWorker(w) ==
    /\ phase[w] # "down"
    /\ WorkTo(w, "down")
    /\ task' = [task EXCEPT ![w] = NoJob]
    /\ inbox' = [inbox EXCEPT ![w] = {}]
    /\ revoked' = [revoked EXCEPT ![w] = {}]
    /\ Fault("workerCrash")
    /\ UNCHANGED <<record, redisVars, message, apiVars, happened>>

RestartWorker(w) ==
    /\ phase[w] = "down"
    /\ WorkTo(w, "idle")
    /\ NoFault
    /\ UNCHANGED <<record, redisVars, brokerVars, apiVars, task, revoked, happened>>

\* A message nobody acknowledged goes back to the queue; while its worker
\* lives, only when the visibility timeout is shorter than the job.
Restore(j) ==
    /\ message[j] = "unacknowledged"
    /\ message' = [message EXCEPT ![j] = "ready"]
    /\ \/ /\ \A w \in Workers : ~Holds(w, j)
          /\ NoFault
       \/ Fault("visibilityTimeout")
    /\ UNCHANGED <<record, redisVars, inbox, apiVars, workerVars, happened>>

(***************************************************************************)
(* The task: history.py, HistoryTask.__call__ and archive_revoked_task.    *)
(***************************************************************************)

\* The signal handler's errors are logged by Celery, never raised.
ArchiveRevoked(w) ==
    /\ phase[w] = "archiveRevoked"
    /\ \/ /\ task[w] \in credentials
          /\ record' = [record EXCEPT ![task[w]] = "revoked"]
          /\ NoFault
       \/ /\ task[w] \in credentials
          /\ Fault("storeError")
          /\ UNCHANGED record
       \/ /\ task[w] \notin credentials
          /\ NoFault
          /\ UNCHANGED record
    /\ task' = [task EXCEPT ![w] = NoJob]
    /\ WorkTo(w, "idle")
    /\ UNCHANGED <<redisVars, brokerVars, apiVars, revoked, happened>>

Raised(w) == happened' = [happened EXCEPT ![task[w]] = @ \cup {"raised"}]

\* s3_client(job_id): a worker that got a client keeps using it, whatever
\* becomes of the credentials in Redis.
OpenArchive(w) ==
    /\ phase[w] = "opening"
    /\ \/ /\ task[w] \in credentials
          /\ WorkTo(w, "recordStarted")
          /\ UNCHANGED happened
       \/ /\ task[w] \notin credentials
          /\ WorkTo(w, "reportFailure")
          /\ Raised(w)
    /\ NoFault
    /\ UNCHANGED <<record, redisVars, brokerVars, apiVars, task, revoked>>

\* mark_job_time (Redis) runs before persist (S3): either may raise, and an
\* S3 write that raised may still have been applied.
PersistRaises(w, status) ==
    \/ /\ \E applied \in {record[task[w]], status} :
             record' = [record EXCEPT ![task[w]] = applied]
       /\ Fault("storeError")
    \/ /\ Fault("redisError")
       /\ UNCHANGED record

\* This persist runs before the try: its failure is not archived.
RecordStarted(w) ==
    /\ phase[w] = "recordStarted"
    /\ \/ /\ record' = [record EXCEPT ![task[w]] = "started"]
          /\ WorkTo(w, "running")
          /\ NoFault
          /\ UNCHANGED happened
       \/ /\ PersistRaises(w, "started")
          /\ WorkTo(w, "reportFailure")
          /\ Raised(w)
    /\ UNCHANGED <<redisVars, brokerVars, apiVars, task, revoked>>

\* The task body, which reads the job's credentials again to publish outputs:
\* without them it can only fail.
Run(w) ==
    /\ phase[w] = "running"
    /\ \/ /\ task[w] \in credentials
          /\ WorkTo(w, "recordSuccess")
          /\ happened' = [happened EXCEPT ![task[w]] = @ \cup {"completed"}]
       \/ /\ WorkTo(w, "recordFailure")
          /\ Raised(w)
    /\ NoFault
    /\ UNCHANGED <<record, redisVars, brokerVars, apiVars, task, revoked>>

\* Mutant of RecordSuccess: the task returns its result although the archive
\* could not be written.
RecordSuccessIfPossible(w) ==
    /\ phase[w] = "recordSuccess"
    /\ \/ /\ record' = [record EXCEPT ![task[w]] = "success"]
          /\ happened' = [happened EXCEPT ![task[w]] = @ \cup {"archived"}]
          /\ NoFault
       \/ /\ PersistRaises(w, "success")
          /\ UNCHANGED happened
    /\ WorkTo(w, "reportSuccess")
    /\ UNCHANGED <<redisVars, brokerVars, apiVars, task, revoked>>

\* The terminal record, before the task returns or raises. When the archive
\* cannot be written the task raises, so Celery stores FAILURE either way.
RecordSuccess(w) ==
    /\ phase[w] = "recordSuccess"
    /\ \/ /\ record' = [record EXCEPT ![task[w]] = "success"]
          /\ happened' = [happened EXCEPT ![task[w]] = @ \cup {"archived"}]
          /\ WorkTo(w, "reportSuccess")
          /\ NoFault
       \/ /\ PersistRaises(w, "success")
          /\ Raised(w)
          /\ WorkTo(w, "reportFailure")
    /\ UNCHANGED <<redisVars, brokerVars, apiVars, task, revoked>>

\* Mutant of RecordFailure: the exception is archived with the status "success".
RecordFailureAsSuccess(w) ==
    /\ phase[w] = "recordFailure"
    /\ record' = [record EXCEPT ![task[w]] = "success"]
    /\ WorkTo(w, "reportFailure")
    /\ NoFault
    /\ UNCHANGED <<redisVars, brokerVars, apiVars, task, revoked, happened>>

RecordFailure(w) ==
    /\ phase[w] = "recordFailure"
    /\ \/ /\ record' = [record EXCEPT ![task[w]] = "failure"]
          /\ NoFault
       \/ PersistRaises(w, "failure")
    /\ WorkTo(w, "reportFailure")
    /\ UNCHANGED <<redisVars, brokerVars, apiVars, task, revoked, happened>>

(***************************************************************************)
(* What happens to the Redis keys on their own.                            *)
(***************************************************************************)

\* An empty Redis: metadata, results, messages and credentials are gone.
LoseRedis ==
    /\ owner' = {}
    /\ bound' = {}
    /\ credentials' = {}
    /\ backend' = [j \in Jobs |-> "PENDING"]
    /\ message' = [j \in Jobs |-> "none"]
    /\ inbox' = [w \in Workers |-> {}]
    /\ Fault("redisLoss")
    /\ UNCHANGED <<record, apiVars, workerVars, happened>>

\* RESULT_TTL_SECONDS is counted from each key's own write, so they expire one by one.
Expire(j) ==
    /\ \/ /\ j \in owner
          /\ owner' = owner \ {j}
          /\ UNCHANGED <<bound, credentials, backend>>
       \/ /\ j \in bound
          /\ bound' = bound \ {j}
          /\ UNCHANGED <<owner, credentials, backend>>
       \/ /\ j \in credentials
          /\ credentials' = credentials \ {j}
          /\ UNCHANGED <<owner, bound, backend>>
       \/ /\ backend[j] \in {"SUCCESS", "FAILURE", "REVOKED"}
          /\ backend' = [backend EXCEPT ![j] = "PENDING"]
          /\ UNCHANGED <<owner, bound, credentials>>
    /\ Fault("expiry")
    /\ UNCHANGED <<record, brokerVars, apiVars, workerVars, happened>>

Submit(j) ==
    \/ CreateCredentials(j) \/ Prepare(j) \/ TrackOwner(j) \/ BindJob(j) \/ Enqueue(j)
    \/ RecordEnqueueFailure(j) \/ DeleteCredentials(j) \/ UntrackOwner(j)

CancelJob(j) ==
    \/ CancelAuthorize(j) \/ CancelReadRecord(j) \/ CancelReadState(j)
    \/ CancelRevoke(j) \/ CancelMark(j)

Work(w) ==
    \/ \E j \in Jobs : Receive(w, j)
    \/ HearRevocations(w) \/ Discard(w) \/ ArchiveRevoked(w)
    \/ ReportStarted(w) \/ OpenArchive(w) \/ RecordStarted(w) \/ Run(w)
    \/ RecordSuccess(w) \/ RecordFailure(w) \/ ReportResult(w) \/ Acknowledge(w)

Next ==
    \/ \E j \in Jobs :
        \/ Submit(j) \/ AbandonSubmission(j) \/ CancelJob(j) \/ AbandonCancel(j)
        \/ Restore(j) \/ Expire(j)
    \/ \E w \in Workers : Work(w) \/ CrashWorker(w) \/ RestartWorker(w)
    \/ LoseRedis

Spec == Init /\ [][Next]_vars

(***************************************************************************)
(* Scheduling: an API request runs to its end, a worker that is up keeps   *)
(* working, the container runtime restarts one that is down, and the       *)
(* broker's visibility timer runs. Nobody is obliged to submit or cancel.  *)
(***************************************************************************)
Fairness ==
    /\ \A j \in Jobs :
        /\ WF_vars(submission[j] # "new" /\ Submit(j))
        /\ WF_vars(cancel[j] # "none" /\ CancelJob(j))
        /\ WF_vars(Restore(j))
    /\ \A w \in Workers : WF_vars(Work(w)) /\ WF_vars(RestartWorker(w))

FairSpec == Spec /\ Fairness

(***************************************************************************)
(* What the API answers: main.py, get_job_status and list_jobs.            *)
(***************************************************************************)

\* __job_status
LiveStatus(state) ==
    CASE state = "PENDING" -> "queued"
      [] state = "STARTED" -> "started"
      [] state = "SUCCESS" -> "success"
      [] state = "FAILURE" -> "failure"
      [] state = "REVOKED" -> "revoked"

\* Mutant of LiveStateKnown: PENDING, which is also what Celery answers for an
\* unknown job, is believed.
PendingIsKnown(j) == j \in bound

\* A live state is believed when the trusted association is still there.
LiveStateKnown(j) == j \in bound /\ backend[j] # "PENDING"

JobStatus(j) ==
    CASE record[j] \in Terminal -> [status |-> record[j], known |-> TRUE]
      [] record[j] \notin Terminal /\ ~LiveStateKnown(j) -> [status |-> record[j], known |-> FALSE]
      [] OTHER -> [status |-> LiveStatus(backend[j]), known |-> TRUE]

(***************************************************************************)
(* Properties                                                              *)
(***************************************************************************)

\* The job's message exists, or a worker has it in hand.
Outstanding(j) == message[j] # "none" \/ \E w \in Workers : Holds(w, j)

\* The submission failed, or was abandoned, at some point.
Refused(j) == submission[j] \notin {"new", "prepare", "track", "bind", "enqueue", "accepted"}

\* A worker has the job's S3 client, so it can execute the job and archive it.
Executing(j) ==
    \E w \in Workers :
        Holds(w, j) /\ phase[w] \in {"recordStarted", "running", "recordSuccess", "recordFailure"}

\* A job that can execute is in the workspace history (main.py persists the
\* queued record before it enqueues), whatever fails along the way.
RecordPrecedesMessage == \A j \in Jobs : Outstanding(j) => record[j] # "absent"

\* A status GET /jobs/{id} gives as known is what really happened: no stale
\* live state, lost Redis or half-done request turns into an outcome.
KnownStatusIsTrue ==
    \A j \in Jobs :
        LET answer == JobStatus(j) IN
        answer.known =>
            /\ answer.status = "success" => "completed" \in happened[j]
            /\ answer.status = "failure" =>
                 "raised" \in happened[j] \/ Refused(j)
            /\ answer.status = "revoked" => "cancelled" \in happened[j]
            /\ answer.status # "queued"

\* A job that GET /jobs/{id} gives as certainly running has a message or a
\* worker, so somebody will finish it: even after a worker died or Redis came
\* back empty. (A live worker's message must not time out: see the README.)
KnownRunningIsOutstanding ==
    \A j \in Jobs : JobStatus(j) = [status |-> "started", known |-> TRUE] => Outstanding(j)

\* Celery holds a successful result only after the success record was written:
\* an archive failure is never presented as a success (HistoryTask.__call__).
ArchiveBeforeResult == \A j \in Jobs : backend[j] = "SUCCESS" => "archived" \in happened[j]

\* After a clean rejection the submitter's ownership and the credentials are
\* gone, although the message may be in the queue (the routes' finally clause).
RejectionLeavesNoAccess ==
    \A j \in Jobs : submission[j] = "rejected" => j \notin owner /\ j \notin credentials

\* A job whose rejection is complete is never executed, even if apply_async
\* raised after queueing it: no worker can open its archive any more.
RejectedJobNeverStarts ==
    [][\A j \in Jobs : submission[j] = "rejected" /\ ~Executing(j) => ~Executing(j)']_vars

\* A worker never executes a job whose revocation it knows of.
RevocationIsHonoured ==
    \A w \in Workers : phase[w] \in Phases \ {"idle", "received", "archiveRevoked", "down"} =>
        task[w] \notin revoked[w]

\* Every accepted job ends with a terminal record and no message left over,
\* through crashes of its worker and cancellations (not through lost
\* credentials or records that cannot be written: no code repairs those).
AcceptedJobsSettle ==
    \A j \in Jobs :
        submission[j] = "accepted" ~> [](record[j] \in Terminal /\ message[j] = "none")

\* "Only queued jobs can be cancelled" (docker/api/README.md, main.py): a
\* record becomes revoked only from queued.
OnlyQueuedJobsAreCancelled ==
    [][\A j \in Jobs : record'[j] = "revoked" /\ record[j] # "revoked" => record[j] = "queued"]_vars

(***************************************************************************)
(* The durable history, seen through the implementation.                   *)
(***************************************************************************)
History == INSTANCE JobHistory WITH
    refused <- {j \in Jobs : Refused(j)}

\* Every write of jobs/<job_id>/record.json, by the API or a worker, has its
\* reason: an outcome is recorded only if it was reached, a rejection only if
\* the submission failed, and a record never goes back to queued.
ImplementsHistory == History!Spec
=============================================================================
