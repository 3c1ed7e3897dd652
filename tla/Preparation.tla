----------------------------- MODULE Preparation -----------------------------
(***************************************************************************)
(* Preparation runs of the input dataset: their submission and             *)
(* cancellation (dataset_preparations.py), the reservation of the dataset, *)
(* the coordinator task that fans out batches of HUCs and the batch tasks  *)
(* that account for every HUC (tasks.py), all in Redis hashes and sets     *)
(* that several Celery workers update one command at a time.               *)
(*                                                                         *)
(* All runs of an instance prepare the same HUCs; within a batch the order *)
(* is left open. One action is one Redis command, or a group of reads      *)
(* whose interleaving with other processes makes no difference.            *)
(***************************************************************************)
EXTENDS Naturals, FiniteSets

CONSTANTS
    Runs,       \* preparation runs (uuid4, never reused)
    Hucs,       \* the HUCs each run selects
    Batches,    \* how they are batched: a partition of Hucs
    Workers,    \* Celery workers (solo pool)
    NoRun, NoTask, NoHuc,
    Cancellable, \* the runs whose submitter may cancel them
    Faults,     \* the kinds of fault this instance admits
    MaxFaults   \* bound on the number of faults in a behaviour, each of another kind

FaultKinds == {
    "redisError",        \* a Redis command raises
    "ambiguousStore",    \* the run's MULTI/EXEC raises although it was applied
    "sendError",         \* send_task raises and no message was queued
    "ambiguousSend",     \* send_task raises although the message was queued
    "partialGroup",      \* group.apply_async raises, some or all batches are queued
    "apiCrash",          \* the API process stops during a submission
    "cancelCrash",       \* the API process stops, or Redis raises, during a cancellation
    "workerCrash",       \* a worker is killed and restarted
    "visibilityTimeout", \* the broker redelivers what a live worker still works on
    "expiry"}            \* the reservation reaches its time to live

ASSUME PreparationAssumption ==
    /\ IsFiniteSet(Hucs) /\ Hucs # {}
    /\ Batches \subseteq (SUBSET Hucs) \ {{}}
    /\ UNION Batches = Hucs
    /\ \A b, c \in Batches : b # c => b \cap c = {}
    /\ NoRun \notin Runs
    /\ NoHuc \notin Hucs
    /\ Cancellable \subseteq Runs
    /\ Faults \subseteq FaultKinds
    /\ MaxFaults \in Nat

\* A message names the run and the batch; the coordinator's carries no batch.
Coordinator == {}
Tasks == Runs \X (Batches \cup {Coordinator})
ASSUME TaskAssumption == NoTask \notin Tasks

VARIABLES
    reservation, \* Redis: the run that the destination key names
    status,      \* Redis: status in the state hash
    total,       \* Redis: the runs whose total_hucs is set
    failed,      \* Redis: the set of failed HUCs of each run
    finished,    \* Redis: the set of finished HUCs of each run
    submission,  \* progress of submit
    cancelling,  \* progress of cancel
    revoked,     \* runs whose coordinator task was revoked
    ready,       \* messages in the queue, by task
    unacked,     \* messages delivered and not acknowledged, by task
    phase,       \* what each worker is doing
    task,        \* the task each worker holds
    todo,        \* HUCs that a worker's task has not dealt with yet
    huc,         \* the HUC a worker is at
    broken,      \* workers whose batch could not get its S3 clients
    prepared,    \* history variable: HUCs each run really published
    faults       \* history variable: the kinds of fault so far

accounting == <<total, failed, finished>>
redisVars  == <<reservation, status, accounting>>
apiVars    == <<submission, cancelling, revoked>>
brokerVars == <<ready, unacked>>
workerVars == <<phase, task, todo, huc, broken>>
vars == <<redisVars, apiVars, brokerVars, workerVars, prepared, faults>>

Statuses == {"none", "queued", "running", "completed", "failed", "cancelled"}
Submissions == {"new", "store", "send", "recordFailure", "release", "accepted", "refused", "lost"}

\* Inside prepare_dataset's try: an exception is passed to mark_failed.
Coordinating == {"discover", "confirm", "markCheck", "markRunning", "sendBatches"}

Phases ==
    Coordinating \cup
    {"idle", "begin", "failCheck", "failSet", "failRelease",
     "open", "next", "prepare", "removeFailed", "addFailed",
     "failureCheck", "failureSet", "addFinished", "decide", "judge",
     "concludeCompleted", "concludeFailed", "release", "acknowledge"}

TypeOK ==
    /\ reservation \in Runs \cup {NoRun}
    /\ status \in [Runs -> Statuses]
    /\ total \subseteq Runs
    /\ failed \in [Runs -> SUBSET Hucs]
    /\ finished \in [Runs -> SUBSET Hucs]
    /\ submission \in [Runs -> Submissions]
    /\ cancelling \in [Runs -> {"none", "set", "checkHolder", "release", "revoke"}]
    /\ revoked \subseteq Runs
    /\ ready \in [Tasks -> Nat]
    /\ unacked \in [Tasks -> Nat]
    /\ phase \in [Workers -> Phases]
    /\ task \in [Workers -> Tasks \cup {NoTask}]
    /\ todo \in [Workers -> SUBSET Hucs]
    /\ huc \in [Workers -> Hucs \cup {NoHuc}]
    /\ broken \subseteq Workers
    /\ prepared \in [Runs -> SUBSET Hucs]
    /\ faults \subseteq Faults

Init ==
    /\ reservation = NoRun
    /\ status = [r \in Runs |-> "none"]
    /\ total = {}
    /\ failed = [r \in Runs |-> {}]
    /\ finished = [r \in Runs |-> {}]
    /\ submission = [r \in Runs |-> "new"]
    /\ cancelling = [r \in Runs |-> "none"]
    /\ revoked = {}
    /\ ready = [t \in Tasks |-> 0]
    /\ unacked = [t \in Tasks |-> 0]
    /\ phase = [w \in Workers |-> "idle"]
    /\ task = [w \in Workers |-> NoTask]
    /\ todo = [w \in Workers |-> {}]
    /\ huc = [w \in Workers |-> NoHuc]
    /\ broken = {}
    /\ prepared = [r \in Runs |-> {}]
    /\ faults = {}

Fault(f) ==
    /\ f \in Faults \ faults
    /\ Cardinality(faults) < MaxFaults
    /\ faults' = faults \cup {f}

NoFault == UNCHANGED faults

SetStatus(r, s) == status' = [status EXCEPT ![r] = s]
Release == reservation' = NoRun
Send(t) == ready' = [ready EXCEPT ![t] = @ + 1]

(***************************************************************************)
(* submit: reserve the dataset, store the run, queue the coordinator.      *)
(***************************************************************************)
SubmitTo(r, step) == submission' = [submission EXCEPT ![r] = step]

\* Mutant of Reserve: SET without NX.
ReserveAnyway(r) ==
    /\ submission[r] = "new"
    /\ reservation' = r
    /\ SubmitTo(r, "store")
    /\ NoFault
    /\ UNCHANGED <<status, accounting, cancelling, revoked, brokerVars, workerVars, prepared>>

\* SET NX; while the key is there the request is refused and changes nothing.
Reserve(r) ==
    /\ submission[r] = "new"
    /\ reservation = NoRun
    /\ reservation' = r
    /\ SubmitTo(r, "store")
    /\ NoFault
    /\ UNCHANGED <<status, accounting, cancelling, revoked, brokerVars, workerVars, prepared>>

StoreRun(r) ==
    /\ submission[r] = "store"
    /\ \/ /\ SetStatus(r, "queued")
          /\ SubmitTo(r, "send")
          /\ NoFault
       \/ /\ SubmitTo(r, "release")
          /\ Fault("redisError")
          /\ UNCHANGED status
       \/ /\ SetStatus(r, "queued")
          /\ SubmitTo(r, "release")
          /\ Fault("ambiguousStore")
    /\ UNCHANGED <<reservation, accounting, cancelling, revoked, brokerVars, workerVars, prepared>>

SendCoordinator(r) ==
    /\ submission[r] = "send"
    /\ \/ /\ Send(<<r, Coordinator>>)
          /\ SubmitTo(r, "accepted")
          /\ NoFault
       \/ /\ Send(<<r, Coordinator>>)
          /\ SubmitTo(r, "recordFailure")
          /\ Fault("ambiguousSend")
       \/ /\ SubmitTo(r, "recordFailure")
          /\ Fault("sendError")
          /\ UNCHANGED ready
    /\ UNCHANGED <<redisVars, cancelling, revoked, unacked, workerVars, prepared>>

RecordSendFailure(r) ==
    /\ submission[r] = "recordFailure"
    /\ SetStatus(r, "failed")
    /\ SubmitTo(r, "release")
    /\ NoFault
    /\ UNCHANGED <<reservation, accounting, cancelling, revoked, brokerVars, workerVars, prepared>>

\* client.delete(destination_key), whoever holds the reservation by now.
ReleaseAfterError(r) ==
    /\ submission[r] = "release"
    /\ Release
    /\ SubmitTo(r, "refused")
    /\ NoFault
    /\ UNCHANGED <<status, accounting, cancelling, revoked, brokerVars, workerVars, prepared>>

AbandonSubmission(r) ==
    /\ submission[r] \notin {"new", "accepted", "refused", "lost"}
    /\ SubmitTo(r, "lost")
    /\ Fault("apiCrash")
    /\ UNCHANGED <<redisVars, cancelling, revoked, brokerVars, workerVars, prepared>>

(***************************************************************************)
(* cancel: the status is read, then overwritten.                           *)
(***************************************************************************)
CancelTo(r, step) == cancelling' = [cancelling EXCEPT ![r] = step]

CancelRead(r) ==
    /\ r \in Cancellable
    /\ submission[r] = "accepted"
    /\ cancelling[r] = "none"
    /\ status[r] \in {"queued", "running"}
    /\ CancelTo(r, "set")
    /\ NoFault
    /\ UNCHANGED <<redisVars, submission, revoked, brokerVars, workerVars, prepared>>

CancelSet(r) ==
    /\ cancelling[r] = "set"
    /\ SetStatus(r, "cancelled")
    /\ CancelTo(r, "checkHolder")
    /\ NoFault
    /\ UNCHANGED <<reservation, accounting, submission, revoked, brokerVars, workerVars, prepared>>

CancelCheckHolder(r) ==
    /\ cancelling[r] = "checkHolder"
    /\ CancelTo(r, IF reservation = r THEN "release" ELSE "revoke")
    /\ NoFault
    /\ UNCHANGED <<redisVars, submission, revoked, brokerVars, workerVars, prepared>>

CancelRelease(r) ==
    /\ cancelling[r] = "release"
    /\ Release
    /\ CancelTo(r, "revoke")
    /\ NoFault
    /\ UNCHANGED <<status, accounting, submission, revoked, brokerVars, workerVars, prepared>>

CancelRevoke(r) ==
    /\ cancelling[r] = "revoke"
    /\ revoked' = revoked \cup {r}
    /\ CancelTo(r, "none")
    /\ NoFault
    /\ UNCHANGED <<redisVars, submission, brokerVars, workerVars, prepared>>

\* The API stops, or Redis raises: nothing undoes the steps already taken.
AbandonCancel(r) ==
    /\ cancelling[r] # "none"
    /\ CancelTo(r, "none")
    /\ Fault("cancelCrash")
    /\ UNCHANGED <<redisVars, submission, revoked, brokerVars, workerVars, prepared>>

(***************************************************************************)
(* The broker and the worker processes (external, set by celery_app.py).   *)
(***************************************************************************)
Run(w) == task[w][1]
IsCancelled(w) == status[Run(w)] = "cancelled"
WorkTo(w, step) == phase' = [phase EXCEPT ![w] = step]
Holders(t) == {w \in Workers : task[w] = t}

\* A step that only reads: the worker goes on, and nothing else changes.
Look(w, step, next) ==
    /\ phase[w] = step
    /\ WorkTo(w, next)
    /\ NoFault
    /\ UNCHANGED <<redisVars, apiVars, brokerVars, task, todo, huc, broken, prepared>>

\* __set_state
SetState(w, step, s, next) ==
    /\ phase[w] = step
    /\ SetStatus(Run(w), s)
    /\ WorkTo(w, next)
    /\ NoFault
    /\ UNCHANGED <<reservation, accounting, apiVars, brokerVars, task, todo, huc, broken, prepared>>

\* client.delete(destination key), whoever holds the reservation by now.
DeleteReservation(w, step, next) ==
    /\ phase[w] = step
    /\ Release
    /\ WorkTo(w, next)
    /\ NoFault
    /\ UNCHANGED <<status, accounting, apiVars, brokerVars, task, todo, huc, broken, prepared>>

\* Mutant of Receive: early acknowledgement (without task_acks_late).
ReceiveAcknowledging(w, t) ==
    /\ phase[w] = "idle"
    /\ ready[t] > 0
    /\ ready' = [ready EXCEPT ![t] = @ - 1]
    /\ task' = [task EXCEPT ![w] = t]
    /\ todo' = [todo EXCEPT ![w] = t[2]]
    /\ WorkTo(w, "begin")
    /\ NoFault
    /\ UNCHANGED <<redisVars, apiVars, unacked, huc, broken, prepared>>

Receive(w, t) ==
    /\ phase[w] = "idle"
    /\ ready[t] > 0
    /\ ready' = [ready EXCEPT ![t] = @ - 1]
    /\ unacked' = [unacked EXCEPT ![t] = @ + 1]
    /\ task' = [task EXCEPT ![w] = t]
    /\ todo' = [todo EXCEPT ![w] = t[2]]
    /\ WorkTo(w, "begin")
    /\ NoFault
    /\ UNCHANGED <<redisVars, apiVars, huc, broken, prepared>>

\* The revocation reaches a worker by broadcast, in time or not.
Discard(w) ==
    /\ Look(w, "begin", "acknowledge")
    /\ task[w][2] = Coordinator
    /\ Run(w) \in revoked

\* What a worker is left with when it gives up its task.
DropTask(w) ==
    /\ task' = [task EXCEPT ![w] = NoTask]
    /\ todo' = [todo EXCEPT ![w] = {}]
    /\ huc' = [huc EXCEPT ![w] = NoHuc]
    /\ broken' = broken \ {w}
    /\ WorkTo(w, "idle")

\* Mutant of Acknowledge: the message is taken for unacknowledged although it
\* may have been restored.
AcknowledgeTwice(w) ==
    /\ phase[w] = "acknowledge"
    /\ unacked' = [unacked EXCEPT ![task[w]] = @ - 1]
    /\ DropTask(w)
    /\ NoFault
    /\ UNCHANGED <<redisVars, apiVars, ready, prepared>>

\* Also after an exception: acks_late acknowledges failed tasks. A message
\* that was restored to the queue in the meantime stays there.
Acknowledge(w) ==
    /\ phase[w] = "acknowledge"
    /\ unacked' = [unacked EXCEPT ![task[w]] = IF @ > 0 THEN @ - 1 ELSE @]
    /\ DropTask(w)
    /\ NoFault
    /\ UNCHANGED <<redisVars, apiVars, ready, prepared>>

CrashWorker(w) ==
    /\ phase[w] # "idle"
    /\ DropTask(w)
    /\ Fault("workerCrash")
    /\ UNCHANGED <<redisVars, apiVars, brokerVars, prepared>>

\* A delivered message that no worker holds goes back to the queue; one that
\* a worker holds does when it works longer than the visibility timeout.
Restore(t) ==
    /\ unacked[t] > 0
    /\ unacked' = [unacked EXCEPT ![t] = @ - 1]
    /\ Send(t)
    /\ \/ /\ unacked[t] > Cardinality(Holders(t))
          /\ NoFault
       \/ Fault("visibilityTimeout")
    /\ UNCHANGED <<redisVars, apiVars, workerVars, prepared>>

\* A Redis command raises, having been applied (a step later) or not.
TaskRaises(w) ==
    /\ phase[w] \notin {"idle", "acknowledge", "prepare", "sendBatches"}
    /\ WorkTo(w, IF phase[w] \in Coordinating THEN "failCheck" ELSE "acknowledge")
    /\ Fault("redisError")
    /\ UNCHANGED <<redisVars, apiVars, brokerVars, task, todo, huc, broken, prepared>>

(***************************************************************************)
(* prepare_dataset, the coordinator.                                       *)
(***************************************************************************)

\* The first statement of both tasks.
Begin(w) ==
    Look(w, "begin", CASE IsCancelled(w) -> "acknowledge"
                       [] ~IsCancelled(w) /\ task[w][2] = Coordinator -> "discover"
                       [] OTHER -> "open")

\* List and select the HUCs, initialize the collection in S3; it may raise.
Discover(w) == \E next \in {"confirm", "failCheck"} : Look(w, "discover", next)

Confirm(w) == Look(w, "confirm", IF IsCancelled(w) THEN "acknowledge" ELSE "markCheck")

\* mark_running looks again; if the run was cancelled just now the batches
\* are queued all the same.
MarkRunningCheck(w) ==
    /\ phase[w] = "markCheck"
    /\ WorkTo(w, IF IsCancelled(w) THEN "sendBatches" ELSE "markRunning")
    /\ todo' = [todo EXCEPT ![w] = Hucs]
    /\ NoFault
    /\ UNCHANGED <<redisVars, apiVars, brokerVars, task, huc, broken, prepared>>

MarkRunning(w) ==
    /\ phase[w] = "markRunning"
    /\ SetStatus(Run(w), "running")
    /\ total' = total \cup {Run(w)}
    /\ WorkTo(w, "sendBatches")
    /\ NoFault
    /\ UNCHANGED <<reservation, failed, finished, apiVars, brokerVars,
                   task, todo, huc, broken, prepared>>

\* group(...).apply_async() queues the batches one by one.
QueueBatch(w, b) ==
    /\ phase[w] = "sendBatches"
    /\ b \subseteq todo[w]
    /\ Send(<<Run(w), b>>)
    /\ todo' = [todo EXCEPT ![w] = @ \ b]

SendBatch(w, b) ==
    /\ QueueBatch(w, b)
    /\ WorkTo(w, IF b = todo[w] THEN "acknowledge" ELSE "sendBatches")
    /\ NoFault
    /\ UNCHANGED <<redisVars, apiVars, unacked, task, huc, broken, prepared>>

\* It raises before the next batch is queued, or although it was.
SendRaises(w) ==
    /\ phase[w] = "sendBatches"
    /\ \/ \E b \in Batches : QueueBatch(w, b)
       \/ UNCHANGED <<ready, todo>>
    /\ WorkTo(w, "failCheck")
    /\ Fault("partialGroup")
    /\ UNCHANGED <<redisVars, apiVars, unacked, task, huc, broken, prepared>>

\* mark_failed
FailCheck(w) == Look(w, "failCheck", IF IsCancelled(w) THEN "acknowledge" ELSE "failSet")
FailSet(w) == SetState(w, "failSet", "failed", "failRelease")
FailRelease(w) == DeleteReservation(w, "failRelease", "acknowledge")

(***************************************************************************)
(* prepare_dataset_batch.                                                  *)
(***************************************************************************)

\* Without its S3 clients the batch marks every HUC as failed, then raises.
Open(w) ==
    /\ phase[w] = "open"
    /\ broken' \in {broken, broken \cup {w}}
    /\ WorkTo(w, "next")
    /\ NoFault
    /\ UNCHANGED <<redisVars, apiVars, brokerVars, task, todo, huc, prepared>>

NextHuc(w) ==
    /\ phase[w] = "next"
    /\ \/ /\ todo[w] = {} \/ (w \notin broken /\ IsCancelled(w))
          /\ WorkTo(w, "acknowledge")
          /\ UNCHANGED <<todo, huc>>
       \/ /\ w \in broken \/ ~IsCancelled(w)
          /\ \E h \in todo[w] :
                /\ huc' = [huc EXCEPT ![w] = h]
                /\ todo' = [todo EXCEPT ![w] = @ \ {h}]
          /\ WorkTo(w, IF w \in broken THEN "addFailed" ELSE "prepare")
    /\ NoFault
    /\ UNCHANGED <<redisVars, apiVars, brokerVars, task, broken, prepared>>

\* collection.prepare_single_huc publishes the HUC, or raises.
PrepareHuc(w) ==
    /\ phase[w] = "prepare"
    /\ \/ /\ prepared' = [prepared EXCEPT ![Run(w)] = @ \cup {huc[w]}]
          /\ WorkTo(w, "removeFailed")
       \/ /\ WorkTo(w, "addFailed")
          /\ UNCHANGED prepared
    /\ NoFault
    /\ UNCHANGED <<redisVars, apiVars, brokerVars, task, todo, huc, broken>>

\* mark_huc_complete. (The set of completed HUCs is only counted for display.)
RemoveFailed(w) ==
    /\ phase[w] = "removeFailed"
    /\ failed' = [failed EXCEPT ![Run(w)] = @ \ {huc[w]}]
    /\ WorkTo(w, "addFinished")
    /\ NoFault
    /\ UNCHANGED <<reservation, status, total, finished, apiVars, brokerVars,
                   task, todo, huc, broken, prepared>>

\* Mutant of AddFailed: only the status tells that the HUC failed.
AddFailedNowhere(w) == Look(w, "addFailed", "failureCheck")

\* mark_huc_failed
AddFailed(w) ==
    /\ phase[w] = "addFailed"
    /\ failed' = [failed EXCEPT ![Run(w)] = @ \cup {huc[w]}]
    /\ WorkTo(w, "failureCheck")
    /\ NoFault
    /\ UNCHANGED <<reservation, status, total, finished, apiVars, brokerVars,
                   task, todo, huc, broken, prepared>>

FailureCheck(w) == Look(w, "failureCheck", IF IsCancelled(w) THEN "addFinished" ELSE "failureSet")
FailureSet(w) == SetState(w, "failureSet", "failed", "addFinished")

\* __mark_huc_finished
AddFinished(w) ==
    /\ phase[w] = "addFinished"
    /\ finished' = [finished EXCEPT ![Run(w)] = @ \cup {huc[w]}]
    /\ WorkTo(w, "decide")
    /\ NoFault
    /\ UNCHANGED <<reservation, status, total, failed, apiVars, brokerVars,
                   task, todo, huc, broken, prepared>>

\* Mutant of Decide: the last HUC but one decides.
DecideEarly(w) ==
    Look(w, "decide", IF /\ ~IsCancelled(w)
                         /\ Run(w) \in total
                         /\ Cardinality(finished[Run(w)]) + 1 >= Cardinality(Hucs)
                      THEN "judge" ELSE "next")

\* The last HUC to finish decides; several may believe they are the last.
Decide(w) ==
    Look(w, "decide", IF /\ ~IsCancelled(w)
                         /\ Run(w) \in total
                         /\ Cardinality(finished[Run(w)]) >= Cardinality(Hucs)
                      THEN "judge" ELSE "next")

\* Mutant of Judge: the last HUC's run is complete, without a look at failures.
JudgeByCount(w) == Look(w, "judge", "concludeCompleted")

Judge(w) == Look(w, "judge", IF failed[Run(w)] = {} THEN "concludeCompleted" ELSE "concludeFailed")

Conclude(w) ==
    \/ SetState(w, "concludeCompleted", "completed", "release")
    \/ SetState(w, "concludeFailed", "failed", "release")

ReleaseAfterLast(w) == DeleteReservation(w, "release", "next")

Expire ==
    /\ reservation # NoRun
    /\ Release
    /\ Fault("expiry")
    /\ UNCHANGED <<status, accounting, apiVars, brokerVars, workerVars, prepared>>

Submit(r) ==
    \/ Reserve(r) \/ StoreRun(r) \/ SendCoordinator(r)
    \/ RecordSendFailure(r) \/ ReleaseAfterError(r)

Cancel(r) ==
    \/ CancelRead(r) \/ CancelSet(r) \/ CancelCheckHolder(r)
    \/ CancelRelease(r) \/ CancelRevoke(r)

Coordinate(w) ==
    \/ Discover(w) \/ Confirm(w) \/ MarkRunningCheck(w) \/ MarkRunning(w)
    \/ \E b \in Batches : SendBatch(w, b)
    \/ FailCheck(w) \/ FailSet(w) \/ FailRelease(w)

Prepare(w) ==
    \/ Open(w) \/ NextHuc(w) \/ PrepareHuc(w)
    \/ RemoveFailed(w) \/ AddFailed(w) \/ FailureCheck(w) \/ FailureSet(w)
    \/ AddFinished(w) \/ Decide(w) \/ Judge(w) \/ Conclude(w) \/ ReleaseAfterLast(w)

Work(w) ==
    \/ \E t \in Tasks : Receive(w, t)
    \/ Begin(w) \/ Coordinate(w) \/ Prepare(w) \/ Acknowledge(w)

Next ==
    \/ \E r \in Runs : Submit(r) \/ AbandonSubmission(r) \/ Cancel(r) \/ AbandonCancel(r)
    \/ \E w \in Workers :
        Work(w) \/ Discard(w) \/ TaskRaises(w) \/ SendRaises(w) \/ CrashWorker(w)
    \/ \E t \in Tasks : Restore(t)
    \/ Expire

Spec == Init /\ [][Next]_vars

(***************************************************************************)
(* Scheduling: requests under way go on, workers that are up keep working, *)
(* a message that no worker holds is restored in the end.                  *)
(***************************************************************************)
Fairness ==
    /\ \A r \in Runs :
        /\ WF_vars(submission[r] # "new" /\ Submit(r))
        /\ WF_vars(cancelling[r] # "none" /\ Cancel(r))
    /\ \A w \in Workers : WF_vars(Work(w))
    /\ \A t \in Tasks : WF_vars(Restore(t))

FairSpec == Spec /\ Fairness

(***************************************************************************)
(* Properties                                                              *)
(***************************************************************************)
Active(r) == status[r] \in {"queued", "running"}

\* No message of the run is left, and no worker has one in hand.
Quiescent(r) ==
    /\ submission[r] = "accepted"
    /\ \A t \in Tasks : t[1] = r => ready[t] = 0 /\ unacked[t] = 0 /\ Holders(t) = {}

\* A run is shown as completed only if it published every HUC it selected,
\* whatever was redelivered, cancelled or lost along the way
\* (__mark_huc_finished).
CompletedMeansPrepared == \A r \in Runs : status[r] = "completed" => prepared[r] = Hucs

\* When the last batch of a run is over, the run has one of its two outcomes,
\* and it is "completed" exactly if it published every HUC, in whatever order
\* its batches finished on several workers (when no fault and no cancellation
\* disturbed it).
OutcomeIsDecided ==
    \A r \in Runs :
        Quiescent(r) /\ r \in total /\ faults = {} /\ cancelling[r] = "none" /\ r \notin revoked =>
            status[r] = IF prepared[r] = Hucs THEN "completed" ELSE "failed"

\* "One run per input dataset at a time." (docker/api/README.md)
OneRunAtATime == \A r, s \in Runs : Active(r) /\ Active(s) => r = s

\* A run that is shown as active, or that publishes a HUC although it is not:
\* a failed HUC ends a run's status and not its work.
AtWork(r) == Active(r) \/ \E w \in Workers : phase[w] = "prepare" /\ Run(w) = r

\* What undoes the reservation: several batches that end on several workers,
\* a cancellation, and the faults that repeat a command, or that report one as
\* failed that was carried out.
ParallelBatches == /\ \E v, w \in Workers : v # w
                   /\ \E b, c \in Batches : b # c
Cancelled == revoked # {} \/ \E r \in Runs : cancelling[r] # "none"
HarmlessFaults == {"redisError", "sendError", "apiCrash"}

\* The dataset has two runs at work only if one of these came first: no request
\* refused, abandoned or failed at a Redis command, and no task that raises,
\* lets a second run in while the first may still write (submit, mark_failed,
\* __mark_huc_finished).
OverlapHasACause ==
    (\E r, s \in Runs : r # s /\ AtWork(r) /\ AtWork(s)) =>
        ParallelBatches \/ Cancelled \/ ~(faults \subseteq HarmlessFaults)

\* An accepted run that nobody cancels comes to an end and gives the dataset
\* free, through worker crashes and redelivered tasks.
RunsSettle ==
    \A r \in Runs : submission[r] = "accepted" ~> (~Active(r) /\ reservation # r)
=============================================================================
