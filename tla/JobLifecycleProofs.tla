------------------------- MODULE JobLifecycleProofs -------------------------
(***************************************************************************)
(* Proofs about JobLifecycle, for any jobs, workers, faults and fault      *)
(* bound. Every safety property follows from one inductive invariant,      *)
(* IInv: the worker that is about to record or report an outcome, the      *)
(* revocations on their way and the result backend each carry a reason,    *)
(* and a submission that reached the queue left a record behind.           *)
(***************************************************************************)
EXTENDS JobLifecycle, TLAPS

\* Exactly the workers that are idle or down hold no job.
HoldsOK ==
    \A w \in Workers : IF phase[w] \in {"idle", "down"} THEN task[w] = NoJob ELSE task[w] \in Jobs

Typed == TypeOK /\ HoldsOK

\* Past Prepare the record exists, so it exists when the message does, or
\* when somebody may cancel the job; before Prepare it does not.
HasRecord ==
    \A j \in Jobs :
        /\ \/ submission[j] \in {"track", "bind", "enqueue", "accepted", "recordFailure"}
           \/ j \in owner
           \/ cancel[j] # "none"
           \/ Outstanding(j)
           => record[j] # "absent"
        /\ submission[j] \in {"new", "prepare"} => record[j] = "absent"

\* Each step of the rejection removes what it is named after, for good.
NoAccess ==
    \A j \in Jobs :
        /\ submission[j] \in {"untrack", "rejected"} => j \notin credentials
        /\ submission[j] = "rejected" => j \notin owner

\* What a worker is about to write is what happened to its job.
WorkerTruth ==
    \A w \in Workers :
        /\ phase[w] = "recordSuccess" => "completed" \in happened[task[w]]
        /\ phase[w] = "reportSuccess" => {"completed", "archived"} \subseteq happened[task[w]]
        /\ phase[w] \in {"recordFailure", "reportFailure"} => "raised" \in happened[task[w]]
        /\ phase[w] = "archiveRevoked" => "cancelled" \in happened[task[w]]

\* A revocation on its way, or remembered, was asked for.
RevokeTruth ==
    /\ \A w \in Workers : \A j \in inbox[w] \cup revoked[w] : "cancelled" \in happened[j]
    /\ \A j \in Jobs : cancel[j] = "mark" => "cancelled" \in happened[j]

BackendTruth ==
    \A j \in Jobs :
        /\ backend[j] = "SUCCESS" => {"completed", "archived"} \subseteq happened[j]
        /\ backend[j] = "FAILURE" => "raised" \in happened[j]
        /\ backend[j] = "REVOKED" => "cancelled" \in happened[j]

RecordTruth ==
    \A j \in Jobs :
        /\ record[j] = "success" => "completed" \in happened[j]
        /\ record[j] = "failure" => "raised" \in happened[j] \/ Refused(j)
        /\ record[j] = "revoked" => "cancelled" \in happened[j]

IInv ==
    /\ Typed
    /\ HasRecord
    /\ NoAccess
    /\ WorkerTruth
    /\ RevokeTruth
    /\ BackendTruth
    /\ RecordTruth
    /\ RevocationIsHonoured

\* While no live worker's message times out, a job has one holder at a time;
\* as long as its association with the workspace has not been lost since it was
\* bound, its message is in the broker until the holder acknowledges it.
BeforeEnqueue == {"new", "prepare", "track", "bind", "enqueue"}
Settled == {"archiveRevoked", "acknowledge"}

Custody ==
    /\ \A j \in Jobs : submission[j] \in BeforeEnqueue => ~Outstanding(j) /\ backend[j] # "STARTED"
    /\ \A j \in Jobs, v, w \in Workers : Holds(v, j) /\ Holds(w, j) => v = w
    /\ \A j \in Jobs : message[j] = "ready" => \A w \in Workers : ~Holds(w, j)
    /\ \A j \in Jobs, w \in Workers :
          Holds(w, j) /\ j \in bound /\ phase[w] \notin Settled => message[j] # "none"
    /\ \A j \in Jobs, w \in Workers :
          Holds(w, j) /\ phase[w] \in Settled => backend[j] # "STARTED"
    /\ \A j \in Jobs : backend[j] = "STARTED" /\ j \in bound => Outstanding(j)

-----------------------------------------------------------------------------
(* Typing. *)

\* Every action keeps the variables in their types and idle workers empty.
LEMMA TypedStep == ASSUME Typed, [Next]_vars PROVE Typed'
<1> USE LifecycleAssumption
    DEF Typed, TypeOK, HoldsOK, Records, Terminal, States, Submissions, Phases,
        SubmitTo, CancelTo, WorkTo, NoFault, Fault, Store, Acknowledged, Raised, Holds,
        PersistRaises, redisVars, brokerVars, apiVars, workerVars
<1>0. CASE UNCHANGED vars
    BY <1>0 DEF vars
<1>1. ASSUME NEW j \in Jobs, CreateCredentials(j) PROVE Typed'
    BY <1>1 DEF CreateCredentials
<1>2. ASSUME NEW j \in Jobs, Prepare(j) PROVE Typed'
    BY <1>2 DEF Prepare
<1>3. ASSUME NEW j \in Jobs, TrackOwner(j) PROVE Typed'
    BY <1>3 DEF TrackOwner
<1>4. ASSUME NEW j \in Jobs, BindJob(j) PROVE Typed'
    BY <1>4 DEF BindJob
<1>5. ASSUME NEW j \in Jobs, Enqueue(j) PROVE Typed'
    BY <1>5 DEF Enqueue
<1>6. ASSUME NEW j \in Jobs, RecordEnqueueFailure(j) PROVE Typed'
    BY <1>6 DEF RecordEnqueueFailure
<1>7. ASSUME NEW j \in Jobs, DeleteCredentials(j) PROVE Typed'
    BY <1>7 DEF DeleteCredentials
<1>8. ASSUME NEW j \in Jobs, UntrackOwner(j) PROVE Typed'
    BY <1>8 DEF UntrackOwner
<1>9. ASSUME NEW j \in Jobs, AbandonSubmission(j) PROVE Typed'
    BY <1>9 DEF AbandonSubmission
<1>10. ASSUME NEW j \in Jobs, CancelAuthorize(j) PROVE Typed'
    BY <1>10 DEF CancelAuthorize
<1>11. ASSUME NEW j \in Jobs, CancelReadRecord(j) PROVE Typed'
    BY <1>11 DEF CancelReadRecord
<1>12. ASSUME NEW j \in Jobs, CancelReadState(j) PROVE Typed'
    BY <1>12 DEF CancelReadState
<1>13. ASSUME NEW j \in Jobs, CancelRevoke(j) PROVE Typed'
    BY <1>13 DEF CancelRevoke
<1>14. ASSUME NEW j \in Jobs, CancelMark(j) PROVE Typed'
    BY <1>14 DEF CancelMark
<1>15. ASSUME NEW j \in Jobs, AbandonCancel(j) PROVE Typed'
    BY <1>15 DEF AbandonCancel
<1>16. ASSUME NEW j \in Jobs, Restore(j) PROVE Typed'
    BY <1>16 DEF Restore
<1>17. ASSUME NEW j \in Jobs, Expire(j) PROVE Typed'
    BY <1>17 DEF Expire
<1>18. ASSUME NEW w \in Workers, NEW j \in Jobs, Receive(w, j) PROVE Typed'
    BY <1>18 DEF Receive
<1>19. ASSUME NEW w \in Workers, HearRevocations(w) PROVE Typed'
    BY <1>19 DEF HearRevocations
<1>20. ASSUME NEW w \in Workers, Discard(w) PROVE Typed'
    BY <1>20 DEF Discard
<1>21. ASSUME NEW w \in Workers, ArchiveRevoked(w) PROVE Typed'
    BY <1>21 DEF ArchiveRevoked
<1>22. ASSUME NEW w \in Workers, ReportStarted(w) PROVE Typed'
    BY <1>22 DEF ReportStarted
<1>23. ASSUME NEW w \in Workers, OpenArchive(w) PROVE Typed'
    BY <1>23 DEF OpenArchive
<1>24. ASSUME NEW w \in Workers, RecordStarted(w) PROVE Typed'
    BY <1>24 DEF RecordStarted
<1>25. ASSUME NEW w \in Workers, Run(w) PROVE Typed'
    BY <1>25 DEF Run
<1>26. ASSUME NEW w \in Workers, RecordSuccess(w) PROVE Typed'
    BY <1>26 DEF RecordSuccess
<1>27. ASSUME NEW w \in Workers, RecordFailure(w) PROVE Typed'
    BY <1>27 DEF RecordFailure
<1>28. ASSUME NEW w \in Workers, ReportResult(w) PROVE Typed'
    BY <1>28 DEF ReportResult
<1>29. ASSUME NEW w \in Workers, Acknowledge(w) PROVE Typed'
    BY <1>29 DEF Acknowledge
<1>30. ASSUME NEW w \in Workers, CrashWorker(w) PROVE Typed'
    BY <1>30 DEF CrashWorker
<1>31. ASSUME NEW w \in Workers, RestartWorker(w) PROVE Typed'
    BY <1>31 DEF RestartWorker
<1>32. CASE LoseRedis
    BY <1>32 DEF LoseRedis
<1> QED
    BY <1>0, <1>1, <1>2, <1>3, <1>4, <1>5, <1>6, <1>7, <1>8, <1>9, <1>10, <1>11, <1>12, <1>13, <1>14, <1>15, <1>16, <1>17, <1>18, <1>19, <1>20, <1>21, <1>22, <1>23, <1>24, <1>25, <1>26, <1>27, <1>28, <1>29, <1>30, <1>31, <1>32 DEF Next, Submit, CancelJob, Work

\* The type invariant holds in every reachable state.
THEOREM TypeCorrect == Spec => []TypeOK
<1>1. Init => Typed
    BY LifecycleAssumption
    DEF Init, Typed, TypeOK, HoldsOK, Records, States, Submissions, Phases
<1>2. Typed /\ [Next]_vars => Typed'
    BY TypedStep
<1>3. Typed => TypeOK
    BY DEF Typed
<1> QED
    BY <1>1, <1>2, <1>3, PTL DEF Spec

-----------------------------------------------------------------------------
(* The inductive invariant. *)

\* Every action preserves the inductive invariant.
LEMMA InductiveStep == ASSUME IInv, [Next]_vars PROVE IInv'
<1> USE LifecycleAssumption
    DEF IInv, HasRecord, NoAccess, WorkerTruth, RevokeTruth, BackendTruth, RecordTruth,
        RevocationIsHonoured, Outstanding, Refused, Holds,
        SubmitTo, CancelTo, WorkTo, NoFault, Fault, Store, Acknowledged, Raised, PersistRaises,
        redisVars, brokerVars, apiVars, workerVars
<1>t. Typed'
    BY TypedStep DEF IInv
<1> USE <1>t DEF Typed, TypeOK, HoldsOK, Records, Terminal, States, Submissions, Phases
<1>0. CASE UNCHANGED vars
    BY <1>0 DEF vars
<1>1. ASSUME NEW j \in Jobs, CreateCredentials(j) PROVE IInv'
    BY <1>1 DEF CreateCredentials
<1>2. ASSUME NEW j \in Jobs, Prepare(j) PROVE IInv'
    BY <1>2 DEF Prepare
<1>3. ASSUME NEW j \in Jobs, TrackOwner(j) PROVE IInv'
    BY <1>3 DEF TrackOwner
<1>4. ASSUME NEW j \in Jobs, BindJob(j) PROVE IInv'
    BY <1>4 DEF BindJob
<1>5. ASSUME NEW j \in Jobs, Enqueue(j) PROVE IInv'
    BY <1>5 DEF Enqueue
<1>6. ASSUME NEW j \in Jobs, RecordEnqueueFailure(j) PROVE IInv'
    BY <1>6 DEF RecordEnqueueFailure
<1>7. ASSUME NEW j \in Jobs, DeleteCredentials(j) PROVE IInv'
    BY <1>7 DEF DeleteCredentials
<1>8. ASSUME NEW j \in Jobs, UntrackOwner(j) PROVE IInv'
    BY <1>8 DEF UntrackOwner
<1>9. ASSUME NEW j \in Jobs, AbandonSubmission(j) PROVE IInv'
    BY <1>9 DEF AbandonSubmission
<1>10. ASSUME NEW j \in Jobs, CancelAuthorize(j) PROVE IInv'
    BY <1>10 DEF CancelAuthorize
<1>11. ASSUME NEW j \in Jobs, CancelReadRecord(j) PROVE IInv'
    BY <1>11 DEF CancelReadRecord
<1>12. ASSUME NEW j \in Jobs, CancelReadState(j) PROVE IInv'
    BY <1>12 DEF CancelReadState
<1>13. ASSUME NEW j \in Jobs, CancelRevoke(j) PROVE IInv'
    BY <1>13 DEF CancelRevoke
<1>14. ASSUME NEW j \in Jobs, CancelMark(j) PROVE IInv'
    BY <1>14 DEF CancelMark
<1>15. ASSUME NEW j \in Jobs, AbandonCancel(j) PROVE IInv'
    BY <1>15 DEF AbandonCancel
<1>16. ASSUME NEW j \in Jobs, Restore(j) PROVE IInv'
    BY <1>16 DEF Restore
<1>17. ASSUME NEW j \in Jobs, Expire(j) PROVE IInv'
    BY <1>17 DEF Expire
<1>18. ASSUME NEW w \in Workers, NEW j \in Jobs, Receive(w, j) PROVE IInv'
    BY <1>18 DEF Receive
<1>19. ASSUME NEW w \in Workers, HearRevocations(w) PROVE IInv'
    BY <1>19 DEF HearRevocations
<1>20. ASSUME NEW w \in Workers, Discard(w) PROVE IInv'
    BY <1>20 DEF Discard
<1>21. ASSUME NEW w \in Workers, ArchiveRevoked(w) PROVE IInv'
  <2>1. task[w] \in Jobs /\ "cancelled" \in happened[task[w]]
    BY <1>21 DEF ArchiveRevoked
  <2>2. HasRecord'
    BY <1>21, <2>1 DEF ArchiveRevoked
  <2>3. NoAccess' /\ RevokeTruth' /\ BackendTruth'
    BY <1>21 DEF ArchiveRevoked
  <2>4. WorkerTruth' /\ RevocationIsHonoured'
    BY <1>21 DEF ArchiveRevoked
  <2>5. RecordTruth'
    BY <1>21, <2>1 DEF ArchiveRevoked
  <2> QED
    BY <2>2, <2>3, <2>4, <2>5
<1>22. ASSUME NEW w \in Workers, ReportStarted(w) PROVE IInv'
    BY <1>22 DEF ReportStarted
<1>23. ASSUME NEW w \in Workers, OpenArchive(w) PROVE IInv'
  <2>1. task[w] \in Jobs /\ \A j \in Jobs : happened[j] \subseteq happened'[j]
    BY <1>23 DEF OpenArchive
  <2>2. HasRecord' /\ NoAccess'
    BY <1>23 DEF OpenArchive
  <2>3. WorkerTruth'
    BY <1>23, <2>1 DEF OpenArchive
  <2>4. RevokeTruth' /\ RevocationIsHonoured'
    BY <1>23, <2>1 DEF OpenArchive
  <2>5. BackendTruth' /\ RecordTruth'
    BY <1>23, <2>1 DEF OpenArchive
  <2> QED
    BY <2>2, <2>3, <2>4, <2>5
<1>24. ASSUME NEW w \in Workers, RecordStarted(w) PROVE IInv'
  <2>1. task[w] \in Jobs /\ \A j \in Jobs : happened[j] \subseteq happened'[j]
    BY <1>24 DEF RecordStarted
  <2>2. HasRecord'
    BY <1>24, <2>1 DEF RecordStarted
  <2>3. NoAccess'
    BY <1>24 DEF RecordStarted
  <2>4. WorkerTruth'
    BY <1>24, <2>1 DEF RecordStarted
  <2>5. RevokeTruth' /\ RevocationIsHonoured'
    BY <1>24, <2>1 DEF RecordStarted
  <2>6. BackendTruth'
    BY <1>24, <2>1 DEF RecordStarted
  <2>7. RecordTruth'
    BY <1>24, <2>1 DEF RecordStarted
  <2> QED
    BY <2>2, <2>3, <2>4, <2>5, <2>6, <2>7
<1>25. ASSUME NEW w \in Workers, Run(w) PROVE IInv'
  <2>1. task[w] \in Jobs /\ \A j \in Jobs : happened[j] \subseteq happened'[j]
    BY <1>25 DEF Run
  <2>2. HasRecord'
    BY <1>25, <2>1 DEF Run
  <2>3. NoAccess'
    BY <1>25 DEF Run
  <2>4. WorkerTruth'
    BY <1>25, <2>1 DEF Run
  <2>5. RevokeTruth' /\ RevocationIsHonoured'
    BY <1>25, <2>1 DEF Run
  <2>6. BackendTruth'
    BY <1>25, <2>1 DEF Run
  <2>7. RecordTruth'
    BY <1>25, <2>1 DEF Run
  <2> QED
    BY <2>2, <2>3, <2>4, <2>5, <2>6, <2>7
<1>26. ASSUME NEW w \in Workers, RecordSuccess(w) PROVE IInv'
  <2>1. task[w] \in Jobs /\ "completed" \in happened[task[w]]
    BY <1>26 DEF RecordSuccess
  <2>2. \A j \in Jobs : happened[j] \subseteq happened'[j]
    BY <1>26, <2>1 DEF RecordSuccess
  <2>3. HasRecord' /\ NoAccess'
    BY <1>26, <2>1 DEF RecordSuccess
  <2>4. WorkerTruth'
    BY <1>26, <2>1, <2>2 DEF RecordSuccess
  <2>5. RevokeTruth' /\ RevocationIsHonoured'
    BY <1>26, <2>2 DEF RecordSuccess
  <2>6. BackendTruth'
    BY <1>26, <2>2 DEF RecordSuccess
  <2>7. RecordTruth'
    BY <1>26, <2>1, <2>2 DEF RecordSuccess
  <2> QED
    BY <2>3, <2>4, <2>5, <2>6, <2>7
<1>27. ASSUME NEW w \in Workers, RecordFailure(w) PROVE IInv'
  <2>1. task[w] \in Jobs /\ \A j \in Jobs : happened[j] \subseteq happened'[j]
    BY <1>27 DEF RecordFailure
  <2>2. HasRecord'
    BY <1>27, <2>1 DEF RecordFailure
  <2>3. NoAccess'
    BY <1>27 DEF RecordFailure
  <2>4. WorkerTruth'
    BY <1>27, <2>1 DEF RecordFailure
  <2>5. RevokeTruth' /\ RevocationIsHonoured'
    BY <1>27, <2>1 DEF RecordFailure
  <2>6. BackendTruth'
    BY <1>27, <2>1 DEF RecordFailure
  <2>7. RecordTruth'
    BY <1>27, <2>1 DEF RecordFailure
  <2> QED
    BY <2>2, <2>3, <2>4, <2>5, <2>6, <2>7
<1>28. ASSUME NEW w \in Workers, ReportResult(w) PROVE IInv'
  <2>1. task[w] \in Jobs /\ \A j \in Jobs : happened[j] \subseteq happened'[j]
    BY <1>28 DEF ReportResult
  <2>2. HasRecord'
    BY <1>28, <2>1 DEF ReportResult
  <2>3. NoAccess'
    BY <1>28 DEF ReportResult
  <2>4. WorkerTruth'
    BY <1>28, <2>1 DEF ReportResult
  <2>5. RevokeTruth' /\ RevocationIsHonoured'
    BY <1>28, <2>1 DEF ReportResult
  <2>6. BackendTruth'
    BY <1>28, <2>1 DEF ReportResult
  <2>7. RecordTruth'
    BY <1>28, <2>1 DEF ReportResult
  <2> QED
    BY <2>2, <2>3, <2>4, <2>5, <2>6, <2>7
<1>29. ASSUME NEW w \in Workers, Acknowledge(w) PROVE IInv'
    BY <1>29 DEF Acknowledge
<1>30. ASSUME NEW w \in Workers, CrashWorker(w) PROVE IInv'
    BY <1>30 DEF CrashWorker
<1>31. ASSUME NEW w \in Workers, RestartWorker(w) PROVE IInv'
    BY <1>31 DEF RestartWorker
<1>32. CASE LoseRedis
    BY <1>32 DEF LoseRedis
<1> QED
    BY <1>0, <1>1, <1>2, <1>3, <1>4, <1>5, <1>6, <1>7, <1>8, <1>9, <1>10, <1>11, <1>12, <1>13, <1>14, <1>15, <1>16, <1>17, <1>18, <1>19, <1>20, <1>21, <1>22, <1>23, <1>24, <1>25, <1>26, <1>27, <1>28, <1>29, <1>30, <1>31, <1>32 DEF Next, Submit, CancelJob, Work

\* The invariant holds in every state.
LEMMA Inductive == Spec => []IInv
<1>1. Init => IInv
    BY LifecycleAssumption
    DEF Init, IInv, Typed, TypeOK, HoldsOK, Records, States, Submissions, Phases, Terminal,
        HasRecord, NoAccess, WorkerTruth, RevokeTruth, BackendTruth, RecordTruth,
        RevocationIsHonoured, Outstanding, Refused, Holds
<1>2. IInv /\ [Next]_vars => IInv'
    BY InductiveStep
<1> QED
    BY <1>1, <1>2, PTL DEF Spec

-----------------------------------------------------------------------------
(* What follows from it. *)

\* A message or a worker never runs ahead of the durable record: main.py
\* persists the queued record before it enqueues, whatever fails.
THEOREM RecordFirst == Spec => []RecordPrecedesMessage
<1>1. IInv => RecordPrecedesMessage
    BY DEF IInv, HasRecord, RecordPrecedesMessage
<1> QED
    BY <1>1, Inductive, PTL

\* A status that GET /jobs/{id} gives as known is what happened to the job.
THEOREM StatusTrue == Spec => []KnownStatusIsTrue
<1>1. IInv => KnownStatusIsTrue
  <2> SUFFICES ASSUME IInv, NEW j \in Jobs, JobStatus(j).known
               PROVE  /\ JobStatus(j).status = "success" => "completed" \in happened[j]
                      /\ JobStatus(j).status = "failure" => "raised" \in happened[j] \/ Refused(j)
                      /\ JobStatus(j).status = "revoked" => "cancelled" \in happened[j]
                      /\ JobStatus(j).status # "queued"
    BY DEF KnownStatusIsTrue
  <2> USE DEF IInv, Terminal
  <2>1. CASE record[j] \in Terminal
    <3>1. JobStatus(j) = [status |-> record[j], known |-> TRUE]
      BY <2>1 DEF JobStatus
    <3> QED
      BY <2>1, <3>1 DEF RecordTruth
  <2>2. CASE record[j] \notin Terminal
    <3>1. LiveStateKnown(j)
      BY <2>2 DEF JobStatus
    <3>2. JobStatus(j) = [status |-> LiveStatus(backend[j]), known |-> TRUE]
      BY <2>2, <3>1 DEF JobStatus
    <3>3. backend[j] \in {"STARTED", "SUCCESS", "FAILURE", "REVOKED"}
      BY <3>1 DEF LiveStateKnown, Typed, TypeOK, States
    <3> QED
      BY <3>2, <3>3 DEF BackendTruth, LiveStatus
  <2> QED
    BY <2>1, <2>2
<1> QED
    BY <1>1, Inductive, PTL

\* A result that Celery presents as a success was archived as one.
THEOREM ArchivedFirst == Spec => []ArchiveBeforeResult
<1>1. IInv => ArchiveBeforeResult
    BY DEF IInv, BackendTruth, ArchiveBeforeResult
<1> QED
    BY <1>1, Inductive, PTL

\* A clean rejection leaves neither ownership nor credentials behind.
THEOREM RejectionIsClean == Spec => []RejectionLeavesNoAccess
<1>1. IInv => RejectionLeavesNoAccess
    BY DEF IInv, NoAccess, RejectionLeavesNoAccess
<1> QED
    BY <1>1, Inductive, PTL

\* No worker executes a job whose revocation it knows of.
THEOREM RevocationHolds == Spec => []RevocationIsHonoured
<1>1. IInv => RevocationIsHonoured
    BY DEF IInv
<1> QED
    BY <1>1, Inductive, PTL

\* Once a submission is rejected, no worker starts to execute the job, although
\* the message may have been queued (apply_async raised after sending it).
THEOREM RejectedStaysRejected == Spec => RejectedJobNeverStarts
<1>1. ASSUME IInv, [Next]_vars, NEW j \in Jobs, submission[j] = "rejected", ~Executing(j)
      PROVE  ~Executing(j)'
  <2> USE <1>1 DEF IInv, Executing, Holds, Typed, TypeOK, HoldsOK, redisVars, brokerVars, apiVars, workerVars
  <2>1. j \notin credentials
    BY DEF NoAccess
  <2>2. ASSUME NEW w \in Workers, task'[w] = j,
               phase'[w] \in {"recordStarted", "running", "recordSuccess", "recordFailure"}
        PROVE  FALSE
    <3>1. CASE UNCHANGED vars
      BY <2>2, <3>1 DEF vars
    <3>2. CASE \E i \in Jobs : Submit(i) \/ AbandonSubmission(i) \/ CancelJob(i) \/ AbandonCancel(i)
                               \/ Restore(i) \/ Expire(i)
      BY <2>2, <3>2
      DEF Submit, CreateCredentials, Prepare, TrackOwner, BindJob, Enqueue, RecordEnqueueFailure,
          DeleteCredentials, UntrackOwner, AbandonSubmission, CancelJob, CancelAuthorize,
          CancelReadRecord, CancelReadState, CancelRevoke, CancelMark, AbandonCancel, Restore, Expire
    <3>3. CASE LoseRedis
      BY <2>2, <3>3 DEF LoseRedis
    <3>4. ASSUME NEW v \in Workers, Work(v) \/ CrashWorker(v) \/ RestartWorker(v)
          PROVE  FALSE
      <4>1. CASE OpenArchive(v)
        BY <2>1, <2>2, <4>1 DEF OpenArchive, WorkTo
      <4>2. CASE ~OpenArchive(v)
        BY <2>2, <3>4, <4>2
        DEF Work, Receive, HearRevocations, Discard, ArchiveRevoked, ReportStarted, RecordStarted,
            Run, RecordSuccess, RecordFailure, ReportResult, Acknowledge, CrashWorker,
            RestartWorker, WorkTo
      <4> QED
        BY <4>1, <4>2
    <3> QED
      BY <1>1, <3>1, <3>2, <3>3, <3>4 DEF Next
  <2> QED
    BY <2>2
<1>2. IInv /\ [Next]_vars =>
        [\A j \in Jobs : submission[j] = "rejected" /\ ~Executing(j) => ~Executing(j)']_vars
    BY <1>1
<1> QED
    BY <1>2, Inductive, PTL DEF Spec, RejectedJobNeverStarts

-----------------------------------------------------------------------------
(* The detailed specification implements the abstract one. *)

\* Every step of the API, the broker and the workers is a step of the durable
\* history or changes nothing of it.
LEMMA HistoryStep == ASSUME IInv, [Next]_vars PROVE [History!Next]_(History!vars)
<1> USE LifecycleAssumption
    DEF IInv, Typed, TypeOK, HoldsOK, HasRecord, WorkerTruth, RevokeTruth, RecordTruth,
        Outstanding, Refused, Holds,
        SubmitTo, CancelTo, WorkTo, NoFault, Fault, Raised, PersistRaises,
        redisVars, brokerVars, apiVars, workerVars,
        History!vars, History!Next, History!Write, History!Witness
<1>0. CASE UNCHANGED vars
    BY <1>0 DEF vars
<1>1. ASSUME NEW j \in Jobs, CreateCredentials(j) PROVE [History!Next]_(History!vars)
    BY <1>1 DEF CreateCredentials, History!Refuse
<1>2. ASSUME NEW j \in Jobs, Prepare(j) PROVE [History!Next]_(History!vars)
  <2>1. record[j] = "absent"
    BY <1>2 DEF Prepare
  <2>2. CASE submission'[j] = "track"
    <3>1. record' = [record EXCEPT ![j] = "queued"] /\ UNCHANGED happened
      BY <1>2, <2>2 DEF Prepare
    <3>2. {i \in Jobs : Refused(i)}' = {i \in Jobs : Refused(i)}
      BY <1>2, <2>2 DEF Prepare
    <3>3. History!Submit(j)
      BY <2>1, <3>1, <3>2 DEF History!Submit
    <3> QED
      BY <3>3
  <2>3. CASE submission'[j] = "deleteCredentials"
    <3>1. record' \in {record, [record EXCEPT ![j] = "queued"]} /\ UNCHANGED happened
      BY <1>2, <2>1, <2>3 DEF Prepare
    <3>2. {i \in Jobs : Refused(i)}' = {i \in Jobs : Refused(i)} \cup {j}
      BY <1>2, <2>3 DEF Prepare
    <3>3. History!Submit(j) \/ History!Refuse(j)
      BY <2>1, <3>1, <3>2 DEF History!Submit, History!Refuse
    <3> QED
      BY <3>3
  <2> QED
    BY <1>2, <2>2, <2>3 DEF Prepare
<1>3. ASSUME NEW j \in Jobs, TrackOwner(j) PROVE [History!Next]_(History!vars)
    BY <1>3 DEF TrackOwner, History!Refuse
<1>4. ASSUME NEW j \in Jobs, BindJob(j) PROVE [History!Next]_(History!vars)
    BY <1>4 DEF BindJob, History!Refuse
<1>5. ASSUME NEW j \in Jobs, Enqueue(j) PROVE [History!Next]_(History!vars)
    BY <1>5 DEF Enqueue, History!Refuse
<1>6. ASSUME NEW j \in Jobs, RecordEnqueueFailure(j) PROVE [History!Next]_(History!vars)
    BY <1>6 DEF RecordEnqueueFailure, History!Fail
<1>7. ASSUME NEW j \in Jobs, DeleteCredentials(j) PROVE [History!Next]_(History!vars)
    BY <1>7 DEF DeleteCredentials
<1>8. ASSUME NEW j \in Jobs, UntrackOwner(j) PROVE [History!Next]_(History!vars)
    BY <1>8 DEF UntrackOwner
<1>9. ASSUME NEW j \in Jobs, AbandonSubmission(j) PROVE [History!Next]_(History!vars)
    BY <1>9 DEF AbandonSubmission, History!Refuse
<1>10. ASSUME NEW j \in Jobs, CancelAuthorize(j) PROVE [History!Next]_(History!vars)
    BY <1>10 DEF CancelAuthorize
<1>11. ASSUME NEW j \in Jobs, CancelReadRecord(j) PROVE [History!Next]_(History!vars)
    BY <1>11 DEF CancelReadRecord
<1>12. ASSUME NEW j \in Jobs, CancelReadState(j) PROVE [History!Next]_(History!vars)
    BY <1>12 DEF CancelReadState
<1>13. ASSUME NEW j \in Jobs, CancelRevoke(j) PROVE [History!Next]_(History!vars)
  <2>1. record[j] # "absent"
    BY <1>13 DEF CancelRevoke
  <2>2. History!Happen(j)
    BY <1>13, <2>1 DEF CancelRevoke, History!Happen
  <2> QED
    BY <2>2
<1>14. ASSUME NEW j \in Jobs, CancelMark(j) PROVE [History!Next]_(History!vars)
    BY <1>14 DEF CancelMark, History!Revoke
<1>15. ASSUME NEW j \in Jobs, AbandonCancel(j) PROVE [History!Next]_(History!vars)
    BY <1>15 DEF AbandonCancel
<1>16. ASSUME NEW j \in Jobs, Restore(j) PROVE [History!Next]_(History!vars)
    BY <1>16 DEF Restore
<1>17. ASSUME NEW j \in Jobs, Expire(j) PROVE [History!Next]_(History!vars)
    BY <1>17 DEF Expire
<1>18. ASSUME NEW w \in Workers, NEW j \in Jobs, Receive(w, j) PROVE [History!Next]_(History!vars)
    BY <1>18 DEF Receive
<1>19. ASSUME NEW w \in Workers, HearRevocations(w) PROVE [History!Next]_(History!vars)
    BY <1>19 DEF HearRevocations
<1>20. ASSUME NEW w \in Workers, Discard(w) PROVE [History!Next]_(History!vars)
    BY <1>20 DEF Discard
<1>21. ASSUME NEW w \in Workers, ArchiveRevoked(w) PROVE [History!Next]_(History!vars)
    BY <1>21 DEF ArchiveRevoked, History!Revoke
<1>22. ASSUME NEW w \in Workers, ReportStarted(w) PROVE [History!Next]_(History!vars)
    BY <1>22 DEF ReportStarted
<1>23. ASSUME NEW w \in Workers, OpenArchive(w) PROVE [History!Next]_(History!vars)
    BY <1>23 DEF OpenArchive, History!Happen
<1>24. ASSUME NEW w \in Workers, RecordStarted(w) PROVE [History!Next]_(History!vars)
    BY <1>24 DEF RecordStarted, History!Start, History!Happen
<1>25. ASSUME NEW w \in Workers, Run(w) PROVE [History!Next]_(History!vars)
    BY <1>25 DEF Run, History!Happen
<1>26. ASSUME NEW w \in Workers, RecordSuccess(w) PROVE [History!Next]_(History!vars)
    BY <1>26 DEF RecordSuccess, History!Succeed, History!Happen
<1>27. ASSUME NEW w \in Workers, RecordFailure(w) PROVE [History!Next]_(History!vars)
    BY <1>27 DEF RecordFailure, History!Fail
<1>28. ASSUME NEW w \in Workers, ReportResult(w) PROVE [History!Next]_(History!vars)
    BY <1>28 DEF ReportResult
<1>29. ASSUME NEW w \in Workers, Acknowledge(w) PROVE [History!Next]_(History!vars)
    BY <1>29 DEF Acknowledge
<1>30. ASSUME NEW w \in Workers, CrashWorker(w) PROVE [History!Next]_(History!vars)
    BY <1>30 DEF CrashWorker
<1>31. ASSUME NEW w \in Workers, RestartWorker(w) PROVE [History!Next]_(History!vars)
    BY <1>31 DEF RestartWorker
<1>32. CASE LoseRedis
    BY <1>32 DEF LoseRedis
<1> QED
    BY <1>0, <1>1, <1>2, <1>3, <1>4, <1>5, <1>6, <1>7, <1>8, <1>9, <1>10, <1>11, <1>12, <1>13, <1>14, <1>15, <1>16, <1>17, <1>18, <1>19, <1>20, <1>21, <1>22, <1>23, <1>24, <1>25, <1>26, <1>27, <1>28, <1>29, <1>30, <1>31, <1>32 DEF Next, Submit, CancelJob, Work

\* Every write of a job's durable record, by whoever makes it, is one that the
\* abstract history allows.
THEOREM HistoryImplemented == Spec => ImplementsHistory
<1>1. Init => History!Init
    BY DEF Init, History!Init, Refused
<1>2. IInv /\ [Next]_vars => [History!Next]_(History!vars)
    BY HistoryStep
<1> QED
    BY <1>1, <1>2, Inductive, PTL DEF Spec, ImplementsHistory, History!Spec

-----------------------------------------------------------------------------
(* A job reported as running is in somebody's hands. *)

\* Unless the visibility timeout strikes, no step loses a job that is not settled:
\* a request, the queue or a worker has it.
LEMMA CustodyStep ==
    ASSUME Typed, Custody, [Next]_vars, "visibilityTimeout" \notin Faults
    PROVE  Custody'
<1> USE LifecycleAssumption
    DEF Custody, BeforeEnqueue, Settled, Outstanding, Holds,
        Typed, TypeOK, HoldsOK, Terminal, States, Phases, Submissions,
        SubmitTo, CancelTo, WorkTo, NoFault, Fault, Store, Acknowledged, Raised, PersistRaises,
        redisVars, brokerVars, apiVars, workerVars
<1>0. CASE UNCHANGED vars
    BY <1>0 DEF vars
<1>1. ASSUME NEW j \in Jobs, CreateCredentials(j) PROVE Custody'
    BY <1>1 DEF CreateCredentials
<1>2. ASSUME NEW j \in Jobs, Prepare(j) PROVE Custody'
    BY <1>2 DEF Prepare
<1>3. ASSUME NEW j \in Jobs, TrackOwner(j) PROVE Custody'
    BY <1>3 DEF TrackOwner
<1>4. ASSUME NEW j \in Jobs, BindJob(j) PROVE Custody'
    BY <1>4 DEF BindJob
<1>5. ASSUME NEW j \in Jobs, Enqueue(j) PROVE Custody'
    BY <1>5 DEF Enqueue
<1>6. ASSUME NEW j \in Jobs, RecordEnqueueFailure(j) PROVE Custody'
    BY <1>6 DEF RecordEnqueueFailure
<1>7. ASSUME NEW j \in Jobs, DeleteCredentials(j) PROVE Custody'
    BY <1>7 DEF DeleteCredentials
<1>8. ASSUME NEW j \in Jobs, UntrackOwner(j) PROVE Custody'
    BY <1>8 DEF UntrackOwner
<1>9. ASSUME NEW j \in Jobs, AbandonSubmission(j) PROVE Custody'
    BY <1>9 DEF AbandonSubmission
<1>10. ASSUME NEW j \in Jobs, CancelAuthorize(j) PROVE Custody'
    BY <1>10 DEF CancelAuthorize
<1>11. ASSUME NEW j \in Jobs, CancelReadRecord(j) PROVE Custody'
    BY <1>11 DEF CancelReadRecord
<1>12. ASSUME NEW j \in Jobs, CancelReadState(j) PROVE Custody'
    BY <1>12 DEF CancelReadState
<1>13. ASSUME NEW j \in Jobs, CancelRevoke(j) PROVE Custody'
    BY <1>13 DEF CancelRevoke
<1>14. ASSUME NEW j \in Jobs, CancelMark(j) PROVE Custody'
    BY <1>14 DEF CancelMark
<1>15. ASSUME NEW j \in Jobs, AbandonCancel(j) PROVE Custody'
    BY <1>15 DEF AbandonCancel
<1>16. ASSUME NEW j \in Jobs, Restore(j) PROVE Custody'
    BY <1>16 DEF Restore
<1>17. ASSUME NEW j \in Jobs, Expire(j) PROVE Custody'
    BY <1>17 DEF Expire
<1>18. ASSUME NEW w \in Workers, NEW j \in Jobs, Receive(w, j) PROVE Custody'
    BY <1>18 DEF Receive
<1>19. ASSUME NEW w \in Workers, HearRevocations(w) PROVE Custody'
    BY <1>19 DEF HearRevocations
<1>20. ASSUME NEW w \in Workers, Discard(w) PROVE Custody'
    BY <1>20 DEF Discard
<1>21. ASSUME NEW w \in Workers, ArchiveRevoked(w) PROVE Custody'
    BY <1>21 DEF ArchiveRevoked
<1>22. ASSUME NEW w \in Workers, ReportStarted(w) PROVE Custody'
    BY <1>22 DEF ReportStarted
<1>23. ASSUME NEW w \in Workers, OpenArchive(w) PROVE Custody'
    BY <1>23 DEF OpenArchive
<1>24. ASSUME NEW w \in Workers, RecordStarted(w) PROVE Custody'
    BY <1>24 DEF RecordStarted
<1>25. ASSUME NEW w \in Workers, Run(w) PROVE Custody'
    BY <1>25 DEF Run
<1>26. ASSUME NEW w \in Workers, RecordSuccess(w) PROVE Custody'
    BY <1>26 DEF RecordSuccess
<1>27. ASSUME NEW w \in Workers, RecordFailure(w) PROVE Custody'
    BY <1>27 DEF RecordFailure
<1>28. ASSUME NEW w \in Workers, ReportResult(w) PROVE Custody'
    BY <1>28 DEF ReportResult
<1>29. ASSUME NEW w \in Workers, Acknowledge(w) PROVE Custody'
    BY <1>29 DEF Acknowledge
<1>30. ASSUME NEW w \in Workers, CrashWorker(w) PROVE Custody'
    BY <1>30 DEF CrashWorker
<1>31. ASSUME NEW w \in Workers, RestartWorker(w) PROVE Custody'
    BY <1>31 DEF RestartWorker
<1>32. CASE LoseRedis
    BY <1>32 DEF LoseRedis
<1> QED
    BY <1>0, <1>1, <1>2, <1>3, <1>4, <1>5, <1>6, <1>7, <1>8, <1>9, <1>10, <1>11, <1>12, <1>13, <1>14, <1>15, <1>16, <1>17, <1>18, <1>19, <1>20, <1>21, <1>22, <1>23, <1>24, <1>25, <1>26, <1>27, <1>28, <1>29, <1>30, <1>31, <1>32 DEF Next, Submit, CancelJob, Work

\* While no live worker's message times out, a job that GET /jobs/{id} gives as
\* certainly running has a message or a worker, through crashes and Redis loss.
THEOREM RunningIsOutstanding ==
    ASSUME "visibilityTimeout" \notin Faults
    PROVE  Spec => []KnownRunningIsOutstanding
<1>1. Init => Typed /\ Custody
    BY LifecycleAssumption
    DEF Init, Typed, TypeOK, HoldsOK, Records, States, Submissions, Phases,
        Custody, BeforeEnqueue, Settled, Outstanding, Holds
<1>2. Typed /\ Custody /\ [Next]_vars => (Typed /\ Custody)'
    BY TypedStep, CustodyStep
<1>3. Typed /\ Custody => KnownRunningIsOutstanding
  <2> SUFFICES ASSUME Typed, Custody, NEW j \in Jobs,
                      JobStatus(j) = [status |-> "started", known |-> TRUE]
               PROVE  Outstanding(j)
    BY DEF KnownRunningIsOutstanding
  <2>1. record[j] \notin Terminal
    BY DEF JobStatus, Terminal
  <2>2. LiveStateKnown(j)
    BY <2>1 DEF JobStatus
  <2>3. LiveStatus(backend[j]) = "started"
    BY <2>1, <2>2 DEF JobStatus
  <2>4. backend[j] = "STARTED"
    BY <2>3 DEF LiveStatus, Typed, TypeOK, States
  <2> QED
    BY <2>2, <2>4 DEF Custody, LiveStateKnown
<1> QED
    BY <1>1, <1>2, <1>3, PTL DEF Spec


=============================================================================
