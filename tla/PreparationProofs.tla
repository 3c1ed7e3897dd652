-------------------------- MODULE PreparationProofs --------------------------
(***************************************************************************)
(* Proofs about Preparation, for any runs, HUCs, partition into batches,   *)
(* workers, faults and fault bound. There are three invariants, each       *)
(* inductive under the one before it:                                      *)
(*   IInv      where every worker is, and what it knows of its HUC and of  *)
(*             its run, whatever fails;                                    *)
(*   Exactly   while no message was delivered twice, every HUC of a run is *)
(*             dealt with at most once, and without faults exactly once;   *)
(*   Lone      with one worker, an active run holds the reservation.       *)
(***************************************************************************)
EXTENDS Preparation, FiniteSetTheorems, TLAPS

AtCoordinator == Coordinating \cup {"failCheck", "failSet", "failRelease"}
AtHuc   == {"prepare", "removeFailed", "addFailed", "failureCheck", "failureSet", "addFinished"}
AtEnd   == {"decide", "judge", "concludeCompleted", "concludeFailed"}
AtBatch == AtHuc \cup AtEnd \cup {"open", "next", "release"}

\* A worker that is not idle has a task that goes with its phase.
Employed(w) ==
    /\ phase[w] = "idle" <=> task[w] = NoTask
    /\ phase[w] \in AtCoordinator => task[w][2] = Coordinator
    /\ phase[w] \in AtBatch => task[w][2] \in Batches
    /\ phase[w] \in AtHuc => huc[w] \in Hucs
    /\ phase[w] = "markRunning" => todo[w] = Hucs

\* A finished HUC was published or is among the failed ones.
Accounted(r) == finished[r] \subseteq prepared[r] \cup failed[r]

\* What a worker may take for granted at its phase, whoever works on the run besides.
Knows(w) ==
    /\ phase[w] = "removeFailed" => huc[w] \in prepared[Run(w)]
    /\ phase[w] \in {"failureCheck", "failureSet", "addFinished"} =>
          huc[w] \in prepared[Run(w)] \cup failed[Run(w)]
    /\ phase[w] \in {"judge", "concludeCompleted", "concludeFailed"} => finished[Run(w)] = Hucs
    /\ phase[w] = "concludeCompleted" => prepared[Run(w)] = Hucs

IInv ==
    /\ TypeOK
    /\ \A w \in Workers : Employed(w) /\ Knows(w)
    /\ \A r \in Runs : Accounted(r)
    /\ CompletedMeansPrepared

-----------------------------------------------------------------------------
(* What the helpers of the actions do. *)

\* A message names a run and a batch, and the coordinator has no batch.
LEMMA TaskFacts ==
    /\ \A t \in Tasks : t[1] \in Runs /\ t[2] \in Batches \cup {Coordinator} /\ t = <<t[1], t[2]>>
    /\ \A t \in Tasks : t[2] \in SUBSET Hucs
    /\ \A r \in Runs : <<r, Coordinator>> \in Tasks /\ \A b \in Batches : <<r, b>> \in Tasks
    /\ NoTask \notin Tasks /\ Coordinator \notin Batches
BY PreparationAssumption, TaskAssumption DEF Tasks, Coordinator

\* A worker moves to its next step, and only that worker does.
LEMMA WorkToFacts ==
    ASSUME TypeOK, NEW w \in Workers, NEW step \in Phases, WorkTo(w, step)
    PROVE  /\ phase' \in [Workers -> Phases] /\ phase'[w] = step
           /\ \A v \in Workers : v # w => phase'[v] = phase[v]
BY DEF TypeOK, WorkTo

\* A worker that gives up its task is left with nothing.
LEMMA DropFacts ==
    ASSUME TypeOK, NEW w \in Workers, DropTask(w)
    PROVE  /\ phase' \in [Workers -> Phases] /\ phase'[w] = "idle"
           /\ task' \in [Workers -> Tasks \cup {NoTask}] /\ task'[w] = NoTask
           /\ todo' \in [Workers -> SUBSET Hucs] /\ todo'[w] = {}
           /\ huc' \in [Workers -> Hucs \cup {NoHuc}]
           /\ broken' \subseteq Workers
           /\ \A v \in Workers : v # w =>
                 phase'[v] = phase[v] /\ task'[v] = task[v] /\ todo'[v] = todo[v] /\ huc'[v] = huc[v]
<1>1. "idle" \in Phases
  BY DEF Phases
<1>2. WorkTo(w, "idle")
  BY DEF DropTask
<1>3. /\ phase' \in [Workers -> Phases] /\ phase'[w] = "idle"
      /\ \A v \in Workers : v # w => phase'[v] = phase[v]
  BY <1>1, <1>2, WorkToFacts
<1> QED
  BY <1>3 DEF TypeOK, DropTask

\* A status is written for one run.
LEMMA SetStatusFacts ==
    ASSUME TypeOK, NEW r \in Runs, NEW s \in Statuses, SetStatus(r, s)
    PROVE  /\ status' \in [Runs -> Statuses] /\ status'[r] = s
           /\ \A q \in Runs : q # r => status'[q] = status[q]
BY DEF TypeOK, SetStatus

\* A message is added to the queue.
LEMMA SendFacts ==
    ASSUME TypeOK, NEW t \in Tasks, Send(t)
    PROVE  /\ ready' \in [Tasks -> Nat] /\ ready'[t] = ready[t] + 1
           /\ \A u \in Tasks : u # t => ready'[u] = ready[u]
BY DEF TypeOK, Send

-----------------------------------------------------------------------------
(* Type correctness. *)

\* A step keeps the type of every variable.
LEMMA TypeStep == IInv /\ [Next]_vars => TypeOK'
<1> SUFFICES ASSUME IInv, [Next]_vars PROVE TypeOK'
  OBVIOUS
<1>0. TypeOK /\ \A w \in Workers : Employed(w)
  BY DEF IInv
<1> USE <1>0, TaskFacts DEF NoFault, redisVars, accounting, apiVars, brokerVars, workerVars
<1>1. ASSUME NEW r \in Runs, Submit(r) \/ AbandonSubmission(r) PROVE TypeOK'
  <2>1. submission' \in [Runs -> Submissions] /\ reservation' \in Runs \cup {NoRun}
        /\ faults' \subseteq Faults
    BY <1>1, SMTT(30)
    DEF TypeOK, Submit, AbandonSubmission, Reserve, StoreRun, SendCoordinator,
        RecordSendFailure, ReleaseAfterError, SubmitTo, Release, Fault, Submissions
  <2>2. status' \in [Runs -> Statuses]
    <3>1. status' = status \/ \E s \in Statuses : SetStatus(r, s)
      BY <1>1 DEF TypeOK, Submit, AbandonSubmission, Reserve, StoreRun, SendCoordinator,
                  RecordSendFailure, ReleaseAfterError, Statuses
    <3> QED
      BY <3>1, SetStatusFacts DEF TypeOK
  <2>3. ready' \in [Tasks -> Nat]
    <3>1. ready' = ready \/ Send(<<r, Coordinator>>)
      BY <1>1 DEF Submit, AbandonSubmission, Reserve, StoreRun, SendCoordinator,
                  RecordSendFailure, ReleaseAfterError
    <3> QED
      BY <3>1, SendFacts DEF TypeOK
  <2>4. UNCHANGED <<accounting, cancelling, revoked, unacked, workerVars, prepared>>
    BY <1>1 DEF Submit, AbandonSubmission, Reserve, StoreRun, SendCoordinator,
                RecordSendFailure, ReleaseAfterError
  <2> QED
    BY <2>1, <2>2, <2>3, <2>4 DEF TypeOK
<1>2. ASSUME NEW r \in Runs, Cancel(r) \/ AbandonCancel(r) PROVE TypeOK'
  <2>1. /\ cancelling' \in [Runs -> {"none", "set", "checkHolder", "release", "revoke"}]
        /\ reservation' \in Runs \cup {NoRun} /\ faults' \subseteq Faults /\ revoked' \subseteq Runs
    BY <1>2 DEF TypeOK, Cancel, AbandonCancel, CancelRead, CancelSet, CancelCheckHolder,
                CancelRelease, CancelRevoke, CancelTo, Release, Fault
  <2>2. status' \in [Runs -> Statuses]
    <3>1. status' = status \/ SetStatus(r, "cancelled")
      BY <1>2 DEF Cancel, AbandonCancel, CancelRead, CancelSet, CancelCheckHolder,
                  CancelRelease, CancelRevoke
    <3> QED
      BY <3>1, SetStatusFacts DEF TypeOK, Statuses
  <2>3. UNCHANGED <<accounting, submission, brokerVars, workerVars, prepared>>
    BY <1>2 DEF Cancel, AbandonCancel, CancelRead, CancelSet, CancelCheckHolder,
                CancelRelease, CancelRevoke
  <2> QED
    BY <2>1, <2>2, <2>3 DEF TypeOK
<1>3. ASSUME NEW w \in Workers,
             \/ \E t \in Tasks : Receive(w, t)
             \/ Begin(w) \/ Acknowledge(w) \/ Discard(w)
             \/ TaskRaises(w) \/ SendRaises(w) \/ CrashWorker(w)
      PROVE TypeOK'
  <2>1. CASE \E t \in Tasks : Receive(w, t)
    <3>1. PICK t \in Tasks : Receive(w, t)
      BY <2>1
    <3>2. /\ ready' \in [Tasks -> Nat] /\ unacked' \in [Tasks -> Nat]
          /\ task' \in [Workers -> Tasks \cup {NoTask}] /\ todo' \in [Workers -> SUBSET Hucs]
      BY <3>1 DEF Receive, TypeOK
    <3>3. phase' \in [Workers -> Phases]
      BY <3>1, WorkToFacts DEF Receive, Phases
    <3> QED
      BY <3>1, <3>2, <3>3 DEF Receive, TypeOK
  <2>2. CASE Begin(w) \/ Discard(w) \/ TaskRaises(w)
    <3>1. \E step \in Phases : WorkTo(w, step)
      <4>1. CASE Begin(w)
        <5>1. (CASE IsCancelled(w) -> "acknowledge"
                 [] ~IsCancelled(w) /\ task[w][2] = Coordinator -> "discover"
                 [] OTHER -> "open") \in Phases
          BY DEF Phases, Coordinating
        <5> QED
          BY <4>1, <5>1 DEF Begin, Look
      <4>2. CASE TaskRaises(w)
        <5>1. (IF phase[w] \in Coordinating THEN "failCheck" ELSE "acknowledge") \in Phases
          BY DEF Phases
        <5> QED
          BY <4>2, <5>1 DEF TaskRaises
      <4> QED
        BY <2>2, <4>1, <4>2 DEF Discard, Look, Phases
    <3>2. phase' \in [Workers -> Phases]
      BY <3>1, WorkToFacts
    <3>3. faults' \subseteq Faults
          /\ UNCHANGED <<redisVars, apiVars, brokerVars, task, todo, huc, broken, prepared>>
      BY <2>2 DEF Begin, Discard, TaskRaises, Look, Fault, TypeOK
    <3> QED
      BY <3>2, <3>3 DEF TypeOK
  <2>4. CASE SendRaises(w)
    <3>1. task[w] \in Tasks /\ Run(w) \in Runs
      <4>1. task[w] \in Tasks
        BY <2>4 DEF SendRaises, Employed, TypeOK
      <4> QED
        BY <4>1 DEF Run
    <3>2. ready' \in [Tasks -> Nat] /\ todo' \in [Workers -> SUBSET Hucs]
      <4>1. CASE UNCHANGED <<ready, todo>>
        BY <4>1 DEF TypeOK
      <4>2. ASSUME NEW b \in Batches, QueueBatch(w, b)
            PROVE  ready' \in [Tasks -> Nat] /\ todo' \in [Workers -> SUBSET Hucs]
        <5>1. Send(<<Run(w), b>>) /\ todo' = [todo EXCEPT ![w] = @ \ b]
          BY <4>2 DEF QueueBatch
        <5>2. ready' \in [Tasks -> Nat]
          BY <3>1, <5>1, SendFacts DEF TypeOK
        <5> QED
          BY <5>1, <5>2 DEF TypeOK
      <4> QED
        BY <2>4, <4>1, <4>2 DEF SendRaises
    <3>3. phase' \in [Workers -> Phases]
      BY <2>4, WorkToFacts DEF SendRaises, Phases
    <3>4. faults' \subseteq Faults
          /\ UNCHANGED <<redisVars, apiVars, unacked, task, huc, broken, prepared>>
      BY <2>4 DEF SendRaises, Fault, TypeOK
    <3> QED
      BY <3>2, <3>3, <3>4 DEF TypeOK
  <2>3. CASE Acknowledge(w) \/ CrashWorker(w)
    <3>1. DropTask(w) /\ faults' \subseteq Faults
          /\ UNCHANGED <<redisVars, apiVars, ready, prepared>>
      BY <2>3 DEF Acknowledge, CrashWorker, Fault, TypeOK
    <3>2. unacked' \in [Tasks -> Nat]
      BY <2>3 DEF Acknowledge, CrashWorker, TypeOK
    <3> QED
      BY <3>1, <3>2, DropFacts DEF TypeOK
  <2> QED
    BY <1>3, <2>1, <2>2, <2>3, <2>4
<1>4. ASSUME NEW w \in Workers, Coordinate(w) PROVE TypeOK'
  <2>1. \E step \in Phases : WorkTo(w, step)
    BY <1>4 DEF Coordinate, Discover, Confirm, MarkRunningCheck, MarkRunning, SendBatch, QueueBatch,
                FailCheck, FailSet, FailRelease, Look, SetState, DeleteReservation,
                Phases, Coordinating
  <2>2. phase' \in [Workers -> Phases]
    BY <2>1, WorkToFacts
  <2>3. task[w] \in Tasks /\ Run(w) \in Runs
    <3>1. phase[w] # "idle"
      BY <1>4 DEF Coordinate, Discover, Confirm, MarkRunningCheck, MarkRunning, SendBatch, QueueBatch,
                  FailCheck, FailSet, FailRelease, Look, SetState, DeleteReservation
    <3>2. task[w] \in Tasks
      BY <3>1 DEF Employed, TypeOK
    <3> QED
      BY <3>2 DEF Run
  <2>4. status' \in [Runs -> Statuses]
    <3>1. status' = status \/ SetStatus(Run(w), "running") \/ SetStatus(Run(w), "failed")
      BY <1>4 DEF Coordinate, Discover, Confirm, MarkRunningCheck, MarkRunning, SendBatch, QueueBatch,
                  FailCheck, FailSet, FailRelease, Look, SetState, DeleteReservation
    <3> QED
      BY <3>1, <2>3, SetStatusFacts DEF TypeOK, Statuses
  <2>5. ready' \in [Tasks -> Nat]
    <3>1. ready' = ready \/ \E b \in Batches : Send(<<Run(w), b>>)
      BY <1>4 DEF Coordinate, Discover, Confirm, MarkRunningCheck, MarkRunning, SendBatch, QueueBatch,
                  FailCheck, FailSet, FailRelease, Look, SetState, DeleteReservation
    <3> QED
      BY <3>1, <2>3, SendFacts DEF TypeOK
  <2>6. todo' \in [Workers -> SUBSET Hucs]
    <3>1. \/ todo' = todo
          \/ todo' = [todo EXCEPT ![w] = Hucs]
          \/ \E b \in Batches : todo' = [todo EXCEPT ![w] = @ \ b]
      BY <1>4 DEF Coordinate, Discover, Confirm, MarkRunningCheck, MarkRunning, SendBatch, QueueBatch,
                  FailCheck, FailSet, FailRelease, Look, SetState, DeleteReservation
    <3> QED
      BY <3>1 DEF TypeOK
  <2>7. /\ total' \subseteq Runs /\ reservation' \in Runs \cup {NoRun}
        /\ UNCHANGED <<failed, finished, apiVars, unacked, task, huc, broken, prepared, faults>>
    <3>1. /\ total' \in {total, total \cup {Run(w)}} /\ reservation' \in {reservation, NoRun}
          /\ UNCHANGED <<failed, finished, apiVars, unacked, task, huc, broken, prepared, faults>>
      BY <1>4 DEF Coordinate, Discover, Confirm, MarkRunningCheck, MarkRunning, SendBatch, QueueBatch,
                  FailCheck, FailSet, FailRelease, Look, SetState, DeleteReservation, Release
    <3> QED
      BY <2>3, <3>1 DEF TypeOK
  <2> QED
    BY <2>2, <2>4, <2>5, <2>6, <2>7 DEF TypeOK
<1>5. ASSUME NEW w \in Workers, Prepare(w) PROVE TypeOK'
  <2>1. \E step \in Phases : WorkTo(w, step)
    BY <1>5 DEF Prepare, Open, NextHuc, PrepareHuc, RemoveFailed, AddFailed, FailureCheck,
                FailureSet, AddFinished, Decide, Judge, Conclude, ReleaseAfterLast,
                Look, SetState, DeleteReservation, Phases
  <2>2. phase' \in [Workers -> Phases]
    BY <2>1, WorkToFacts
  <2>3. task[w] \in Tasks /\ Run(w) \in Runs
    BY <1>5 DEF Prepare, Open, NextHuc, PrepareHuc, RemoveFailed, AddFailed, FailureCheck,
                FailureSet, AddFinished, Decide, Judge, Conclude, ReleaseAfterLast,
                Look, SetState, DeleteReservation, Employed, Run, TypeOK
  <2>4. status' \in [Runs -> Statuses]
    <3>1. status' = status \/ SetStatus(Run(w), "completed") \/ SetStatus(Run(w), "failed")
      BY <1>5 DEF Prepare, Open, NextHuc, PrepareHuc, RemoveFailed, AddFailed, FailureCheck,
                  FailureSet, AddFinished, Decide, Judge, Conclude, ReleaseAfterLast,
                  Look, SetState, DeleteReservation
    <3> QED
      BY <3>1, <2>3, SetStatusFacts DEF TypeOK, Statuses
  <2>5. /\ failed' \in [Runs -> SUBSET Hucs] /\ finished' \in [Runs -> SUBSET Hucs]
        /\ prepared' \in [Runs -> SUBSET Hucs]
    <3>1. CASE PrepareHuc(w) \/ RemoveFailed(w) \/ AddFailed(w) \/ AddFinished(w)
      <4>1. huc[w] \in Hucs
        BY <3>1 DEF PrepareHuc, RemoveFailed, AddFailed, AddFinished, Employed, AtHuc
      <4> QED
        BY <3>1, <4>1, <2>3 DEF PrepareHuc, RemoveFailed, AddFailed, AddFinished, TypeOK
    <3>2. CASE UNCHANGED <<failed, finished, prepared>>
      BY <3>2 DEF TypeOK
    <3> QED
      BY <3>1, <3>2, <1>5 DEF Prepare, Open, NextHuc, FailureCheck, FailureSet, Decide, Judge,
                Conclude, ReleaseAfterLast, Look, SetState, DeleteReservation
  <2>6. /\ todo' \in [Workers -> SUBSET Hucs] /\ huc' \in [Workers -> Hucs \cup {NoHuc}]
        /\ broken' \subseteq Workers /\ reservation' \in Runs \cup {NoRun}
        /\ UNCHANGED <<total, apiVars, brokerVars, task, faults>>
    BY <1>5, <2>3 DEF Prepare, Open, NextHuc, PrepareHuc, RemoveFailed, AddFailed, FailureCheck,
                FailureSet, AddFinished, Decide, Judge, Conclude, ReleaseAfterLast,
                Look, SetState, DeleteReservation, Release, TypeOK
  <2> QED
    BY <2>2, <2>4, <2>5, <2>6 DEF TypeOK
<1>6. ASSUME NEW t \in Tasks, Restore(t) PROVE TypeOK'
  <2>1. unacked' \in [Tasks -> Nat] /\ faults' \subseteq Faults
        /\ UNCHANGED <<redisVars, apiVars, workerVars, prepared>>
    BY <1>6 DEF Restore, Fault, TypeOK
  <2>2. Send(t)
    BY <1>6 DEF Restore
  <2> QED
    BY <2>1, <2>2, SendFacts DEF TypeOK
<1>7. CASE Expire \/ UNCHANGED vars
  BY <1>7 DEF Expire, Release, Fault, TypeOK, vars
<1> QED
  BY <1>1, <1>2, <1>3, <1>4, <1>5, <1>6, <1>7 DEF Next, Work

-----------------------------------------------------------------------------
(* What a step leaves alone. *)

Act(w) == Work(w) \/ Discard(w) \/ TaskRaises(w) \/ SendRaises(w) \/ CrashWorker(w)

\* Every step is a step of one worker, or leaves the workers and their accounts alone.
LEMMA Actors ==
    ASSUME [Next]_vars
    PROVE  \/ \E w \in Workers : Act(w)
           \/ UNCHANGED <<workerVars, accounting, prepared>>
<1> USE DEF NoFault, redisVars, apiVars, brokerVars, workerVars
<1>1. ASSUME NEW r \in Runs, Submit(r) \/ AbandonSubmission(r) \/ Cancel(r) \/ AbandonCancel(r)
      PROVE  UNCHANGED <<workerVars, accounting, prepared>>
  BY <1>1 DEF Submit, AbandonSubmission, Reserve, StoreRun, SendCoordinator,
              RecordSendFailure, ReleaseAfterError, Cancel, AbandonCancel, CancelRead, CancelSet,
              CancelCheckHolder, CancelRelease, CancelRevoke
<1>2. ASSUME NEW t \in Tasks, Restore(t) PROVE UNCHANGED <<workerVars, accounting, prepared>>
  BY <1>2 DEF Restore
<1>3. CASE Expire \/ UNCHANGED vars
  BY <1>3 DEF Expire, vars
<1> QED
  BY <1>1, <1>2, <1>3 DEF Next, Act

\* A worker leaves what the others hold alone.
LEMMA OthersRest ==
    ASSUME TypeOK, NEW w \in Workers, Act(w)
    PROVE  \A v \in Workers : v # w =>
              phase'[v] = phase[v] /\ task'[v] = task[v] /\ todo'[v] = todo[v] /\ huc'[v] = huc[v]
<1> SUFFICES ASSUME NEW v \in Workers, v # w
             PROVE  phase'[v] = phase[v] /\ task'[v] = task[v] /\ todo'[v] = todo[v] /\ huc'[v] = huc[v]
  OBVIOUS
<1>1. CASE Acknowledge(w) \/ CrashWorker(w)
  BY <1>1, DropFacts DEF Acknowledge, CrashWorker
<1>2. CASE \E t \in Tasks : Receive(w, t)
  BY <1>2 DEF Receive, WorkTo, TypeOK
<1>3. CASE Begin(w) \/ Discard(w) \/ TaskRaises(w) \/ SendRaises(w)
  BY <1>3 DEF Begin, Discard, TaskRaises, SendRaises, QueueBatch, Look, WorkTo, TypeOK
<1>4. CASE Coordinate(w)
  BY <1>4 DEF Coordinate, Discover, Confirm, MarkRunningCheck, MarkRunning, SendBatch, QueueBatch, FailCheck,
              FailSet, FailRelease, Look, SetState, DeleteReservation, WorkTo, TypeOK
<1>5. CASE Prepare(w)
  BY <1>5 DEF Prepare, Open, NextHuc, PrepareHuc, RemoveFailed, AddFailed, FailureCheck,
              FailureSet, AddFinished, Decide, Judge, Conclude, ReleaseAfterLast,
              Look, SetState, DeleteReservation, WorkTo, TypeOK
<1> QED
  BY <1>1, <1>2, <1>3, <1>4, <1>5 DEF Act, Work

\* Only its own worker's four commands change the accounts of a run.
LEMMA AccountsRest ==
    ASSUME TypeOK, NEW w \in Workers, Act(w),
           ~(PrepareHuc(w) \/ RemoveFailed(w) \/ AddFailed(w) \/ AddFinished(w))
    PROVE  UNCHANGED <<failed, finished, prepared>>
<1> USE DEF accounting, redisVars
<1>1. CASE \E t \in Tasks : Receive(w, t)
  BY <1>1 DEF Receive
<1>2. CASE Begin(w) \/ Discard(w) \/ TaskRaises(w) \/ SendRaises(w) \/ Acknowledge(w) \/ CrashWorker(w)
  BY <1>2 DEF Begin, Discard, TaskRaises, SendRaises, Look, Acknowledge, CrashWorker
<1>3. CASE Coordinate(w)
  BY <1>3 DEF Coordinate, Discover, Confirm, MarkRunningCheck, MarkRunning, SendBatch, QueueBatch, FailCheck,
              FailSet, FailRelease, Look, SetState, DeleteReservation
<1>4. CASE Prepare(w)
  BY <1>4 DEF Prepare, Open, NextHuc, FailureCheck, FailureSet, Decide, Judge, Conclude,
              ReleaseAfterLast, Look, SetState, DeleteReservation
<1> QED
  BY <1>1, <1>2, <1>3, <1>4 DEF Act, Work

\* Nothing published is lost, nothing finished is taken back, and a HUC is taken
\* from the failed ones only because it was published.
LEMMA Growth ==
    ASSUME IInv, [Next]_vars, NEW r \in Runs
    PROVE  /\ prepared[r] \subseteq prepared'[r]
           /\ finished[r] \subseteq finished'[r]
           /\ prepared[r] \cup failed[r] \subseteq prepared'[r] \cup failed'[r]
<1> USE DEF TypeOK
<1>0. TypeOK
  BY DEF IInv
<1>1. ASSUME NEW w \in Workers, PrepareHuc(w) \/ RemoveFailed(w) \/ AddFailed(w) \/ AddFinished(w)
      PROVE  /\ prepared[r] \subseteq prepared'[r]
             /\ finished[r] \subseteq finished'[r]
             /\ prepared[r] \cup failed[r] \subseteq prepared'[r] \cup failed'[r]
  <2>1. phase[w] = "removeFailed" => huc[w] \in prepared[Run(w)]
    BY DEF IInv, Knows
  <2>2. CASE PrepareHuc(w)
    BY <1>0, <2>2 DEF PrepareHuc, redisVars, accounting
  <2>3. CASE RemoveFailed(w)
    BY <1>0, <2>1, <2>3 DEF RemoveFailed
  <2>4. CASE AddFailed(w)
    BY <1>0, <2>4 DEF AddFailed
  <2>5. CASE AddFinished(w)
    BY <1>0, <2>5 DEF AddFinished
  <2> QED
    BY <1>1, <2>2, <2>3, <2>4, <2>5
<1>2. CASE UNCHANGED <<failed, finished, prepared>>
  BY <1>2
<1> QED
  BY <1>0, <1>1, <1>2, Actors, AccountsRest DEF accounting

\* What a worker knows of its run survives the steps of the others.
LEMMA StillKnows ==
    ASSUME IInv, [Next]_vars, NEW v \in Workers,
           phase'[v] = phase[v], task'[v] = task[v], todo'[v] = todo[v], huc'[v] = huc[v]
    PROVE  Employed(v)' /\ Knows(v)'
<1>1. Employed(v)'
  BY DEF IInv, Employed
<1>2. Knows(v)'
  <2>1. CASE task[v] = NoTask
    <3>1. phase[v] = "idle"
      BY <2>1 DEF IInv, Employed
    <3> QED
      BY <3>1 DEF Knows, Run
  <2>2. CASE task[v] # NoTask
    <3>1. Run(v) \in Runs /\ Run(v)' = Run(v)
      BY <2>2, TaskFacts DEF IInv, TypeOK, Run
    <3>2. finished'[Run(v)] \subseteq Hucs /\ prepared'[Run(v)] \subseteq Hucs
      BY <3>1, TypeStep DEF TypeOK
    <3>3. /\ prepared[Run(v)] \subseteq prepared'[Run(v)]
          /\ finished[Run(v)] \subseteq finished'[Run(v)]
          /\ prepared[Run(v)] \cup failed[Run(v)] \subseteq prepared'[Run(v)] \cup failed'[Run(v)]
      BY <3>1, Growth
    <3>4. Knows(v)
      BY DEF IInv
    <3>5. /\ finished[Run(v)] = Hucs => finished'[Run(v)] = Hucs
          /\ prepared[Run(v)] = Hucs => prepared'[Run(v)] = Hucs
      BY <3>2, <3>3
    <3> QED
      BY <3>1, <3>3, <3>4, <3>5 DEF Knows
  <2> QED
    BY <2>1, <2>2
<1> QED
  BY <1>1, <1>2

-----------------------------------------------------------------------------
(* The step of one worker. *)

\* Who counts as many finished HUCs as there are has seen all of them finished.
LEMMA CountedAll ==
    ASSUME NEW S \in SUBSET Hucs, Cardinality(S) >= Cardinality(Hucs)
    PROVE  S = Hucs
BY PreparationAssumption, FS_Subset, FS_CardinalityType

\* A worker that takes a step knows what its next phase takes for granted.
LEMMA ActorKnows ==
    ASSUME IInv, NEW w \in Workers, Act(w)
    PROVE  Employed(w)' /\ Knows(w)'
<1>0. TypeOK /\ Employed(w) /\ Knows(w)
  BY DEF IInv
<1> USE <1>0, TaskFacts DEF TypeOK
<1> DEFINE Goal == Employed(w)' /\ Knows(w)'
<1> SUFFICES Goal
  OBVIOUS
<1>1. CASE Acknowledge(w) \/ CrashWorker(w)
  <2>1. phase'[w] = "idle" /\ task'[w] = NoTask
    BY <1>1, DropFacts DEF Acknowledge, CrashWorker
  <2> QED
    BY <2>1 DEF Employed, Knows, AtCoordinator, AtBatch, AtHuc, AtEnd, Coordinating
<1>2. CASE \E t \in Tasks : Receive(w, t)
  <2>1. phase'[w] = "begin" /\ task'[w] \in Tasks
    BY <1>2 DEF Receive, WorkTo
  <2> QED
    BY <2>1 DEF Employed, Knows, AtCoordinator, AtBatch, AtHuc, AtEnd, Coordinating
<1>3. CASE Begin(w)
  <2>1. /\ task' = task /\ phase[w] = "begin"
        /\ \/ phase'[w] = "acknowledge"
           \/ phase'[w] = "discover" /\ task[w][2] = Coordinator
           \/ phase'[w] = "open" /\ task[w][2] # Coordinator
        /\ IsCancelled(w) => phase'[w] = "acknowledge"
    BY <1>3 DEF Begin, Look, WorkTo
  <2>2. task[w] \in Tasks
    BY <2>1 DEF Employed
  <2> QED
    BY <2>1, <2>2 DEF Employed, Knows, AtCoordinator, AtBatch, AtHuc, AtEnd, Coordinating
<1>4. CASE Discard(w) \/ TaskRaises(w) \/ SendRaises(w)
  <2>1. /\ task' = task /\ phase[w] # "idle"
        /\ \/ phase'[w] = "acknowledge"
           \/ phase'[w] = "failCheck" /\ phase[w] \in AtCoordinator
    BY <1>4 DEF Discard, TaskRaises, SendRaises, Look, WorkTo, AtCoordinator, Coordinating
  <2> QED
    BY <2>1 DEF Employed, Knows, AtCoordinator, AtBatch, AtHuc, AtEnd, Coordinating
<1>5. CASE Coordinate(w)
  <2>1. /\ task' = task
        /\ phase[w] \in AtCoordinator /\ phase'[w] \in AtCoordinator \cup {"acknowledge"}
        /\ phase'[w] = "markRunning" => todo'[w] = Hucs
    BY <1>5 DEF Coordinate, Discover, Confirm, MarkRunningCheck, MarkRunning, SendBatch, QueueBatch, FailCheck,
                FailSet, FailRelease, Look, SetState, DeleteReservation, WorkTo,
                AtCoordinator, Coordinating
  <2> QED
    BY <2>1 DEF Employed, Knows, AtCoordinator, AtBatch, AtHuc, AtEnd, Coordinating
<1>6. CASE Prepare(w)
  <2>0. task[w] \in Tasks /\ task[w][2] \in Batches /\ Run(w) \in Runs /\ Run(w)' = Run(w)
    BY <1>6 DEF Prepare, Open, NextHuc, PrepareHuc, RemoveFailed, AddFailed, FailureCheck,
              FailureSet, AddFinished, Decide, Judge, Conclude, ReleaseAfterLast,
              Look, SetState, DeleteReservation, Employed, AtBatch, AtHuc, AtEnd, Run
  <2>1. CASE Open(w) \/ NextHuc(w) \/ ReleaseAfterLast(w)
    <3>1. /\ task' = task
          /\ \/ phase'[w] \in {"next", "acknowledge"}
             \/ phase'[w] \in {"addFailed", "prepare"} /\ huc'[w] \in Hucs
      <4>1. CASE Open(w) \/ ReleaseAfterLast(w)
        BY <4>1 DEF Open, ReleaseAfterLast, DeleteReservation, WorkTo
      <4>2. CASE NextHuc(w)
        BY <4>2 DEF NextHuc, WorkTo
      <4> QED
        BY <2>1, <4>1, <4>2
    <3> QED
      BY <2>0, <3>1 DEF Employed, Knows, AtCoordinator, AtBatch, AtHuc, AtEnd, Coordinating
  <2>2. CASE PrepareHuc(w)
    <3>1. /\ UNCHANGED <<task, huc>> /\ huc[w] \in Hucs
          /\ \/ phase'[w] = "removeFailed" /\ huc[w] \in prepared'[Run(w)]
             \/ phase'[w] = "addFailed"
      BY <2>0, <2>2 DEF PrepareHuc, WorkTo, Employed, AtHuc
    <3> QED
      BY <2>0, <3>1 DEF Employed, Knows, AtCoordinator, AtBatch, AtHuc, AtEnd, Coordinating
  <2>3. CASE RemoveFailed(w) \/ AddFailed(w)
    <3>1. /\ UNCHANGED <<task, huc, prepared>> /\ huc[w] \in Hucs
          /\ phase'[w] \in {"addFinished", "failureCheck"}
          /\ huc[w] \in prepared[Run(w)] \cup failed'[Run(w)]
      BY <2>0, <2>3 DEF RemoveFailed, AddFailed, WorkTo, Employed, AtHuc, Knows
    <3> QED
      BY <2>0, <3>1 DEF Employed, Knows, AtCoordinator, AtBatch, AtHuc, AtEnd, Coordinating
  <2>4. CASE FailureCheck(w) \/ FailureSet(w)
    <3>1. /\ UNCHANGED <<task, huc, prepared, failed>> /\ huc[w] \in Hucs
          /\ phase'[w] \in {"addFinished", "failureSet"}
          /\ huc[w] \in prepared[Run(w)] \cup failed[Run(w)]
      BY <2>0, <2>4 DEF FailureCheck, FailureSet, Look, SetState, WorkTo, Employed, AtHuc, Knows,
                        redisVars, accounting
    <3> QED
      BY <2>0, <3>1 DEF Employed, Knows, AtCoordinator, AtBatch, AtHuc, AtEnd, Coordinating
  <2>5. CASE AddFinished(w) \/ Conclude(w)
    <3>1. task' = task /\ phase'[w] \in {"decide", "release"}
      BY <2>5 DEF AddFinished, Conclude, SetState, WorkTo
    <3> QED
      BY <2>0, <3>1 DEF Employed, Knows, AtCoordinator, AtBatch, AtHuc, AtEnd, Coordinating
  <2>6. CASE Decide(w)
    <3>1. /\ UNCHANGED <<task, finished>>
          /\ \/ phase'[w] = "next"
             \/ phase'[w] = "judge" /\ Cardinality(finished[Run(w)]) >= Cardinality(Hucs)
      BY <2>6 DEF Decide, Look, WorkTo, redisVars, accounting
    <3>2. phase'[w] = "judge" => finished[Run(w)] = Hucs
      BY <2>0, <3>1, CountedAll
    <3> QED
      BY <2>0, <3>1, <3>2 DEF Employed, Knows, AtCoordinator, AtBatch, AtHuc, AtEnd, Coordinating
  <2>7. CASE Judge(w)
    <3>1. /\ UNCHANGED <<task, finished, prepared>>
          /\ \/ phase'[w] = "concludeFailed"
             \/ phase'[w] = "concludeCompleted" /\ failed[Run(w)] = {}
      BY <2>7 DEF Judge, Look, WorkTo, redisVars, accounting
    <3>2. finished[Run(w)] = Hucs
      BY <2>7 DEF Judge, Look, Knows
    <3>3. phase'[w] = "concludeCompleted" => prepared[Run(w)] = Hucs
      <4>1. finished[Run(w)] \subseteq prepared[Run(w)] \cup failed[Run(w)]
        BY <2>0 DEF IInv, Accounted
      <4>2. prepared[Run(w)] \in SUBSET Hucs
        BY <2>0
      <4> QED
        BY <3>1, <3>2, <4>1, <4>2
    <3> QED
      BY <2>0, <3>1, <3>2, <3>3 DEF Employed, Knows, AtCoordinator, AtBatch, AtHuc, AtEnd, Coordinating
  <2> QED
    BY <1>6, <2>1, <2>2, <2>3, <2>4, <2>5, <2>6, <2>7 DEF Prepare
<1> QED
  BY <1>1, <1>2, <1>3, <1>4, <1>5, <1>6 DEF Act, Work

-----------------------------------------------------------------------------
(* The first invariant. *)

\* The invariant holds at the start.
LEMMA Initially == Init => IInv
<1> SUFFICES ASSUME Init PROVE IInv
  OBVIOUS
<1>1. TypeOK
  <2>1. NoRun \in Runs \cup {NoRun} /\ "idle" \in Phases
    BY DEF Phases
  <2> QED
    BY <2>1 DEF Init, TypeOK, Statuses, Submissions
<1>2. \A w \in Workers : Employed(w) /\ Knows(w)
  BY DEF Init, Employed, Knows, AtCoordinator, AtBatch, AtHuc, AtEnd, Coordinating
<1>3. \A r \in Runs : Accounted(r)
  BY DEF Init, Accounted
<1>4. CompletedMeansPrepared
  BY DEF Init, CompletedMeansPrepared
<1> QED
  BY <1>1, <1>2, <1>3, <1>4 DEF IInv

\* Who writes the status of a run.
LEMMA StatusWriters ==
    ASSUME IInv, [Next]_vars, NEW r \in Runs, status'[r] # status[r]
    PROVE  \/ StoreRun(r) \/ RecordSendFailure(r) \/ CancelSet(r)
           \/ \E w \in Workers :
                 /\ Run(w) = r
                 /\ MarkRunning(w) \/ FailSet(w) \/ FailureSet(w) \/ Conclude(w)
<1> USE DEF redisVars, SetStatus
<1>0. TypeOK
  BY DEF IInv
<1>1. ASSUME NEW q \in Runs, Submit(q) \/ AbandonSubmission(q) \/ Cancel(q) \/ AbandonCancel(q)
      PROVE  StoreRun(r) \/ RecordSendFailure(r) \/ CancelSet(r)
  <2>1. CASE StoreRun(q) \/ RecordSendFailure(q) \/ CancelSet(q)
    <3>1. q = r
      BY <1>0, <2>1 DEF StoreRun, RecordSendFailure, CancelSet, TypeOK
    <3> QED
      BY <2>1, <3>1
  <2> QED
    BY <1>1, <2>1 DEF Submit, AbandonSubmission, Reserve, SendCoordinator, ReleaseAfterError,
                Cancel, AbandonCancel, CancelRead, CancelCheckHolder, CancelRelease, CancelRevoke
<1>2. ASSUME NEW w \in Workers, Act(w)
      PROVE  Run(w) = r /\ (MarkRunning(w) \/ FailSet(w) \/ FailureSet(w) \/ Conclude(w))
  <2>1. MarkRunning(w) \/ FailSet(w) \/ FailureSet(w) \/ Conclude(w)
    <3>1. CASE Coordinate(w)
      BY <3>1 DEF Coordinate, Discover, Confirm, MarkRunningCheck, SendBatch, QueueBatch,
                  FailCheck, FailRelease, Look, DeleteReservation
    <3>2. CASE Prepare(w)
      BY <3>2 DEF Prepare, Open, NextHuc, PrepareHuc, RemoveFailed, AddFailed, FailureCheck,
                  AddFinished, Decide, Judge, ReleaseAfterLast, Look, DeleteReservation
    <3> QED
      BY <1>2, <3>1, <3>2 DEF Act, Work, Receive, Begin, Acknowledge, Discard, TaskRaises,
                              SendRaises, CrashWorker, Look
  <2>2. \E s \in Statuses : status' = [status EXCEPT ![Run(w)] = s]
    BY <2>1 DEF MarkRunning, FailSet, FailureSet, Conclude, SetState, Statuses
  <2> QED
    BY <1>0, <2>1, <2>2 DEF TypeOK
<1>3. CASE Expire \/ UNCHANGED vars \/ \E t \in Tasks : Restore(t)
  BY <1>3 DEF Expire, vars, Restore
<1> QED
  BY <1>1, <1>2, <1>3 DEF Next, Act

\* A step keeps the first invariant.
LEMMA Step == IInv /\ [Next]_vars => IInv'
<1> SUFFICES ASSUME IInv, [Next]_vars PROVE IInv'
  OBVIOUS
<1>1. TypeOK /\ TypeOK'
  BY TypeStep DEF IInv
<1>2. ASSUME NEW v \in Workers PROVE Employed(v)' /\ Knows(v)'
  <2>1. CASE Act(v)
    BY <2>1, ActorKnows
  <2>2. CASE ~Act(v)
    <3>1. phase'[v] = phase[v] /\ task'[v] = task[v] /\ todo'[v] = todo[v] /\ huc'[v] = huc[v]
      BY <1>1, <2>2, Actors, OthersRest DEF workerVars
    <3> QED
      BY <3>1, StillKnows
  <2> QED
    BY <2>1, <2>2
<1>3. ASSUME NEW r \in Runs PROVE Accounted(r)'
  <2>1. finished'[r] \subseteq finished[r] \cup prepared[r] \cup failed[r]
    <3>1. ASSUME NEW w \in Workers, AddFinished(w)
          PROVE  finished'[r] \subseteq finished[r] \cup prepared[r] \cup failed[r]
      <4>1. huc[w] \in prepared[Run(w)] \cup failed[Run(w)]
        BY <3>1 DEF IInv, Knows, AddFinished
      <4> QED
        BY <1>1, <3>1, <4>1 DEF AddFinished, TypeOK
    <3>2. ASSUME NEW w \in Workers, PrepareHuc(w) \/ RemoveFailed(w) \/ AddFailed(w)
          PROVE  finished' = finished
      BY <3>2 DEF PrepareHuc, RemoveFailed, AddFailed, redisVars, accounting
    <3> QED
      BY <1>1, <3>1, <3>2, Actors, AccountsRest DEF accounting
  <2>2. finished[r] \subseteq prepared[r] \cup failed[r]
    BY DEF IInv, Accounted
  <2> QED
    BY <2>1, <2>2, Growth DEF Accounted
<1>4. CompletedMeansPrepared'
  <2> SUFFICES ASSUME NEW r \in Runs, status'[r] = "completed" PROVE prepared'[r] = Hucs
    BY DEF CompletedMeansPrepared
  <2>1. prepared[r] = Hucs
    <3>1. CASE status[r] = "completed"
      BY <3>1 DEF IInv, CompletedMeansPrepared
    <3>2. CASE StoreRun(r) \/ RecordSendFailure(r) \/ CancelSet(r)
      BY <1>1, <3>2 DEF StoreRun, RecordSendFailure, CancelSet, SetStatus, TypeOK,
                        IInv, CompletedMeansPrepared
    <3>3. ASSUME NEW w \in Workers, Run(w) = r,
                 MarkRunning(w) \/ FailSet(w) \/ FailureSet(w) \/ Conclude(w)
          PROVE  prepared[r] = Hucs
      <4>1. Conclude(w) /\ phase[w] = "concludeCompleted"
        BY <1>1, <3>3 DEF MarkRunning, FailSet, FailureSet, Conclude, SetState, SetStatus, TypeOK
      <4> QED
        BY <3>3, <4>1 DEF IInv, Knows
    <3> QED
      BY <3>1, <3>2, <3>3, StatusWriters
  <2>2. prepared'[r] \in SUBSET Hucs
    BY <1>1 DEF TypeOK
  <2> QED
    BY <2>1, <2>2, Growth
<1> QED
  BY <1>1, <1>2, <1>3, <1>4 DEF IInv

\* Every step keeps IInv, whatever fails.
THEOREM Invariance == Spec => []IInv
BY Initially, Step, PTL DEF Spec

\* Every variable keeps its type, for any runs, workers and faults.
THEOREM TypeCorrect == Spec => []TypeOK
<1>1. IInv => TypeOK
  BY DEF IInv
<1> QED
  BY <1>1, Invariance, PTL

\* A run is shown as completed only if it published every HUC it selected, whatever
\* requests, messages and workers failed and however often its tasks were repeated
\* (__mark_huc_finished).
THEOREM CompletedIsPrepared == Spec => []CompletedMeansPrepared
<1>1. IInv => CompletedMeansPrepared
  BY DEF IInv
<1> QED
  BY <1>1, Invariance, PTL

-----------------------------------------------------------------------------
(* Every message once. *)

Given(t) == \E w \in Workers : task[w] = t
There(t) == ready[t] # 0 \/ Given(t)

\* No message was lost by a worker or taken from one.
Tidy == faults \cap {"workerCrash", "visibilityTimeout"} = {}

\* The coordinator of the run has not begun to queue batches, and still may.
Ahead(r) ==
    \/ submission[r] \in {"new", "store", "send"}
    \/ ready[<<r, Coordinator>>] # 0
    \/ \E w \in Workers :
          /\ task[w] = <<r, Coordinator>>
          /\ phase[w] \in {"begin", "discover", "confirm", "markCheck", "markRunning"}

Touched(r) == finished[r] \cup prepared[r] \cup failed[r]

\* A message is in the queue or with one worker, which has not acknowledged it.
Single ==
    /\ \A t \in Tasks :
          /\ ready[t] \in {0, 1} /\ unacked[t] = IF Given(t) THEN 1 ELSE 0
          /\ Given(t) => ready[t] = 0
    /\ \A v, w \in Workers : task[v] = task[w] /\ task[v] # NoTask => v = w

\* Nothing is sent or done for a run whose coordinator has not come to it.
Unbegun(r) ==
    /\ submission[r] \in {"new", "store", "send"} => ~There(<<r, Coordinator>>)
    /\ Ahead(r) =>
          r \notin total /\ Touched(r) = {} /\ \A b \in Batches : ~There(<<r, b>>)

\* Batches that are not queued yet are not there and not begun.
Unsent(w) ==
    phase[w] = "sendBatches" =>
        /\ todo[w] \cap Touched(Run(w)) = {}
        /\ \A b \in Batches : There(<<Run(w), b>>) => b \cap todo[w] = {}

\* Nor is a batch begun that waits in the queue.
Waiting(r) == \A b \in Batches : ready[<<r, b>>] # 0 => b \cap Touched(r) = {}

\* A worker at a batch deals with the HUCs of that batch, one after the other.
DealsWith(w, r, b) ==
    /\ todo[w] \subseteq b /\ todo[w] \cap Touched(r) = {}
    /\ phase[w] \in AtHuc => huc[w] \in b \ (todo[w] \cup finished[r])
    /\ phase[w] \in {"prepare", "addFailed"} => huc[w] \notin Touched(r)
    /\ phase[w] = "removeFailed" => huc[w] \notin failed[r]
    /\ phase[w] \in {"failureCheck", "failureSet"} => huc[w] \in failed[r] \ prepared[r]
    /\ phase[w] = "addFinished" => (huc[w] \in prepared[r] <=> huc[w] \notin failed[r])

InOrder(w) == \A r \in Runs, b \in Batches : task[w] = <<r, b>> => DealsWith(w, r, b)

\* A finished HUC was published or failed, and not both.
Exact(r) == \A h \in finished[r] : h \in prepared[r] <=> h \notin failed[r]

Once ==
    /\ Single
    /\ \A r \in Runs : Unbegun(r) /\ Waiting(r) /\ Exact(r)
    /\ \A w \in Workers : Unsent(w) /\ InOrder(w)

-----------------------------------------------------------------------------
(* Every HUC, when nothing fails and nobody cancels. *)

Undisturbed(r) == faults = {} /\ cancelling[r] \in {"none", "set"} /\ r \notin revoked

Underway(h, r) ==
    \/ \E w \in Workers :
          /\ task[w] # NoTask /\ Run(w) = r
          /\ \/ phase[w] = "sendBatches" /\ h \in todo[w]
             \/ task[w][2] \in Batches /\ phase[w] # "acknowledge" /\ h \in todo[w]
             \/ phase[w] \in AtHuc /\ h = huc[w]
    \/ \E b \in Batches : h \in b /\ ready[<<r, b>>] # 0

Deciding(r) == \E w \in Workers : task[w] # NoTask /\ Run(w) = r /\ phase[w] \in AtEnd

Outcome(r) == IF prepared[r] = Hucs THEN "completed" ELSE "failed"

NotCancelled(r) == Undisturbed(r) => status[r] # "cancelled"
Covered(r) ==
    Undisturbed(r) /\ r \in total => \A h \in Hucs \ finished[r] : Underway(h, r)
Decided(r) ==
    Undisturbed(r) /\ r \in total /\ finished[r] = Hucs => Deciding(r) \/ status[r] = Outcome(r)

Smooth ==
    faults = {} =>
        /\ \A r \in Runs : submission[r] \notin {"recordFailure", "release", "lost"}
        /\ \A w \in Workers :
              /\ phase[w] \in {"failCheck", "failSet", "failRelease"} => Run(w) \notin total
              /\ phase[w] = "concludeFailed" => prepared[Run(w)] # Hucs

Exactly ==
    /\ Tidy => Once
    /\ Smooth
    /\ \A r \in Runs : NotCancelled(r) /\ Covered(r) /\ Decided(r)

-----------------------------------------------------------------------------
(* How messages move, and what a step touches. *)

\* A fault is not forgotten.
LEMMA FaultsGrow == ASSUME IInv, [Next]_vars PROVE faults \subseteq faults'
<1> USE DEF NoFault, Fault
<1>1. ASSUME NEW q \in Runs, Submit(q) \/ AbandonSubmission(q) \/ Cancel(q) \/ AbandonCancel(q)
      PROVE  faults \subseteq faults'
  BY <1>1 DEF Submit, AbandonSubmission, Reserve, StoreRun, SendCoordinator, RecordSendFailure,
              ReleaseAfterError, Cancel, AbandonCancel, CancelRead, CancelSet,
              CancelCheckHolder, CancelRelease, CancelRevoke
<1>2. ASSUME NEW w \in Workers, Act(w) PROVE faults \subseteq faults'
  <2>1. CASE Coordinate(w)
    BY <2>1 DEF Coordinate, Discover, Confirm, MarkRunningCheck, MarkRunning, SendBatch, QueueBatch,
                FailCheck, FailSet, FailRelease, Look, SetState, DeleteReservation
  <2>2. CASE Prepare(w)
    BY <2>2 DEF Prepare, Open, NextHuc, PrepareHuc, RemoveFailed, AddFailed, FailureCheck,
                FailureSet, AddFinished, Decide, Judge, Conclude, ReleaseAfterLast,
                Look, SetState, DeleteReservation
  <2> QED
    BY <1>2, <2>1, <2>2 DEF Act, Work, Receive, Begin, Acknowledge, Discard, TaskRaises,
                            SendRaises, CrashWorker, Look
<1>3. CASE Expire \/ UNCHANGED vars \/ \E t \in Tasks : Restore(t)
  BY <1>3 DEF Expire, vars, Restore
<1> QED
  BY <1>1, <1>2, <1>3 DEF Next, Act

\* While no message was delivered twice none is restored to the queue.
LEMMA NoneRestored ==
    ASSUME IInv, Single, Tidy', NEW t \in Tasks
    PROVE  ~Restore(t)
<1> SUFFICES ASSUME Restore(t) PROVE FALSE
  OBVIOUS
<1>1. unacked[t] > 0 /\ unacked[t] > Cardinality(Holders(t))
  BY DEF Restore, Fault, Tidy
<1>2. unacked[t] = 1 /\ Given(t)
  BY <1>1 DEF Single
<1>3. PICK w \in Workers : task[w] = t
  BY <1>2 DEF Given
<1>4. Holders(t) = {w}
  BY <1>3, TaskFacts DEF Holders, Single
<1> QED
  BY <1>1, <1>2, <1>4, FS_Singleton

\* A batch is queued by the call that returns and by the one that raises.
Dispatch(w, b) ==
    QueueBatch(w, b) /\ UNCHANGED <<redisVars, apiVars, unacked, task, huc, broken, prepared>>

LEMMA Dispatching ==
    ASSUME NEW w \in Workers
    PROVE  /\ \A b \in Batches : SendBatch(w, b) => Dispatch(w, b)
           /\ SendRaises(w) =>
                 \/ \E b \in Batches : Dispatch(w, b)
                 \/ UNCHANGED <<redisVars, apiVars, brokerVars, task, todo, huc, broken, prepared>>
BY DEF SendBatch, SendRaises, Dispatch, brokerVars

\* What each action does to the messages.
LEMMA Messages ==
    ASSUME IInv, Single, Tidy', [Next]_vars
    PROVE  \/ UNCHANGED <<ready, unacked, task>>
           \/ \E w \in Workers : \E t \in Tasks : Receive(w, t)
           \/ \E w \in Workers : Acknowledge(w)
           \/ \E r \in Runs : SendCoordinator(r) /\ Send(<<r, Coordinator>>)
           \/ \E w \in Workers : \E b \in Batches : Dispatch(w, b)
<1> DEFINE Goal ==
           \/ UNCHANGED <<ready, unacked, task>>
           \/ \E w \in Workers : \E t \in Tasks : Receive(w, t)
           \/ \E w \in Workers : Acknowledge(w)
           \/ \E r \in Runs : SendCoordinator(r) /\ Send(<<r, Coordinator>>)
           \/ \E w \in Workers : \E b \in Batches : Dispatch(w, b)
<1> SUFFICES Goal
  OBVIOUS
<1> USE DEF brokerVars, workerVars
<1>1. ASSUME NEW q \in Runs, Submit(q) \/ AbandonSubmission(q) \/ Cancel(q) \/ AbandonCancel(q)
      PROVE  Goal
  <2>1. CASE SendCoordinator(q)
    BY <2>1 DEF SendCoordinator
  <2> QED
    BY <1>1, <2>1 DEF Submit, AbandonSubmission, Reserve, StoreRun, RecordSendFailure,
              ReleaseAfterError, Cancel, AbandonCancel, CancelRead, CancelSet,
              CancelCheckHolder, CancelRelease, CancelRevoke
<1>2. ASSUME NEW w \in Workers, Act(w) PROVE Goal
  <2>1. CASE Coordinate(w)
    BY <2>1, Dispatching DEF Coordinate, Discover, Confirm, MarkRunningCheck, MarkRunning,
                FailCheck, FailSet, FailRelease, Look, SetState, DeleteReservation
  <2>2. CASE Prepare(w)
    BY <2>2 DEF Prepare, Open, NextHuc, PrepareHuc, RemoveFailed, AddFailed, FailureCheck,
                FailureSet, AddFinished, Decide, Judge, Conclude, ReleaseAfterLast,
                Look, SetState, DeleteReservation
  <2>3. ~CrashWorker(w)
    BY DEF CrashWorker, Fault, Tidy
  <2>4. CASE SendRaises(w)
    BY <2>4, Dispatching
  <2> QED
    BY <1>2, <2>1, <2>2, <2>3, <2>4 DEF Act, Work, Begin, Discard, TaskRaises, Look
<1>3. CASE Expire \/ UNCHANGED vars
  BY <1>3 DEF Expire, vars
<1> QED
  BY <1>1, <1>2, <1>3, NoneRestored DEF Next, Act

Kept(h, r) ==
    /\ h \in finished'[r] <=> h \in finished[r]
    /\ h \in prepared'[r] <=> h \in prepared[r]
    /\ h \in failed'[r] <=> h \in failed[r]

\* A step touches the HUC that its worker is at, and no other.
LEMMA Touching ==
    ASSUME IInv, [Next]_vars, NEW r \in Runs, NEW h \in Hucs
    PROVE  \/ Kept(h, r)
           \/ \E w \in Workers :
                 /\ Act(w) /\ task[w] \in Tasks /\ Run(w) = r /\ task[w][2] \in Batches
                 /\ phase[w] \in AtHuc /\ huc[w] = h
                 /\ UNCHANGED <<ready, task, todo, huc, submission>>
<1>0. TypeOK
  BY DEF IInv
<1>1. CASE UNCHANGED <<finished, prepared, failed>>
  BY <1>1 DEF Kept
<1>2. ASSUME NEW w \in Workers, Act(w),
             PrepareHuc(w) \/ RemoveFailed(w) \/ AddFailed(w) \/ AddFinished(w)
      PROVE  \/ Kept(h, r)
             \/ /\ Act(w) /\ task[w] \in Tasks /\ Run(w) = r /\ task[w][2] \in Batches
                /\ phase[w] \in AtHuc /\ huc[w] = h
                /\ UNCHANGED <<ready, task, todo, huc, submission>>
  <2>1. phase[w] \in AtHuc
    BY <1>2 DEF PrepareHuc, RemoveFailed, AddFailed, AddFinished, AtHuc
  <2>2. task[w] \in Tasks /\ task[w][2] \in Batches
    BY <1>0, <2>1 DEF IInv, Employed, AtBatch, AtHuc, TypeOK
  <2>3. UNCHANGED <<ready, task, todo, huc, submission>>
    BY <1>2 DEF PrepareHuc, RemoveFailed, AddFailed, AddFinished, brokerVars, apiVars
  <2>4. Run(w) # r \/ huc[w] # h => Kept(h, r)
    BY <1>0, <1>2 DEF PrepareHuc, RemoveFailed, AddFailed, AddFinished, Kept, TypeOK,
                      redisVars, accounting
  <2> QED
    BY <1>2, <2>1, <2>2, <2>3, <2>4
<1> QED
  BY <1>0, <1>1, <1>2, Actors, AccountsRest DEF accounting

\* A message comes into being only by being sent.
LEMMA ThereStep ==
    ASSUME IInv, Single, Tidy', [Next]_vars, NEW t \in Tasks, There(t)'
    PROVE  \/ There(t)
           \/ \E r \in Runs : t = <<r, Coordinator>> /\ SendCoordinator(r)
           \/ \E w \in Workers : \E b \in Batches : t = <<Run(w), b>> /\ Dispatch(w, b)
<1>0. TypeOK
  BY DEF IInv
<1>1. CASE UNCHANGED <<ready, unacked, task>>
  BY <1>1 DEF There, Given
<1>2. ASSUME NEW w \in Workers, NEW u \in Tasks, Receive(w, u) PROVE There(t)
  BY <1>0, <1>2 DEF There, Given, Receive, TypeOK
<1>3. ASSUME NEW w \in Workers, Acknowledge(w) PROVE There(t)
  <2>1. ready' = ready /\ task'[w] = NoTask /\ \A v \in Workers : v # w => task'[v] = task[v]
    BY <1>0, <1>3, DropFacts DEF Acknowledge
  <2> QED
    BY <2>1, TaskFacts DEF There, Given
<1>4. ASSUME NEW r \in Runs, SendCoordinator(r), Send(<<r, Coordinator>>)
      PROVE  There(t) \/ t = <<r, Coordinator>>
  BY <1>0, <1>4, SendFacts, TaskFacts DEF There, Given, SendCoordinator, workerVars
<1>5. ASSUME NEW w \in Workers, NEW b \in Batches, Dispatch(w, b)
      PROVE  There(t) \/ t = <<Run(w), b>>
  <2>1. Run(w) \in Runs /\ Send(<<Run(w), b>>) /\ task' = task
    BY <1>0, <1>5, TaskFacts DEF Dispatch, QueueBatch, IInv, Employed, Run, TypeOK
  <2>2. <<Run(w), b>> \in Tasks
    BY <2>1, TaskFacts
  <2>3. \A u \in Tasks : u # <<Run(w), b>> => ready'[u] = ready[u]
    BY <1>0, <2>1, <2>2, SendFacts
  <2> QED
    BY <2>1, <2>3 DEF There, Given
<1> QED
  BY <1>1, <1>2, <1>3, <1>4, <1>5, Messages

-----------------------------------------------------------------------------
(* Every message and every HUC at most once. *)

\* A batch is queued by the coordinator of its run, once.
LEMMA DispatchFacts ==
    ASSUME IInv, Once, NEW w \in Workers, NEW b \in Batches, Dispatch(w, b)
    PROVE  /\ Run(w) \in Runs /\ <<Run(w), b>> \in Tasks /\ task[w] = <<Run(w), Coordinator>>
           /\ phase[w] = "sendBatches" /\ b \subseteq todo[w] /\ b # {}
           /\ ready' \in [Tasks -> Nat] /\ ready'[<<Run(w), b>>] = ready[<<Run(w), b>>] + 1
           /\ \A u \in Tasks : u # <<Run(w), b>> => ready'[u] = ready[u]
           /\ UNCHANGED <<redisVars, apiVars, unacked, task, huc, prepared>>
           /\ ~There(<<Run(w), b>>)
<1>0. TypeOK /\ Employed(w) /\ Unsent(w)
  BY DEF IInv, Once
<1>1. /\ phase[w] = "sendBatches" /\ b \subseteq todo[w] /\ b # {}
      /\ Send(<<Run(w), b>>)
      /\ UNCHANGED <<redisVars, apiVars, unacked, task, huc, prepared>>
  BY PreparationAssumption DEF Dispatch, QueueBatch
<1>2. Run(w) \in Runs /\ <<Run(w), b>> \in Tasks /\ task[w] = <<Run(w), Coordinator>>
  <2>1. task[w] \in Tasks /\ task[w][2] = Coordinator
    BY <1>0, <1>1 DEF Employed, AtCoordinator, Coordinating, TypeOK
  <2> QED
    BY <2>1, TaskFacts DEF Run
<1>3. ~There(<<Run(w), b>>)
  BY <1>0, <1>1 DEF Unsent
<1> QED
  BY <1>0, <1>1, <1>2, <1>3, SendFacts

\* A message stays in one place while none is lost or redelivered.
LEMMA SingleStep ==
    ASSUME IInv, Once, Tidy', [Next]_vars
    PROVE  Single'
<1>0. TypeOK /\ Single
  BY DEF IInv, Once
<1>1. CASE UNCHANGED <<ready, unacked, task>>
  BY <1>0, <1>1 DEF Single, Given
<1>2. ASSUME NEW w \in Workers, NEW t \in Tasks, Receive(w, t) PROVE Single'
  <2>1. /\ task[w] = NoTask /\ ready[t] = 1 /\ ~Given(t) /\ unacked[t] = 0
    BY <1>0, <1>2 DEF Receive, Single, IInv, Employed
  <2>2. /\ task'[w] = t /\ \A v \in Workers : v # w => task'[v] = task[v]
        /\ ready'[t] = 0 /\ unacked'[t] = 1
        /\ \A u \in Tasks : u # t => ready'[u] = ready[u] /\ unacked'[u] = unacked[u]
    BY <1>0, <1>2, <2>1 DEF Receive, TypeOK
  <2>3. \A u \in Tasks : Given(u)' <=> Given(u) \/ u = t
    BY <2>1, <2>2, TaskFacts DEF Given
  <2>4. \A v, x \in Workers : task'[v] = task'[x] /\ task'[v] # NoTask => v = x
    BY <1>0, <2>1, <2>2, TaskFacts DEF Given, Single
  <2> QED
    BY <1>0, <2>1, <2>2, <2>3, <2>4 DEF Single
<1>3. ASSUME NEW w \in Workers, Acknowledge(w) PROVE Single'
  <2>1. task[w] \in Tasks /\ Given(task[w]) /\ unacked[task[w]] = 1
    BY <1>0, <1>3 DEF Acknowledge, Single, IInv, Employed, Given, TypeOK
  <2>2. /\ ready' = ready /\ unacked'[task[w]] = 0
        /\ \A u \in Tasks : u # task[w] => unacked'[u] = unacked[u]
        /\ task'[w] = NoTask /\ \A v \in Workers : v # w => task'[v] = task[v]
    BY <1>0, <1>3, <2>1, DropFacts DEF Acknowledge, TypeOK
  <2>3. \A u \in Tasks : Given(u)' <=> Given(u) /\ u # task[w]
    BY <1>0, <2>1, <2>2, TaskFacts DEF Given, Single
  <2>4. \A v, x \in Workers : task'[v] = task'[x] /\ task'[v] # NoTask => v = x
    BY <1>0, <2>2 DEF Single
  <2> QED
    BY <1>0, <2>2, <2>3, <2>4 DEF Single
<1>4. ASSUME NEW r \in Runs, SendCoordinator(r), Send(<<r, Coordinator>>) PROVE Single'
  <2>1. <<r, Coordinator>> \in Tasks /\ ~There(<<r, Coordinator>>)
    BY <1>4, TaskFacts DEF SendCoordinator, Once, Unbegun
  <2>2. UNCHANGED <<unacked, task>>
    BY <1>4 DEF SendCoordinator, workerVars
  <2>3. /\ ready'[<<r, Coordinator>>] = ready[<<r, Coordinator>>] + 1
        /\ \A u \in Tasks : u # <<r, Coordinator>> => ready'[u] = ready[u]
    BY <1>0, <1>4, <2>1, SendFacts
  <2> QED
    BY <1>0, <2>1, <2>2, <2>3 DEF Single, There, Given
<1>5. ASSUME NEW w \in Workers, NEW b \in Batches, Dispatch(w, b) PROVE Single'
  <2>1. <<Run(w), b>> \in Tasks /\ ~There(<<Run(w), b>>) /\ UNCHANGED <<unacked, task>>
    BY <1>5, DispatchFacts
  <2>2. /\ ready'[<<Run(w), b>>] = ready[<<Run(w), b>>] + 1
        /\ \A u \in Tasks : u # <<Run(w), b>> => ready'[u] = ready[u]
    BY <1>5, DispatchFacts
  <2> QED
    BY <1>0, <2>1, <2>2 DEF Single, There, Given
<1> QED
  BY <1>0, <1>1, <1>2, <1>3, <1>4, <1>5, Messages

\* What a worker at a batch rules out for its run.
LEMMA BatchMeansBegun ==
    ASSUME IInv, Once, NEW w \in Workers, task[w] \in Tasks, task[w][2] \in Batches
    PROVE  ~Ahead(Run(w)) /\ There(<<Run(w), task[w][2]>>)
<1>1. task[w] = <<Run(w), task[w][2]>> /\ Run(w) \in Runs
  BY TaskFacts DEF Run
<1>2. There(<<Run(w), task[w][2]>>)
  BY <1>1 DEF There, Given
<1> QED
  BY <1>1, <1>2 DEF Once, Unbegun

\* And a coordinator past its first steps.
LEMMA SendingMeansBegun ==
    ASSUME IInv, Once, NEW w \in Workers, task[w] = <<Run(w), Coordinator>>, task[w] \in Tasks,
           phase[w] \notin {"begin", "discover", "confirm", "markCheck", "markRunning"}
    PROVE  ~Ahead(Run(w))
<1>1. Run(w) \in Runs /\ There(<<Run(w), Coordinator>>) /\ ready[<<Run(w), Coordinator>>] = 0
  BY TaskFacts DEF There, Given, Run, Once, Single
<1>2. \A v \in Workers : task[v] = <<Run(w), Coordinator>> => v = w
  BY TaskFacts DEF Once, Single
<1> QED
  BY <1>1, <1>2 DEF Ahead, Once, Unbegun

Early == {"begin", "discover", "confirm", "markCheck", "markRunning"}

\* A message gets into the queue only by being sent.
LEMMA ReadyStep ==
    ASSUME IInv, Single, Tidy', [Next]_vars, NEW t \in Tasks, ready'[t] # 0
    PROVE  \/ ready[t] # 0
           \/ \E r \in Runs : t = <<r, Coordinator>> /\ SendCoordinator(r)
           \/ \E w \in Workers : \E b \in Batches : t = <<Run(w), b>> /\ Dispatch(w, b)
<1>0. TypeOK
  BY DEF IInv
<1>1. ASSUME NEW w \in Workers, NEW u \in Tasks, Receive(w, u) PROVE ready[t] # 0
  BY <1>0, <1>1 DEF Receive, TypeOK
<1>2. ASSUME NEW r \in Runs, SendCoordinator(r), Send(<<r, Coordinator>>)
      PROVE  ready[t] # 0 \/ t = <<r, Coordinator>>
  BY <1>0, <1>2, SendFacts, TaskFacts
<1>3. ASSUME NEW w \in Workers, NEW b \in Batches, Dispatch(w, b)
      PROVE  ready[t] # 0 \/ t = <<Run(w), b>>
  <2>1. Run(w) \in Runs /\ Send(<<Run(w), b>>)
    BY <1>0, <1>3, TaskFacts DEF Dispatch, QueueBatch, IInv, Employed, Run, TypeOK
  <2>2. <<Run(w), b>> \in Tasks
    BY <2>1, TaskFacts
  <2> QED
    BY <1>0, <2>1, <2>2, SendFacts
<1> QED
  BY <1>1, <1>2, <1>3, Messages DEF Acknowledge

\* A submission goes on only in its own request.
LEMMA SubmissionStep ==
    ASSUME IInv, [Next]_vars, NEW r \in Runs, submission'[r] # submission[r]
    PROVE  Submit(r) \/ AbandonSubmission(r)
<1> USE DEF apiVars
<1>0. TypeOK
  BY DEF IInv
<1>1. ASSUME NEW q \in Runs, q # r, Submit(q) \/ AbandonSubmission(q) PROVE FALSE
  BY <1>0, <1>1 DEF Submit, AbandonSubmission, Reserve, StoreRun, SendCoordinator,
              RecordSendFailure, ReleaseAfterError, SubmitTo, TypeOK
<1>2. ASSUME NEW q \in Runs, Cancel(q) \/ AbandonCancel(q) PROVE FALSE
  BY <1>2 DEF Cancel, AbandonCancel, CancelRead, CancelSet, CancelCheckHolder,
              CancelRelease, CancelRevoke
<1>3. ASSUME NEW w \in Workers, Act(w) PROVE FALSE
  <2>1. CASE Coordinate(w)
    BY <2>1 DEF Coordinate, Discover, Confirm, MarkRunningCheck, MarkRunning, SendBatch, QueueBatch,
                FailCheck, FailSet, FailRelease, Look, SetState, DeleteReservation
  <2>2. CASE Prepare(w)
    BY <2>2 DEF Prepare, Open, NextHuc, PrepareHuc, RemoveFailed, AddFailed, FailureCheck,
                FailureSet, AddFinished, Decide, Judge, Conclude, ReleaseAfterLast,
                Look, SetState, DeleteReservation
  <2> QED
    BY <1>3, <2>1, <2>2 DEF Act, Work, Receive, Begin, Acknowledge, Discard, TaskRaises,
                            SendRaises, CrashWorker, Look
<1>4. CASE Expire \/ UNCHANGED vars \/ \E t \in Tasks : Restore(t)
  BY <1>4 DEF Expire, vars, Restore
<1> QED
  BY <1>1, <1>2, <1>3, <1>4 DEF Next, Act

\* The first steps of a task follow one another.
LEMMA EarlyStep ==
    ASSUME IInv, NEW w \in Workers, Act(w), phase'[w] \in Early
    PROVE  \/ \E t \in Tasks : Receive(w, t)
           \/ phase[w] \in Early /\ task' = task
<1>0. TypeOK
  BY DEF IInv
<1>1. CASE Begin(w)
  BY <1>1 DEF Begin, Look, Early
<1>2. CASE Discard(w) \/ TaskRaises(w) \/ SendRaises(w) \/ Acknowledge(w) \/ CrashWorker(w)
  <2>1. phase'[w] \in {"acknowledge", "failCheck", "idle"}
    BY <1>0, <1>2, DropFacts DEF Discard, TaskRaises, SendRaises, Acknowledge, CrashWorker,
                                 Look, WorkTo, TypeOK
  <2> QED
    BY <2>1 DEF Early
<1>3. CASE Coordinate(w)
  <2>1. CASE Discover(w) \/ Confirm(w) \/ MarkRunningCheck(w)
    BY <2>1 DEF Discover, Confirm, MarkRunningCheck, Look, Early
  <2>2. CASE \/ MarkRunning(w) \/ (\E b \in Batches : SendBatch(w, b))
             \/ FailCheck(w) \/ FailSet(w) \/ FailRelease(w)
    <3>1. phase'[w] \in {"sendBatches", "acknowledge", "failSet", "failRelease"}
      BY <1>0, <2>2 DEF MarkRunning, SendBatch, QueueBatch, FailCheck, FailSet, FailRelease, Look, SetState,
                        DeleteReservation, WorkTo, TypeOK
    <3> QED
      BY <3>1 DEF Early
  <2> QED
    BY <1>3, <2>1, <2>2 DEF Coordinate
<1>4. CASE Prepare(w)
  <2>1. phase'[w] \in AtBatch \cup {"acknowledge"}
    BY <1>0, <1>4 DEF Prepare, Open, NextHuc, PrepareHuc, RemoveFailed, AddFailed, FailureCheck,
                FailureSet, AddFinished, Decide, Judge, Conclude, ReleaseAfterLast,
                Look, SetState, DeleteReservation, WorkTo, TypeOK, AtBatch, AtHuc, AtEnd
  <2> QED
    BY <2>1 DEF Early, AtBatch, AtHuc, AtEnd
<1> QED
  BY <1>1, <1>2, <1>3, <1>4 DEF Act, Work

\* A coordinator does not go back to its first steps.
LEMMA AheadStep ==
    ASSUME IInv, Once, Tidy', [Next]_vars, NEW r \in Runs, Ahead(r)'
    PROVE  Ahead(r)
<1>0. TypeOK /\ Single /\ <<r, Coordinator>> \in Tasks
  BY TaskFacts DEF IInv, Once
<1>1. CASE submission'[r] \in {"new", "store", "send"}
  <2>1. submission[r] \in {"new", "store", "send"}
    <3>1. CASE submission'[r] = submission[r]
      BY <1>1, <3>1
    <3>2. CASE Submit(r) \/ AbandonSubmission(r)
      BY <1>0, <1>1, <3>2 DEF Submit, AbandonSubmission, Reserve, StoreRun, SendCoordinator,
                RecordSendFailure, ReleaseAfterError, SubmitTo, TypeOK
    <3> QED
      BY <3>1, <3>2, SubmissionStep
  <2> QED
    BY <2>1 DEF Ahead
<1>2. CASE ready'[<<r, Coordinator>>] # 0
  <2>1. CASE ready[<<r, Coordinator>>] # 0
    BY <2>1 DEF Ahead
  <2>2. ASSUME NEW q \in Runs, <<r, Coordinator>> = <<q, Coordinator>>, SendCoordinator(q)
        PROVE  Ahead(r)
    BY <2>2 DEF SendCoordinator, Ahead
  <2>3. ASSUME NEW w \in Workers, NEW b \in Batches, <<r, Coordinator>> = <<Run(w), b>>
        PROVE  Ahead(r)
    BY <2>3, TaskFacts
  <2> QED
    BY <1>0, <1>2, <2>1, <2>2, <2>3, ReadyStep
<1>3. ASSUME NEW w \in Workers, task'[w] = <<r, Coordinator>>, phase'[w] \in Early PROVE Ahead(r)
  <2>1. CASE Act(w)
    <3>1. ASSUME NEW t \in Tasks, Receive(w, t) PROVE Ahead(r)
      BY <1>0, <1>3, <3>1 DEF Receive, TypeOK, Ahead
    <3>2. CASE phase[w] \in Early /\ task' = task
      BY <1>3, <3>2 DEF Ahead, Early
    <3> QED
      BY <1>3, <2>1, <3>1, <3>2, EarlyStep
  <2>2. CASE ~Act(w)
    <3>1. phase'[w] = phase[w] /\ task'[w] = task[w]
      BY <1>0, <2>2, Actors, OthersRest DEF workerVars
    <3> QED
      BY <1>3, <3>1 DEF Ahead, Early
  <2> QED
    BY <2>1, <2>2
<1> QED
  BY <1>1, <1>2, <1>3 DEF Ahead, Early

\* Only mark_running sets the number of HUCs of a run.
LEMMA TotalStep ==
    ASSUME IInv, [Next]_vars, NEW r \in Runs, r \in total', r \notin total
    PROVE  \E w \in Workers : MarkRunning(w) /\ Run(w) = r
<1> USE DEF redisVars, accounting
<1>1. ASSUME NEW w \in Workers, Act(w) PROVE MarkRunning(w) /\ Run(w) = r
  <2>1. CASE Coordinate(w)
    <3>1. MarkRunning(w)
      BY <2>1 DEF Coordinate, Discover, Confirm, MarkRunningCheck, SendBatch, QueueBatch,
                  FailCheck, FailSet, FailRelease, Look, SetState, DeleteReservation
    <3> QED
      BY <3>1 DEF MarkRunning
  <2>2. CASE Prepare(w)
    BY <2>2 DEF Prepare, Open, NextHuc, PrepareHuc, RemoveFailed, AddFailed, FailureCheck,
                FailureSet, AddFinished, Decide, Judge, Conclude, ReleaseAfterLast,
                Look, SetState, DeleteReservation
  <2> QED
    BY <1>1, <2>1, <2>2 DEF Act, Work, Receive, Begin, Acknowledge, Discard, TaskRaises,
                            SendRaises, CrashWorker, Look
<1> QED
  BY <1>1, Actors

\* Nothing of a run begins before its coordinator queues batches.
LEMMA UnbegunStep ==
    ASSUME IInv, Once, Tidy', [Next]_vars, NEW r \in Runs
    PROVE  Unbegun(r)'
<1>0. TypeOK /\ TypeOK' /\ Single /\ Unbegun(r) /\ <<r, Coordinator>> \in Tasks
  BY TypeStep, TaskFacts DEF IInv, Once
<1>1. ASSUME submission'[r] \in {"new", "store", "send"} PROVE ~There(<<r, Coordinator>>)'
  <2>1. submission[r] \in {"new", "store", "send"} /\ ~SendCoordinator(r)
    <3>1. CASE submission'[r] = submission[r]
      BY <1>0, <1>1, <3>1 DEF SendCoordinator, SubmitTo, TypeOK
    <3>2. CASE Submit(r) \/ AbandonSubmission(r)
      BY <1>0, <1>1, <3>2 DEF Submit, AbandonSubmission, Reserve, StoreRun, SendCoordinator,
                RecordSendFailure, ReleaseAfterError, SubmitTo, TypeOK
    <3> QED
      BY <3>1, <3>2, SubmissionStep
  <2>2. ~There(<<r, Coordinator>>)
    BY <1>0, <2>1 DEF Unbegun
  <2>3. \A q \in Runs : <<r, Coordinator>> = <<q, Coordinator>> => q = r
    OBVIOUS
  <2>4. \A w \in Workers : \A b \in Batches : <<r, Coordinator>> # <<Run(w), b>>
    BY TaskFacts
  <2> QED
    BY <1>0, <2>1, <2>2, <2>3, <2>4, ThereStep
<1>2. ASSUME Ahead(r)'
      PROVE  r \notin total' /\ Touched(r)' = {} /\ \A b \in Batches : ~There(<<r, b>>)'
  <2>1. Ahead(r) /\ r \notin total /\ Touched(r) = {} /\ \A b \in Batches : ~There(<<r, b>>)
    BY <1>0, <1>2, AheadStep DEF Unbegun
  <2>2. r \notin total'
    <3>1. SUFFICES ASSUME NEW w \in Workers, MarkRunning(w), Run(w) = r PROVE FALSE
      BY <2>1, TotalStep
    <3>2. task[w] = <<r, Coordinator>> /\ task[w] \in Tasks
      BY <1>0, <3>1, TaskFacts DEF MarkRunning, IInv, Employed, AtCoordinator, Coordinating, Run, TypeOK
    <3>3. phase'[w] = "sendBatches" /\ UNCHANGED <<submission, ready, task>>
          /\ \A v \in Workers : v # w => phase'[v] = phase[v]
      BY <1>0, <3>1 DEF MarkRunning, apiVars, brokerVars, WorkTo, TypeOK
    <3>4. submission[r] \notin {"new", "store", "send"} /\ ready[<<r, Coordinator>>] = 0
      BY <1>0, <3>2 DEF Unbegun, There, Given, Single
    <3>5. \A v \in Workers : task[v] = <<r, Coordinator>> => v = w
      BY <1>0, <3>2, TaskFacts DEF Single
    <3> QED
      BY <1>2, <3>3, <3>4, <3>5 DEF Ahead
  <2>3. Touched(r)' = {}
    <3>1. ASSUME NEW h \in Hucs PROVE h \notin Touched(r)'
      <4>1. Kept(h, r)
        BY <2>1, Touching, BatchMeansBegun
      <4> QED
        BY <2>1, <4>1 DEF Kept, Touched
    <3> QED
      BY <1>0, <3>1 DEF Touched, TypeOK
  <2>4. ASSUME NEW b \in Batches PROVE ~There(<<r, b>>)'
    <3>1. <<r, b>> \in Tasks /\ \A q \in Runs : <<r, b>> # <<q, Coordinator>>
      BY TaskFacts
    <3>2. ASSUME NEW w \in Workers, NEW c \in Batches, <<r, b>> = <<Run(w), c>>, Dispatch(w, c)
          PROVE  FALSE
      <4>1. task[w] = <<r, Coordinator>> /\ phase[w] = "sendBatches" /\ Run(w) = r
        BY <3>2, DispatchFacts
      <4> QED
        BY <1>0, <2>1, <4>1, SendingMeansBegun
    <3> QED
      BY <1>0, <2>1, <3>1, <3>2, ThereStep
  <2> QED
    BY <2>2, <2>3, <2>4
<1> QED
  BY <1>1, <1>2 DEF Unbegun

\* A batch in the queue is not begun by anybody.
LEMMA WaitingStep ==
    ASSUME IInv, Once, Tidy', [Next]_vars, NEW r \in Runs
    PROVE  Waiting(r)'
<1>0. TypeOK /\ TypeOK' /\ Single /\ Waiting(r)
  BY TypeStep DEF IInv, Once
<1> SUFFICES ASSUME NEW b \in Batches, ready'[<<r, b>>] # 0, NEW h \in b PROVE h \notin Touched(r)'
  BY DEF Waiting
<1>1. <<r, b>> \in Tasks /\ h \in Hucs
  BY TaskFacts
<1>2. CASE ready[<<r, b>>] # 0
  <2>1. h \notin Touched(r)
    BY <1>0, <1>2 DEF Waiting
  <2>2. ASSUME NEW w \in Workers, task[w] \in Tasks, Run(w) = r, task[w][2] \in Batches,
               phase[w] \in AtHuc, huc[w] = h
        PROVE  FALSE
    <3>1. h \in task[w][2] /\ task[w] = <<r, task[w][2]>>
      BY <2>2, TaskFacts DEF Once, InOrder, DealsWith, Run
    <3>2. task[w][2] = b
      BY <2>2, <3>1, PreparationAssumption
    <3> QED
      BY <1>0, <1>1, <1>2, <3>1, <3>2 DEF Single, Given
  <2> QED
    BY <1>1, <2>1, <2>2, Touching DEF Kept, Touched
<1>3. CASE ready[<<r, b>>] = 0
  <2>1. \A q \in Runs : <<r, b>> # <<q, Coordinator>>
    BY TaskFacts
  <2>2. PICK w \in Workers, c \in Batches : <<r, b>> = <<Run(w), c>> /\ Dispatch(w, c)
    BY <1>0, <1>1, <1>3, <2>1, ReadyStep
  <2>3. /\ Run(w) = r /\ b \subseteq todo[w] /\ phase[w] = "sendBatches"
        /\ UNCHANGED <<finished, failed, prepared>>
    BY <2>2, DispatchFacts DEF redisVars, accounting
  <2>4. todo[w] \cap Touched(r) = {}
    BY <2>3 DEF Once, Unsent
  <2> QED
    BY <2>3, <2>4 DEF Touched
<1> QED
  BY <1>2, <1>3

\* A HUC is counted as finished with its one outcome.
LEMMA ExactStep ==
    ASSUME IInv, Once, Tidy', [Next]_vars, NEW r \in Runs
    PROVE  Exact(r)'
<1>0. TypeOK /\ TypeOK'
  BY TypeStep DEF IInv
<1> SUFFICES ASSUME NEW h \in finished'[r] PROVE h \in prepared'[r] <=> h \notin failed'[r]
  BY DEF Exact
<1>1. h \in Hucs
  BY <1>0 DEF TypeOK
<1>2. CASE Kept(h, r)
  BY <1>2 DEF Kept, Once, Exact
<1>3. ASSUME NEW w \in Workers, AddFinished(w), task[w] \in Tasks, task[w][2] \in Batches,
             Run(w) = r, huc[w] = h
      PROVE  h \in prepared'[r] <=> h \notin failed'[r]
  BY <1>3, TaskFacts DEF AddFinished, Once, InOrder, DealsWith, Run
<1>4. ASSUME NEW w \in Workers, PrepareHuc(w) \/ RemoveFailed(w) \/ AddFailed(w),
             task[w] \in Tasks, task[w][2] \in Batches, Run(w) = r, huc[w] = h, phase[w] \in AtHuc
      PROVE  FALSE
  <2>1. h \notin finished[r]
    BY <1>4, TaskFacts DEF Once, InOrder, DealsWith, Run
  <2> QED
    BY <1>4, <2>1 DEF PrepareHuc, RemoveFailed, AddFailed, redisVars, accounting
<1>5. ASSUME NEW w \in Workers, Act(w),
             ~(PrepareHuc(w) \/ RemoveFailed(w) \/ AddFailed(w) \/ AddFinished(w))
      PROVE  Kept(h, r)
  BY <1>0, <1>5, AccountsRest DEF Kept
<1> QED
  BY <1>1, <1>2, <1>3, <1>4, <1>5, Touching

\* A coordinator comes to queue batches only from mark_running.
LEMMA SendingStep ==
    ASSUME IInv, NEW w \in Workers, Act(w), phase'[w] = "sendBatches"
    PROVE  (\E b \in Batches : SendBatch(w, b)) \/ MarkRunningCheck(w) \/ MarkRunning(w)
<1>0. TypeOK
  BY DEF IInv
<1>1. CASE Begin(w) \/ Discard(w) \/ TaskRaises(w) \/ SendRaises(w) \/ Acknowledge(w) \/ CrashWorker(w)
  <2>1. phase'[w] \in {"acknowledge", "failCheck", "idle", "discover", "open"}
    BY <1>0, <1>1, DropFacts DEF Begin, Discard, TaskRaises, SendRaises, Acknowledge, CrashWorker,
                                 Look, WorkTo, TypeOK
  <2> QED
    BY <2>1
<1>2. CASE \E t \in Tasks : Receive(w, t)
  BY <1>0, <1>2 DEF Receive, WorkTo, TypeOK
<1>3. CASE Coordinate(w)
  BY <1>0, <1>3 DEF Coordinate, Discover, Confirm, FailCheck, FailSet, FailRelease, Look, SetState,
                    DeleteReservation, WorkTo, TypeOK
<1>4. CASE Prepare(w)
  BY <1>0, <1>4 DEF Prepare, Open, NextHuc, PrepareHuc, RemoveFailed, AddFailed, FailureCheck,
                FailureSet, AddFinished, Decide, Judge, Conclude, ReleaseAfterLast,
                Look, SetState, DeleteReservation, WorkTo, TypeOK
<1> QED
  BY <1>1, <1>2, <1>3, <1>4 DEF Act, Work

\* The batches still to be queued are not begun.
LEMMA UnsentStep ==
    ASSUME IInv, Once, Tidy', [Next]_vars, NEW w \in Workers
    PROVE  Unsent(w)'
<1>0. TypeOK /\ TypeOK' /\ Single /\ Employed(w) /\ Unsent(w)
  BY TypeStep DEF IInv, Once
<1> SUFFICES ASSUME phase'[w] = "sendBatches" PROVE Unsent(w)'
  BY DEF Unsent
<1>1. SUFFICES ASSUME NEW r \in Runs, task[w] = <<r, Coordinator>>, task'[w] = task[w],
                      phase[w] \in {"markCheck", "markRunning", "sendBatches"}
               PROVE  /\ todo'[w] \cap Touched(r)' = {}
                      /\ \A b \in Batches : There(<<r, b>>)' => b \cap todo'[w] = {}
  <2>1. task'[w] = task[w] /\ phase[w] \in {"markCheck", "markRunning", "sendBatches"}
    <3>1. CASE Act(w)
      BY <3>1, SendingStep DEF SendBatch, QueueBatch, MarkRunningCheck, MarkRunning
    <3>2. CASE ~Act(w)
      BY <1>0, <3>2, Actors, OthersRest DEF workerVars
    <3> QED
      BY <3>1, <3>2
  <2>2. task[w] \in Tasks /\ task[w][2] = Coordinator
    BY <1>0, <2>1 DEF Employed, AtCoordinator, Coordinating, TypeOK
  <2>3. task[w][1] \in Runs /\ task[w] = <<task[w][1], Coordinator>>
    BY <2>2, TaskFacts
  <2>4. /\ todo'[w] \cap Touched(task[w][1])' = {}
        /\ \A b \in Batches : There(<<task[w][1], b>>)' => b \cap todo'[w] = {}
    <3>1. PICK r \in Runs : r = task[w][1]
      BY <2>3
    <3>2. /\ todo'[w] \cap Touched(r)' = {}
          /\ \A b \in Batches : There(<<r, b>>)' => b \cap todo'[w] = {}
      BY <1>1, <2>1, <2>3, <3>1
    <3> QED
      BY <2>1, <3>1, <3>2 DEF Touched, There, Given
  <2> QED
    BY <2>1, <2>4 DEF Unsent, Run, Touched, There, Given
<1>4. Run(w) = r /\ task[w] \in Tasks
  BY <1>1, TaskFacts DEF Run
<1>2. CASE MarkRunningCheck(w) \/ MarkRunning(w)
  <2>1. /\ phase[w] \in {"markCheck", "markRunning"}
        /\ UNCHANGED <<ready, task, finished, failed, prepared>>
    BY <1>2 DEF MarkRunningCheck, MarkRunning, redisVars, accounting, brokerVars
  <2>2. Touched(r) = {} /\ \A b \in Batches : ~There(<<r, b>>)
    BY <1>1, <2>1 DEF Once, Unbegun, Ahead
  <2> QED
    BY <2>1, <2>2 DEF Touched, There, Given
<1>3. CASE ~(MarkRunningCheck(w) \/ MarkRunning(w))
  <2>1. /\ phase[w] = "sendBatches" /\ todo'[w] \subseteq todo[w]
        /\ \A b \in Batches : Dispatch(w, b) => b \cap todo'[w] = {}
    <3>1. CASE \E b \in Batches : SendBatch(w, b)
      BY <1>0, <3>1 DEF SendBatch, Dispatch, QueueBatch, TypeOK
    <3>2. CASE ~Act(w)
      <4>1. phase'[w] = phase[w] /\ todo'[w] = todo[w]
        BY <1>0, <3>2, Actors, OthersRest DEF workerVars
      <4>2. ASSUME NEW b \in Batches, Dispatch(w, b) PROVE b \cap todo'[w] = {}
        BY <1>0, <4>2 DEF Dispatch, QueueBatch, TypeOK
      <4> QED
        BY <3>2, <4>1, <4>2
    <3> QED
      BY <1>3, <3>1, <3>2, SendingStep
  <2>2. /\ todo[w] \cap Touched(r) = {}
        /\ \A b \in Batches : There(<<r, b>>) => b \cap todo[w] = {}
    BY <1>0, <1>4, <2>1 DEF Unsent
  <2>3. ASSUME NEW h \in todo'[w] PROVE h \notin Touched(r)'
    <3>1. h \in todo[w] /\ h \in Hucs
      BY <1>0, <2>1 DEF TypeOK
    <3>2. ASSUME NEW v \in Workers, task[v] \in Tasks, Run(v) = r, task[v][2] \in Batches,
                 phase[v] \in AtHuc, huc[v] = h
          PROVE  FALSE
      <4>1. h \in task[v][2] /\ There(<<r, task[v][2]>>)
        BY <3>2, TaskFacts, BatchMeansBegun DEF Once, InOrder, DealsWith, Run
      <4> QED
        BY <2>2, <3>1, <3>2, <4>1
    <3>3. Kept(h, r)
      BY <3>1, <3>2, Touching
    <3> QED
      BY <2>2, <3>1, <3>3 DEF Kept, Touched
  <2>4. ASSUME NEW b \in Batches, There(<<r, b>>)' PROVE b \cap todo'[w] = {}
    <3>1. <<r, b>> \in Tasks /\ \A q \in Runs : <<r, b>> # <<q, Coordinator>>
      BY TaskFacts
    <3>2. CASE There(<<r, b>>)
      BY <2>1, <2>2, <3>2
    <3>3. ASSUME NEW v \in Workers, NEW c \in Batches, <<r, b>> = <<Run(v), c>>, Dispatch(v, c)
          PROVE  b \cap todo'[w] = {}
      <4>1. task[v] = task[w] /\ c = b
        BY <1>1, <3>3, DispatchFacts
      <4>2. v = w
        BY <1>0, <1>4, <4>1, TaskFacts DEF Single
      <4> QED
        BY <2>1, <3>3, <4>1, <4>2
    <3> QED
      BY <1>0, <2>4, <3>1, <3>2, <3>3, ThereStep
  <2> QED
    BY <2>3, <2>4
<1> QED
  BY <1>2, <1>3

\* What another worker does is about another batch, or about another run.
LEMMA Apart ==
    ASSUME IInv, Once, [Next]_vars, NEW w \in Workers, ~Act(w),
           NEW r \in Runs, NEW b \in Batches, task[w] = <<r, b>>, NEW h \in b
    PROVE  Kept(h, r)
<1>1. h \in Hucs /\ task[w] \in Tasks
  BY TaskFacts
<1>2. ASSUME NEW v \in Workers, Act(v), task[v] \in Tasks, Run(v) = r, task[v][2] \in Batches,
             phase[v] \in AtHuc, huc[v] = h
      PROVE  FALSE
  <2>1. task[v] = <<r, task[v][2]>>
    BY <1>2, TaskFacts DEF Run
  <2>2. h \in task[v][2]
    BY <1>2, <2>1 DEF Once, InOrder, DealsWith
  <2>3. task[v] = task[w]
    BY <1>2, <2>1, <2>2, PreparationAssumption
  <2>4. v = w
    BY <1>1, <2>3, TaskFacts DEF Once, Single
  <2> QED
    BY <1>2, <2>4
<1> QED
  BY <1>1, <1>2, Touching

\* A worker deals with each HUC of its batch once.
LEMMA InOrderStep ==
    ASSUME IInv, Once, Tidy', [Next]_vars, NEW w \in Workers
    PROVE  InOrder(w)'
<1>0. TypeOK /\ TypeOK' /\ Single /\ Employed(w) /\ InOrder(w)
  BY TypeStep DEF IInv, Once
<1> SUFFICES ASSUME NEW r \in Runs, NEW b \in Batches, task'[w] = <<r, b>>
             PROVE  DealsWith(w, r, b)'
  BY DEF InOrder
<1>1. <<r, b>> \in Tasks /\ b # Coordinator /\ b \subseteq Hucs /\ <<r, b>> # NoTask
  BY TaskFacts
<1> USE DEF TypeOK
<1>2. CASE ~Act(w)
  <2>1. phase'[w] = phase[w] /\ task[w] = <<r, b>> /\ todo'[w] = todo[w] /\ huc'[w] = huc[w]
    BY <1>0, <1>2, Actors, OthersRest DEF workerVars
  <2>2. DealsWith(w, r, b)
    BY <1>0, <2>1 DEF InOrder
  <2>3. \A h \in b : Kept(h, r)
    BY <1>2, <2>1, Apart
  <2> QED
    BY <2>1, <2>2, <2>3 DEF DealsWith, Kept, Touched, AtHuc
<1>3. ASSUME NEW t \in Tasks, Receive(w, t) PROVE DealsWith(w, r, b)'
  <2>1. t = <<r, b>> /\ ready[t] # 0 /\ todo'[w] = b /\ phase'[w] = "begin"
    <3>1. task'[w] = t /\ todo'[w] = t[2] /\ phase'[w] = "begin" /\ ready[t] > 0
      BY <1>0, <1>3 DEF Receive, WorkTo
    <3>2. ready[t] # 0
      BY <1>0, <3>1
    <3> QED
      BY <3>1, <3>2
  <2>2. UNCHANGED <<finished, failed, prepared>>
    BY <1>3 DEF Receive, redisVars, accounting
  <2>3. b \cap Touched(r) = {}
    BY <2>1 DEF Once, Waiting
  <2> QED
    BY <2>1, <2>2, <2>3 DEF DealsWith, Touched, AtHuc
<1>4. ASSUME task[w] = <<r, b>>, Act(w),
             todo'[w] = todo[w], phase'[w] \notin AtHuc, UNCHANGED <<finished, failed, prepared>>
      PROVE  DealsWith(w, r, b)'
  <2>1. DealsWith(w, r, b)
    BY <1>0, <1>4 DEF InOrder
  <2> QED
    BY <1>4, <2>1 DEF DealsWith, Touched, AtHuc
<1>5. CASE Begin(w) \/ Discard(w) \/ TaskRaises(w)
  <2>1. UNCHANGED <<task, todo, finished, failed, prepared>> /\ phase'[w] \notin AtHuc
    BY <1>0, <1>5 DEF Begin, Discard, TaskRaises, Look, WorkTo, AtHuc, redisVars, accounting
  <2> QED
    BY <1>4, <1>5, <2>1 DEF Act, Work
<1>6. CASE Acknowledge(w) \/ CrashWorker(w)
  BY <1>0, <1>1, <1>6, DropFacts DEF Acknowledge, CrashWorker
<1>7. CASE Coordinate(w) \/ SendRaises(w)
  <2>1. task' = task /\ phase[w] \in AtCoordinator
    BY <1>7 DEF SendRaises, Coordinate, Discover, Confirm, MarkRunningCheck, MarkRunning, SendBatch, QueueBatch,
                FailCheck, FailSet, FailRelease, Look, SetState, DeleteReservation,
                AtCoordinator, Coordinating
  <2> QED
    BY <1>0, <1>1, <2>1 DEF Employed
<1>8. CASE Prepare(w)
  <2>0. task[w] = <<r, b>> /\ Run(w) = r /\ Act(w) /\ DealsWith(w, r, b)
    <3>1. task' = task
      BY <1>8 DEF Prepare, Open, NextHuc, PrepareHuc, RemoveFailed, AddFailed, FailureCheck,
                FailureSet, AddFinished, Decide, Judge, Conclude, ReleaseAfterLast,
                Look, SetState, DeleteReservation
    <3> QED
      BY <1>0, <1>8, <3>1 DEF Act, Work, Run, InOrder
  <2>1. CASE Open(w) \/ Decide(w) \/ Judge(w) \/ Conclude(w) \/ ReleaseAfterLast(w)
    <3>1. todo' = todo /\ phase'[w] \notin AtHuc /\ UNCHANGED <<finished, failed, prepared>>
      BY <1>0, <2>1 DEF Open, Decide, Judge, Conclude, ReleaseAfterLast, Look, SetState,
                DeleteReservation, WorkTo, AtHuc, redisVars, accounting
    <3> QED
      BY <1>4, <2>0, <3>1
  <2>2. CASE NextHuc(w)
    <3>1. UNCHANGED <<finished, failed, prepared>>
      BY <2>2 DEF NextHuc, redisVars, accounting
    <3>2. CASE todo' = todo /\ phase'[w] = "acknowledge"
      BY <1>4, <2>0, <3>1, <3>2 DEF AtHuc
    <3>3. ASSUME NEW h \in todo[w], huc'[w] = h, todo'[w] = todo[w] \ {h},
                 phase'[w] \in {"addFailed", "prepare"}
          PROVE  DealsWith(w, r, b)'
      <4>1. h \in b /\ h \notin Touched(r) /\ todo[w] \subseteq b /\ todo[w] \cap Touched(r) = {}
        BY <2>0, <3>3 DEF DealsWith
      <4> QED
        BY <3>1, <3>3, <4>1 DEF DealsWith, Touched
    <3> QED
      BY <1>0, <2>2, <3>2, <3>3 DEF NextHuc, WorkTo
  <2>3. CASE PrepareHuc(w)
    <3>1. /\ UNCHANGED <<finished, failed, todo, huc>> /\ phase[w] = "prepare"
          /\ \/ prepared'[r] = prepared[r] \cup {huc[w]} /\ phase'[w] = "removeFailed"
             \/ prepared' = prepared /\ phase'[w] = "addFailed"
      BY <1>0, <2>0, <2>3 DEF PrepareHuc, WorkTo, redisVars, accounting
    <3> QED
      BY <2>0, <3>1 DEF DealsWith, Touched, AtHuc
  <2>4. CASE RemoveFailed(w)
    <3>1. /\ UNCHANGED <<finished, prepared, todo, huc>> /\ phase[w] = "removeFailed"
          /\ failed'[r] = failed[r] \ {huc[w]} /\ phase'[w] = "addFinished"
      BY <1>0, <2>0, <2>4 DEF RemoveFailed, WorkTo
    <3>2. huc[w] \in prepared[r]
      BY <2>0, <3>1 DEF IInv, Knows
    <3> QED
      BY <2>0, <3>1, <3>2 DEF DealsWith, Touched, AtHuc
  <2>5. CASE AddFailed(w)
    <3>1. /\ UNCHANGED <<finished, prepared, todo, huc>> /\ phase[w] = "addFailed"
          /\ failed'[r] = failed[r] \cup {huc[w]} /\ phase'[w] = "failureCheck"
      BY <1>0, <2>0, <2>5 DEF AddFailed, WorkTo
    <3> QED
      BY <2>0, <3>1 DEF DealsWith, Touched, AtHuc
  <2>6. CASE FailureCheck(w) \/ FailureSet(w)
    <3>1. /\ UNCHANGED <<finished, failed, prepared, todo, huc>>
          /\ phase[w] \in {"failureCheck", "failureSet"} /\ phase'[w] \in {"failureSet", "addFinished"}
      BY <1>0, <2>6 DEF FailureCheck, FailureSet, Look, SetState, WorkTo, redisVars, accounting
    <3> QED
      BY <2>0, <3>1 DEF DealsWith, Touched, AtHuc
  <2>7. CASE AddFinished(w)
    <3>1. /\ UNCHANGED <<failed, prepared, todo, huc>> /\ phase[w] = "addFinished"
          /\ finished'[r] = finished[r] \cup {huc[w]} /\ phase'[w] = "decide"
      BY <1>0, <2>0, <2>7 DEF AddFinished, WorkTo
    <3> QED
      BY <2>0, <3>1 DEF DealsWith, Touched, AtHuc
  <2> QED
    BY <1>8, <2>1, <2>2, <2>3, <2>4, <2>5, <2>6, <2>7 DEF Prepare
<1> QED
  BY <1>2, <1>3, <1>5, <1>6, <1>7, <1>8 DEF Act, Work

\* A step keeps Once while no message is lost or redelivered.
LEMMA OnceStep ==
    ASSUME IInv, Once, Tidy', [Next]_vars
    PROVE  Once'
BY SingleStep, UnbegunStep, WaitingStep, ExactStep, UnsentStep, InOrderStep DEF Once

-----------------------------------------------------------------------------
(* Every HUC exactly once, when nothing fails and nobody cancels. *)

\* A cancellation goes on only in its own request.
LEMMA CancelStep ==
    ASSUME IInv, [Next]_vars, NEW r \in Runs
    PROVE  \/ cancelling'[r] = cancelling[r] /\ (r \in revoked' <=> r \in revoked)
           \/ Cancel(r) \/ AbandonCancel(r)
<1> USE DEF apiVars
<1>0. TypeOK
  BY DEF IInv
<1>1. ASSUME NEW q \in Runs, Submit(q) \/ AbandonSubmission(q) PROVE UNCHANGED <<cancelling, revoked>>
  BY <1>1 DEF Submit, AbandonSubmission, Reserve, StoreRun, SendCoordinator,
              RecordSendFailure, ReleaseAfterError
<1>2. ASSUME NEW q \in Runs, q # r, Cancel(q) \/ AbandonCancel(q)
      PROVE  cancelling'[r] = cancelling[r] /\ (r \in revoked' <=> r \in revoked)
  BY <1>0, <1>2 DEF Cancel, AbandonCancel, CancelRead, CancelSet, CancelCheckHolder,
              CancelRelease, CancelRevoke, CancelTo, TypeOK
<1>3. ASSUME NEW w \in Workers, Act(w) PROVE UNCHANGED <<cancelling, revoked>>
  <2>1. CASE Coordinate(w)
    BY <2>1 DEF Coordinate, Discover, Confirm, MarkRunningCheck, MarkRunning, SendBatch, QueueBatch,
                FailCheck, FailSet, FailRelease, Look, SetState, DeleteReservation
  <2>2. CASE Prepare(w)
    BY <2>2 DEF Prepare, Open, NextHuc, PrepareHuc, RemoveFailed, AddFailed, FailureCheck,
                FailureSet, AddFinished, Decide, Judge, Conclude, ReleaseAfterLast,
                Look, SetState, DeleteReservation
  <2> QED
    BY <1>3, <2>1, <2>2 DEF Act, Work, Receive, Begin, Acknowledge, Discard, TaskRaises,
                            SendRaises, CrashWorker, Look
<1>4. CASE Expire \/ UNCHANGED vars \/ \E t \in Tasks : Restore(t)
  BY <1>4 DEF Expire, vars, Restore
<1> QED
  BY <1>1, <1>2, <1>3, <1>4 DEF Next, Act

\* A run that is undisturbed was so before.
LEMMA UndisturbedStep ==
    ASSUME IInv, [Next]_vars, NEW r \in Runs, Undisturbed(r)'
    PROVE  Undisturbed(r)
<1>0. TypeOK /\ faults = {} /\ faults' = {}
  BY FaultsGrow DEF IInv, Undisturbed
<1>1. ~AbandonCancel(r)
  BY <1>0 DEF AbandonCancel, Fault
<1>2. CASE Cancel(r)
  BY <1>0, <1>2 DEF Cancel, CancelRead, CancelSet, CancelCheckHolder, CancelRelease, CancelRevoke,
                    CancelTo, TypeOK, Undisturbed, apiVars
<1>3. CASE cancelling'[r] = cancelling[r] /\ (r \in revoked' <=> r \in revoked)
  BY <1>0, <1>3 DEF Undisturbed
<1> QED
  BY <1>1, <1>2, <1>3, CancelStep

\* Once every HUC is finished nobody touches the accounts of the run any more.
LEMMA AccountsClosed ==
    ASSUME IInv, Once, [Next]_vars, NEW r \in Runs, finished[r] = Hucs
    PROVE  /\ finished'[r] = Hucs /\ prepared'[r] = prepared[r] /\ failed'[r] = failed[r]
           /\ \A w \in Workers : phase[w] \in AtHuc /\ task[w] \in Tasks => Run(w) # r
<1>1. TypeOK /\ TypeOK'
  BY TypeStep DEF IInv
<1>2. ASSUME NEW w \in Workers, phase[w] \in AtHuc, task[w] \in Tasks, Run(w) = r PROVE FALSE
  <2>1. task[w][2] \in Batches /\ task[w] = <<r, task[w][2]>>
    BY <1>1, <1>2, TaskFacts DEF IInv, Employed, AtBatch, Run
  <2>2. huc[w] \notin finished[r] /\ huc[w] \in Hucs
    BY <1>2, <2>1 DEF Once, InOrder, DealsWith, IInv, Employed
  <2> QED
    BY <2>2
<1>3. ASSUME NEW h \in Hucs PROVE Kept(h, r)
  BY <1>2, Touching
<1> QED
  BY <1>1, <1>2, <1>3 DEF Kept, TypeOK

\* An undisturbed run is not cancelled.
LEMMA NotCancelledStep ==
    ASSUME IInv, Exactly, [Next]_vars, NEW r \in Runs
    PROVE  NotCancelled(r)'
<1> SUFFICES ASSUME Undisturbed(r)', status'[r] = "cancelled" PROVE FALSE
  BY DEF NotCancelled
<1>0. TypeOK /\ Undisturbed(r) /\ status[r] # "cancelled"
  BY UndisturbedStep DEF IInv, Exactly, NotCancelled
<1>1. CASE StoreRun(r) \/ RecordSendFailure(r)
  BY <1>0, <1>1 DEF StoreRun, RecordSendFailure, SetStatus, TypeOK
<1>2. CASE CancelSet(r)
  BY <1>0, <1>2 DEF CancelSet, CancelTo, TypeOK, Undisturbed
<1>3. ASSUME NEW w \in Workers, Run(w) = r,
             MarkRunning(w) \/ FailSet(w) \/ FailureSet(w) \/ Conclude(w)
      PROVE  FALSE
  BY <1>0, <1>3 DEF MarkRunning, FailSet, FailureSet, Conclude, SetState, SetStatus, TypeOK
<1> QED
  BY <1>0, <1>1, <1>2, <1>3, StatusWriters

FailSteps == {"failCheck", "failSet", "failRelease"}

\* Unless a command or a message fails, a coordinator fails only while it looks for the HUCs.
LEMMA FailingStep ==
    ASSUME IInv, NEW w \in Workers, Act(w), ~TaskRaises(w), ~SendRaises(w), phase'[w] \in FailSteps
    PROVE  /\ phase[w] \in {"discover"} \cup FailSteps
           /\ UNCHANGED <<task, total, ready, submission>>
<1>0. TypeOK
  BY DEF IInv
<1>1. CASE \E t \in Tasks : Receive(w, t)
  BY <1>0, <1>1 DEF Receive, WorkTo, TypeOK, FailSteps
<1>2. CASE Begin(w) \/ Discard(w) \/ Acknowledge(w) \/ CrashWorker(w)
  <2>1. phase'[w] \in {"acknowledge", "idle", "discover", "open"}
    BY <1>0, <1>2, DropFacts DEF Begin, Discard, Acknowledge, CrashWorker, Look, WorkTo, TypeOK
  <2> QED
    BY <2>1 DEF FailSteps
<1>3. CASE Coordinate(w)
  <2>1. CASE Discover(w) \/ FailCheck(w) \/ FailSet(w) \/ FailRelease(w)
    BY <2>1 DEF Discover, FailCheck, FailSet, FailRelease, Look, SetState, DeleteReservation,
                redisVars, accounting, brokerVars, apiVars, FailSteps
  <2>2. CASE Confirm(w) \/ MarkRunningCheck(w) \/ MarkRunning(w) \/ \E b \in Batches : SendBatch(w, b)
    <3>1. phase'[w] \in {"acknowledge", "markCheck", "markRunning", "sendBatches"}
      BY <1>0, <2>2 DEF Confirm, MarkRunningCheck, MarkRunning, SendBatch, QueueBatch, Look, WorkTo, TypeOK
    <3> QED
      BY <3>1 DEF FailSteps
  <2> QED
    BY <1>3, <2>1, <2>2 DEF Coordinate
<1>4. CASE Prepare(w)
  <2>1. phase'[w] \in AtBatch \cup {"acknowledge"}
    BY <1>0, <1>4 DEF Prepare, Open, NextHuc, PrepareHuc, RemoveFailed, AddFailed, FailureCheck,
                FailureSet, AddFinished, Decide, Judge, Conclude, ReleaseAfterLast,
                Look, SetState, DeleteReservation, WorkTo, TypeOK, AtBatch, AtHuc, AtEnd
  <2> QED
    BY <2>1 DEF FailSteps, AtBatch, AtHuc, AtEnd
<1> QED
  BY <1>1, <1>2, <1>3, <1>4 DEF Act, Work

\* A run is concluded as failed only when a failed HUC was seen.
LEMMA ConcludeFailedStep ==
    ASSUME IInv, NEW w \in Workers, Act(w), phase'[w] = "concludeFailed"
    PROVE  Judge(w) /\ failed[Run(w)] # {}
<1>0. TypeOK
  BY DEF IInv
<1>1. CASE \E t \in Tasks : Receive(w, t)
  BY <1>0, <1>1 DEF Receive, WorkTo, TypeOK
<1>2. CASE Begin(w) \/ Discard(w) \/ TaskRaises(w) \/ SendRaises(w) \/ Acknowledge(w) \/ CrashWorker(w)
  <2>1. phase'[w] \in {"acknowledge", "failCheck", "idle", "discover", "open"}
    BY <1>0, <1>2, DropFacts DEF Begin, Discard, TaskRaises, SendRaises, Acknowledge, CrashWorker,
                                 Look, WorkTo, TypeOK
  <2> QED
    BY <2>1
<1>3. CASE Coordinate(w)
  BY <1>0, <1>3 DEF Coordinate, Discover, Confirm, MarkRunningCheck, MarkRunning, SendBatch, QueueBatch, FailCheck,
                    FailSet, FailRelease, Look, SetState, DeleteReservation, WorkTo, TypeOK
<1>4. CASE Prepare(w)
  BY <1>0, <1>4 DEF Prepare, Open, NextHuc, PrepareHuc, RemoveFailed, AddFailed, FailureCheck,
                FailureSet, AddFinished, Decide, Judge, Conclude, ReleaseAfterLast,
                Look, SetState, DeleteReservation, WorkTo, TypeOK
<1> QED
  BY <1>1, <1>2, <1>3, <1>4 DEF Act, Work

\* Without faults no failure is recorded but that of a HUC.
LEMMA SmoothStep ==
    ASSUME IInv, Exactly, [Next]_vars
    PROVE  Smooth'
<1> SUFFICES ASSUME faults' = {}
             PROVE  /\ \A r \in Runs : submission'[r] \notin {"recordFailure", "release", "lost"}
                    /\ \A w \in Workers :
                          /\ phase'[w] \in FailSteps => Run(w)' \notin total'
                          /\ phase'[w] = "concludeFailed" => prepared'[Run(w)'] # Hucs
  BY DEF Smooth, FailSteps
<1>0. TypeOK /\ TypeOK' /\ faults = {} /\ Once /\ Single /\ Tidy'
  BY FaultsGrow, TypeStep DEF IInv, Exactly, Tidy, Once
<1>1. ASSUME NEW r \in Runs PROVE submission'[r] \notin {"recordFailure", "release", "lost"}
  <2>1. submission[r] \notin {"recordFailure", "release", "lost"}
    BY <1>0 DEF Exactly, Smooth
  <2>2. CASE Submit(r) \/ AbandonSubmission(r)
    BY <1>0, <2>1, <2>2 DEF Submit, AbandonSubmission, Reserve, StoreRun, SendCoordinator,
                RecordSendFailure, ReleaseAfterError, SubmitTo, Fault, TypeOK
  <2> QED
    BY <2>1, <2>2, SubmissionStep
<1>2. ASSUME NEW w \in Workers, phase'[w] \in FailSteps PROVE Run(w)' \notin total'
  <2>1. phase[w] \in {"discover"} \cup FailSteps /\ task'[w] = task[w]
    <3>1. CASE Act(w)
      <4>1. ~TaskRaises(w) /\ ~SendRaises(w)
        BY <1>0 DEF TaskRaises, SendRaises, Fault
      <4> QED
        BY <1>2, <3>1, <4>1, FailingStep
    <3>2. CASE ~Act(w)
      BY <1>0, <1>2, <3>2, Actors, OthersRest DEF workerVars
    <3> QED
      BY <3>1, <3>2
  <2>2. task[w] \in Tasks /\ task[w] = <<Run(w), Coordinator>> /\ Run(w) \in Runs /\ Run(w)' = Run(w)
    BY <1>0, <2>1, TaskFacts DEF IInv, Employed, AtCoordinator, Coordinating, FailSteps, TypeOK, Run
  <2>3. Run(w) \notin total
    <3>1. CASE phase[w] = "discover"
      BY <1>0, <2>2, <3>1 DEF Once, Unbegun, Ahead
    <3>2. CASE phase[w] \in FailSteps
      BY <1>0, <3>2 DEF Exactly, Smooth, FailSteps
    <3> QED
      BY <2>1, <3>1, <3>2
  <2>4. ASSUME NEW v \in Workers, MarkRunning(v), Run(v) = Run(w) PROVE FALSE
    <3>1. task[v] = task[w]
      <4>1. task[v] \in Tasks /\ task[v][2] = Coordinator
        BY <1>0, <2>4 DEF MarkRunning, IInv, Employed, AtCoordinator, Coordinating, TypeOK
      <4>2. task[v] = <<task[v][1], Coordinator>>
        BY <4>1, TaskFacts
      <4> QED
        BY <2>2, <2>4, <4>2 DEF Run
    <3>2. v = w
      BY <1>0, <2>2, <3>1, TaskFacts DEF Single
    <3> QED
      BY <2>1, <2>4, <3>2 DEF MarkRunning, FailSteps
  <2> QED
    BY <2>2, <2>3, <2>4, TotalStep
<1>3. ASSUME NEW w \in Workers, phase'[w] = "concludeFailed" PROVE prepared'[Run(w)'] # Hucs
  <2>1. phase[w] \in {"judge", "concludeFailed"} /\ task'[w] = task[w]
        /\ (phase[w] = "judge" => failed[Run(w)] # {})
    <3>1. CASE Act(w)
      BY <1>3, <3>1, ConcludeFailedStep DEF Judge, Look
    <3>2. CASE ~Act(w)
      BY <1>0, <1>3, <3>2, Actors, OthersRest DEF workerVars
    <3> QED
      BY <3>1, <3>2
  <2>2. task[w] \in Tasks /\ Run(w) \in Runs /\ Run(w)' = Run(w) /\ finished[Run(w)] = Hucs
    BY <1>0, <2>1, TaskFacts DEF IInv, Employed, Knows, TypeOK, Run
  <2>3. prepared[Run(w)] # Hucs
    <3>1. CASE phase[w] = "judge"
      <4>1. PICK h \in Hucs : h \in failed[Run(w)]
        BY <1>0, <2>1, <2>2, <3>1 DEF TypeOK
      <4> QED
        BY <1>0, <2>2, <4>1 DEF Once, Exact
    <3>2. CASE phase[w] = "concludeFailed"
      BY <1>0, <3>2 DEF Exactly, Smooth
    <3> QED
      BY <2>1, <3>1, <3>2
  <2>4. prepared'[Run(w)] = prepared[Run(w)]
    BY <1>0, <2>2, AccountsClosed
  <2> QED
    BY <2>2, <2>3, <2>4
<1> QED
  BY <1>1, <1>2, <1>3

\* A HUC that no step has dealt with stays on its way.
LEMMA UnderwayStep ==
    ASSUME IInv, Exactly, [Next]_vars, NEW r \in Runs, Undisturbed(r)', NEW h \in Hucs,
           Underway(h, r), h \notin finished'[r]
    PROVE  Underway(h, r)'
<1>0. /\ TypeOK /\ TypeOK' /\ Once /\ Single /\ Tidy'
      /\ faults = {} /\ faults' = {} /\ status[r] # "cancelled"
  BY FaultsGrow, TypeStep, UndisturbedStep
  DEF IInv, Exactly, Tidy, Once, Undisturbed, NotCancelled
<1>1. ASSUME NEW b \in Batches, h \in b, ready[<<r, b>>] # 0 PROVE Underway(h, r)'
  <2>1. <<r, b>> \in Tasks /\ b # Coordinator
    BY TaskFacts
  <2>2. CASE ready'[<<r, b>>] # 0
    BY <1>1, <2>2 DEF Underway
  <2>3. ASSUME NEW w \in Workers, NEW t \in Tasks, Receive(w, t), ready'[<<r, b>>] = 0
        PROVE  Underway(h, r)'
    <3>1. t = <<r, b>>
      BY <1>0, <1>1, <2>1, <2>3 DEF Receive, TypeOK
    <3>2. task'[w] = <<r, b>> /\ todo'[w] = b /\ phase'[w] = "begin"
      BY <1>0, <2>3, <3>1 DEF Receive, WorkTo, TypeOK
    <3> QED
      BY <1>1, <2>1, <3>2, TaskFacts DEF Underway, Run
  <2>4. ASSUME NEW q \in Runs, SendCoordinator(q), Send(<<q, Coordinator>>)
        PROVE  ready'[<<r, b>>] # 0
    <3>1. <<q, Coordinator>> \in Tasks
      BY TaskFacts
    <3>2. <<r, b>> # <<q, Coordinator>>
      BY <2>1
    <3> QED
      BY <1>0, <1>1, <2>1, <2>4, <3>1, <3>2, SendFacts
  <2>5. ASSUME NEW w \in Workers, NEW c \in Batches, Dispatch(w, c)
        PROVE  ready'[<<r, b>>] # 0
    <3>1. <<Run(w), c>> \in Tasks /\ ready'[<<Run(w), c>>] = ready[<<Run(w), c>>] + 1
          /\ \A u \in Tasks : u # <<Run(w), c>> => ready'[u] = ready[u]
      BY <1>0, <2>5, DispatchFacts
    <3>2. \A u \in Tasks : ready[u] \in Nat /\ ready[u] + 1 # 0
      BY <1>0 DEF TypeOK
    <3>3. CASE <<r, b>> = <<Run(w), c>>
      BY <3>1, <3>2, <3>3
    <3>4. CASE <<r, b>> # <<Run(w), c>>
      BY <1>1, <2>1, <3>1, <3>4
    <3> QED
      BY <3>3, <3>4
  <2> QED
    BY <1>0, <1>1, <2>2, <2>3, <2>4, <2>5, Messages DEF Acknowledge
<1>2. ASSUME NEW w \in Workers, task[w] # NoTask, Run(w) = r,
             \/ phase[w] = "sendBatches" /\ h \in todo[w]
             \/ task[w][2] \in Batches /\ phase[w] # "acknowledge" /\ h \in todo[w]
             \/ phase[w] \in AtHuc /\ h = huc[w]
      PROVE  Underway(h, r)'
  <2>0. task[w] \in Tasks /\ Employed(w) /\ Coordinator \notin Batches
    BY <1>0, <1>2, TaskFacts DEF IInv, TypeOK
  <2>1. ASSUME task'[w] = task[w],
               \/ phase'[w] = "sendBatches" /\ h \in todo'[w]
               \/ task[w][2] \in Batches /\ phase'[w] # "acknowledge" /\ h \in todo'[w]
               \/ phase'[w] \in AtHuc /\ h = huc'[w]
        PROVE  Underway(h, r)'
    BY <1>2, <2>1 DEF Underway, Run
  <2>2. CASE ~Act(w)
    <3>1. phase'[w] = phase[w] /\ task'[w] = task[w] /\ todo'[w] = todo[w] /\ huc'[w] = huc[w]
      BY <1>0, <2>2, Actors, OthersRest DEF workerVars
    <3> QED
      BY <1>2, <2>1, <3>1
  <2>3. ~TaskRaises(w) /\ ~SendRaises(w) /\ ~CrashWorker(w)
    BY <1>0 DEF TaskRaises, SendRaises, CrashWorker, Fault
  <2>4. ~(\E t \in Tasks : Receive(w, t)) /\ ~Acknowledge(w)
    BY <1>2, <2>0 DEF Receive, Acknowledge, Employed, AtHuc
  <2>5. CASE Begin(w) \/ Discard(w)
    <3>1. phase[w] = "begin" /\ task[w][2] \in Batches /\ h \in todo[w]
      BY <1>2, <2>5 DEF Begin, Discard, Look, AtHuc
    <3>2. task' = task /\ todo' = todo /\ phase'[w] = "open"
      BY <1>0, <1>2, <2>0, <2>5, <3>1 DEF Begin, Discard, Look, IsCancelled, WorkTo, TypeOK
    <3> QED
      BY <2>1, <3>1, <3>2
  <2>6. CASE Coordinate(w)
    <3>1. phase[w] \in AtCoordinator
      BY <2>6 DEF Coordinate, Discover, Confirm, MarkRunningCheck, MarkRunning, SendBatch, QueueBatch,
                  FailCheck, FailSet, FailRelease, Look, SetState, DeleteReservation,
                  AtCoordinator, Coordinating
    <3>2. phase[w] = "sendBatches" /\ h \in todo[w]
      BY <1>2, <2>0, <3>1 DEF Employed, AtCoordinator, Coordinating, AtHuc
    <3>3. PICK b \in Batches : SendBatch(w, b)
      BY <2>6, <3>2 DEF Coordinate, Discover, Confirm, MarkRunningCheck, MarkRunning,
                  FailCheck, FailSet, FailRelease, Look, SetState, DeleteReservation
    <3>4. CASE h \in b
      <4>1. ready'[<<r, b>>] # 0
        BY <1>0, <1>2, <3>3, Dispatching, DispatchFacts DEF TypeOK
      <4> QED
        BY <3>4, <4>1 DEF Underway
    <3>5. CASE h \notin b
      <4>1. task' = task /\ h \in todo'[w] /\ phase'[w] = "sendBatches"
        BY <1>0, <3>2, <3>3, <3>5 DEF SendBatch, QueueBatch, WorkTo, TypeOK
      <4> QED
        BY <2>1, <4>1
    <3> QED
      BY <3>4, <3>5
  <2>7. CASE Prepare(w)
    <3>0. task[w][2] \in Batches /\ task' = task
      BY <2>0, <2>7 DEF Prepare, Open, NextHuc, PrepareHuc, RemoveFailed, AddFailed, FailureCheck,
              FailureSet, AddFinished, Decide, Judge, Conclude, ReleaseAfterLast,
              Look, SetState, DeleteReservation, Employed, AtBatch, AtHuc, AtEnd
    <3>1. CASE NextHuc(w)
      <4>1. phase[w] = "next" /\ h \in todo[w]
        BY <1>2, <3>1 DEF NextHuc, AtHuc
      <4>2. ~IsCancelled(w)
        BY <1>0, <1>2 DEF IsCancelled
      <4>3. h \in todo'[w] \/ h = huc'[w]
        BY <1>0, <3>1, <4>1, <4>2 DEF NextHuc, TypeOK
      <4>4. phase'[w] \in {"addFailed", "prepare"}
        BY <1>0, <3>1, <4>1, <4>2 DEF NextHuc, WorkTo, TypeOK
      <4> QED
        BY <2>1, <3>0, <4>3, <4>4 DEF AtHuc
    <3>2. CASE Open(w) \/ Decide(w) \/ Judge(w) \/ Conclude(w) \/ ReleaseAfterLast(w)
      <4>1. /\ todo' = todo /\ phase'[w] # "acknowledge" /\ phase[w] \notin AtHuc
        BY <1>0, <3>2 DEF Open, Decide, Judge, Conclude, ReleaseAfterLast, Look, SetState,
                DeleteReservation, WorkTo, AtHuc, TypeOK
      <4> QED
        BY <1>2, <2>1, <3>0, <4>1
    <3>3. CASE PrepareHuc(w) \/ RemoveFailed(w) \/ AddFailed(w) \/ FailureCheck(w) \/ FailureSet(w)
      <4>1. UNCHANGED <<todo, huc>> /\ phase'[w] \in AtHuc /\ phase'[w] # "acknowledge"
        BY <1>0, <3>3 DEF PrepareHuc, RemoveFailed, AddFailed, FailureCheck, FailureSet, Look,
                SetState, WorkTo, AtHuc, TypeOK
      <4> QED
        BY <1>2, <2>1, <3>0, <4>1
    <3>4. CASE AddFinished(w)
      <4>1. UNCHANGED <<todo, huc>> /\ phase'[w] = "decide" /\ huc[w] \in finished'[r]
        BY <1>0, <1>2, <3>4 DEF AddFinished, WorkTo, TypeOK
      <4> QED
        BY <1>2, <2>1, <3>0, <4>1
    <3> QED
      BY <2>7, <3>1, <3>2, <3>3, <3>4 DEF Prepare
  <2> QED
    BY <2>2, <2>3, <2>4, <2>5, <2>6, <2>7 DEF Act, Work
<1> QED
  BY <1>1, <1>2 DEF Underway

\* No HUC of an undisturbed run is forgotten.
LEMMA CoveredStep ==
    ASSUME IInv, Exactly, [Next]_vars, NEW r \in Runs
    PROVE  Covered(r)'
<1> SUFFICES ASSUME Undisturbed(r)', r \in total', NEW h \in Hucs, h \notin finished'[r]
             PROVE  Underway(h, r)'
  BY DEF Covered
<1>0. TypeOK /\ TypeOK' /\ Undisturbed(r)
  BY TypeStep, UndisturbedStep DEF IInv
<1>1. CASE r \in total
  <2>1. h \notin finished[r]
    BY Growth
  <2>2. Underway(h, r)
    BY <1>0, <1>1, <2>1 DEF Exactly, Covered
  <2> QED
    BY <2>2, UnderwayStep
<1>2. CASE r \notin total
  <2>1. PICK w \in Workers : MarkRunning(w) /\ Run(w) = r
    BY <1>2, TotalStep
  <2>2. /\ task'[w] = task[w] /\ phase'[w] = "sendBatches"
        /\ todo'[w] = Hucs /\ task[w] # NoTask
    BY <1>0, <2>1 DEF MarkRunning, WorkTo, IInv, Employed, TypeOK
  <2> QED
    BY <2>1, <2>2 DEF Underway, Run
<1> QED
  BY <1>1, <1>2

\* A run with every HUC finished is decided, or a worker is about to decide it.
LEMMA DecidedStep ==
    ASSUME IInv, Exactly, [Next]_vars, NEW r \in Runs
    PROVE  Decided(r)'
<1> SUFFICES ASSUME Undisturbed(r)', r \in total', finished'[r] = Hucs
             PROVE  Deciding(r)' \/ status'[r] = Outcome(r)'
  BY DEF Decided
<1>0. /\ TypeOK /\ TypeOK' /\ Once /\ Single /\ Undisturbed(r) /\ Smooth
      /\ faults = {} /\ faults' = {} /\ status[r] # "cancelled" /\ Hucs # {}
  BY FaultsGrow, TypeStep, UndisturbedStep, PreparationAssumption
  DEF IInv, Exactly, Tidy, Once, Undisturbed, NotCancelled
<1>1. ASSUME NEW w \in Workers, MarkRunning(w), Run(w) = r PROVE FALSE
  <2>1. task[w] \in Tasks /\ task[w][2] = Coordinator
    BY <1>0, <1>1 DEF MarkRunning, IInv, Employed, AtCoordinator, Coordinating, TypeOK
  <2>2. task[w] = <<r, Coordinator>>
    BY <1>1, <2>1, TaskFacts DEF Run
  <2>3. finished[r] = {}
    BY <1>0, <1>1, <2>2 DEF MarkRunning, Once, Unbegun, Ahead, Touched
  <2>4. finished' = finished
    BY <1>1 DEF MarkRunning
  <2> QED
    BY <1>0, <2>3, <2>4
<1>2. r \in total
  BY <1>1, TotalStep
<1>3. CASE finished[r] # Hucs
  <2>1. PICK w \in Workers : AddFinished(w)
    BY <1>0, <1>3, Actors, AccountsRest
    DEF PrepareHuc, RemoveFailed, AddFailed, redisVars, accounting
  <2>2. Run(w) = r /\ task[w] # NoTask
    <3>1. Run(w) = r
      BY <1>0, <1>3, <2>1 DEF AddFinished, TypeOK
    <3> QED
      BY <2>1, <3>1 DEF AddFinished, IInv, Employed
  <2>3. phase'[w] = "decide" /\ task' = task
    BY <1>0, <2>1 DEF AddFinished, WorkTo, TypeOK
  <2> QED
    BY <2>2, <2>3 DEF Deciding, AtEnd, Run
<1>4. CASE finished[r] = Hucs
  <2>1. /\ prepared'[r] = prepared[r] /\ failed'[r] = failed[r] /\ Outcome(r)' = Outcome(r)
        /\ \A w \in Workers : phase[w] \in AtHuc /\ task[w] \in Tasks => Run(w) # r
    BY <1>0, <1>4, AccountsClosed DEF Outcome
  <2>2. ASSUME NEW w \in Workers, Conclude(w), Run(w) = r PROVE status'[r] = Outcome(r)
    <3>1. CASE SetState(w, "concludeCompleted", "completed", "release")
      <4>1. prepared[r] = Hucs
        BY <2>2, <3>1 DEF SetState, IInv, Knows
      <4> QED
        BY <1>0, <2>2, <3>1, <4>1 DEF SetState, SetStatus, Outcome, TypeOK
    <3>2. CASE SetState(w, "concludeFailed", "failed", "release")
      <4>1. prepared[r] # Hucs
        BY <1>0, <2>2, <3>2 DEF SetState, Smooth
      <4> QED
        BY <1>0, <2>2, <3>2, <4>1 DEF SetState, SetStatus, Outcome, TypeOK
    <3> QED
      BY <2>2, <3>1, <3>2 DEF Conclude
  <2>3. CASE status[r] = Outcome(r)
    <3>1. ~StoreRun(r)
      BY <1>0, <1>4 DEF StoreRun, Once, Unbegun, Ahead, Touched
    <3>2. ~RecordSendFailure(r)
      BY <1>0 DEF RecordSendFailure, Smooth
    <3>3. ~CancelSet(r)
      BY <1>0 DEF CancelSet, CancelTo, TypeOK, Undisturbed
    <3>4. ASSUME NEW w \in Workers, FailSet(w), Run(w) = r PROVE FALSE
      BY <1>0, <1>2, <3>4 DEF FailSet, SetState, Smooth
    <3>5. ASSUME NEW w \in Workers, FailureSet(w), Run(w) = r PROVE FALSE
      <4>1. phase[w] \in AtHuc /\ task[w] \in Tasks
        BY <1>0, <3>5 DEF FailureSet, SetState, AtHuc, IInv, Employed, TypeOK
      <4> QED
        BY <2>1, <3>5, <4>1
    <3> QED
      BY <1>1, <2>1, <2>2, <2>3, <3>1, <3>2, <3>3, <3>4, <3>5, StatusWriters
  <2>4. ASSUME NEW w \in Workers, task[w] # NoTask, Run(w) = r, phase[w] \in AtEnd
        PROVE  Deciding(r)' \/ status'[r] = Outcome(r)
    <3>1. ASSUME task'[w] = task[w], phase'[w] \in AtEnd PROVE Deciding(r)'
      BY <2>4, <3>1 DEF Deciding, Run
    <3>2. CASE ~Act(w)
      BY <1>0, <2>4, <3>1, <3>2, Actors, OthersRest DEF workerVars
    <3>3. CASE Decide(w)
      <4>1. ~IsCancelled(w) /\ Cardinality(finished[r]) >= Cardinality(Hucs)
        BY <1>0, <1>4, <2>4, PreparationAssumption, FS_CardinalityType DEF IsCancelled
      <4>2. task' = task /\ phase'[w] = "judge"
        BY <1>0, <1>2, <2>4, <3>3, <4>1 DEF Decide, Look, WorkTo, TypeOK
      <4> QED
        BY <3>1, <4>2 DEF AtEnd
    <3>4. CASE Judge(w)
      <4>1. task' = task /\ phase'[w] \in {"concludeCompleted", "concludeFailed"}
        BY <1>0, <3>4 DEF Judge, Look, WorkTo, TypeOK
      <4> QED
        BY <3>1, <4>1 DEF AtEnd
    <3>5. CASE Conclude(w)
      BY <2>2, <2>4, <3>5
    <3>6. CASE Act(w) /\ ~Decide(w) /\ ~Judge(w) /\ ~Conclude(w)
      <4>1. ~TaskRaises(w) /\ ~SendRaises(w) /\ ~CrashWorker(w)
        BY <1>0 DEF TaskRaises, SendRaises, CrashWorker, Fault
      <4>2. CASE Coordinate(w)
        BY <2>4, <4>2 DEF Coordinate, Discover, Confirm, MarkRunningCheck, MarkRunning, SendBatch, QueueBatch,
                    FailCheck, FailSet, FailRelease, Look, SetState, DeleteReservation, AtEnd
      <4>3. CASE Prepare(w)
        BY <2>4, <3>6, <4>3 DEF Prepare, Open, NextHuc, PrepareHuc, RemoveFailed, AddFailed,
                    FailureCheck, FailureSet, AddFinished, ReleaseAfterLast,
                    Look, SetState, DeleteReservation, AtEnd
      <4> QED
        BY <2>4, <3>6, <4>1, <4>2, <4>3 DEF Act, Work, Receive, Begin, Acknowledge, Discard, Look, AtEnd
    <3> QED
      BY <3>2, <3>3, <3>4, <3>5, <3>6
  <2> QED
    BY <1>0, <1>2, <1>4, <2>1, <2>3, <2>4 DEF Exactly, Decided, Deciding
<1> QED
  BY <1>3, <1>4

-----------------------------------------------------------------------------
(* The second invariant. *)

\* The second invariant holds at the start.
LEMMA ExactlyInitially == Init => Exactly
<1> SUFFICES ASSUME Init PROVE Exactly
  OBVIOUS
<1>1. Single
  BY TaskFacts DEF Init, Single, Given
<1>2. ASSUME NEW r \in Runs PROVE Unbegun(r) /\ Waiting(r) /\ Exact(r)
  BY TaskFacts DEF Init, Unbegun, Waiting, Exact, There, Given, Touched
<1>3. ASSUME NEW w \in Workers PROVE Unsent(w) /\ InOrder(w)
  BY TaskFacts DEF Init, Unsent, InOrder
<1>4. Smooth
  BY DEF Init, Smooth
<1>5. ASSUME NEW r \in Runs PROVE NotCancelled(r) /\ Covered(r) /\ Decided(r)
  BY DEF Init, NotCancelled, Covered, Decided
<1> QED
  BY <1>1, <1>2, <1>3, <1>4, <1>5 DEF Exactly, Once

\* A step keeps the second invariant.
LEMMA ExactlyStep == IInv /\ Exactly /\ [Next]_vars => Exactly'
<1> SUFFICES ASSUME IInv, Exactly, [Next]_vars PROVE Exactly'
  OBVIOUS
<1>1. Tidy' => Once'
  <2>1. Tidy' => Tidy
    BY FaultsGrow DEF Tidy
  <2> QED
    BY <2>1, OnceStep DEF Exactly
<1> QED
  BY <1>1, SmoothStep, NotCancelledStep, CoveredStep, DecidedStep DEF Exactly

\* While no worker is killed and no message redelivered, every message of a run is in the
\* queue or with one worker, every HUC is dealt with in one batch by one worker, and a
\* finished HUC was either published or failed (tasks.py); without any fault, every HUC
\* of a run that nobody cancels is finished or under way, and the last one decides.
THEOREM EveryHucOnce == Spec => []Exactly
<1>1. Init => IInv /\ Exactly
  BY Initially, ExactlyInitially
<1>2. (IInv /\ Exactly) /\ [Next]_vars => (IInv /\ Exactly)'
  BY Step, ExactlyStep
<1>3. Spec => [](IInv /\ Exactly)
  BY <1>1, <1>2, PTL DEF Spec
<1> QED
  BY <1>3, PTL

\* When the last batch of a run is over, the run has one of its two outcomes, and it is
\* "completed" exactly if it published every HUC, in whatever order its batches finished
\* on however many workers (__mark_huc_finished), when no fault and no cancellation
\* disturbed it.
THEOREM LastOneDecides == Spec => []OutcomeIsDecided
<1>1. IInv /\ Exactly => OutcomeIsDecided
  <2> SUFFICES ASSUME IInv, Exactly, NEW r \in Runs, Quiescent(r), r \in total, faults = {},
                      cancelling[r] = "none", r \notin revoked
               PROVE  status[r] = Outcome(r)
    BY DEF OutcomeIsDecided, Outcome
  <2>1. TypeOK /\ Undisturbed(r)
    BY DEF IInv, Undisturbed
  <2>2. ASSUME NEW w \in Workers, task[w] # NoTask, Run(w) = r PROVE FALSE
    <3>1. task[w] \in Tasks
      BY <2>1, <2>2 DEF TypeOK
    <3> QED
      BY <2>2, <3>1 DEF Quiescent, Holders, Run
  <2>3. ASSUME NEW b \in Batches, ready[<<r, b>>] # 0 PROVE FALSE
    <3>1. <<r, b>> \in Tasks
      BY TaskFacts
    <3> QED
      BY <2>3, <3>1 DEF Quiescent
  <2>4. finished[r] = Hucs
    <3>1. \A h \in Hucs : ~Underway(h, r)
      BY <2>2, <2>3 DEF Underway
    <3> QED
      BY <2>1, <3>1 DEF Exactly, Covered, TypeOK
  <2> QED
    BY <2>1, <2>2, <2>4 DEF Exactly, Decided, Deciding
<1> QED
  BY <1>1, Invariance, EveryHucOnce, PTL

-----------------------------------------------------------------------------
(* The reservation, while nothing undoes it. *)

\* Nobody cancelled a run, and what failed left nothing behind.
Calm == ~Cancelled /\ faults \subseteq HarmlessFaults

\* Something is still to be done for the run.
Pending(r) ==
    \/ submission[r] \in {"store", "send", "recordFailure", "release"}
    \/ \E t \in Tasks : t[1] = r /\ ready[t] # 0
    \/ \E w \in Workers :
          /\ task[w] # NoTask /\ Run(w) = r
          /\ \/ phase[w] \in {"begin", "release"} \cup AtCoordinator \cup AtHuc \cup AtEnd
             \/ task[w][2] \in Batches /\ todo[w] # {}

Holding(r) == Active(r) \/ Pending(r) => reservation = r

\* A submission that could not send its message has sent none, and the run of
\* one that is about to give the dataset free is not active.
Refusing(r) ==
    /\ submission[r] \in {"recordFailure", "release"} => \A t \in Tasks : t[1] = r => ~There(t)
    /\ submission[r] \in {"new", "store", "release"} => ~Active(r)

\* A worker that is about to give the dataset free has seen the run end.
Ending(w) ==
    /\ phase[w] \in {"failRelease", "release"} => ~Active(Run(w))
    /\ phase[w] \in FailSteps => \A b \in Batches : ~There(<<Run(w), b>>)
    /\ phase[w] = "release" => finished[Run(w)] = Hucs
    /\ phase[w] = "sendBatches" => todo[w] # {}

Lone ==
    Calm =>
        /\ \A r \in Runs : Holding(r) /\ Refusing(r) /\ status[r] # "cancelled"
        /\ \A w \in Workers : Ending(w)

\* A step of the kinds that undo the reservation is not forgotten.
LEMMA CalmBefore == ASSUME IInv, [Next]_vars, Calm' PROVE Calm
<1>0. TypeOK /\ faults \subseteq HarmlessFaults /\ faults' \subseteq HarmlessFaults
  BY FaultsGrow DEF IInv, Calm
<1>1. ASSUME NEW r \in Runs PROVE cancelling[r] = "none" /\ r \notin revoked
  <2>1. cancelling'[r] = "none" /\ r \notin revoked'
    BY DEF Calm, Cancelled
  <2>2. ~AbandonCancel(r)
    BY <1>0 DEF AbandonCancel, Fault, HarmlessFaults
  <2>3. ~Cancel(r)
    BY <1>0, <2>1 DEF Cancel, CancelRead, CancelSet, CancelCheckHolder, CancelRelease,
                      CancelRevoke, CancelTo, TypeOK
  <2> QED
    BY <2>1, <2>2, <2>3, CancelStep
<1> QED
  BY <1>0, <1>1 DEF Calm, Cancelled, TypeOK

\* What the three invariants say of a step after which all is still calm.
LEMMA CalmFacts ==
    ASSUME IInv, Exactly, Lone, [Next]_vars, Calm'
    PROVE  /\ TypeOK /\ TypeOK' /\ Once /\ Single /\ Tidy'
           /\ \A r \in Runs : /\ Holding(r) /\ Refusing(r) /\ status[r] # "cancelled"
                              /\ ~CancelSet(r) /\ ~CancelRelease(r)
           /\ \A w \in Workers : Ending(w) /\ ~SendRaises(w) /\ ~CrashWorker(w)
           /\ ~Expire /\ ~Fault("ambiguousStore") /\ ~Fault("ambiguousSend")
<1>1. TypeOK /\ TypeOK' /\ Calm
  BY TypeStep, CalmBefore DEF IInv
<1>2. faults \subseteq HarmlessFaults /\ faults' \subseteq HarmlessFaults
      /\ \A r \in Runs : cancelling[r] = "none"
  BY <1>1 DEF Calm, Cancelled
<1>3. Tidy /\ Tidy'
  BY <1>2 DEF Tidy, HarmlessFaults
<1>4. \A w \in Workers : ~SendRaises(w) /\ ~CrashWorker(w)
  BY <1>2 DEF SendRaises, CrashWorker, Fault, HarmlessFaults
<1>5. ~Expire /\ ~Fault("ambiguousStore") /\ ~Fault("ambiguousSend")
  BY <1>2 DEF Expire, Fault, HarmlessFaults
<1>6. \A r \in Runs : ~CancelSet(r) /\ ~CancelRelease(r)
  BY <1>2 DEF CancelSet, CancelRelease
<1> QED
  BY <1>1, <1>3, <1>4, <1>5, <1>6 DEF Lone, Exactly, Once

\* Work for a run begins with its reservation.
LEMMA PendingStep ==
    ASSUME IInv, Exactly, Lone, [Next]_vars, Calm',
           NEW r \in Runs, Pending(r)'
    PROVE  Pending(r) \/ Reserve(r)
<1>0. TypeOK /\ Once /\ Single /\ Tidy'
  BY CalmFacts
<1>1. CASE submission'[r] \in {"store", "send", "recordFailure", "release"}
  <2>1. CASE submission'[r] = submission[r]
    BY <1>1, <2>1 DEF Pending
  <2>2. CASE Submit(r) \/ AbandonSubmission(r)
    BY <1>0, <1>1, <2>2 DEF Submit, AbandonSubmission, StoreRun, SendCoordinator,
              RecordSendFailure, ReleaseAfterError, SubmitTo, TypeOK, Pending
  <2> QED
    BY <2>1, <2>2, SubmissionStep
<1>2. ASSUME NEW t \in Tasks, t[1] = r, ready'[t] # 0 PROVE Pending(r)
  <2>1. CASE ready[t] # 0
    BY <1>2, <2>1 DEF Pending
  <2>2. ASSUME NEW q \in Runs, t = <<q, Coordinator>>, SendCoordinator(q) PROVE Pending(r)
    BY <1>2, <2>2 DEF SendCoordinator, Pending
  <2>3. ASSUME NEW w \in Workers, NEW b \in Batches, t = <<Run(w), b>>, Dispatch(w, b)
        PROVE  Pending(r)
    <3>1. Run(w) = r /\ phase[w] = "sendBatches" /\ task[w] # NoTask
      BY <1>0, <1>2, <2>3, TaskFacts, DispatchFacts
    <3> QED
      BY <3>1 DEF Pending, AtCoordinator, Coordinating
  <2> QED
    BY <1>0, <1>2, <2>1, <2>2, <2>3, ReadyStep
<1>3. ASSUME NEW w \in Workers, task'[w] # NoTask, task'[w][1] = r,
             \/ phase'[w] \in {"begin", "release"} \cup AtCoordinator \cup AtHuc \cup AtEnd
             \/ task'[w][2] \in Batches /\ todo'[w] # {}
      PROVE  Pending(r)
  <2>1. ASSUME task[w] = task'[w],
               \/ phase[w] \in {"begin", "release"} \cup AtCoordinator \cup AtHuc \cup AtEnd
               \/ task[w][2] \in Batches /\ todo[w] # {}
        PROVE  Pending(r)
    BY <1>3, <2>1 DEF Pending, Run
  <2>2. CASE ~Act(w)
    BY <1>0, <1>3, <2>1, <2>2, Actors, OthersRest DEF workerVars
  <2>3. ASSUME NEW t \in Tasks, Receive(w, t) PROVE Pending(r)
    <3>1. t[1] = r /\ ready[t] # 0
      BY <1>0, <1>3, <2>3 DEF Receive, TypeOK
    <3> QED
      BY <3>1 DEF Pending
  <2>4. CASE Begin(w) \/ Discard(w)
    BY <2>1, <2>4 DEF Begin, Discard, Look
  <2>5. CASE Acknowledge(w)
    BY <1>0, <1>3, <2>5, DropFacts DEF Acknowledge
  <2>6. CASE Coordinate(w)
    <3>1. task' = task /\ phase[w] \in AtCoordinator
      BY <2>6 DEF Coordinate, Discover, Confirm, MarkRunningCheck, MarkRunning, SendBatch, QueueBatch,
                  FailCheck, FailSet, FailRelease, Look, SetState, DeleteReservation,
                  AtCoordinator, Coordinating
    <3> QED
      BY <2>1, <3>1
  <2>7. CASE Open(w) \/ NextHuc(w)
    <3>1. task' = task /\ phase[w] \in {"open", "next"} /\ task[w][2] \in Batches
      BY <1>0, <2>7 DEF Open, NextHuc, IInv, Employed, AtBatch
    <3>2. todo[w] # {}
      <4>1. CASE Open(w)
        <5>1. todo' = todo /\ phase'[w] = "next"
          BY <1>0, <4>1 DEF Open, WorkTo, TypeOK
        <5> QED
          BY <1>3, <5>1 DEF AtCoordinator, Coordinating, AtHuc, AtEnd
      <4>2. CASE NextHuc(w)
        <5>1. todo[w] = {} => todo'[w] = {} /\ phase'[w] = "acknowledge"
          BY <1>0, <4>2 DEF NextHuc, WorkTo, TypeOK
        <5> QED
          BY <1>3, <5>1 DEF AtCoordinator, Coordinating, AtHuc, AtEnd
      <4> QED
        BY <2>7, <4>1, <4>2
    <3> QED
      BY <2>1, <3>1, <3>2
  <2>8. CASE Prepare(w) /\ ~Open(w) /\ ~NextHuc(w)
    <3>1. task' = task /\ phase[w] \in {"release"} \cup AtHuc \cup AtEnd
      BY <2>8 DEF Prepare, PrepareHuc, RemoveFailed, AddFailed, FailureCheck,
              FailureSet, AddFinished, Decide, Judge, Conclude, ReleaseAfterLast,
              Look, SetState, DeleteReservation, AtHuc, AtEnd
    <3> QED
      BY <2>1, <3>1
  <2>9. CASE TaskRaises(w)
    <3>1. /\ UNCHANGED <<task, todo>>
          /\ phase'[w] = IF phase[w] \in Coordinating THEN "failCheck" ELSE "acknowledge"
      BY <1>0, <2>9 DEF TaskRaises, WorkTo, TypeOK
    <3>2. CASE phase[w] \in Coordinating
      BY <2>1, <3>1, <3>2 DEF AtCoordinator
    <3>3. CASE phase'[w] = "acknowledge"
      BY <1>3, <2>1, <3>1, <3>3 DEF AtCoordinator, Coordinating, AtHuc, AtEnd
    <3> QED
      BY <3>1, <3>2, <3>3
  <2>10. ~SendRaises(w) /\ ~CrashWorker(w)
    BY CalmFacts
  <2> QED
    BY <2>2, <2>3, <2>4, <2>5, <2>6, <2>7, <2>8, <2>9, <2>10 DEF Act, Work
<1> QED
  BY <1>1, <1>2, <1>3 DEF Pending, Run

\* A run becomes active only while something is still to be done for it.
LEMMA ActiveStep ==
    ASSUME IInv, [Next]_vars, NEW r \in Runs, Active(r)'
    PROVE  Active(r) \/ Pending(r)
<1>0. TypeOK
  BY DEF IInv
<1>1. CASE StoreRun(r)
  BY <1>1 DEF StoreRun, Pending
<1>2. CASE RecordSendFailure(r) \/ CancelSet(r)
  BY <1>0, <1>2 DEF RecordSendFailure, CancelSet, SetStatus, Active, TypeOK
<1>3. ASSUME NEW w \in Workers, Run(w) = r, MarkRunning(w) PROVE Pending(r)
  BY <1>3 DEF MarkRunning, Pending, IInv, Employed, AtCoordinator, Coordinating
<1>4. ASSUME NEW w \in Workers, Run(w) = r, FailSet(w) \/ FailureSet(w) \/ Conclude(w)
      PROVE  FALSE
  BY <1>0, <1>4 DEF FailSet, FailureSet, Conclude, SetState, SetStatus, Active, TypeOK
<1> QED
  BY <1>1, <1>2, <1>3, <1>4, StatusWriters DEF Active

\* Who writes the reservation.
LEMMA ReservationWriters ==
    ASSUME [Next]_vars, reservation' # reservation
    PROVE  \/ \E r \in Runs : Reserve(r) \/ ReleaseAfterError(r) \/ CancelRelease(r)
           \/ \E w \in Workers : FailRelease(w) \/ ReleaseAfterLast(w)
           \/ Expire
<1> USE DEF redisVars
<1>1. ASSUME NEW q \in Runs, Submit(q) \/ AbandonSubmission(q) \/ Cancel(q) \/ AbandonCancel(q)
      PROVE  Reserve(q) \/ ReleaseAfterError(q) \/ CancelRelease(q)
  BY <1>1 DEF Submit, AbandonSubmission, StoreRun, SendCoordinator, RecordSendFailure,
              Cancel, AbandonCancel, CancelRead, CancelSet, CancelCheckHolder, CancelRevoke
<1>2. ASSUME NEW w \in Workers, Act(w) PROVE FailRelease(w) \/ ReleaseAfterLast(w)
  <2>1. CASE Coordinate(w)
    BY <2>1 DEF Coordinate, Discover, Confirm, MarkRunningCheck, MarkRunning, SendBatch, QueueBatch,
                FailCheck, FailSet, Look, SetState
  <2>2. CASE Prepare(w)
    BY <2>2 DEF Prepare, Open, NextHuc, PrepareHuc, RemoveFailed, AddFailed, FailureCheck,
                FailureSet, AddFinished, Decide, Judge, Conclude, Look, SetState
  <2> QED
    BY <1>2, <2>1, <2>2 DEF Act, Work, Receive, Begin, Acknowledge, Discard, TaskRaises,
                            SendRaises, CrashWorker, Look
<1>3. CASE UNCHANGED vars \/ \E t \in Tasks : Restore(t)
  BY <1>3 DEF vars, Restore
<1> QED
  BY <1>1, <1>2, <1>3 DEF Next, Act

\* Giving the dataset free ends the run that held it.
LEMMA ReleaseEnds ==
    ASSUME ~ParallelBatches, IInv, Exactly, Lone, [Next]_vars, Calm', NEW r \in Runs,
           \/ ReleaseAfterError(r)
           \/ \E w \in Workers :
                 task[w] # NoTask /\ Run(w) = r /\ (FailRelease(w) \/ ReleaseAfterLast(w))
    PROVE  ~Active(r)' /\ ~Pending(r)'
<1>0. TypeOK /\ TypeOK' /\ Once /\ Single /\ Refusing(r) /\ Hucs # {}
  BY CalmFacts, PreparationAssumption
<1>1. CASE ReleaseAfterError(r)
  <2>1. submission[r] = "release" /\ submission'[r] = "refused"
        /\ UNCHANGED <<status, ready, workerVars>>
    BY <1>0, <1>1 DEF ReleaseAfterError, SubmitTo, brokerVars, TypeOK
  <2>2. ~Active(r) /\ \A t \in Tasks : t[1] = r => ~There(t)
    BY <1>0, <2>1 DEF Refusing
  <2>3. ASSUME NEW w \in Workers, task[w] # NoTask PROVE task[w][1] # r
    BY <1>0, <2>2, <2>3 DEF There, Given, TypeOK
  <2> QED
    BY <2>1, <2>2, <2>3 DEF Active, Pending, Run, There, workerVars
<1>2. ASSUME NEW w \in Workers, task[w] # NoTask, Run(w) = r, FailRelease(w)
      PROVE  ~Active(r)' /\ ~Pending(r)'
  <2>1. /\ phase[w] = "failRelease" /\ phase'[w] = "acknowledge"
        /\ UNCHANGED <<status, submission, ready, task, todo>>
    BY <1>0, <1>2 DEF FailRelease, DeleteReservation, WorkTo, TypeOK, apiVars, brokerVars
  <2>2. ~Active(r) /\ \A b \in Batches : ~There(<<r, b>>)
    BY <1>2, <2>1, CalmFacts DEF Ending, FailSteps
  <2>3. task[w] = <<r, Coordinator>> /\ <<r, Coordinator>> \in Tasks
    <3>1. task[w] \in Tasks /\ task[w][2] = Coordinator
      BY <1>0, <1>2, <2>1 DEF IInv, Employed, AtCoordinator, TypeOK
    <3> QED
      BY <1>2, <3>1, TaskFacts DEF Run
  <2>4. ready[<<r, Coordinator>>] = 0 /\ There(<<r, Coordinator>>)
    BY <1>0, <2>3 DEF Single, Given, There
  <2>5. submission[r] \notin {"store", "send", "recordFailure", "release"}
    BY <1>0, <2>3, <2>4, TaskFacts DEF Once, Unbegun, Refusing
  <2>6. ASSUME NEW t \in Tasks, t[1] = r PROVE ready[t] = 0
    <3>1. t = <<r, Coordinator>> \/ \E b \in Batches : t = <<r, b>>
      BY <2>6, TaskFacts
    <3> QED
      BY <2>2, <2>4, <3>1 DEF There
  <2>7. ASSUME NEW v \in Workers, task[v] # NoTask, Run(v) = r PROVE v = w
    <3>1. task[v] \in Tasks
      BY <1>0, <2>7 DEF TypeOK
    <3>2. task[v] = <<r, Coordinator>> \/ \E b \in Batches : task[v] = <<r, b>>
      BY <2>7, <3>1, TaskFacts DEF Run
    <3>3. task[v] = task[w]
      BY <2>2, <2>3, <3>2 DEF There, Given
    <3> QED
      BY <1>0, <2>7, <3>3 DEF Single
  <2>8. \A v \in Workers : task'[v] = task[v] /\ (Run(v)' = Run(v)) /\ todo'[v] = todo[v]
    BY <2>1 DEF Run
  <2>9. task'[w][2] \notin Batches
    BY <2>1, <2>3, TaskFacts
  <2> QED
    BY <2>1, <2>2, <2>5, <2>6, <2>7, <2>8, <2>9
    DEF Active, Pending, AtCoordinator, Coordinating, AtHuc, AtEnd
<1>3. ASSUME NEW w \in Workers, task[w] # NoTask, Run(w) = r, ReleaseAfterLast(w)
      PROVE  ~Active(r)' /\ ~Pending(r)'
  <2>1. /\ phase[w] = "release" /\ phase'[w] = "next"
        /\ UNCHANGED <<status, submission, ready, task, todo>>
    BY <1>0, <1>3 DEF ReleaseAfterLast, DeleteReservation, WorkTo, TypeOK, apiVars, brokerVars
  <2>2. ~Active(r) /\ finished[r] = Hucs
    BY <1>3, <2>1, CalmFacts DEF Ending
  <2>3. task[w] \in Tasks /\ task[w][2] \in Batches /\ task[w] = <<r, task[w][2]>>
    BY <1>0, <1>3, <2>1, TaskFacts DEF IInv, Employed, AtBatch, TypeOK, Run
  <2>4. ~Ahead(r) /\ There(task[w])
    BY <1>0, <1>3, <2>3, BatchMeansBegun
  <2>5. submission[r] \notin {"store", "send", "recordFailure", "release"}
    BY <1>0, <2>3, <2>4, TaskFacts DEF Ahead, Refusing
  <2>6. ASSUME NEW t \in Tasks, t[1] = r PROVE ready[t] = 0
    <3>1. CASE t = <<r, Coordinator>>
      BY <2>4, <3>1 DEF Ahead
    <3>2. ASSUME NEW b \in Batches, t = <<r, b>>, ready[t] # 0 PROVE FALSE
      <4>1. b \cap Touched(r) = {}
        BY <1>0, <3>2 DEF Once, Waiting
      <4> QED
        BY <2>2, <4>1, PreparationAssumption DEF Touched
    <3>3. t = <<r, Coordinator>> \/ \E b \in Batches : t = <<r, b>>
      BY <2>6, TaskFacts
    <3> QED
      BY <3>1, <3>2, <3>3
  <2>7. todo[w] = {}
    <3>1. todo[w] \cap Touched(r) = {}
      BY <1>0, <2>3 DEF Once, InOrder, DealsWith
    <3>2. todo[w] \in SUBSET Hucs
      BY <1>0 DEF TypeOK
    <3> QED
      BY <2>2, <3>1, <3>2 DEF Touched
  <2>8. ASSUME NEW v \in Workers, task[v] # NoTask, Run(v) = r, v # w
        PROVE  task[v][2] = Coordinator
               /\ phase[v] \notin {"begin", "release"} \cup AtCoordinator \cup AtHuc \cup AtEnd
    <3>1. task[v] \in Tasks /\ task[v] = <<r, task[v][2]>>
      BY <1>0, <2>8, TaskFacts DEF TypeOK, Run
    <3>2. task[v][2] = Coordinator
      <4>1. task[v][2] # task[w][2]
        BY <1>0, <2>3, <2>8, <3>1 DEF Single
      <4> QED
        BY <2>3, <2>8, <3>1, <4>1 DEF ParallelBatches, Tasks
    <3>3. phase[v] \notin Early
      BY <1>0, <2>4, <3>1, <3>2 DEF Ahead, Early
    <3>4. phase[v] # "sendBatches"
      <4>1. ASSUME phase[v] = "sendBatches" PROVE FALSE
        <5>1. todo[v] # {} /\ todo[v] \cap Touched(r) = {} /\ todo[v] \in SUBSET Hucs
          BY <1>0, <2>8, <4>1, CalmFacts DEF Ending, Once, Unsent, TypeOK
        <5> QED
          BY <2>2, <5>1 DEF Touched
      <4> QED
        BY <4>1
    <3>5. phase[v] \notin FailSteps
      BY <2>3, <2>4, <2>8, CalmFacts DEF Ending, Run
    <3>6. phase[v] \notin AtBatch
      BY <3>2, TaskFacts DEF IInv, Employed
    <3> QED
      BY <3>2, <3>3, <3>4, <3>5, <3>6
      DEF Early, FailSteps, AtCoordinator, Coordinating, AtBatch, AtHuc, AtEnd
  <2>9. \A v \in Workers : /\ task'[v] = task[v] /\ (Run(v)' = Run(v)) /\ todo'[v] = todo[v]
                            /\ (v # w => phase'[v] = phase[v])
    BY <1>0, <1>3, <2>1 DEF Run, ReleaseAfterLast, DeleteReservation, WorkTo, TypeOK
  <2> QED
    BY <2>1, <2>2, <2>5, <2>6, <2>7, <2>8, <2>9, TaskFacts
    DEF Active, Pending, AtCoordinator, Coordinating, AtHuc, AtEnd
<1> QED
  BY <1>1, <1>2, <1>3

\* An active run, and one with work to do, keeps the reservation.
LEMMA HoldingStep ==
    ASSUME ~ParallelBatches, IInv, Exactly, Lone, [Next]_vars, Calm', NEW r \in Runs
    PROVE  Holding(r)'
<1> SUFFICES ASSUME Active(r)' \/ Pending(r)' PROVE reservation' = r
  BY DEF Holding
<1>1. CASE Reserve(r)
  BY <1>1 DEF Reserve
<1>2. CASE ~Reserve(r)
  <2>1. Active(r) \/ Pending(r)
    BY <1>2, ActiveStep, PendingStep
  <2>2. reservation = r /\ r # NoRun
    BY <2>1, CalmFacts, PreparationAssumption DEF Holding
  <2>3. ASSUME NEW q \in Runs, Reserve(q) \/ CancelRelease(q) PROVE FALSE
    BY <2>2, <2>3, CalmFacts DEF Reserve, CancelRelease
  <2>4. ASSUME NEW q \in Runs, ReleaseAfterError(q) PROVE FALSE
    <3>1. q = r
      BY <2>2, <2>4, CalmFacts DEF ReleaseAfterError, Pending, Holding
    <3> QED
      BY <2>4, <3>1, ReleaseEnds
  <2>5. ASSUME NEW w \in Workers, FailRelease(w) \/ ReleaseAfterLast(w) PROVE FALSE
    <3>1. phase[w] \in {"failRelease", "release"}
      BY <2>5 DEF FailRelease, ReleaseAfterLast, DeleteReservation
    <3>2. task[w] # NoTask /\ Run(w) \in Runs
      BY <3>1, CalmFacts, TaskFacts DEF IInv, Employed, TypeOK, Run
    <3>3. Pending(Run(w))
      BY <3>1, <3>2 DEF Pending, AtCoordinator
    <3>4. Run(w) = r
      BY <2>2, <3>2, <3>3, CalmFacts DEF Holding
    <3> QED
      BY <2>5, <3>2, <3>4, ReleaseEnds
  <2> QED
    BY <2>2, <2>3, <2>4, <2>5, ReservationWriters, CalmFacts
<1> QED
  BY <1>1, <1>2

\* No task of a run is there while its submission has not sent one.
LEMMA NothingThere ==
    ASSUME IInv, Exactly, Lone, [Next]_vars, Calm', NEW r \in Runs,
           submission[r] \in {"new", "store", "send", "recordFailure", "release"}
    PROVE  /\ \A t \in Tasks : t[1] = r => ~There(t)
           /\ \A w \in Workers :
                 Run(w) = r => ~(MarkRunning(w) \/ FailSet(w) \/ FailureSet(w) \/ Conclude(w))
<1>0. TypeOK /\ Once /\ Refusing(r)
  BY CalmFacts
<1>1. ASSUME NEW t \in Tasks, t[1] = r PROVE ~There(t)
  <2>1. CASE submission[r] \in {"recordFailure", "release"}
    BY <1>0, <1>1, <2>1 DEF Refusing
  <2>2. CASE submission[r] \in {"new", "store", "send"}
    <3>1. ~There(<<r, Coordinator>>) /\ \A b \in Batches : ~There(<<r, b>>)
      BY <1>0, <2>2 DEF Once, Unbegun, Ahead
    <3> QED
      BY <1>1, <3>1, TaskFacts
  <2> QED
    BY <2>1, <2>2
<1>2. ASSUME NEW w \in Workers, Run(w) = r,
             MarkRunning(w) \/ FailSet(w) \/ FailureSet(w) \/ Conclude(w)
      PROVE  FALSE
  <2>1. task[w] \in Tasks
    BY <1>0, <1>2 DEF MarkRunning, FailSet, FailureSet, Conclude, SetState, IInv, Employed, TypeOK
  <2> QED
    BY <1>1, <1>2, <2>1 DEF There, Given, Run
<1> QED
  BY <1>1, <1>2

\* A submission that failed leaves no message behind and no active run.
LEMMA RefusingStep ==
    ASSUME IInv, Exactly, Lone, [Next]_vars, Calm', NEW r \in Runs
    PROVE  Refusing(r)'
<1>0. /\ TypeOK /\ TypeOK' /\ Once /\ Single /\ Tidy' /\ Refusing(r) /\ ~CancelSet(r)
      /\ ~Fault("ambiguousStore") /\ ~Fault("ambiguousSend")
  BY CalmFacts
<1>1. ASSUME submission'[r] \in {"recordFailure", "release"}, NEW t \in Tasks, t[1] = r, There(t)'
      PROVE  FALSE
  <2>1. /\ submission[r] \in {"store", "send", "recordFailure", "release"}
        /\ ~SendCoordinator(r) \/ UNCHANGED <<ready, task>>
    <3>1. CASE submission[r] = submission'[r]
      BY <1>0, <1>1, <3>1 DEF SendCoordinator
    <3>2. CASE Submit(r) \/ AbandonSubmission(r)
      BY <1>0, <1>1, <3>2 DEF Submit, AbandonSubmission, Reserve, StoreRun, SendCoordinator,
                RecordSendFailure, ReleaseAfterError, SubmitTo, TypeOK, workerVars
    <3> QED
      BY <3>1, <3>2, SubmissionStep
  <2>2. \A u \in Tasks : u[1] = r => ~There(u)
    BY <2>1, NothingThere
  <2>3. CASE UNCHANGED <<ready, task>>
    BY <1>1, <2>2, <2>3 DEF There, Given
  <2>4. ASSUME NEW q \in Runs, t = <<q, Coordinator>>, SendCoordinator(q) PROVE FALSE
    BY <1>1, <2>1, <2>3, <2>4
  <2>5. ASSUME NEW w \in Workers, NEW b \in Batches, t = <<Run(w), b>>, Dispatch(w, b) PROVE FALSE
    <3>1. task[w] = <<r, Coordinator>>
      BY <1>0, <1>1, <2>5, DispatchFacts
    <3> QED
      BY <2>2, <3>1, TaskFacts DEF There, Given
  <2> QED
    BY <1>0, <1>1, <2>2, <2>4, <2>5, ThereStep
<1>2. ASSUME submission'[r] \in {"new", "store", "release"} PROVE ~Active(r)'
  <2>1. CASE RecordSendFailure(r)
    BY <1>0, <2>1 DEF RecordSendFailure, SetStatus, Active, TypeOK
  <2>2. CASE ~RecordSendFailure(r)
    <3>1. submission[r] \in {"new", "store", "release"} /\ (StoreRun(r) => status' = status)
      <4>1. CASE submission[r] = submission'[r]
        BY <1>0, <1>2, <4>1 DEF StoreRun, SubmitTo, TypeOK
      <4>2. CASE Submit(r) \/ AbandonSubmission(r)
        BY <1>0, <1>2, <2>2, <4>2 DEF Submit, AbandonSubmission, Reserve, StoreRun, SendCoordinator,
                  ReleaseAfterError, SubmitTo, TypeOK
      <4> QED
        BY <4>1, <4>2, SubmissionStep
    <3>2. status'[r] = status[r]
      BY <1>0, <2>2, <3>1, NothingThere, StatusWriters
    <3> QED
      BY <1>0, <3>1, <3>2 DEF Refusing, Active
  <2> QED
    BY <2>1, <2>2
<1> QED
  BY <1>1, <1>2 DEF Refusing

\* No run is cancelled.
LEMMA NobodyCancels ==
    ASSUME IInv, Exactly, Lone, [Next]_vars, Calm', NEW r \in Runs
    PROVE  status'[r] # "cancelled"
<1>0. TypeOK /\ status[r] # "cancelled" /\ ~CancelSet(r)
  BY CalmFacts
<1>1. CASE StoreRun(r) \/ RecordSendFailure(r)
  BY <1>0, <1>1 DEF StoreRun, RecordSendFailure, SetStatus, TypeOK
<1>2. ASSUME NEW w \in Workers, Run(w) = r,
             MarkRunning(w) \/ FailSet(w) \/ FailureSet(w) \/ Conclude(w)
      PROVE  status'[r] # "cancelled"
  BY <1>0, <1>2 DEF MarkRunning, FailSet, FailureSet, Conclude, SetState, SetStatus, TypeOK
<1> QED
  BY <1>0, <1>1, <1>2, StatusWriters

\* A worker is about to give the dataset free only after it wrote the outcome.
LEMMA LastSteps ==
    ASSUME IInv, NEW w \in Workers, Act(w), phase'[w] \in {"failRelease", "release"}
    PROVE  FailSet(w) \/ Conclude(w)
<1>0. TypeOK
  BY DEF IInv
<1>1. CASE \E t \in Tasks : Receive(w, t)
  BY <1>0, <1>1 DEF Receive, WorkTo, TypeOK
<1>2. CASE Begin(w) \/ Discard(w) \/ TaskRaises(w) \/ SendRaises(w) \/ Acknowledge(w) \/ CrashWorker(w)
  <2>1. phase'[w] \in {"acknowledge", "failCheck", "idle", "discover", "open"}
    BY <1>0, <1>2, DropFacts DEF Begin, Discard, TaskRaises, SendRaises, Acknowledge, CrashWorker,
                                 Look, WorkTo, TypeOK
  <2> QED
    BY <2>1
<1>3. CASE Coordinate(w)
  BY <1>0, <1>3 DEF Coordinate, Discover, Confirm, MarkRunningCheck, MarkRunning, SendBatch, QueueBatch, FailCheck,
                    FailRelease, Look, DeleteReservation, WorkTo, TypeOK
<1>4. CASE Prepare(w)
  BY <1>0, <1>4 DEF Prepare, Open, NextHuc, PrepareHuc, RemoveFailed, AddFailed, FailureCheck,
                FailureSet, AddFinished, Decide, Judge, ReleaseAfterLast,
                Look, SetState, DeleteReservation, WorkTo, TypeOK
<1> QED
  BY <1>1, <1>2, <1>3, <1>4 DEF Act, Work

\* A coordinator fails before it has queued a batch.
LEMMA RaisingStep ==
    ASSUME IInv, NEW w \in Workers, Act(w), ~SendRaises(w), phase'[w] \in FailSteps
    PROVE  phase[w] \in (Early \ {"begin"}) \cup FailSteps /\ UNCHANGED <<task, ready>>
<1>1. CASE TaskRaises(w)
  <2>1. phase[w] # "sendBatches" /\ UNCHANGED <<task, ready>>
        /\ phase'[w] = IF phase[w] \in Coordinating THEN "failCheck" ELSE "acknowledge"
    BY <1>1 DEF TaskRaises, WorkTo, IInv, TypeOK, brokerVars
  <2> QED
    BY <2>1 DEF FailSteps, Coordinating, Early
<1>2. CASE ~TaskRaises(w)
  BY <1>2, FailingStep DEF Early
<1> QED
  BY <1>1, <1>2

\* A coordinator has a batch to queue as long as it queues batches.
LEMMA SendingOn ==
    ASSUME IInv, NEW w \in Workers, Act(w), phase'[w] = "sendBatches" PROVE todo'[w] # {}
<1>0. TypeOK /\ Hucs # {}
  BY PreparationAssumption DEF IInv
<1>1. CASE MarkRunningCheck(w)
  BY <1>0, <1>1 DEF MarkRunningCheck, TypeOK
<1>2. CASE MarkRunning(w)
  BY <1>0, <1>2 DEF MarkRunning, IInv, Employed
<1>3. ASSUME NEW b \in Batches, SendBatch(w, b) PROVE todo'[w] # {}
  <2>1. b # todo[w] /\ b \subseteq todo[w] /\ todo'[w] = todo[w] \ b
    BY <1>0, <1>3 DEF SendBatch, QueueBatch, WorkTo, TypeOK
  <2> QED
    BY <2>1
<1> QED
  BY <1>1, <1>2, <1>3, SendingStep

\* The outcome it wrote stays until it has given the dataset free.
LEMMA EndingStep ==
    ASSUME IInv, Exactly, Lone, [Next]_vars, Calm', NEW w \in Workers
    PROVE  Ending(w)'
<1>0. TypeOK /\ TypeOK' /\ Once /\ Single /\ Tidy' /\ Ending(w) /\ Employed(w) /\ Knows(w)
  BY CalmFacts DEF IInv
<1>1. ~Act(w) => phase'[w] = phase[w] /\ task'[w] = task[w] /\ todo'[w] = todo[w]
  BY <1>0, Actors, OthersRest DEF workerVars
<1>2. ASSUME phase'[w] \in {"failRelease", "release"} \cup FailSteps
      PROVE  /\ task'[w] = task[w] /\ task[w] \in Tasks /\ task[w] # NoTask
             /\ Run(w) \in Runs /\ Run(w)' = Run(w)
  <2>1. CASE ~Act(w)
    BY <1>0, <1>1, <1>2, <2>1, TaskFacts DEF Employed, FailSteps, TypeOK, Run
  <2>2. CASE Act(w) /\ phase'[w] \in FailSteps
    <3>1. phase[w] \in (Early \ {"begin"}) \cup FailSteps /\ task' = task
      BY <2>2, RaisingStep, CalmFacts
    <3> QED
      BY <1>0, <3>1, TaskFacts DEF Employed, FailSteps, Early, TypeOK, Run
  <2>3. CASE Act(w) /\ phase'[w] = "release"
    <3>1. Conclude(w)
      BY <1>0, <2>3, LastSteps DEF FailSet, SetState, WorkTo, TypeOK
    <3>2. phase[w] \in {"concludeCompleted", "concludeFailed"} /\ task' = task
      BY <3>1 DEF Conclude, SetState
    <3> QED
      BY <1>0, <3>2, TaskFacts DEF Employed, TypeOK, Run
  <2> QED
    BY <1>2, <2>1, <2>2, <2>3 DEF FailSteps
<1>3. ASSUME phase'[w] \in {"failRelease", "release"} PROVE ~Active(Run(w))'
  <2>1. CASE Act(w)
    <3>1. FailSet(w) \/ Conclude(w)
      BY <1>3, <2>1, LastSteps
    <3>2. status'[Run(w)] \in {"completed", "failed"}
      BY <1>0, <1>2, <1>3, <3>1 DEF FailSet, Conclude, SetState, SetStatus, TypeOK
    <3> QED
      BY <1>2, <1>3, <3>2 DEF Active
  <2>2. CASE ~Act(w)
    <3>1. phase[w] = phase'[w] /\ ~Active(Run(w))
      BY <1>0, <1>1, <1>3, <2>2 DEF Ending
    <3>2. ~StoreRun(Run(w)) /\ ~CancelSet(Run(w))
      <4>1. CASE task[w][2] \in Batches
        BY <1>2, <1>3, <1>0, <4>1, BatchMeansBegun, CalmFacts DEF Ahead, StoreRun, CancelSet
      <4>2. CASE task[w] = <<Run(w), Coordinator>>
        <5>1. There(<<Run(w), Coordinator>>)
          BY <4>2 DEF There, Given
        <5> QED
          BY <1>0, <1>2, <1>3, <5>1, CalmFacts DEF Once, Unbegun, StoreRun, CancelSet
      <4> QED
        BY <1>2, <1>3, <4>1, <4>2, TaskFacts DEF Run
    <3>3. ASSUME NEW v \in Workers, Run(v) = Run(w),
                 MarkRunning(v) \/ FailSet(v) \/ FailureSet(v) \/ Conclude(v)
          PROVE  ~Active(Run(w))'
      <4>1. CASE FailSet(v) \/ FailureSet(v) \/ Conclude(v)
        <5>1. status'[Run(w)] \in {"completed", "failed"}
          BY <1>0, <1>2, <1>3, <3>3, <4>1 DEF FailSet, FailureSet, Conclude, SetState, SetStatus, TypeOK
        <5> QED
          BY <1>2, <1>3, <5>1 DEF Active
      <4>2. CASE MarkRunning(v)
        <5>1. phase[v] = "markRunning" /\ task[v] \in Tasks /\ task[v][2] = Coordinator
          BY <1>0, <4>2 DEF MarkRunning, IInv, Employed, AtCoordinator, Coordinating, TypeOK
        <5>2. task[v] = <<Run(w), Coordinator>>
          BY <3>3, <5>1, TaskFacts DEF Run
        <5>3. Ahead(Run(w))
          BY <5>1, <5>2 DEF Ahead
        <5>4. task[w] = <<Run(w), Coordinator>>
          BY <1>0, <1>2, <1>3, <5>3, BatchMeansBegun, TaskFacts DEF Run
        <5>5. v = w
          BY <1>0, <1>2, <1>3, <5>2, <5>4 DEF Single
        <5> QED
          BY <1>3, <3>1, <5>1, <5>5
      <4> QED
        BY <3>3, <4>1, <4>2
    <3>4. CASE RecordSendFailure(Run(w))
      BY <1>0, <1>2, <1>3, <3>4 DEF RecordSendFailure, SetStatus, Active, TypeOK
    <3>5. CASE status'[Run(w)] = status[Run(w)]
      BY <1>2, <1>3, <3>1, <3>5 DEF Active
    <3> QED
      BY <1>2, <1>3, <3>2, <3>3, <3>4, <3>5, StatusWriters
  <2> QED
    BY <2>1, <2>2
<1>4. ASSUME phase'[w] \in FailSteps, NEW b \in Batches, NEW r \in Runs, Run(w) = r, There(<<r, b>>)'
      PROVE  FALSE
  <2>1. phase[w] \in (Early \ {"begin"}) \cup FailSteps /\ (Act(w) => UNCHANGED <<ready, task>>)
    BY <1>1, <1>4, RaisingStep, CalmFacts
  <2>2. ~There(<<r, b>>)
    <3>1. CASE phase[w] \in Early \ {"begin"}
      <4>1. task[w] = <<r, Coordinator>>
        BY <1>0, <1>2, <1>4, <3>1, TaskFacts DEF Early, Employed, AtCoordinator, Coordinating, Run
      <4> QED
        BY <1>0, <1>4, <3>1, <4>1 DEF Early, Once, Unbegun, Ahead
    <3>2. CASE phase[w] \in FailSteps
      BY <1>0, <1>4, <3>2 DEF Ending
    <3> QED
      BY <2>1, <3>1, <3>2
  <2>3. CASE UNCHANGED <<ready, task>>
    BY <1>4, <2>2, <2>3 DEF There, Given
  <2>4. CASE ~Act(w)
    <3>1. ASSUME NEW q \in Runs, <<r, b>> = <<q, Coordinator>> PROVE FALSE
      BY <3>1, TaskFacts
    <3>2. ASSUME NEW v \in Workers, NEW c \in Batches, <<r, b>> = <<Run(v), c>>, Dispatch(v, c)
          PROVE  FALSE
      <4>1. phase[v] = "sendBatches" /\ task[v] = <<r, Coordinator>>
        BY <1>0, <3>2, DispatchFacts
      <4>2. phase[w] \in FailSteps
        BY <1>1, <1>4, <2>4
      <4>3. task[w] = <<r, Coordinator>>
        BY <1>0, <1>2, <1>4, <4>2, TaskFacts DEF FailSteps, Employed, AtCoordinator, Run
      <4>4. v = w
        BY <1>0, <1>2, <1>4, <4>1, <4>3 DEF Single
      <4> QED
        BY <4>1, <4>2, <4>4 DEF FailSteps
    <3>3. <<r, b>> \in Tasks
      BY TaskFacts
    <3> QED
      BY <1>0, <1>4, <2>2, <3>1, <3>2, <3>3, ThereStep
  <2> QED
    BY <2>1, <2>3, <2>4
<1>5. ASSUME phase'[w] = "release" PROVE finished'[Run(w)] = Hucs
  <2>1. finished[Run(w)] = Hucs
    <3>1. CASE Act(w)
      <4>1. Conclude(w)
        BY <1>0, <1>5, <3>1, LastSteps DEF FailSet, SetState, WorkTo, TypeOK
      <4> QED
        BY <1>0, <4>1 DEF Conclude, SetState, Knows
    <3>2. CASE ~Act(w)
      BY <1>0, <1>1, <1>5, <3>2 DEF Ending
    <3> QED
      BY <3>1, <3>2
  <2>2. finished'[Run(w)] \in SUBSET Hucs
    BY <1>0, <1>2, <1>5 DEF TypeOK
  <2> QED
    BY <1>2, <1>5, <2>1, <2>2, Growth
<1>6. ASSUME phase'[w] \in FailSteps, NEW b \in Batches PROVE ~There(<<Run(w), b>>)'
  <2>1. PICK r \in Runs : Run(w) = r
    BY <1>2, <1>6
  <2>2. ~There(<<r, b>>)'
    BY <1>4, <1>6, <2>1
  <2> QED
    BY <1>2, <1>6, <2>1, <2>2
<1>7. ASSUME phase'[w] = "sendBatches" PROVE todo'[w] # {}
  <2>1. CASE Act(w)
    BY <1>7, <2>1, SendingOn
  <2>2. CASE ~Act(w)
    BY <1>0, <1>1, <1>7, <2>2 DEF Ending
  <2> QED
    BY <2>1, <2>2
<1> QED
  BY <1>2, <1>3, <1>5, <1>6, <1>7 DEF Ending

\* The third invariant holds at the start.
LEMMA LoneInitially == Init => Lone
<1> SUFFICES ASSUME Init PROVE Lone
  OBVIOUS
<1>1. ASSUME NEW r \in Runs PROVE Holding(r) /\ Refusing(r) /\ status[r] # "cancelled"
  BY DEF Init, Holding, Active, Pending, Refusing
<1>2. ASSUME NEW w \in Workers PROVE Ending(w)
  BY DEF Init, Ending, FailSteps
<1> QED
  BY <1>1, <1>2 DEF Lone

\* A step keeps the third invariant.
LEMMA LoneStep ==
    ASSUME ~ParallelBatches
    PROVE  IInv /\ Exactly /\ Lone /\ [Next]_vars => Lone'
<1> SUFFICES ASSUME IInv, Exactly, Lone, [Next]_vars, Calm' PROVE Lone'
  BY DEF Lone
<1> QED
  BY HoldingStep, RefusingStep, NobodyCancels, EndingStep DEF Lone

\* The dataset has two runs at work only after one of the causes that undo the reservation
\* (dataset_preparations.submit, cancel, mark_running, mark_failed, __mark_huc_finished),
\* whatever else fails or is abandoned on the way: for any number of runs, workers and
\* batches, whoever may cancel, and any set of faults.
THEOREM OverlapOnlyWithACause == Spec => []OverlapHasACause
<1>1. CASE ParallelBatches
  <2>1. OverlapHasACause
    BY <1>1 DEF OverlapHasACause
  <2> QED
    BY <2>1, PTL
<1>2. CASE ~ParallelBatches
  <2>1. Init => IInv /\ Exactly /\ Lone
    BY Initially, ExactlyInitially, LoneInitially
  <2>2. (IInv /\ Exactly /\ Lone) /\ [Next]_vars => (IInv /\ Exactly /\ Lone)'
    BY <1>2, Step, ExactlyStep, LoneStep
  <2>3. IInv /\ Lone => OverlapHasACause
    <3> SUFFICES ASSUME IInv, Lone, Calm, NEW r \in Runs, AtWork(r) PROVE reservation = r
      BY DEF OverlapHasACause, Calm
    <3>1. ASSUME NEW w \in Workers, phase[w] = "prepare", Run(w) = r PROVE Pending(r)
      BY <3>1 DEF IInv, Employed, Pending, AtHuc
    <3> QED
      BY <3>1 DEF AtWork, Lone, Holding
  <2> QED
    BY <2>1, <2>2, <2>3, PTL DEF Spec
<1> QED
  BY <1>1, <1>2
=============================================================================
