------------------------------- MODULE JobLogs -------------------------------
(***************************************************************************)
(* The output of one job on its way to a reader: the worker appends it to  *)
(* a Redis string (job_logs.py, tasks.py), archives the string before the  *)
(* terminal record (history.py), and the job view of the web UI (app.js)   *)
(* polls GET /jobs/{id}/logs (main.py) by byte offset, from Redis while    *)
(* the job runs and from S3 once it has ended.                             *)
(*                                                                         *)
(* Delivery is reduced to what the log can tell apart: one worker, a       *)
(* message that comes back after a crash. JobLifecycle has the rest.       *)
(***************************************************************************)
EXTENDS Naturals, FiniteSets, Sequences, SequencesExt

CONSTANTS
    Width,      \* the bytes of the one character that stands for each line
    MaxBytes,   \* max_bytes of a request
    Faults,     \* the kinds of fault this instance admits
    MaxFaults   \* bound on the number of faults, each of another kind

FaultKinds == {
    "storeError",   \* an S3 request raises; a write may have been applied or not
    "redisError",   \* a Redis command raises; an append may have been applied or not
    "readError",    \* a request of the view fails
    "workerCrash",  \* the worker is killed and restarted
    "redisLoss"}    \* Redis comes back empty

Lines == DOMAIN Width

\* max_bytes is at least 4 (main.py), the longest character of UTF-8.
ASSUME LogsAssumption ==
    /\ Width \in Seq(1 .. 4) /\ Width # <<>>
    /\ MaxBytes \in Nat /\ MaxBytes >= 4
    /\ Faults \subseteq FaultKinds
    /\ MaxFaults \in Nat

VARIABLES
    clears,   \* whether the task clears the log first: hand_fim does, compare does not
    record,   \* S3: status in record.json
    archive,  \* S3: the bytes of worker.log, <<>> when there is no such object
    log,      \* Redis: the bytes of the log, <<>> when there is no such key
    bound,    \* Redis: the job is associated with the workspace
    backend,  \* Redis: state in the Celery result backend
    phase,    \* what the worker is doing
    attempt,  \* which delivery of the message it works on
    printed,  \* lines this attempt has printed
    outcome,  \* how the attempt ended
    view,     \* the job view of the browser and its request
    endings,  \* history variable: the log as each attempt left it
    faults    \* history variable: the kinds of fault so far

storeVars  == <<record, archive>>
redisVars  == <<log, bound, backend>>
workerVars == <<phase, attempt, printed, outcome>>
vars == <<clears, storeVars, redisVars, workerVars, view, endings, faults>>

Terminal == {"success", "failure"}
Statuses == {"queued", "started"} \cup Terminal
States   == {"PENDING", "STARTED", "SUCCESS", "FAILURE"}
Raised   == "raised"
Phases   == {"idle", "report", "recordStarted", "clear", "append", "archive",
             "recordEnd", "result", "acknowledge", "done"}
Polling  == {"pollRecord", "pollArchive", "pollLength", "pollRange", "pollState"}
Opening  == {"openRecord", "openState"}

\* A byte names the attempt and the line it is from, and its place in the character.
Byte == [attempt : 1 .. 1 + MaxFaults, line : Lines, part : 1 .. 4]
BytesOf(a, l) == [k \in 1 .. Width[l] |-> [attempt |-> a, line |-> l, part |-> k]]
Character == [attempt : 1 .. 1 + MaxFaults, line : Lines]
Replaced  == [attempt |-> 0, line |-> 0] \* U+FFFD

NoView == [phase |-> "closed", status |-> "queued", shown |-> <<>>, offset |-> 0,
           start |-> 0, text |-> <<>>, answer |-> "queued"]

TypeOK ==
    /\ clears \in BOOLEAN
    /\ record \in Statuses
    /\ archive \in Seq(Byte)
    /\ log \in Seq(Byte)
    /\ bound \in BOOLEAN
    /\ backend \in States
    /\ phase \in Phases
    /\ attempt \in 0 .. 1 + MaxFaults
    /\ printed \in 0 .. Len(Width)
    /\ outcome \in Terminal \cup {Raised}
    /\ view.phase \in {"closed", "stale", "stopped", "settled"} \cup Opening \cup Polling
    /\ {view.status, view.answer} \subseteq Statuses
    /\ view.shown \in Seq(Character \cup {Replaced})
    /\ view.text \in Seq(Character \cup {Replaced})
    /\ {view.offset, view.start} \subseteq Nat
    /\ \A e \in endings : e \in Seq(Byte)
    /\ faults \subseteq Faults

\* A job that was submitted and waits in the queue.
Init ==
    /\ clears \in BOOLEAN
    /\ record = "queued"
    /\ archive = <<>>
    /\ log = <<>>
    /\ bound = TRUE
    /\ backend = "PENDING"
    /\ phase = "idle"
    /\ attempt = 0
    /\ printed = 0
    /\ outcome = "success"
    /\ view = NoView
    /\ endings = {}
    /\ faults = {}

Fault(kind) ==
    /\ kind \in Faults \ faults
    /\ Cardinality(faults) < MaxFaults
    /\ faults' = faults \cup {kind}

-----------------------------------------------------------------------------
(* The worker. *)

Deliver ==
    /\ phase = "idle"
    /\ phase' = "report"
    /\ attempt' = attempt + 1
    /\ printed' = 0
    /\ UNCHANGED <<clears, storeVars, redisVars, outcome, view, endings, faults>>

ReportStarted ==
    /\ phase = "report"
    /\ backend' = "STARTED"
    /\ phase' = "recordStarted"
    /\ UNCHANGED <<clears, storeVars, log, bound, attempt, printed, outcome, view, endings, faults>>

RecordStarted ==
    /\ phase = "recordStarted"
    /\ \/ /\ record' = "started"
          /\ phase' = IF clears THEN "clear" ELSE "append"
          /\ UNCHANGED <<outcome, endings, faults>>
       \/ /\ Fault("storeError")
          /\ record' \in {record, "started"}
          /\ outcome' = Raised
          /\ phase' = "result"
          /\ endings' = endings \cup {log}
    /\ UNCHANGED <<clears, archive, redisVars, attempt, printed, view>>

\* The attempt is over: nothing is appended from here on.
End(how) ==
    /\ outcome' = how
    /\ phase' = "archive"
    /\ endings' = endings \cup {log'}

ClearLog ==
    /\ phase = "clear"
    /\ \/ /\ log' = <<>>
          /\ phase' = "append"
          /\ UNCHANGED <<outcome, endings, faults>>
       \/ /\ Fault("redisError")
          /\ log' \in {log, <<>>}
          /\ End("failure")
    /\ UNCHANGED <<clears, storeVars, bound, backend, attempt, printed, view>>

\* An append that raises kills the process group; the task fails.
AppendLine ==
    /\ phase = "append"
    /\ printed < Len(Width)
    /\ LET appended == log \o BytesOf(attempt, printed + 1) IN
       \/ /\ log' = appended
          /\ printed' = printed + 1
          /\ UNCHANGED <<phase, outcome, endings, faults>>
       \/ /\ Fault("redisError")
          /\ log' \in {log, appended}
          /\ End("failure")
          /\ UNCHANGED printed
    /\ UNCHANGED <<clears, storeVars, bound, backend, attempt, view>>

EndRun ==
    /\ phase = "append"
    /\ UNCHANGED log
    /\ \/ printed = Len(Width) /\ End("success")
       \/ End("failure")
    /\ UNCHANGED <<clears, storeVars, bound, backend, attempt, printed, view, faults>>

\* Mutant of FinishRaises: the record is written in spite of the exception.
FinishGoesOn ==
    /\ outcome' = Raised
    /\ phase' = "recordEnd"

\* An exception in __finish leaves the task as it is.
FinishRaises ==
    /\ outcome' = Raised
    /\ phase' = "result"

\* The first half of persist; an empty log is not written.
ArchiveLog ==
    /\ phase = "archive"
    /\ \/ /\ archive' = IF log = <<>> THEN archive ELSE log
          /\ phase' = "recordEnd"
          /\ UNCHANGED <<outcome, faults>>
       \/ /\ Fault("storeError")
          /\ log # <<>>
          /\ archive' \in {archive, log}
          /\ FinishRaises
       \/ /\ Fault("redisError")
          /\ FinishRaises
          /\ UNCHANGED archive
    /\ UNCHANGED <<clears, record, redisVars, attempt, printed, view, endings>>

\* The second half of persist.
RecordEnd ==
    /\ phase = "recordEnd"
    /\ \/ /\ record' = outcome
          /\ phase' = "result"
          /\ UNCHANGED <<outcome, faults>>
       \/ /\ Fault("storeError")
          /\ record' \in {record, outcome}
          /\ FinishRaises
    /\ UNCHANGED <<clears, archive, redisVars, attempt, printed, view, endings>>

ReportResult ==
    /\ phase = "result"
    /\ backend' = IF outcome = "success" THEN "SUCCESS" ELSE "FAILURE"
    /\ phase' = "acknowledge"
    /\ UNCHANGED <<clears, storeVars, log, bound, attempt, printed, outcome, view, endings, faults>>

Acknowledge ==
    /\ phase = "acknowledge"
    /\ phase' = "done"
    /\ UNCHANGED <<clears, storeVars, redisVars, attempt, printed, outcome, view, endings, faults>>

\* acks_late: the message of a killed worker is delivered again.
CrashWorker ==
    /\ phase \notin {"idle", "done"}
    /\ Fault("workerCrash")
    /\ phase' = "idle"
    /\ UNCHANGED <<clears, storeVars, redisVars, attempt, printed, outcome, view, endings>>

\* The worker goes on with its task. (A message lost in the queue: see JobLifecycle.)
LoseRedis ==
    /\ phase # "idle"
    /\ Fault("redisLoss")
    /\ log' = <<>>
    /\ bound' = FALSE
    /\ backend' = "PENDING"
    /\ UNCHANGED <<clears, storeVars, workerVars, view, endings>>

Worker ==
    \/ Deliver \/ ReportStarted \/ RecordStarted \/ ClearLog \/ AppendLine \/ EndRun
    \/ ArchiveLog \/ RecordEnd \/ ReportResult \/ Acknowledge

-----------------------------------------------------------------------------
(* Reading the log by byte offset. *)

CharacterStarts(content) == {i \in DOMAIN content : content[i].part = 1}
Completes(content, i) == i + Width[content[i].line] - 1 <= Len(content)

\* The bytes before a character that the content cuts off. Content that starts inside
\* a character is kept whole: the decoder then reports another error.
Decodable(content) ==
    LET cut == {i \in CharacterStarts(content) : ~Completes(content, i)} IN
    IF content # <<>> /\ content[1].part = 1 /\ cut # {}
        THEN SubSeq(content, 1, (CHOOSE i \in cut : TRUE) - 1)
        ELSE content

\* A character for its first byte, a replacement for what belongs to no whole character.
Text(content) ==
    LET Mark(i) ==
          IF content[i].part = 1
              THEN IF Completes(content, i)
                       THEN <<[attempt |-> content[i].attempt, line |-> content[i].line]>>
                       ELSE <<Replaced>>
              ELSE IF \E k \in CharacterStarts(content) : k < i THEN <<>> ELSE <<Replaced>>
    IN FlattenSeq([i \in DOMAIN content |-> Mark(i)])

LeastOf(a, b) == IF a < b THEN a ELSE b

Chunk(bytes, start) == Decodable(SubSeq(bytes, start + 1, LeastOf(start + MaxBytes, Len(bytes))))

JobStatus(state) ==
    CASE state = "PENDING" -> "queued"
      [] state = "STARTED" -> "started"
      [] state = "SUCCESS" -> "success"
      [] state = "FAILURE" -> "failure"

-----------------------------------------------------------------------------
(* The job view of the browser. *)

View(changed) ==
    /\ view' = changed
    /\ UNCHANGED <<clears, storeVars, redisVars, workerVars, endings>>

OpenJob ==
    /\ view.phase \in {"closed", "stale", "stopped"}
    /\ View([NoView EXCEPT !.phase = "openRecord"])
    /\ UNCHANGED faults

\* The loaded view polls from offset 0, if the execution state is known.
Loaded(status, known) ==
    [NoView EXCEPT !.phase = IF known THEN "pollRecord" ELSE "stale", !.status = status]

OpenRecord ==
    /\ view.phase = "openRecord"
    /\ View(IF record \in Terminal THEN Loaded(record, TRUE)
            ELSE IF ~bound THEN Loaded(record, FALSE)
            ELSE [view EXCEPT !.phase = "openState", !.answer = record])
    /\ UNCHANGED faults

OpenState ==
    /\ view.phase = "openState"
    /\ View(IF backend = "PENDING" THEN Loaded(view.answer, FALSE)
            ELSE Loaded(JobStatus(backend), TRUE))
    /\ UNCHANGED faults

\* Mutant of AfterAnswer: polling stops at the first answer with a terminal status.
StopAtOnce(status, text) == IF status \in Terminal THEN "settled" ELSE "pollRecord"

\* Mutant of AfterAnswer: polling does not stop at an empty answer.
NeverStop(status, text) == "pollRecord"

\* A job that has ended is polled until an answer is empty.
AfterAnswer(status, text) ==
    IF status \in Terminal /\ text = <<>> THEN "settled" ELSE "pollRecord"

\* The answer to a poll, appended to the view; another status reloads the view.
Answered(text, next, status) ==
    IF status # view.status
        THEN [NoView EXCEPT !.phase = "openRecord"]
        ELSE [view EXCEPT !.shown = view.shown \o text, !.offset = next,
                          !.start = 0, !.text = <<>>, !.answer = "queued",
                          !.phase = AfterAnswer(status, text)]

PollRecord ==
    /\ view.phase = "pollRecord"
    /\ View([view EXCEPT !.phase = IF record \in Terminal \/ ~bound THEN "pollArchive" ELSE "pollLength",
                         !.answer = record])
    /\ UNCHANGED faults

\* history.read_logs: a range beyond the end, or a missing object, reads as empty.
PollArchive ==
    /\ view.phase = "pollArchive"
    /\ LET content == IF view.offset < Len(archive) THEN Chunk(archive, view.offset) ELSE <<>> IN
       View(Answered(Text(content), view.offset + Len(content), view.answer))
    /\ UNCHANGED faults

PollLength ==
    /\ view.phase = "pollLength"
    /\ LET start == LeastOf(view.offset, Len(log)) IN
       View([view EXCEPT !.phase = IF start = Len(log) THEN "pollState" ELSE "pollRange",
                         !.start = start])
    /\ UNCHANGED faults

\* The log may have been cleared or lost since its length was read.
PollRange ==
    /\ view.phase = "pollRange"
    /\ LET content == Chunk(log, view.start) IN
       View([view EXCEPT !.phase = "pollState",
                         !.start = view.start + Len(content), !.text = Text(content)])
    /\ UNCHANGED faults

\* The status is the state after the log was read.
PollState ==
    /\ view.phase = "pollState"
    /\ View(Answered(view.text, view.start, JobStatus(backend)))
    /\ UNCHANGED faults

ReadFails ==
    /\ view.phase \in Polling \cup Opening
    /\ Fault("readError")
    /\ View([view EXCEPT !.phase = "stopped"])

Reload == OpenRecord \/ OpenState
Poll == PollRecord \/ PollArchive \/ PollLength \/ PollRange \/ PollState

-----------------------------------------------------------------------------
Next == Worker \/ CrashWorker \/ LoseRedis \/ OpenJob \/ Reload \/ Poll \/ ReadFails

Spec == Init /\ [][Next]_vars

(* The worker goes on with its task and takes the message up again after a  *)
(* crash; the browser sends its next request: a timer of 0 or 5 seconds.    *)
FairSpec == Spec /\ WF_vars(Worker) /\ WF_vars(Reload \/ Poll)

-----------------------------------------------------------------------------
(* Properties. *)

\* A view that has stopped polling because the job ended shows the whole output that the
\* attempt left, also when an earlier attempt was killed and its output cleared under the
\* view. (When an attempt that had ended is executed again, two logs follow each other at
\* one key and a view between two answers may show parts of both.)
SettledShowsWholeLog ==
    view.phase = "settled" /\ "redisLoss" \notin faults =>
        endings # {} /\ \A ending \in endings : endings = {ending} => view.shown = Text(ending)

\* A view that polls comes to an end: it shows the end of the job, or says that polling
\* stopped or that the state of the job is not known. Without its Redis keys a job may
\* stay "started" for ever.
PollingEnds ==
    view.phase \in Polling ~> view.phase \in {"settled", "stale", "stopped"} \/ ~bound
=============================================================================
