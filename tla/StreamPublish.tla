---------------------------- MODULE StreamPublish ----------------------------
(***************************************************************************)
(* How a streaming HAND-FIM task publishes its outputs (tasks.py,          *)
(* __hand_fim_streaming): the subprocess writes tiles straight to S3, the  *)
(* task then puts one manifest per scenario, two files, and deletes the    *)
(* tiles it replaced; an error rolls the manifests back.                   *)
(*                                                                         *)
(* The output prefix belongs to one job, so those who meet there are the   *)
(* attempts at that job: the redelivered message of a worker that died or, *)
(* after a visibility timeout, of one that is still alive.                 *)
(***************************************************************************)
EXTENDS Naturals, FiniteSets

CONSTANTS
    Attempts,   \* deliveries of the job's message
    NoAttempt,  \* where no manifest was published
    Scenarios,  \* the job's scenarios
    Tiles,      \* tile names, the same below every scenario's prefix
    NoScenario, \* where a rollback is when it is at no scenario
    Faults,     \* the kinds of fault this instance admits
    MaxFaults   \* bound on the number of faults in a behaviour, each of another kind

FaultKinds == {
    "storeError",     \* an S3 request raises and changed nothing
    "ambiguousStore", \* putting a manifest raises although it was applied
    "rollbackError",  \* an S3 request of the rollback raises
    "redisError",     \* the last line of the job log cannot be written
    "crash",          \* the worker dies
    "visibilityTimeout"} \* the message is redelivered while its worker lives

ASSUME PublishAssumption ==
    /\ NoAttempt \notin Attempts
    /\ NoScenario \notin Scenarios
    /\ Faults \subseteq FaultKinds
    /\ MaxFaults \in Nat

VARIABLES
    manifest,  \* S3: the attempt whose manifest each scenario shows
    tiles,     \* S3: the tiles below each scenario's prefix
    files,     \* S3: scenarios.json and README.md
    phase,     \* what each attempt is doing
    overwrite, \* the job's overwrite option
    plan,      \* the tiles each attempt computes, by scenario
    written,   \* the tiles of its plan each attempt has uploaded, by scenario
    previous,  \* the manifests each attempt found
    published, \* the scenarios whose manifest an attempt put
    left,      \* the scenarios an attempt's present loop has yet to visit
    at,        \* the scenario an attempt's rollback is at
    faults     \* history variable: the kinds of fault so far

store    == <<manifest, tiles, files>>
job      == <<overwrite, plan>>
attempts == <<phase, job, written, previous, published, left, at>>
publishVars == <<store, attempts, faults>>

Files == {"scenarios.json", "README.md"}
Live == {"load", "run", "publish", "upload", "rollBack", "restore", "clean", "finish"}
Phases == Live \cup {"idle", "succeeded", "failed", "rolledBack", "crashed"}

PublishTypeOK ==
    /\ manifest \in [Scenarios -> Attempts \cup {NoAttempt}]
    /\ tiles \in [Scenarios -> SUBSET Tiles]
    /\ files \subseteq Files
    /\ phase \in [Attempts -> Phases]
    /\ overwrite \in BOOLEAN
    /\ plan \in [Attempts -> [Scenarios -> SUBSET Tiles]]
    /\ written \in [Attempts -> [Scenarios -> SUBSET Tiles]]
    /\ previous \in [Attempts -> [Scenarios -> Attempts \cup {NoAttempt}]]
    /\ published \in [Attempts -> SUBSET Scenarios]
    /\ left \in [Attempts -> SUBSET Scenarios]
    /\ at \in [Attempts -> Scenarios \cup {NoScenario}]
    /\ faults \subseteq Faults

PublishInit ==
    /\ manifest = [s \in Scenarios |-> NoAttempt]
    /\ tiles = [s \in Scenarios |-> {}]
    /\ files = {}
    /\ phase = [a \in Attempts |-> "idle"]
    /\ overwrite \in BOOLEAN
    /\ plan = [a \in Attempts |-> [s \in Scenarios |-> {}]]
    /\ written = [a \in Attempts |-> [s \in Scenarios |-> {}]]
    /\ previous = [a \in Attempts |-> [s \in Scenarios |-> NoAttempt]]
    /\ published = [a \in Attempts |-> {}]
    /\ left = [a \in Attempts |-> {}]
    /\ at = [a \in Attempts |-> NoScenario]
    /\ faults = {}

Fault(f) ==
    /\ f \in Faults \ faults
    /\ Cardinality(faults) < MaxFaults
    /\ faults' = faults \cup {f}

NoFault == UNCHANGED faults

GoTo(a, step) == phase' = [phase EXCEPT ![a] = step]

\* The loop of attempt a is done with scenario s; after the last one comes `step`.
Visited(a, s, step) ==
    /\ left' = [left EXCEPT ![a] = @ \ {s}]
    /\ GoTo(a, IF left[a] = {s} THEN step ELSE phase[a])

\* A worker receives the message, for the first time or again. What it
\* computes depends on the prepared dataset of the moment.
Start(a) ==
    /\ phase[a] = "idle"
    /\ \/ /\ \A b \in Attempts : phase[b] \notin Live
          /\ NoFault
       \/ /\ \E b \in Attempts : phase[b] \in Live
          /\ Fault("visibilityTimeout")
    /\ \E p \in [Scenarios -> (SUBSET Tiles) \ {{}}] : plan' = [plan EXCEPT ![a] = p]
    /\ left' = [left EXCEPT ![a] = Scenarios]
    /\ GoTo(a, "load")
    /\ UNCHANGED <<store, overwrite, written, previous, published, at>>

\* With overwrite the manifests are remembered; without, any object that is
\* already there fails the job.
LoadManifest(a, s) ==
    /\ phase[a] = "load"
    /\ s \in left[a]
    /\ \/ /\ overwrite
          /\ previous' = [previous EXCEPT ![a][s] = manifest[s]]
          /\ Visited(a, s, "run")
          /\ NoFault
       \/ /\ ~overwrite
          /\ manifest[s] = NoAttempt
          /\ files = {} \/ left[a] # {s}
          /\ Visited(a, s, "run")
          /\ NoFault
          /\ UNCHANGED previous
       \/ /\ ~overwrite
          /\ manifest[s] # NoAttempt \/ (files # {} /\ left[a] = {s})
          /\ GoTo(a, "failed")
          /\ NoFault
          /\ UNCHANGED <<left, previous>>
       \/ /\ GoTo(a, "failed")
          /\ Fault("storeError")
          /\ UNCHANGED <<left, previous>>
    /\ UNCHANGED <<store, job, written, published, at>>

\* The subprocess uploads a tile (stream_storage.py, run_streaming).
WriteTile(a, s, t) ==
    /\ phase[a] = "run"
    /\ t \in plan[a][s] \ written[a][s]
    /\ tiles' = [tiles EXCEPT ![s] = @ \cup {t}]
    /\ written' = [written EXCEPT ![a][s] = @ \cup {t}]
    /\ NoFault
    /\ UNCHANGED <<manifest, files, phase, job, previous, published, left, at>>

RollBackFrom(a) ==
    /\ left' = [left EXCEPT ![a] = published[a]]
    /\ GoTo(a, IF published[a] = {} THEN "rolledBack" ELSE "rollBack")

\* The subprocess ends: well, once its tiles are there, or with an error.
EndRun(a) ==
    /\ phase[a] = "run"
    /\ \/ /\ written[a] = plan[a]
          /\ left' = [left EXCEPT ![a] = Scenarios]
          /\ GoTo(a, "publish")
       \/ RollBackFrom(a)
    /\ NoFault
    /\ UNCHANGED <<store, job, written, previous, published, at>>

\* Mutant of PublishManifest: an error is logged and the loop goes on.
PublishManifestIfPossible(a, s) ==
    /\ phase[a] = "publish"
    /\ s \in left[a]
    /\ Visited(a, s, "upload")
    /\ \/ /\ manifest' = [manifest EXCEPT ![s] = a]
          /\ published' = [published EXCEPT ![a] = @ \cup {s}]
          /\ NoFault
       \/ /\ Fault("storeError")
          /\ UNCHANGED <<manifest, published>>
    /\ UNCHANGED <<tiles, files, job, written, previous, at>>

PublishManifest(a, s) ==
    /\ phase[a] = "publish"
    /\ s \in left[a]
    /\ \/ /\ manifest' = [manifest EXCEPT ![s] = a]
          /\ published' = [published EXCEPT ![a] = @ \cup {s}]
          /\ Visited(a, s, "upload")
          /\ NoFault
       \/ /\ RollBackFrom(a)
          /\ \/ Fault("storeError") /\ UNCHANGED manifest
             \/ Fault("ambiguousStore") /\ manifest' = [manifest EXCEPT ![s] = a]
          /\ UNCHANGED published
    /\ UNCHANGED <<tiles, files, job, written, previous, at>>

\* Mutant of UploadFiles: every local file is uploaded, the manifests included.
UploadAllFiles(a) ==
    /\ phase[a] = "upload"
    /\ files' = Files \cup {"manifest.json"}
    /\ GoTo(a, "finish")
    /\ NoFault
    /\ UNCHANGED <<manifest, tiles, job, written, previous, published, left, at>>

\* scenarios.json and README.md, in this order.
UploadFiles(a) ==
    /\ phase[a] = "upload"
    /\ \/ /\ files' = Files
          /\ left' = [left EXCEPT ![a] = {s \in Scenarios : previous[a][s] # NoAttempt}]
          /\ GoTo(a, IF left'[a] = {} THEN "finish" ELSE "clean")
          /\ NoFault
       \/ /\ files' \in {files, files \cup {"scenarios.json"}}
          /\ RollBackFrom(a)
          /\ Fault("storeError")
    /\ UNCHANGED <<manifest, tiles, job, written, previous, published, at>>

\* The rollback reads the manifest that is there, and goes on if it is its own.
RollBackRead(a, s) ==
    /\ phase[a] = "rollBack"
    /\ s \in left[a]
    /\ \/ /\ manifest[s] = a
          /\ at' = [at EXCEPT ![a] = s]
          /\ GoTo(a, "restore")
          /\ NoFault
          /\ UNCHANGED left
       \/ /\ manifest[s] # a
          /\ Visited(a, s, "rolledBack")
          /\ NoFault
          /\ UNCHANGED at
       \/ /\ Visited(a, s, "rolledBack")
          /\ Fault("rollbackError")
          /\ UNCHANGED at
    /\ UNCHANGED <<store, job, written, previous, published>>

\* Mutant of RollBackWrite: the manifest is always deleted.
RollBackDelete(a) ==
    /\ phase[a] = "restore"
    /\ manifest' = [manifest EXCEPT ![at[a]] = NoAttempt]
    /\ left' = [left EXCEPT ![a] = @ \ {at[a]}]
    /\ GoTo(a, IF left[a] = {at[a]} THEN "rolledBack" ELSE "rollBack")
    /\ NoFault
    /\ at' = [at EXCEPT ![a] = NoScenario]
    /\ UNCHANGED <<tiles, files, job, written, previous, published>>

RollBackWrite(a) ==
    /\ phase[a] = "restore"
    /\ \/ /\ manifest' = [manifest EXCEPT ![at[a]] = previous[a][at[a]]]
          /\ NoFault
       \/ /\ Fault("rollbackError")
          /\ UNCHANGED manifest
    /\ left' = [left EXCEPT ![a] = @ \ {at[a]}]
    /\ GoTo(a, IF left[a] = {at[a]} THEN "rolledBack" ELSE "rollBack")
    /\ at' = [at EXCEPT ![a] = NoScenario]
    /\ UNCHANGED <<tiles, files, job, written, previous, published>>

\* Mutant of CleanTiles: every tile of the replaced manifest is deleted.
CleanAllTiles(a, s) ==
    /\ phase[a] = "clean"
    /\ s \in left[a]
    /\ tiles' = [tiles EXCEPT ![s] = @ \ plan[previous[a][s]][s]]
    /\ Visited(a, s, "finish")
    /\ NoFault
    /\ UNCHANGED <<manifest, files, job, written, previous, published, at>>

\* Tiles of the manifest found at the start that the new one does not name.
\* An error, part of them deleted, is only logged.
CleanTiles(a, s) ==
    /\ phase[a] = "clean"
    /\ s \in left[a]
    /\ LET stale == plan[previous[a][s]][s] \ plan[a][s] IN
       \/ /\ tiles' = [tiles EXCEPT ![s] = @ \ stale]
          /\ NoFault
       \/ /\ \E gone \in SUBSET stale : tiles' = [tiles EXCEPT ![s] = @ \ gone]
          /\ Fault("storeError")
    /\ Visited(a, s, "finish")
    /\ UNCHANGED <<manifest, files, job, written, previous, published, at>>

\* The job log's last line; if Redis refuses it, the task fails, published or not.
Finish(a) ==
    /\ phase[a] = "finish"
    /\ \/ GoTo(a, "succeeded") /\ NoFault
       \/ GoTo(a, "failed") /\ Fault("redisError")
    /\ UNCHANGED <<store, job, written, previous, published, left, at>>

Crash(a) ==
    /\ phase[a] \in Live
    /\ GoTo(a, "crashed")
    /\ Fault("crash")
    /\ UNCHANGED <<store, job, written, previous, published, left, at>>

Step(a) ==
    \/ Start(a) \/ EndRun(a) \/ UploadFiles(a) \/ RollBackWrite(a) \/ Finish(a)
    \/ \E s \in Scenarios :
        \/ LoadManifest(a, s) \/ PublishManifest(a, s) \/ RollBackRead(a, s) \/ CleanTiles(a, s)
        \/ \E t \in Tiles : WriteTile(a, s, t)

PublishNext == \E a \in Attempts : Step(a) \/ Crash(a)

PublishSpec == PublishInit /\ [][PublishNext]_publishVars

(***************************************************************************)
(* Properties                                                              *)
(***************************************************************************)

OneAtATime == "visibilityTimeout" \notin faults

\* Every tile a published manifest names is in S3, through failed, rolled back
\* and crashed attempts and their successors. (One attempt at a time.)
PublishedTilesExist ==
    OneAtATime =>
        \A s \in Scenarios : manifest[s] # NoAttempt => plan[manifest[s]][s] \subseteq tiles[s]

\* A successful task leaves all its manifests and both files: the result it
\* returns names objects that are there. (One attempt at a time.)
SuccessIsPublished ==
    [][\A a \in Attempts : OneAtATime /\ phase[a] = "finish" /\ phase'[a] = "succeeded" =>
            files = Files /\ \A s \in Scenarios : manifest[s] = a]_publishVars

\* A task that fails and rolls back leaves the manifests it found, unless S3
\* is ambiguous about a manifest or refuses the rollback itself.
RollbackRestores ==
    [][\A a \in Attempts :
            /\ OneAtATime /\ faults \cap {"ambiguousStore", "rollbackError"} = {}
            /\ phase[a] # "rolledBack" /\ phase'[a] = "rolledBack"
            => faults' \cap {"ambiguousStore", "rollbackError"} # {} \/ manifest' = previous[a]]_publishVars

=============================================================================
