---------------------------- MODULE LegacyScenario ----------------------------
(***************************************************************************)
(* Legacy HAND-FIM jobs on one worker and its volume: tasks.hand_fim, the  *)
(* command scenario of docker/handfim/entry.py and patches/runFIM.py.      *)
(*                                                                         *)
(* The volume outlives the worker process: flow files, HUC directories and *)
(* rasters are named after scenarios and HUCs, not after the job, and only *)
(* the clean-up at the end of an attempt removes them.  A killed attempt   *)
(* leaves them to the attempts that follow, of the same job or another.    *)
(*                                                                         *)
(* Names are sequences of tokens, integers: enough for the dot that ends a *)
(* file's stem and for the prefix that a glob pattern stands for.          *)
(***************************************************************************)
EXTENDS Integers, FiniteSets, Sequences, SequencesExt, Collections

CONSTANTS
    Jobs,           \* the jobs sent to this worker
    Asked,          \* Asked[j]: sequence of [id, hucs], hucs in order of mention
    Prefix,         \* Prefix[j]: output prefix
    Overwriting,    \* jobs submitted with overwrite=true
    MaxKills, MaxFaults     \* bounds: killed workers, failing calls

ASSUME LegacyAssumption ==
    /\ Asked \in [Jobs -> Seq([id : Seq(Int), hucs : Seq(Nat)])]
    /\ Overwriting \subseteq Jobs
    /\ MaxKills \in Nat /\ MaxFaults \in Nat

VARIABLES
    waiting,        \* jobs whose message is in the queue
    attempt,        \* the attempt that runs
    hucDir,         \* [HUC -> "partial" or "whole"]: flood_<huc>/<huc>
    flow,           \* [label -> job that wrote the flow file]
    raster,         \* [<<huc, label>> -> raster below <huc>_inundation]
    outDir,         \* [job -> [file -> content]], scenarios/<job>
    bucket,         \* [<<prefix, file>> -> [by, content]]
    result,         \* [Jobs -> "none", "done" or "failed"]
    kills, faults

legacyVars == <<waiting, attempt, hucDir, flow, raster, outDir, bucket, result, kills, faults>>

volume == <<hucDir, flow, raster, outDir>>

\* todo: what is left of the stage, a set of labels while they are computed, else a sequence.
NoAttempt == [at |-> "idle", job |-> 0, todo |-> <<>>, failed |-> FALSE, dirty |-> FALSE]

(***************************************************************************)
(* Names.                                                                  *)
(***************************************************************************)
Dot == -1
Underscores == -2

Label(id, huc) == id \o <<Underscores, huc>>

\* runFIM: os.path.basename(data_dir).split(".")[0]
Stem(label) ==
    IF Dot \in ToSet(label)
    THEN SubSeq(label, 1, SelectInSeq(label, LAMBDA t : t = Dot) - 1)
    ELSE label

\* The labels of a job: one for each HUC of each scenario.
LabelsOf(j) ==
    UNION {{[huc |-> h, label |-> Label(s.id, h)] : h \in ToSet(s.hucs)} : s \in ToSet(Asked[j])}

HucsOfJob(j) == Ascending({l.huc : l \in LabelsOf(j)})

\* Files of the output directory; the scenario list stands for the README too.
ListFile == <<>>
FilesOf(j) == {ListFile} \cup {s.id : s \in ToSet(Asked[j])}
KeyOf(j, file) == <<Prefix[j], file>>

(***************************************************************************)
(* hand_fim: directories, and no file of an earlier attempt in them.       *)
(***************************************************************************)
At(stage, todo) == attempt' = [attempt EXCEPT !.at = stage, !.todo = todo]

Start(j) ==
    /\ attempt.at = "idle" /\ j \in waiting
    /\ waiting' = waiting \ {j}
    /\ outDir' = With(outDir, j, [file \in {ListFile} |-> {}])
    /\ attempt' = [attempt EXCEPT !.at = "download", !.job = j, !.todo = HucsOfJob(j)]
    /\ UNCHANGED <<hucDir, flow, raster, bucket, result, kills, faults>>

(***************************************************************************)
(* generate_scenario_fim: __download_huc_fim takes a directory that exists *)
(* for a download; then a flow file for every label.                       *)
(***************************************************************************)
DownloadHuc ==
    /\ attempt.at = "download" /\ attempt.todo # <<>>
    /\ hucDir' = WithDefault(hucDir, Head(attempt.todo), "whole")
    /\ At("download", Tail(attempt.todo))
    /\ UNCHANGED <<waiting, flow, raster, outDir, bucket, result, kills, faults>>

WriteFlowFiles ==
    /\ attempt.at = "download" /\ attempt.todo = <<>>
    /\ flow' = Updated(flow, [l \in {x.label : x \in LabelsOf(attempt.job)} |-> attempt.job])
    /\ At("compute", LabelsOf(attempt.job))
    /\ UNCHANGED <<waiting, hucDir, raster, outDir, bucket, result, kills, faults>>

(***************************************************************************)
(* runFIM.runfim in a process pool.  The raster of an earlier run goes,    *)
(* the mapping program runs, and what it leaves is moved into place: it    *)
(* may flood no cell, or leave none at all and still exit with 0.          *)
(***************************************************************************)
\* A mutant of Compute: an earlier run's raster stays where it is.
ComputeOver(l) ==
    /\ attempt.at = "compute" /\ l \in attempt.todo
    /\ \E wet \in BOOLEAN, left \in BOOLEAN :
         raster' = IF left
                   THEN With(raster, <<l.huc, l.label>>,
                             [by |-> flow[l.label], wet |-> wet, huc |-> l.huc,
                              data |-> hucDir[l.huc]])
                   ELSE raster
    /\ At("compute", attempt.todo \ {l})
    /\ UNCHANGED <<waiting, hucDir, flow, outDir, bucket, result, kills, faults>>

Compute(l) ==
    /\ attempt.at = "compute" /\ l \in attempt.todo
    /\ \E wet \in BOOLEAN, left \in BOOLEAN :
         raster' = IF left
                   THEN With(raster, <<l.huc, l.label>>,
                             [by |-> flow[l.label], wet |-> wet, huc |-> l.huc,
                              data |-> hucDir[l.huc]])
                   ELSE Without(raster, {<<l.huc, l.label>>})
    /\ At("compute", attempt.todo \ {l})
    /\ UNCHANGED <<waiting, hucDir, flow, outDir, bucket, result, kills, faults>>

\* The program exits with an error; the other labels are computed all the same.
ComputeFails(l) ==
    /\ attempt.at = "compute" /\ l \in attempt.todo /\ faults < MaxFaults
    /\ raster' = Without(raster, {<<l.huc, l.label>>})
    /\ attempt' = [attempt EXCEPT !.todo = @ \ {l}, !.failed = TRUE]
    /\ faults' = faults + 1
    /\ UNCHANGED <<waiting, hucDir, flow, outDir, bucket, result, kills>>

AllComputed ==
    /\ attempt.at = "compute" /\ attempt.todo = {}
    /\ IF attempt.failed THEN At("cleanup", <<>>) ELSE At("assemble", Asked[attempt.job])
    /\ UNCHANGED <<waiting, volume, bucket, result, kills, faults>>

(***************************************************************************)
(* The final raster of a scenario.  A HUC's raster is the first match of   *)
(* **/{label}*_inundation.tif; its file is named after the label's stem.   *)
(* In path order the label's own raster, if there is one, comes first.     *)
(***************************************************************************)
Candidates(huc, label) ==
    {k \in DOMAIN raster : k[1] = huc /\ IsPrefix(label, Stem(k[2]))}

First(keys) == CHOOSE k \in keys : \A other \in keys : Len(k[2]) <= Len(other[2])

Assemble ==
    /\ attempt.at = "assemble" /\ attempt.todo # <<>>
    /\ LET s == Head(attempt.todo)
           found(h) == Candidates(h, Label(s.id, h))
           used == {First(found(h)) : h \in ToSet(s.hucs)}
       IN IF \/ \E h \in ToSet(s.hucs) : found(h) = {}
             \/ \E k \in used : ~raster[k].wet
          THEN /\ attempt' = [attempt EXCEPT !.at = "cleanup", !.failed = TRUE]
               /\ UNCHANGED <<raster, outDir>>
          ELSE /\ outDir' = [outDir EXCEPT ![attempt.job] =
                                With(@, s.id, {raster[k] : k \in used})]
               /\ raster' = Without(raster, used)
               /\ At("assemble", Tail(attempt.todo))
    /\ UNCHANGED <<waiting, hucDir, flow, bucket, result, kills, faults>>

(***************************************************************************)
(* The command ends; hand_fim looks for a COG of every scenario, and for   *)
(* keys that are taken unless it may overwrite them (__reject_existing).   *)
(***************************************************************************)
\* A mutant of Taken: the scenario list and the README are not looked up.
TakenRasters(j) ==
    j \notin Overwriting
        /\ \E file \in DOMAIN outDir[j] \ {ListFile} : KeyOf(j, file) \in DOMAIN bucket

Taken(j) ==
    j \notin Overwriting
        /\ \E file \in DOMAIN outDir[j] : KeyOf(j, file) \in DOMAIN bucket

CheckOutputs ==
    /\ attempt.at = "assemble" /\ attempt.todo = <<>>
    /\ IF \/ ~(FilesOf(attempt.job) \subseteq DOMAIN outDir[attempt.job])
          \/ Taken(attempt.job)
       THEN attempt' = [attempt EXCEPT !.at = "cleanup", !.failed = TRUE]
       ELSE At("upload", SetToSeq(DOMAIN outDir[attempt.job]))
    /\ UNCHANGED <<waiting, volume, bucket, result, kills, faults>>

Upload ==
    /\ attempt.at = "upload" /\ attempt.todo # <<>>
    /\ LET file == Head(attempt.todo) IN
       bucket' = With(bucket, KeyOf(attempt.job, file),
                      [by |-> attempt.job, content |-> outDir[attempt.job][file]])
    /\ At("upload", Tail(attempt.todo))
    /\ UNCHANGED <<waiting, volume, result, kills, faults>>

Uploaded ==
    /\ attempt.at = "upload" /\ attempt.todo = <<>>
    /\ At("cleanup", <<>>)
    /\ UNCHANGED <<waiting, volume, bucket, result, kills, faults>>

\* A conversion, request or write fails; a download leaves what it has.
StepFails ==
    /\ attempt.at \in {"download", "assemble", "upload"} /\ faults < MaxFaults
    /\ hucDir' = IF attempt.at = "download" /\ attempt.todo # <<>>
                 THEN WithDefault(hucDir, Head(attempt.todo), "partial")
                 ELSE hucDir
    /\ attempt' = [attempt EXCEPT !.at = "cleanup", !.failed = TRUE]
    /\ faults' = faults + 1
    /\ UNCHANGED <<waiting, flow, raster, outDir, bucket, result, kills>>

(***************************************************************************)
(* __cleanup_job, in the finally clause: every path is tried, and an error *)
(* fails the job even when its outputs are uploaded.                       *)
(***************************************************************************)
\* A mutant of Removed: flow files are kept.
RemovedButFlows(j) ==
    {<<"out", j>>} \cup {<<"huc", l.huc>> : l \in LabelsOf(j)}

Removed(j) ==
    {<<"out", j>>} \cup {<<"flow", l.label>> : l \in LabelsOf(j)}
        \cup {<<"huc", l.huc>> : l \in LabelsOf(j)}

Cleanup ==
    /\ attempt.at = "cleanup"
    /\ \E kept \in SUBSET Removed(attempt.job) :
         LET gone(kind) == {p[2] : p \in {x \in Removed(attempt.job) \ kept : x[1] = kind}}
             failed == attempt.failed \/ kept # {}
         IN /\ kept # {} => faults < MaxFaults
            /\ Cardinality(kept) <= 1
            /\ outDir' = Without(outDir, gone("out"))
            /\ flow' = Without(flow, gone("flow"))
            /\ hucDir' = Without(hucDir, gone("huc"))
            /\ raster' = Without(raster, {k \in DOMAIN raster : k[1] \in gone("huc")})
            /\ faults' = IF kept = {} THEN faults ELSE faults + 1
            /\ result' = [result EXCEPT ![attempt.job] = IF failed THEN "failed" ELSE "done"]
            /\ attempt' = [NoAttempt EXCEPT !.dirty = attempt.dirty \/ kept # {}]
    /\ UNCHANGED <<waiting, bucket, kills>>

\* The worker is killed; its message is delivered again, later.
Kill ==
    /\ attempt.at # "idle" /\ kills < MaxKills
    /\ waiting' = waiting \cup {attempt.job}
    /\ hucDir' = IF attempt.at = "download" /\ attempt.todo # <<>>
                 THEN WithDefault(hucDir, Head(attempt.todo), "partial")
                 ELSE hucDir
    /\ attempt' = [NoAttempt EXCEPT !.dirty = attempt.dirty]
    /\ kills' = kills + 1
    /\ UNCHANGED <<flow, raster, outDir, bucket, result, faults>>

LegacyInit ==
    /\ waiting = Jobs
    /\ attempt = NoAttempt
    /\ hucDir = <<>> /\ flow = <<>> /\ raster = <<>> /\ outDir = <<>>
    /\ bucket = <<>>
    /\ result = [j \in Jobs |-> "none"]
    /\ kills = 0 /\ faults = 0

LegacyNext ==
    \/ \E j \in waiting : Start(j)
    \/ DownloadHuc \/ WriteFlowFiles
    \/ attempt.at = "compute" /\ \E l \in attempt.todo : Compute(l) \/ ComputeFails(l)
    \/ AllComputed \/ Assemble \/ CheckOutputs \/ Upload \/ Uploaded
    \/ StepFails \/ Cleanup \/ Kill

(***************************************************************************)
(* What a job publishes was mapped from its own flows, one raster for each *)
(* HUC of the scenario, whatever killed attempts left on the volume under  *)
(* the same names (tasks.py:434, runFIM.py:53-66).                         *)
(***************************************************************************)
LegacyOutputsAreOwn ==
    \A key \in DOMAIN bucket : key[2] # ListFile =>
        LET job == bucket[key].by
            hucs == UNION {ToSet(s.hucs) : s \in {x \in ToSet(Asked[job]) : x.id = key[2]}}
        IN /\ \A r \in bucket[key].content : r.by = job /\ r.wet
           /\ {r.huc : r \in bucket[key].content} = hucs

(***************************************************************************)
(* Once no job is left and no removal failed, the volume holds nothing of  *)
(* any job: what killed attempts left is removed by the attempts after     *)
(* them (__cleanup_job).                                                   *)
(***************************************************************************)
VolumeIsClean ==
    attempt.at = "idle" /\ ~attempt.dirty /\ waiting = {} =>
        /\ DOMAIN hucDir = {} /\ DOMAIN flow = {}
        /\ DOMAIN raster = {} /\ DOMAIN outDir = {}

(***************************************************************************)
(* An object is only replaced by a job that asked for it: a job without    *)
(* overwrite leaves every object alone, its own earlier attempts' included *)
(* (__reject_existing_s3_keys; one worker, no other writer).               *)
(***************************************************************************)
LegacyReplacesOnRequest ==
    [][\A key \in DOMAIN bucket :
         bucket'[key] # bucket[key] => attempt.job \in Overwriting]_legacyVars
=============================================================================
