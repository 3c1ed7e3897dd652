----------------------------- MODULE HucPublish -----------------------------
(***************************************************************************)
(* One HUC of the prepared streaming dataset in S3: preparers that replace *)
(* it (prepare_streaming_collection.py) and a streaming job that plans     *)
(* with it (plan_huc in streamFIM.py, run_streaming in stream_storage.py). *)
(*                                                                         *)
(* A preparer deletes what is below the HUC's prefix, page by page, then   *)
(* uploads reaches.parquet and, last, huc.parquet, the marker. The reader  *)
(* takes the marker first. An older layout keeps one object per reach.     *)
(* What a file holds is reduced to the source version it was built from.   *)
(***************************************************************************)
EXTENDS Naturals, FiniteSets, Sequences, SequencesExt

CONSTANTS
    Preparers,    \* executions of prepare_single_huc for this HUC
    Version,      \* the source version each of them prepares
    Reaches,      \* the reaches of the HUC, in the order of their keys
    PageSize,     \* keys in a page of list_objects_v2 (1000 in S3)
    None,         \* no object, or nothing read
    HucFaults,    \* the kinds of fault this instance admits
    MaxHucFaults  \* bound on the number of faults, each of another kind

HucFaultKinds == {
    "storeError", \* a request raises; a write may have been applied or not
    "keyError",   \* delete_objects reports an error for some of its keys
    "crash"}      \* the preparer's process is killed; its task is delivered again

Versions == {Version[p] : p \in Preparers}

\* The keys below the HUC's prefix in the order in which S3 lists them.
KeyOrder == <<"huc", "reaches">> \o Reaches
Keys     == ToSet(KeyOrder)
Reach    == ToSet(Reaches)

ASSUME HucAssumption ==
    /\ Version \in [Preparers -> Versions]
    /\ Reaches \in Seq(Reach) /\ Reaches # <<>>
    /\ Cardinality(Keys) = Len(KeyOrder)
    /\ PageSize \in Nat \ {0}
    /\ None \notin Versions
    /\ HucFaults \subseteq HucFaultKinds
    /\ MaxHucFaults \in Nat

VARIABLES
    dataset,    \* S3: the version in dataset.parquet
    objects,    \* S3: the version of each object below the HUC's prefix
    stage,      \* what each preparer is doing
    cursor,     \* the last key of the listing each preparer has gone through
    reader,     \* the streaming job that plans with the HUC
    last,       \* history variable: the preparer that started last
    overlapped, \* history variable: two preparers were at work at once
    hucFaults   \* history variable: the kinds of fault so far

hucVars == <<dataset, objects, stage, cursor, reader, last, overlapped, hucFaults>>

Working == {"head", "check", "put", "build", "delete", "upload", "mark"}
Reading == {"reaches", "footer", "rows", "fallback"}

HucTypeOK ==
    /\ dataset \in Versions \cup {None}
    /\ objects \in [Keys -> Versions \cup {None}]
    /\ stage \in [Preparers -> {"waiting", "done", "failed"} \cup Working]
    /\ cursor \in [Preparers -> 0 .. Len(KeyOrder)]
    /\ reader \in [stage : {"waiting", "dataset", "huc", "absent", "failed", "stuck", "planned"}
                              \cup Reading,
                   todo : SUBSET Reach, found : SUBSET Reach,
                   footer : Versions \cup {None}, disturbed : BOOLEAN]
    /\ last \in Preparers \cup {None}
    /\ overlapped \in BOOLEAN
    /\ hucFaults \subseteq HucFaults

Absent == [k \in Keys |-> None]
Prepared(v) == [k \in Keys |-> IF k \in Reach THEN None ELSE v]
Older(v) == [k \in Keys |-> IF k = "reaches" THEN None ELSE v]

\* A new dataset, one without the HUC, or one that has it in either layout.
HucInit ==
    /\ dataset \in Versions \cup {None}
    /\ objects \in {Absent} \cup
          (IF dataset = None THEN {} ELSE {Prepared(dataset), Older(dataset)})
    /\ stage = [p \in Preparers |-> "waiting"]
    /\ cursor = [p \in Preparers |-> 0]
    /\ reader = [stage |-> "waiting", todo |-> Reach, found |-> {}, footer |-> None,
                 disturbed |-> FALSE]
    /\ last = None
    /\ overlapped = FALSE
    /\ hucFaults = {}

HucFault(kind) ==
    /\ kind \in HucFaults \ hucFaults
    /\ Cardinality(hucFaults) < MaxHucFaults
    /\ hucFaults' = hucFaults \cup {kind}

-----------------------------------------------------------------------------
(* A preparer. *)

Go(p, next) == stage' = [stage EXCEPT ![p] = next]

StartPreparer(p) ==
    /\ stage[p] = "waiting"
    /\ Go(p, "head")
    /\ cursor' = [cursor EXCEPT ![p] = 0]
    /\ last' = p
    /\ overlapped' = (overlapped \/ \E q \in Preparers : stage[q] \in Working)
    /\ UNCHANGED <<dataset, objects, reader, hucFaults>>

\* dataset-info.txt repeats the version and is checked and written the same way.
HeadDataset(p) ==
    /\ stage[p] = "head"
    /\ Go(p, IF dataset = None THEN "put" ELSE "check")
    /\ UNCHANGED <<dataset, objects, cursor, reader, last, overlapped, hucFaults>>

CheckDataset(p) ==
    /\ stage[p] = "check"
    /\ Go(p, IF dataset = Version[p] THEN "build" ELSE "failed")
    /\ UNCHANGED <<dataset, objects, cursor, reader, last, overlapped, hucFaults>>

PutDataset(p) ==
    /\ stage[p] = "put"
    /\ \/ dataset' = Version[p] /\ Go(p, "build") /\ UNCHANGED hucFaults
       \/ HucFault("storeError") /\ dataset' \in {dataset, Version[p]} /\ Go(p, "failed")
    /\ UNCHANGED <<objects, cursor, reader, last, overlapped>>

\* Download and conversion, in local files; a source that lacks a raster fails.
Build(p) ==
    /\ stage[p] = "build"
    /\ Go(p, "delete") \/ Go(p, "failed")
    /\ UNCHANGED <<dataset, objects, cursor, reader, last, overlapped, hucFaults>>

\* The next page of the listing: the first PageSize objects after the cursor.
Page(p) ==
    LET listed == {i \in DOMAIN KeyOrder : i > cursor[p] /\ objects[KeyOrder[i]] # None}
    IN  {i \in listed : Cardinality({k \in listed : k < i}) < PageSize}

\* Mutant of HighestOf: the listing goes on one key too far.
AfterHighestOf(indices) == 1 + CHOOSE i \in indices : \A k \in indices : k <= i

\* The continuation token of a page: its last key.
HighestOf(indices) == CHOOSE i \in indices : \A k \in indices : k <= i

\* The reader is disturbed by a deletion after it has found the HUC.
Disturbed == [reader EXCEPT !.disturbed = reader.disturbed \/ reader.stage \in Reading]

\* One page and its delete_objects request, all keys at once. The response is not read:
\* a key whose deletion failed stays, and the preparer goes on.
DeletePage(p) ==
    /\ stage[p] = "delete"
    /\ Page(p) # {}
    /\ \E failed \in SUBSET Page(p) :
          /\ objects' = [k \in Keys |-> IF k \in {KeyOrder[i] : i \in Page(p) \ failed}
                                            THEN None ELSE objects[k]]
          /\ \/ /\ failed = {}
                /\ cursor' = [cursor EXCEPT ![p] = HighestOf(Page(p))]
                /\ UNCHANGED <<stage, hucFaults>>
             \/ /\ failed # {}
                /\ HucFault("keyError")
                /\ cursor' = [cursor EXCEPT ![p] = HighestOf(Page(p))]
                /\ UNCHANGED stage
             \/ /\ failed \in {{}, Page(p)}
                /\ HucFault("storeError")
                /\ Go(p, "failed")
                /\ UNCHANGED cursor
    /\ reader' = Disturbed
    /\ UNCHANGED <<dataset, last, overlapped>>

\* Mutant of EndOfListing: the marker is uploaded with the other files, before them.
MarkFirst(p) ==
    /\ stage[p] = "delete"
    /\ Page(p) = {}
    /\ Go(p, "upload")
    /\ objects' = [objects EXCEPT !["huc"] = Version[p]]
    /\ UNCHANGED <<dataset, cursor, reader, last, overlapped, hucFaults>>

\* Mutant of EndOfListing: only the first page is deleted.
EndOfFirstPage(p) ==
    /\ stage[p] = "delete"
    /\ Page(p) = {} \/ cursor[p] > 0
    /\ Go(p, "upload")
    /\ UNCHANGED <<dataset, objects, cursor, reader, last, overlapped, hucFaults>>

EndOfListing(p) ==
    /\ stage[p] = "delete"
    /\ Page(p) = {}
    /\ Go(p, "upload")
    /\ UNCHANGED <<dataset, objects, cursor, reader, last, overlapped, hucFaults>>

Upload(p, from, key, to) ==
    /\ stage[p] = from
    /\ LET uploaded == [objects EXCEPT ![key] = Version[p]] IN
       \/ objects' = uploaded /\ Go(p, to) /\ UNCHANGED hucFaults
       \/ HucFault("storeError") /\ objects' \in {objects, uploaded} /\ Go(p, "failed")
    /\ UNCHANGED <<dataset, cursor, reader, last, overlapped>>

UploadReaches(p) == Upload(p, "upload", "reaches", "mark")
UploadMarker(p)  == Upload(p, "mark", "huc", "done")

CrashPreparer(p) ==
    /\ stage[p] \in Working
    /\ HucFault("crash")
    /\ Go(p, "waiting")
    /\ UNCHANGED <<dataset, objects, cursor, reader, last, overlapped>>

Prepare(p) ==
    \/ StartPreparer(p) \/ HeadDataset(p) \/ CheckDataset(p) \/ PutDataset(p) \/ Build(p)
    \/ DeletePage(p) \/ EndOfListing(p) \/ UploadReaches(p) \/ UploadMarker(p)

-----------------------------------------------------------------------------
(* The reader: run_scenario and plan_huc for one HUC, all of whose reaches  *)
(* are requested.                                                           *)

Read(changed) ==
    /\ reader' = changed
    /\ UNCHANGED <<dataset, objects, stage, cursor, last, overlapped, hucFaults>>

ReadDataset ==
    /\ reader.stage = "waiting"
    /\ Read([reader EXCEPT !.stage = IF dataset = None THEN "failed" ELSE "huc"])

ReadHuc ==
    /\ reader.stage = "huc"
    /\ Read([reader EXCEPT !.stage = IF objects["huc"] = None THEN "absent" ELSE "reaches"])

\* Mutant of HeadReaches: no look for files of the older layout.
HeadReachesOnly ==
    /\ reader.stage = "reaches"
    /\ Read([reader EXCEPT !.stage = IF objects["reaches"] = None THEN "planned" ELSE "footer"])

\* Without reaches.parquet the dataset is taken to be of the older layout.
HeadReaches ==
    /\ reader.stage = "reaches"
    /\ Read([reader EXCEPT !.stage = IF objects["reaches"] = None THEN "fallback" ELSE "footer"])

\* A range of an object that is gone raises: the job fails.
ReadFooter ==
    /\ reader.stage = "footer"
    /\ Read(IF objects["reaches"] = None
              THEN [reader EXCEPT !.stage = "failed"]
              ELSE [reader EXCEPT !.stage = "rows", !.footer = objects["reaches"]])

\* No range is bound to a version of the object. Ranges of two objects decode to something,
\* fail to, or end early, which RangedObject.readinto never notices.
ReadRows ==
    /\ reader.stage = "rows"
    /\ LET planned == [reader EXCEPT !.stage = "planned", !.found = Reach, !.todo = {}] IN
       IF objects["reaches"] = None
           THEN Read([reader EXCEPT !.stage = "failed"])
           ELSE \/ Read(planned)
                \/ /\ objects["reaches"] # reader.footer
                   /\ \E end \in {"failed", "stuck"} : Read([reader EXCEPT !.stage = end])

\* A reach without a file is missing, and is left out of the scenario.
ReadReach ==
    /\ reader.stage = "fallback"
    /\ \E r \in reader.todo :
          Read([reader EXCEPT
                  !.todo = @ \ {r},
                  !.found = IF objects[r] = None THEN @ ELSE @ \cup {r},
                  !.stage = IF reader.todo = {r} THEN "planned" ELSE "fallback"])

Plan == ReadDataset \/ ReadHuc \/ HeadReaches \/ ReadFooter \/ ReadRows \/ ReadReach

-----------------------------------------------------------------------------
HucNext == (\E p \in Preparers : Prepare(p) \/ CrashPreparer(p)) \/ Plan

HucSpec == HucInit /\ [][HucNext]_hucVars

-----------------------------------------------------------------------------
(* Properties. *)

\* One preparer at a time, and no key that S3 refused to delete.
Orderly == ~overlapped /\ "keyError" \notin hucFaults

\* A HUC that has its marker is of the version that dataset.parquet names and has all its
\* reaches, from the same version, also after a crash or a failed request at any point of a
\* replacement: the marker is deleted with the first page and uploaded last.
MarkedHucIsComplete ==
    Orderly /\ objects["huc"] # None =>
        /\ objects["huc"] = dataset
        /\ \/ objects["reaches"] = objects["huc"]
           \/ \A r \in Reach : objects[r] = objects["huc"]

\* A preparer that has ended well has replaced everything below the prefix: nothing of an
\* older version or layout is left, whatever failed before it.
ReplacementIsWhole ==
    \A p \in Preparers :
        Orderly /\ stage[p] = "done" /\ last = p => objects = Prepared(Version[p])

\* A job that found the HUC leaves none of its reaches out, unless the HUC was being
\* replaced at the time.
FoundHucIsWhole ==
    Orderly /\ reader.stage = "planned" /\ ~reader.disturbed => reader.found = Reach

=============================================================================
