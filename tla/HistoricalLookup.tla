--------------------------- MODULE HistoricalLookup ---------------------------
(***************************************************************************)
(* Hourly streamflow for a window of hours: fimbox_api/                    *)
(* historical_streamflow.py takes the hours up to LastRetro from the       *)
(* retrospective dataset (retrospective.py) and the later ones, hour by    *)
(* hour, from NOAA's archive (archive_reader.py), whose objects may be     *)
(* replaced while they are read range by range.                            *)
(*                                                                         *)
(* Hours are integers from 0, the first of the dataset.  Version v of an   *)
(* archive object holds the reaches Layout[v], in that order, and the flow *)
(* <<r, v>> at the position of reach r.  The retrospective's flow of r at  *)
(* hour t is <<r, t>>.  Byte ranges are chunks; what a corrupt index or    *)
(* object can contain is the single outcome ReadFails.                     *)
(***************************************************************************)
EXTENDS Integers, FiniteSets, Sequences, SequencesExt

CONSTANTS
    Lookups,        \* requests
    Span,           \* Span[l] = <<first hour, last hour>>
    Reaches,        \* Reaches[l]: the reaches asked for
    RetroReaches,   \* the reaches of the retrospective
    LastRetro,      \* LAST_TIME
    TimeChunk,      \* TIME_CHUNK
    ArchiveHours,   \* hours after LastRetro
    Layout,         \* [version -> sequence of reaches]
    Masked,         \* flows <<r, v>> that are missing values
    Chunk,          \* elements per chunk of an archive array
    Limits,         \* pairs of MAX_CONCURRENT_LOOKUPS and MAX_DECODED_HOURS
    NoLookup, MaxChanges    \* bound: objects published or replaced

\* Reach identifiers that occur in some version of an object.
Feature == UNION {Range(Layout[v]) : v \in DOMAIN Layout}

ASSUME LookupAssumption ==
    /\ NoLookup \notin Lookups
    /\ LastRetro \in Nat
    /\ \A l \in Lookups :
          /\ Span[l] \in Nat \X Nat /\ Span[l][1] <= Span[l][2]
          /\ {h \in Span[l][1] .. Span[l][2] : h > LastRetro} \subseteq ArchiveHours
    /\ Layout \in Seq(Seq(Feature)) /\ Layout # <<>>
    /\ TimeChunk \in Nat \ {0} /\ Chunk \in Nat \ {0}
    /\ Limits \subseteq (Nat \ {0}) \X (Nat \ {0}) /\ Limits # {}
    /\ MaxChanges \in Nat

VARIABLES
    object,         \* [ArchiveHours -> version, 0 when there is none]
    indexed,        \* archive hours that have an index
    look,           \* [Lookups -> progress]
    running,        \* lookups that hold _LOOKUP_CAPACITY
    decoding,       \* lookups that hold a decode slot
    hdf5,           \* who holds _HDF5_LOCK
    limits,         \* the pair the process was built with; never changes
    changes

lookupVars == <<object, indexed, look, running, decoding, hdf5, limits, changes>>

Capacity == limits[1]
DecodeSlots == limits[2]

NoFlow == <<>>

Fresh == [at |-> "idle", hour |-> 0, late |-> FALSE, pin |-> 0, features |-> <<>>,
          todo |-> {}, flows |-> <<>>, samples |-> <<>>]

Smaller(a, b) == IF a < b THEN a ELSE b
Larger(a, b) == IF a < b THEN b ELSE a

NoFlows(l) == [r \in Reaches[l] |-> NoFlow]

(***************************************************************************)
(* retrospective.streamflows: rows of the time chunks, placed in the       *)
(* output at offset + first_row - first.                                   *)
(***************************************************************************)
\* The rows of a chunk that the window covers: the hour read for each output position.
ChunkRows(t, first, last) ==
    LET offset == t * TimeChunk
        start == Larger(first - offset, 0)
        end == Smaller(last - offset + 1, TimeChunk)
    IN [i \in offset + start - first .. offset + end - first - 1 |->
          offset + start + i - (offset + start - first)]

\* The time chunks that write output position i. The last one to do so counts.
ChunksAt(i, first, last) ==
    {t \in first \div TimeChunk .. last \div TimeChunk : i \in DOMAIN ChunkRows(t, first, last)}

RetroFlow(r, i, first, last) ==
    IF r \notin RetroReaches \/ ChunksAt(i, first, last) = {}
    THEN NoFlow
    ELSE <<r, ChunkRows(Max(ChunksAt(i, first, last)), first, last)[i]>>

RetroSamples(l, first, last) ==
    [n \in 1 .. last - first + 1 |->
        [time |-> first + n - 1, source |-> "retrospective", version |-> 0,
         flows |-> [r \in Reaches[l] |-> RetroFlow(r, n - 1, first, last)]]]

(***************************************************************************)
(* lookup.                                                                 *)
(***************************************************************************)
\* A mutant of End: the HDF5 lock is not given back on the way out.
EndLocked(l, outcome) ==
    /\ look' = [look EXCEPT ![l] = [Fresh EXCEPT !.at = outcome,
         !.samples = IF outcome = "done" THEN look[l].samples ELSE <<>>]]
    /\ running' = running \ {l}
    /\ decoding' = decoding \ {l}
    /\ UNCHANGED <<object, indexed, hdf5, limits, changes>>

\* The finally clauses: the lookup ends and gives back what it holds.
End(l, outcome) ==
    /\ look' = [look EXCEPT ![l] = [Fresh EXCEPT !.at = outcome,
         !.samples = IF outcome = "done" THEN look[l].samples ELSE <<>>]]
    /\ running' = running \ {l}
    /\ decoding' = decoding \ {l}
    /\ hdf5' = IF hdf5 = l THEN NoLookup ELSE hdf5
    /\ UNCHANGED <<object, indexed, limits, changes>>

Begin(l) ==
    /\ look[l].at = "idle"
    /\ IF Cardinality(running) < Capacity
       THEN /\ running' = running \cup {l}
            /\ look' = [look EXCEPT ![l].at = "retro"]
       ELSE /\ look' = [look EXCEPT ![l].at = "busy"]
            /\ UNCHANGED running
    /\ UNCHANGED <<object, indexed, decoding, hdf5, limits, changes>>

Retrospective(l) ==
    /\ look[l].at = "retro"
    /\ ~look[l].late
    /\ LET first == Span[l][1]
           last == Smaller(Span[l][2], LastRetro)
       IN look' = [look EXCEPT ![l].at = "hour",
            ![l].samples = IF first <= last THEN RetroSamples(l, first, last) ELSE <<>>,
            ![l].hour = Larger(first, LastRetro + 1)]
    /\ UNCHANGED <<object, indexed, running, decoding, hdf5, limits, changes>>

Answer(l) ==
    /\ look[l].at = "hour" /\ look[l].hour > Span[l][2]
    /\ ~look[l].late
    /\ End(l, "done")

(***************************************************************************)
(* read_hour: a decode slot, the index, the object.                        *)
(***************************************************************************)
AcquireSlot(l) ==
    /\ look[l].at = "hour" /\ look[l].hour <= Span[l][2]
    /\ ~look[l].late
    /\ Cardinality(decoding) < DecodeSlots
    /\ decoding' = decoding \cup {l}
    /\ look' = [look EXCEPT ![l].at = "open"]
    /\ UNCHANGED <<object, indexed, running, hdf5, limits, changes>>

\* The sample of the hour; the slot and the lock are given back.
EndHour(l, flows) ==
    /\ look' = [look EXCEPT ![l].at = "hour", ![l].hour = @ + 1,
         ![l].samples = Append(@, [time |-> look[l].hour, source |-> "archive",
                                   version |-> look[l].pin, flows |-> flows]),
         ![l].pin = 0, ![l].features = <<>>, ![l].flows = <<>>, ![l].todo = {}]
    /\ decoding' = decoding \ {l}
    /\ hdf5' = IF hdf5 = l THEN NoLookup ELSE hdf5
    /\ UNCHANGED <<object, indexed, running, limits, changes>>

\* The first read pins the object's version; there may be no object.
OpenObject(l) ==
    /\ look[l].at = "open" /\ ~look[l].late
    /\ LET h == look[l].hour IN
       IF object[h] = 0
       THEN EndHour(l, NoFlows(l))
       ELSE /\ look' = [look EXCEPT ![l].pin = object[h],
                 ![l].at = IF h \in indexed THEN "features" ELSE "lock"]
            /\ UNCHANGED <<object, indexed, running, decoding, hdf5, limits, changes>>

\* Objects without an index are read with h5py: one at a time, no timeout.
LockHdf5(l) ==
    /\ look[l].at = "lock" /\ hdf5 = NoLookup
    /\ hdf5' = l
    /\ look' = [look EXCEPT ![l].at = "features"]
    /\ UNCHANGED <<object, indexed, running, decoding, limits, changes>>

(***************************************************************************)
(* RangeSource.read of one chunk: If-Match and the comparison of ETag and  *)
(* size refuse another version than the pinned one.                        *)
(***************************************************************************)
Changed(l) == object[look[l].hour] # look[l].pin

\* A mutant of Readable: reads are not conditional.
ReadableAny(l) == ~look[l].late /\ object[look[l].hour] # 0

Readable(l) == ~look[l].late /\ ~Changed(l)

ChunkOf(sequence, k) ==
    SubSeq(sequence, k * Chunk + 1, Smaller((k + 1) * Chunk, Len(sequence)))

ReadFeatures(l) ==
    /\ look[l].at = "features" /\ Readable(l)
    /\ LET stored == Layout[object[look[l].hour]]
           known == look[l].features \o ChunkOf(stored, Len(look[l].features) \div Chunk)
           positions == {p \in DOMAIN known : known[p] \in Reaches[l]}
       IN look' = [look EXCEPT ![l].features = known,
            ![l].at = IF Len(known) < Len(Layout[look[l].pin]) THEN "features" ELSE "flows",
            ![l].todo = {(p - 1) \div Chunk : p \in positions},
            ![l].flows = NoFlows(l)]
    /\ UNCHANGED <<object, indexed, running, decoding, hdf5, limits, changes>>

\* A chunk of flows; the positions that were found in the feature IDs.
ReadFlow(l, k) ==
    /\ look[l].at = "flows" /\ k \in look[l].todo /\ Readable(l)
    /\ LET v == object[look[l].hour]
           ids == look[l].features
           here(r) == {p \in DOMAIN ids : ids[p] = r /\ (p - 1) \div Chunk = k}
           value(p) == <<ChunkOf(Layout[v], k)[p - k * Chunk], v>>
           found(r) == value(CHOOSE p \in here(r) : TRUE)
       IN look' = [look EXCEPT ![l].todo = @ \ {k},
            ![l].flows = [r \in Reaches[l] |->
                IF here(r) = {} THEN @[r] ELSE IF found(r) \in Masked THEN NoFlow ELSE found(r)]]
    /\ UNCHANGED <<object, indexed, running, decoding, hdf5, limits, changes>>

FinishHour(l) ==
    /\ look[l].at = "flows" /\ look[l].todo = {} /\ ~look[l].late
    /\ EndHour(l, look[l].flows)

Busy == {"retro", "hour", "open", "lock", "features", "flows"}
Reading == {"open", "features", "flows"}

ObjectChanged(l) ==
    /\ look[l].at \in {"features", "flows"} /\ Changed(l)
    /\ End(l, "error")

ReadFails(l) ==
    /\ look[l].at \in Reading \cup {"retro"}
    /\ End(l, "error")

\* Every check of the deadline; the wait for the lock makes none.
DeadlineExceeded(l) ==
    /\ look[l].at \in Busy \ {"lock"} /\ look[l].late
    /\ End(l, "late")

\* LOOKUP_DEADLINE_SECONDS have passed.
DeadlinePasses(l) ==
    /\ look[l].at \in Busy /\ ~look[l].late
    /\ look' = [look EXCEPT ![l].late = TRUE]
    /\ UNCHANGED <<object, indexed, running, decoding, hdf5, limits, changes>>

ChangeObject(h) ==
    /\ changes < MaxChanges
    /\ \E v \in DOMAIN Layout \ {object[h]} : object' = [object EXCEPT ![h] = v]
    /\ changes' = changes + 1
    /\ UNCHANGED <<indexed, look, running, decoding, hdf5, limits>>

LookupInit ==
    /\ object \in [ArchiveHours -> {0, 1}]
    /\ indexed \in SUBSET ArchiveHours
    /\ look = [l \in Lookups |-> Fresh]
    /\ running = {} /\ decoding = {}
    /\ hdf5 = NoLookup
    /\ limits \in Limits
    /\ changes = 0

Step(l) ==
    \/ Retrospective(l) \/ Answer(l) \/ AcquireSlot(l) \/ OpenObject(l) \/ LockHdf5(l)
    \/ ReadFeatures(l) \/ (\E k \in look[l].todo : ReadFlow(l, k)) \/ FinishHour(l)
    \/ ObjectChanged(l) \/ DeadlineExceeded(l)

LookupNext ==
    \/ \E l \in Lookups : Begin(l) \/ Step(l) \/ ReadFails(l) \/ DeadlinePasses(l)
    \/ \E h \in ArchiveHours : ChangeObject(h)

(***************************************************************************)
(* An answer has one sample for every hour of the window, in order, each   *)
(* from the dataset that covers the hour, and all flows of a sample are    *)
(* those of the reaches asked for, at that hour and in one version of the  *)
(* object: no chunk boundary, cutoff or replaced object shifts them        *)
(* (retrospective.py:137-149, archive_reader.py:128-186).                  *)
(***************************************************************************)
SamplesAreTheHours ==
    \A l \in Lookups : look[l].at = "done" =>
        LET s == look[l].samples
            true_flow(r, x) ==
                IF x.source = "retrospective"
                THEN IF r \in RetroReaches THEN <<r, x.time>> ELSE NoFlow
                ELSE IF \/ x.version = 0 \/ r \notin Range(Layout[x.version])
                        \/ <<r, x.version>> \in Masked
                     THEN NoFlow
                     ELSE <<r, x.version>>
        IN /\ Len(s) = Span[l][2] - Span[l][1] + 1
           /\ \A n \in DOMAIN s :
                /\ s[n].time = Span[l][1] + n - 1
                /\ s[n].source = IF s[n].time <= LastRetro THEN "retrospective" ELSE "archive"
                /\ s[n].flows = [r \in Reaches[l] |-> true_flow(r, s[n])]

(***************************************************************************)
(* Every lookup that began ends and gives back its capacity, its decode    *)
(* slot and the HDF5 lock, which has no timeout of its own                 *)
(* (archive_reader.py:548, 583-602).                                       *)
(***************************************************************************)
LookupsEnd ==
    \A l \in Lookups :
        l \in running ~> l \notin running /\ l \notin decoding /\ hdf5 # l
=============================================================================
