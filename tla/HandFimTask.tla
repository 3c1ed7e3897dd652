------------------------------ MODULE HandFimTask ------------------------------
(***************************************************************************)
(* What the worker carries out for a HAND-FIM job (fimbox_api/tasks.py):   *)
(* streaming from the prepared index, after an operator has prepared it;   *)
(* the legacy scenario command on downloaded HUCs; or the comparison of    *)
(* two retained results.  The three share no state, so a behaviour         *)
(* exercises one of them.                                                  *)
(***************************************************************************)
EXTENDS TileStream, LegacyScenario, Comparison

VARIABLE mode       \* the kind of task; never changes

vars == <<indexVars, streamVars, legacyVars, compareVars, mode>>

Modes == {"streaming", "legacy", "compare"}

Init ==
    /\ mode \in Modes
    /\ IndexInit
    /\ mode # "streaming" => source = [h \in Hucs |-> CHOOSE s \in Sources[h] : TRUE]
    /\ StreamInit
    /\ LegacyInit
    /\ CompareInit
    /\ mode # "compare" =>
         /\ [base |-> base, candidate |-> candidate] = (CHOOSE p \in Pairs : TRUE)
         /\ ~parity /\ ~replace

\* A dataset is prepared before jobs read it.
Prepare ==
    /\ mode = "streaming" /\ request = <<>>
    /\ IndexNext
    /\ UNCHANGED <<streamVars, legacyVars, compareVars, mode>>

Streaming ==
    /\ mode = "streaming"
    /\ StreamNext
    /\ UNCHANGED <<indexVars, legacyVars, compareVars, mode>>

Legacy ==
    /\ mode = "legacy"
    /\ LegacyNext
    /\ UNCHANGED <<indexVars, streamVars, compareVars, mode>>

Compare ==
    /\ mode = "compare"
    /\ CompareNext
    /\ UNCHANGED <<indexVars, streamVars, legacyVars, mode>>

Next == Prepare \/ Streaming \/ Legacy \/ Compare

Spec == Init /\ [][Next]_vars

(***************************************************************************)
(* Type invariant.                                                         *)
(***************************************************************************)
LabelSet == {l.label : l \in UNION {LabelsOf(j) : j \in Jobs}}

RasterSet ==
    [by : Jobs, wet : BOOLEAN, huc : {l.huc : l \in UNION {LabelsOf(j) : j \in Jobs}},
     data : {"partial", "whole"}]

TypeOK ==
    /\ mode \in Modes
    /\ \A h \in Hucs :
         /\ dir[h] \subseteq ToSet(Wanted(source[h]))
         /\ index[h] = NoIndex \/ index[h].block = root
    /\ fetched \subseteq Hucs
    /\ root \in BlockSizes \cup {0}
    /\ interruptions \in 0..MaxInterruptions
    /\ request \in Requests \cup {<<>>}
    /\ rule \in {"pinned"} \cup Rules
    /\ work.at \in {"idle", "plan", "tiles", "failed"}
    /\ Len(manifests) <= Len(request)
    /\ waiting \subseteq Jobs
    /\ attempt.at \in {"idle", "download", "compute", "assemble", "upload", "cleanup"}
    /\ attempt.at # "idle" => attempt.job \in Jobs \ waiting
    /\ DOMAIN flow \subseteq LabelSet /\ Range(flow) \subseteq Jobs
    /\ Range(hucDir) \subseteq {"partial", "whole"}
    /\ Range(raster) \subseteq RasterSet
    /\ DOMAIN outDir \subseteq Jobs
    /\ \A key \in DOMAIN bucket : bucket[key].by \in Jobs
    /\ result \in [Jobs -> {"none", "done", "failed"}]
    /\ comparing.at \in {"queued", "compare", "failed", "done"}
    /\ DOMAIN diffs \subseteq ToSet(IdsOf(base))
    /\ restarts \in 0..MaxRestarts
    /\ kills \in 0..MaxKills /\ faults \in 0..MaxFaults
=============================================================================
