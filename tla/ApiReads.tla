------------------------------- MODULE ApiReads -------------------------------
(***************************************************************************)
(* What request threads of the API process do against stores that others   *)
(* write: map requests for a streamed scenario, historical streamflow      *)
(* lookups, creation of workspaces.  They share no state with each other,  *)
(* so a behaviour exercises one of them.                                   *)
(***************************************************************************)
EXTENDS ManifestCache, HistoricalLookup, Workspaces

VARIABLE surface    \* which of them; never changes

vars == <<cacheVars, lookupVars, workspaceVars, surface>>

Init ==
    /\ surface \in {"map", "streamflow", "workspace"}
    /\ CacheInit
    /\ LookupInit
    /\ WorkspaceInit
    /\ surface # "streamflow" =>
         /\ indexed = {} /\ \A h \in ArchiveHours : object[h] = 0
         /\ limits = (CHOOSE pair \in Limits : TRUE)
    /\ surface # "workspace" => ~others

Map ==
    /\ surface = "map"
    /\ CacheNext
    /\ UNCHANGED <<lookupVars, workspaceVars, surface>>

Streamflow ==
    /\ surface = "streamflow"
    /\ LookupNext
    /\ UNCHANGED <<cacheVars, workspaceVars, surface>>

Workspace ==
    /\ surface = "workspace"
    /\ WorkspaceNext
    /\ UNCHANGED <<cacheVars, lookupVars, surface>>

Next == Map \/ Streamflow \/ Workspace

\* The thread of a lookup keeps running.
LookupSteps(l) ==
    /\ surface = "streamflow"
    /\ Step(l)
    /\ UNCHANGED <<cacheVars, workspaceVars, surface>>

Spec == Init /\ [][Next]_vars

FairSpec == Spec /\ \A l \in Lookups : WF_vars(LookupSteps(l))

(***************************************************************************)
(* Type invariant.                                                         *)
(***************************************************************************)
TypeOK ==
    /\ surface \in {"map", "streamflow", "workspace"}
    /\ stored \in [Manifests -> Contents \cup {0}]
    /\ Len(cache) <= CacheSize
    /\ \A i, k \in DOMAIN cache : cache[i].key = cache[k].key => i = k
    /\ \A r \in Readers : reader[r].at \in {"idle", "get", "insert", "answered", "failed"}
    /\ publishes \in 0..MaxPublishes
    /\ object \in [ArchiveHours -> 0..Len(Layout)] /\ indexed \subseteq ArchiveHours
    /\ \A l \in Lookups : look[l].at \in Busy \cup {"idle", "busy", "done", "error", "late"}
    /\ running = {l \in Lookups : look[l].at \in Busy}
    /\ decoding = {l \in Lookups : look[l].at \in Busy \ {"retro", "hour"}}
    /\ hdf5 \in decoding \cup {NoLookup}
    /\ limits \in Limits /\ changes \in 0..MaxChanges
    /\ Cardinality(running) <= Capacity /\ Cardinality(decoding) <= DecodeSlots
    /\ descriptor \in Creators \cup {NoCreator} /\ opened \subseteq Creators
    /\ creator \in [Creators -> {"list", "put", "created", "refused"}]
    /\ others \in BOOLEAN /\ lost \in 0..MaxLost
=============================================================================
