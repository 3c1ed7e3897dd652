----------------------------- MODULE SharedStores -----------------------------
(***************************************************************************)
(* What workers and the API keep in stores that several processes read,    *)
(* decide on and write: a HUC of the prepared collection, the outputs of a *)
(* streaming job, the record of a device login.  They share no state with  *)
(* each other, so a behaviour exercises one of them.                       *)
(***************************************************************************)
EXTENDS HucPublish, StreamPublish, DeviceLogin

VARIABLE contested    \* which of them; never changes

vars == <<hucVars, publishVars, loginVars, contested>>

Init ==
    /\ contested \in {"collection", "outputs", "login"}
    /\ HucInit
    /\ PublishInit
    /\ LoginInit
    /\ contested # "collection" => dataset = None /\ objects = Absent
    /\ contested # "outputs" => ~overwrite

Collection ==
    /\ contested = "collection"
    /\ HucNext
    /\ UNCHANGED <<publishVars, loginVars, contested>>

Outputs ==
    /\ contested = "outputs"
    /\ PublishNext
    /\ UNCHANGED <<hucVars, loginVars, contested>>

Login ==
    /\ contested = "login"
    /\ LoginNext
    /\ UNCHANGED <<hucVars, publishVars, contested>>

Next == Collection \/ Outputs \/ Login

Spec == Init /\ [][Next]_vars
=============================================================================
