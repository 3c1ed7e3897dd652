------------------------------ MODULE Workspaces ------------------------------
(***************************************************************************)
(* Creating a workspace (fimbox_api/workspaces.py, create_workspace): the  *)
(* subprefix is listed, then the descriptor is put on condition that it    *)
(* does not exist.  The storage client repeats a put whose answer is lost. *)
(***************************************************************************)
EXTENDS Integers, FiniteSets

CONSTANTS
    Creators,       \* requests to create a workspace at one subprefix
    NoCreator,
    MaxLost         \* bound: answers lost

ASSUME WorkspaceAssumption == NoCreator \notin Creators /\ MaxLost \in Nat

VARIABLES
    descriptor,     \* who wrote workspace.json, NoCreator when it is absent
    others,         \* something else lies below the subprefix
    creator,        \* [Creators -> progress]
    opened,         \* workspaces that open_workspace returned
    lost

workspaceVars == <<descriptor, others, creator, opened, lost>>

List(c) ==
    /\ creator[c] = "list"
    /\ creator' = [creator EXCEPT ![c] =
         IF descriptor # NoCreator \/ others THEN "refused" ELSE "put"]
    /\ UNCHANGED <<descriptor, others, opened, lost>>

\* A mutant of Put: without IfNoneMatch.
PutOver(c) ==
    /\ creator[c] = "put"
    /\ descriptor' = c
    /\ creator' = [creator EXCEPT ![c] = "created"]
    /\ UNCHANGED <<others, opened, lost>>

Put(c) ==
    /\ creator[c] = "put"
    /\ descriptor' = IF descriptor = NoCreator THEN c ELSE descriptor
    /\ creator' = [creator EXCEPT ![c] = IF descriptor = NoCreator THEN "created" ELSE "refused"]
    /\ UNCHANGED <<others, opened, lost>>

\* The put takes effect but its answer is lost: the client puts again.
PutAnswerLost(c) ==
    /\ creator[c] = "put" /\ lost < MaxLost
    /\ descriptor' = IF descriptor = NoCreator THEN c ELSE descriptor
    /\ lost' = lost + 1
    /\ UNCHANGED <<others, creator, opened>>

\* Somebody stores an object below the subprefix.
OtherObject ==
    /\ ~others
    /\ others' = TRUE
    /\ UNCHANGED <<descriptor, creator, opened, lost>>

Open ==
    /\ descriptor # NoCreator
    /\ opened' = opened \cup {descriptor}
    /\ UNCHANGED <<descriptor, others, creator, lost>>

WorkspaceInit ==
    /\ descriptor = NoCreator
    /\ others \in BOOLEAN
    /\ creator = [c \in Creators |-> "list"]
    /\ opened = {}
    /\ lost = 0

WorkspaceNext ==
    \/ \E c \in Creators : List(c) \/ Put(c) \/ PutAnswerLost(c)
    \/ OtherObject \/ Open

(***************************************************************************)
(* Of requests for the same subprefix at most one is told that it created  *)
(* the workspace, its descriptor is the one that stays, and everybody who  *)
(* opens the workspace gets the same one (workspaces.py:126-141).          *)
(***************************************************************************)
OneCreator ==
    /\ \A c \in Creators : creator[c] = "created" => descriptor = c
    /\ Cardinality(opened) <= 1
=============================================================================
