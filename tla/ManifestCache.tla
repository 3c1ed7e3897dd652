---------------------------- MODULE ManifestCache ----------------------------
(***************************************************************************)
(* Map requests for a streamed scenario: fimbox_api/rasters.py loads the   *)
(* scenario's manifest through a process-wide cache that many request      *)
(* threads share (load_scenario_tiles), while jobs publish, replace and    *)
(* roll back manifests.  A manifest's content is its version, and the ETag *)
(* of an object is determined by its content.                              *)
(***************************************************************************)
EXTENDS Integers, Sequences, SequencesExt

CONSTANTS
    Readers,        \* request threads
    Manifests,      \* manifest keys
    Contents,       \* contents a manifest may have
    CacheSize,      \* MANIFEST_CACHE_SIZE
    MaxPublishes    \* bound: changes of the stored manifests

ASSUME CacheAssumption ==
    /\ Contents \subseteq Nat \ {0}
    /\ CacheSize \in Nat \ {0}
    /\ MaxPublishes \in Nat

VARIABLES
    stored,         \* [Manifests -> content, 0 when there is none]
    cache,          \* sequence of [key, content], oldest first
    reader,         \* [Readers -> progress of a request]
    current,        \* [Readers -> contents stored at some time since its start]
    publishes

cacheVars == <<stored, cache, reader, current, publishes>>

NoRequest == [at |-> "idle", key |-> 0, cached |-> 0, body |-> 0]

EntriesOf(key) == {i \in DOMAIN cache : cache[i].key = key}

Lookup(key) ==
    IF EntriesOf(key) = {} THEN 0 ELSE cache[CHOOSE i \in EntriesOf(key) : TRUE].content

\* The key with its new content is the newest entry, and its only one.
Newest(key, content) ==
    Append(IF EntriesOf(key) = {} THEN cache
           ELSE RemoveAt(cache, CHOOSE i \in EntriesOf(key) : TRUE),
           [key |-> key, content |-> content])

\* A mutant of Inserted: nothing is dropped.
InsertedUnbounded(key, content) == Newest(key, content)

\* Insert or replace, move to the end, drop the oldest beyond the limit.
Inserted(key, content) ==
    LET c == Newest(key, content)
    IN IF Len(c) > CacheSize THEN SubSeq(c, Len(c) - CacheSize + 1, Len(c)) ELSE c

(***************************************************************************)
(* A job publishes a manifest, replaces it, or takes it back.              *)
(***************************************************************************)
Publish(key, content) ==
    /\ publishes < MaxPublishes /\ content # stored[key]
    /\ stored' = [stored EXCEPT ![key] = content]
    /\ current' = [r \in Readers |->
         IF reader[r].key = key THEN current[r] \cup {content} ELSE current[r]]
    /\ publishes' = publishes + 1
    /\ UNCHANGED <<cache, reader>>

(***************************************************************************)
(* load_scenario_tiles: look into the cache under the lock, ask the store  *)
(* without it, insert under the lock.                                      *)
(***************************************************************************)
Request(r, key) ==
    /\ reader[r].at \in {"idle", "answered", "failed"}
    /\ reader' = [reader EXCEPT ![r] =
         [at |-> "get", key |-> key, cached |-> Lookup(key), body |-> 0]]
    /\ current' = [current EXCEPT ![r] = {stored[key]}]
    /\ UNCHANGED <<stored, cache, publishes>>

\* A mutant of NotModified: the answer is taken from the cache as it is now.
NotModifiedRereads(r) ==
    /\ reader[r].at = "get"
    /\ reader[r].cached # 0 /\ stored[reader[r].key] = reader[r].cached
    /\ reader' = [reader EXCEPT ![r].at = "answered", ![r].body = Lookup(reader[r].key)]
    /\ UNCHANGED <<stored, cache, current, publishes>>

\* 304: the entry that was read before the request is the answer.
NotModified(r) ==
    /\ reader[r].at = "get"
    /\ reader[r].cached # 0 /\ stored[reader[r].key] = reader[r].cached
    /\ reader' = [reader EXCEPT ![r].at = "answered", ![r].body = reader[r].cached]
    /\ UNCHANGED <<stored, cache, current, publishes>>

Modified(r) ==
    /\ reader[r].at = "get" /\ stored[reader[r].key] \notin {0, reader[r].cached}
    /\ reader' = [reader EXCEPT ![r].at = "insert", ![r].body = stored[reader[r].key]]
    /\ UNCHANGED <<stored, cache, current, publishes>>

\* No manifest, one that is too large or invalid, or no answer.
GetFails(r) ==
    /\ reader[r].at = "get"
    /\ reader' = [reader EXCEPT ![r].at = "failed"]
    /\ UNCHANGED <<stored, cache, current, publishes>>

Insert(r) ==
    /\ reader[r].at = "insert"
    /\ cache' = Inserted(reader[r].key, reader[r].body)
    /\ reader' = [reader EXCEPT ![r].at = "answered"]
    /\ UNCHANGED <<stored, current, publishes>>

CacheInit ==
    /\ stored = [key \in Manifests |-> 0]
    /\ cache = <<>>
    /\ reader = [r \in Readers |-> NoRequest]
    /\ current = [r \in Readers |-> {}]
    /\ publishes = 0

CacheNext ==
    \/ \E key \in Manifests, content \in Contents \cup {0} : Publish(key, content)
    \/ \E r \in Readers :
        \/ \E key \in Manifests : Request(r, key)
        \/ NotModified(r) \/ Modified(r) \/ GetFails(r) \/ Insert(r)

(***************************************************************************)
(* The tiles a map request is given are those of a manifest that was       *)
(* stored at some time during the request, however late a slow request     *)
(* puts an older manifest into the cache and whichever entry is evicted    *)
(* meanwhile (rasters.py:148-183).                                         *)
(***************************************************************************)
ServedWasCurrent ==
    \A r \in Readers : reader[r].at = "answered" => reader[r].body \in current[r]
=============================================================================
