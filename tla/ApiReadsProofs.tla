---------------------------- MODULE ApiReadsProofs ----------------------------
(***************************************************************************)
(* Proofs about ApiReads: the manifest cache, the historical lookups and   *)
(* the creation of workspaces, for any number of requests.  The invariant  *)
(* has a part for each store: CacheInv says that what a map request has    *)
(* read was stored during it, LookupInv who holds a permit and what each   *)
(* lookup has read so far, WorkspaceInv that a descriptor stays.           *)
(***************************************************************************)
EXTENDS ApiReads, FiniteSetTheorems, SequenceTheorems, TLAPS

-----------------------------------------------------------------------------
(* Manifests. *)

\* Which steps a request to the manifest cache takes.
CacheStages == {"idle", "get", "insert", "answered", "failed"}
RequestRecord == [at : CacheStages, key : Manifests \cup {0}, cached : Contents \cup {0},
                  body : Contents \cup {0}]
Entry == [key : Manifests, content : Contents]

CacheTyped ==
    /\ stored \in [Manifests -> Contents \cup {0}]
    /\ cache \in Seq(Entry)
    /\ reader \in [Readers -> RequestRecord]
    /\ current \in [Readers -> SUBSET (Contents \cup {0})]
    /\ publishes \in 0 .. MaxPublishes

\* One entry for each key, and no more than fit.
CacheBounded ==
    /\ Len(cache) <= CacheSize
    /\ \A i, k \in DOMAIN cache : cache[i].key = cache[k].key => i = k

\* What is stored now has been stored during the request, and so was what it has read.
Serving(r) ==
    /\ reader[r].at # "idle" => reader[r].key \in Manifests /\ stored[reader[r].key] \in current[r]
    /\ reader[r].at \in {"insert", "answered"} => reader[r].body \in current[r]
    /\ reader[r].at = "insert" => reader[r].body \in Contents

CacheInv ==
    /\ CacheTyped
    /\ CacheBounded
    /\ \A r \in Readers : Serving(r)

\* Removing an entry leaves the others in their order.
LEMMA Removed ==
    ASSUME NEW S, NEW s \in Seq(S), NEW i \in 1 .. Len(s)
    PROVE  /\ RemoveAt(s, i) \in Seq(S) /\ Len(RemoveAt(s, i)) = Len(s) - 1
           /\ \A k \in 1 .. Len(s) - 1 : RemoveAt(s, i)[k] = IF k < i THEN s[k] ELSE s[k + 1]
<1>1. /\ SubSeq(s, 1, i - 1) \in Seq(S) /\ Len(SubSeq(s, 1, i - 1)) = i - 1
      /\ \A k \in 1 .. i - 1 : SubSeq(s, 1, i - 1)[k] = s[k]
  OBVIOUS
<1>2. /\ SubSeq(s, i + 1, Len(s)) \in Seq(S) /\ Len(SubSeq(s, i + 1, Len(s))) = Len(s) - i
      /\ \A k \in 1 .. Len(s) - i : SubSeq(s, i + 1, Len(s))[k] = s[i + k]
  OBVIOUS
<1> DEFINE a == SubSeq(s, 1, i - 1)
           b == SubSeq(s, i + 1, Len(s))
<1> HIDE DEF a, b
<1>3. /\ a \o b \in Seq(S) /\ Len(a \o b) = Len(s) - 1
      /\ \A k \in 1 .. Len(s) - 1 : (a \o b)[k] = IF k < i THEN a[k] ELSE b[k - (i - 1)]
  <2>1. a \in Seq(S) /\ b \in Seq(S) /\ Len(a) = i - 1 /\ Len(b) = Len(s) - i
    BY <1>1, <1>2 DEF a, b
  <2> QED
    BY <2>1
<1>4. \A k \in 1 .. Len(s) - 1 : (a \o b)[k] = IF k < i THEN s[k] ELSE s[k + 1]
  <2> SUFFICES ASSUME NEW k \in 1 .. Len(s) - 1
               PROVE  (a \o b)[k] = IF k < i THEN s[k] ELSE s[k + 1]
    OBVIOUS
  <2>1. CASE k < i
    BY <1>1, <1>3, <2>1 DEF a
  <2>2. CASE ~(k < i)
    <3>1. k - (i - 1) \in 1 .. Len(s) - i /\ i + (k - (i - 1)) = k + 1
      BY <2>2
    <3>2. b[k - (i - 1)] = s[k + 1]
      BY <1>2, <3>1 DEF b
    <3> QED
      BY <1>3, <2>2, <3>2
  <2> QED
    BY <2>1, <2>2
<1> QED
  BY <1>3, <1>4 DEF RemoveAt, a, b

\* Making an entry the newest keeps one entry for each key and adds at most one.
LEMMA NewestFacts ==
    ASSUME CacheInv, NEW key \in Manifests, NEW content \in Contents
    PROVE  /\ Newest(key, content) \in Seq(Entry) /\ Len(Newest(key, content)) <= CacheSize + 1
           /\ \A i, k \in DOMAIN Newest(key, content) :
                 Newest(key, content)[i].key = Newest(key, content)[k].key => i = k
<1> DEFINE e == [key |-> key, content |-> content]
<1>0. e \in Entry /\ cache \in Seq(Entry) /\ CacheSize \in Nat
  BY CacheAssumption DEF CacheInv, CacheTyped, Entry
<1>1. CASE EntriesOf(key) = {}
  <2>1. Newest(key, content) = Append(cache, e)
    BY <1>1 DEF Newest
  <2>2. \A i \in 1 .. Len(cache) : cache[i].key # key
    BY <1>0, <1>1 DEF EntriesOf
  <2> QED
    BY <1>0, <2>1, <2>2 DEF CacheInv, CacheBounded
<1>2. CASE EntriesOf(key) # {}
  <2> DEFINE j == CHOOSE i \in EntriesOf(key) : TRUE
             rest == RemoveAt(cache, j)
  <2>1. j \in 1 .. Len(cache) /\ cache[j].key = key
    BY <1>0, <1>2 DEF EntriesOf
  <2>2. Newest(key, content) = Append(rest, e)
    BY <1>2 DEF Newest
  <2>3. /\ rest \in Seq(Entry) /\ Len(rest) = Len(cache) - 1
        /\ \A k \in 1 .. Len(cache) - 1 : rest[k] = IF k < j THEN cache[k] ELSE cache[k + 1]
    BY <1>0, <2>1, Removed
  <2> HIDE DEF j, rest
  <2>4. \A k \in 1 .. Len(rest) : rest[k].key # key
    <3> SUFFICES ASSUME NEW k \in 1 .. Len(rest) PROVE rest[k].key # key
      OBVIOUS
    <3>1. CASE k < j
      BY <1>0, <2>1, <2>3, <3>1 DEF CacheInv, CacheBounded
    <3>2. CASE ~(k < j)
      <4>1. k + 1 \in 1 .. Len(cache) /\ k + 1 # j /\ rest[k] = cache[k + 1]
        BY <1>0, <2>1, <2>3, <3>2
      <4> QED
        BY <1>0, <2>1, <4>1 DEF CacheInv, CacheBounded
    <3> QED
      BY <3>1, <3>2
  <2>5. \A k, m \in 1 .. Len(rest) : rest[k].key = rest[m].key => k = m
    <3> SUFFICES ASSUME NEW k \in 1 .. Len(rest), NEW m \in 1 .. Len(rest), rest[k].key = rest[m].key
                 PROVE  k = m
      OBVIOUS
    <3> DEFINE Old(n) == IF n < j THEN n ELSE n + 1
    <3>1. Old(k) \in DOMAIN cache /\ Old(m) \in DOMAIN cache /\ rest[k] = cache[Old(k)] /\ rest[m] = cache[Old(m)]
      BY <1>0, <2>1, <2>3
    <3>2. Old(k) = Old(m)
      BY <3>1 DEF CacheInv, CacheBounded
    <3> QED
      BY <2>1, <3>2
  <2>6. e.key = key
    OBVIOUS
  <2> HIDE DEF e
  <2>7. \A i, k \in 1 .. Len(rest) + 1 : Append(rest, e)[i].key = Append(rest, e)[k].key => i = k
    BY <1>0, <2>3, <2>4, <2>5, <2>6
  <2> QED
    BY <1>0, <2>2, <2>3, <2>7 DEF CacheInv, CacheBounded
<1> QED
  BY <1>1, <1>2

\* An insertion keeps one entry for each key and no more than fit.
LEMMA InsertedFacts ==
    ASSUME CacheInv, NEW key \in Manifests, NEW content \in Contents
    PROVE  /\ Inserted(key, content) \in Seq(Entry) /\ Len(Inserted(key, content)) <= CacheSize
           /\ \A i, k \in DOMAIN Inserted(key, content) :
                 Inserted(key, content)[i].key = Inserted(key, content)[k].key => i = k
<1> DEFINE c == Newest(key, content)
<1>0. CacheSize \in Nat \ {0} /\ c \in Seq(Entry) /\ Len(c) <= CacheSize + 1
      /\ \A i, k \in DOMAIN c : c[i].key = c[k].key => i = k
  BY CacheAssumption, NewestFacts
<1> HIDE DEF c
<1>1. CASE Len(c) > CacheSize
  <2>1. Inserted(key, content) = SubSeq(c, 2, Len(c)) /\ Len(c) = CacheSize + 1
    BY <1>0, <1>1 DEF Inserted, c
  <2>2. /\ SubSeq(c, 2, Len(c)) \in Seq(Entry) /\ Len(SubSeq(c, 2, Len(c))) = Len(c) - 1
        /\ \A k \in 1 .. Len(c) - 1 : SubSeq(c, 2, Len(c))[k] = c[k + 1]
    BY <1>0, <2>1
  <2> DEFINE d == SubSeq(c, 2, Len(c))
  <2> HIDE DEF d
  <2>3. d \in Seq(Entry) /\ Len(d) = CacheSize /\ DOMAIN d = 1 .. CacheSize
    BY <1>0, <2>1, <2>2 DEF d
  <2>4. ASSUME NEW i \in DOMAIN d, NEW k \in DOMAIN d, d[i].key = d[k].key PROVE i = k
    <3>1. d[i] = c[i + 1] /\ d[k] = c[k + 1]
      BY <1>0, <2>1, <2>2, <2>3 DEF d
    <3>2. i + 1 \in DOMAIN c /\ k + 1 \in DOMAIN c
      BY <1>0, <2>1, <2>3
    <3>3. i + 1 = k + 1
      BY <1>0, <2>4, <3>1, <3>2
    <3> QED
      BY <1>0, <2>3, <3>3
  <2>5. Inserted(key, content) = d
    BY <2>1 DEF d
  <2> QED
    BY <1>0, <2>3, <2>4, <2>5
<1>2. CASE ~(Len(c) > CacheSize)
  BY <1>0, <1>2 DEF Inserted, c
<1> QED
  BY <1>1, <1>2

\* The manifest cache starts with what the invariant says of it.
LEMMA CacheStarts == CacheInit => CacheInv
<1> SUFFICES ASSUME CacheInit PROVE CacheInv
  OBVIOUS
<1>1. CacheTyped
  BY CacheAssumption DEF CacheInit, CacheTyped, NoRequest, RequestRecord, CacheStages
<1>2. CacheBounded /\ \A r \in Readers : Serving(r)
  BY CacheAssumption DEF CacheInit, CacheBounded, Serving, NoRequest
<1> QED
  BY <1>1, <1>2 DEF CacheInv

\* A step of a map request or of a job that publishes keeps it.
LEMMA CacheStep ==
    ASSUME CacheInv, CacheNext
    PROVE  CacheInv'
<1>0. CacheTyped /\ CacheBounded /\ \A r \in Readers : Serving(r)
  BY DEF CacheInv
<1> USE CacheAssumption
<1>1. ASSUME NEW key \in Manifests, NEW content \in Contents \cup {0}, Publish(key, content)
      PROVE  CacheInv'
  <2>1. CacheTyped'
    BY <1>0, <1>1 DEF Publish, CacheTyped, RequestRecord
  <2>2. CacheBounded'
    BY <1>0, <1>1 DEF Publish, CacheBounded
  <2>3. ASSUME NEW r \in Readers PROVE Serving(r)'
    BY <1>0, <1>1 DEF Publish, Serving, CacheTyped, RequestRecord
  <2> QED
    BY <2>1, <2>2, <2>3 DEF CacheInv
<1>2. ASSUME NEW r \in Readers, NEW key \in Manifests, Request(r, key) PROVE CacheInv'
  <2>0. Lookup(key) \in Contents \cup {0}
    <3>1. CASE EntriesOf(key) = {}
      BY <3>1 DEF Lookup
    <3>2. ASSUME NEW i \in EntriesOf(key), i = CHOOSE j \in EntriesOf(key) : TRUE
          PROVE  Lookup(key) \in Contents
      <4>1. i \in 1 .. Len(cache) /\ cache[i] \in Entry
        BY <1>0, <3>2 DEF EntriesOf, CacheTyped
      <4> QED
        BY <3>2, <4>1 DEF Lookup, Entry
    <3> QED
      BY <3>1, <3>2
  <2>1. CacheTyped'
    BY <1>0, <1>2, <2>0 DEF Request, CacheTyped, RequestRecord, CacheStages
  <2>2. CacheBounded'
    BY <1>0, <1>2 DEF Request, CacheBounded
  <2>3. ASSUME NEW q \in Readers PROVE Serving(q)'
    BY <1>0, <1>2 DEF Request, Serving, CacheTyped, RequestRecord
  <2> QED
    BY <2>1, <2>2, <2>3 DEF CacheInv
<1>3. ASSUME NEW r \in Readers, NotModified(r) \/ Modified(r) \/ GetFails(r) PROVE CacheInv'
  <2>0. reader[r] \in RequestRecord /\ reader[r].at = "get" /\ reader[r].key \in Manifests
        /\ stored[reader[r].key] \in Contents \cup {0}
    BY <1>0, <1>3 DEF NotModified, Modified, GetFails, Serving, CacheTyped
  <2>1. /\ reader' \in [Readers -> RequestRecord] /\ \A q \in Readers : q # r => reader'[q] = reader[q]
        /\ reader'[r].key = reader[r].key /\ reader'[r].at \in {"insert", "answered", "failed"}
        /\ reader'[r].at # "failed" => reader'[r].body = stored[reader[r].key]
        /\ reader'[r].at = "insert" => stored[reader[r].key] # 0
    <3>1. CASE NotModified(r)
      BY <1>0, <2>0, <3>1 DEF NotModified, CacheTyped, RequestRecord, CacheStages
    <3>2. CASE Modified(r)
      BY <1>0, <2>0, <3>2 DEF Modified, CacheTyped, RequestRecord, CacheStages
    <3>3. CASE GetFails(r)
      BY <1>0, <2>0, <3>3 DEF GetFails, CacheTyped, RequestRecord, CacheStages
    <3> QED
      BY <1>3, <3>1, <3>2, <3>3
  <2>2. UNCHANGED <<stored, cache, current, publishes>>
    BY <1>3 DEF NotModified, Modified, GetFails
  <2>4. ASSUME NEW q \in Readers PROVE Serving(q)'
    <3>1. CASE q = r
      BY <1>0, <2>0, <2>1, <2>2, <3>1 DEF Serving, CacheTyped
    <3>2. CASE q # r
      BY <1>0, <2>1, <2>2, <3>2 DEF Serving, CacheTyped
    <3> QED
      BY <3>1, <3>2
  <2> QED
    BY <1>0, <2>1, <2>2, <2>4 DEF CacheInv, CacheTyped, CacheBounded
<1>4. ASSUME NEW r \in Readers, Insert(r) PROVE CacheInv'
  <2>1. reader[r].key \in Manifests /\ reader[r].body \in Contents
    BY <1>0, <1>4 DEF Insert, Serving
  <2>2. cache' \in Seq(Entry) /\ CacheBounded'
    BY <1>4, <2>1, InsertedFacts DEF Insert, CacheBounded
  <2>3. CacheTyped'
    <3>1. PICK q : q = [reader[r] EXCEPT !.at = "answered"]
      OBVIOUS
    <3>2. reader[r] \in RequestRecord
      BY <1>0 DEF CacheTyped
    <3>3. q \in RequestRecord
      BY <3>1, <3>2 DEF RequestRecord, CacheStages
    <3>4. reader' = [reader EXCEPT ![r] = q] /\ UNCHANGED <<stored, current, publishes>>
      BY <1>4, <3>1 DEF Insert
    <3>5. reader' \in [Readers -> RequestRecord]
      BY <1>0, <3>3, <3>4 DEF CacheTyped
    <3> QED
      BY <1>0, <2>2, <3>4, <3>5 DEF CacheTyped
  <2>4. ASSUME NEW q \in Readers PROVE Serving(q)'
    BY <1>0, <1>4 DEF Insert, Serving, CacheTyped, RequestRecord
  <2> QED
    BY <2>2, <2>3, <2>4 DEF CacheInv
<1> QED
  BY <1>1, <1>2, <1>3, <1>4 DEF CacheNext

-----------------------------------------------------------------------------
(* Workspaces. *)

Creating(c) ==
    /\ creator[c] \in {"list", "put", "created", "refused"}
    /\ creator[c] = "created" => descriptor = c

WorkspaceInv ==
    /\ descriptor \in Creators \cup {NoCreator}
    /\ others \in BOOLEAN /\ lost \in 0 .. MaxLost
    /\ creator \in [Creators -> {"list", "put", "created", "refused"}]
    /\ opened \subseteq {descriptor} \ {NoCreator}
    /\ \A c \in Creators : Creating(c)

\* Before any request there is no workspace.
LEMMA WorkspaceStarts == WorkspaceInit => WorkspaceInv
BY WorkspaceAssumption DEF WorkspaceInit, WorkspaceInv, Creating

\* A step of a request, a retry of its put or an opening keeps it.
LEMMA WorkspaceStep ==
    ASSUME WorkspaceInv, WorkspaceNext
    PROVE  WorkspaceInv'
<1> USE WorkspaceAssumption DEF WorkspaceInv, Creating
<1>1. ASSUME NEW c \in Creators, List(c) PROVE WorkspaceInv'
  BY <1>1 DEF List
<1>2. ASSUME NEW c \in Creators, Put(c) PROVE WorkspaceInv'
  BY <1>2 DEF Put
<1>3. ASSUME NEW c \in Creators, PutAnswerLost(c) PROVE WorkspaceInv'
  BY <1>3 DEF PutAnswerLost
<1>4. CASE OtherObject \/ Open
  BY <1>4 DEF OtherObject, Open
<1> QED
  BY <1>1, <1>2, <1>3, <1>4 DEF WorkspaceNext

-----------------------------------------------------------------------------
(* Lookups: who holds what. *)

Stages == Busy \cup {"idle", "busy", "done", "error", "late"}
Decodes == Busy \ {"retro", "hour"}

Slots ==
    /\ DOMAIN look = Lookups
    /\ \A l \in Lookups : look[l].at \in Stages
    /\ running = {l \in Lookups : look[l].at \in Busy} /\ IsFiniteSet(running)
    /\ decoding = {l \in Lookups : look[l].at \in Decodes}
    /\ hdf5 \in decoding \cup {NoLookup}
    /\ limits \in Limits /\ changes \in 0 .. MaxChanges
    /\ Cardinality(running) <= Capacity /\ Cardinality(decoding) <= DecodeSlots
    /\ object \in [ArchiveHours -> 0 .. Len(Layout)] /\ indexed \subseteq ArchiveHours

-----------------------------------------------------------------------------
(* Lookups: what they have read. *)

\* The flow of a reach at an hour, in a version of the hour's object (0: no object).
FlowAt(r, t, v) ==
    IF t <= LastRetro
    THEN IF r \in RetroReaches THEN <<r, t>> ELSE NoFlow
    ELSE IF v = 0 \/ r \notin Range(Layout[v]) \/ <<r, v>> \in Masked THEN NoFlow ELSE <<r, v>>

SampleAt(l, t, v) ==
    [time |-> t, source |-> IF t <= LastRetro THEN "retrospective" ELSE "archive",
     version |-> v, flows |-> [r \in Reaches[l] |-> FlowAt(r, t, v)]]

Samples(l) == {SampleAt(l, t, v) : t \in Nat, v \in 0 .. Len(Layout)}

\* The hours of the window before t have their samples.
Sampled(l, t) ==
    /\ look[l].samples \in Seq(Samples(l))
    /\ Len(look[l].samples) = t - Span[l][1]
    /\ \A n \in 1 .. Len(look[l].samples) : look[l].samples[n].time = Span[l][1] + n - 1

Flow == {NoFlow} \cup {<<r, v>> : r \in Feature, v \in 1 .. Len(Layout)}

\* The feature IDs read so far are the first chunks of those of the pinned version.
Begun(l) ==
    /\ look[l].features \in Seq(Feature)
    /\ Len(look[l].features) <= Len(Layout[look[l].pin])
    /\ \E k \in Nat : Len(look[l].features) = k * Chunk
    /\ \A p \in 1 .. Len(look[l].features) : look[l].features[p] = Layout[look[l].pin][p]

\* The flow of a reach is the right one, or is in a chunk still to be read.
Read(l) ==
    /\ look[l].features = Layout[look[l].pin]
    /\ look[l].flows \in [Reaches[l] -> Flow]
    /\ \A r \in Reaches[l] :
          \/ look[l].flows[r] = FlowAt(r, look[l].hour, look[l].pin)
          \/ /\ look[l].flows[r] = NoFlow
             /\ \A p \in 1 .. Len(Layout[look[l].pin]) :
                   Layout[look[l].pin][p] = r => (p - 1) \div Chunk \in look[l].todo

Fields == {"at", "hour", "late", "pin", "features", "todo", "flows", "samples"}

Reads(l) ==
    /\ DOMAIN look[l] = Fields
    /\ look[l].at \in {"idle", "retro", "hour", "open"} => look[l].pin = 0 /\ look[l].features = <<>>
    /\ look[l].at \in Busy \ {"retro"} =>
          /\ look[l].hour \in Nat /\ look[l].hour > LastRetro /\ look[l].hour >= Span[l][1]
          /\ Sampled(l, Smaller(look[l].hour, Span[l][2] + 1))
    /\ look[l].at \in Decodes => look[l].hour <= Span[l][2]
    /\ look[l].at \in {"lock", "features", "flows"} => look[l].pin \in 1 .. Len(Layout)
    /\ look[l].at = "lock" => look[l].features = <<>>
    /\ look[l].at = "features" => Begun(l)
    /\ look[l].at = "flows" => Read(l)
    /\ look[l].at = "done" => Sampled(l, Span[l][2] + 1)

LookupInv == Slots /\ \A l \in Lookups : Reads(l)

-----------------------------------------------------------------------------
(* Chunks. *)

\* n \div c is the one chunk of length c that holds position n.
LEMMA ChunkIndex ==
    ASSUME NEW n \in Nat, NEW c \in Nat \ {0}
    PROVE  /\ n \div c \in Nat /\ (n \div c) * c <= n /\ n < (n \div c) * c + c
           /\ \A t \in Nat : t * c <= n /\ n < t * c + c => n \div c = t
<1>1. n \div c \in Nat
  OBVIOUS
<1>2. (n \div c) * c <= n /\ n < (n \div c) * c + c
  OBVIOUS
<1>3. ASSUME NEW t \in Nat, t * c <= n, n < t * c + c PROVE n \div c = t
  <2>1. n < (t + 1) * c
    BY <1>3
  <2> QED
    BY <1>3, <2>1
<1> QED
  BY <1>1, <1>2, <1>3

\* A later position is not in an earlier chunk.
LEMMA ChunkOrder ==
    ASSUME NEW m \in Nat, NEW n \in Nat, NEW c \in Nat \ {0}, m <= n
    PROVE  m \div c <= n \div c
<1> DEFINE a == m \div c
           b == n \div c
<1>1. a \in Nat /\ b \in Nat /\ a * c <= m /\ n < b * c + c
  BY ChunkIndex
<1> HIDE DEF a, b
<1>2. a * c < (b + 1) * c
  BY <1>1
<1>3. a < b + 1
  BY <1>1, <1>2
<1> QED
  BY <1>1, <1>3 DEF a, b

\* Every hour of the window is read once, from the chunk that holds it, into its place.
LEMMA RowsAreHours ==
    ASSUME NEW first \in Nat, NEW last \in Nat, NEW i \in 0 .. last - first
    PROVE  /\ ChunksAt(i, first, last) = {(first + i) \div TimeChunk}
           /\ ChunkRows((first + i) \div TimeChunk, first, last)[i] = first + i
<1>0. TimeChunk \in Nat \ {0} /\ first + i \in Nat
  BY LookupAssumption
<1>1. ASSUME NEW t \in Nat
      PROVE  /\ i \in DOMAIN ChunkRows(t, first, last) <=>
                   t * TimeChunk <= first + i /\ first + i < t * TimeChunk + TimeChunk
             /\ i \in DOMAIN ChunkRows(t, first, last) => ChunkRows(t, first, last)[i] = first + i
  <2> DEFINE offset == t * TimeChunk
  <2>1. offset \in Nat
    BY <1>0
  <2> HIDE DEF offset
  <2>2. ChunkRows(t, first, last) =
          [j \in offset + Larger(first - offset, 0) - first ..
                 offset + Smaller(last - offset + 1, TimeChunk) - first - 1 |->
             offset + Larger(first - offset, 0) + j - (offset + Larger(first - offset, 0) - first)]
    BY DEF ChunkRows, offset
  <2>3. i \in DOMAIN ChunkRows(t, first, last) <=> offset <= first + i /\ first + i < offset + TimeChunk
    BY <1>0, <2>1, <2>2 DEF Larger, Smaller
  <2>4. i \in DOMAIN ChunkRows(t, first, last) => ChunkRows(t, first, last)[i] = first + i
    <3> DEFINE start == Larger(first - offset, 0)
    <3>1. i \in DOMAIN ChunkRows(t, first, last) =>
            ChunkRows(t, first, last)[i] = offset + start + i - (offset + start - first)
      BY <2>2
    <3>2. start \in Int
      BY <1>0, <2>1 DEF Larger
    <3> HIDE DEF start
    <3>3. offset + start + i - (offset + start - first) = first + i
      BY <2>1, <3>2
    <3> QED
      BY <3>1, <3>3
  <2> QED
    BY <2>3, <2>4 DEF offset
<1> DEFINE here == (first + i) \div TimeChunk
<1>2. /\ here \in Nat /\ here * TimeChunk <= first + i /\ first + i < here * TimeChunk + TimeChunk
      /\ \A t \in Nat : t * TimeChunk <= first + i /\ first + i < t * TimeChunk + TimeChunk => here = t
  BY <1>0, ChunkIndex
<1>3. first \div TimeChunk \in Nat /\ last \div TimeChunk \in Nat
      /\ first \div TimeChunk <= here /\ here <= last \div TimeChunk
  BY <1>0, ChunkOrder, ChunkIndex
<1> HIDE DEF here
<1>4. \A t \in first \div TimeChunk .. last \div TimeChunk : t \in Nat
  BY <1>3
<1>5. here \in first \div TimeChunk .. last \div TimeChunk
  BY <1>2, <1>3
<1>6. ChunksAt(i, first, last) = {here}
  BY <1>1, <1>2, <1>4, <1>5 DEF ChunksAt
<1> QED
  BY <1>1, <1>2, <1>6 DEF here

\* The rows of the retrospective are the samples of the hours asked for.
LEMMA RetroSamplesAreRight ==
    ASSUME NEW l \in Lookups, NEW first \in Nat, NEW last \in Nat, first <= last, last <= LastRetro
    PROVE  /\ RetroSamples(l, first, last) \in Seq(Samples(l))
           /\ Len(RetroSamples(l, first, last)) = last - first + 1
           /\ \A n \in 1 .. last - first + 1 : RetroSamples(l, first, last)[n].time = first + n - 1
<1>0. LastRetro \in Nat
  BY LookupAssumption
<1>1. ASSUME NEW n \in 1 .. last - first + 1, NEW r \in Reaches[l]
      PROVE  RetroFlow(r, n - 1, first, last) = FlowAt(r, first + n - 1, 0)
  <2> DEFINE t == (first + (n - 1)) \div TimeChunk
  <2>1. /\ ChunksAt(n - 1, first, last) = {t} /\ t \in Int
        /\ ChunkRows(t, first, last)[n - 1] = first + n - 1
    <3>1. n - 1 \in 0 .. last - first /\ first + (n - 1) \in Nat /\ first + (n - 1) = first + n - 1
      OBVIOUS
    <3>2. t \in Nat
      BY <3>1, ChunkIndex, LookupAssumption
    <3> QED
      BY <3>1, <3>2, RowsAreHours
  <2> HIDE DEF t
  <2>2. Max({t}) = t
    BY <2>1 DEF Max
  <2>3. first + n - 1 <= LastRetro
    BY <1>0
  <2> QED
    BY <2>1, <2>2, <2>3 DEF RetroFlow, FlowAt
<1>2. ASSUME NEW n \in 1 .. last - first + 1
      PROVE  RetroSamples(l, first, last)[n] = SampleAt(l, first + n - 1, 0)
  <2>1. [r \in Reaches[l] |-> RetroFlow(r, n - 1, first, last)] =
          [r \in Reaches[l] |-> FlowAt(r, first + n - 1, 0)]
    BY <1>1
  <2>2. first + n - 1 <= LastRetro
    BY <1>0
  <2> QED
    BY <2>1, <2>2 DEF RetroSamples, SampleAt
<1>3. ASSUME NEW n \in 1 .. last - first + 1 PROVE SampleAt(l, first + n - 1, 0) \in Samples(l)
  <2>1. first + n - 1 \in Nat /\ 0 \in 0 .. Len(Layout)
    BY LookupAssumption
  <2> QED
    BY <2>1 DEF Samples
<1>4. last - first + 1 \in Nat
  OBVIOUS
<1>5. RetroSamples(l, first, last) \in [1 .. last - first + 1 -> Samples(l)]
  <2>1. DOMAIN RetroSamples(l, first, last) = 1 .. last - first + 1
    BY DEF RetroSamples
  <2>2. RetroSamples(l, first, last) = [n \in 1 .. last - first + 1 |-> RetroSamples(l, first, last)[n]]
    BY DEF RetroSamples
  <2> QED
    BY <1>2, <1>3, <2>1, <2>2
<1>6. \A n \in 1 .. last - first + 1 : SampleAt(l, first + n - 1, 0).time = first + n - 1
  BY DEF SampleAt
<1> DEFINE s == RetroSamples(l, first, last)
           n == last - first + 1
<1>7. s \in [1 .. n -> Samples(l)] /\ n \in Nat
  BY <1>4, <1>5
<1>8. \A k \in 1 .. n : s[k].time = first + k - 1
  BY <1>2, <1>6
<1>9. s \in Seq(Samples(l)) /\ Len(s) = n
  <2> HIDE DEF s, n
  <2>1. s \in Seq(Samples(l))
    BY <1>7, IsASeq
  <2>2. DOMAIN s = 1 .. n
    BY <1>7
  <2>3. Len(s) \in Nat /\ DOMAIN s = 1 .. Len(s)
    BY <2>1, LenProperties
  <2> QED
    BY <1>7, <2>1, <2>2, <2>3
<1> QED
  BY <1>8, <1>9

\* The fields of a lookup that holds nothing.
LEMMA FreshFields == DOMAIN Fresh = Fields
BY DEF Fresh, Fields

\* The lookups start with what the invariant says of them.
LEMMA LookupStarts == LookupInit => LookupInv
<1> SUFFICES ASSUME LookupInit PROVE LookupInv
  OBVIOUS
<1>0. limits[1] \in Nat \ {0} /\ limits[2] \in Nat \ {0} /\ Len(Layout) \in Nat /\ Len(Layout) >= 1
  <2>1. Layout \in Seq(Seq(Feature)) /\ Layout # <<>>
    BY LookupAssumption
  <2>2. Len(Layout) \in Nat /\ Len(Layout) # 0
    BY <2>1
  <2>3. limits \in (Nat \ {0}) \X (Nat \ {0})
    BY LookupAssumption DEF LookupInit
  <2> QED
    BY <2>2, <2>3
<1>1. \A l \in Lookups : look[l] = Fresh
  BY DEF LookupInit
<1>2. \A l \in Lookups : look[l].at = "idle" /\ look[l].pin = 0 /\ look[l].features = <<>>
  BY <1>1 DEF Fresh
<1>3. running = {} /\ decoding = {} /\ Cardinality({}) = 0 /\ IsFiniteSet({})
  BY FS_EmptySet DEF LookupInit
<1>4. "idle" \notin Busy
  BY DEF Busy
<1>5. Slots
  <2>1. object \in [ArchiveHours -> 0 .. Len(Layout)]
    BY <1>0 DEF LookupInit
  <2> QED
    BY <1>0, <1>2, <1>3, <1>4, <2>1, LookupAssumption
    DEF LookupInit, Slots, Stages, Decodes, Capacity, DecodeSlots
<1>6. ASSUME NEW l \in Lookups PROVE Reads(l)
  BY <1>1, <1>2, <1>4, FreshFields DEF Reads, Decodes
<1> QED
  BY <1>5, <1>6 DEF LookupInv

\* What a lookup has read depends on nothing but its own record.
LEMMA ReadsKept ==
    ASSUME NEW l \in Lookups, Reads(l), look'[l] = look[l]
    PROVE  Reads(l)'
BY DEF Reads, Sampled, Begun, Read

\* A lookup that takes or gives back a permit where the code checks for one keeps
\* the permits within their limits.
LEMMA SlotsFollow ==
    ASSUME Slots, NEW l \in Lookups,
           DOMAIN look' = Lookups, \A q \in Lookups \ {l} : look'[q] = look[q],
           look'[l].at \in Stages,
           running' = IF look'[l].at \in Busy THEN running \cup {l} ELSE running \ {l},
           decoding' = IF look'[l].at \in Decodes THEN decoding \cup {l} ELSE decoding \ {l},
           look'[l].at \in Busy => look[l].at \in Busy \/ Cardinality(running) < Capacity,
           look'[l].at \in Decodes => look[l].at \in Decodes \/ Cardinality(decoding) < DecodeSlots,
           hdf5' \in decoding' \cup {NoLookup},
           UNCHANGED <<object, indexed, limits, changes>>
    PROVE  Slots'
<1>0. Decodes \subseteq Busy /\ decoding \subseteq running /\ IsFiniteSet(decoding)
  <2>1. Decodes \subseteq Busy
    BY DEF Decodes
  <2>2. decoding \subseteq running
    BY <2>1 DEF Slots
  <2> QED
    BY <2>1, <2>2, FS_Subset DEF Slots
<1>1. running' = {q \in Lookups : look'[q].at \in Busy}
  BY DEF Slots
<1>2. decoding' = {q \in Lookups : look'[q].at \in Decodes}
  BY DEF Slots
<1>3. ASSUME NEW S, IsFiniteSet(S), NEW n \in Nat, Cardinality(S) <= n
      PROVE  /\ IsFiniteSet(S \cup {l}) /\ IsFiniteSet(S \ {l}) /\ Cardinality(S \ {l}) <= n
             /\ l \in S \/ Cardinality(S) < n => Cardinality(S \cup {l}) <= n
  <2>1. Cardinality(S) \in Nat
    BY <1>3, FS_CardinalityType
  <2>2. IsFiniteSet(S \ {l}) /\ Cardinality(S \ {l}) = IF l \in S THEN Cardinality(S) - 1 ELSE Cardinality(S)
    BY <1>3, FS_RemoveElement
  <2>3. IsFiniteSet(S \cup {l}) /\ Cardinality(S \cup {l}) = IF l \in S THEN Cardinality(S) ELSE Cardinality(S) + 1
    BY <1>3, FS_AddElement
  <2> QED
    BY <1>3, <2>1, <2>2, <2>3
<1>4. Capacity \in Nat /\ DecodeSlots \in Nat
  <2>1. limits \in (Nat \ {0}) \X (Nat \ {0})
    BY LookupAssumption DEF Slots
  <2> QED
    BY <2>1 DEF Capacity, DecodeSlots
<1>5. IsFiniteSet(running') /\ Cardinality(running') <= Capacity
  BY <1>3, <1>4 DEF Slots
<1>6. Cardinality(decoding') <= DecodeSlots
  BY <1>0, <1>3, <1>4 DEF Slots
<1> QED
  BY <1>1, <1>2, <1>5, <1>6 DEF Slots, Capacity, DecodeSlots

\* One lookup goes on: the others stay as they are.
LEMMA OneMoves ==
    ASSUME LookupInv, NEW l \in Lookups, Slots', Reads(l)',
           \A q \in Lookups \ {l} : look'[q] = look[q]
    PROVE  LookupInv'
<1>1. ASSUME NEW q \in Lookups PROVE Reads(q)'
  BY ReadsKept DEF LookupInv
<1> QED
  BY <1>1 DEF LookupInv

\* An hour that is being read is one of the archive, and the ones before it are read.
LEMMA HourIsArchived ==
    ASSUME LookupInv, NEW l \in Lookups, look[l].at \in Decodes
    PROVE  /\ look[l].hour \in ArchiveHours /\ look[l].hour \in Nat /\ look[l].hour > LastRetro
           /\ look[l].hour >= Span[l][1] /\ look[l].hour <= Span[l][2]
           /\ Span[l][1] \in Nat /\ Span[l][2] \in Nat
           /\ Sampled(l, look[l].hour)
           /\ LastRetro \in Nat
<1>1. Reads(l) /\ look[l].at \in Busy \ {"retro"}
  BY DEF LookupInv, Decodes
<1>2. /\ look[l].hour \in Nat /\ look[l].hour > LastRetro /\ look[l].hour >= Span[l][1]
      /\ look[l].hour <= Span[l][2] /\ Sampled(l, Smaller(look[l].hour, Span[l][2] + 1))
  BY <1>1 DEF Reads
<1>3. Span[l] \in Nat \X Nat /\ LastRetro \in Nat
      /\ {h \in Span[l][1] .. Span[l][2] : h > LastRetro} \subseteq ArchiveHours
  BY LookupAssumption
<1>4. Span[l][1] \in Nat /\ Span[l][2] \in Nat
  BY <1>3
<1>5. Smaller(look[l].hour, Span[l][2] + 1) = look[l].hour
  BY <1>2, <1>4 DEF Smaller
<1>6. look[l].hour \in ArchiveHours
  BY <1>2, <1>3, <1>4
<1> QED
  BY <1>2, <1>3, <1>4, <1>5, <1>6

\* A lookup that ends, however it does, gives back everything.
LEMMA EndKeeps ==
    ASSUME LookupInv, NEW l \in Lookups, look[l].at \in Busy,
           NEW outcome \in {"done", "error", "late"},
           outcome = "done" => Sampled(l, Span[l][2] + 1), End(l, outcome)
    PROVE  LookupInv'
<1> DEFINE new == [Fresh EXCEPT !.at = outcome, !.samples = IF outcome = "done" THEN look[l].samples ELSE <<>>]
<1>1. /\ DOMAIN new = Fields /\ new.at = outcome
      /\ outcome = "done" => new.samples = look[l].samples
  BY DEF Fresh, Fields
<1>2. look' = [look EXCEPT ![l] = new] /\ DOMAIN look = Lookups
  BY DEF End, LookupInv, Slots
<1> HIDE DEF new
<1>3. DOMAIN look' = Lookups /\ look'[l] = new /\ \A q \in Lookups \ {l} : look'[q] = look[q]
  BY <1>2
<1>4. outcome \notin Busy /\ outcome \notin Decodes /\ outcome \in Stages
  BY DEF Busy, Decodes, Stages
<1>5. Slots'
  <2>1. hdf5' \in decoding' \cup {NoLookup}
    BY DEF End, LookupInv, Slots
  <2>2. UNCHANGED <<object, indexed, limits, changes>> /\ running' = running \ {l} /\ decoding' = decoding \ {l}
    BY DEF End
  <2> QED
    BY <1>1, <1>3, <1>4, <2>1, <2>2, SlotsFollow DEF LookupInv
<1>6. Reads(l)'
  <2>1. outcome \notin {"idle", "retro", "hour", "open", "lock", "features", "flows"}
    OBVIOUS
  <2> QED
    BY <1>1, <1>3, <1>4, <2>1 DEF Reads, Sampled
<1> QED
  BY <1>3, <1>5, <1>6, OneMoves

\* Append, by position.
LEMMA Appended ==
    ASSUME NEW S, NEW s \in Seq(S), NEW e \in S
    PROVE  /\ Append(s, e) \in Seq(S) /\ Len(Append(s, e)) = Len(s) + 1
           /\ \A n \in 1 .. Len(s) + 1 : Append(s, e)[n] = IF n = Len(s) + 1 THEN e ELSE s[n]
OBVIOUS

\* The sample that ends an hour is that of the hour.
LEMMA EndHourKeeps ==
    ASSUME LookupInv, NEW l \in Lookups, look[l].at \in Decodes, look[l].pin \in 0 .. Len(Layout),
           NEW flows, flows = [r \in Reaches[l] |-> FlowAt(r, look[l].hour, look[l].pin)],
           EndHour(l, flows)
    PROVE  LookupInv'
<1> DEFINE sample == [time |-> look[l].hour, source |-> "archive", version |-> look[l].pin, flows |-> flows]
<1>t. PICK t : t = look[l].hour
  OBVIOUS
<1>0. /\ t \in Nat /\ t > LastRetro /\ t >= Span[l][1] /\ t <= Span[l][2]
      /\ Span[l][1] \in Nat /\ Span[l][2] \in Nat /\ LastRetro \in Nat /\ Sampled(l, t)
  BY <1>t, HourIsArchived
<1>1. /\ DOMAIN look' = Lookups /\ \A q \in Lookups \ {l} : look'[q] = look[q]
      /\ DOMAIN look'[l] = Fields /\ look'[l].at = "hour" /\ look'[l].hour = t + 1
      /\ look'[l].samples = Append(look[l].samples, sample)
      /\ look'[l].pin = 0 /\ look'[l].features = <<>>
  <2> DEFINE new == [look[l] EXCEPT !.at = "hour", !.hour = look[l].hour + 1,
                       !.samples = Append(look[l].samples, sample),
                       !.pin = 0, !.features = <<>>, !.flows = <<>>, !.todo = {}]
  <2>1. look' = [look EXCEPT ![l] = new]
    BY DEF EndHour
  <2>2. DOMAIN look = Lookups /\ DOMAIN look[l] = Fields
    BY DEF LookupInv, Slots, Reads
  <2>3. /\ DOMAIN new = Fields /\ new.at = "hour" /\ new.hour = t + 1
        /\ new.samples = Append(look[l].samples, sample)
        /\ new.pin = 0 /\ new.features = <<>>
    BY <1>t, <2>2 DEF Fields
  <2> HIDE DEF new
  <2> QED
    BY <2>1, <2>2, <2>3
<1>2. sample = SampleAt(l, t, look[l].pin)
  BY <1>0, <1>t DEF SampleAt
<1>3. sample \in Samples(l) /\ sample.time = t
  <2>1. PICK v \in 0 .. Len(Layout) : v = look[l].pin
    OBVIOUS
  <2>2. SampleAt(l, t, v) \in Samples(l)
    BY <1>0 DEF Samples
  <2>3. SampleAt(l, t, v).time = t
    BY DEF SampleAt
  <2> QED
    BY <1>2, <2>1, <2>2, <2>3
<1> HIDE DEF sample
<1>n. PICK u : u = t + 1
  OBVIOUS
<1>4. Sampled(l, u)'
  <2>s. PICK s : s = look[l].samples
    OBVIOUS
  <2>1. s \in Seq(Samples(l)) /\ Len(s) = t - Span[l][1] /\ \A n \in 1 .. Len(s) : s[n].time = Span[l][1] + n - 1
    BY <1>0, <2>s DEF Sampled
  <2>2. /\ Append(s, sample) \in Seq(Samples(l)) /\ Len(Append(s, sample)) = Len(s) + 1
        /\ \A n \in 1 .. Len(s) + 1 : Append(s, sample)[n] = IF n = Len(s) + 1 THEN sample ELSE s[n]
    BY <1>3, <2>1, Appended
  <2>3. \A n \in 1 .. Len(s) + 1 : Append(s, sample)[n].time = Span[l][1] + n - 1
    <3>1. Span[l][1] + (Len(s) + 1) - 1 = t /\ Len(s) \in Nat
      BY <1>0, <2>1
    <3> SUFFICES ASSUME NEW n \in 1 .. Len(s) + 1 PROVE Append(s, sample)[n].time = Span[l][1] + n - 1
      OBVIOUS
    <3>2. CASE n = Len(s) + 1
      BY <1>3, <2>2, <3>1, <3>2
    <3>3. CASE n # Len(s) + 1
      <4>1. n \in 1 .. Len(s)
        BY <3>1, <3>3
      <4>2. Append(s, sample)[n] = s[n]
        BY <2>2, <3>3
      <4> QED
        BY <2>1, <4>1, <4>2
    <3> QED
      BY <3>2, <3>3
  <2>4. Len(Append(s, sample)) = t + 1 - Span[l][1]
    BY <1>0, <2>1, <2>2
  <2>5. look'[l].samples = Append(s, sample)
    BY <1>1, <2>s
  <2>6. \A n \in 1 .. Len(Append(s, sample)) : Append(s, sample)[n].time = Span[l][1] + n - 1
    BY <2>2, <2>3
  <2>7. look'[l].samples \in Seq(Samples(l))
    BY <2>2, <2>5
  <2>8. Len(look'[l].samples) = u - Span[l][1]
    BY <1>0, <1>n, <2>1, <2>4, <2>5
  <2>9. \A n \in 1 .. Len(look'[l].samples) : look'[l].samples[n].time = Span[l][1] + n - 1
    BY <2>5, <2>6
  <2> QED
    BY <2>7, <2>8, <2>9 DEF Sampled
<1>5. Smaller(t + 1, Span[l][2] + 1) = t + 1
  BY <1>0 DEF Smaller
<1>6. Reads(l)'
  BY <1>0, <1>n, <1>1, <1>4, <1>5 DEF Reads, Busy, Decodes
<1>7. Slots'
  <2>1. hdf5' \in decoding' \cup {NoLookup}
    BY DEF EndHour, LookupInv, Slots
  <2>2. UNCHANGED <<object, indexed, limits, changes>> /\ running' = running /\ decoding' = decoding \ {l}
    BY DEF EndHour
  <2>3. l \in running /\ look[l].at \in Busy
    BY DEF LookupInv, Slots, Decodes
  <2>4. "hour" \in Busy /\ "hour" \in Stages /\ "hour" \notin Decodes
    BY DEF Busy, Stages, Decodes
  <2> QED
    BY <1>1, <2>1, <2>2, <2>3, <2>4, SlotsFollow DEF LookupInv
<1> QED
  BY <1>1, <1>6, <1>7, OneMoves

\* What an action that replaces the record of one lookup leaves.
LEMMA Replaced ==
    ASSUME LookupInv, NEW l \in Lookups, NEW new, DOMAIN new = Fields, look' = [look EXCEPT ![l] = new]
    PROVE  DOMAIN look' = Lookups /\ look'[l] = new /\ \A q \in Lookups \ {l} : look'[q] = look[q]
BY DEF LookupInv, Slots

\* A lookup begins only while there is capacity.
LEMMA BeginKeeps ==
    ASSUME LookupInv, NEW l \in Lookups, Begin(l)
    PROVE  LookupInv'
<1> DEFINE stage == IF Cardinality(running) < Capacity THEN "retro" ELSE "busy"
           new == [look[l] EXCEPT !.at = stage]
<1>0. look[l].at = "idle" /\ DOMAIN look[l] = Fields /\ look[l].pin = 0 /\ look[l].features = <<>>
  BY DEF Begin, LookupInv, Reads
<1>1. DOMAIN new = Fields /\ new.at = stage /\ new.pin = 0 /\ new.features = <<>>
  BY <1>0 DEF Fields
<1>2. look' = [look EXCEPT ![l] = new]
  BY DEF Begin
<1> HIDE DEF new
<1>3. DOMAIN look' = Lookups /\ look'[l] = new /\ \A q \in Lookups \ {l} : look'[q] = look[q]
  BY <1>1, <1>2, Replaced
<1>4. Reads(l)'
  BY <1>1, <1>3 DEF Reads, Busy, Decodes
<1>5. Slots'
  <2>1. /\ "retro" \in Busy /\ "retro" \notin Decodes /\ "busy" \notin Busy /\ "busy" \notin Decodes
        /\ "retro" \in Stages /\ "busy" \in Stages /\ "idle" \notin Busy /\ "idle" \notin Decodes
    BY DEF Busy, Decodes, Stages
  <2>2. l \notin running /\ l \notin decoding
    BY <1>0, <2>1 DEF LookupInv, Slots
  <2>3. UNCHANGED <<object, indexed, limits, changes, decoding, hdf5>>
        /\ running' = IF Cardinality(running) < Capacity THEN running \cup {l} ELSE running
    BY DEF Begin
  <2>4. hdf5' \in decoding' \cup {NoLookup} /\ Slots
    BY <2>3 DEF LookupInv, Slots
  <2>5. CASE Cardinality(running) < Capacity
    <3>1. look'[l].at = "retro" /\ running' = running \cup {l} /\ decoding' = decoding \ {l}
      BY <1>1, <1>3, <2>2, <2>3, <2>5
    <3> HIDE DEF stage
    <3> QED
      BY <1>3, <2>1, <2>3, <2>4, <2>5, <3>1, SlotsFollow
  <2>6. CASE ~(Cardinality(running) < Capacity)
    <3>1. look'[l].at = "busy" /\ running' = running \ {l} /\ decoding' = decoding \ {l}
      BY <1>1, <1>3, <2>2, <2>3, <2>6
    <3> HIDE DEF stage
    <3> QED
      BY <1>3, <2>1, <2>3, <2>4, <3>1, SlotsFollow
  <2> QED
    BY <2>5, <2>6
<1> QED
  BY <1>3, <1>4, <1>5, OneMoves

\* A lookup that goes on without taking or giving back anything.
LEMMA SlotsStay ==
    ASSUME LookupInv, NEW l \in Lookups,
           DOMAIN look' = Lookups, \A q \in Lookups \ {l} : look'[q] = look[q],
           look'[l].at \in Stages, look'[l].at \in Busy <=> look[l].at \in Busy,
           look'[l].at \in Decodes <=> look[l].at \in Decodes,
           UNCHANGED <<object, indexed, running, decoding, hdf5, limits, changes>>
    PROVE  Slots'
<1>1. Slots
  BY DEF LookupInv
<1>2. running' = IF look'[l].at \in Busy THEN running \cup {l} ELSE running \ {l}
  BY <1>1 DEF Slots
<1>3. decoding' = IF look'[l].at \in Decodes THEN decoding \cup {l} ELSE decoding \ {l}
  BY <1>1 DEF Slots
<1>4. hdf5' \in decoding' \cup {NoLookup}
  BY <1>1 DEF Slots
<1> QED
  BY <1>1, <1>2, <1>3, <1>4, SlotsFollow

\* The retrospective fills the hours up to its last one.
LEMMA RetrospectiveKeeps ==
    ASSUME LookupInv, NEW l \in Lookups, Retrospective(l)
    PROVE  LookupInv'
<1> DEFINE first == Span[l][1]
           last == Smaller(Span[l][2], LastRetro)
           rows == IF first <= last THEN RetroSamples(l, first, last) ELSE <<>>
           hour == Larger(first, LastRetro + 1)
           new == [look[l] EXCEPT !.at = "hour", !.samples = rows, !.hour = hour]
<1>0. /\ look[l].at = "retro" /\ DOMAIN look[l] = Fields /\ look[l].pin = 0 /\ look[l].features = <<>>
  BY DEF Retrospective, LookupInv, Reads
<1>1. /\ first \in Nat /\ Span[l][2] \in Nat /\ first <= Span[l][2] /\ LastRetro \in Nat
      /\ last \in Nat /\ last <= LastRetro /\ last <= Span[l][2]
      /\ hour \in Nat /\ hour > LastRetro /\ hour >= first
  BY LookupAssumption DEF Smaller, Larger
<1>2. /\ rows \in Seq(Samples(l)) /\ Len(rows) = Smaller(hour, Span[l][2] + 1) - first
      /\ \A n \in 1 .. Len(rows) : rows[n].time = first + n - 1
  <2>1. CASE first <= last
    <3>1. /\ rows \in Seq(Samples(l)) /\ Len(rows) = last - first + 1
          /\ \A n \in 1 .. last - first + 1 : rows[n].time = first + n - 1
      BY <1>1, <2>1, RetroSamplesAreRight
    <3>2. Smaller(hour, Span[l][2] + 1) = last + 1
      BY <1>1, <2>1 DEF Smaller, Larger
    <3> HIDE DEF first, last, hour, rows
    <3>3. (last + 1) - first = last - first + 1
      BY <1>1
    <3> QED
      BY <3>1, <3>2, <3>3
  <2>2. CASE ~(first <= last)
    <3>1. Smaller(hour, Span[l][2] + 1) = first
      BY <1>1, <2>2 DEF Smaller, Larger
    <3>2. rows = <<>>
      BY <2>2
    <3>3. first - first = 0
      BY <1>1
    <3> HIDE DEF rows, first
    <3> QED
      BY <3>1, <3>2, <3>3
  <2> QED
    BY <2>1, <2>2
<1>3. /\ DOMAIN new = Fields /\ new.at = "hour" /\ new.samples = rows /\ new.hour = hour
      /\ new.pin = 0 /\ new.features = <<>>
  <2> HIDE DEF rows, hour
  <2> QED
    BY <1>0 DEF Fields
<1>4. look' = [look EXCEPT ![l] = new] /\ UNCHANGED <<object, indexed, running, decoding, hdf5, limits, changes>>
  BY DEF Retrospective
<1> HIDE DEF new, rows
<1>5. DOMAIN look' = Lookups /\ look'[l] = new /\ \A q \in Lookups \ {l} : look'[q] = look[q]
  BY <1>3, <1>4, Replaced
<1> HIDE DEF hour, last
<1>6. Reads(l)'
  <2> DEFINE t == Smaller(hour, Span[l][2] + 1)
  <2>1. look'[l].samples \in Seq(Samples(l)) /\ Len(look'[l].samples) = t - Span[l][1]
        /\ \A n \in 1 .. Len(look'[l].samples) : look'[l].samples[n].time = Span[l][1] + n - 1
    BY <1>2, <1>3, <1>5
  <2>2. look'[l].at = "hour" /\ DOMAIN look'[l] = Fields /\ look'[l].hour = hour
        /\ look'[l].pin = 0 /\ look'[l].features = <<>>
    BY <1>3, <1>5
  <2>u. PICK u : u = t
    OBVIOUS
  <2> HIDE DEF t
  <2>3. Sampled(l, u)'
    BY <2>1, <2>u DEF Sampled
  <2> QED
    BY <1>1, <2>2, <2>3, <2>u DEF Reads, Busy, Decodes, t
<1>7. Slots'
  <2>1. /\ "hour" \in Busy /\ "hour" \notin Decodes /\ "hour" \in Stages
        /\ "retro" \in Busy /\ "retro" \notin Decodes
    BY DEF Busy, Decodes, Stages
  <2> QED
    BY <1>0, <1>3, <1>4, <1>5, <2>1, SlotsStay
<1> QED
  BY <1>5, <1>6, <1>7, OneMoves

\* Only a lookup with all of its hours is answered.
LEMMA AnswerKeeps ==
    ASSUME LookupInv, NEW l \in Lookups, Answer(l)
    PROVE  LookupInv'
<1>1. look[l].at = "hour" /\ look[l].at \in Busy /\ look[l].at \in Busy \ {"retro"} /\ look[l].hour > Span[l][2]
  BY DEF Answer, Busy
<1>2. look[l].hour \in Nat /\ Sampled(l, Smaller(look[l].hour, Span[l][2] + 1))
  BY <1>1 DEF LookupInv, Reads
<1>3. Span[l][2] \in Nat
  BY LookupAssumption
<1>4. Smaller(look[l].hour, Span[l][2] + 1) = Span[l][2] + 1
  BY <1>1, <1>2, <1>3 DEF Smaller
<1> QED
  BY <1>1, <1>2, <1>4, EndKeeps DEF Answer

\* A lookup waits for a decode slot before it opens the object of its hour.
LEMMA AcquireSlotKeeps ==
    ASSUME LookupInv, NEW l \in Lookups, AcquireSlot(l)
    PROVE  LookupInv'
<1> DEFINE new == [look[l] EXCEPT !.at = "open"]
<1>0. look[l].at = "hour" /\ DOMAIN look[l] = Fields /\ Reads(l) /\ Slots
  BY DEF AcquireSlot, LookupInv, Reads
<1>1. /\ DOMAIN new = Fields /\ new.at = "open"
      /\ \A f \in Fields \ {"at"} : new[f] = look[l][f]
  BY <1>0 DEF Fields
<1>2. look' = [look EXCEPT ![l] = new] /\ UNCHANGED <<object, indexed, running, hdf5, limits, changes>>
      /\ decoding' = decoding \cup {l} /\ look[l].hour <= Span[l][2] /\ Cardinality(decoding) < DecodeSlots
  BY DEF AcquireSlot
<1> HIDE DEF new
<1>3. DOMAIN look' = Lookups /\ look'[l] = new /\ \A q \in Lookups \ {l} : look'[q] = look[q]
  BY <1>1, <1>2, Replaced
<1>4. /\ look'[l].hour = look[l].hour /\ look'[l].pin = look[l].pin /\ look'[l].features = look[l].features
      /\ look'[l].samples = look[l].samples
  BY <1>1, <1>3 DEF Fields
<1>5. Reads(l)'
  BY <1>0, <1>1, <1>2, <1>3, <1>4 DEF Reads, Busy, Decodes, Sampled
<1>6. Slots'
  <2>1. "hour" \in Busy /\ "open" \in Busy /\ "open" \in Decodes /\ "open" \in Stages
    BY DEF Busy, Decodes, Stages
  <2>2. l \in running /\ hdf5' \in decoding' \cup {NoLookup}
    BY <1>0, <1>2, <2>1 DEF Slots
  <2> QED
    BY <1>0, <1>1, <1>2, <1>3, <2>1, <2>2, SlotsFollow
<1> QED
  BY <1>3, <1>5, <1>6, OneMoves

\* The HDF5 lock goes to one lookup that decodes.
LEMMA LockHdf5Keeps ==
    ASSUME LookupInv, NEW l \in Lookups, LockHdf5(l)
    PROVE  LookupInv'
<1> DEFINE new == [look[l] EXCEPT !.at = "features"]
<1>0. look[l].at = "lock" /\ DOMAIN look[l] = Fields /\ Reads(l) /\ Slots
  BY DEF LockHdf5, LookupInv, Reads
<1>1. /\ DOMAIN new = Fields /\ new.at = "features"
      /\ \A f \in Fields \ {"at"} : new[f] = look[l][f]
  BY <1>0 DEF Fields
<1>2. look' = [look EXCEPT ![l] = new] /\ UNCHANGED <<object, indexed, running, decoding, limits, changes>>
      /\ hdf5' = l
  BY DEF LockHdf5
<1> HIDE DEF new
<1>3. DOMAIN look' = Lookups /\ look'[l] = new /\ \A q \in Lookups \ {l} : look'[q] = look[q]
  BY <1>1, <1>2, Replaced
<1>4. /\ look'[l].hour = look[l].hour /\ look'[l].pin = look[l].pin /\ look'[l].features = look[l].features
      /\ look'[l].samples = look[l].samples
  BY <1>1, <1>3 DEF Fields
<1>5. Begun(l)'
  <2>1. look'[l].features = <<>> /\ look'[l].pin \in 1 .. Len(Layout)
    BY <1>0, <1>4 DEF Reads
  <2>2. Chunk \in Nat /\ Layout \in Seq(Seq(Feature))
    BY LookupAssumption
  <2>3. Layout[look'[l].pin] \in Seq(Feature) /\ 0 = 0 * Chunk /\ 0 \in Nat
    BY <2>1, <2>2
  <2> QED
    BY <2>1, <2>3 DEF Begun
<1>6. Reads(l)'
  BY <1>0, <1>1, <1>2, <1>3, <1>4, <1>5 DEF Reads, Busy, Decodes, Sampled
<1>7. Slots'
  <2>1. /\ "features" \in Busy /\ "features" \in Decodes /\ "features" \in Stages
        /\ "lock" \in Busy /\ "lock" \in Decodes
    BY DEF Busy, Decodes, Stages
  <2>2. l \in running /\ l \in decoding
    BY <1>0, <2>1 DEF Slots
  <2>3. hdf5' \in decoding' \cup {NoLookup} /\ running' = running \cup {l} /\ decoding' = decoding \cup {l}
    BY <1>2, <2>2
  <2> QED
    BY <1>0, <1>1, <1>2, <1>3, <2>1, <2>3, SlotsFollow
<1> QED
  BY <1>3, <1>6, <1>7, OneMoves

\* The deadline changes nothing that was read.
LEMMA DeadlinePassesKeeps ==
    ASSUME LookupInv, NEW l \in Lookups, DeadlinePasses(l)
    PROVE  LookupInv'
<1> DEFINE new == [look[l] EXCEPT !.late = TRUE]
<1>0. DOMAIN look[l] = Fields /\ Reads(l) /\ Slots
  BY DEF LookupInv, Reads
<1>1. /\ DOMAIN new = Fields
      /\ \A f \in Fields \ {"late"} : new[f] = look[l][f]
  BY <1>0 DEF Fields
<1>2. look' = [look EXCEPT ![l] = new] /\ UNCHANGED <<object, indexed, running, decoding, hdf5, limits, changes>>
  BY DEF DeadlinePasses
<1> HIDE DEF new
<1>3. DOMAIN look' = Lookups /\ look'[l] = new /\ \A q \in Lookups \ {l} : look'[q] = look[q]
  BY <1>1, <1>2, Replaced
<1>4. /\ look'[l].hour = look[l].hour /\ look'[l].pin = look[l].pin /\ look'[l].features = look[l].features
      /\ look'[l].samples = look[l].samples /\ look'[l].at = look[l].at /\ look'[l].flows = look[l].flows
      /\ look'[l].todo = look[l].todo /\ DOMAIN look'[l] = Fields
  BY <1>1, <1>3 DEF Fields
<1>5. Reads(l)'
  BY <1>0, <1>4 DEF Reads, Sampled, Begun, Read
<1>6. Slots'
  BY <1>0, <1>2, <1>3, <1>4, SlotsStay DEF Slots
<1> QED
  BY <1>3, <1>5, <1>6, OneMoves

\* A replaced object changes nothing that was read from the pinned version.
LEMMA ChangeObjectKeeps ==
    ASSUME LookupInv, NEW h \in ArchiveHours, ChangeObject(h)
    PROVE  LookupInv'
<1>1. Slots'
  <2>1. Len(Layout) \in Nat /\ DOMAIN Layout = 1 .. Len(Layout) /\ MaxChanges \in Nat
    BY LookupAssumption, LenProperties
  <2>2. object' \in [ArchiveHours -> 0 .. Len(Layout)]
    BY <2>1 DEF ChangeObject, LookupInv, Slots
  <2>3. changes' \in 0 .. MaxChanges
    BY <2>1 DEF ChangeObject, LookupInv, Slots
  <2> QED
    BY <2>2, <2>3 DEF ChangeObject, LookupInv, Slots, Capacity, DecodeSlots
<1>2. ASSUME NEW l \in Lookups PROVE Reads(l)'
  BY ReadsKept DEF ChangeObject, LookupInv
<1> QED
  BY <1>1, <1>2 DEF LookupInv

\* The versions of an object.
LEMMA Versions ==
    /\ Len(Layout) \in Nat /\ Len(Layout) >= 1 /\ Chunk \in Nat \ {0}
    /\ \A v \in 1 .. Len(Layout) :
          /\ v # 0 /\ Layout[v] \in Seq(Feature) /\ Len(Layout[v]) \in Nat
          /\ DOMAIN Layout[v] = 1 .. Len(Layout[v])
          /\ Range(Layout[v]) = {Layout[v][p] : p \in 1 .. Len(Layout[v])}
<1>1. Layout \in Seq(Seq(Feature)) /\ Layout # <<>> /\ Chunk \in Nat \ {0}
  BY LookupAssumption
<1>2. Len(Layout) \in Nat /\ Len(Layout) >= 1
  <2>1. Len(Layout) \in Nat /\ Len(Layout) # 0
    BY <1>1
  <2> QED
    BY <2>1
<1>3. ASSUME NEW v \in 1 .. Len(Layout)
      PROVE  /\ v # 0 /\ Layout[v] \in Seq(Feature) /\ Len(Layout[v]) \in Nat
             /\ DOMAIN Layout[v] = 1 .. Len(Layout[v])
             /\ Range(Layout[v]) = {Layout[v][p] : p \in 1 .. Len(Layout[v])}
  <2>1. Layout[v] \in Seq(Feature) /\ v # 0
    BY <1>1
  <2>2. Len(Layout[v]) \in Nat /\ DOMAIN Layout[v] = 1 .. Len(Layout[v])
    BY <2>1, LenProperties
  <2> QED
    BY <2>1, <2>2 DEF Range
<1> QED
  BY <1>1, <1>2, <1>3

\* An hour without an object has no flows.
LEMMA NoObjectNoFlow ==
    ASSUME LookupInv, NEW l \in Lookups, look[l].at \in Decodes
    PROVE  NoFlows(l) = [r \in Reaches[l] |-> FlowAt(r, look[l].hour, 0)]
<1>1. look[l].hour > LastRetro /\ look[l].hour \in Nat /\ LastRetro \in Nat
  BY HourIsArchived
<1>2. \A r \in Reaches[l] : FlowAt(r, look[l].hour, 0) = NoFlow
  BY <1>1 DEF FlowAt
<1> QED
  BY <1>2 DEF NoFlows

\* The first read pins the version that there is.
LEMMA OpenObjectKeeps ==
    ASSUME LookupInv, NEW l \in Lookups, OpenObject(l)
    PROVE  LookupInv'
<1> DEFINE h == look[l].hour
<1>0. /\ look[l].at = "open" /\ look[l].at \in Decodes /\ DOMAIN look[l] = Fields /\ Reads(l) /\ Slots
      /\ look[l].pin = 0 /\ look[l].features = <<>>
  BY DEF OpenObject, LookupInv, Reads, Decodes, Busy
<1>1. h \in ArchiveHours /\ object[h] \in 0 .. Len(Layout)
  BY <1>0, HourIsArchived DEF Slots
<1>2. CASE object[h] = 0
  <2>1. NoFlows(l) = [r \in Reaches[l] |-> FlowAt(r, look[l].hour, look[l].pin)]
    BY <1>0, NoObjectNoFlow
  <2>2. look[l].pin \in 0 .. Len(Layout)
    BY <1>0, Versions
  <2>3. EndHour(l, NoFlows(l))
    BY <1>2 DEF OpenObject
  <2> QED
    BY <1>0, <2>1, <2>2, <2>3, EndHourKeeps
<1>3. CASE object[h] # 0
  <2> DEFINE stage == IF h \in indexed THEN "features" ELSE "lock"
             new == [look[l] EXCEPT !.pin = object[h], !.at = stage]
  <2>1. look' = [look EXCEPT ![l] = new] /\ UNCHANGED <<object, indexed, running, decoding, hdf5, limits, changes>>
    BY <1>3 DEF OpenObject
  <2>2. /\ DOMAIN new = Fields /\ new.at = stage /\ new.pin = object[h] /\ new.hour = h
        /\ new.features = <<>> /\ new.samples = look[l].samples
    BY <1>0 DEF Fields
  <2> HIDE DEF new
  <2>3. DOMAIN look' = Lookups /\ look'[l] = new /\ \A q \in Lookups \ {l} : look'[q] = look[q]
    BY <2>1, <2>2, Replaced
  <2>4. object[h] \in 1 .. Len(Layout)
    BY <1>1, <1>3, Versions
  <2>5. Begun(l)'
    <3>1. look'[l].features = <<>> /\ look'[l].pin \in 1 .. Len(Layout)
      BY <2>2, <2>3, <2>4
    <3>2. Len(Layout[look'[l].pin]) \in Nat /\ 0 = 0 * Chunk /\ 0 \in Nat
      BY <3>1, Versions
    <3> QED
      BY <3>1, <3>2 DEF Begun
  <2>p. PICK v : v = object[h]
    OBVIOUS
  <2>t. PICK t : t = h
    OBVIOUS
  <2>s. stage \in {"features", "lock"}
    OBVIOUS
  <2>6. /\ look'[l].at \in {"features", "lock"} /\ DOMAIN look'[l] = Fields /\ look'[l].hour = t
        /\ look'[l].pin = v /\ look'[l].features = <<>> /\ look'[l].samples = look[l].samples
    BY <2>2, <2>3, <2>p, <2>t, <2>s
  <2> HIDE DEF h, stage
  <2>7. Reads(l)'
    <3>1. v \in 1 .. Len(Layout)
      BY <2>4, <2>p
    <3>2. t = look[l].hour
      BY <2>t DEF h
    <3>3. look'[l].at \in Decodes /\ look'[l].at \in Busy \ {"retro"} /\ look'[l].at \notin {"idle", "retro", "hour", "open"}
          /\ look'[l].at # "flows" /\ look'[l].at # "done"
      BY <2>6 DEF Decodes, Busy
    <3>4. /\ look[l].hour \in Nat /\ look[l].hour > LastRetro /\ look[l].hour >= Span[l][1]
          /\ Sampled(l, Smaller(look[l].hour, Span[l][2] + 1)) /\ look[l].hour <= Span[l][2]
      BY <1>0 DEF Reads, Busy, Decodes
    <3> QED
      BY <2>5, <2>6, <3>1, <3>2, <3>3, <3>4 DEF Reads, Sampled
  <2>8. Slots'
    <3>1. /\ "features" \in Decodes /\ "lock" \in Decodes /\ "features" \in Busy /\ "lock" \in Busy
          /\ "features" \in Stages /\ "lock" \in Stages /\ look[l].at \in Busy
      BY <1>0 DEF Decodes, Busy, Stages
    <3> QED
      BY <1>0, <2>1, <2>3, <2>6, <3>1, SlotsStay
  <2> QED
    BY <2>3, <2>7, <2>8, OneMoves
<1> QED
  BY <1>2, <1>3

\* Chunk k of an array, whose end may cut it short.
LEMMA ChunkOfFacts ==
    ASSUME NEW S, NEW s \in Seq(S), NEW k \in Nat, k * Chunk <= Len(s), Chunk \in Nat \ {0}
    PROVE  /\ ChunkOf(s, k) \in Seq(S)
           /\ Len(ChunkOf(s, k)) = Smaller((k + 1) * Chunk, Len(s)) - k * Chunk
           /\ \A p \in 1 .. Len(ChunkOf(s, k)) : ChunkOf(s, k)[p] = s[k * Chunk + p]
<1> DEFINE a == k * Chunk
           b == Smaller((k + 1) * Chunk, Len(s))
<1>1. a \in Nat /\ b \in Nat /\ a <= b /\ b <= Len(s)
  <2>1. (k + 1) * Chunk = k * Chunk + Chunk /\ k * Chunk \in Nat
    OBVIOUS
  <2> QED
    BY <2>1 DEF Smaller
<1>2. ChunkOf(s, k) = SubSeq(s, a + 1, b)
  BY DEF ChunkOf
<1> HIDE DEF a, b
<1>3. /\ SubSeq(s, a + 1, b) \in Seq(S) /\ Len(SubSeq(s, a + 1, b)) = b - a
      /\ \A p \in 1 .. b - a : SubSeq(s, a + 1, b)[p] = s[a + p]
  BY <1>1
<1> QED
  BY <1>1, <1>2, <1>3 DEF a, b

\* A further chunk of feature IDs is the next one of the pinned version, and the
\* last one leaves a chunk of flows to read for every position of a reach asked for.
LEMMA ReadFeaturesKeeps ==
    ASSUME LookupInv, NEW l \in Lookups, ReadFeatures(l)
    PROVE  LookupInv'
<1>p. PICK v : v = look[l].pin
  OBVIOUS
<1>f. PICK features : features = look[l].features
  OBVIOUS
<1>0. /\ look[l].at = "features" /\ DOMAIN look[l] = Fields /\ Reads(l) /\ Slots
      /\ v \in 1 .. Len(Layout) /\ Begun(l) /\ object[look[l].hour] = v
  BY <1>p DEF ReadFeatures, LookupInv, Reads, Readable, Changed
<1>s. PICK s : s = Layout[v]
  OBVIOUS
<1>1. s \in Seq(Feature) /\ Len(s) \in Nat /\ Chunk \in Nat \ {0} /\ DOMAIN s = 1 .. Len(s)
  BY <1>0, <1>s, Versions
<1>2. /\ features \in Seq(Feature) /\ Len(features) <= Len(s)
      /\ \A p \in 1 .. Len(features) : features[p] = s[p]
  BY <1>0, <1>p, <1>f, <1>s DEF Begun
<1>3. PICK k \in Nat : Len(features) = k * Chunk
  BY <1>0, <1>f DEF Begun
<1>4. Len(features) \div Chunk = k
  <2>1. k * Chunk <= Len(features) /\ Len(features) < k * Chunk + Chunk /\ Len(features) \in Nat
    BY <1>1, <1>2, <1>3
  <2> QED
    BY <1>1, <2>1, ChunkIndex
<1>5. PICK known : known = features \o ChunkOf(s, k)
  OBVIOUS
<1>6. /\ known \in Seq(Feature) /\ Len(known) = Smaller((k + 1) * Chunk, Len(s))
      /\ \A p \in 1 .. Len(known) : known[p] = s[p]
  <2>c. PICK c : c = ChunkOf(s, k)
    OBVIOUS
  <2>1. /\ c \in Seq(Feature) /\ Len(c) = Smaller((k + 1) * Chunk, Len(s)) - k * Chunk
        /\ \A p \in 1 .. Len(c) : c[p] = s[k * Chunk + p]
    BY <1>1, <1>2, <1>3, <2>c, ChunkOfFacts
  <2>2. /\ known \in Seq(Feature) /\ Len(known) = Len(features) + Len(c)
        /\ \A p \in 1 .. Len(known) : known[p] = IF p <= Len(features) THEN features[p] ELSE c[p - Len(features)]
    BY <1>2, <1>5, <2>1, <2>c
  <2>3. Len(known) = Smaller((k + 1) * Chunk, Len(s))
    <3>1. Smaller((k + 1) * Chunk, Len(s)) \in Nat /\ k * Chunk \in Nat
      BY <1>1 DEF Smaller
    <3> QED
      BY <1>3, <2>1, <2>2, <3>1
  <2>4. ASSUME NEW p \in 1 .. Len(known) PROVE known[p] = s[p]
    <3>1. CASE p <= Len(features)
      BY <1>2, <2>2, <3>1
    <3>2. CASE ~(p <= Len(features))
      <4>1. p - Len(features) \in 1 .. Len(c) /\ k * Chunk + (p - Len(features)) = p
        BY <1>2, <1>3, <2>1, <2>2, <3>2
      <4> QED
        BY <2>1, <2>2, <3>2, <4>1
    <3> QED
      BY <3>1, <3>2
  <2> QED
    BY <2>2, <2>3, <2>4
<1> DEFINE todo == {(p - 1) \div Chunk : p \in {q \in DOMAIN known : known[q] \in Reaches[l]}}
           stage == IF Len(known) < Len(s) THEN "features" ELSE "flows"
           new == [look[l] EXCEPT !.features = known, !.at = stage, !.todo = todo, !.flows = NoFlows(l)]
<1>7. look' = [look EXCEPT ![l] = new] /\ UNCHANGED <<object, indexed, running, decoding, hdf5, limits, changes>>
  BY <1>0, <1>p, <1>f, <1>s, <1>4, <1>5 DEF ReadFeatures
<1>8. /\ DOMAIN new = Fields /\ new.features = known /\ new.at = stage /\ new.todo = todo /\ new.flows = NoFlows(l)
      /\ new.hour = look[l].hour /\ new.pin = v /\ new.samples = look[l].samples
  <2> HIDE DEF todo, stage
  <2> QED
    BY <1>0, <1>p DEF Fields
<1> HIDE DEF new
<1>9. DOMAIN look' = Lookups /\ look'[l] = new /\ \A q \in Lookups \ {l} : look'[q] = look[q]
  BY <1>7, <1>8, Replaced
<1>t. PICK chunks : chunks = todo
  OBVIOUS
<1>10. /\ DOMAIN look'[l] = Fields /\ look'[l].features = known /\ look'[l].at \in {"features", "flows"}
       /\ look'[l].at = "features" <=> Len(known) < Len(s)
       /\ look'[l].todo = chunks /\ look'[l].flows = NoFlows(l)
       /\ look'[l].hour = look[l].hour /\ look'[l].pin = v /\ look'[l].samples = look[l].samples
  BY <1>8, <1>9, <1>t
<1>11. look'[l].at = "features" => Begun(l)'
  <2>1. SUFFICES ASSUME Len(known) < Len(s) PROVE Begun(l)'
    BY <1>10
  <2>2. Len(known) = (k + 1) * Chunk /\ k + 1 \in Nat
    <3>1. (k + 1) * Chunk \in Nat
      BY <1>1
    <3> QED
      BY <1>1, <1>6, <2>1, <3>1 DEF Smaller
  <2> QED
    BY <1>6, <1>10, <1>s, <2>1, <2>2 DEF Begun
<1>12. look'[l].at = "flows" => Read(l)'
  <2>1. SUFFICES ASSUME ~(Len(known) < Len(s)) PROVE Read(l)'
    BY <1>10
  <2>2. Len(known) = Len(s)
    <3>1. (k + 1) * Chunk \in Nat
      BY <1>1
    <3> QED
      BY <1>1, <1>6, <2>1, <3>1 DEF Smaller
  <2>3. known = s
    BY <1>1, <1>6, <2>2
  <2>4. ASSUME NEW r \in Reaches[l], NEW p \in 1 .. Len(s), s[p] = r
        PROVE  (p - 1) \div Chunk \in chunks
    BY <1>1, <1>t, <2>3, <2>4
  <2>5. \A r \in Reaches[l] : NoFlows(l)[r] = NoFlow
    BY DEF NoFlows
  <2>6. NoFlows(l) \in [Reaches[l] -> Flow]
    BY DEF NoFlows, Flow
  <2>7. look'[l].features = Layout[look'[l].pin] /\ look'[l].flows \in [Reaches[l] -> Flow]
    BY <1>10, <1>s, <2>3, <2>6
  <2>8. ASSUME NEW r \in Reaches[l]
        PROVE  /\ look'[l].flows[r] = NoFlow
               /\ \A p \in 1 .. Len(Layout[look'[l].pin]) :
                     Layout[look'[l].pin][p] = r => (p - 1) \div Chunk \in look'[l].todo
    <3>1. look'[l].flows[r] = NoFlow
      BY <1>10, <2>5
    <3>2. Layout[look'[l].pin] = s /\ look'[l].todo = chunks
      BY <1>10, <1>s
    <3> HIDE DEF todo
    <3> QED
      BY <2>4, <3>1, <3>2
  <2> QED
    BY <2>7, <2>8 DEF Read, Flow
<1>13. Reads(l)'
  <2>1. look'[l].at \in Decodes /\ look'[l].at \in Busy \ {"retro"} /\ look'[l].at \notin {"idle", "retro", "hour", "open"}
        /\ look'[l].at # "lock" /\ look'[l].at # "done"
    BY <1>10 DEF Decodes, Busy
  <2>2. /\ look[l].hour \in Nat /\ look[l].hour > LastRetro /\ look[l].hour >= Span[l][1]
        /\ Sampled(l, Smaller(look[l].hour, Span[l][2] + 1)) /\ look[l].hour <= Span[l][2]
    BY <1>0 DEF Reads, Busy, Decodes
  <2> HIDE DEF todo, stage
  <2> QED
    BY <1>0, <1>10, <1>11, <1>12, <2>1, <2>2 DEF Reads, Sampled
<1>14. Slots'
  <2>1. /\ "features" \in Decodes /\ "flows" \in Decodes /\ "features" \in Busy /\ "flows" \in Busy
        /\ "features" \in Stages /\ "flows" \in Stages
    BY DEF Decodes, Busy, Stages
  <2> QED
    BY <1>0, <1>7, <1>9, <1>10, <2>1, SlotsStay
<1> QED
  BY <1>9, <1>13, <1>14, OneMoves

\* A chunk of flows gives the reaches in it their flow and no other reach.
LEMMA ReadFlowKeeps ==
    ASSUME LookupInv, NEW l \in Lookups, NEW k \in look[l].todo, ReadFlow(l, k)
    PROVE  LookupInv'
<1>p. PICK v : v = look[l].pin
  OBVIOUS
<1>t. PICK t : t = look[l].hour
  OBVIOUS
<1>f. PICK old : old = look[l].flows
  OBVIOUS
<1>d. PICK chunks : chunks = look[l].todo
  OBVIOUS
<1>0. /\ look[l].at = "flows" /\ DOMAIN look[l] = Fields /\ Reads(l) /\ Slots
      /\ v \in 1 .. Len(Layout) /\ Read(l) /\ object[look[l].hour] = v
  BY <1>p DEF ReadFlow, LookupInv, Reads, Readable, Changed
<1>s. PICK s : s = Layout[v]
  OBVIOUS
<1>1. /\ s \in Seq(Feature) /\ Len(s) \in Nat /\ Chunk \in Nat \ {0} /\ DOMAIN s = 1 .. Len(s)
      /\ Range(s) = {s[p] : p \in 1 .. Len(s)} /\ v # 0
  BY <1>0, <1>s, Versions
<1>2. /\ look[l].features = s /\ old \in [Reaches[l] -> Flow]
      /\ \A r \in Reaches[l] :
            \/ old[r] = FlowAt(r, t, v)
            \/ old[r] = NoFlow /\ \A p \in 1 .. Len(s) : s[p] = r => (p - 1) \div Chunk \in chunks
  BY <1>0, <1>p, <1>t, <1>f, <1>d, <1>s DEF Read
<1>3. t > LastRetro /\ t \in Nat /\ LastRetro \in Nat
  <2>1. look[l].at \in Decodes
    BY <1>0 DEF Decodes, Busy
  <2> QED
    BY <1>t, <2>1, HourIsArchived
<1> DEFINE here(r) == {p \in DOMAIN look[l].features :
                          look[l].features[p] = r /\ (p - 1) \div Chunk = k}
           value(p) == <<ChunkOf(Layout[object[look[l].hour]], k)[p - k * Chunk], object[look[l].hour]>>
           found(r) == value(CHOOSE p \in here(r) : TRUE)
           flow(r) == IF here(r) = {} THEN look[l].flows[r]
                      ELSE IF found(r) \in Masked THEN NoFlow ELSE found(r)
           flows == [r \in Reaches[l] |-> flow(r)]
           new == [look[l] EXCEPT !.todo = look[l].todo \ {k}, !.flows = flows]
<1>4. look' = [look EXCEPT ![l] = new] /\ UNCHANGED <<object, indexed, running, decoding, hdf5, limits, changes>>
  BY DEF ReadFlow
<1>5. ASSUME NEW r \in Reaches[l], here(r) # {} PROVE found(r) = <<r, v>> /\ r \in Range(s)
  <2>1. PICK p : p = CHOOSE q \in here(r) : TRUE
    OBVIOUS
  <2>2. p \in 1 .. Len(s) /\ s[p] = r /\ (p - 1) \div Chunk = k
    BY <1>1, <1>2, <1>5, <2>1
  <2>3. k \in Nat /\ k * Chunk <= p - 1 /\ p - 1 < k * Chunk + Chunk
    <3>1. p - 1 \in Nat
      BY <1>1, <2>2
    <3> QED
      BY <1>1, <2>2, <3>1, ChunkIndex
  <2>4. PICK c : c = ChunkOf(s, k)
    OBVIOUS
  <2>5. /\ Len(c) = Smaller((k + 1) * Chunk, Len(s)) - k * Chunk
        /\ \A q \in 1 .. Len(c) : c[q] = s[k * Chunk + q]
    <3>1. k * Chunk <= Len(s)
      BY <1>1, <2>2, <2>3
    <3> QED
      BY <1>1, <2>3, <2>4, <3>1, ChunkOfFacts
  <2>6. p - k * Chunk \in 1 .. Len(c) /\ k * Chunk + (p - k * Chunk) = p
    <3>1. (k + 1) * Chunk = k * Chunk + Chunk /\ k * Chunk \in Nat
      BY <1>1, <2>3
    <3> QED
      BY <1>1, <2>2, <2>3, <2>5, <3>1 DEF Smaller
  <2>7. c[p - k * Chunk] = r
    BY <2>2, <2>5, <2>6
  <2>8. found(r) = <<c[p - k * Chunk], v>>
    BY <1>0, <1>s, <2>1, <2>4
  <2> QED
    BY <1>1, <2>2, <2>7, <2>8
<1>6. ASSUME NEW r \in Reaches[l], here(r) # {} PROVE flow(r) = FlowAt(r, t, v)
  <2>1. found(r) = <<r, v>> /\ r \in Range(s)
    BY <1>5, <1>6
  <2>2. flow(r) = IF found(r) \in Masked THEN NoFlow ELSE found(r)
    BY <1>6
  <2> HIDE DEF found, flow
  <2> QED
    BY <1>1, <1>3, <1>s, <2>1, <2>2 DEF FlowAt
<1>7. ASSUME NEW r \in Reaches[l], here(r) = {}
      PROVE  \/ flow(r) = FlowAt(r, t, v)
             \/ flow(r) = NoFlow /\ \A p \in 1 .. Len(s) : s[p] = r => (p - 1) \div Chunk \in chunks \ {k}
  <2>1. flow(r) = old[r]
    BY <1>7, <1>f
  <2>2. \A p \in 1 .. Len(s) : s[p] = r => (p - 1) \div Chunk # k
    BY <1>1, <1>2, <1>7
  <2> HIDE DEF flow
  <2> QED
    BY <1>2, <2>1, <2>2
<1>8. ASSUME NEW r \in Reaches[l] PROVE flow(r) \in Flow
  <2>1. CASE here(r) = {}
    BY <1>2, <1>f, <2>1
  <2>2. CASE here(r) # {}
    <3>1. flow(r) = FlowAt(r, t, v) /\ r \in Range(s)
      BY <1>5, <1>6, <2>2
    <3>2. r \in Feature
      BY <1>1, <3>1
    <3> HIDE DEF flow
    <3>3. FlowAt(r, t, v) = NoFlow \/ FlowAt(r, t, v) = <<r, v>>
      BY <1>3 DEF FlowAt
    <3> QED
      BY <1>0, <3>1, <3>2, <3>3 DEF Flow
  <2> QED
    BY <2>1, <2>2
<1> HIDE DEF flow
<1>9. flows \in [Reaches[l] -> Flow] /\ \A r \in Reaches[l] : flows[r] = flow(r)
  BY <1>8
<1>10. /\ DOMAIN new = Fields /\ new.todo = chunks \ {k} /\ new.flows = flows
       /\ \A f \in Fields \ {"todo", "flows"} : new[f] = look[l][f]
  <2> HIDE DEF flows
  <2> QED
    BY <1>0, <1>d DEF Fields
<1> HIDE DEF new
<1>11. DOMAIN look' = Lookups /\ look'[l] = new /\ \A q \in Lookups \ {l} : look'[q] = look[q]
  BY <1>4, <1>10, Replaced
<1>u. PICK u : u = flows
  OBVIOUS
<1>12. /\ DOMAIN look'[l] = Fields /\ look'[l].features = s /\ look'[l].at = "flows"
       /\ look'[l].todo = chunks \ {k} /\ look'[l].flows = u
       /\ look'[l].hour = t /\ look'[l].pin = v /\ look'[l].samples = look[l].samples
  BY <1>0, <1>2, <1>p, <1>t, <1>u, <1>10, <1>11 DEF Fields
<1>13. Read(l)'
  <2>1. u \in [Reaches[l] -> Flow]
    BY <1>9, <1>u
  <2>2. ASSUME NEW r \in Reaches[l]
        PROVE  \/ u[r] = FlowAt(r, t, v)
               \/ u[r] = NoFlow /\ \A p \in 1 .. Len(s) : s[p] = r => (p - 1) \div Chunk \in chunks \ {k}
    <3>1. u[r] = flow(r)
      BY <1>9, <1>u
    <3> HIDE DEF here, found, value
    <3> QED
      BY <1>6, <1>7, <3>1
  <2> HIDE DEF flows, here, found, value
  <2> QED
    BY <1>12, <1>s, <2>1, <2>2 DEF Read, Flow, FlowAt
<1>14. Reads(l)'
  <2>1. look'[l].at \in Decodes /\ look'[l].at \in Busy \ {"retro"} /\ look'[l].at \notin {"idle", "retro", "hour", "open"}
        /\ look'[l].at # "lock" /\ look'[l].at # "done" /\ look'[l].at # "features"
    BY <1>12 DEF Decodes, Busy
  <2>2. /\ t \in Nat /\ t > LastRetro /\ t >= Span[l][1]
        /\ Sampled(l, Smaller(t, Span[l][2] + 1)) /\ t <= Span[l][2]
    BY <1>0, <1>t DEF Reads, Busy, Decodes
  <2> HIDE DEF flows, here, found, value
  <2> QED
    BY <1>0, <1>12, <1>13, <2>1, <2>2 DEF Reads, Sampled
<1>15. Slots'
  <2>1. "flows" \in Decodes /\ "flows" \in Busy /\ "flows" \in Stages
    BY DEF Decodes, Busy, Stages
  <2> QED
    BY <1>0, <1>4, <1>11, <1>12, <2>1, SlotsStay
<1> QED
  BY <1>11, <1>14, <1>15, OneMoves

\* With no chunk left to read, every reach has its flow or is not in the object.
LEMMA FinishHourKeeps ==
    ASSUME LookupInv, NEW l \in Lookups, FinishHour(l)
    PROVE  LookupInv'
<1>p. PICK v : v = look[l].pin
  OBVIOUS
<1>t. PICK t : t = look[l].hour
  OBVIOUS
<1>f. PICK old : old = look[l].flows
  OBVIOUS
<1>0. /\ look[l].at = "flows" /\ look[l].todo = {} /\ look[l].at \in Decodes
      /\ v \in 1 .. Len(Layout) /\ Read(l)
  BY <1>p DEF FinishHour, LookupInv, Reads, Decodes, Busy
<1>s. PICK s : s = Layout[v]
  OBVIOUS
<1>1. Range(s) = {s[p] : p \in 1 .. Len(s)} /\ v # 0
  BY <1>0, <1>s, Versions
<1>2. /\ old \in [Reaches[l] -> Flow]
      /\ \A r \in Reaches[l] :
            \/ old[r] = FlowAt(r, t, v)
            \/ old[r] = NoFlow /\ \A p \in 1 .. Len(s) : s[p] # r
  BY <1>0, <1>p, <1>t, <1>f, <1>s DEF Read
<1>3. t > LastRetro /\ t \in Nat /\ LastRetro \in Nat
  BY <1>0, <1>t, HourIsArchived
<1>4. ASSUME NEW r \in Reaches[l] PROVE old[r] = FlowAt(r, t, v)
  <2>1. CASE \A p \in 1 .. Len(s) : s[p] # r
    <3>1. r \notin Range(Layout[v])
      BY <1>1, <1>s, <2>1
    <3>2. FlowAt(r, t, v) = NoFlow
      BY <1>3, <3>1 DEF FlowAt
    <3> QED
      BY <1>2, <3>2
  <2>2. CASE ~\A p \in 1 .. Len(s) : s[p] # r
    BY <1>2, <2>2
  <2> QED
    BY <2>1, <2>2
<1>5. old = [r \in Reaches[l] |-> FlowAt(r, t, v)]
  BY <1>2, <1>4
<1>6. EndHour(l, old) /\ look[l].pin \in 0 .. Len(Layout)
  BY <1>0, <1>p, <1>f, Versions DEF FinishHour
<1>7. old = [r \in Reaches[l] |-> FlowAt(r, look[l].hour, look[l].pin)]
  BY <1>5, <1>p, <1>t
<1> QED
  BY <1>0, <1>6, <1>7, EndHourKeeps

\* A lookup that fails or is late ends.
LEMMA AbandonKeeps ==
    ASSUME LookupInv, NEW l \in Lookups, ObjectChanged(l) \/ ReadFails(l) \/ DeadlineExceeded(l)
    PROVE  LookupInv'
<1>1. look[l].at \in Busy
  BY DEF ObjectChanged, ReadFails, DeadlineExceeded, Reading, Busy
<1>2. PICK outcome \in {"error", "late"} : End(l, outcome)
  BY DEF ObjectChanged, ReadFails, DeadlineExceeded
<1> QED
  BY <1>1, <1>2, EndKeeps

\* A step of a lookup or a replaced object keeps the invariant.
LEMMA LookupStep ==
    ASSUME LookupInv, LookupNext
    PROVE  LookupInv'
<1>1. ASSUME NEW l \in Lookups, Begin(l) PROVE LookupInv'
  BY <1>1, BeginKeeps
<1>2. ASSUME NEW l \in Lookups, Step(l) PROVE LookupInv'
  <2>1. CASE Retrospective(l)
    BY <2>1, RetrospectiveKeeps
  <2>2. CASE Answer(l)
    BY <2>2, AnswerKeeps
  <2>3. CASE AcquireSlot(l)
    BY <2>3, AcquireSlotKeeps
  <2>4. CASE OpenObject(l)
    BY <2>4, OpenObjectKeeps
  <2>5. CASE LockHdf5(l)
    BY <2>5, LockHdf5Keeps
  <2>6. CASE ReadFeatures(l)
    BY <2>6, ReadFeaturesKeeps
  <2>7. ASSUME NEW k \in look[l].todo, ReadFlow(l, k) PROVE LookupInv'
    BY <2>7, ReadFlowKeeps
  <2>8. CASE FinishHour(l)
    BY <2>8, FinishHourKeeps
  <2>9. CASE ObjectChanged(l) \/ DeadlineExceeded(l)
    BY <2>9, AbandonKeeps
  <2> QED
    BY <1>2, <2>1, <2>2, <2>3, <2>4, <2>5, <2>6, <2>7, <2>8, <2>9 DEF Step
<1>3. ASSUME NEW l \in Lookups, ReadFails(l) PROVE LookupInv'
  BY <1>3, AbandonKeeps
<1>4. ASSUME NEW l \in Lookups, DeadlinePasses(l) PROVE LookupInv'
  BY <1>4, DeadlinePassesKeeps
<1>5. ASSUME NEW h \in ArchiveHours, ChangeObject(h) PROVE LookupInv'
  BY <1>5, ChangeObjectKeeps
<1> QED
  BY <1>1, <1>2, <1>3, <1>4, <1>5 DEF LookupNext

-----------------------------------------------------------------------------
(***************************************************************************)
(* The inductive invariant, and the theorems.                              *)
(***************************************************************************)
IInv ==
    /\ surface \in {"map", "streamflow", "workspace"}
    /\ CacheInv
    /\ LookupInv
    /\ WorkspaceInv

\* What is untouched stays right: the manifest cache.
LEMMA CacheRests == CacheInv /\ UNCHANGED cacheVars => CacheInv'
BY DEF CacheInv, CacheTyped, CacheBounded, Serving, cacheVars

\* What is untouched stays right: lookups.
LEMMA LookupRests == LookupInv /\ UNCHANGED lookupVars => LookupInv'
<1> SUFFICES ASSUME LookupInv, UNCHANGED lookupVars PROVE LookupInv'
  OBVIOUS
<1>1. ASSUME NEW l \in Lookups PROVE Reads(l)'
  BY ReadsKept DEF LookupInv, lookupVars
<1>2. Slots'
  BY DEF LookupInv, Slots, lookupVars, Capacity, DecodeSlots
<1> QED
  BY <1>1, <1>2 DEF LookupInv

\* What is untouched stays right: workspaces.
LEMMA WorkspaceRests == WorkspaceInv /\ UNCHANGED workspaceVars => WorkspaceInv'
BY DEF WorkspaceInv, Creating, workspaceVars

\* The three stores and their requests keep what holds of them, whatever order
\* the steps of their threads are taken in.
THEOREM Invariance == Spec => []IInv
<1>1. Init => IInv
  BY CacheStarts, LookupStarts, WorkspaceStarts DEF Init, IInv
<1>2. IInv /\ [Next]_vars => IInv'
  <2> SUFFICES ASSUME IInv, [Next]_vars PROVE IInv'
    OBVIOUS
  <2>1. CASE Map
    BY <2>1, CacheStep, LookupRests, WorkspaceRests DEF Map, IInv
  <2>2. CASE Streamflow
    BY <2>2, LookupStep, CacheRests, WorkspaceRests DEF Streamflow, IInv
  <2>3. CASE Workspace
    BY <2>3, WorkspaceStep, CacheRests, LookupRests DEF Workspace, IInv
  <2>4. CASE UNCHANGED vars
    BY <2>4, CacheRests, LookupRests, WorkspaceRests DEF vars, IInv
  <2> QED
    BY <2>1, <2>2, <2>3, <2>4 DEF Next
<1> QED
  BY <1>1, <1>2, PTL DEF Spec

\* The locks, permits and caches are held as the code gives them out: never more
\* lookups at once than the capacity, never more decoders than slots, never more
\* manifests in the cache than fit.
THEOREM TypeCorrect == Spec => []TypeOK
<1>1. IInv => TypeOK
  <2> SUFFICES ASSUME IInv PROVE TypeOK
    OBVIOUS
  <2>1. /\ surface \in {"map", "streamflow", "workspace"}
        /\ stored \in [Manifests -> Contents \cup {0}]
        /\ Len(cache) <= CacheSize
        /\ \A i, k \in DOMAIN cache : cache[i].key = cache[k].key => i = k
        /\ \A r \in Readers : reader[r].at \in {"idle", "get", "insert", "answered", "failed"}
        /\ publishes \in 0 .. MaxPublishes
    BY DEF IInv, CacheInv, CacheTyped, CacheBounded, RequestRecord, CacheStages
  <2>2. /\ object \in [ArchiveHours -> 0 .. Len(Layout)] /\ indexed \subseteq ArchiveHours
        /\ \A l \in Lookups : look[l].at \in Busy \cup {"idle", "busy", "done", "error", "late"}
        /\ running = {l \in Lookups : look[l].at \in Busy}
        /\ decoding = {l \in Lookups : look[l].at \in Busy \ {"retro", "hour"}}
        /\ hdf5 \in decoding \cup {NoLookup}
        /\ limits \in Limits /\ changes \in 0 .. MaxChanges
        /\ Cardinality(running) <= Capacity /\ Cardinality(decoding) <= DecodeSlots
    BY DEF IInv, LookupInv, Slots, Stages, Decodes
  <2>3. /\ descriptor \in Creators \cup {NoCreator} /\ opened \subseteq Creators
        /\ creator \in [Creators -> {"list", "put", "created", "refused"}]
        /\ others \in BOOLEAN /\ lost \in 0 .. MaxLost
    BY DEF IInv, WorkspaceInv
  <2> QED
    BY <2>1, <2>2, <2>3 DEF TypeOK
<1> QED
  BY <1>1, Invariance, PTL

\* A map request is answered from a manifest that was stored at some time during
\* the request, whatever is inserted late or evicted meanwhile.
THEOREM ServedFromTheRequest == Spec => []ServedWasCurrent
<1>1. IInv => ServedWasCurrent
  BY DEF IInv, CacheInv, Serving, ServedWasCurrent
<1> QED
  BY <1>1, Invariance, PTL

\* An answered lookup has one sample for every hour of its window, in order, and
\* every flow of it is the flow of that reach, at that hour, in one version of the
\* hour's object: for every window, chunk size, layout and number of versions.
THEOREM EveryHourItsSample == Spec => []SamplesAreTheHours
<1>1. IInv => SamplesAreTheHours
  <2> SUFFICES ASSUME IInv, NEW l \in Lookups, look[l].at = "done"
               PROVE  LET s == look[l].samples
                          true_flow(r, x) ==
                              IF x.source = "retrospective"
                              THEN IF r \in RetroReaches THEN <<r, x.time>> ELSE NoFlow
                              ELSE IF \/ x.version = 0 \/ r \notin Range(Layout[x.version])
                                      \/ <<r, x.version>> \in Masked
                                   THEN NoFlow
                                   ELSE <<r, x.version>>
                      IN /\ Len(s) = Span[l][2] - Span[l][1] + 1
                         /\ \A n \in DOMAIN s :
                              /\ s[n].time = Span[l][1] + n - 1
                              /\ s[n].source = IF s[n].time <= LastRetro THEN "retrospective" ELSE "archive"
                              /\ s[n].flows = [r \in Reaches[l] |-> true_flow(r, s[n])]
    BY DEF SamplesAreTheHours
  <2> DEFINE s == look[l].samples
             true_flow(r, x) ==
                 IF x.source = "retrospective"
                 THEN IF r \in RetroReaches THEN <<r, x.time>> ELSE NoFlow
                 ELSE IF \/ x.version = 0 \/ r \notin Range(Layout[x.version])
                         \/ <<r, x.version>> \in Masked
                      THEN NoFlow
                      ELSE <<r, x.version>>
  <2>u. PICK u : u = Span[l][2] + 1
    OBVIOUS
  <2>1. Sampled(l, u)
    BY <2>u DEF IInv, LookupInv, Reads
  <2>3. Span[l][1] \in Nat /\ Span[l][2] \in Nat
    BY LookupAssumption
  <2>2. /\ s \in Seq(Samples(l)) /\ Len(s) = Span[l][2] + 1 - Span[l][1]
        /\ \A n \in 1 .. Len(s) : s[n].time = Span[l][1] + n - 1
    <3>1. s \in Seq(Samples(l))
      BY <2>1 DEF Sampled
    <3>2. Len(s) = Span[l][2] + 1 - Span[l][1]
      <4>1. Len(s) = u - Span[l][1]
        BY <2>1 DEF Sampled
      <4>2. u - Span[l][1] = Span[l][2] + 1 - Span[l][1]
        BY <2>u, <2>3
      <4> QED
        BY <4>1, <4>2
    <3>3. \A n \in 1 .. Len(s) : s[n].time = Span[l][1] + n - 1
      BY <2>1 DEF Sampled
    <3> QED
      BY <3>1, <3>2, <3>3
  <2>4. Len(s) = Span[l][2] - Span[l][1] + 1 /\ DOMAIN s = 1 .. Len(s)
    <3> HIDE DEF s
    <3> QED
      BY <2>2, <2>3, LenProperties
  <2>5. ASSUME NEW n \in DOMAIN s
        PROVE  /\ s[n].source = IF s[n].time <= LastRetro THEN "retrospective" ELSE "archive"
               /\ s[n].flows = [r \in Reaches[l] |-> true_flow(r, s[n])]
    <3>1. s[n] \in Samples(l)
      <4> HIDE DEF s
      <4> QED
        BY <2>2, <2>4
    <3>2. PICK t \in Nat, v \in 0 .. Len(Layout) : s[n] = SampleAt(l, t, v)
      BY <3>1 DEF Samples
    <3>3. PICK x : x = s[n]
      OBVIOUS
    <3>4. /\ x.time = t /\ x.version = v
          /\ x.source = IF t <= LastRetro THEN "retrospective" ELSE "archive"
          /\ x.flows = [r \in Reaches[l] |-> FlowAt(r, t, v)]
      BY <3>2, <3>3 DEF SampleAt
    <3>5. ASSUME NEW r \in Reaches[l] PROVE FlowAt(r, t, v) = true_flow(r, x)
      BY <3>4 DEF FlowAt
    <3> HIDE DEF s, true_flow
    <3> QED
      BY <3>3, <3>4, <3>5
  <2> HIDE DEF s, true_flow
  <2>6. /\ Len(s) = Span[l][2] - Span[l][1] + 1
        /\ \A n \in DOMAIN s :
             /\ s[n].time = Span[l][1] + n - 1
             /\ s[n].source = IF s[n].time <= LastRetro THEN "retrospective" ELSE "archive"
             /\ s[n].flows = [r \in Reaches[l] |-> true_flow(r, s[n])]
    BY <2>2, <2>4, <2>5
  <2> QED
    BY <2>6 DEF s, true_flow
<1> QED
  BY <1>1, Invariance, PTL

\* At most one request is told that it created the workspace, its descriptor is
\* the one that stays, and everybody who opens the workspace gets that one.
THEOREM OneWorkspace == Spec => []OneCreator
<1>1. IInv => OneCreator
  <2> SUFFICES ASSUME IInv PROVE OneCreator
    OBVIOUS
  <2>1. opened \subseteq {descriptor} /\ \A c \in Creators : creator[c] = "created" => descriptor = c
    BY DEF IInv, WorkspaceInv, Creating
  <2>2. IsFiniteSet({descriptor}) /\ Cardinality({descriptor}) = 1
    BY FS_Singleton
  <2>3. Cardinality(opened) <= 1
    BY <2>1, <2>2, FS_Subset
  <2> QED
    BY <2>1, <2>3 DEF OneCreator
<1> QED
  BY <1>1, Invariance, PTL
=============================================================================
