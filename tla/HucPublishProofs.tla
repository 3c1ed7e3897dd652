-------------------------- MODULE HucPublishProofs --------------------------
(***************************************************************************)
(* Proofs about HucPublish, for any preparers and versions, any number of  *)
(* reaches, any page size and any faults. The safety properties follow     *)
(* from one inductive invariant, IInv: while preparers do not overlap, the *)
(* one at work is the last to have started, its cursor says how much of    *)
(* the HUC is gone, and what it uploads is of the version dataset.parquet  *)
(* names.                                                                  *)
(***************************************************************************)
EXTENDS HucPublish, FiniteSetTheorems, FunctionTheorems, SequenceTheorems,
        WellFoundedInduction, TLAPS

\* The preparer at work is the one that started last.
OneAtWork == ~overlapped => \A p \in Preparers : stage[p] \in Working => p = last

\* The listing starts at the first key.
FromTheStart ==
    \A p \in Preparers : stage[p] \in {"head", "check", "put", "build"} => cursor[p] = 0

\* From the end of the checks on the dataset is of the version being prepared.
DatasetKept ==
    ~overlapped =>
        /\ dataset = None => objects["huc"] = None
        /\ \A p \in Preparers :
              /\ stage[p] = "put" => dataset = None
              /\ stage[p] \in {"build", "delete", "upload", "mark"} => dataset = Version[p]

\* What is left of the HUC, by the stage of the preparer that replaces it.
Emptied ==
    Orderly => \A p \in Preparers :
        /\ stage[p] = "delete" => \A i \in 1 .. cursor[p] : objects[KeyOrder[i]] = None
        /\ stage[p] = "upload" => objects = Absent
        /\ stage[p] = "mark" => objects = [Absent EXCEPT !["reaches"] = Version[p]]

\* A reader that nothing was deleted under has the HUC before it.
ReaderSees ==
    Orderly /\ ~reader.disturbed =>
        /\ reader.stage \in Reading => objects["huc"] # None
        /\ reader.stage = "fallback" => objects["reaches"] = None
        /\ reader.found \cup reader.todo = Reach

IInv ==
    /\ HucTypeOK
    /\ OneAtWork /\ FromTheStart /\ DatasetKept /\ Emptied /\ ReaderSees
    /\ MarkedHucIsComplete /\ ReplacementIsWhole /\ FoundHucIsWhole

-----------------------------------------------------------------------------
(* Sets of indices. *)

\* A set of naturals that is not empty has a least element.
LEMMA LeastExists ==
    ASSUME NEW S \in SUBSET Nat, S # {}
    PROVE  \E i \in S : \A k \in S : i <= k
<1> DEFINE Less == {pair \in Nat \X Nat : pair[1] < pair[2]}
<1>1. PICK i \in S : \A k \in S : ~ (<<k, i>> \in Less)
  <2>1. IsWellFoundedOn(Less, Nat)
    BY NatLessThanWellFounded DEF OpToRel
  <2> QED
    BY <2>1, WFMin
<1>2. ASSUME NEW k \in S PROVE i <= k
  <2>1. ~ (<<k, i>> \in Less)
    BY <1>1
  <2>2. <<k, i>> \in Nat \X Nat /\ <<k, i>>[1] = k /\ <<k, i>>[2] = i
    OBVIOUS
  <2>3. ~ (k < i)
    BY <2>1, <2>2
  <2> QED
    BY <2>3
<1> QED
  BY <1>2

\* A bounded one has a greatest element.
LEMMA GreatestExists ==
    ASSUME NEW n \in Nat, NEW S \in SUBSET (1 .. n), S # {}
    PROVE  \E i \in S : \A k \in S : k <= i
<1> DEFINE T == {n - k : k \in S}
<1>1. T \in SUBSET Nat /\ T # {}
  <2>1. \A k \in S : n - k \in Nat
    OBVIOUS
  <2> QED
    BY <2>1
<1>2. PICK least \in T : \A k \in T : least <= k
  BY <1>1, LeastExists
<1>3. PICK i \in S : least = n - i
  OBVIOUS
<1>4. ASSUME NEW k \in S PROVE k <= i
  <2>1. n - k \in T
    OBVIOUS
  <2>2. least <= n - k
    BY <1>2, <2>1
  <2> QED
    BY <1>3, <2>2
<1> QED
  BY <1>4

-----------------------------------------------------------------------------
(* The keys of the HUC. *)

\* The HUC's keys, in S3's order: the marker first, then reaches.parquet and the
\* files of single reaches.
LEMMA KeyFacts ==
    /\ Len(KeyOrder) \in Nat
    /\ DOMAIN KeyOrder = 1 .. Len(KeyOrder)
    /\ 1 \in DOMAIN KeyOrder /\ KeyOrder[1] = "huc"
    /\ Keys = {KeyOrder[i] : i \in 1 .. Len(KeyOrder)}
    /\ Keys = {"huc", "reaches"} \cup Reach
    /\ "huc" \notin Reach /\ "reaches" \notin Reach
<1> DEFINE T == {"huc", "reaches"} \cup Reach
<1> DEFINE first == <<"huc", "reaches">>
<1>1. first \in Seq(T) /\ Len(first) = 2 /\ first[1] = "huc" /\ first[2] = "reaches"
  OBVIOUS
<1>2. Reaches \in Seq(T)
  BY HucAssumption, SeqMonotonic
<1>3. Len(Reaches) \in Nat /\ DOMAIN Reaches = 1 .. Len(Reaches)
  BY <1>2, LenProperties
<1>4. /\ KeyOrder \in Seq(T)
      /\ Len(KeyOrder) = 2 + Len(Reaches)
      /\ \A i \in 1 .. 2 + Len(Reaches) :
            KeyOrder[i] = IF i <= 2 THEN first[i] ELSE Reaches[i - 2]
  <2> HIDE DEF first, T
  <2> QED
    BY <1>1, <1>2, ConcatProperties DEF KeyOrder, first
<1>5. DOMAIN KeyOrder = 1 .. Len(KeyOrder)
  BY <1>4, LenProperties
<1>6. KeyOrder[1] = "huc" /\ KeyOrder[2] = "reaches"
  BY <1>1, <1>3, <1>4
<1>7. Keys = {KeyOrder[i] : i \in 1 .. Len(KeyOrder)}
  BY <1>5 DEF Keys, ToSet
<1>8. ASSUME NEW j \in 1 .. Len(Reaches)
      PROVE  j + 2 \in 1 .. Len(KeyOrder) /\ KeyOrder[j + 2] = Reaches[j]
  BY <1>3, <1>4
<1>9. Reach \subseteq Keys
  BY <1>3, <1>7, <1>8 DEF Reach, ToSet
<1>10. Keys \subseteq T
  BY <1>4, <1>7, ElementOfSeq
<1>11. {"huc", "reaches"} \subseteq Keys
  BY <1>3, <1>4, <1>6, <1>7
<1>12. \A i, j \in 1 .. Len(KeyOrder) : KeyOrder[i] = KeyOrder[j] => i = j
  <2>1. IsFiniteSet(1 .. Len(KeyOrder)) /\ Cardinality(1 .. Len(KeyOrder)) = Len(KeyOrder)
    BY <1>3, <1>4, FS_Interval
  <2>2. KeyOrder \in Surjection(1 .. Len(KeyOrder), Keys)
    BY <1>4, <1>5, <1>7, LenProperties DEF Surjection
  <2>3. KeyOrder \in Injection(1 .. Len(KeyOrder), Keys)
    BY <2>1, <2>2, HucAssumption, FS_SurjSameCardinalityImpliesInj
  <2> QED
    BY <2>3 DEF Injection, IsInjective
<1>13. "huc" \notin Reach /\ "reaches" \notin Reach
  <2>1. Reach = {Reaches[j] : j \in 1 .. Len(Reaches)}
    BY <1>3 DEF Reach, ToSet
  <2>2. 1 \in 1 .. Len(KeyOrder) /\ 2 \in 1 .. Len(KeyOrder)
    BY <1>3, <1>4
  <2>3. ASSUME NEW j \in 1 .. Len(Reaches), Reaches[j] \in {"huc", "reaches"}
        PROVE  FALSE
    <3>1. j + 2 = 1 \/ j + 2 = 2
      BY <1>6, <1>8, <1>12, <2>2, <2>3
    <3> QED
      BY <1>3, <3>1
  <2> QED
    BY <2>1, <2>3
<1>14. Keys = {"huc", "reaches"} \cup Reach
  BY <1>9, <1>10, <1>11
<1>15. Len(KeyOrder) \in Nat /\ 1 \in 1 .. Len(KeyOrder)
  BY <1>3, <1>4
<1> QED
  BY <1>5, <1>6, <1>7, <1>13, <1>14, <1>15

\* What the next page of the listing holds: nothing between the cursor and its last key is
\* left out, it is empty only at the end, and the marker is in the first page.
LEMMA PageFacts ==
    ASSUME HucTypeOK, NEW p \in Preparers
    PROVE  /\ Page(p) \subseteq 1 .. Len(KeyOrder)
           /\ Page(p) = {} =>
                 \A i \in 1 .. Len(KeyOrder) : i > cursor[p] => objects[KeyOrder[i]] = None
           /\ Page(p) # {} =>
                 /\ HighestOf(Page(p)) \in Page(p)
                 /\ HighestOf(Page(p)) > cursor[p]
                 /\ \A i \in 1 .. HighestOf(Page(p)) :
                       i > cursor[p] /\ objects[KeyOrder[i]] # None => i \in Page(p)
           /\ cursor[p] = 0 /\ objects["huc"] # None => 1 \in Page(p)
<1> DEFINE listed == {i \in 1 .. Len(KeyOrder) : i > cursor[p] /\ objects[KeyOrder[i]] # None}
<1> DEFINE before(i) == {k \in listed : k < i}
<1>1. Page(p) = {i \in listed : Cardinality(before(i)) < PageSize}
  BY KeyFacts DEF Page
<1>2. Len(KeyOrder) \in Nat /\ listed \subseteq 1 .. Len(KeyOrder) /\ cursor[p] \in Nat
  BY KeyFacts DEF HucTypeOK
<1>3. IsFiniteSet(listed)
  <2> HIDE DEF listed
  <2>1. IsFiniteSet(1 .. Len(KeyOrder))
    BY <1>2, FS_Interval
  <2> QED
    BY <1>2, <2>1, FS_Subset
<1>4. \A i : IsFiniteSet(before(i)) /\ Cardinality(before(i)) \in Nat
  BY <1>3, FS_Subset, FS_CardinalityType
<1>5. ASSUME NEW i \in listed, before(i) = {} PROVE i \in Page(p)
  <2>1. Cardinality(before(i)) = 0
    BY <1>5, FS_EmptySet
  <2> QED
    BY <1>1, <2>1, HucAssumption
<1>6. ASSUME listed # {} PROVE Page(p) # {}
  <2>1. PICK i \in listed : \A k \in listed : i <= k
    <3>1. listed \in SUBSET Nat
      BY <1>2
    <3> HIDE DEF listed
    <3> QED
      BY <1>6, <3>1, LeastExists
  <2>2. before(i) = {}
    BY <1>2, <2>1
  <2> QED
    BY <1>5, <2>2
<1>7. ASSUME NEW h \in Page(p), NEW i \in listed, i <= h PROVE i \in Page(p)
  <2>1. before(i) \subseteq before(h)
    BY <1>1, <1>2, <1>7
  <2>2. Cardinality(before(i)) <= Cardinality(before(h))
    BY <1>4, <2>1, FS_Subset
  <2>3. Cardinality(before(h)) < PageSize
    BY <1>1
  <2>4. Cardinality(before(i)) < PageSize
    <3> HIDE DEF before
    <3> QED
      BY <1>4, <2>2, <2>3, HucAssumption
  <2> QED
    BY <1>1, <2>4
<1>8. ASSUME Page(p) # {} PROVE HighestOf(Page(p)) \in Page(p)
  <2>1. \E i \in Page(p) : \A k \in Page(p) : k <= i
    BY <1>1, <1>2, <1>8, GreatestExists
  <2> QED
    BY <2>1 DEF HighestOf
<1>9. ASSUME cursor[p] = 0, objects["huc"] # None PROVE 1 \in Page(p)
  <2>1. 1 \in listed
    BY <1>2, <1>9, KeyFacts
  <2>2. before(1) = {}
    BY <1>2
  <2> QED
    BY <1>5, <2>1, <2>2
<1>10. Page(p) \subseteq listed
  BY <1>1
<1>11. ASSUME Page(p) = {}, NEW i \in 1 .. Len(KeyOrder), i > cursor[p]
       PROVE  objects[KeyOrder[i]] = None
  BY <1>6, <1>11
<1>12. ASSUME Page(p) # {}
       PROVE  /\ HighestOf(Page(p)) > cursor[p]
              /\ \A i \in 1 .. HighestOf(Page(p)) :
                    i > cursor[p] /\ objects[KeyOrder[i]] # None => i \in Page(p)
  <2> DEFINE h == HighestOf(Page(p))
  <2>1. h \in listed /\ h \in Page(p)
    BY <1>8, <1>10, <1>12
  <2>2. ASSUME NEW i \in 1 .. h, i > cursor[p], objects[KeyOrder[i]] # None
        PROVE  i \in Page(p)
    <3> HIDE DEF h
    <3>1. i \in listed /\ i <= h
      BY <1>2, <2>1, <2>2
    <3> QED
      BY <1>7, <2>1, <3>1
  <2>3. h > cursor[p]
    <3> HIDE DEF h
    <3> QED
      BY <2>1
  <2> QED
    BY <2>2, <2>3
<1> HIDE DEF listed
<1> QED
  BY <1>2, <1>8, <1>9, <1>10, <1>11, <1>12

-----------------------------------------------------------------------------
(* Type correctness. *)

\* Every step keeps the types.
LEMMA TypeStep == HucTypeOK /\ [HucNext]_hucVars => HucTypeOK'
<1> SUFFICES ASSUME HucTypeOK, [HucNext]_hucVars PROVE HucTypeOK'
  OBVIOUS
<1> USE DEF HucTypeOK, Working, Reading, Go
<1>0. \A p \in Preparers : Version[p] \in Versions
  BY DEF Versions
<1>1. ASSUME NEW p \in Preparers, StartPreparer(p) PROVE HucTypeOK'
  BY <1>1, KeyFacts DEF StartPreparer
<1>2. ASSUME NEW p \in Preparers, HeadDataset(p) PROVE HucTypeOK'
  BY <1>2 DEF HeadDataset
<1>3. ASSUME NEW p \in Preparers, CheckDataset(p) PROVE HucTypeOK'
  BY <1>3 DEF CheckDataset
<1>4. ASSUME NEW p \in Preparers, PutDataset(p) PROVE HucTypeOK'
  BY <1>0, <1>4 DEF PutDataset, HucFault
<1>5. ASSUME NEW p \in Preparers, Build(p) PROVE HucTypeOK'
  BY <1>5 DEF Build
<1>6. ASSUME NEW p \in Preparers, DeletePage(p) PROVE HucTypeOK'
  <2>1. objects' \in [Keys -> Versions \cup {None}]
    BY <1>6 DEF DeletePage
  <2>2. HighestOf(Page(p)) \in 0 .. Len(KeyOrder)
    <3>1. Page(p) # {} /\ Page(p) \subseteq 1 .. Len(KeyOrder)
      BY <1>6, PageFacts DEF DeletePage
    <3>2. HighestOf(Page(p)) \in Page(p)
      BY <3>1, PageFacts
    <3> QED
      BY <3>1, <3>2, KeyFacts
  <2>3. cursor' \in [Preparers -> 0 .. Len(KeyOrder)]
    BY <1>6, <2>2 DEF DeletePage
  <2>4. hucFaults' \subseteq HucFaults /\ stage' \in [Preparers -> {"waiting", "done", "failed"} \cup Working]
    BY <1>6 DEF DeletePage, HucFault
  <2>5. UNCHANGED <<dataset, last, overlapped>> /\ reader' = Disturbed
    BY <1>6 DEF DeletePage
  <2> QED
    BY <2>1, <2>3, <2>4, <2>5 DEF Disturbed
<1>7. ASSUME NEW p \in Preparers, EndOfListing(p) PROVE HucTypeOK'
  BY <1>7 DEF EndOfListing
<1>8. ASSUME NEW p \in Preparers, UploadReaches(p) PROVE HucTypeOK'
  <2>1. objects' \in {objects, [objects EXCEPT !["reaches"] = Version[p]]}
        /\ \/ Go(p, "mark") \/ Go(p, "failed")
        /\ UNCHANGED <<dataset, cursor, reader, last, overlapped>> /\ hucFaults' \subseteq HucFaults
    BY <1>8 DEF UploadReaches, Upload, HucFault
  <2>2. objects' \in [Keys -> Versions \cup {None}]
    BY <1>0, <2>1
  <2> QED
    BY <2>1, <2>2
<1>9. ASSUME NEW p \in Preparers, UploadMarker(p) PROVE HucTypeOK'
  <2>1. objects' \in {objects, [objects EXCEPT !["huc"] = Version[p]]}
        /\ \/ Go(p, "done") \/ Go(p, "failed")
        /\ UNCHANGED <<dataset, cursor, reader, last, overlapped>> /\ hucFaults' \subseteq HucFaults
    BY <1>9 DEF UploadMarker, Upload, HucFault
  <2>2. objects' \in [Keys -> Versions \cup {None}]
    BY <1>0, <2>1
  <2> QED
    BY <2>1, <2>2
<1>10. ASSUME NEW p \in Preparers, CrashPreparer(p) PROVE HucTypeOK'
  BY <1>10 DEF CrashPreparer, HucFault
<1>11. ASSUME Plan PROVE HucTypeOK'
  <2>1. ASSUME ReadDataset \/ ReadHuc \/ HeadReaches PROVE HucTypeOK'
    BY <2>1 DEF ReadDataset, ReadHuc, HeadReaches, Read
  <2>2. ASSUME ReadFooter PROVE HucTypeOK'
    BY <2>2, KeyFacts DEF ReadFooter, Read
  <2>3. ASSUME ReadRows PROVE HucTypeOK'
    <3>1. reader' \in {[reader EXCEPT !.stage = "planned", !.found = Reach, !.todo = {}],
                       [reader EXCEPT !.stage = "failed"], [reader EXCEPT !.stage = "stuck"]}
      BY <2>3 DEF ReadRows, Read
    <3>2. UNCHANGED <<dataset, objects, stage, cursor, last, overlapped, hucFaults>>
      BY <2>3 DEF ReadRows, Read
    <3> QED
      BY <3>1, <3>2
  <2>4. ASSUME ReadReach PROVE HucTypeOK'
    <3>1. PICK r \in reader.todo :
             reader' = [reader EXCEPT
                          !.todo = @ \ {r},
                          !.found = IF objects[r] = None THEN @ ELSE @ \cup {r},
                          !.stage = IF reader.todo = {r} THEN "planned" ELSE "fallback"]
      BY <2>4 DEF ReadReach, Read
    <3>2. (IF objects[r] = None THEN reader.found ELSE reader.found \cup {r}) \in SUBSET Reach
      OBVIOUS
    <3>3. (IF reader.todo = {r} THEN "planned" ELSE "fallback") \in {"planned", "fallback"}
      OBVIOUS
    <3>4. UNCHANGED <<dataset, objects, stage, cursor, last, overlapped, hucFaults>>
      BY <2>4 DEF ReadReach, Read
    <3> QED
      BY <3>1, <3>2, <3>3, <3>4
  <2> QED
    BY <1>11, <2>1, <2>2, <2>3, <2>4 DEF Plan
<1>12. CASE UNCHANGED hucVars
  BY <1>12 DEF hucVars
<1> QED
  BY <1>1, <1>2, <1>3, <1>4, <1>5, <1>6, <1>7, <1>8, <1>9, <1>10, <1>11, <1>12
  DEF HucNext, Prepare

-----------------------------------------------------------------------------
(* The invariant is inductive. *)

\* The invariant holds of the HUCs that are stored at first.
LEMMA Initially == HucInit => IInv
<1> SUFFICES ASSUME HucInit PROVE IInv
  OBVIOUS
<1>1. HucTypeOK
  <2>1. Absent \in [Keys -> Versions \cup {None}]
    BY DEF Absent
  <2>2. dataset # None => {Prepared(dataset), Older(dataset)} \subseteq [Keys -> Versions \cup {None}]
    BY DEF HucInit, Prepared, Older
  <2>3. objects \in [Keys -> Versions \cup {None}]
    BY <2>1, <2>2 DEF HucInit
  <2>4. 0 \in 0 .. Len(KeyOrder)
    BY KeyFacts
  <2> QED
    BY <2>3, <2>4 DEF HucInit, HucTypeOK
<1>2. OneAtWork /\ FromTheStart
  BY DEF HucInit, OneAtWork, FromTheStart, Working
<1>3. dataset = None => objects["huc"] = None
  BY KeyFacts DEF HucInit, Absent
<1>4. DatasetKept /\ Emptied
  BY <1>3 DEF HucInit, DatasetKept, Emptied
<1>5. ReaderSees /\ ReplacementIsWhole /\ FoundHucIsWhole
  BY DEF HucInit, ReaderSees, Reading, ReplacementIsWhole, FoundHucIsWhole
<1>6. MarkedHucIsComplete
  <2>1. CASE objects = Absent
    BY <2>1, KeyFacts DEF Absent, MarkedHucIsComplete
  <2>2. CASE objects = Prepared(dataset)
    BY <2>2, KeyFacts DEF Prepared, MarkedHucIsComplete
  <2>3. CASE objects = Older(dataset)
    BY <2>3, KeyFacts DEF Older, MarkedHucIsComplete
  <2> QED
    BY <2>1, <2>2, <2>3 DEF HucInit
<1> QED
  BY <1>1, <1>2, <1>4, <1>5, <1>6 DEF IInv

\* Overlaps and undeleted keys are not forgotten.
LEMMA OrderlyBefore ==
    HucTypeOK /\ [HucNext]_hucVars => (overlapped => overlapped') /\ hucFaults \subseteq hucFaults'
<1> SUFFICES ASSUME HucTypeOK, [HucNext]_hucVars
             PROVE  (overlapped => overlapped') /\ hucFaults \subseteq hucFaults'
  OBVIOUS
<1> USE DEF HucTypeOK
<1>1. ASSUME NEW p \in Preparers, StartPreparer(p) \/ HeadDataset(p) \/ CheckDataset(p) \/ Build(p)
      PROVE  (overlapped => overlapped') /\ hucFaults \subseteq hucFaults'
  <2>1. CASE StartPreparer(p)
    BY <2>1 DEF StartPreparer
  <2>2. CASE HeadDataset(p) \/ CheckDataset(p) \/ Build(p)
    BY <2>2 DEF HeadDataset, CheckDataset, Build
  <2> QED
    BY <1>1, <2>1, <2>2
<1>2. ASSUME NEW p \in Preparers, DeletePage(p) \/ EndOfListing(p)
      PROVE  (overlapped => overlapped') /\ hucFaults \subseteq hucFaults'
  BY <1>2 DEF DeletePage, EndOfListing, HucFault
<1>3. ASSUME NEW p \in Preparers, PutDataset(p) \/ UploadReaches(p) \/ UploadMarker(p) \/ CrashPreparer(p)
      PROVE  (overlapped => overlapped') /\ hucFaults \subseteq hucFaults'
  BY <1>3 DEF PutDataset, UploadReaches, UploadMarker, Upload, CrashPreparer, HucFault
<1>4. ASSUME Plan PROVE UNCHANGED <<overlapped, hucFaults>>
  BY <1>4 DEF Plan, ReadDataset, ReadHuc, HeadReaches, ReadFooter, ReadRows, ReadReach, Read
<1>5. CASE UNCHANGED hucVars
  BY <1>5 DEF hucVars
<1> QED
  BY <1>1, <1>2, <1>3, <1>4, <1>5 DEF HucNext, Prepare

\* The reader writes nothing; what it sees is in the state of the store.
LEMMA ReadStep == IInv /\ Plan /\ HucTypeOK' => IInv'
<1> SUFFICES ASSUME IInv, Plan, HucTypeOK' PROVE IInv'
  OBVIOUS
<1>1. UNCHANGED <<dataset, objects, stage, cursor, last, overlapped, hucFaults>>
  BY DEF Plan, ReadDataset, ReadHuc, HeadReaches, ReadFooter, ReadRows, ReadReach, Read
<1>2. (OneAtWork /\ FromTheStart /\ DatasetKept /\ Emptied)'
  BY <1>1 DEF IInv, OneAtWork, FromTheStart, DatasetKept, Emptied, Orderly
<1>3. (MarkedHucIsComplete /\ ReplacementIsWhole)'
  BY <1>1 DEF IInv, MarkedHucIsComplete, ReplacementIsWhole, Orderly
<1>4. (ReaderSees /\ FoundHucIsWhole)'
  <2> USE DEF IInv, HucTypeOK, ReaderSees, FoundHucIsWhole, Reading, Orderly
  <2>1. ASSUME ReadDataset PROVE (ReaderSees /\ FoundHucIsWhole)'
    BY <1>1, <2>1 DEF ReadDataset, Read
  <2>2. ASSUME ReadHuc PROVE (ReaderSees /\ FoundHucIsWhole)'
    BY <1>1, <2>2 DEF ReadHuc, Read
  <2>3. ASSUME HeadReaches PROVE (ReaderSees /\ FoundHucIsWhole)'
    <3>1. reader.stage = "reaches" /\ reader.stage \notin {"fallback", "planned"}
      BY <2>3 DEF HeadReaches
    <3>2. CASE objects["reaches"] = None
      <4>1. reader' = [reader EXCEPT !.stage = "fallback"]
        BY <2>3, <3>2 DEF HeadReaches, Read
      <4> QED
        BY <1>1, <3>1, <3>2, <4>1
    <3>3. CASE objects["reaches"] # None
      <4>1. reader' = [reader EXCEPT !.stage = "footer"]
        BY <2>3, <3>3 DEF HeadReaches, Read
      <4> QED
        BY <1>1, <3>1, <3>3, <4>1
    <3> QED
      BY <3>2, <3>3
  <2>4. ASSUME ReadFooter PROVE (ReaderSees /\ FoundHucIsWhole)'
    BY <1>1, <2>4 DEF ReadFooter, Read
  <2>5. ASSUME ReadRows PROVE (ReaderSees /\ FoundHucIsWhole)'
    <3>1. reader' \in {[reader EXCEPT !.stage = "planned", !.found = Reach, !.todo = {}],
                       [reader EXCEPT !.stage = "failed"], [reader EXCEPT !.stage = "stuck"]}
      BY <2>5 DEF ReadRows, Read
    <3>2. reader.stage = "rows"
      BY <2>5 DEF ReadRows
    <3>3. CASE reader' = [reader EXCEPT !.stage = "planned", !.found = Reach, !.todo = {}]
      BY <1>1, <3>2, <3>3
    <3>4. CASE reader' \in {[reader EXCEPT !.stage = "failed"], [reader EXCEPT !.stage = "stuck"]}
      BY <1>1, <3>2, <3>4
    <3> QED
      BY <3>1, <3>3, <3>4
  <2>6. ASSUME ReadReach PROVE (ReaderSees /\ FoundHucIsWhole)'
    <3>1. PICK r \in reader.todo :
             reader' = [reader EXCEPT
                          !.todo = @ \ {r},
                          !.found = IF objects[r] = None THEN @ ELSE @ \cup {r},
                          !.stage = IF reader.todo = {r} THEN "planned" ELSE "fallback"]
      BY <2>6 DEF ReadReach, Read
    <3>2. reader.stage = "fallback"
      BY <2>6 DEF ReadReach
    <3>3. ASSUME Orderly', ~reader'.disturbed PROVE objects[r] # None
      BY <1>1, <3>1, <3>2, <3>3 DEF MarkedHucIsComplete
    <3>4. ASSUME Orderly', ~reader'.disturbed
          PROVE  reader'.found \cup reader'.todo = Reach /\ objects["huc"] # None
                 /\ objects["reaches"] = None
      BY <1>1, <3>1, <3>2, <3>3, <3>4
    <3>5. reader'.stage = "planned" => reader'.todo = {}
      BY <3>1
    <3> QED
      BY <1>1, <3>4, <3>5
  <2> QED
    BY <2>1, <2>2, <2>3, <2>4, <2>5, <2>6 DEF Plan
<1> QED
  BY <1>2, <1>3, <1>4 DEF IInv

\* The steps of a preparer that leave the HUC's objects alone.
LEMMA QuietStep ==
    ASSUME IInv, HucTypeOK', NEW p \in Preparers,
           \/ StartPreparer(p) \/ HeadDataset(p) \/ CheckDataset(p) \/ PutDataset(p) \/ Build(p)
           \/ EndOfListing(p) \/ CrashPreparer(p)
    PROVE  IInv'
<1>1. UNCHANGED <<objects, reader>>
  BY DEF StartPreparer, HeadDataset, CheckDataset, PutDataset, Build, EndOfListing, CrashPreparer
<1>2. Orderly' => Orderly
  <2>1. [HucNext]_hucVars
    BY DEF HucNext, Prepare
  <2> QED
    BY <2>1, OrderlyBefore DEF IInv, Orderly
<1>3. (ReaderSees /\ FoundHucIsWhole)'
  BY <1>1, <1>2 DEF IInv, ReaderSees, FoundHucIsWhole
<1> DEFINE Kept == (OneAtWork /\ FromTheStart /\ DatasetKept)'
<1>4. Kept
  <2> USE DEF IInv, HucTypeOK, OneAtWork, FromTheStart, DatasetKept, Working, Go
  <2>1. CASE StartPreparer(p)
    BY <1>1, <2>1 DEF StartPreparer
  <2>2. CASE HeadDataset(p)
    BY <1>1, <2>2 DEF HeadDataset
  <2>3. CASE CheckDataset(p)
    BY <1>1, <2>3 DEF CheckDataset
  <2>4. CASE PutDataset(p)
    <3>1. /\ stage[p] = "put"
          /\ \/ dataset' = Version[p] /\ stage' = [stage EXCEPT ![p] = "build"]
             \/ stage' = [stage EXCEPT ![p] = "failed"]
          /\ UNCHANGED <<objects, cursor, reader, last, overlapped>>
      BY <2>4 DEF PutDataset
    <3>2. ~overlapped => objects["huc"] = None
      BY <3>1
    <3>3. ASSUME ~overlapped, NEW q \in Preparers, q # p PROVE stage'[q] \notin Working
      BY <3>1, <3>3
    <3>4. ~overlapped /\ stage'[p] = "build" => dataset' = Version[p]
      BY <3>1
    <3> QED
      BY <3>1, <3>2, <3>3, <3>4
  <2>5. CASE Build(p)
    BY <1>1, <2>5 DEF Build
  <2>6. CASE EndOfListing(p)
    BY <1>1, <2>6 DEF EndOfListing
  <2>7. CASE CrashPreparer(p)
    BY <1>1, <2>7 DEF CrashPreparer
  <2> QED
    BY <2>1, <2>2, <2>3, <2>4, <2>5, <2>6, <2>7
<1>5. (Emptied /\ ReplacementIsWhole)'
  <2> USE DEF IInv, HucTypeOK, OneAtWork, FromTheStart, Emptied, ReplacementIsWhole, Orderly, Working, Go
  <2>1. CASE StartPreparer(p)
    BY <1>1, <1>2, <2>1 DEF StartPreparer
  <2>2. CASE HeadDataset(p)
    BY <1>1, <1>2, <2>2 DEF HeadDataset
  <2>3. CASE CheckDataset(p)
    BY <1>1, <1>2, <2>3 DEF CheckDataset
  <2>4. CASE PutDataset(p)
    BY <1>1, <1>2, <2>4 DEF PutDataset, HucFault
  <2>5. CASE Build(p)
    BY <1>1, <1>2, <2>5 DEF Build
  <2>6. CASE EndOfListing(p)
    <3>1. Orderly => objects = Absent
      <4>1. ASSUME Orderly, NEW k \in Keys PROVE objects[k] = None
        <5>1. PICK i \in 1 .. Len(KeyOrder) : k = KeyOrder[i]
          BY KeyFacts
        <5>2. stage[p] = "delete" /\ Page(p) = {}
          BY <2>6 DEF EndOfListing
        <5>3. i > cursor[p] => objects[KeyOrder[i]] = None
          BY <5>2, PageFacts
        <5>4. i <= cursor[p] => objects[KeyOrder[i]] = None
          BY <4>1, <5>2
        <5> QED
          BY <5>1, <5>3, <5>4, KeyFacts
      <4> QED
        BY <4>1 DEF Absent
    <3> QED
      BY <1>1, <1>2, <2>6, <3>1 DEF EndOfListing
  <2>7. CASE CrashPreparer(p)
    BY <1>1, <1>2, <2>7 DEF CrashPreparer
  <2> QED
    BY <2>1, <2>2, <2>3, <2>4, <2>5, <2>6, <2>7
<1>6. MarkedHucIsComplete'
  <2>1. CASE PutDataset(p)
    <3>1. ~overlapped => dataset = None /\ objects["huc"] = None
      BY <2>1 DEF PutDataset, IInv, DatasetKept
    <3> QED
      BY <1>1, <1>2, <3>1 DEF MarkedHucIsComplete, Orderly
  <2>2. CASE UNCHANGED dataset
    BY <1>1, <1>2, <2>2 DEF IInv, MarkedHucIsComplete
  <2> QED
    BY <2>1, <2>2 DEF StartPreparer, HeadDataset, CheckDataset, Build, EndOfListing, CrashPreparer
<1> QED
  BY <1>3, <1>4, <1>5, <1>6 DEF IInv

\* The first page takes the marker, so what a preparer leaves behind has none until its
\* own upload of it.
LEMMA DeleteStep ==
    ASSUME IInv, HucTypeOK', NEW p \in Preparers, DeletePage(p)
    PROVE  IInv'
<1>1. PICK failed \in SUBSET Page(p) :
        /\ objects' = [k \in Keys |-> IF k \in {KeyOrder[i] : i \in Page(p) \ failed}
                                          THEN None ELSE objects[k]]
        /\ \/ /\ failed = {}
              /\ cursor' = [cursor EXCEPT ![p] = HighestOf(Page(p))]
              /\ UNCHANGED <<stage, hucFaults>>
           \/ /\ failed # {}
              /\ HucFault("keyError")
              /\ cursor' = [cursor EXCEPT ![p] = HighestOf(Page(p))]
              /\ UNCHANGED stage
           \/ /\ failed \in {{}, Page(p)}
              /\ HucFault("storeError")
              /\ Go(p, "failed")
              /\ UNCHANGED cursor
  BY DEF DeletePage
<1>2. /\ stage[p] = "delete" /\ Page(p) # {}
      /\ reader' = Disturbed
      /\ UNCHANGED <<dataset, last, overlapped>>
  BY DEF DeletePage
<1>3. Orderly' => Orderly
  <2>1. [HucNext]_hucVars
    BY DEF HucNext, Prepare
  <2> QED
    BY <2>1, OrderlyBefore DEF IInv, Orderly
<1>4. Orderly' => failed = {} \/ (failed = Page(p) /\ stage' = [stage EXCEPT ![p] = "failed"])
  BY <1>1 DEF Orderly, HucFault, Go
<1>5. \/ stage' = stage
      \/ stage' = [stage EXCEPT ![p] = "failed"] /\ cursor' = cursor
  BY <1>1 DEF Go
<1>6. \A q \in Preparers : q # p => stage'[q] = stage[q] /\ cursor'[q] = cursor[q]
  BY <1>1, <1>5 DEF IInv, HucTypeOK
<1>7. stage'[p] \in {"delete", "failed"}
  BY <1>2, <1>5 DEF IInv, HucTypeOK
<1>8. \A k \in Keys : objects'[k] = None \/ objects'[k] = objects[k]
  BY <1>1
<1>9. (OneAtWork /\ FromTheStart)'
  BY <1>2, <1>6, <1>7 DEF IInv, OneAtWork, FromTheStart, Working
<1>10. DatasetKept'
  BY <1>2, <1>6, <1>7, <1>8, KeyFacts DEF IInv, DatasetKept
<1>11. Orderly' => \A q \in Preparers : q # p => stage'[q] \notin Working
  BY <1>2, <1>3, <1>6 DEF IInv, OneAtWork, Working, Orderly
<1>12. ASSUME Orderly', stage'[p] = "delete"
       PROVE  \A i \in 1 .. cursor'[p] : objects'[KeyOrder[i]] = None
  <2>1. stage' = stage /\ failed = {} /\ cursor' = [cursor EXCEPT ![p] = HighestOf(Page(p))]
    BY <1>1, <1>12 DEF Orderly, HucFault, Go, IInv, HucTypeOK
  <2>2. cursor'[p] = HighestOf(Page(p)) /\ HighestOf(Page(p)) \in Page(p)
    BY <1>2, <2>1, PageFacts DEF IInv, HucTypeOK
  <2>3. Page(p) \subseteq 1 .. Len(KeyOrder) /\ cursor[p] \in Nat /\ Len(KeyOrder) \in Nat
    BY PageFacts, KeyFacts DEF IInv, HucTypeOK
  <2>4. ASSUME NEW i \in 1 .. cursor'[p] PROVE objects'[KeyOrder[i]] = None
    <3>1. i \in 1 .. Len(KeyOrder) /\ i \in 1 .. HighestOf(Page(p))
      BY <2>2, <2>3
    <3>2. KeyOrder[i] \in Keys
      BY <3>1, KeyFacts
    <3>3. CASE i <= cursor[p]
      <4>1. objects[KeyOrder[i]] = None
        BY <1>2, <1>3, <1>12, <2>3, <3>1, <3>3 DEF IInv, Emptied
      <4> QED
        BY <1>8, <3>2, <4>1
    <3>4. CASE i > cursor[p] /\ objects[KeyOrder[i]] # None
      <4>1. i \in Page(p) \ failed
        BY <1>2, <2>1, <3>1, <3>4, PageFacts DEF IInv
      <4> QED
        BY <1>1, <3>2, <4>1
    <3>5. CASE objects[KeyOrder[i]] = None
      BY <1>8, <3>2, <3>5
    <3> QED
      BY <2>3, <3>1, <3>3, <3>4, <3>5
  <2> QED
    BY <2>4
<1>13. (Emptied /\ ReplacementIsWhole)'
  <2>1. Emptied'
    BY <1>7, <1>11, <1>12 DEF Emptied, Working
  <2>2. ASSUME Orderly', NEW q \in Preparers, stage'[q] = "done", last' = q PROVE FALSE
    BY <1>2, <1>3, <1>6, <1>7, <2>2 DEF IInv, OneAtWork, Working, Orderly
  <2> QED
    BY <2>1, <2>2 DEF ReplacementIsWhole
<1>14. MarkedHucIsComplete'
  <2> SUFFICES ASSUME Orderly', objects'["huc"] # None
               PROVE  objects' = objects
    BY <1>2, <1>3 DEF IInv, MarkedHucIsComplete
  <2>1. objects["huc"] # None
    BY <1>8, KeyFacts
  <2>2. cursor[p] = 0
    <3>1. cursor[p] \in Nat
      BY KeyFacts DEF IInv, HucTypeOK
    <3>2. \A i \in 1 .. cursor[p] : objects[KeyOrder[i]] = None
      BY <1>2, <1>3 DEF IInv, Emptied
    <3>3. ~ (1 \in 1 .. cursor[p])
      BY <2>1, <3>2, KeyFacts
    <3> QED
      BY <3>1, <3>3
  <2>3. 1 \in Page(p)
    BY <2>1, <2>2, PageFacts DEF IInv
  <2>4. failed # {}
    BY <1>1, <2>3, KeyFacts
  <2>5. failed = Page(p)
    BY <1>4, <2>4
  <2>6. objects' = [k \in Keys |-> objects[k]]
    BY <1>1, <2>5
  <2> QED
    BY <2>6 DEF IInv, HucTypeOK
<1>15. (ReaderSees /\ FoundHucIsWhole)'
  <2>1. reader'.stage = reader.stage /\ reader'.todo = reader.todo /\ reader'.found = reader.found
        /\ (~reader'.disturbed => ~reader.disturbed /\ reader.stage \notin Reading)
    BY <1>2 DEF Disturbed, IInv, HucTypeOK
  <2> QED
    BY <1>3, <2>1 DEF IInv, ReaderSees, FoundHucIsWhole, Reading
<1> QED
  BY <1>9, <1>10, <1>13, <1>14, <1>15 DEF IInv

\* What is uploaded has the version of the dataset, the marker last.
LEMMA UploadStep ==
    ASSUME IInv, HucTypeOK', NEW p \in Preparers, UploadReaches(p) \/ UploadMarker(p)
    PROVE  IInv'
<1>1. PICK key \in {"reaches", "huc"} :
        /\ IF key = "reaches" THEN UploadReaches(p) ELSE UploadMarker(p)
        /\ stage[p] = IF key = "reaches" THEN "upload" ELSE "mark"
        /\ objects' \in {objects, [objects EXCEPT ![key] = Version[p]]}
        /\ \/ stage' = [stage EXCEPT ![p] = "failed"]
           \/ /\ stage' = [stage EXCEPT ![p] = IF key = "reaches" THEN "mark" ELSE "done"]
              /\ objects' = [objects EXCEPT ![key] = Version[p]]
        /\ UNCHANGED <<dataset, cursor, reader, last, overlapped>>
  <2>1. CASE UploadReaches(p)
    BY <2>1 DEF UploadReaches, Upload, Go
  <2>2. CASE UploadMarker(p)
    BY <2>2 DEF UploadMarker, Upload, Go
  <2> QED
    BY <2>1, <2>2
<1>2. Orderly' => Orderly
  <2>1. [HucNext]_hucVars
    BY DEF HucNext, Prepare
  <2> QED
    BY <2>1, OrderlyBefore DEF IInv, Orderly
<1>3. \A q \in Preparers : q # p => stage'[q] = stage[q]
  BY <1>1 DEF IInv, HucTypeOK
<1>4. stage[p] \in Working /\ stage'[p] \in {"failed", "mark", "done"}
  BY <1>1 DEF IInv, HucTypeOK, Working
<1>5. (OneAtWork /\ FromTheStart)'
  BY <1>1, <1>3, <1>4 DEF IInv, OneAtWork, FromTheStart, Working
<1>6. Version[p] # None /\ (~overlapped => dataset = Version[p])
  BY <1>1, HucAssumption DEF IInv, DatasetKept, Versions
<1>7. DatasetKept'
  BY <1>1, <1>3, <1>4, <1>6 DEF IInv, DatasetKept
<1>8. Orderly => last = p /\ \A q \in Preparers : q # p => stage'[q] \notin Working
  BY <1>1, <1>3, <1>4 DEF IInv, OneAtWork, Orderly
<1>9. CASE key = "reaches"
  <2>1. Orderly => objects = Absent
    BY <1>1, <1>9 DEF IInv, Emptied
  <2>2. stage'[p] \in {"failed", "mark"}
        /\ (stage'[p] = "mark" => objects' = [objects EXCEPT !["reaches"] = Version[p]])
    BY <1>1, <1>9 DEF IInv, HucTypeOK
  <2>3. Orderly => objects["huc"] = None /\ objects'["huc"] = None
    BY <1>1, <1>9, <2>1, KeyFacts DEF Absent
  <2>4. Emptied'
    BY <1>2, <1>8, <2>1, <2>2 DEF Emptied, Working
  <2>5. ReplacementIsWhole'
    BY <1>1, <1>2, <1>8, <2>2 DEF ReplacementIsWhole
  <2>6. MarkedHucIsComplete'
    BY <1>2, <2>3 DEF MarkedHucIsComplete
  <2>7. (ReaderSees /\ FoundHucIsWhole)'
    BY <1>1, <1>2, <2>3 DEF IInv, ReaderSees, FoundHucIsWhole, Reading
  <2> QED
    BY <1>5, <1>7, <2>4, <2>5, <2>6, <2>7 DEF IInv
<1>10. CASE key = "huc"
  <2>1. Orderly => objects = [Absent EXCEPT !["reaches"] = Version[p]]
    BY <1>1, <1>10 DEF IInv, Emptied
  <2>2. stage'[p] \in {"failed", "done"}
        /\ (stage'[p] = "done" => objects' = [objects EXCEPT !["huc"] = Version[p]])
    BY <1>1, <1>10 DEF IInv, HucTypeOK
  <2>3. Orderly => objects["huc"] = None /\ objects["reaches"] = Version[p]
    BY <2>1, KeyFacts DEF Absent
  <2>4. Emptied'
    BY <1>2, <1>8, <2>2 DEF Emptied, Working
  <2>5. ASSUME Orderly, stage'[p] = "done" PROVE objects' = Prepared(Version[p])
    BY <2>1, <2>2, <2>5, KeyFacts DEF Absent, Prepared
  <2>6. ReplacementIsWhole'
    BY <1>1, <1>2, <1>8, <2>5 DEF ReplacementIsWhole
  <2>7. MarkedHucIsComplete'
    <3>1. Orderly => objects'["reaches"] = Version[p] /\ objects'["huc"] \in {None, Version[p]}
      BY <1>1, <1>10, <2>3, KeyFacts DEF IInv, HucTypeOK
    <3> QED
      BY <1>1, <1>2, <1>6, <3>1 DEF MarkedHucIsComplete, Orderly
  <2>8. (ReaderSees /\ FoundHucIsWhole)'
    BY <1>1, <1>2, <2>3 DEF IInv, ReaderSees, FoundHucIsWhole, Reading
  <2> QED
    BY <1>5, <1>7, <2>4, <2>6, <2>7, <2>8 DEF IInv
<1> QED
  BY <1>9, <1>10

\* The invariant survives every step.
LEMMA Step == IInv /\ [HucNext]_hucVars => IInv'
<1> SUFFICES ASSUME IInv, [HucNext]_hucVars PROVE IInv'
  OBVIOUS
<1>1. HucTypeOK'
  BY TypeStep DEF IInv
<1>2. CASE UNCHANGED hucVars
  BY <1>1, <1>2 DEF hucVars, IInv, OneAtWork, FromTheStart, DatasetKept, Emptied, ReaderSees,
        MarkedHucIsComplete, ReplacementIsWhole, FoundHucIsWhole, Orderly
<1>3. CASE Plan
  BY <1>1, <1>3, ReadStep
<1>4. ASSUME NEW p \in Preparers, Prepare(p) \/ CrashPreparer(p) PROVE IInv'
  BY <1>1, <1>4, QuietStep, DeleteStep, UploadStep DEF Prepare
<1> QED
  BY <1>2, <1>3, <1>4 DEF HucNext

-----------------------------------------------------------------------------
(* The theorems. *)

\* Every step of a preparer, a crash or the planning job keeps the invariant.
THEOREM Invariance == HucSpec => []IInv
BY Initially, Step, PTL DEF HucSpec

\* The store, the preparers and the reader stay within their types.
THEOREM TypeCorrect == HucSpec => []HucTypeOK
BY Invariance, PTL DEF IInv

\* A HUC with its marker is whole and of the version of the dataset, for any number of
\* reaches and any page size, through crashes and failed requests.
THEOREM MarkerMeansComplete == HucSpec => []MarkedHucIsComplete
BY Invariance, PTL DEF IInv

\* A preparation that ended well left nothing of an older version or layout behind.
THEOREM NothingOldIsLeft == HucSpec => []ReplacementIsWhole
BY Invariance, PTL DEF IInv

\* A job leaves no reach out of a HUC that it found and that nobody was replacing.
THEOREM PlanIsWhole == HucSpec => []FoundHucIsWhole
BY Invariance, PTL DEF IInv
=============================================================================
