------------------------- MODULE StreamPublishProofs -------------------------
(***************************************************************************)
(* Proofs about StreamPublish, for any attempts, scenarios, tiles, faults  *)
(* and fault bound. The properties follow from one inductive invariant,    *)
(* IInv: while no message was redelivered to a second live worker, the one *)
(* attempt alive has the tiles it says it has written, still finds those   *)
(* of the manifests it may have to restore, and shows exactly the          *)
(* manifests its phase implies.                                            *)
(***************************************************************************)
EXTENDS StreamPublish, TLAPS

OneLive == OneAtATime => \A a, b \in Attempts : phase[a] \in Live /\ phase[b] \in Live => a = b

\* An attempt that has not begun has done nothing, and nobody shows or remembers its manifest.
Fresh(a) ==
    phase[a] = "idle" =>
        /\ published[a] = {}
        /\ \A s \in Scenarios :
              /\ written[a][s] = {} /\ previous[a][s] = NoAttempt
              /\ manifest[s] # a
              /\ \A b \in Attempts : previous[b][s] # a

\* Where an attempt is in its loops.
Loops(a) ==
    /\ phase[a] \in {"publish", "upload", "clean", "finish"} => written[a] = plan[a]
    /\ phase[a] = "load" =>
          published[a] = {} /\ \A s \in left[a] : previous[a][s] = NoAttempt
    /\ phase[a] = "restore" => at[a] \in left[a]

\* What the live attempt wrote is there, and so is what it may have to restore.
TilesKept(a) ==
    \A s \in Scenarios :
        /\ phase[a] \in Live => written[a][s] \subseteq tiles[s]
        /\ phase[a] \in {"load", "run", "publish", "upload", "rollBack", "restore"} =>
              (previous[a][s] # NoAttempt => plan[previous[a][s]][s] \subseteq tiles[s])

\* From the end of the loop over the manifests on, every scenario shows the attempt.
Shown(a) ==
    /\ phase[a] = "publish" => \A s \in Scenarios \ left[a] : manifest[s] = a
    /\ phase[a] \in {"upload", "clean", "finish"} => \A s \in Scenarios : manifest[s] = a
    /\ phase[a] \in {"clean", "finish"} => files = Files

\* The attempt shows what it published and what it has yet to roll back, no more and no less.
Restorable(a) ==
    \A s \in Scenarios :
        /\ phase[a] = "load" /\ s \notin left[a] => manifest[s] = previous[a][s]
        /\ phase[a] \in {"run", "publish", "upload"} =>
              manifest[s] = IF s \in published[a] THEN a ELSE previous[a][s]
        /\ phase[a] \in {"rollBack", "restore"} =>
              manifest[s] = IF s \in left[a] THEN a ELSE previous[a][s]

\* Each manifest was put by a request that was answered, and no rollback was cut short.
Unambiguous == OneAtATime /\ faults \cap {"ambiguousStore", "rollbackError"} = {}

IInv ==
    /\ PublishTypeOK
    /\ OneLive
    /\ \A a \in Attempts :
          /\ Fresh(a) /\ Loops(a)
          /\ OneAtATime => TilesKept(a) /\ Shown(a)
          /\ Unambiguous => Restorable(a)
    /\ PublishedTilesExist

-----------------------------------------------------------------------------
(* What the helpers of the actions do. *)

\* GoTo changes the phase of one attempt.
LEMMA GoToFacts ==
    ASSUME PublishTypeOK, NEW a \in Attempts, NEW step \in Phases, GoTo(a, step)
    PROVE  /\ phase' \in [Attempts -> Phases]
           /\ phase'[a] = step
           /\ \A b \in Attempts : b # a => phase'[b] = phase[b]
BY DEF PublishTypeOK, GoTo

\* A scenario that was visited is not left, and after the last comes the next phase.
LEMMA VisitedFacts ==
    ASSUME PublishTypeOK, NEW a \in Attempts, NEW s \in Scenarios, NEW step \in Phases,
           Visited(a, s, step)
    PROVE  /\ phase' \in [Attempts -> Phases] /\ left' \in [Attempts -> SUBSET Scenarios]
           /\ left'[a] = left[a] \ {s}
           /\ phase'[a] = IF left[a] = {s} THEN step ELSE phase[a]
           /\ \A b \in Attempts : b # a => phase'[b] = phase[b] /\ left'[b] = left[b]
<1>1. left' \in [Attempts -> SUBSET Scenarios] /\ left'[a] = left[a] \ {s}
      /\ \A b \in Attempts : b # a => left'[b] = left[b]
  BY DEF PublishTypeOK, Visited
<1>2. (IF left[a] = {s} THEN step ELSE phase[a]) \in Phases
  BY DEF PublishTypeOK
<1>3. GoTo(a, IF left[a] = {s} THEN step ELSE phase[a])
  BY DEF Visited
<1> QED
  BY <1>1, <1>2, <1>3, GoToFacts

\* A rollback has the published manifests before it, and ends where there are none.
LEMMA RollBackFacts ==
    ASSUME PublishTypeOK, NEW a \in Attempts, RollBackFrom(a)
    PROVE  /\ phase' \in [Attempts -> Phases] /\ left' \in [Attempts -> SUBSET Scenarios]
           /\ left'[a] = published[a]
           /\ phase'[a] = IF published[a] = {} THEN "rolledBack" ELSE "rollBack"
           /\ \A b \in Attempts : b # a => phase'[b] = phase[b] /\ left'[b] = left[b]
BY DEF PublishTypeOK, RollBackFrom, GoTo, Phases, Live

-----------------------------------------------------------------------------
(* Type correctness. *)

\* Every step keeps the types.
LEMMA TypeStep == PublishTypeOK /\ [PublishNext]_publishVars => PublishTypeOK'
<1> SUFFICES ASSUME PublishTypeOK, [PublishNext]_publishVars PROVE PublishTypeOK'
  OBVIOUS
<1> USE DEF PublishTypeOK, NoFault, store, job
<1>0. Live \cup {"idle", "succeeded", "failed", "rolledBack", "crashed"} \subseteq Phases
  BY DEF Phases
<1> USE <1>0 DEF Live
<1>1. ASSUME NEW a \in Attempts, Start(a) PROVE PublishTypeOK'
  <2>1. plan' \in [Attempts -> [Scenarios -> SUBSET Tiles]]
    BY <1>1 DEF Start
  <2>2. phase' \in [Attempts -> Phases] /\ left' \in [Attempts -> SUBSET Scenarios]
    <3>1. GoTo(a, "load") /\ left' = [left EXCEPT ![a] = Scenarios]
      BY <1>1 DEF Start
    <3> QED
      BY <3>1, GoToFacts
  <2>3. faults' \subseteq Faults /\ UNCHANGED <<store, overwrite, written, previous, published, at>>
    BY <1>1 DEF Start, Fault
  <2> QED
    BY <2>1, <2>2, <2>3
<1>2. ASSUME NEW a \in Attempts, NEW s \in Scenarios, LoadManifest(a, s) PROVE PublishTypeOK'
  <2>1. previous' \in [Attempts -> [Scenarios -> Attempts \cup {NoAttempt}]]
    <3>1. previous' \in {previous, [previous EXCEPT ![a][s] = manifest[s]]}
      BY <1>2 DEF LoadManifest
    <3>2. [previous[a] EXCEPT ![s] = manifest[s]] \in [Scenarios -> Attempts \cup {NoAttempt}]
      OBVIOUS
    <3>3. [previous EXCEPT ![a] = [previous[a] EXCEPT ![s] = manifest[s]]]
             \in [Attempts -> [Scenarios -> Attempts \cup {NoAttempt}]]
      BY <3>2
    <3> QED
      BY <3>1, <3>3
  <2>2. phase' \in [Attempts -> Phases] /\ left' \in [Attempts -> SUBSET Scenarios]
    <3>1. Visited(a, s, "run") \/ (GoTo(a, "failed") /\ left' = left)
      BY <1>2 DEF LoadManifest
    <3> QED
      BY <3>1, VisitedFacts, GoToFacts
  <2>3. faults' \subseteq Faults /\ UNCHANGED <<store, job, written, published, at>>
    BY <1>2 DEF LoadManifest, Fault
  <2> QED
    BY <2>1, <2>2, <2>3
<1>3. ASSUME NEW a \in Attempts, NEW s \in Scenarios, NEW t \in Tiles, WriteTile(a, s, t) PROVE PublishTypeOK'
  BY <1>3 DEF WriteTile
<1>4. ASSUME NEW a \in Attempts, EndRun(a) PROVE PublishTypeOK'
  <2>1. phase' \in [Attempts -> Phases] /\ left' \in [Attempts -> SUBSET Scenarios]
    <3>1. RollBackFrom(a) \/ (left' = [left EXCEPT ![a] = Scenarios] /\ GoTo(a, "publish"))
      BY <1>4 DEF EndRun
    <3>2. CASE RollBackFrom(a)
      BY <3>2, RollBackFacts
    <3>3. CASE left' = [left EXCEPT ![a] = Scenarios] /\ GoTo(a, "publish")
      BY <3>3, GoToFacts
    <3> QED
      BY <3>1, <3>2, <3>3
  <2>2. UNCHANGED <<store, job, written, previous, published, at, faults>>
    BY <1>4 DEF EndRun
  <2> QED
    BY <2>1, <2>2
<1>5. ASSUME NEW a \in Attempts, NEW s \in Scenarios, PublishManifest(a, s) PROVE PublishTypeOK'
  <2>1. /\ manifest' \in [Scenarios -> Attempts \cup {NoAttempt}]
        /\ published' \in [Attempts -> SUBSET Scenarios]
    <3>1. /\ manifest' \in {manifest, [manifest EXCEPT ![s] = a]}
          /\ published' \in {published, [published EXCEPT ![a] = @ \cup {s}]}
      BY <1>5 DEF PublishManifest
    <3>2. [manifest EXCEPT ![s] = a] \in [Scenarios -> Attempts \cup {NoAttempt}]
      OBVIOUS
    <3>3. [published EXCEPT ![a] = @ \cup {s}] \in [Attempts -> SUBSET Scenarios]
      OBVIOUS
    <3> QED
      BY <3>1, <3>2, <3>3
  <2>2. phase' \in [Attempts -> Phases] /\ left' \in [Attempts -> SUBSET Scenarios]
    <3>1. Visited(a, s, "upload") \/ RollBackFrom(a)
      BY <1>5 DEF PublishManifest
    <3> QED
      BY <3>1, VisitedFacts, RollBackFacts
  <2>3. faults' \subseteq Faults /\ UNCHANGED <<tiles, files, job, written, previous, at>>
    BY <1>5 DEF PublishManifest, Fault
  <2> QED
    BY <2>1, <2>2, <2>3
<1>6. ASSUME NEW a \in Attempts, UploadFiles(a) PROVE PublishTypeOK'
  <2>1. files' \subseteq Files
    BY <1>6 DEF UploadFiles, Files
  <2>2. phase' \in [Attempts -> Phases] /\ left' \in [Attempts -> SUBSET Scenarios]
    <3>1. \/ RollBackFrom(a)
          \/ /\ left' = [left EXCEPT ![a] = {s \in Scenarios : previous[a][s] # NoAttempt}]
             /\ GoTo(a, "finish") \/ GoTo(a, "clean")
      BY <1>6 DEF UploadFiles
    <3>2. CASE RollBackFrom(a)
      BY <3>2, RollBackFacts
    <3>3. CASE /\ left' = [left EXCEPT ![a] = {s \in Scenarios : previous[a][s] # NoAttempt}]
               /\ GoTo(a, "finish") \/ GoTo(a, "clean")
      BY <3>3, GoToFacts
    <3> QED
      BY <3>1, <3>2, <3>3
  <2>3. faults' \subseteq Faults /\ UNCHANGED <<manifest, tiles, job, written, previous, published, at>>
    BY <1>6 DEF UploadFiles, Fault
  <2> QED
    BY <2>1, <2>2, <2>3
<1>7. ASSUME NEW a \in Attempts, NEW s \in Scenarios, RollBackRead(a, s) PROVE PublishTypeOK'
  <2>1. phase' \in [Attempts -> Phases] /\ left' \in [Attempts -> SUBSET Scenarios]
        /\ at' \in [Attempts -> Scenarios \cup {NoScenario}]
    <3>1. \/ Visited(a, s, "rolledBack") /\ at' = at
          \/ GoTo(a, "restore") /\ left' = left /\ at' = [at EXCEPT ![a] = s]
      BY <1>7 DEF RollBackRead
    <3>2. CASE Visited(a, s, "rolledBack") /\ at' = at
      BY <3>2, VisitedFacts
    <3>3. CASE GoTo(a, "restore") /\ left' = left /\ at' = [at EXCEPT ![a] = s]
      BY <3>3, GoToFacts
    <3> QED
      BY <3>1, <3>2, <3>3
  <2>2. faults' \subseteq Faults /\ UNCHANGED <<store, job, written, previous, published>>
    BY <1>7 DEF RollBackRead, Fault
  <2> QED
    BY <2>1, <2>2
<1>8. ASSUME NEW a \in Attempts, RollBackWrite(a) PROVE PublishTypeOK'
  <2>1. manifest' \in [Scenarios -> Attempts \cup {NoAttempt}]
    <3>1. CASE manifest' = manifest
      BY <3>1
    <3>2. CASE manifest' = [manifest EXCEPT ![at[a]] = previous[a][at[a]]]
      <4>1. \A s \in Scenarios : s = at[a] => previous[a][at[a]] \in Attempts \cup {NoAttempt}
        OBVIOUS
      <4>2. at[a] \in Scenarios \/ manifest' = manifest
        BY <3>2
      <4> QED
        BY <3>2, <4>1, <4>2
    <3> QED
      BY <1>8, <3>1, <3>2 DEF RollBackWrite
  <2>2. phase' \in [Attempts -> Phases] /\ left' \in [Attempts -> SUBSET Scenarios]
        /\ at' \in [Attempts -> Scenarios \cup {NoScenario}]
    <3>1. /\ GoTo(a, "rolledBack") \/ GoTo(a, "rollBack")
          /\ left' = [left EXCEPT ![a] = @ \ {at[a]}]
          /\ at' = [at EXCEPT ![a] = NoScenario]
      BY <1>8 DEF RollBackWrite
    <3> QED
      BY <3>1, GoToFacts
  <2>3. faults' \subseteq Faults /\ UNCHANGED <<tiles, files, job, written, previous, published>>
    BY <1>8 DEF RollBackWrite, Fault
  <2> QED
    BY <2>1, <2>2, <2>3
<1>9. ASSUME NEW a \in Attempts, NEW s \in Scenarios, CleanTiles(a, s) PROVE PublishTypeOK'
  <2>1. tiles' \in [Scenarios -> SUBSET Tiles]
    <3>1. \E gone : tiles' = [tiles EXCEPT ![s] = @ \ gone]
      BY <1>9 DEF CleanTiles
    <3> QED
      BY <3>1
  <2>2. phase' \in [Attempts -> Phases] /\ left' \in [Attempts -> SUBSET Scenarios]
    <3>1. Visited(a, s, "finish")
      BY <1>9 DEF CleanTiles
    <3> QED
      BY <3>1, VisitedFacts
  <2>3. faults' \subseteq Faults /\ UNCHANGED <<manifest, files, job, written, previous, published, at>>
    BY <1>9 DEF CleanTiles, Fault
  <2> QED
    BY <2>1, <2>2, <2>3
<1>10. ASSUME NEW a \in Attempts, Finish(a) \/ Crash(a) PROVE PublishTypeOK'
  <2>1. GoTo(a, "succeeded") \/ GoTo(a, "failed") \/ GoTo(a, "crashed")
    BY <1>10 DEF Finish, Crash
  <2>2. phase' \in [Attempts -> Phases]
    BY <2>1, GoToFacts
  <2>3. faults' \subseteq Faults /\ UNCHANGED <<store, job, written, previous, published, left, at>>
    BY <1>10 DEF Finish, Crash, Fault
  <2> QED
    BY <2>2, <2>3
<1>11. CASE UNCHANGED publishVars
  BY <1>11 DEF publishVars, attempts
<1> QED
  BY <1>1, <1>2, <1>3, <1>4, <1>5, <1>6, <1>7, <1>8, <1>9, <1>10, <1>11 DEF PublishNext, Step

-----------------------------------------------------------------------------
(* The invariant is inductive. *)

\* What attempt a does to the attempts it shares the prefix with: nothing. What is left to
\* prove of a step is what it does to a itself and to the published manifests.
LEMMA Frame ==
    ASSUME IInv, PublishTypeOK', NEW a \in Attempts,
           \A b \in Attempts : b # a =>
               /\ phase'[b] = phase[b] /\ left'[b] = left[b] /\ at'[b] = at[b]
               /\ plan'[b] = plan[b] /\ written'[b] = written[b]
               /\ previous'[b] = previous[b] /\ published'[b] = published[b],
           faults \subseteq faults',
           phase[a] \in Live \/ (OneAtATime' => \A b \in Attempts : phase[b] \notin Live),
           phase'[a] # "idle",
           \A b \in Attempts : phase[b] = "idle" /\ b # a =>
               \A s \in Scenarios : manifest'[s] # b /\ previous'[a][s] # b,
           Loops(a)',
           OneAtATime' => TilesKept(a)' /\ Shown(a)',
           Unambiguous' => Restorable(a)',
           PublishedTilesExist'
    PROVE  IInv'
<1>1. (OneAtATime' => OneAtATime) /\ (Unambiguous' => Unambiguous)
  BY DEF OneAtATime, Unambiguous
<1>2. ASSUME OneAtATime', NEW b \in Attempts, b # a PROVE phase'[b] \notin Live
  BY <1>1, <1>2 DEF IInv, OneLive
<1>3. OneLive'
  BY <1>2 DEF OneLive
<1>4. ASSUME NEW b \in Attempts, b # a
      PROVE  /\ Fresh(b)' /\ Loops(b)'
             /\ OneAtATime' => TilesKept(b)' /\ Shown(b)'
             /\ Unambiguous' => Restorable(b)'
  <2>1. Fresh(b) /\ Loops(b)
    BY DEF IInv
  <2>2. Fresh(b)'
    BY <1>4, <2>1 DEF Fresh
  <2>3. Loops(b)'
    BY <1>4, <2>1 DEF Loops
  <2>4. OneAtATime' => TilesKept(b)' /\ Shown(b)'
    BY <1>2, <1>4 DEF TilesKept, Shown, Live
  <2>5. Unambiguous' => Restorable(b)'
    BY <1>2, <1>4 DEF Restorable, Live, Unambiguous
  <2> QED
    BY <2>2, <2>3, <2>4, <2>5
<1>5. Fresh(a)'
  BY DEF Fresh
<1> QED
  BY <1>3, <1>4, <1>5 DEF IInv

\* The invariant holds before the first attempt.
LEMMA Initially == PublishInit => IInv
<1> SUFFICES ASSUME PublishInit PROVE IInv
  OBVIOUS
<1>1. PublishTypeOK
  BY DEF PublishInit, PublishTypeOK, Phases
<1>2. \A a \in Attempts : phase[a] = "idle"
  BY DEF PublishInit
<1>3. OneLive
  BY <1>2 DEF OneLive, Live
<1>4. ASSUME NEW a \in Attempts
      PROVE  Fresh(a) /\ Loops(a) /\ TilesKept(a) /\ Shown(a) /\ Restorable(a)
  <2>1. Fresh(a)
    BY PublishAssumption DEF PublishInit, Fresh
  <2> QED
    BY <1>2, <2>1 DEF Loops, TilesKept, Shown, Restorable, Live
<1>5. PublishedTilesExist
  BY DEF PublishInit, PublishedTilesExist
<1> QED
  BY <1>1, <1>3, <1>4, <1>5 DEF IInv

\* An attempt starts with every scenario left and nothing written.
LEMMA StartStep ==
    ASSUME IInv, PublishTypeOK', NEW a \in Attempts, Start(a)
    PROVE  IInv'
<1>1. /\ phase[a] = "idle"
      /\ OneAtATime' => \A b \in Attempts : phase[b] \notin Live
      /\ faults \subseteq faults'
  BY DEF Start, Fault, NoFault, OneAtATime
<1>2. /\ phase'[a] = "load" /\ left'[a] = Scenarios
      /\ \A b \in Attempts : b # a =>
            phase'[b] = phase[b] /\ left'[b] = left[b] /\ plan'[b] = plan[b]
      /\ UNCHANGED <<manifest, tiles, files, written, previous, published, at>>
  <2>1. GoTo(a, "load") /\ left' = [left EXCEPT ![a] = Scenarios]
    BY DEF Start
  <2>2. \E p : plan' = [plan EXCEPT ![a] = p]
    BY DEF Start
  <2> QED
    BY <2>1, <2>2, GoToFacts DEF IInv, PublishTypeOK, Phases, Live, Start, store
<1>3. Fresh(a) /\ \A b \in Attempts : Fresh(b)
  BY DEF IInv
<1>4. Loops(a)'
  BY <1>1, <1>2, <1>3 DEF Loops, Fresh
<1>5. TilesKept(a)' /\ Shown(a)' /\ Restorable(a)'
  BY <1>1, <1>2, <1>3 DEF TilesKept, Shown, Restorable, Fresh
<1>6. PublishedTilesExist'
  <2>1. OneAtATime' => OneAtATime
    BY <1>1 DEF OneAtATime
  <2> QED
    BY <1>1, <1>2, <1>3, <2>1 DEF IInv, PublishTypeOK, PublishedTilesExist, Fresh
<1> QED
  BY <1>1, <1>2, <1>3, <1>4, <1>5, <1>6, Frame DEF Fresh

\* An attempt remembers the manifest that it finds.
LEMMA LoadStep ==
    ASSUME IInv, PublishTypeOK', NEW a \in Attempts, NEW s \in Scenarios, LoadManifest(a, s)
    PROVE  IInv'
<1>1. /\ phase[a] = "load" /\ s \in left[a]
      /\ UNCHANGED <<manifest, tiles, files, plan, written, published, at>>
  BY DEF LoadManifest, store, job
<1>2. faults \subseteq faults'
  BY DEF LoadManifest, Fault, NoFault
<1>3. \/ /\ Visited(a, s, "run")
         /\ \/ previous' = [previous EXCEPT ![a][s] = manifest[s]]
            \/ previous' = previous /\ manifest[s] = NoAttempt
      \/ GoTo(a, "failed") /\ UNCHANGED <<left, previous>>
  BY DEF LoadManifest
<1>4. Loops(a) /\ \A b \in Attempts : Fresh(b)
  BY DEF IInv
<1>5. (OneAtATime' => OneAtATime) /\ (Unambiguous' => Unambiguous)
  BY <1>2 DEF OneAtATime, Unambiguous
<1>6. PublishedTilesExist'
  BY <1>1, <1>5 DEF IInv, PublishedTilesExist
<1>7. CASE GoTo(a, "failed") /\ UNCHANGED <<left, previous>>
  <2>1. phase'[a] = "failed" /\ \A b \in Attempts : b # a => phase'[b] = phase[b]
    BY <1>7, GoToFacts DEF IInv, Phases
  <2>2. Loops(a)' /\ TilesKept(a)' /\ Shown(a)' /\ Restorable(a)'
    BY <2>1 DEF Loops, TilesKept, Shown, Restorable, Live
  <2> QED
    BY <1>1, <1>2, <1>4, <1>6, <1>7, <2>1, <2>2, Frame DEF Fresh, Live
<1>8. CASE /\ Visited(a, s, "run")
           /\ \/ previous' = [previous EXCEPT ![a][s] = manifest[s]]
              \/ previous' = previous /\ manifest[s] = NoAttempt
  <2>1. /\ left'[a] = left[a] \ {s}
        /\ phase'[a] = IF left[a] = {s} THEN "run" ELSE "load"
        /\ \A b \in Attempts : b # a => phase'[b] = phase[b] /\ left'[b] = left[b]
    BY <1>1, <1>8, VisitedFacts DEF IInv, Phases, Live
  <2>2. /\ previous'[a][s] = manifest[s]
        /\ \A r \in Scenarios : r # s => previous'[a][r] = previous[a][r]
        /\ \A b \in Attempts : b # a => previous'[b] = previous[b]
    <3>1. previous[a][s] = NoAttempt
      BY <1>1, <1>4 DEF Loops
    <3> QED
      BY <1>8, <3>1 DEF IInv, PublishTypeOK
  <2>3. Loops(a)'
    BY <1>1, <1>4, <2>1, <2>2 DEF Loops, IInv, PublishTypeOK
  <2>4. OneAtATime' => TilesKept(a)'
    BY <1>1, <1>5, <2>1, <2>2 DEF IInv, TilesKept, PublishedTilesExist, Live
  <2>5. Shown(a)'
    BY <2>1 DEF Shown
  <2>6. Unambiguous' => Restorable(a)'
    BY <1>1, <1>4, <1>5, <2>1, <2>2 DEF IInv, Restorable, Loops
  <2>7. \A b \in Attempts : phase[b] = "idle" /\ b # a =>
            \A r \in Scenarios : manifest'[r] # b /\ previous'[a][r] # b
    BY <1>1, <1>4, <2>2 DEF Fresh
  <2> QED
    BY <1>1, <1>2, <1>6, <2>1, <2>2, <2>3, <2>4, <2>5, <2>6, <2>7, Frame DEF Live
<1> QED
  BY <1>3, <1>7, <1>8

\* A tile that is written is a new one, so no published manifest loses one.
LEMMA WriteStep ==
    ASSUME IInv, PublishTypeOK', NEW a \in Attempts, NEW s \in Scenarios, NEW t \in Tiles,
           WriteTile(a, s, t)
    PROVE  IInv'
<1>1. /\ phase[a] = "run"
      /\ UNCHANGED <<manifest, files, phase, plan, previous, published, left, at, faults>>
  BY DEF WriteTile, NoFault, job
<1>2. /\ tiles'[s] = tiles[s] \cup {t}
      /\ \A r \in Scenarios : r # s => tiles'[r] = tiles[r]
      /\ written'[a][s] = written[a][s] \cup {t}
      /\ \A r \in Scenarios : r # s => written'[a][r] = written[a][r]
      /\ \A b \in Attempts : b # a => written'[b] = written[b]
  BY DEF WriteTile, IInv, PublishTypeOK
<1>3. PublishedTilesExist'
  BY <1>1, <1>2 DEF IInv, PublishedTilesExist, OneAtATime
<1>4. Loops(a)'
  BY <1>1 DEF Loops
<1>5. OneAtATime' => TilesKept(a)' /\ Shown(a)'
  BY <1>1, <1>2 DEF IInv, TilesKept, Shown, OneAtATime, Live
<1>6. Unambiguous' => Restorable(a)'
  BY <1>1 DEF IInv, Restorable, Unambiguous, OneAtATime
<1>7. \A b \in Attempts : Fresh(b)
  BY DEF IInv
<1> QED
  BY <1>1, <1>2, <1>3, <1>4, <1>5, <1>6, <1>7, Frame DEF Fresh, Live

\* A rollback starts with what the attempt published.
LEMMA RollBackStarts ==
    ASSUME IInv, PublishTypeOK', NEW a \in Attempts, phase[a] \in {"run", "publish", "upload"},
           RollBackFrom(a), UNCHANGED <<tiles, plan, written, previous, published, at>>,
           faults \subseteq faults',
           Unambiguous' => manifest' = manifest,
           \A r \in Scenarios : manifest'[r] \in {manifest[r], a},
           PublishedTilesExist'
    PROVE  IInv'
<1>1. /\ left'[a] = published[a]
      /\ phase'[a] = IF published[a] = {} THEN "rolledBack" ELSE "rollBack"
      /\ \A b \in Attempts : b # a => phase'[b] = phase[b] /\ left'[b] = left[b]
  BY RollBackFacts DEF IInv
<1>2. (OneAtATime' => OneAtATime) /\ (Unambiguous' => Unambiguous)
  BY DEF OneAtATime, Unambiguous
<1>3. Loops(a)' /\ Shown(a)'
  BY <1>1 DEF Loops, Shown
<1>4. OneAtATime' => TilesKept(a)'
  BY <1>1, <1>2 DEF IInv, TilesKept, Live
<1>5. Unambiguous' => Restorable(a)'
  BY <1>1, <1>2 DEF IInv, Restorable
<1>6. \A b \in Attempts : Fresh(b)
  BY DEF IInv
<1>7. \A b \in Attempts : phase[b] = "idle" /\ b # a =>
          \A r \in Scenarios : manifest'[r] # b /\ previous'[a][r] # b
  BY <1>6 DEF Fresh
<1> QED
  BY <1>1, <1>3, <1>4, <1>5, <1>7, Frame DEF Live

\* A run that ends publishes, or rolls back when it has failed.
LEMMA EndRunStep ==
    ASSUME IInv, PublishTypeOK', NEW a \in Attempts, EndRun(a)
    PROVE  IInv'
<1>1. /\ phase[a] = "run"
      /\ UNCHANGED <<manifest, tiles, files, plan, written, previous, published, at, faults>>
  BY DEF EndRun, NoFault, store, job
<1>2. PublishedTilesExist'
  BY <1>1 DEF IInv, PublishedTilesExist, OneAtATime
<1>3. CASE RollBackFrom(a)
  BY <1>1, <1>2, <1>3, RollBackStarts
<1>4. CASE written[a] = plan[a] /\ left' = [left EXCEPT ![a] = Scenarios] /\ GoTo(a, "publish")
  <2>1. /\ phase'[a] = "publish" /\ left'[a] = Scenarios
        /\ \A b \in Attempts : b # a => phase'[b] = phase[b] /\ left'[b] = left[b]
    BY <1>4, GoToFacts DEF IInv, PublishTypeOK, Phases, Live
  <2>2. Loops(a)' /\ Shown(a)'
    BY <1>1, <1>4, <2>1 DEF Loops, Shown
  <2>3. OneAtATime' => TilesKept(a)'
    BY <1>1, <2>1 DEF IInv, TilesKept, OneAtATime, Live
  <2>4. Unambiguous' => Restorable(a)'
    BY <1>1, <2>1 DEF IInv, Restorable, Unambiguous, OneAtATime
  <2>5. \A b \in Attempts : Fresh(b)
    BY DEF IInv
  <2> QED
    BY <1>1, <1>2, <2>1, <2>2, <2>3, <2>4, <2>5, Frame DEF Fresh, Live
<1> QED
  BY <1>3, <1>4 DEF EndRun

\* A manifest is put when all its tiles are there.
LEMMA PublishStep ==
    ASSUME IInv, PublishTypeOK', NEW a \in Attempts, NEW s \in Scenarios, PublishManifest(a, s)
    PROVE  IInv'
<1>1. /\ phase[a] = "publish" /\ s \in left[a]
      /\ UNCHANGED <<tiles, files, plan, written, previous, at>>
  BY DEF PublishManifest, job
<1>2. faults \subseteq faults'
  BY DEF PublishManifest, Fault, NoFault
<1>3. (OneAtATime' => OneAtATime) /\ (Unambiguous' => Unambiguous)
  BY <1>2 DEF OneAtATime, Unambiguous
<1>4. manifest' \in {manifest, [manifest EXCEPT ![s] = a]}
  BY DEF PublishManifest
<1>5. /\ manifest'[s] \in {manifest[s], a}
      /\ \A r \in Scenarios : r # s => manifest'[r] = manifest[r]
  BY <1>4 DEF IInv, PublishTypeOK
<1>6. OneAtATime => \A r \in Scenarios : plan[a][r] \subseteq tiles[r]
  BY <1>1 DEF IInv, TilesKept, Loops, Live
<1>7. PublishedTilesExist'
  <2> SUFFICES ASSUME OneAtATime', NEW r \in Scenarios, manifest'[r] # NoAttempt
               PROVE  plan[manifest'[r]][r] \subseteq tiles[r]
    BY <1>1 DEF PublishedTilesExist
  <2>1. manifest'[r] = a \/ manifest'[r] = manifest[r]
    BY <1>5
  <2>2. CASE manifest'[r] = a
    BY <1>3, <1>6, <2>2
  <2>3. CASE manifest'[r] = manifest[r]
    BY <1>3, <2>3 DEF IInv, PublishedTilesExist
  <2> QED
    BY <2>1, <2>2, <2>3
<1>8. \A b \in Attempts : Fresh(b)
  BY DEF IInv
<1>9. CASE RollBackFrom(a) /\ UNCHANGED published
  <2>1. Unambiguous' => manifest' = manifest
    <3>1. CASE Fault("ambiguousStore")
      BY <3>1 DEF Fault, Unambiguous
    <3>2. CASE UNCHANGED manifest
      BY <3>2
    <3>3. CASE Visited(a, s, "upload") /\ published' = [published EXCEPT ![a] = @ \cup {s}]
      <4>1. left'[a] = left[a] \ {s}
        BY <3>3, VisitedFacts DEF IInv, Phases, Live
      <4>2. left'[a] = published[a] /\ s \in published'[a]
        BY <1>9, <3>3, RollBackFacts DEF IInv, PublishTypeOK
      <4> QED
        BY <1>9, <4>1, <4>2
    <3> QED
      BY <3>1, <3>2, <3>3 DEF PublishManifest
  <2>2. \A r \in Scenarios : manifest'[r] \in {manifest[r], a}
    BY <1>5
  <2> QED
    BY <1>1, <1>2, <1>7, <1>9, <2>1, <2>2, RollBackStarts
<1>10. CASE /\ manifest' = [manifest EXCEPT ![s] = a]
            /\ published' = [published EXCEPT ![a] = @ \cup {s}]
            /\ Visited(a, s, "upload")
  <2>1. /\ left'[a] = left[a] \ {s}
        /\ phase'[a] = IF left[a] = {s} THEN "upload" ELSE "publish"
        /\ \A b \in Attempts : b # a => phase'[b] = phase[b] /\ left'[b] = left[b]
    BY <1>1, <1>10, VisitedFacts DEF IInv, Phases, Live
  <2>2. /\ published'[a] = published[a] \cup {s}
        /\ \A b \in Attempts : b # a => published'[b] = published[b]
    BY <1>10 DEF IInv, PublishTypeOK
  <2>3. manifest'[s] = a
    BY <1>10 DEF IInv, PublishTypeOK
  <2>4. Loops(a)'
    BY <1>1, <2>1 DEF IInv, Loops
  <2>5. OneAtATime' => TilesKept(a)'
    BY <1>1, <1>3, <2>1 DEF IInv, TilesKept, Live
  <2>6. OneAtATime' => Shown(a)'
    BY <1>1, <1>3, <1>5, <2>1, <2>3 DEF IInv, Shown
  <2>7. Unambiguous' => Restorable(a)'
    BY <1>1, <1>3, <1>5, <2>1, <2>2, <2>3 DEF IInv, Restorable
  <2> QED
    BY <1>1, <1>2, <1>5, <1>7, <1>8, <2>1, <2>2, <2>4, <2>5, <2>6, <2>7, Frame DEF Fresh, Live
<1> QED
  BY <1>9, <1>10 DEF PublishManifest

\* After the files, an attempt cleans up or rolls back.
LEMMA UploadStep ==
    ASSUME IInv, PublishTypeOK', NEW a \in Attempts, UploadFiles(a)
    PROVE  IInv'
<1>1. /\ phase[a] = "upload"
      /\ UNCHANGED <<manifest, tiles, plan, written, previous, published, at>>
  BY DEF UploadFiles, job
<1>2. faults \subseteq faults'
  BY DEF UploadFiles, Fault, NoFault
<1>3. (OneAtATime' => OneAtATime) /\ (Unambiguous' => Unambiguous)
  BY <1>2 DEF OneAtATime, Unambiguous
<1>4. PublishedTilesExist'
  BY <1>1, <1>3 DEF IInv, PublishedTilesExist
<1>5. CASE RollBackFrom(a)
  BY <1>1, <1>2, <1>4, <1>5, RollBackStarts
<1>6. CASE /\ files' = Files
           /\ left' = [left EXCEPT ![a] = {s \in Scenarios : previous[a][s] # NoAttempt}]
           /\ GoTo(a, "finish") \/ GoTo(a, "clean")
  <2>1. /\ phase'[a] \in {"finish", "clean"}
        /\ \A b \in Attempts : b # a => phase'[b] = phase[b] /\ left'[b] = left[b]
    BY <1>6, GoToFacts DEF IInv, PublishTypeOK, Phases, Live
  <2>2. Loops(a)'
    BY <1>1, <2>1 DEF IInv, Loops
  <2>3. OneAtATime' => TilesKept(a)' /\ Shown(a)'
    BY <1>1, <1>3, <1>6, <2>1 DEF IInv, TilesKept, Shown, Live
  <2>4. Restorable(a)'
    BY <2>1 DEF Restorable
  <2>5. \A b \in Attempts : Fresh(b)
    BY DEF IInv
  <2> QED
    BY <1>1, <1>2, <1>4, <2>1, <2>2, <2>3, <2>4, <2>5, Frame DEF Fresh, Live
<1> QED
  BY <1>5, <1>6 DEF UploadFiles

\* A rollback reads a manifest and decides whether it is the attempt's own.
LEMMA RollBackReadStep ==
    ASSUME IInv, PublishTypeOK', NEW a \in Attempts, NEW s \in Scenarios, RollBackRead(a, s)
    PROVE  IInv'
<1>1. /\ phase[a] = "rollBack" /\ s \in left[a]
      /\ UNCHANGED <<manifest, tiles, files, plan, written, previous, published>>
  BY DEF RollBackRead, store, job
<1>2. faults \subseteq faults'
  BY DEF RollBackRead, Fault, NoFault
<1>3. (OneAtATime' => OneAtATime) /\ (Unambiguous' => Unambiguous)
  BY <1>2 DEF OneAtATime, Unambiguous
<1>4. PublishedTilesExist'
  BY <1>1, <1>3 DEF IInv, PublishedTilesExist
<1>5. \A b \in Attempts : Fresh(b)
  BY DEF IInv
<1>6. CASE at' = [at EXCEPT ![a] = s] /\ GoTo(a, "restore") /\ UNCHANGED left
  <2>1. /\ phase'[a] = "restore" /\ at'[a] = s
        /\ \A b \in Attempts : b # a => phase'[b] = phase[b] /\ at'[b] = at[b]
    BY <1>6, GoToFacts DEF IInv, PublishTypeOK, Phases, Live
  <2>2. Loops(a)' /\ Shown(a)'
    BY <1>1, <1>6, <2>1 DEF Loops, Shown
  <2>3. OneAtATime' => TilesKept(a)'
    BY <1>1, <1>3, <2>1 DEF IInv, TilesKept, Live
  <2>4. Unambiguous' => Restorable(a)'
    BY <1>1, <1>3, <1>6, <2>1 DEF IInv, Restorable
  <2> QED
    BY <1>1, <1>2, <1>4, <1>5, <1>6, <2>1, <2>2, <2>3, <2>4, Frame DEF Fresh, Live
<1>7. CASE /\ Visited(a, s, "rolledBack") /\ UNCHANGED at
           /\ manifest[s] # a \/ Fault("rollbackError")
  <2>1. /\ left'[a] = left[a] \ {s}
        /\ phase'[a] = IF left[a] = {s} THEN "rolledBack" ELSE "rollBack"
        /\ \A b \in Attempts : b # a => phase'[b] = phase[b] /\ left'[b] = left[b]
    BY <1>1, <1>7, VisitedFacts DEF IInv, Phases, Live
  <2>2. ~Unambiguous'
    <3>1. CASE manifest[s] # a
      BY <1>1, <1>3, <3>1 DEF IInv, Restorable
    <3>2. CASE Fault("rollbackError")
      BY <3>2 DEF Fault, Unambiguous
    <3> QED
      BY <1>7, <3>1, <3>2
  <2>3. Loops(a)' /\ Shown(a)'
    BY <2>1 DEF Loops, Shown
  <2>4. OneAtATime' => TilesKept(a)'
    BY <1>1, <1>3, <2>1 DEF IInv, TilesKept, Live
  <2> QED
    BY <1>1, <1>2, <1>4, <1>5, <1>7, <2>1, <2>2, <2>3, <2>4, Frame DEF Fresh, Live
<1> QED
  BY <1>6, <1>7 DEF RollBackRead

\* A rollback restores or deletes the manifest that it has read.
LEMMA RollBackWriteStep ==
    ASSUME IInv, PublishTypeOK', NEW a \in Attempts, RollBackWrite(a)
    PROVE  IInv'
<1> DEFINE s == at[a]
<1>1. /\ phase[a] = "restore"
      /\ UNCHANGED <<tiles, files, plan, written, previous, published>>
  BY DEF RollBackWrite, job
<1>2. s \in Scenarios /\ s \in left[a]
  BY <1>1 DEF IInv, PublishTypeOK, Loops
<1>3. faults \subseteq faults'
  BY DEF RollBackWrite, Fault, NoFault
<1>4. (OneAtATime' => OneAtATime) /\ (Unambiguous' => Unambiguous)
  BY <1>3 DEF OneAtATime, Unambiguous
<1>5. manifest' \in {manifest, [manifest EXCEPT ![s] = previous[a][s]]}
  BY DEF RollBackWrite
<1>6. /\ manifest'[s] \in {manifest[s], previous[a][s]}
      /\ \A r \in Scenarios : r # s => manifest'[r] = manifest[r]
  BY <1>2, <1>5 DEF IInv, PublishTypeOK
<1>7. Unambiguous' => manifest'[s] = previous[a][s]
  <2>1. CASE manifest' = [manifest EXCEPT ![s] = previous[a][s]]
    BY <1>2, <2>1 DEF IInv, PublishTypeOK
  <2>2. CASE Fault("rollbackError")
    BY <2>2 DEF Fault, Unambiguous
  <2> QED
    BY <2>1, <2>2 DEF RollBackWrite
<1>8. /\ left'[a] = left[a] \ {s}
      /\ phase'[a] = IF left[a] = {s} THEN "rolledBack" ELSE "rollBack"
      /\ \A b \in Attempts : b # a => phase'[b] = phase[b] /\ left'[b] = left[b] /\ at'[b] = at[b]
  <2>1. GoTo(a, IF left[a] = {s} THEN "rolledBack" ELSE "rollBack")
    BY DEF RollBackWrite
  <2>2. left' = [left EXCEPT ![a] = @ \ {s}] /\ at' = [at EXCEPT ![a] = NoScenario]
    BY DEF RollBackWrite
  <2>3. (IF left[a] = {s} THEN "rolledBack" ELSE "rollBack") \in Phases
    BY DEF Phases, Live
  <2> QED
    BY <2>1, <2>2, <2>3, GoToFacts DEF IInv, PublishTypeOK
<1> HIDE DEF s
<1>9. PublishedTilesExist'
  <2> SUFFICES ASSUME OneAtATime', NEW r \in Scenarios, manifest'[r] # NoAttempt
               PROVE  plan[manifest'[r]][r] \subseteq tiles[r]
    BY <1>1 DEF PublishedTilesExist
  <2>1. CASE manifest'[r] = manifest[r]
    BY <1>4, <2>1 DEF IInv, PublishedTilesExist
  <2>2. CASE manifest'[r] = previous[a][r]
    BY <1>1, <1>4, <2>2 DEF IInv, TilesKept
  <2> QED
    BY <1>6, <2>1, <2>2
<1>10. Loops(a)' /\ Shown(a)'
  BY <1>8 DEF Loops, Shown
<1>11. OneAtATime' => TilesKept(a)'
  BY <1>1, <1>4, <1>8 DEF IInv, TilesKept, Live
<1>12. Unambiguous' => Restorable(a)'
  BY <1>1, <1>4, <1>6, <1>7, <1>8 DEF IInv, Restorable
<1>13. \A b \in Attempts : Fresh(b)
  BY DEF IInv
<1>14. \A b \in Attempts : phase[b] = "idle" /\ b # a =>
           \A r \in Scenarios : manifest'[r] # b /\ previous'[a][r] # b
  BY <1>1, <1>6, <1>13 DEF Fresh
<1> QED
  BY <1>1, <1>3, <1>8, <1>9, <1>10, <1>11, <1>12, <1>14, Frame DEF Live

\* Only tiles that the manifests shown do not name are deleted.
LEMMA CleanStep ==
    ASSUME IInv, PublishTypeOK', NEW a \in Attempts, NEW s \in Scenarios, CleanTiles(a, s)
    PROVE  IInv'
<1>1. /\ phase[a] = "clean" /\ s \in left[a]
      /\ UNCHANGED <<manifest, files, plan, written, previous, published, at>>
  BY DEF CleanTiles, job
<1>2. faults \subseteq faults'
  BY DEF CleanTiles, Fault, NoFault
<1>3. OneAtATime' => OneAtATime
  BY <1>2 DEF OneAtATime
<1>4. PICK gone : gone \cap plan[a][s] = {} /\ tiles' = [tiles EXCEPT ![s] = @ \ gone]
  BY DEF CleanTiles
<1>5. /\ tiles'[s] = tiles[s] \ gone
      /\ \A r \in Scenarios : r # s => tiles'[r] = tiles[r]
  BY <1>4 DEF IInv, PublishTypeOK
<1>6. /\ phase'[a] \in {"clean", "finish"}
      /\ \A b \in Attempts : b # a => phase'[b] = phase[b] /\ left'[b] = left[b]
  <2>1. Visited(a, s, "finish")
    BY DEF CleanTiles
  <2> QED
    BY <1>1, <2>1, VisitedFacts DEF IInv, Phases, Live
<1>7. OneAtATime =>
          \A r \in Scenarios : manifest[r] = a /\ written[a][r] = plan[a][r] /\ plan[a][r] \subseteq tiles[r]
  BY <1>1 DEF IInv, Shown, Loops, TilesKept, Live
<1>8. OneAtATime => \A r \in Scenarios : plan[a][r] \subseteq tiles'[r]
  BY <1>4, <1>5, <1>7
<1>9. PublishedTilesExist'
  BY <1>1, <1>3, <1>7, <1>8 DEF PublishedTilesExist
<1>10. Loops(a)'
  BY <1>1, <1>6 DEF IInv, Loops
<1>11. OneAtATime' => TilesKept(a)'
  BY <1>1, <1>3, <1>6, <1>7, <1>8 DEF TilesKept
<1>12. OneAtATime' => Shown(a)'
  BY <1>1, <1>3, <1>6 DEF IInv, Shown
<1>13. Restorable(a)'
  BY <1>6 DEF Restorable
<1>14. \A b \in Attempts : Fresh(b)
  BY DEF IInv
<1> QED
  BY <1>1, <1>2, <1>6, <1>9, <1>10, <1>11, <1>12, <1>13, <1>14, Frame DEF Fresh, Live

\* An attempt that ends or crashes leaves the store as it is.
LEMMA EndStep ==
    ASSUME IInv, PublishTypeOK', NEW a \in Attempts, Finish(a) \/ Crash(a)
    PROVE  IInv'
<1>1. /\ phase[a] \in Live
      /\ UNCHANGED <<manifest, tiles, files, plan, written, previous, published, left, at>>
  BY DEF Finish, Crash, store, job, Live
<1>2. faults \subseteq faults'
  BY DEF Finish, Crash, Fault, NoFault
<1>3. /\ phase'[a] \in {"succeeded", "failed", "crashed"}
      /\ \A b \in Attempts : b # a => phase'[b] = phase[b]
  <2>1. GoTo(a, "succeeded") \/ GoTo(a, "failed") \/ GoTo(a, "crashed")
    BY DEF Finish, Crash
  <2> QED
    BY <2>1, GoToFacts DEF IInv, Phases
<1>4. PublishedTilesExist'
  BY <1>1, <1>2 DEF IInv, PublishedTilesExist, OneAtATime
<1>5. Loops(a)' /\ TilesKept(a)' /\ Shown(a)' /\ Restorable(a)'
  BY <1>3 DEF Loops, TilesKept, Shown, Restorable, Live
<1>6. \A b \in Attempts : Fresh(b)
  BY DEF IInv
<1> QED
  BY <1>1, <1>2, <1>3, <1>4, <1>5, <1>6, Frame DEF Fresh

\* The invariant survives every step.
LEMMA NextStep == IInv /\ [PublishNext]_publishVars => IInv'
<1> SUFFICES ASSUME IInv, [PublishNext]_publishVars PROVE IInv'
  OBVIOUS
<1>1. PublishTypeOK'
  BY TypeStep DEF IInv
<1>2. CASE UNCHANGED publishVars
  BY <1>1, <1>2 DEF publishVars, store, attempts, job, IInv, OneLive, Fresh, Loops, TilesKept, Shown,
        Restorable, Unambiguous, OneAtATime, PublishedTilesExist
<1>3. ASSUME NEW a \in Attempts, Step(a) \/ Crash(a) PROVE IInv'
  BY <1>1, <1>3, StartStep, LoadStep, WriteStep, EndRunStep, PublishStep, UploadStep,
     RollBackReadStep, RollBackWriteStep, CleanStep, EndStep DEF Step
<1> QED
  BY <1>2, <1>3 DEF PublishNext

-----------------------------------------------------------------------------
(* The theorems. *)

\* Every step of an attempt, and every fault, keeps the invariant.
THEOREM Invariance == PublishSpec => []IInv
BY Initially, NextStep, PTL DEF PublishSpec

\* The bucket and the attempts stay within their types.
THEOREM TypeCorrect == PublishSpec => []PublishTypeOK
BY Invariance, PTL DEF IInv

\* No published manifest names a tile that is not there, however attempts fail, roll back,
\* crash and follow one another.
THEOREM NoDanglingTile == PublishSpec => []PublishedTilesExist
BY Invariance, PTL DEF IInv

\* A task that reports success has put every manifest and both files.
THEOREM SuccessMeansPublished == PublishSpec => SuccessIsPublished
<1>1. ASSUME IInv, NEW a \in Attempts, OneAtATime, phase[a] = "finish"
      PROVE  files = Files /\ \A s \in Scenarios : manifest[s] = a
  BY <1>1 DEF IInv, Shown
<1>2. IInv /\ [PublishNext]_publishVars =>
        [\A a \in Attempts : OneAtATime /\ phase[a] = "finish" /\ phase'[a] = "succeeded" =>
            files = Files /\ \A s \in Scenarios : manifest[s] = a]_publishVars
  BY <1>1
<1> QED
  BY Invariance, <1>2, PTL DEF PublishSpec, SuccessIsPublished

\* A rollback that was not cut short ends with the manifests the attempt found.
LEMMA RollBackEnds ==
    ASSUME IInv, IInv', [PublishNext]_publishVars, NEW a \in Attempts, Unambiguous,
           faults' \cap {"ambiguousStore", "rollbackError"} = {},
           phase[a] # "rolledBack", phase'[a] = "rolledBack", NEW s \in Scenarios
    PROVE  manifest'[s] = previous[a][s]
<1>1. Restorable(a) /\ PublishTypeOK
  BY DEF IInv
<1>2. PICK b \in Attempts : Step(b) \/ Crash(b)
  BY DEF PublishNext, publishVars, attempts
<1>3. a = b
  <2> USE <1>1
  <2>1. CASE \E step \in Phases : GoTo(b, step)
    BY <2>1, GoToFacts
  <2>2. CASE \E r \in Scenarios : \E step \in Phases : Visited(b, r, step)
    BY <2>2, VisitedFacts
  <2>3. CASE RollBackFrom(b)
    BY <2>3, RollBackFacts
  <2>4. CASE phase' = phase
    BY <2>4
  <2>5. {"load", "run", "failed", "publish", "upload", "finish", "clean", "rolledBack",
         "rollBack", "restore", "succeeded", "crashed"} \subseteq Phases
    BY DEF Phases, Live
  <2>6. CASE Start(b) \/ Finish(b) \/ Crash(b)
    BY <2>1, <2>5, <2>6 DEF Start, Finish, Crash
  <2>7. CASE EndRun(b) \/ UploadFiles(b)
    BY <2>1, <2>3, <2>5, <2>7 DEF EndRun, UploadFiles
  <2>8. CASE RollBackWrite(b)
    BY <2>1, <2>5, <2>8 DEF RollBackWrite
  <2>9. CASE \E r \in Scenarios : LoadManifest(b, r) \/ PublishManifest(b, r)
    BY <2>1, <2>2, <2>3, <2>5, <2>9 DEF LoadManifest, PublishManifest
  <2>10. CASE \E r \in Scenarios : RollBackRead(b, r) \/ CleanTiles(b, r)
    BY <2>1, <2>2, <2>5, <2>10 DEF RollBackRead, CleanTiles
  <2>11. CASE \E r \in Scenarios : \E t \in Tiles : WriteTile(b, r, t)
    BY <2>4, <2>11 DEF WriteTile
  <2> QED
    BY <1>2, <2>6, <2>7, <2>8, <2>9, <2>10, <2>11 DEF Step
<1> USE <1>1
<1>4. {"load", "run", "failed", "publish", "upload", "finish", "clean", "rolledBack",
       "rollBack", "restore", "succeeded", "crashed"} \subseteq Phases
  BY DEF Phases, Live
<1>5. CASE Start(a) \/ Finish(a) \/ Crash(a)
  <2>1. GoTo(a, "load") \/ GoTo(a, "succeeded") \/ GoTo(a, "failed") \/ GoTo(a, "crashed")
    BY <1>5 DEF Start, Finish, Crash
  <2> QED
    BY <1>4, <2>1, GoToFacts
<1>6. ASSUME NEW r \in Scenarios, LoadManifest(a, r) \/ CleanTiles(a, r) PROVE FALSE
  <2>1. \/ phase[a] = "load" /\ (Visited(a, r, "run") \/ GoTo(a, "failed"))
        \/ phase[a] = "clean" /\ Visited(a, r, "finish")
    BY <1>6 DEF LoadManifest, CleanTiles
  <2>2. phase'[a] \in {"run", "load", "failed", "clean", "finish"}
    BY <1>4, <2>1, VisitedFacts, GoToFacts
  <2> QED
    BY <2>2
<1>7. ASSUME NEW r \in Scenarios, NEW t \in Tiles, WriteTile(a, r, t) PROVE FALSE
  BY <1>7 DEF WriteTile
<1>8. ASSUME phase[a] \in {"run", "publish", "upload"}, manifest' = manifest, RollBackFrom(a)
      PROVE  manifest'[s] = previous[a][s]
  <2>1. published[a] = {}
    BY <1>8, RollBackFacts
  <2> QED
    BY <1>8, <2>1 DEF Restorable
<1>9. CASE EndRun(a)
  <2>1. RollBackFrom(a) \/ GoTo(a, "publish")
    BY <1>9 DEF EndRun
  <2>2. CASE GoTo(a, "publish")
    BY <1>4, <2>2, GoToFacts
  <2> QED
    BY <1>8, <1>9, <2>1, <2>2 DEF EndRun, store
<1>10. CASE UploadFiles(a)
  <2>1. RollBackFrom(a) \/ GoTo(a, "finish") \/ GoTo(a, "clean")
    BY <1>10 DEF UploadFiles
  <2>2. CASE GoTo(a, "finish") \/ GoTo(a, "clean")
    BY <1>4, <2>2, GoToFacts
  <2> QED
    BY <1>8, <1>10, <2>1, <2>2 DEF UploadFiles
<1>11. ASSUME NEW r \in Scenarios, PublishManifest(a, r) PROVE manifest'[s] = previous[a][s]
  <2>1. phase[a] = "publish" /\ (Visited(a, r, "upload") \/ RollBackFrom(a))
    BY <1>11 DEF PublishManifest
  <2>2. CASE Visited(a, r, "upload")
    BY <1>4, <2>1, <2>2, VisitedFacts
  <2>3. CASE RollBackFrom(a) /\ ~ Visited(a, r, "upload")
    <3>1. ~ Fault("ambiguousStore")
      BY DEF Fault
    <3>2. manifest' = manifest
      BY <1>11, <2>3, <3>1 DEF PublishManifest
    <3> QED
      BY <1>8, <2>1, <2>3, <3>2
  <2> QED
    BY <2>1, <2>2, <2>3
<1>12. ASSUME NEW r \in Scenarios, RollBackRead(a, r) PROVE manifest'[s] = previous[a][s]
  <2>1. phase[a] = "rollBack" /\ r \in left[a]
    BY <1>12 DEF RollBackRead
  <2>2. ~ Fault("rollbackError") /\ manifest[r] = a
    BY <2>1 DEF Fault, Restorable
  <2>3. GoTo(a, "restore")
    BY <1>12, <2>2 DEF RollBackRead
  <2> QED
    BY <1>4, <2>3, GoToFacts
<1>13. CASE RollBackWrite(a)
  <2>1. phase[a] = "restore" /\ at[a] \in left[a] /\ at[a] \in Scenarios
    BY <1>13 DEF RollBackWrite, IInv, Loops, PublishTypeOK
  <2>2. left[a] = {at[a]}
    <3>1. GoTo(a, IF left[a] = {at[a]} THEN "rolledBack" ELSE "rollBack")
      BY <1>13 DEF RollBackWrite
    <3>2. left[a] # {at[a]} => GoTo(a, "rollBack")
      BY <3>1
    <3> QED
      BY <1>4, <3>2, GoToFacts
  <2>3. manifest' = [manifest EXCEPT ![at[a]] = previous[a][at[a]]]
    <3>1. ~ Fault("rollbackError")
      BY DEF Fault
    <3> QED
      BY <1>13, <3>1 DEF RollBackWrite
  <2>4. s # at[a] => manifest[s] = previous[a][s]
    BY <2>1, <2>2 DEF Restorable
  <2> QED
    BY <2>1, <2>3, <2>4 DEF PublishTypeOK
<1> QED
  BY <1>2, <1>3, <1>5, <1>6, <1>7, <1>9, <1>10, <1>11, <1>12, <1>13 DEF Step

\* A failed task restores the manifests it found, unless the store was ambiguous about one of
\* them or refused the rollback.
THEOREM RollbackIsExact == PublishSpec => RollbackRestores
<1> DEFINE Kinds == {"ambiguousStore", "rollbackError"}
<1> DEFINE Restored ==
        \A a \in Attempts :
            /\ OneAtATime /\ faults \cap {"ambiguousStore", "rollbackError"} = {}
            /\ phase[a] # "rolledBack" /\ phase'[a] = "rolledBack"
            => faults' \cap {"ambiguousStore", "rollbackError"} # {} \/ manifest' = previous[a]
<1>1. ASSUME IInv, IInv', [PublishNext]_publishVars, NEW a \in Attempts,
             OneAtATime, faults \cap Kinds = {}, faults' \cap Kinds = {},
             phase[a] # "rolledBack", phase'[a] = "rolledBack"
      PROVE  manifest' = previous[a]
  <2>1. Unambiguous
    BY <1>1 DEF Unambiguous
  <2>2. \A s \in Scenarios : manifest'[s] = previous[a][s]
    BY <1>1, <2>1, RollBackEnds
  <2>3. /\ manifest' \in [Scenarios -> Attempts \cup {NoAttempt}]
        /\ previous[a] \in [Scenarios -> Attempts \cup {NoAttempt}]
    BY <1>1 DEF IInv, PublishTypeOK
  <2> QED
    BY <2>2, <2>3
<1>2. IInv /\ IInv' /\ [PublishNext]_publishVars => [Restored]_publishVars
  BY <1>1
<1> QED
  BY Invariance, <1>2, PTL DEF PublishSpec, RollbackRestores
=============================================================================
