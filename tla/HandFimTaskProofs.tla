---------------------------- MODULE HandFimTaskProofs ----------------------------
(***************************************************************************)
(* Proofs about HandFimTask and the modules it composes, for any HUCs,     *)
(* sources, requests, jobs and pairs of results of the shape that the      *)
(* modules assume.                                                         *)
(***************************************************************************)
EXTENDS HandFimTask, FiniteSetTheorems, SequenceTheorems, FunctionTheorems,
        WellFoundedInduction, TLAPS

-----------------------------------------------------------------------------
(* Collections. *)

\* The number of smaller members grows with the member.
LEMMA RankGrows ==
    ASSUME NEW S \in SUBSET Int, IsFiniteSet(S), NEW x \in S, NEW y \in S, x < y
    PROVE  /\ Cardinality({z \in S : z < x}) \in Nat
           /\ Cardinality({z \in S : z < y}) \in Nat
           /\ Cardinality({z \in S : z < x}) < Cardinality({z \in S : z < y})
           /\ Cardinality({z \in S : z < y}) < Cardinality(S)
<1> DEFINE U == {z \in S : z < x}
           V == {z \in S : z < y}
<1>1. U \in SUBSET V /\ V \in SUBSET S /\ x \in V /\ x \notin U /\ y \notin V
  <2>1. \A z \in S : z \in Int /\ (z < x => z < y)
    OBVIOUS
  <2>2. ~ (x < x) /\ ~ (y < y)
    OBVIOUS
  <2> QED
    BY <2>1, <2>2
<1>2. IsFiniteSet(V) /\ Cardinality(V) <= Cardinality(S) /\ (Cardinality(S) = Cardinality(V) => S = V)
  BY <1>1, FS_Subset
<1>3. IsFiniteSet(U) /\ Cardinality(U) <= Cardinality(V) /\ (Cardinality(V) = Cardinality(U) => V = U)
  BY <1>1, <1>2, FS_Subset
<1>4. Cardinality(U) \in Nat /\ Cardinality(V) \in Nat /\ Cardinality(S) \in Nat
  BY <1>2, <1>3, FS_CardinalityType
<1> HIDE DEF U, V
<1>5. Cardinality(U) < Cardinality(V) /\ Cardinality(V) < Cardinality(S)
  BY <1>1, <1>2, <1>3, <1>4
<1> QED
  BY <1>4, <1>5 DEF U, V

\* There is a member with any number of smaller ones.
LEMMA RankExists ==
    ASSUME NEW S \in SUBSET Int, IsFiniteSet(S), NEW n \in 1 .. Cardinality(S)
    PROVE  \E x \in S : Cardinality({y \in S : y < x}) = n - 1
<1> DEFINE rank == [x \in S |-> Cardinality({y \in S : y < x})]
           T == 0 .. Cardinality(S) - 1
<1>1. Cardinality(S) \in Nat
  BY FS_CardinalityType
<1>2. ASSUME NEW x \in S PROVE rank[x] \in T
  <2> DEFINE V == {z \in S : z < x}
  <2>1. V \in SUBSET S /\ x \notin V
    OBVIOUS
  <2>2. IsFiniteSet(V) /\ Cardinality(V) <= Cardinality(S) /\ (Cardinality(S) = Cardinality(V) => S = V)
    BY <2>1, FS_Subset
  <2>3. Cardinality(V) \in Nat
    BY <2>2, FS_CardinalityType
  <2>4. rank[x] = Cardinality(V)
    OBVIOUS
  <2> HIDE DEF V, rank
  <2> QED
    BY <2>1, <2>2, <2>3, <2>4, <1>1
<1>3. ASSUME NEW x \in S, NEW y \in S, rank[x] = rank[y] PROVE x = y
  <2>1. CASE x < y
    <3>1. rank[x] < rank[y] /\ rank[x] \in Nat
      BY <2>1, RankGrows
    <3> QED
      BY <3>1, <1>3
  <2>2. CASE y < x
    <3>1. rank[y] < rank[x] /\ rank[x] \in Nat
      BY <2>2, RankGrows
    <3> QED
      BY <3>1, <1>3
  <2>3. x \in Int /\ y \in Int
    OBVIOUS
  <2> QED
    BY <2>1, <2>2, <2>3
<1>4. rank \in [S -> T]
  BY <1>2
<1>5. rank \in Injection(S, T)
  BY <1>3, <1>4 DEF Injection, IsInjective
<1>6. IsFiniteSet(T) /\ Cardinality(T) = Cardinality(S)
  <2>1. 0 \in Int /\ Cardinality(S) - 1 \in Int
    BY <1>1
  <2>2. IsFiniteSet(T) /\ Cardinality(T) = IF 0 > Cardinality(S) - 1 THEN 0 ELSE Cardinality(S) - 1 - 0 + 1
    BY <2>1, FS_Interval
  <2> QED
    BY <2>2, <1>1
<1>7. rank \in Surjection(S, T)
  <2> HIDE DEF rank, T
  <2> QED
    BY <1>5, <1>6, FS_Injection
<1>8. n - 1 \in T
  BY <1>1
<1>9. PICK x \in S : rank[x] = n - 1
  BY <1>7, <1>8 DEF Surjection
<1> QED
  BY <1>9

\* sorted() yields the members, each once, in order.
LEMMA AscendingFacts ==
    ASSUME NEW S \in SUBSET Int, IsFiniteSet(S)
    PROVE  /\ Ascending(S) \in Seq(S) /\ Cardinality(S) \in Nat
           /\ Len(Ascending(S)) = Cardinality(S) /\ DOMAIN Ascending(S) = 1 .. Cardinality(S)
           /\ \A i \in 1 .. Cardinality(S) : Ascending(S)[i] \in S
           /\ \A i, j \in 1 .. Cardinality(S) : i < j => Ascending(S)[i] < Ascending(S)[j]
           /\ \A x \in S : \E i \in 1 .. Cardinality(S) : Ascending(S)[i] = x
<1> DEFINE n == Cardinality(S)
           A == Ascending(S)
           rank(x) == Cardinality({y \in S : y < x})
<1>1. n \in Nat
  BY FS_CardinalityType
<1>2. ASSUME NEW i \in 1 .. n PROVE A[i] \in S /\ rank(A[i]) = i - 1
  <2>1. A[i] = CHOOSE x \in S : rank(x) = i - 1
    BY DEF Ascending
  <2>2. \E x \in S : rank(x) = i - 1
    BY RankExists
  <2> HIDE DEF rank, A
  <2> QED
    BY <2>1, <2>2
<1>3. A \in [1 .. n -> S]
  <2> DEFINE F(i) == CHOOSE x \in S : Cardinality({y \in S : y < x}) = i - 1
  <2>1. A = [i \in 1 .. n |-> F(i)]
    BY DEF Ascending
  <2>2. \A i \in 1 .. n : A[i] = F(i)
    BY <2>1
  <2> HIDE DEF F, A, n
  <2> QED
    BY <1>2, <2>1, <2>2
<1>4. ASSUME NEW i \in 1 .. n, NEW j \in 1 .. n, i < j PROVE A[i] < A[j]
  <2>1. A[i] \in Int /\ A[j] \in Int
    BY <1>2
  <2>2. SUFFICES ASSUME ~ (A[i] < A[j]) PROVE FALSE
    OBVIOUS
  <2>3. A[i] = A[j] \/ A[j] < A[i]
    BY <2>1, <2>2
  <2>4. PICK x \in S, y \in S : x = A[i] /\ y = A[j] /\ rank(x) = i - 1 /\ rank(y) = j - 1
    BY <1>2
  <2>5. CASE x = y
    BY <2>4, <2>5, <1>4
  <2>6. CASE y < x
    <3>1. rank(y) < rank(x)
      BY <2>6, RankGrows
    <3> QED
      BY <3>1, <2>4, <1>4
  <2> QED
    BY <2>3, <2>4, <2>5, <2>6
<1>5. ASSUME NEW x \in S PROVE \E i \in 1 .. n : A[i] = x
  <2> DEFINE V == {z \in S : z < x}
  <2>1. V \in SUBSET S /\ x \notin V
    OBVIOUS
  <2>2. IsFiniteSet(V) /\ Cardinality(V) <= n /\ (n = Cardinality(V) => S = V)
    BY <2>1, FS_Subset
  <2>3. Cardinality(V) \in Nat
    BY <2>2, FS_CardinalityType
  <2>4. PICK i \in 1 .. n : rank(x) = i - 1
    <3>1. rank(x) + 1 \in 1 .. n /\ rank(x) = (rank(x) + 1) - 1
      <4>1. rank(x) = Cardinality(V)
        OBVIOUS
      <4> HIDE DEF V, rank, n
      <4> QED
        BY <4>1, <2>1, <2>2, <2>3, <1>1
    <3> HIDE DEF rank, n
    <3> QED
      BY <3>1
  <2>5. PICK y \in S : y = A[i] /\ rank(y) = i - 1
    BY <1>2
  <2>6. y = x
    <3>1. y \in Int /\ x \in Int
      OBVIOUS
    <3>2. y < x => rank(y) < rank(x) /\ rank(x) \in Nat
      BY RankGrows
    <3>3. x < y => rank(x) < rank(y) /\ rank(x) \in Nat
      BY RankGrows
    <3> HIDE DEF rank
    <3> QED
      BY <3>1, <3>2, <3>3, <2>4, <2>5
  <2> QED
    BY <2>5, <2>6
<1>6. A \in Seq(S) /\ Len(A) = n /\ DOMAIN A = 1 .. n
  <2> HIDE DEF A, n
  <2> QED
    BY <1>1, <1>3
<1> HIDE DEF A, n
<1>7. QED
  BY <1>1, <1>2, <1>4, <1>5, <1>6 DEF A, n

\* A list comprehension: the kept items, in order, each place once.
LEMMA KeptFacts ==
    ASSUME NEW T, NEW s \in Seq(T), NEW P \in SUBSET (1 .. Len(s))
    PROVE  /\ IsFiniteSet(P) /\ Cardinality(P) \in Nat
           /\ Kept(s, P) \in Seq(T) /\ Len(Kept(s, P)) = Cardinality(P)
           /\ DOMAIN Kept(s, P) = 1 .. Cardinality(P)
           /\ \A n \in 1 .. Cardinality(P) :
                Ascending(P)[n] \in P /\ Kept(s, P)[n] = s[Ascending(P)[n]]
           /\ \A i \in P : \E n \in 1 .. Cardinality(P) :
                Ascending(P)[n] = i /\ Kept(s, P)[n] = s[i]
<1>1. IsFiniteSet(P) /\ P \in SUBSET Int
  <2>1. 1 \in Int /\ Len(s) \in Int
    OBVIOUS
  <2>2. IsFiniteSet(1 .. Len(s))
    BY <2>1, FS_Interval
  <2>3. IsFiniteSet(P)
    BY <2>2, FS_Subset
  <2> QED
    BY <2>3
<1>2. /\ Cardinality(P) \in Nat
      /\ \A n \in 1 .. Cardinality(P) : Ascending(P)[n] \in P
      /\ \A i \in P : \E n \in 1 .. Cardinality(P) : Ascending(P)[n] = i
  BY <1>1, AscendingFacts
<1>3. \A n \in 1 .. Cardinality(P) : s[Ascending(P)[n]] \in T
  <2>1. \A i \in P : s[i] \in T
    OBVIOUS
  <2> QED
    BY <2>1, <1>2
<1> QED
  BY <1>1, <1>2, <1>3 DEF Kept

\* dict.update, by key.
LEMMA UpdatedFacts ==
    ASSUME NEW f, NEW g
    PROVE  /\ DOMAIN Updated(f, g) = DOMAIN f \cup DOMAIN g
           /\ \A x \in DOMAIN g : Updated(f, g)[x] = g[x]
           /\ \A x \in DOMAIN f \ DOMAIN g : Updated(f, g)[x] = f[x]
BY DEF Updated

\* f[x] = v, by key.
LEMMA WithFacts ==
    ASSUME NEW f, NEW x, NEW v
    PROVE  /\ DOMAIN With(f, x, v) = DOMAIN f \cup {x}
           /\ With(f, x, v)[x] = v
           /\ \A y \in DOMAIN f : y # x => With(f, x, v)[y] = f[y]
BY DEF With, Updated

\* f.setdefault(x, v), by key.
LEMMA WithDefaultFacts ==
    ASSUME NEW f, NEW x, NEW v
    PROVE  /\ DOMAIN WithDefault(f, x, v) = DOMAIN f \cup {x}
           /\ \A y \in DOMAIN f : WithDefault(f, x, v)[y] = f[y]
           /\ x \notin DOMAIN f => WithDefault(f, x, v)[x] = v
BY DEF WithDefault, Updated

\* del f[x] for all of S, by key.
LEMMA WithoutFacts ==
    ASSUME NEW f, NEW S
    PROVE  /\ DOMAIN Without(f, S) = DOMAIN f \ S
           /\ \A y \in DOMAIN f \ S : Without(f, S)[y] = f[y]
BY DEF Without

\* What is left of a sequence after its first item.
LEMMA RestFacts ==
    ASSUME NEW T, NEW s \in Seq(T), s # <<>>
    PROVE  /\ Len(s) \in Nat \ {0} /\ Head(s) = s[1] /\ Head(s) \in T
           /\ Tail(s) \in Seq(T) /\ Len(Tail(s)) = Len(s) - 1
           /\ \A i \in 1 .. Len(Tail(s)) : i + 1 \in 1 .. Len(s) /\ Tail(s)[i] = s[i + 1]
OBVIOUS

\* A sequence has finitely many items.
LEMMA ToSetFacts ==
    ASSUME NEW T, NEW s \in Seq(T)
    PROVE  /\ IsFiniteSet(ToSet(s)) /\ ToSet(s) \in SUBSET T
           /\ \A x : x \in ToSet(s) <=> \E i \in 1 .. Len(s) : x = s[i]
<1>1. ToSet(s) = {s[i] : i \in 1 .. Len(s)}
  BY DEF ToSet
<1>2. s \in Surjection(1 .. Len(s), ToSet(s))
  BY <1>1 DEF Surjection
<1>3. IsFiniteSet(1 .. Len(s))
  <2>1. 1 \in Int /\ Len(s) \in Int
    OBVIOUS
  <2> QED
    BY <2>1, FS_Interval
<1>4. IsFiniteSet(ToSet(s))
  BY <1>2, <1>3, FS_Surjection
<1> QED
  BY <1>1, <1>4

\* What SetToSeq chooses: an enumeration without repetition.
LEMMA SetToSeqFacts ==
    ASSUME NEW S, IsFiniteSet(S)
    PROVE  /\ SetToSeq(S) \in Seq(S)
           /\ \A i, j \in 1 .. Len(SetToSeq(S)) : SetToSeq(S)[i] = SetToSeq(S)[j] => i = j
<1> DEFINE n == Cardinality(S)
           F == {f \in [1 .. n -> S] : IsInjective(f)}
<1>1. n \in Nat /\ ExistsBijection(1 .. n, S)
  BY FS_CardinalityType
<1>2. PICK b : b \in Bijection(1 .. n, S)
  BY <1>1 DEF ExistsBijection
<1>3. b \in [1 .. n -> S] /\ IsInjective(b)
  BY <1>2 DEF Bijection, Injection, IsInjective
<1>4. SetToSeq(S) = CHOOSE f \in F : TRUE
  BY DEF SetToSeq
<1>5. PICK s : s = SetToSeq(S) /\ s \in [1 .. n -> S] /\ IsInjective(s)
  <2>1. b \in F
    BY <1>3
  <2>2. (CHOOSE f \in F : TRUE) \in F
    BY <2>1
  <2> QED
    BY <1>4, <2>2
<1>6. \A i, j \in 1 .. n : s[i] = s[j] => i = j
  BY <1>5 DEF IsInjective
<1>7. s \in Seq(S) /\ Len(s) = n
  <2> HIDE DEF n
  <2> QED
    BY <1>1, <1>5
<1> QED
  BY <1>5, <1>6, <1>7

-----------------------------------------------------------------------------
(* Legacy jobs: shape of the state. *)

JobHucs(j) == {l.huc : l \in LabelsOf(j)}
JobLabels(j) == {l.label : l \in LabelsOf(j)}

LegacyShape ==
    /\ DOMAIN attempt = {"at", "job", "todo", "failed", "dirty"}
    /\ attempt.at \in {"idle", "download", "compute", "assemble", "upload", "cleanup"}
    /\ waiting \subseteq Jobs
    /\ attempt.at # "idle" => attempt.job \in Jobs \ waiting
    /\ attempt.at = "download" => attempt.todo \in Seq(JobHucs(attempt.job))
    /\ attempt.at = "compute" => attempt.todo \subseteq LabelsOf(attempt.job)
    /\ attempt.at = "assemble" => attempt.todo \in Seq(ToSet(Asked[attempt.job]))
    /\ attempt.at = "upload" => attempt.todo \in Seq(DOMAIN outDir[attempt.job])
    /\ attempt.at \in {"download", "compute", "assemble", "upload"} =>
         /\ attempt.job \in DOMAIN outDir
         /\ IsFiniteSet(DOMAIN outDir[attempt.job])

\* The HUCs of a job are integers, finitely many.
LEMMA JobHucsFinite ==
    ASSUME NEW j \in Jobs
    PROVE  IsFiniteSet(JobHucs(j)) /\ JobHucs(j) \in SUBSET Int
<1> DEFINE asked == Asked[j]
           hucs == [n \in 1 .. Len(asked) |-> ToSet(asked[n].hucs)]
<1>1. asked \in Seq([id : Seq(Int), hucs : Seq(Nat)])
  BY LegacyAssumption
<1>2. ASSUME NEW n \in 1 .. Len(asked)
      PROVE  asked[n].hucs \in Seq(Nat) /\ IsFiniteSet(hucs[n]) /\ hucs[n] \in SUBSET Nat
  <2>0. asked[n] \in [id : Seq(Int), hucs : Seq(Nat)]
    <3>1. PICK R : R = [id : Seq(Int), hucs : Seq(Nat)]
      OBVIOUS
    <3>2. asked \in Seq(R)
      BY <1>1, <3>1
    <3> HIDE DEF asked
    <3>3. asked[n] \in R
      BY <3>2
    <3> QED
      BY <3>1, <3>3
  <2>1. asked[n].hucs \in Seq(Nat)
    BY <2>0
  <2> QED
    BY <2>1, ToSetFacts
<1>3. JobHucs(j) = UNION {hucs[n] : n \in 1 .. Len(asked)}
  <2>1. ToSet(asked) = {asked[n] : n \in 1 .. Len(asked)}
    BY <1>1 DEF ToSet
  <2> HIDE DEF asked
  <2>2. LabelsOf(j) = UNION {{[huc |-> h, label |-> Label(s.id, h)] : h \in ToSet(s.hucs)}
                              : s \in ToSet(asked)}
    BY DEF LabelsOf, asked
  <2>3. ASSUME NEW x \in JobHucs(j) PROVE \E n \in 1 .. Len(asked) : x \in hucs[n]
    BY <2>1, <2>2 DEF JobHucs
  <2>4. ASSUME NEW n \in 1 .. Len(asked), NEW x \in hucs[n] PROVE x \in JobHucs(j)
    <3> DEFINE l == [huc |-> x, label |-> Label(asked[n].id, x)]
    <3>0. asked[n] \in ToSet(asked) /\ x \in ToSet(asked[n].hucs)
      BY <2>1
    <3>1. l \in {[huc |-> h, label |-> Label(asked[n].id, h)] : h \in ToSet(asked[n].hucs)}
      BY <3>0
    <3> HIDE DEF l
    <3>3. l \in LabelsOf(j)
      <4> DEFINE of(s) == {[huc |-> h, label |-> Label(s.id, h)] : h \in ToSet(s.hucs)}
      <4>1. LabelsOf(j) = UNION {of(s) : s \in ToSet(asked)} /\ l \in of(asked[n])
        BY <2>2, <3>1
      <4> HIDE DEF of
      <4> QED
        BY <4>1, <3>0
    <3>2. \E m \in LabelsOf(j) : x = m.huc
      BY <3>3 DEF l
    <3> QED
      BY <3>2 DEF JobHucs
  <2> QED
    BY <2>3, <2>4
<1>4. IsFiniteSet({hucs[n] : n \in 1 .. Len(asked)})
  <2>1. hucs \in Surjection(1 .. Len(asked), {hucs[n] : n \in 1 .. Len(asked)})
    BY DEF Surjection
  <2>2. IsFiniteSet(1 .. Len(asked))
    <3>1. 1 \in Int /\ Len(asked) \in Int
      BY <1>1
    <3> QED
      BY <3>1, FS_Interval
  <2> QED
    BY <2>1, <2>2, FS_Surjection
<1>5. IsFiniteSet(UNION {hucs[n] : n \in 1 .. Len(asked)})
  <2>1. \A T \in {hucs[n] : n \in 1 .. Len(asked)} : IsFiniteSet(T)
    BY <1>2
  <2> HIDE DEF hucs, asked
  <2> QED
    BY <1>4, <2>1, FS_UNION
<1>6. UNION {hucs[n] : n \in 1 .. Len(asked)} \in SUBSET Int
  <2> HIDE DEF hucs, asked
  <2> QED
    BY <1>2
<1> HIDE DEF hucs, asked
<1> QED
  BY <1>3, <1>5, <1>6

\* They are the HUCs that an attempt downloads.
LEMMA HucsOfJobFacts ==
    ASSUME NEW j \in Jobs
    PROVE  /\ HucsOfJob(j) \in Seq(JobHucs(j))
           /\ \A h \in JobHucs(j) : \E i \in 1 .. Len(HucsOfJob(j)) : HucsOfJob(j)[i] = h
<1>1. HucsOfJob(j) = Ascending(JobHucs(j))
  BY DEF HucsOfJob, JobHucs
<1>2. PICK S : S = JobHucs(j) /\ S \in SUBSET Int /\ IsFiniteSet(S)
  BY JobHucsFinite
<1>3. /\ Ascending(S) \in Seq(S) /\ Len(Ascending(S)) = Cardinality(S)
      /\ \A x \in S : \E i \in 1 .. Cardinality(S) : Ascending(S)[i] = x
  BY <1>2, AscendingFacts
<1> QED
  BY <1>1, <1>2, <1>3

\* A sequence is one of its own items.
LEMMA OwnItems ==
    ASSUME NEW j \in Jobs
    PROVE  Asked[j] \in Seq(ToSet(Asked[j])) /\ Asked[j] \in Seq([id : Seq(Int), hucs : Seq(Nat)])
<1>1. Asked[j] \in Seq([id : Seq(Int), hucs : Seq(Nat)])
  BY LegacyAssumption
<1>2. PICK s, R : s = Asked[j] /\ R = [id : Seq(Int), hucs : Seq(Nat)] /\ s \in Seq(R)
  BY <1>1
<1>3. \A i \in 1 .. Len(s) : s[i] \in ToSet(s)
  BY <1>2, ToSetFacts
<1>4. s \in Seq(ToSet(s))
  <2>1. PICK S : S = ToSet(s)
    OBVIOUS
  <2>2. \A i \in 1 .. Len(s) : s[i] \in S
    BY <1>3, <2>1
  <2>3. s \in [1 .. Len(s) -> S] /\ Len(s) \in Nat
    BY <1>2, <2>2
  <2> QED
    BY <2>1, <2>3
<1> QED
  BY <1>1, <1>2, <1>4

\* A step to a stage sets the stage and what is left of it.
LEMMA AtFacts ==
    ASSUME LegacyShape, NEW stage, NEW todo, At(stage, todo)
    PROVE  /\ attempt'.at = stage /\ attempt'.todo = todo /\ attempt'.job = attempt.job
           /\ attempt'.failed = attempt.failed /\ attempt'.dirty = attempt.dirty
           /\ DOMAIN attempt' = {"at", "job", "todo", "failed", "dirty"}
BY DEF At, LegacyShape

\* A step that gives up goes to the clean-up.
LEMMA GiveUpFacts ==
    ASSUME LegacyShape, attempt' = [attempt EXCEPT !.at = "cleanup", !.failed = TRUE]
    PROVE  /\ attempt'.at = "cleanup" /\ attempt'.job = attempt.job
           /\ attempt'.dirty = attempt.dirty
           /\ DOMAIN attempt' = {"at", "job", "todo", "failed", "dirty"}
BY DEF LegacyShape

\* The worker is idle after the clean-up and after a kill.
LEMMA IdleFacts ==
    ASSUME NEW dirty, attempt' = [NoAttempt EXCEPT !.dirty = dirty]
    PROVE  /\ attempt'.at = "idle" /\ attempt'.dirty = dirty
           /\ DOMAIN attempt' = {"at", "job", "todo", "failed", "dirty"}
BY DEF NoAttempt

\* A fresh start, the job's HUCs ahead.
LEMMA StartFacts ==
    ASSUME LegacyShape, NEW j, Start(j)
    PROVE  /\ attempt'.at = "download" /\ attempt'.todo = HucsOfJob(j) /\ attempt'.job = j
           /\ attempt'.dirty = attempt.dirty /\ j \in waiting /\ waiting' = waiting \ {j}
           /\ DOMAIN attempt' = {"at", "job", "todo", "failed", "dirty"}
BY DEF Start, LegacyShape

\* The shape is kept by every step.
LEMMA LegacyShapeStep ==
    ASSUME LegacyShape, LegacyNext
    PROVE  LegacyShape'
<1>1. ASSUME NEW j \in waiting, Start(j) PROVE LegacyShape'
  <2>1. j \in Jobs /\ waiting' \subseteq Jobs
    BY <1>1 DEF Start, LegacyShape
  <2>2. attempt'.todo \in Seq(JobHucs(j))
    BY <1>1, <2>1, StartFacts, HucsOfJobFacts
  <2>3. DOMAIN outDir' = DOMAIN outDir \cup {j} /\ outDir'[j] = [file \in {ListFile} |-> {}]
    <3>1. PICK f, x : f = outDir /\ x = [file \in {ListFile} |-> {}]
      OBVIOUS
    <3>2. DOMAIN With(f, j, x) = DOMAIN f \cup {j}
      BY WithFacts
    <3>4. With(f, j, x)[j] = x
      BY DEF With, Updated
    <3>3. outDir' = With(outDir, j, [file \in {ListFile} |-> {}])
      BY <1>1 DEF Start
    <3> QED
      BY <3>1, <3>2, <3>3, <3>4
  <2>4. IsFiniteSet(DOMAIN outDir'[j])
    BY <2>3, FS_Singleton
  <2>5. /\ attempt'.at = "download" /\ attempt'.job = j /\ waiting' = waiting \ {j}
        /\ DOMAIN attempt' = {"at", "job", "todo", "failed", "dirty"}
    BY <1>1, StartFacts
  <2> QED
    BY <2>1, <2>2, <2>3, <2>4, <2>5 DEF LegacyShape
<1>2. ASSUME DownloadHuc PROVE LegacyShape'
  <2>1. /\ attempt.at = "download" /\ attempt.todo \in Seq(JobHucs(attempt.job)) /\ attempt.todo # <<>>
        /\ At("download", Tail(attempt.todo)) /\ waiting' = waiting /\ outDir' = outDir
    BY <1>2 DEF DownloadHuc, LegacyShape
  <2>2. Tail(attempt.todo) \in Seq(JobHucs(attempt.job))
    BY <2>1, RestFacts
  <2>3. attempt'.at = "download" /\ attempt'.todo = Tail(attempt.todo) /\ attempt'.job = attempt.job
        /\ DOMAIN attempt' = {"at", "job", "todo", "failed", "dirty"}
    BY <2>1, AtFacts
  <2> QED
    BY <2>1, <2>2, <2>3 DEF LegacyShape
<1>3. ASSUME WriteFlowFiles PROVE LegacyShape'
  <2>1. /\ attempt.at = "download" /\ At("compute", LabelsOf(attempt.job))
        /\ waiting' = waiting /\ outDir' = outDir
    BY <1>3 DEF WriteFlowFiles
  <2>3. attempt'.at = "compute" /\ attempt'.todo = LabelsOf(attempt.job) /\ attempt'.job = attempt.job
        /\ DOMAIN attempt' = {"at", "job", "todo", "failed", "dirty"}
    BY <2>1, AtFacts
  <2> QED
    BY <2>1, <2>3 DEF LegacyShape
<1>4. ASSUME attempt.at = "compute", NEW l \in attempt.todo, Compute(l) PROVE LegacyShape'
  <2>1. At("compute", attempt.todo \ {l}) /\ waiting' = waiting /\ outDir' = outDir
    BY <1>4 DEF Compute
  <2>3. attempt'.at = "compute" /\ attempt'.todo = attempt.todo \ {l} /\ attempt'.job = attempt.job
        /\ DOMAIN attempt' = {"at", "job", "todo", "failed", "dirty"}
    BY <2>1, AtFacts
  <2> QED
    BY <1>4, <2>1, <2>3 DEF LegacyShape
<1>5. ASSUME attempt.at = "compute", NEW l \in attempt.todo, ComputeFails(l) PROVE LegacyShape'
  <2>1. /\ attempt' = [attempt EXCEPT !.todo = @ \ {l}, !.failed = TRUE]
        /\ waiting' = waiting /\ outDir' = outDir
    BY <1>5 DEF ComputeFails
  <2>3. attempt'.at = "compute" /\ attempt'.todo = attempt.todo \ {l} /\ attempt'.job = attempt.job
        /\ DOMAIN attempt' = {"at", "job", "todo", "failed", "dirty"}
    BY <1>5, <2>1 DEF LegacyShape
  <2> QED
    BY <1>5, <2>1, <2>3 DEF LegacyShape
<1>6. ASSUME AllComputed PROVE LegacyShape'
  <2>1. /\ attempt.at = "compute" /\ waiting' = waiting /\ outDir' = outDir
        /\ At("cleanup", <<>>) \/ At("assemble", Asked[attempt.job])
    BY <1>6 DEF AllComputed, volume
  <2>2. CASE At("cleanup", <<>>)
    <3>1. attempt'.at = "cleanup" /\ attempt'.job = attempt.job
          /\ DOMAIN attempt' = {"at", "job", "todo", "failed", "dirty"}
      BY <2>2, AtFacts
    <3> QED
      BY <2>1, <3>1 DEF LegacyShape
  <2>3. CASE At("assemble", Asked[attempt.job])
    <3>1. attempt'.at = "assemble" /\ attempt'.job = attempt.job
          /\ attempt'.todo = Asked[attempt.job]
          /\ DOMAIN attempt' = {"at", "job", "todo", "failed", "dirty"}
      BY <2>3, AtFacts
    <3>2. attempt.job \in Jobs
      BY <2>1 DEF LegacyShape
    <3>3. Asked[attempt.job] \in Seq(ToSet(Asked[attempt.job]))
      BY <3>2, OwnItems
    <3> QED
      BY <2>1, <3>1, <3>2, <3>3 DEF LegacyShape
  <2> QED
    BY <2>1, <2>2, <2>3
<1>7. ASSUME Assemble PROVE LegacyShape'
  <2>1. /\ attempt.at = "assemble" /\ attempt.todo # <<>> /\ waiting' = waiting
        /\ attempt.todo \in Seq(ToSet(Asked[attempt.job]))
        /\ attempt.job \in DOMAIN outDir /\ IsFiniteSet(DOMAIN outDir[attempt.job])
    BY <1>7 DEF Assemble, LegacyShape
  <2>2. \/ /\ attempt' = [attempt EXCEPT !.at = "cleanup", !.failed = TRUE]
           /\ outDir' = outDir
        \/ /\ \E content : outDir' = [outDir EXCEPT ![attempt.job] =
                                        With(@, Head(attempt.todo).id, content)]
           /\ At("assemble", Tail(attempt.todo))
    BY <1>7 DEF Assemble
  <2>3. CASE attempt' = [attempt EXCEPT !.at = "cleanup", !.failed = TRUE] /\ outDir' = outDir
    BY <2>1, <2>3, GiveUpFacts DEF LegacyShape
  <2>4. ASSUME NEW content,
               outDir' = [outDir EXCEPT ![attempt.job] = With(@, Head(attempt.todo).id, content)],
               At("assemble", Tail(attempt.todo))
        PROVE  LegacyShape'
    <3>1. attempt'.at = "assemble" /\ attempt'.job = attempt.job /\ attempt'.todo = Tail(attempt.todo)
          /\ DOMAIN attempt' = {"at", "job", "todo", "failed", "dirty"}
      BY <2>4, AtFacts
    <3>2. Tail(attempt.todo) \in Seq(ToSet(Asked[attempt.job]))
      BY <2>1, RestFacts
    <3>3. outDir'[attempt.job] = With(outDir[attempt.job], Head(attempt.todo).id, content)
          /\ attempt.job \in DOMAIN outDir'
      BY <2>1, <2>4
    <3>4. DOMAIN outDir'[attempt.job] = DOMAIN outDir[attempt.job] \cup {Head(attempt.todo).id}
      <4>1. PICK f, x : f = outDir[attempt.job] /\ x = Head(attempt.todo).id
        OBVIOUS
      <4>2. DOMAIN With(f, x, content) = DOMAIN f \cup {x}
        BY WithFacts
      <4> QED
        BY <3>3, <4>1, <4>2
    <3>5. IsFiniteSet(DOMAIN outDir'[attempt.job])
      BY ZenonT(60), <3>4, <2>1, FS_AddElement
    <3> QED
      BY <2>1, <3>1, <3>2, <3>3, <3>5 DEF LegacyShape
  <2> QED
    BY <2>2, <2>3, <2>4
<1>8. ASSUME CheckOutputs PROVE LegacyShape'
  <2>1. /\ attempt.at = "assemble" /\ waiting' = waiting /\ outDir' = outDir
        /\ IsFiniteSet(DOMAIN outDir[attempt.job])
        /\ \/ attempt' = [attempt EXCEPT !.at = "cleanup", !.failed = TRUE]
           \/ At("upload", SetToSeq(DOMAIN outDir[attempt.job]))
    BY <1>8 DEF CheckOutputs, volume, LegacyShape
  <2>2. CASE attempt' = [attempt EXCEPT !.at = "cleanup", !.failed = TRUE]
    BY <2>1, <2>2, GiveUpFacts DEF LegacyShape
  <2>3. CASE At("upload", SetToSeq(DOMAIN outDir[attempt.job]))
    <3>1. attempt'.at = "upload" /\ attempt'.job = attempt.job
          /\ attempt'.todo = SetToSeq(DOMAIN outDir[attempt.job])
          /\ DOMAIN attempt' = {"at", "job", "todo", "failed", "dirty"}
      BY <2>3, AtFacts
    <3>2. SetToSeq(DOMAIN outDir[attempt.job]) \in Seq(DOMAIN outDir[attempt.job])
      BY <2>1, SetToSeqFacts
    <3> QED
      BY <2>1, <3>1, <3>2 DEF LegacyShape
  <2> QED
    BY <2>1, <2>2, <2>3
<1>9. ASSUME Upload PROVE LegacyShape'
  <2>1. /\ attempt.at = "upload" /\ attempt.todo # <<>> /\ At("upload", Tail(attempt.todo))
        /\ waiting' = waiting /\ outDir' = outDir
        /\ attempt.todo \in Seq(DOMAIN outDir[attempt.job])
    BY <1>9 DEF Upload, volume, LegacyShape
  <2>2. Tail(attempt.todo) \in Seq(DOMAIN outDir[attempt.job])
    BY <2>1, RestFacts
  <2>3. attempt'.at = "upload" /\ attempt'.todo = Tail(attempt.todo) /\ attempt'.job = attempt.job
        /\ DOMAIN attempt' = {"at", "job", "todo", "failed", "dirty"}
    BY <2>1, AtFacts
  <2> QED
    BY <2>1, <2>2, <2>3 DEF LegacyShape
<1>10. ASSUME Uploaded PROVE LegacyShape'
  <2>1. attempt.at = "upload" /\ At("cleanup", <<>>) /\ waiting' = waiting /\ outDir' = outDir
    BY <1>10 DEF Uploaded, volume
  <2>2. attempt'.at = "cleanup" /\ attempt'.job = attempt.job
        /\ DOMAIN attempt' = {"at", "job", "todo", "failed", "dirty"}
    BY <2>1, AtFacts
  <2> QED
    BY <2>1, <2>2 DEF LegacyShape
<1>11. ASSUME StepFails PROVE LegacyShape'
  <2>1. /\ attempt.at \in {"download", "assemble", "upload"} /\ waiting' = waiting
        /\ outDir' = outDir /\ attempt' = [attempt EXCEPT !.at = "cleanup", !.failed = TRUE]
    BY <1>11 DEF StepFails
  <2> QED
    BY <2>1, GiveUpFacts DEF LegacyShape
<1>12. ASSUME Cleanup PROVE LegacyShape'
  <2>1. attempt.at = "cleanup" /\ waiting' = waiting
        /\ \E dirty : attempt' = [NoAttempt EXCEPT !.dirty = dirty]
    BY <1>12 DEF Cleanup
  <2> QED
    BY <2>1, IdleFacts DEF LegacyShape
<1>13. ASSUME Kill PROVE LegacyShape'
  <2>1. attempt.at # "idle" /\ waiting' = waiting \cup {attempt.job}
        /\ attempt' = [NoAttempt EXCEPT !.dirty = attempt.dirty]
    BY <1>13 DEF Kill
  <2> QED
    BY <2>1, IdleFacts DEF LegacyShape
<1> QED
  BY <1>1, <1>2, <1>3, <1>4, <1>5, <1>6, <1>7, <1>8, <1>9, <1>10, <1>11, <1>12, <1>13
     DEF LegacyNext

-----------------------------------------------------------------------------
(* Legacy jobs: whose the files on the volume are. *)

\* The jobs that are waiting or running.
Here == waiting \cup (IF attempt.at = "idle" THEN {} ELSE {attempt.job})

\* While no removal has failed, every file is one that a job here may remove.
VolumeOwned ==
    ~attempt.dirty =>
        /\ \A h \in DOMAIN hucDir : \E j \in Here : h \in JobHucs(j)
        /\ \A l \in DOMAIN flow : \E j \in Here : l \in JobLabels(j)
        /\ \A k \in DOMAIN raster : \E j \in Here : k[1] \in JobHucs(j)
        /\ DOMAIN outDir \subseteq Here

\* A step with which no job ends may add files of the jobs here.
LEMMA OwnedKept ==
    ASSUME VolumeOwned, Here' = Here, attempt'.dirty = attempt.dirty,
           \A h \in DOMAIN hucDir' \ DOMAIN hucDir : \E j \in Here : h \in JobHucs(j),
           \A l \in DOMAIN flow' \ DOMAIN flow : \E j \in Here : l \in JobLabels(j),
           \A k \in DOMAIN raster' \ DOMAIN raster : \E j \in Here : k[1] \in JobHucs(j),
           DOMAIN outDir' \subseteq DOMAIN outDir \cup Here
    PROVE  VolumeOwned'
<1>1. SUFFICES ASSUME ~attempt'.dirty
      PROVE  /\ \A h \in DOMAIN hucDir' : \E j \in Here' : h \in JobHucs(j)
             /\ \A l \in DOMAIN flow' : \E j \in Here' : l \in JobLabels(j)
             /\ \A k \in DOMAIN raster' : \E j \in Here' : k[1] \in JobHucs(j)
             /\ DOMAIN outDir' \subseteq Here'
  BY DEF VolumeOwned, JobHucs, JobLabels
<1>2. ~attempt.dirty
  BY <1>1
<1>3. \A h \in DOMAIN hucDir' : \E j \in Here' : h \in JobHucs(j)
  BY <1>2 DEF VolumeOwned
<1>4. \A l \in DOMAIN flow' : \E j \in Here' : l \in JobLabels(j)
  BY <1>2 DEF VolumeOwned
<1>5. \A k \in DOMAIN raster' : \E j \in Here' : k[1] \in JobHucs(j)
  BY <1>2 DEF VolumeOwned
<1>6. DOMAIN outDir' \subseteq Here'
  BY <1>2 DEF VolumeOwned
<1> QED
  BY <1>3, <1>4, <1>5, <1>6

\* A step within an attempt leaves the jobs here as they are.
LEMMA HereKept ==
    ASSUME LegacyShape, attempt.at # "idle", attempt'.at # "idle",
           attempt'.job = attempt.job, waiting' = waiting
    PROVE  Here' = Here /\ attempt.job \in Here
BY DEF Here

\* The labels of a job, in the terms of JobHucs and JobLabels.
LEMMA LabelFacts ==
    ASSUME NEW j, NEW l \in LabelsOf(j)
    PROVE  l.huc \in JobHucs(j) /\ l.label \in JobLabels(j)
BY DEF JobHucs, JobLabels

\* Whatever clean-up removes leaves nothing of the job behind.
LEMMA CleanupFacts ==
    ASSUME LegacyShape, Cleanup, ~attempt'.dirty
    PROVE  /\ attempt.at = "cleanup" /\ attempt'.at = "idle" /\ ~attempt.dirty
           /\ waiting' = waiting
           /\ \A h \in DOMAIN hucDir' : h \in DOMAIN hucDir /\ h \notin JobHucs(attempt.job)
           /\ \A l \in DOMAIN flow' : l \in DOMAIN flow /\ l \notin JobLabels(attempt.job)
           /\ \A k \in DOMAIN raster' : k \in DOMAIN raster /\ k[1] \notin JobHucs(attempt.job)
           /\ \A j \in DOMAIN outDir' : j \in DOMAIN outDir /\ j # attempt.job
<1> DEFINE R == Removed(attempt.job)
           gone(kept, kind) == {p[2] : p \in {x \in R \ kept : x[1] = kind}}
<1>1. PICK kept \in SUBSET R :
        /\ outDir' = Without(outDir, gone(kept, "out"))
        /\ flow' = Without(flow, gone(kept, "flow"))
        /\ hucDir' = Without(hucDir, gone(kept, "huc"))
        /\ raster' = Without(raster, {k \in DOMAIN raster : k[1] \in gone(kept, "huc")})
        /\ attempt' = [NoAttempt EXCEPT !.dirty = attempt.dirty \/ kept # {}]
  BY DEF Cleanup
<1>2. attempt'.at = "idle" /\ ~attempt.dirty /\ kept = {}
  BY <1>1 DEF NoAttempt
<1>3. attempt.at = "cleanup" /\ waiting' = waiting
  BY DEF Cleanup
<1>4. attempt.job \in gone(kept, "out")
  <2>1. <<"out", attempt.job>> \in R \ kept
    BY <1>2 DEF Removed
  <2>2. <<"out", attempt.job>>[1] = "out" /\ <<"out", attempt.job>>[2] = attempt.job
    OBVIOUS
  <2> HIDE DEF R
  <2> QED
    BY <2>1, <2>2
<1>5. ASSUME NEW h \in JobHucs(attempt.job) PROVE h \in gone(kept, "huc")
  <2>1. <<"huc", h>> \in R \ kept
    BY <1>2, <1>5 DEF Removed, JobHucs
  <2>2. <<"huc", h>>[1] = "huc" /\ <<"huc", h>>[2] = h
    OBVIOUS
  <2> HIDE DEF R
  <2> QED
    BY <2>1, <2>2
<1>6. ASSUME NEW l \in JobLabels(attempt.job) PROVE l \in gone(kept, "flow")
  <2>1. <<"flow", l>> \in R \ kept
    BY <1>2, <1>6 DEF Removed, JobLabels
  <2>2. <<"flow", l>>[1] = "flow" /\ <<"flow", l>>[2] = l
    OBVIOUS
  <2> HIDE DEF R
  <2> QED
    BY <2>1, <2>2
<1> HIDE DEF gone
<1>7. \A h \in DOMAIN hucDir' : h \in DOMAIN hucDir /\ h \notin JobHucs(attempt.job)
  BY <1>1, <1>5 DEF Without
<1>8. \A l \in DOMAIN flow' : l \in DOMAIN flow /\ l \notin JobLabels(attempt.job)
  BY <1>1, <1>6 DEF Without
<1>9. \A k \in DOMAIN raster' : k \in DOMAIN raster /\ k[1] \notin JobHucs(attempt.job)
  BY <1>1, <1>5 DEF Without
<1>10. \A j \in DOMAIN outDir' : j \in DOMAIN outDir /\ j # attempt.job
  BY <1>1, <1>4 DEF Without
<1> QED
  BY <1>2, <1>3, <1>7, <1>8, <1>9, <1>10

\* Every step keeps the files with the jobs that may remove them.
LEMMA VolumeOwnedStep ==
    ASSUME LegacyShape, VolumeOwned, LegacyNext
    PROVE  VolumeOwned'
<1>1. ASSUME NEW j \in waiting, Start(j) PROVE VolumeOwned'
  <2>1. /\ attempt.at = "idle" /\ hucDir' = hucDir /\ flow' = flow /\ raster' = raster
        /\ outDir' = With(outDir, j, [file \in {ListFile} |-> {}])
    BY <1>1 DEF Start
  <2>2. attempt'.at = "download" /\ attempt'.job = j /\ waiting' = waiting \ {j}
        /\ attempt'.dirty = attempt.dirty
    BY <1>1, StartFacts
  <2>3. Here' = Here /\ j \in Here
    BY <1>1, <2>1, <2>2 DEF Here
  <2>4. DOMAIN outDir' = DOMAIN outDir \cup {j}
    BY <2>1 DEF With, Updated
  <2> QED
    BY <2>1, <2>2, <2>3, <2>4, OwnedKept
<1>2. ASSUME DownloadHuc PROVE VolumeOwned'
  <2>1. /\ attempt.at = "download" /\ attempt.todo \in Seq(JobHucs(attempt.job)) /\ attempt.todo # <<>>
        /\ At("download", Tail(attempt.todo)) /\ waiting' = waiting
        /\ flow' = flow /\ raster' = raster /\ outDir' = outDir
        /\ hucDir' = WithDefault(hucDir, Head(attempt.todo), "whole")
    BY <1>2 DEF DownloadHuc, LegacyShape
  <2>2. Head(attempt.todo) \in JobHucs(attempt.job)
    BY <2>1, RestFacts
  <2>3. attempt'.at = "download" /\ attempt'.job = attempt.job /\ attempt'.dirty = attempt.dirty
    BY <2>1, AtFacts
  <2>4. Here' = Here /\ attempt.job \in Here
    BY <2>1, <2>3, HereKept
  <2>5. DOMAIN hucDir' = DOMAIN hucDir \cup {Head(attempt.todo)}
    BY <2>1 DEF WithDefault, Updated
  <2> QED
    BY <2>1, <2>2, <2>3, <2>4, <2>5, OwnedKept
<1>3. ASSUME WriteFlowFiles PROVE VolumeOwned'
  <2>1. /\ attempt.at = "download" /\ At("compute", LabelsOf(attempt.job)) /\ waiting' = waiting
        /\ hucDir' = hucDir /\ raster' = raster /\ outDir' = outDir
        /\ flow' = Updated(flow, [l \in JobLabels(attempt.job) |-> attempt.job])
    BY <1>3 DEF WriteFlowFiles, JobLabels
  <2>3. attempt'.at = "compute" /\ attempt'.job = attempt.job /\ attempt'.dirty = attempt.dirty
    BY <2>1, AtFacts
  <2>4. Here' = Here /\ attempt.job \in Here
    BY <2>1, <2>3, HereKept
  <2>5. DOMAIN flow' = DOMAIN flow \cup JobLabels(attempt.job)
    BY <2>1 DEF Updated
  <2> QED
    BY <2>1, <2>3, <2>4, <2>5, OwnedKept
<1>4. ASSUME attempt.at = "compute", NEW l \in attempt.todo, Compute(l) PROVE VolumeOwned'
  <2>1. /\ At("compute", attempt.todo \ {l}) /\ waiting' = waiting /\ attempt.todo \subseteq LabelsOf(attempt.job)
        /\ hucDir' = hucDir /\ flow' = flow /\ outDir' = outDir
        /\ \/ \E r : raster' = With(raster, <<l.huc, l.label>>, r)
           \/ raster' = Without(raster, {<<l.huc, l.label>>})
    BY <1>4 DEF Compute, LegacyShape
  <2>3. attempt'.at = "compute" /\ attempt'.job = attempt.job /\ attempt'.dirty = attempt.dirty
    BY <2>1, AtFacts
  <2>4. Here' = Here /\ attempt.job \in Here
    BY <1>4, <2>1, <2>3, HereKept
  <2>5. DOMAIN raster' \subseteq DOMAIN raster \cup {<<l.huc, l.label>>}
    BY <2>1 DEF With, Without, Updated
  <2>6. l.huc \in JobHucs(attempt.job) /\ <<l.huc, l.label>>[1] = l.huc
    BY <1>4, <2>1, LabelFacts
  <2>7. \A k \in DOMAIN raster' \ DOMAIN raster : k[1] \in JobHucs(attempt.job)
    BY <2>5, <2>6
  <2> QED
    BY <2>1, <2>3, <2>4, <2>7, OwnedKept
<1>5. ASSUME attempt.at = "compute", NEW l \in attempt.todo, ComputeFails(l) PROVE VolumeOwned'
  <2>1. /\ attempt' = [attempt EXCEPT !.todo = @ \ {l}, !.failed = TRUE] /\ waiting' = waiting
        /\ hucDir' = hucDir /\ flow' = flow /\ outDir' = outDir
        /\ raster' = Without(raster, {<<l.huc, l.label>>})
    BY <1>5 DEF ComputeFails
  <2>3. attempt'.at = "compute" /\ attempt'.job = attempt.job /\ attempt'.dirty = attempt.dirty
    BY <1>5, <2>1 DEF LegacyShape
  <2>4. Here' = Here
    BY <1>5, <2>1, <2>3, HereKept
  <2>5. DOMAIN raster' \subseteq DOMAIN raster
    BY <2>1 DEF Without
  <2> QED
    BY <2>1, <2>3, <2>4, <2>5, OwnedKept
<1>6. ASSUME AllComputed PROVE VolumeOwned'
  <2>1. /\ attempt.at = "compute" /\ waiting' = waiting
        /\ hucDir' = hucDir /\ flow' = flow /\ raster' = raster /\ outDir' = outDir
        /\ \E stage \in {"cleanup", "assemble"} : \E todo : At(stage, todo)
    BY <1>6 DEF AllComputed, volume
  <2>2. attempt'.at # "idle" /\ attempt'.job = attempt.job /\ attempt'.dirty = attempt.dirty
    BY <2>1, AtFacts
  <2>4. Here' = Here
    BY <2>1, <2>2, HereKept
  <2> QED
    BY <2>1, <2>2, <2>4, OwnedKept
<1>7. ASSUME Assemble PROVE VolumeOwned'
  <2>1. /\ attempt.at = "assemble" /\ waiting' = waiting
        /\ hucDir' = hucDir /\ flow' = flow
        /\ \/ /\ attempt' = [attempt EXCEPT !.at = "cleanup", !.failed = TRUE]
              /\ outDir' = outDir /\ raster' = raster
           \/ /\ \E content : outDir' = [outDir EXCEPT ![attempt.job] =
                                           With(@, Head(attempt.todo).id, content)]
              /\ \E used : raster' = Without(raster, used)
              /\ At("assemble", Tail(attempt.todo))
    BY <1>7 DEF Assemble
  <2>2. attempt'.at # "idle" /\ attempt'.job = attempt.job /\ attempt'.dirty = attempt.dirty
    BY <2>1, AtFacts, GiveUpFacts
  <2>3. Here' = Here
    BY <2>1, <2>2, HereKept
  <2>4. DOMAIN outDir' = DOMAIN outDir /\ DOMAIN raster' \subseteq DOMAIN raster
    BY <2>1 DEF Without
  <2> QED
    BY <2>1, <2>2, <2>3, <2>4, OwnedKept
<1>8. ASSUME CheckOutputs \/ Upload \/ Uploaded PROVE VolumeOwned'
  <2>1. /\ attempt.at \in {"assemble", "upload"} /\ waiting' = waiting
        /\ hucDir' = hucDir /\ flow' = flow /\ raster' = raster /\ outDir' = outDir
        /\ \/ attempt' = [attempt EXCEPT !.at = "cleanup", !.failed = TRUE]
           \/ \E stage \in {"upload", "cleanup"} : \E todo : At(stage, todo)
    BY <1>8 DEF CheckOutputs, Upload, Uploaded, volume
  <2>2. attempt'.at # "idle" /\ attempt'.job = attempt.job /\ attempt'.dirty = attempt.dirty
    BY <2>1, AtFacts, GiveUpFacts
  <2>3. Here' = Here
    BY <2>1, <2>2, HereKept
  <2> QED
    BY <2>1, <2>2, <2>3, OwnedKept
<1>9. ASSUME StepFails \/ Kill PROVE VolumeOwned'
  <2>1. /\ flow' = flow /\ raster' = raster /\ outDir' = outDir /\ attempt.at # "idle"
        /\ hucDir' = IF attempt.at = "download" /\ attempt.todo # <<>>
                     THEN WithDefault(hucDir, Head(attempt.todo), "partial") ELSE hucDir
        /\ \/ /\ waiting' = waiting
              /\ attempt' = [attempt EXCEPT !.at = "cleanup", !.failed = TRUE]
           \/ /\ waiting' = waiting \cup {attempt.job}
              /\ attempt' = [NoAttempt EXCEPT !.dirty = attempt.dirty]
    BY <1>9 DEF StepFails, Kill
  <2>2. attempt.at = "download" => attempt.todo \in Seq(JobHucs(attempt.job))
    BY DEF LegacyShape
  <2>3. attempt'.dirty = attempt.dirty
    BY <2>1, GiveUpFacts, IdleFacts
  <2>4. Here' = Here /\ attempt.job \in Here
    <3>1. CASE attempt' = [attempt EXCEPT !.at = "cleanup", !.failed = TRUE] /\ waiting' = waiting
      BY <2>1, <3>1, GiveUpFacts, HereKept
    <3>2. CASE /\ attempt' = [NoAttempt EXCEPT !.dirty = attempt.dirty]
               /\ waiting' = waiting \cup {attempt.job}
      <4>1. attempt'.at = "idle"
        BY <3>2, IdleFacts
      <4> QED
        BY <2>1, <3>2, <4>1 DEF Here
    <3> QED
      BY <2>1, <3>1, <3>2
  <2>5. \A h \in DOMAIN hucDir' \ DOMAIN hucDir : h \in JobHucs(attempt.job)
    <3>1. CASE attempt.at = "download" /\ attempt.todo # <<>>
      <4>1. Head(attempt.todo) \in JobHucs(attempt.job)
        BY <2>2, <3>1, RestFacts
      <4>2. DOMAIN hucDir' = DOMAIN hucDir \cup {Head(attempt.todo)}
        BY <2>1, <3>1 DEF WithDefault, Updated
      <4> QED
        BY <4>1, <4>2
    <3>2. CASE ~(attempt.at = "download" /\ attempt.todo # <<>>)
      BY <2>1, <3>2
    <3> QED
      BY <3>1, <3>2
  <2> QED
    BY <2>1, <2>3, <2>4, <2>5, OwnedKept
<1>10. ASSUME Cleanup PROVE VolumeOwned'
  <2>1. SUFFICES ASSUME ~attempt'.dirty
        PROVE  /\ \A h \in DOMAIN hucDir' : \E j \in Here' : h \in JobHucs(j)
               /\ \A l \in DOMAIN flow' : \E j \in Here' : l \in JobLabels(j)
               /\ \A k \in DOMAIN raster' : \E j \in Here' : k[1] \in JobHucs(j)
               /\ DOMAIN outDir' \subseteq Here'
    BY DEF VolumeOwned, JobHucs, JobLabels
  <2>2. /\ attempt.at = "cleanup" /\ attempt'.at = "idle" /\ ~attempt.dirty
        /\ waiting' = waiting
        /\ \A h \in DOMAIN hucDir' : h \in DOMAIN hucDir /\ h \notin JobHucs(attempt.job)
        /\ \A l \in DOMAIN flow' : l \in DOMAIN flow /\ l \notin JobLabels(attempt.job)
        /\ \A k \in DOMAIN raster' : k \in DOMAIN raster /\ k[1] \notin JobHucs(attempt.job)
        /\ \A j \in DOMAIN outDir' : j \in DOMAIN outDir /\ j # attempt.job
    BY <1>10, <2>1, CleanupFacts
  <2>3. Here' = waiting /\ Here = waiting \cup {attempt.job}
    BY <2>2 DEF Here
  <2>4. \A h \in DOMAIN hucDir' : \E j \in Here' : h \in JobHucs(j)
    BY <2>2, <2>3 DEF VolumeOwned
  <2>5. \A l \in DOMAIN flow' : \E j \in Here' : l \in JobLabels(j)
    BY <2>2, <2>3 DEF VolumeOwned
  <2>6. \A k \in DOMAIN raster' : \E j \in Here' : k[1] \in JobHucs(j)
    BY <2>2, <2>3 DEF VolumeOwned
  <2>7. DOMAIN outDir' \subseteq Here'
    BY <2>2, <2>3 DEF VolumeOwned
  <2> QED
    BY <2>4, <2>5, <2>6, <2>7
<1> QED
  BY <1>1, <1>2, <1>3, <1>4, <1>5, <1>6, <1>7, <1>8, <1>9, <1>10 DEF LegacyNext

-----------------------------------------------------------------------------
(* Legacy jobs: how a step changes the volume, the bucket and the counts. *)

HucDirChange ==
    \/ hucDir' = hucDir
    \/ \E v \in {"partial", "whole"} :
         /\ v = "partial" => attempt'.at \in {"cleanup", "idle"}
         /\ hucDir' = WithDefault(hucDir, Head(attempt.todo), v)
    \/ attempt.at = "cleanup" /\ \E S : hucDir' = Without(hucDir, S)

FlowChange ==
    \/ flow' = flow
    \/ /\ attempt.at = "download"
       /\ flow' = Updated(flow, [l \in JobLabels(attempt.job) |-> attempt.job])
    \/ attempt.at = "cleanup" /\ \E S : flow' = Without(flow, S)

RasterChange ==
    \/ raster' = raster
    \/ /\ attempt.at = "compute"
       /\ \E l \in attempt.todo, wet \in BOOLEAN :
            raster' = With(raster, <<l.huc, l.label>>,
                           [by |-> flow[l.label], wet |-> wet, huc |-> l.huc,
                            data |-> hucDir[l.huc]])
    \/ \E S : raster' = Without(raster, S)

OutDirChange ==
    \/ outDir' = outDir
    \/ \E j \in waiting : \E v : outDir' = With(outDir, j, v)
    \/ \E j, v : outDir' = [outDir EXCEPT ![j] = v]
    \/ \E S : outDir' = Without(outDir, S)

BucketChange ==
    \/ bucket' = bucket
    \/ /\ attempt.at = "upload" /\ attempt.todo # <<>> /\ outDir' = outDir
       /\ bucket' = With(bucket, KeyOf(attempt.job, Head(attempt.todo)),
                         [by |-> attempt.job,
                          content |-> outDir[attempt.job][Head(attempt.todo)]])

ResultChange ==
    \/ result' = result
    \/ \E v \in {"failed", "done"} : result' = [result EXCEPT ![attempt.job] = v]

CountsChange ==
    /\ kills' = kills \/ (kills < MaxKills /\ kills' = kills + 1)
    /\ faults' = faults \/ (faults < MaxFaults /\ faults' = faults + 1)

\* Every step changes each part in one of these ways.
LEMMA LegacyChanges ==
    ASSUME LegacyShape, LegacyNext
    PROVE  /\ HucDirChange /\ FlowChange /\ RasterChange /\ OutDirChange
           /\ BucketChange /\ ResultChange /\ CountsChange
<1>1. ASSUME NEW j \in waiting, Start(j)
      PROVE  /\ HucDirChange /\ FlowChange /\ RasterChange /\ OutDirChange
             /\ BucketChange /\ ResultChange /\ CountsChange
  BY <1>1 DEF Start, HucDirChange, FlowChange, RasterChange, OutDirChange, BucketChange,
              ResultChange, CountsChange
<1>2. ASSUME DownloadHuc
      PROVE  /\ HucDirChange /\ FlowChange /\ RasterChange /\ OutDirChange
             /\ BucketChange /\ ResultChange /\ CountsChange
  <2>1. HucDirChange
    BY <1>2 DEF DownloadHuc, HucDirChange
  <2> QED
    BY <1>2, <2>1 DEF DownloadHuc, FlowChange, RasterChange, OutDirChange, BucketChange,
                      ResultChange, CountsChange
<1>3. ASSUME WriteFlowFiles
      PROVE  /\ HucDirChange /\ FlowChange /\ RasterChange /\ OutDirChange
             /\ BucketChange /\ ResultChange /\ CountsChange
  <2>1. FlowChange
    BY <1>3 DEF WriteFlowFiles, FlowChange, JobLabels
  <2> QED
    BY <1>3, <2>1 DEF WriteFlowFiles, HucDirChange, RasterChange, OutDirChange, BucketChange,
                      ResultChange, CountsChange
<1>4. ASSUME attempt.at = "compute", NEW l \in attempt.todo, Compute(l)
      PROVE  /\ HucDirChange /\ FlowChange /\ RasterChange /\ OutDirChange
             /\ BucketChange /\ ResultChange /\ CountsChange
  <2>1. RasterChange
    BY <1>4 DEF Compute, RasterChange
  <2> QED
    BY <1>4, <2>1 DEF Compute, HucDirChange, FlowChange, OutDirChange, BucketChange,
                      ResultChange, CountsChange
<1>5. ASSUME attempt.at = "compute", NEW l \in attempt.todo, ComputeFails(l)
      PROVE  /\ HucDirChange /\ FlowChange /\ RasterChange /\ OutDirChange
             /\ BucketChange /\ ResultChange /\ CountsChange
  BY <1>5 DEF ComputeFails, HucDirChange, FlowChange, RasterChange, OutDirChange, BucketChange,
              ResultChange, CountsChange
<1>6. ASSUME AllComputed \/ CheckOutputs \/ Uploaded
      PROVE  /\ HucDirChange /\ FlowChange /\ RasterChange /\ OutDirChange
             /\ BucketChange /\ ResultChange /\ CountsChange
  BY <1>6 DEF AllComputed, CheckOutputs, Uploaded, volume, HucDirChange, FlowChange, RasterChange,
              OutDirChange, BucketChange, ResultChange, CountsChange
<1>7. ASSUME Assemble
      PROVE  /\ HucDirChange /\ FlowChange /\ RasterChange /\ OutDirChange
             /\ BucketChange /\ ResultChange /\ CountsChange
  <2>1. RasterChange
    BY <1>7 DEF Assemble, RasterChange
  <2>2. OutDirChange
    <3>1. \/ outDir' = outDir
          \/ \E content : outDir' = [outDir EXCEPT ![attempt.job] =
                                           With(@, Head(attempt.todo).id, content)]
      BY <1>7 DEF Assemble
    <3> QED
      BY <3>1 DEF OutDirChange
  <2> QED
    BY <1>7, <2>1, <2>2 DEF Assemble, HucDirChange, FlowChange, BucketChange,
                            ResultChange, CountsChange
<1>8. ASSUME Upload
      PROVE  /\ HucDirChange /\ FlowChange /\ RasterChange /\ OutDirChange
             /\ BucketChange /\ ResultChange /\ CountsChange
  <2>1. BucketChange
    BY <1>8 DEF Upload, volume, BucketChange
  <2> QED
    BY <1>8, <2>1 DEF Upload, volume, HucDirChange, FlowChange, RasterChange,
                      OutDirChange, ResultChange, CountsChange
<1>9. ASSUME StepFails
      PROVE  /\ HucDirChange /\ FlowChange /\ RasterChange /\ OutDirChange
             /\ BucketChange /\ ResultChange /\ CountsChange
  <2>1. attempt'.at = "cleanup"
    BY <1>9, GiveUpFacts DEF StepFails
  <2>2. HucDirChange
    BY <1>9, <2>1 DEF StepFails, HucDirChange
  <2> QED
    BY <1>9, <2>2 DEF StepFails, FlowChange, RasterChange, OutDirChange, BucketChange,
                      ResultChange, CountsChange
<1>10. ASSUME Cleanup
       PROVE  /\ HucDirChange /\ FlowChange /\ RasterChange /\ OutDirChange
              /\ BucketChange /\ ResultChange /\ CountsChange
  <2>1. /\ attempt.at = "cleanup" /\ bucket' = bucket /\ kills' = kills
        /\ \E S : hucDir' = Without(hucDir, S)
        /\ \E S : flow' = Without(flow, S)
        /\ \E S : raster' = Without(raster, S)
        /\ \E S : outDir' = Without(outDir, S)
    BY <1>10 DEF Cleanup
  <2>2. ResultChange
    <3>1. PICK failed : result' = [result EXCEPT ![attempt.job] = IF failed THEN "failed" ELSE "done"]
      BY <1>10 DEF Cleanup
    <3>2. (IF failed THEN "failed" ELSE "done") \in {"failed", "done"}
      OBVIOUS
    <3> QED
      BY <3>1, <3>2 DEF ResultChange
  <2>3. faults' = faults \/ (faults < MaxFaults /\ faults' = faults + 1)
    BY <1>10 DEF Cleanup
  <2> QED
    BY <2>1, <2>2, <2>3 DEF HucDirChange, FlowChange, RasterChange, OutDirChange, BucketChange,
                            CountsChange
<1>11. ASSUME Kill
       PROVE  /\ HucDirChange /\ FlowChange /\ RasterChange /\ OutDirChange
              /\ BucketChange /\ ResultChange /\ CountsChange
  <2>1. attempt'.at = "idle"
    BY <1>11, IdleFacts DEF Kill
  <2>2. HucDirChange
    BY <1>11, <2>1 DEF Kill, HucDirChange
  <2> QED
    BY <1>11, <2>2 DEF Kill, FlowChange, RasterChange, OutDirChange, BucketChange,
                       ResultChange, CountsChange
<1> QED
  BY <1>1, <1>2, <1>3, <1>4, <1>5, <1>6, <1>7, <1>8, <1>9, <1>10, <1>11 DEF LegacyNext

-----------------------------------------------------------------------------
(* Legacy jobs: types, and what a stage leaves for the next. *)

LegacyTypes ==
    /\ \A h \in DOMAIN hucDir : hucDir[h] \in {"partial", "whole"}
    /\ \A l \in DOMAIN flow : l \in LabelSet /\ flow[l] \in Jobs
    /\ \A k \in DOMAIN raster :
         /\ raster[k] \in RasterSet
         /\ \E j \in Jobs : \E l \in LabelsOf(j) : k = <<l.huc, l.label>>
    /\ DOMAIN outDir \subseteq Jobs
    /\ \A key \in DOMAIN bucket : bucket[key].by \in Jobs
    /\ result \in [Jobs -> {"none", "done", "failed"}]
    /\ kills \in 0 .. MaxKills /\ faults \in 0 .. MaxFaults

\* Downloaded HUCs are there, and the flow files are the job's own.
LegacyStage ==
    /\ attempt.at = "download" =>
         \A h \in JobHucs(attempt.job) :
            h \in DOMAIN hucDir \/ \E i \in 1 .. Len(attempt.todo) : attempt.todo[i] = h
    /\ attempt.at = "compute" =>
         \A l \in LabelsOf(attempt.job) :
            l.huc \in DOMAIN hucDir /\ l.label \in DOMAIN flow /\ flow[l.label] = attempt.job

\* Labels of a job are in the sets of the type invariant.
LEMMA LabelTypes ==
    ASSUME NEW j \in Jobs, NEW l \in LabelsOf(j)
    PROVE  /\ l.label \in LabelSet
           /\ \A by \in Jobs, wet \in BOOLEAN, data \in {"partial", "whole"} :
                [by |-> by, wet |-> wet, huc |-> l.huc, data |-> data] \in RasterSet
<1>1. l \in UNION {LabelsOf(i) : i \in Jobs}
  OBVIOUS
<1>2. l.label \in LabelSet
  BY <1>1 DEF LabelSet
<1>3. l.huc \in {x.huc : x \in UNION {LabelsOf(i) : i \in Jobs}}
  BY <1>1
<1> QED
  BY <1>2, <1>3 DEF RasterSet

\* What is left of the stage after a step that stays or moves on.
LEMMA LegacyStageStep ==
    ASSUME LegacyShape, LegacyStage, LegacyNext
    PROVE  LegacyStage'
<1>1. ASSUME NEW j \in waiting, Start(j) PROVE LegacyStage'
  <2>1. j \in Jobs
    BY <1>1 DEF LegacyShape
  <2>2. attempt'.at = "download" /\ attempt'.job = j /\ attempt'.todo = HucsOfJob(j)
    BY <1>1, StartFacts
  <2>3. \A h \in JobHucs(j) : \E i \in 1 .. Len(HucsOfJob(j)) : HucsOfJob(j)[i] = h
    BY <2>1, HucsOfJobFacts
  <2> QED
    BY <2>2, <2>3 DEF LegacyStage, JobHucs
<1>2. ASSUME DownloadHuc PROVE LegacyStage'
  <2>1. /\ attempt.at = "download" /\ attempt.todo \in Seq(JobHucs(attempt.job)) /\ attempt.todo # <<>>
        /\ At("download", Tail(attempt.todo))
        /\ hucDir' = WithDefault(hucDir, Head(attempt.todo), "whole")
    BY <1>2 DEF DownloadHuc, LegacyShape
  <2>2. PICK j, s : j = attempt.job /\ s = attempt.todo /\ s \in Seq(JobHucs(j)) /\ s # <<>>
    BY <2>1
  <2>3. attempt'.at = "download" /\ attempt'.job = j /\ attempt'.todo = Tail(s)
    BY <2>1, <2>2, AtFacts
  <2>4. DOMAIN hucDir' = DOMAIN hucDir \cup {Head(s)}
    BY <2>1, <2>2 DEF WithDefault, Updated
  <2>5. ASSUME NEW h \in JobHucs(j)
        PROVE  h \in DOMAIN hucDir' \/ \E i \in 1 .. Len(Tail(s)) : Tail(s)[i] = h
    <3>1. h \in DOMAIN hucDir \/ \E i \in 1 .. Len(s) : s[i] = h
      BY <2>1, <2>2 DEF LegacyStage
    <3>2. CASE h \in DOMAIN hucDir
      BY <2>4, <3>2
    <3>3. ASSUME NEW i \in 1 .. Len(s), s[i] = h
          PROVE h \in DOMAIN hucDir' \/ \E n \in 1 .. Len(Tail(s)) : Tail(s)[n] = h
      <4>1. Head(s) = s[1] /\ Len(s) \in Nat /\ Len(Tail(s)) = Len(s) - 1
            /\ \A n \in 1 .. Len(Tail(s)) : Tail(s)[n] = s[n + 1]
        BY <2>2, RestFacts
      <4>2. CASE i = 1
        BY <2>4, <3>3, <4>1, <4>2
      <4>3. CASE i # 1
        <5>1. i - 1 \in 1 .. Len(Tail(s)) /\ (i - 1) + 1 = i
          BY <4>1, <4>3
        <5> QED
          BY <3>3, <4>1, <5>1
      <4> QED
        BY <4>2, <4>3
    <3> QED
      BY <3>1, <3>2, <3>3
  <2> QED
    BY <2>3, <2>5 DEF LegacyStage, JobHucs
<1>3. ASSUME WriteFlowFiles PROVE LegacyStage'
  <2>1. /\ attempt.at = "download" /\ attempt.todo = <<>> /\ At("compute", LabelsOf(attempt.job))
        /\ hucDir' = hucDir
        /\ flow' = Updated(flow, [l \in JobLabels(attempt.job) |-> attempt.job])
    BY <1>3 DEF WriteFlowFiles, JobLabels
  <2>2. attempt'.at = "compute" /\ attempt'.job = attempt.job
    BY <2>1, AtFacts
  <2>3. ASSUME NEW l \in LabelsOf(attempt.job)
        PROVE  l.huc \in DOMAIN hucDir' /\ l.label \in DOMAIN flow' /\ flow'[l.label] = attempt.job
    <3>1. l.huc \in JobHucs(attempt.job) /\ l.label \in JobLabels(attempt.job)
      BY LabelFacts
    <3>2. l.huc \in DOMAIN hucDir
      BY <2>1, <3>1 DEF LegacyStage
    <3>3. l.label \in DOMAIN flow' /\ flow'[l.label] = attempt.job
      BY <2>1, <3>1 DEF Updated
    <3> QED
      BY <2>1, <3>2, <3>3
  <2> QED
    BY <2>2, <2>3 DEF LegacyStage
<1>4. ASSUME attempt.at = "compute", NEW l \in attempt.todo, Compute(l) \/ ComputeFails(l)
      PROVE  LegacyStage'
  <2>1. /\ hucDir' = hucDir /\ flow' = flow
        /\ attempt'.at = "compute" /\ attempt'.job = attempt.job
    <3>1. CASE Compute(l)
      BY <3>1, AtFacts DEF Compute
    <3>2. CASE ComputeFails(l)
      BY <1>4, <3>2 DEF ComputeFails, LegacyShape
    <3> QED
      BY <1>4, <3>1, <3>2
  <2> QED
    BY <1>4, <2>1 DEF LegacyStage
<1>5. ASSUME AllComputed \/ Assemble \/ CheckOutputs \/ Upload \/ Uploaded \/ StepFails
              \/ Cleanup \/ Kill
      PROVE  LegacyStage'
  <2>1. \/ attempt' = [attempt EXCEPT !.at = "cleanup", !.failed = TRUE]
        \/ \E stage \in {"cleanup", "assemble", "upload"} : \E todo : At(stage, todo)
        \/ \E dirty : attempt' = [NoAttempt EXCEPT !.dirty = dirty]
    BY <1>5 DEF AllComputed, Assemble, CheckOutputs, Upload, Uploaded, StepFails, Cleanup, Kill
  <2>2. attempt'.at \notin {"download", "compute"}
    BY <2>1, AtFacts, GiveUpFacts, IdleFacts
  <2> QED
    BY <2>2 DEF LegacyStage
<1> QED
  BY <1>1, <1>2, <1>3, <1>4, <1>5 DEF LegacyNext

\* The types are kept by every step.
LEMMA LegacyTypesStep ==
    ASSUME LegacyShape, LegacyTypes, LegacyStage, LegacyNext
    PROVE  LegacyTypes'
<1>1. /\ HucDirChange /\ FlowChange /\ RasterChange /\ OutDirChange
      /\ BucketChange /\ ResultChange /\ CountsChange
  BY LegacyChanges
<1>2. \A h \in DOMAIN hucDir' : hucDir'[h] \in {"partial", "whole"}
  BY <1>1 DEF HucDirChange, LegacyTypes, WithDefault, Updated, Without
<1>3. \A l \in DOMAIN flow' : l \in LabelSet /\ flow'[l] \in Jobs
  <2>1. CASE attempt.at = "download" /\ flow' = Updated(flow, [l \in JobLabels(attempt.job) |-> attempt.job])
    <3>1. attempt.job \in Jobs
      BY <2>1 DEF LegacyShape
    <3>2. \A l \in JobLabels(attempt.job) : l \in LabelSet
      BY <3>1, LabelTypes DEF JobLabels
    <3> QED
      BY <2>1, <3>1, <3>2 DEF LegacyTypes, Updated
  <2>2. CASE flow' = flow \/ \E S : flow' = Without(flow, S)
    BY <2>2 DEF LegacyTypes, Without
  <2> QED
    BY <1>1, <2>1, <2>2 DEF FlowChange
<1>4. \A k \in DOMAIN raster' :
         /\ raster'[k] \in RasterSet
         /\ \E j \in Jobs : \E l \in LabelsOf(j) : k = <<l.huc, l.label>>
  <2>1. ASSUME attempt.at = "compute", NEW l \in attempt.todo, NEW wet \in BOOLEAN,
               raster' = With(raster, <<l.huc, l.label>>,
                           [by |-> flow[l.label], wet |-> wet, huc |-> l.huc,
                            data |-> hucDir[l.huc]])
        PROVE  \A k \in DOMAIN raster' :
                 /\ raster'[k] \in RasterSet
                 /\ \E j \in Jobs : \E x \in LabelsOf(j) : k = <<x.huc, x.label>>
    <3>1. attempt.job \in Jobs /\ l \in LabelsOf(attempt.job)
      BY <2>1 DEF LegacyShape
    <3>2. flow[l.label] = attempt.job /\ hucDir[l.huc] \in {"partial", "whole"}
      BY <2>1, <3>1 DEF LegacyStage, LegacyTypes
    <3>3. PICK r, key : r = [by |-> flow[l.label], wet |-> wet, huc |-> l.huc, data |-> hucDir[l.huc]]
                        /\ key = <<l.huc, l.label>>
      OBVIOUS
    <3>4. r \in RasterSet
      <4>1. [by |-> attempt.job, wet |-> wet, huc |-> l.huc, data |-> hucDir[l.huc]] \in RasterSet
        BY <3>1, <3>2, LabelTypes
      <4> QED
        BY <4>1, <3>2, <3>3
    <3>5. DOMAIN raster' = DOMAIN raster \cup {key} /\ raster'[key] = r
          /\ \A k \in DOMAIN raster : k # key => raster'[k] = raster[k]
      BY <2>1, <3>3 DEF With, Updated
    <3> QED
      BY <3>1, <3>3, <3>4, <3>5 DEF LegacyTypes
  <2>2. CASE raster' = raster \/ \E S : raster' = Without(raster, S)
    BY <2>2 DEF LegacyTypes, Without
  <2> QED
    BY <1>1, <2>1, <2>2 DEF RasterChange
<1>5. DOMAIN outDir' \subseteq Jobs
  <2>1. waiting \subseteq Jobs
    BY DEF LegacyShape
  <2> QED
    BY <1>1, <2>1 DEF OutDirChange, LegacyTypes, With, Updated, Without
<1>6. \A key \in DOMAIN bucket' : bucket'[key].by \in Jobs
  <2>1. CASE bucket' = bucket
    BY <2>1 DEF LegacyTypes
  <2>2. CASE /\ attempt.at = "upload"
             /\ bucket' = With(bucket, KeyOf(attempt.job, Head(attempt.todo)),
                         [by |-> attempt.job,
                          content |-> outDir[attempt.job][Head(attempt.todo)]])
    <3>1. attempt.job \in Jobs
      BY <2>2 DEF LegacyShape
    <3>2. PICK k, c : k = KeyOf(attempt.job, Head(attempt.todo))
                      /\ c = outDir[attempt.job][Head(attempt.todo)]
      OBVIOUS
    <3>3. bucket' = With(bucket, k, [by |-> attempt.job, content |-> c])
      BY <2>2, <3>2
    <3>4. [by |-> attempt.job, content |-> c].by \in Jobs
      BY <3>1
    <3> QED
      BY <3>3, <3>4 DEF LegacyTypes, With, Updated
  <2> QED
    BY <1>1, <2>1, <2>2 DEF BucketChange
<1>7. result' \in [Jobs -> {"none", "done", "failed"}]
  BY <1>1 DEF ResultChange, LegacyTypes
<1>8. kills' \in 0 .. MaxKills /\ faults' \in 0 .. MaxFaults
  BY <1>1, LegacyAssumption DEF CountsChange, LegacyTypes
<1> QED
  BY <1>2, <1>3, <1>4, <1>5, <1>6, <1>7, <1>8 DEF LegacyTypes, RasterSet, LabelSet

-----------------------------------------------------------------------------
(* Legacy jobs: keys that are not taken, and outputs that are the job's own. *)

\* While a job uploads, each file is uploaded once, and its key is free unless
\* the job may overwrite it.
LegacyFresh ==
    attempt.at = "upload" =>
        /\ \A i, k \in 1 .. Len(attempt.todo) : attempt.todo[i] = attempt.todo[k] => i = k
        /\ attempt.job \notin Overwriting =>
             \A i \in 1 .. Len(attempt.todo) :
                KeyOf(attempt.job, attempt.todo[i]) \notin DOMAIN bucket

\* The keys ahead stay free: an upload takes only its own.
LEMMA LegacyFreshStep ==
    ASSUME LegacyShape, LegacyFresh, LegacyNext
    PROVE  LegacyFresh'
<1>1. ASSUME CheckOutputs PROVE LegacyFresh'
  <2>1. /\ attempt.at = "assemble" /\ bucket' = bucket
        /\ IsFiniteSet(DOMAIN outDir[attempt.job])
        /\ \/ attempt' = [attempt EXCEPT !.at = "cleanup", !.failed = TRUE]
           \/ /\ ~Taken(attempt.job)
              /\ At("upload", SetToSeq(DOMAIN outDir[attempt.job]))
    BY <1>1 DEF CheckOutputs, LegacyShape
  <2>2. CASE attempt' = [attempt EXCEPT !.at = "cleanup", !.failed = TRUE]
    BY <2>2, GiveUpFacts DEF LegacyFresh
  <2>3. CASE ~Taken(attempt.job) /\ At("upload", SetToSeq(DOMAIN outDir[attempt.job]))
    <3>1. PICK j, S, s : j = attempt.job /\ S = DOMAIN outDir[j] /\ s = SetToSeq(S)
      OBVIOUS
    <3>2. attempt'.job = j /\ attempt'.todo = s
      BY <2>3, <3>1, AtFacts
    <3>3. s \in Seq(S) /\ \A i, k \in 1 .. Len(s) : s[i] = s[k] => i = k
      BY <2>1, <3>1, SetToSeqFacts
    <3>4. ASSUME j \notin Overwriting, NEW i \in 1 .. Len(s) PROVE KeyOf(j, s[i]) \notin DOMAIN bucket
      <4>1. s[i] \in S
        BY <3>3
      <4> QED
        BY <2>3, <3>1, <3>4, <4>1 DEF Taken
    <3> QED
      BY <2>1, <3>2, <3>3, <3>4 DEF LegacyFresh, KeyOf
  <2> QED
    BY <2>1, <2>2, <2>3
<1>2. ASSUME Upload PROVE LegacyFresh'
  <2>1. /\ attempt.at = "upload" /\ attempt.todo # <<>> /\ At("upload", Tail(attempt.todo))
        /\ attempt.todo \in Seq(DOMAIN outDir[attempt.job])
        /\ \E v : bucket' = With(bucket, KeyOf(attempt.job, Head(attempt.todo)), v)
    BY <1>2 DEF Upload, LegacyShape
  <2>2. PICK j, s, S : j = attempt.job /\ s = attempt.todo /\ s \in Seq(S) /\ s # <<>>
    BY <2>1
  <2>3. attempt'.job = j /\ attempt'.todo = Tail(s)
    BY <2>1, <2>2, AtFacts
  <2>4. DOMAIN bucket' = DOMAIN bucket \cup {KeyOf(j, Head(s))}
    BY <2>1, <2>2 DEF With, Updated
  <2>5. /\ Len(s) \in Nat \ {0} /\ Head(s) = s[1] /\ Len(Tail(s)) = Len(s) - 1
        /\ \A i \in 1 .. Len(Tail(s)) : i + 1 \in 1 .. Len(s) /\ Tail(s)[i] = s[i + 1]
    BY <2>2, RestFacts
  <2>6. \A i, k \in 1 .. Len(s) : s[i] = s[k] => i = k
    BY <2>1, <2>2 DEF LegacyFresh
  <2>7. ASSUME NEW i \in 1 .. Len(Tail(s)), NEW k \in 1 .. Len(Tail(s)), Tail(s)[i] = Tail(s)[k]
        PROVE  i = k
    <3>1. i + 1 = k + 1
      BY <2>5, <2>6, <2>7
    <3> QED
      BY <3>1
  <2>8. ASSUME j \notin Overwriting, NEW i \in 1 .. Len(Tail(s))
        PROVE  KeyOf(j, Tail(s)[i]) \notin DOMAIN bucket'
    <3>1. i + 1 \in 1 .. Len(s) /\ Tail(s)[i] = s[i + 1] /\ 1 \in 1 .. Len(s) /\ i + 1 # 1
      BY <2>5
    <3>2. s[i + 1] # s[1]
      BY <2>6, <3>1
    <3>3. KeyOf(j, s[i + 1]) \notin DOMAIN bucket
      BY <2>1, <2>2, <2>8, <3>1 DEF LegacyFresh
    <3>4. KeyOf(j, s[i + 1]) # KeyOf(j, s[1])
      BY <3>2 DEF KeyOf
    <3> QED
      BY <2>4, <2>5, <3>1, <3>3, <3>4
  <2> QED
    BY <2>3, <2>7, <2>8 DEF LegacyFresh, KeyOf
<1>3. ASSUME ~CheckOutputs, ~Upload PROVE LegacyFresh'
  <2>1. \/ attempt'.at # "upload"
        \/ attempt' = [attempt EXCEPT !.at = "cleanup", !.failed = TRUE]
        \/ \E stage \in {"cleanup", "assemble", "compute", "download"} : \E todo : At(stage, todo)
        \/ \E dirty : attempt' = [NoAttempt EXCEPT !.dirty = dirty]
    <3>1. ASSUME NEW j \in waiting, Start(j) PROVE attempt'.at # "upload"
      BY <3>1, StartFacts
    <3>2. ASSUME attempt.at = "compute", NEW l \in attempt.todo, Compute(l) \/ ComputeFails(l)
          PROVE  \/ attempt'.at # "upload"
                 \/ \E stage \in {"cleanup", "assemble", "compute", "download"} : \E todo : At(stage, todo)
      <4>1. CASE Compute(l)
        BY <4>1 DEF Compute
      <4>2. CASE ComputeFails(l)
        BY <3>2, <4>2 DEF ComputeFails, LegacyShape
      <4> QED
        BY <3>2, <4>1, <4>2
    <3>3. ASSUME DownloadHuc \/ WriteFlowFiles \/ AllComputed \/ Assemble \/ Uploaded
                  \/ StepFails \/ Cleanup \/ Kill
          PROVE  \/ attempt' = [attempt EXCEPT !.at = "cleanup", !.failed = TRUE]
                 \/ \E stage \in {"cleanup", "assemble", "compute", "download"} : \E todo : At(stage, todo)
                 \/ \E dirty : attempt' = [NoAttempt EXCEPT !.dirty = dirty]
      BY <3>3 DEF DownloadHuc, WriteFlowFiles, AllComputed, Assemble, Uploaded, StepFails,
                  Cleanup, Kill
    <3> QED
      BY <1>3, <3>1, <3>2, <3>3 DEF LegacyNext
  <2>2. attempt'.at # "upload"
    BY <2>1, AtFacts, GiveUpFacts, IdleFacts
  <2> QED
    BY <2>2 DEF LegacyFresh
<1> QED
  BY <1>1, <1>2, <1>3

\* What is in the bucket is only replaced on request.
LEMMA LegacyReplaceStep ==
    ASSUME LegacyShape, LegacyFresh, LegacyNext
    PROVE  \A key \in DOMAIN bucket : bucket'[key] # bucket[key] => attempt.job \in Overwriting
<1> SUFFICES ASSUME NEW key \in DOMAIN bucket, bucket'[key] # bucket[key]
             PROVE  attempt.job \in Overwriting
  OBVIOUS
<1>1. /\ attempt.at = "upload" /\ attempt.todo # <<>>
      /\ \E v : bucket' = With(bucket, KeyOf(attempt.job, Head(attempt.todo)), v)
  BY LegacyChanges DEF BucketChange
<1>2. key = KeyOf(attempt.job, Head(attempt.todo))
  BY <1>1 DEF With, Updated
<1>3. PICK s, S : s = attempt.todo /\ s \in Seq(S) /\ s # <<>>
  BY <1>1 DEF LegacyShape
<1>4. Head(s) = s[1] /\ 1 \in 1 .. Len(s)
  BY <1>3, RestFacts
<1> QED
  BY <1>1, <1>2, <1>3, <1>4 DEF LegacyFresh

\* A scenario is asked for once in a job, and a HUC's label is the beginning of
\* the stem of no other label of that HUC.
NamesApart ==
    /\ \A j \in Jobs : \A s, t \in ToSet(Asked[j]) : s.id = t.id => s = t
    /\ \A i, j \in Jobs : \A l \in LabelsOf(i), m \in LabelsOf(j) :
         l.huc = m.huc /\ IsPrefix(l.label, Stem(m.label)) => m.label = l.label

HucsNamed(job, file) ==
    UNION {ToSet(s.hucs) : s \in {x \in ToSet(Asked[job]) : x.id = file}}

OwnContent(job, file, content) ==
    /\ \A r \in content : r.by = job /\ r.wet
    /\ {r.huc : r \in content} = HucsNamed(job, file)

\* The rasters under the job's names are its own once they are computed, and so
\* are the files made from them and what is uploaded.
LegacyOwnRasters ==
    attempt.at \in {"compute", "assemble"} =>
        \A l \in LabelsOf(attempt.job) :
            /\ attempt.at = "compute" => l \notin attempt.todo
            /\ <<l.huc, l.label>> \in DOMAIN raster
            => /\ raster[<<l.huc, l.label>>].by = attempt.job
               /\ raster[<<l.huc, l.label>>].huc = l.huc

LegacyOwnFiles ==
    attempt.at \in {"download", "compute", "assemble", "upload"} =>
        \A file \in DOMAIN outDir[attempt.job] :
            file # ListFile => OwnContent(attempt.job, file, outDir[attempt.job][file])

LegacyOwnObjects ==
    \A key \in DOMAIN bucket :
        key[2] # ListFile => OwnContent(bucket[key].by, key[2], bucket[key].content)

\* With names apart, a glob pattern finds the HUC's own raster or nothing.
LEMMA CandidateFacts ==
    ASSUME NamesApart, LegacyTypes, NEW j \in Jobs, NEW s \in ToSet(Asked[j]),
           NEW h \in ToSet(s.hucs), Candidates(h, Label(s.id, h)) # {}
    PROVE  /\ <<h, Label(s.id, h)>> \in DOMAIN raster
           /\ [huc |-> h, label |-> Label(s.id, h)] \in LabelsOf(j)
           /\ First(Candidates(h, Label(s.id, h))) = <<h, Label(s.id, h)>>
<1> DEFINE L == Label(s.id, h)
           own == [huc |-> h, label |-> L]
<1>1. own \in LabelsOf(j)
  <2> DEFINE of(x) == {[huc |-> y, label |-> Label(x.id, y)] : y \in ToSet(x.hucs)}
  <2>1. LabelsOf(j) = UNION {of(x) : x \in ToSet(Asked[j])} /\ own \in of(s)
    BY DEF LabelsOf
  <2> HIDE DEF of, own
  <2> QED
    BY <2>1
<1>2. own.huc = h /\ own.label = L
  OBVIOUS
<1> HIDE DEF own
<1>3. ASSUME NEW k \in Candidates(h, L) PROVE k = <<h, L>> /\ k \in DOMAIN raster
  <2>1. k \in DOMAIN raster /\ k[1] = h /\ IsPrefix(L, Stem(k[2]))
    BY <1>3 DEF Candidates
  <2>2. PICK i \in Jobs : \E m \in LabelsOf(i) : k = <<m.huc, m.label>>
    BY <2>1 DEF LegacyTypes
  <2>3. PICK m \in LabelsOf(i) : k = <<m.huc, m.label>>
    BY <2>2
  <2>4. m.huc = h /\ k[2] = m.label
    BY <2>1, <2>3
  <2>5. m.label = L
    BY <1>1, <1>2, <2>1, <2>4 DEF NamesApart
  <2> QED
    BY <2>1, <2>3, <2>4, <2>5
<1>4. Candidates(h, L) = {<<h, L>>} /\ <<h, L>> \in DOMAIN raster
  BY <1>3
<1>5. Len(<<h, L>>[2]) \in Int
  <2>1. s.id \in Seq(Int) /\ h \in Int
    <3>1. PICK a, R : a = Asked[j] /\ R = [id : Seq(Int), hucs : Seq(Nat)] /\ a \in Seq(R)
      BY LegacyAssumption
    <3>2. s \in R
      BY <3>1, ToSetFacts
    <3>3. s.id \in Seq(Int) /\ s.hucs \in Seq(Nat)
      BY <3>1, <3>2
    <3>4. h \in Nat
      BY <3>3, ToSetFacts
    <3> QED
      BY <3>3, <3>4
  <2>2. L \in Seq(Int)
    <3>1. PICK p : p = s.id /\ p \in Seq(Int)
      BY <2>1
    <3>2. <<-2, h>> \in Seq(Int)
      BY <2>1
    <3>3. p \o <<-2, h>> \in Seq(Int)
      BY <3>1, <3>2
    <3> QED
      BY <3>1, <3>3 DEF Label, Underscores
  <2> HIDE DEF L
  <2> QED
    BY <2>2
<1>6. First({<<h, L>>}) = <<h, L>>
  <2> DEFINE k0 == <<h, L>>
  <2>1. Len(k0[2]) <= Len(k0[2])
    BY <1>5
  <2> HIDE DEF k0, L
  <2>2. First({k0}) = k0
    BY <2>1 DEF First
  <2> QED
    BY <2>2 DEF k0
<1> QED
  BY <1>1, <1>4, <1>6 DEF own

\* The raster of a scenario is made from the job's own, one for each HUC.
LEMMA AssembledOwn ==
    ASSUME NamesApart, LegacyTypes, LegacyOwnRasters, attempt.at = "assemble",
           attempt.job \in Jobs, NEW s \in ToSet(Asked[attempt.job]), NEW used,
           used = {First(Candidates(h, Label(s.id, h))) : h \in ToSet(s.hucs)},
           \A h \in ToSet(s.hucs) : Candidates(h, Label(s.id, h)) # {},
           \A k \in used : raster[k].wet
    PROVE  OwnContent(attempt.job, s.id, {raster[k] : k \in used})
<1>1. ASSUME NEW h \in ToSet(s.hucs)
      PROVE  LET k == First(Candidates(h, Label(s.id, h)))
             IN raster[k].by = attempt.job /\ raster[k].huc = h
  <2>1. /\ <<h, Label(s.id, h)>> \in DOMAIN raster
        /\ [huc |-> h, label |-> Label(s.id, h)] \in LabelsOf(attempt.job)
        /\ First(Candidates(h, Label(s.id, h))) = <<h, Label(s.id, h)>>
    BY CandidateFacts
  <2>2. PICK l \in LabelsOf(attempt.job) : l = [huc |-> h, label |-> Label(s.id, h)]
    BY <2>1
  <2>3. l.huc = h /\ l.label = Label(s.id, h)
    BY <2>2
  <2>4. raster[<<l.huc, l.label>>].by = attempt.job /\ raster[<<l.huc, l.label>>].huc = l.huc
    BY <2>1, <2>3 DEF LegacyOwnRasters
  <2> QED
    BY <2>1, <2>3, <2>4
<1>2. \A r \in {raster[k] : k \in used} : r.by = attempt.job /\ r.wet
  BY <1>1
<1>3. {r.huc : r \in {raster[k] : k \in used}} = ToSet(s.hucs)
  BY <1>1
<1>4. HucsNamed(attempt.job, s.id) = ToSet(s.hucs)
  <2>1. {x \in ToSet(Asked[attempt.job]) : x.id = s.id} = {s}
    BY DEF NamesApart
  <2> QED
    BY <2>1 DEF HucsNamed
<1> QED
  BY <1>2, <1>3, <1>4 DEF OwnContent

\* Each label computed leaves the job's own raster or none.
LEMMA LegacyOwnRastersStep ==
    ASSUME LegacyShape, LegacyStage, LegacyOwnRasters, LegacyNext
    PROVE  LegacyOwnRasters'
<1>1. ASSUME NEW j \in waiting, Start(j) PROVE LegacyOwnRasters'
  BY <1>1, StartFacts DEF LegacyOwnRasters
<1>2. ASSUME DownloadHuc \/ CheckOutputs \/ Upload \/ Uploaded \/ StepFails \/ Cleanup \/ Kill
      PROVE  LegacyOwnRasters'
  <2>1. \/ attempt' = [attempt EXCEPT !.at = "cleanup", !.failed = TRUE]
        \/ \E stage \in {"cleanup", "upload", "download"} : \E todo : At(stage, todo)
        \/ \E dirty : attempt' = [NoAttempt EXCEPT !.dirty = dirty]
    BY <1>2 DEF DownloadHuc, CheckOutputs, Upload, Uploaded, StepFails, Cleanup, Kill
  <2>2. attempt'.at \notin {"compute", "assemble"}
    BY <2>1, AtFacts, GiveUpFacts, IdleFacts
  <2> QED
    BY <2>2 DEF LegacyOwnRasters
<1>3. ASSUME WriteFlowFiles PROVE LegacyOwnRasters'
  <2>1. attempt'.at = "compute" /\ attempt'.todo = LabelsOf(attempt.job) /\ attempt'.job = attempt.job
    BY <1>3, AtFacts DEF WriteFlowFiles
  <2> QED
    BY <2>1 DEF LegacyOwnRasters
<1>4. ASSUME attempt.at = "compute", NEW l \in attempt.todo, Compute(l) \/ ComputeFails(l)
      PROVE  LegacyOwnRasters'
  <2>1. /\ attempt'.at = "compute" /\ attempt'.job = attempt.job
        /\ attempt'.todo = attempt.todo \ {l}
    <3>1. CASE Compute(l)
      BY <3>1, AtFacts DEF Compute
    <3>2. CASE ComputeFails(l)
      BY <1>4, <3>2 DEF ComputeFails, LegacyShape
    <3> QED
      BY <1>4, <3>1, <3>2
  <2>2. PICK key : key = <<l.huc, l.label>>
    OBVIOUS
  <2>3. \/ \E wet : raster' = With(raster, key, [by |-> flow[l.label], wet |-> wet, huc |-> l.huc,
                                                 data |-> hucDir[l.huc]])
        \/ raster' = Without(raster, {key})
    BY <1>4, <2>2 DEF Compute, ComputeFails
  <2>4. flow[l.label] = attempt.job
    BY <1>4 DEF LegacyShape, LegacyStage
  <2>5. /\ \A k \in DOMAIN raster' : k # key => k \in DOMAIN raster /\ raster'[k] = raster[k]
        /\ key \in DOMAIN raster' => raster'[key].by = attempt.job /\ raster'[key].huc = l.huc
    <3>1. ASSUME NEW wet, NEW d,
                 raster' = With(raster, key, [by |-> flow[l.label], wet |-> wet, huc |-> l.huc,
                                                 data |-> d])
          PROVE  /\ \A k \in DOMAIN raster' : k # key => k \in DOMAIN raster /\ raster'[k] = raster[k]
                 /\ raster'[key].by = attempt.job /\ raster'[key].huc = l.huc
      <4>1. PICK r : /\ r = [by |-> flow[l.label], wet |-> wet, huc |-> l.huc, data |-> d]
                     /\ r.by = attempt.job /\ r.huc = l.huc
        <5> DEFINE v == [by |-> flow[l.label], wet |-> wet, huc |-> l.huc, data |-> d]
        <5>1. v.by = attempt.job /\ v.huc = l.huc
          BY <2>4
        <5> HIDE DEF v
        <5>2. \E r : r = v /\ r.by = attempt.job /\ r.huc = l.huc
          BY <5>1
        <5> QED
          BY <5>2 DEF v
      <4> QED
        BY <3>1, <4>1 DEF With, Updated
    <3>2. CASE raster' = Without(raster, {key})
      BY <3>2 DEF Without
    <3> QED
      BY <2>3, <3>1, <3>2
  <2>6. ASSUME NEW x \in LabelsOf(attempt.job), x \notin attempt.todo \ {l},
               <<x.huc, x.label>> \in DOMAIN raster'
        PROVE  /\ raster'[<<x.huc, x.label>>].by = attempt.job
               /\ raster'[<<x.huc, x.label>>].huc = x.huc
    <3>1. CASE <<x.huc, x.label>> = key
      <4>1. x.huc = l.huc
        BY <2>2, <3>1
      <4> QED
        BY <2>5, <2>6, <3>1, <4>1
    <3>2. CASE <<x.huc, x.label>> # key
      <4>1. x \notin attempt.todo
        BY <2>2, <2>6, <3>2
      <4>2. /\ <<x.huc, x.label>> \in DOMAIN raster
            /\ raster'[<<x.huc, x.label>>] = raster[<<x.huc, x.label>>]
        BY <2>5, <2>6, <3>2
      <4> QED
        BY <1>4, <2>6, <4>1, <4>2 DEF LegacyOwnRasters
    <3> QED
      BY <3>1, <3>2
  <2> QED
    BY <2>1, <2>6 DEF LegacyOwnRasters
<1>5. ASSUME AllComputed PROVE LegacyOwnRasters'
  <2>1. /\ attempt.at = "compute" /\ attempt.todo = {} /\ raster' = raster
        /\ \E stage \in {"cleanup", "assemble"} : \E todo : At(stage, todo)
    BY <1>5 DEF AllComputed, volume
  <2>2. attempt'.at \in {"cleanup", "assemble"} /\ attempt'.job = attempt.job
    BY <2>1, AtFacts
  <2> QED
    BY <2>1, <2>2 DEF LegacyOwnRasters
<1>6. ASSUME Assemble PROVE LegacyOwnRasters'
  <2>1. /\ attempt.at = "assemble"
        /\ \/ attempt' = [attempt EXCEPT !.at = "cleanup", !.failed = TRUE]
           \/ /\ \E used : raster' = Without(raster, used)
              /\ At("assemble", Tail(attempt.todo))
    BY <1>6 DEF Assemble
  <2>2. \/ attempt'.at = "cleanup"
        \/ /\ attempt'.at = "assemble" /\ attempt'.job = attempt.job
           /\ \E used : raster' = Without(raster, used)
    BY <2>1, AtFacts, GiveUpFacts
  <2> QED
    BY <2>1, <2>2 DEF LegacyOwnRasters, Without
<1> QED
  BY <1>1, <1>2, <1>3, <1>4, <1>5, <1>6 DEF LegacyNext

\* Files are made from own rasters only.
LEMMA LegacyOwnFilesStep ==
    ASSUME NamesApart, LegacyShape, LegacyTypes, LegacyOwnRasters, LegacyOwnFiles, LegacyNext
    PROVE  LegacyOwnFiles'
<1>1. ASSUME NEW j \in waiting, Start(j) PROVE LegacyOwnFiles'
  <2>1. attempt'.job = j
    BY <1>1, StartFacts
  <2>2. outDir' = With(outDir, j, [file \in {ListFile} |-> {}])
    BY <1>1 DEF Start
  <2>3. DOMAIN outDir'[j] = {ListFile}
    BY <2>2 DEF With, Updated
  <2> QED
    BY <2>1, <2>3 DEF LegacyOwnFiles
<1>2. ASSUME DownloadHuc \/ WriteFlowFiles \/ AllComputed \/ CheckOutputs \/ Upload \/ Uploaded
              \/ StepFails \/ (attempt.at = "compute" /\ \E l \in attempt.todo : Compute(l) \/ ComputeFails(l))
      PROVE  LegacyOwnFiles'
  <2>1. /\ outDir' = outDir /\ attempt.at \in {"download", "compute", "assemble", "upload"}
        /\ \/ attempt' = [attempt EXCEPT !.at = "cleanup", !.failed = TRUE]
           \/ \E stage, todo : At(stage, todo)
           \/ \E l : attempt' = [attempt EXCEPT !.todo = @ \ {l}, !.failed = TRUE]
    BY <1>2 DEF DownloadHuc, WriteFlowFiles, AllComputed, CheckOutputs, Upload, Uploaded,
                StepFails, Compute, ComputeFails, volume
  <2>2. attempt'.job = attempt.job
    <3>1. CASE \E l : attempt' = [attempt EXCEPT !.todo = @ \ {l}, !.failed = TRUE]
      BY <3>1 DEF LegacyShape
    <3> QED
      BY <2>1, <3>1, AtFacts, GiveUpFacts
  <2> QED
    BY <2>1, <2>2 DEF LegacyOwnFiles, OwnContent
<1>3. ASSUME Assemble PROVE LegacyOwnFiles'
  <2> DEFINE s == Head(attempt.todo)
             found(h) == Candidates(h, Label(s.id, h))
             used == {First(found(h)) : h \in ToSet(s.hucs)}
  <2>1. /\ attempt.at = "assemble" /\ attempt.todo # <<>>
        /\ attempt.todo \in Seq(ToSet(Asked[attempt.job]))
        /\ attempt.job \in Jobs /\ attempt.job \in DOMAIN outDir
    BY <1>3 DEF Assemble, LegacyShape
  <2>2. \/ attempt' = [attempt EXCEPT !.at = "cleanup", !.failed = TRUE]
        \/ /\ \A h \in ToSet(s.hucs) : found(h) # {}
           /\ \A k \in used : raster[k].wet
           /\ outDir' = [outDir EXCEPT ![attempt.job] = With(@, s.id, {raster[k] : k \in used})]
           /\ At("assemble", Tail(attempt.todo))
    BY <1>3 DEF Assemble
  <2>3. CASE attempt' = [attempt EXCEPT !.at = "cleanup", !.failed = TRUE]
    BY <2>3, GiveUpFacts DEF LegacyOwnFiles
  <2>4. CASE /\ \A h \in ToSet(s.hucs) : found(h) # {}
             /\ \A k \in used : raster[k].wet
             /\ outDir' = [outDir EXCEPT ![attempt.job] = With(@, s.id, {raster[k] : k \in used})]
             /\ At("assemble", Tail(attempt.todo))
    <3>1. s \in ToSet(Asked[attempt.job])
      BY <2>1, RestFacts
    <3>2. OwnContent(attempt.job, s.id, {raster[k] : k \in used})
      BY <2>1, <2>4, <3>1, AssembledOwn
    <3>3. attempt'.at = "assemble" /\ attempt'.job = attempt.job
      BY <2>4, AtFacts
    <3>4. PICK id, content : id = s.id /\ content = {raster[k] : k \in used}
      OBVIOUS
    <3> HIDE DEF s, used, found
    <3>5. outDir'[attempt.job] = With(outDir[attempt.job], id, content)
      BY <2>1, <2>4, <3>4
    <3>6. \A file \in DOMAIN outDir'[attempt.job] :
             \/ file = id /\ outDir'[attempt.job][file] = content
             \/ file \in DOMAIN outDir[attempt.job] /\ outDir'[attempt.job][file] = outDir[attempt.job][file]
      BY <3>5 DEF With, Updated
    <3>7. OwnContent(attempt.job, id, content)
      BY <3>2, <3>4
    <3>8. \A file \in DOMAIN outDir'[attempt.job] :
             file # ListFile => OwnContent(attempt.job, file, outDir'[attempt.job][file])
      BY <2>1, <3>6, <3>7 DEF LegacyOwnFiles
    <3> QED
      BY <3>3, <3>8 DEF LegacyOwnFiles, OwnContent
  <2> QED
    BY <2>2, <2>3, <2>4
<1>4. ASSUME Cleanup \/ Kill PROVE LegacyOwnFiles'
  <2>1. attempt'.at = "idle"
    BY <1>4, IdleFacts DEF Cleanup, Kill
  <2> QED
    BY <2>1 DEF LegacyOwnFiles
<1> QED
  BY <1>1, <1>2, <1>3, <1>4 DEF LegacyNext

\* An object is a file of the job that uploads it.
LEMMA LegacyOwnObjectsStep ==
    ASSUME LegacyShape, LegacyOwnFiles, LegacyOwnObjects, LegacyNext
    PROVE  LegacyOwnObjects'
<1>1. CASE bucket' = bucket
  BY <1>1 DEF LegacyOwnObjects, OwnContent
<1>2. CASE /\ attempt.at = "upload" /\ attempt.todo # <<>>
           /\ bucket' = With(bucket, KeyOf(attempt.job, Head(attempt.todo)),
                         [by |-> attempt.job,
                          content |-> outDir[attempt.job][Head(attempt.todo)]])
  <2>1. PICK j, file, content :
          j = attempt.job /\ file = Head(attempt.todo) /\ content = outDir[j][file]
    OBVIOUS
  <2>2. file \in DOMAIN outDir[j]
    BY <1>2, <2>1, RestFacts DEF LegacyShape
  <2>3. file # ListFile => OwnContent(j, file, content)
    BY <1>2, <2>1, <2>2 DEF LegacyOwnFiles
  <2>4. PICK r : r = [by |-> j, content |-> content] /\ r.by = j /\ r.content = content
    <3>1. [by |-> j, content |-> content].by = j /\ [by |-> j, content |-> content].content = content
      OBVIOUS
    <3> QED
      BY <3>1
  <2>5. bucket' = With(bucket, KeyOf(j, file), r)
    BY <1>2, <2>1, <2>4
  <2>6. \A key \in DOMAIN bucket' :
          \/ key = KeyOf(j, file) /\ bucket'[key] = r
          \/ key \in DOMAIN bucket /\ bucket'[key] = bucket[key]
    BY <2>5 DEF With, Updated
  <2>7. KeyOf(j, file)[2] = file
    BY DEF KeyOf
  <2>8. \A key \in DOMAIN bucket' :
          key[2] # ListFile => OwnContent(bucket'[key].by, key[2], bucket'[key].content)
    BY <2>3, <2>4, <2>6, <2>7 DEF LegacyOwnObjects
  <2> QED
    BY <2>8 DEF LegacyOwnObjects, OwnContent
<1> QED
  BY <1>1, <1>2, LegacyChanges DEF BucketChange

-----------------------------------------------------------------------------
(* Legacy jobs: the invariant of a task. *)

LegacyInv == LegacyShape /\ LegacyTypes /\ LegacyStage /\ LegacyFresh /\ VolumeOwned

\* A step carries out one of a legacy job's steps, or leaves legacy jobs alone.
LEMMA LegacyOrNot ==
    ASSUME [Next]_vars
    PROVE  LegacyNext \/ UNCHANGED legacyVars
BY DEF Next, Prepare, Streaming, Legacy, Compare, vars

\* The first state has an idle worker and an empty volume.
LEMMA LegacyInvInit ==
    ASSUME Init
    PROVE  LegacyInv
<1>1. /\ waiting = Jobs /\ attempt = NoAttempt
      /\ hucDir = <<>> /\ flow = <<>> /\ raster = <<>> /\ outDir = <<>> /\ bucket = <<>>
      /\ result = [j \in Jobs |-> "none"] /\ kills = 0 /\ faults = 0
  BY DEF Init, LegacyInit
<1>2. DOMAIN hucDir = {} /\ DOMAIN flow = {} /\ DOMAIN raster = {} /\ DOMAIN outDir = {}
      /\ DOMAIN bucket = {}
  BY <1>1
<1>3. /\ attempt.at = "idle" /\ DOMAIN attempt = {"at", "job", "todo", "failed", "dirty"}
  BY <1>1 DEF NoAttempt
<1>4. LegacyTypes
  BY <1>1, <1>2, LegacyAssumption DEF LegacyTypes
<1> QED
  BY <1>1, <1>2, <1>3, <1>4 DEF LegacyInv, LegacyShape, LegacyStage, LegacyFresh, VolumeOwned

\* Every step keeps it.
LEMMA LegacyInvStep ==
    ASSUME LegacyInv, [Next]_vars
    PROVE  LegacyInv'
<1>1. CASE LegacyNext
  BY <1>1, LegacyShapeStep, LegacyTypesStep, LegacyStageStep, LegacyFreshStep, VolumeOwnedStep
     DEF LegacyInv
<1>2. CASE UNCHANGED legacyVars
  <2>1. /\ waiting' = waiting /\ attempt' = attempt /\ hucDir' = hucDir /\ flow' = flow
        /\ raster' = raster /\ outDir' = outDir /\ bucket' = bucket /\ result' = result
        /\ kills' = kills /\ faults' = faults
    BY <1>2 DEF legacyVars
  <2> QED
    BY <2>1 DEF LegacyInv, LegacyShape, LegacyTypes, LegacyStage, LegacyFresh, VolumeOwned, Here,
                JobHucs, JobLabels, KeyOf, RasterSet, LabelSet
<1> QED
  BY <1>1, <1>2, LegacyOrNot

\* The inductive invariant of legacy jobs: the shape of the attempt, what each
\* stage finds on the volume, whose the files are and which keys are free.
THEOREM LegacyInvariant == Spec => []LegacyInv
<1>1. Init => LegacyInv
  BY LegacyInvInit
<1>2. LegacyInv /\ [Next]_vars => LegacyInv'
  BY LegacyInvStep
<1> QED
  BY <1>1, <1>2, PTL DEF Spec

\* Once no job is left and no removal failed, the volume is empty, whatever
\* killed attempts left on it (__cleanup_job).
THEOREM VolumeEmptied == Spec => []VolumeIsClean
<1>1. LegacyInv => VolumeIsClean
  <2> SUFFICES ASSUME LegacyInv, attempt.at = "idle", ~attempt.dirty, waiting = {}
               PROVE  /\ DOMAIN hucDir = {} /\ DOMAIN flow = {}
                      /\ DOMAIN raster = {} /\ DOMAIN outDir = {}
    BY DEF VolumeIsClean
  <2>1. Here = {}
    BY DEF Here
  <2>2. DOMAIN hucDir = {}
    BY <2>1 DEF LegacyInv, VolumeOwned
  <2>3. DOMAIN flow = {}
    BY <2>1 DEF LegacyInv, VolumeOwned
  <2>4. DOMAIN raster = {}
    BY <2>1 DEF LegacyInv, VolumeOwned
  <2>5. DOMAIN outDir = {}
    BY <2>1 DEF LegacyInv, VolumeOwned
  <2> QED
    BY <2>2, <2>3, <2>4, <2>5
<1> QED
  BY <1>1, LegacyInvariant, PTL

\* An object is only replaced by a job that asked for it, even where an earlier
\* attempt of the same job left it (__reject_existing_s3_keys).
THEOREM ReplacedOnRequest == Spec => LegacyReplacesOnRequest
<1>1. LegacyInv /\ [Next]_vars =>
        [\A key \in DOMAIN bucket :
           bucket'[key] # bucket[key] => attempt.job \in Overwriting]_legacyVars
  <2> SUFFICES ASSUME LegacyInv, [Next]_vars, LegacyNext
               PROVE  \A key \in DOMAIN bucket :
                        bucket'[key] # bucket[key] => attempt.job \in Overwriting
    BY LegacyOrNot
  <2> QED
    BY LegacyReplaceStep DEF LegacyInv
<1> QED
  BY <1>1, LegacyInvariant, PTL DEF Spec, LegacyReplacesOnRequest

LegacyOwn == LegacyOwnRasters /\ LegacyOwnFiles /\ LegacyOwnObjects

\* What a job publishes was mapped from its own flows, one raster for each HUC
\* of the scenario, when names are apart (tasks.py:434, runFIM.py:53-66).
THEOREM OutputsAreOwn == Spec => [](NamesApart => LegacyOutputsAreOwn)
<1>1. Init => (NamesApart => LegacyOwn)
  <2> SUFFICES ASSUME Init PROVE LegacyOwn
    OBVIOUS
  <2>1. attempt.at = "idle" /\ DOMAIN bucket = {}
    BY DEF Init, LegacyInit, NoAttempt
  <2> QED
    BY <2>1 DEF LegacyOwn, LegacyOwnRasters, LegacyOwnFiles, LegacyOwnObjects
<1>2. LegacyInv /\ (NamesApart => LegacyOwn) /\ [Next]_vars => (NamesApart => LegacyOwn)'
  <2> SUFFICES ASSUME LegacyInv, NamesApart, LegacyOwn, [Next]_vars PROVE LegacyOwn'
    BY DEF NamesApart
  <2>1. CASE LegacyNext
    BY <2>1, LegacyOwnRastersStep, LegacyOwnFilesStep, LegacyOwnObjectsStep DEF LegacyInv, LegacyOwn
  <2>2. CASE UNCHANGED legacyVars
    <3>1. attempt' = attempt /\ raster' = raster /\ outDir' = outDir /\ bucket' = bucket
      BY <2>2 DEF legacyVars
    <3> QED
      BY <3>1 DEF LegacyOwn, LegacyOwnRasters, LegacyOwnFiles, LegacyOwnObjects, OwnContent
  <2> QED
    BY <2>1, <2>2, LegacyOrNot
<1>3. (NamesApart => LegacyOwn) => (NamesApart => LegacyOutputsAreOwn)
  <2> SUFFICES ASSUME LegacyOwn PROVE LegacyOutputsAreOwn
    OBVIOUS
  <2>1. ASSUME NEW key \in DOMAIN bucket, key[2] # ListFile
        PROVE  OwnContent(bucket[key].by, key[2], bucket[key].content)
    BY <2>1 DEF LegacyOwn, LegacyOwnObjects
  <2> QED
    BY <2>1 DEF LegacyOutputsAreOwn, OwnContent, HucsNamed
<1> QED
  BY <1>1, <1>2, <1>3, LegacyInvariant, PTL DEF Spec

-----------------------------------------------------------------------------
(* Comparisons: extents and windows. *)

\* The values of a function on a finite set are finitely many.
LEMMA FiniteImage ==
    ASSUME NEW S, IsFiniteSet(S), NEW f, f = [x \in S |-> f[x]]
    PROVE  IsFiniteSet({f[x] : x \in S})
<1>1. f \in Surjection(S, {f[x] : x \in S})
  BY DEF Surjection
<1> QED
  BY <1>1, FS_Surjection

\* The least of finitely many integers.
LEMMA MinFacts ==
    ASSUME NEW S \in SUBSET Int, IsFiniteSet(S), S # {}
    PROVE  Min(S) \in S /\ \A y \in S : Min(S) <= y
<1>1. PICK A : /\ A = Ascending(S) /\ Cardinality(S) \in Nat
               /\ \A i \in 1 .. Cardinality(S) : A[i] \in S
               /\ \A i, j \in 1 .. Cardinality(S) : i < j => A[i] < A[j]
               /\ \A x \in S : \E i \in 1 .. Cardinality(S) : A[i] = x
  BY AscendingFacts
<1>2. 1 \in 1 .. Cardinality(S)
  <2>1. PICK x \in S : TRUE
    OBVIOUS
  <2>2. PICK i \in 1 .. Cardinality(S) : A[i] = x
    BY <1>1, <2>1
  <2> QED
    BY <1>1, <2>2
<1>3. A[1] \in S /\ \A y \in S : A[1] <= y
  <2>1. ASSUME NEW y \in S PROVE A[1] <= y
    <3>1. PICK i \in 1 .. Cardinality(S) : A[i] = y
      BY <1>1
    <3>2. i = 1 \/ 1 < i
      BY <1>1
    <3>3. A[1] \in Int /\ A[i] \in Int
      BY <1>1, <1>2
    <3> QED
      BY <1>1, <1>2, <3>1, <3>2, <3>3
  <2> QED
    BY <1>1, <1>2, <2>1
<1> QED
  BY <1>3 DEF Min

\* The greatest of finitely many integers.
LEMMA MaxFacts ==
    ASSUME NEW S \in SUBSET Int, IsFiniteSet(S), S # {}
    PROVE  Max(S) \in S /\ \A y \in S : y <= Max(S)
<1>1. PICK A : /\ A = Ascending(S) /\ Cardinality(S) \in Nat
               /\ \A i \in 1 .. Cardinality(S) : A[i] \in S
               /\ \A i, j \in 1 .. Cardinality(S) : i < j => A[i] < A[j]
               /\ \A x \in S : \E i \in 1 .. Cardinality(S) : A[i] = x
  BY AscendingFacts
<1>2. PICK n \in 1 .. Cardinality(S) : n = Cardinality(S)
  <2>1. PICK x \in S : TRUE
    OBVIOUS
  <2>2. PICK i \in 1 .. Cardinality(S) : A[i] = x
    BY <1>1, <2>1
  <2>3. Cardinality(S) \in 1 .. Cardinality(S)
    BY <1>1, <2>2
  <2> QED
    BY <2>3
<1>3. A[n] \in S /\ \A y \in S : y <= A[n]
  <2>1. ASSUME NEW y \in S PROVE y <= A[n]
    <3>1. PICK i \in 1 .. Cardinality(S) : A[i] = y
      BY <1>1
    <3>2. i = n \/ i < n
      BY <1>1, <1>2
    <3>3. A[n] \in Int /\ A[i] \in Int
      BY <1>1
    <3> QED
      BY <1>1, <3>1, <3>2, <3>3
  <2> QED
    BY <1>1, <2>1
<1> QED
  BY <1>3 DEF Max

\* min(a, b)
LEMMA MinOfTwo ==
    ASSUME NEW a \in Int, NEW b \in Int
    PROVE  Min({a, b}) = IF a <= b THEN a ELSE b
<1>1. CASE a <= b
  BY <1>1 DEF Min
<1>2. CASE ~(a <= b)
  BY <1>2 DEF Min
<1> QED
  BY <1>1, <1>2

\* The number of a block holds the place, and numbers grow with places.
LEMMA BlockOf ==
    ASSUME NEW s \in Nat \ {0}, NEW x \in Nat
    PROVE  /\ x \div s \in Nat /\ (x \div s) * s <= x /\ x < (x \div s) * s + s
           /\ \A y \in Nat : x <= y => x \div s <= y \div s
<1>1. \A z \in Nat : z \div s \in Nat /\ (z \div s) * s <= z /\ z < (z \div s) * s + s
  OBVIOUS
<1>2. ASSUME NEW y \in Nat, x <= y PROVE x \div s <= y \div s
  <2>1. PICK a \in Nat, b \in Nat : a = x \div s /\ b = y \div s
    BY <1>1
  <2>2. a * s <= x /\ y < b * s + s
    BY <1>1, <2>1
  <2>3. SUFFICES ASSUME b + 1 <= a PROVE FALSE
    BY <2>1
  <2>4. PICK k \in Nat : a = b + 1 + k
    <3>1. a - b - 1 \in Nat /\ a = b + 1 + (a - b - 1)
      BY <2>3
    <3> QED
      BY <3>1
  <2>5. a * s = b * s + s + k * s /\ k * s \in Nat /\ b * s \in Nat /\ a * s \in Nat
    BY <2>4
  <2> QED
    BY <1>2, <2>2, <2>5
<1> QED
  BY <1>1, <1>2

RastersOk(R) ==
    /\ R \in SUBSET [at : Areas, flooded : SUBSET (Int \X Int)] /\ IsFiniteSet(R)
    /\ \A r \in R : IsFiniteSet(r.flooded) /\ \A c \in r.flooded : Inside(c, r.at)

\* The bounds of finitely many intervals hold each of them, and a margin.
LEMMA SpanFacts ==
    ASSUME NEW R, IsFiniteSet(R), R # {}, NEW first, NEW last, NEW m \in Nat,
           first = [r \in R |-> first[r]], last = [r \in R |-> last[r]],
           \A r \in R : first[r] \in Int /\ last[r] \in Int /\ first[r] < last[r],
           NEW start, start = Min({first[r] : r \in R}) - m,
           NEW size, size = Max({last[r] : r \in R}) + m - start
    PROVE  /\ start \in Int /\ size \in Nat \ {0}
           /\ \A r \in R : start <= first[r] - m /\ last[r] + m <= start + size
<1> DEFINE F == {first[r] : r \in R}
           L == {last[r] : r \in R}
<1>1. IsFiniteSet(F) /\ IsFiniteSet(L)
  BY FiniteImage
<1>2. F \in SUBSET Int /\ L \in SUBSET Int /\ F # {} /\ L # {}
  OBVIOUS
<1>3. PICK a, z : /\ a = Min(F) /\ z = Max(L) /\ a \in F /\ z \in L
                  /\ \A y \in F : a <= y
                  /\ \A y \in L : y <= z
  BY <1>1, <1>2, MinFacts, MaxFacts
<1>4. a \in Int /\ z \in Int
  BY <1>2, <1>3
<1>5. start = a - m /\ size = z + m - start
  BY <1>3
<1>6. \A r \in R : a <= first[r] /\ last[r] <= z
  BY <1>3
<1>7. a < z
  <2>1. PICK r \in R : TRUE
    OBVIOUS
  <2> QED
    BY <2>1, <1>4, <1>6
<1>8. start \in Int /\ size \in Nat \ {0}
  BY <1>4, <1>5, <1>7
<1> HIDE DEF F, L
<1>9. ASSUME NEW r \in R PROVE start <= first[r] - m /\ last[r] + m <= start + size
  BY <1>4, <1>5, <1>6
<1> QED
  BY <1>8, <1>9

\* The grid of rasters holds each of them with its margin.
LEMMA ExtentFacts ==
    ASSUME NEW R, RastersOk(R), R # {}, NEW m \in Nat, NEW g, g = Extent(R, m)
    PROVE  /\ g = Area(g.row, g.col, g.height, g.width)
           /\ g.row \in Int /\ g.col \in Int /\ g.height \in Nat \ {0} /\ g.width \in Nat \ {0}
           /\ \A r \in R : /\ g.row <= r.at.row - m
                           /\ r.at.row + r.at.height + m <= g.row + g.height
                           /\ g.col <= r.at.col - m
                           /\ r.at.col + r.at.width + m <= g.col + g.width
<1> DEFINE top == [r \in R |-> r.at.row]
           bottom == [r \in R |-> r.at.row + r.at.height]
           left == [r \in R |-> r.at.col]
           right == [r \in R |-> r.at.col + r.at.width]
<1>1. \A r \in R : /\ r.at.row \in Int /\ r.at.col \in Int
                   /\ r.at.height \in Nat \ {0} /\ r.at.width \in Nat \ {0}
  BY DEF RastersOk, Areas
<1>2. /\ {r.at.row : r \in R} = {top[r] : r \in R}
      /\ {r.at.row + r.at.height : r \in R} = {bottom[r] : r \in R}
      /\ {r.at.col : r \in R} = {left[r] : r \in R}
      /\ {r.at.col + r.at.width : r \in R} = {right[r] : r \in R}
  OBVIOUS
<1>3. PICK north, west, height, width :
        /\ north = Min({top[r] : r \in R}) - m
        /\ west = Min({left[r] : r \in R}) - m
        /\ height = Max({bottom[r] : r \in R}) + m - north
        /\ width = Max({right[r] : r \in R}) + m - west
  OBVIOUS
<1>4. g = Area(north, west, height, width)
  <2>1. g = LET n == Min({r.at.row : r \in R}) - m
                w == Min({r.at.col : r \in R}) - m
            IN Area(n, w, Max({r.at.row + r.at.height : r \in R}) + m - n,
                          Max({r.at.col + r.at.width : r \in R}) + m - w)
    BY DEF Extent
  <2> HIDE DEF top, bottom, left, right
  <2> QED
    BY <2>1, <1>2, <1>3
<1>5. g.row = north /\ g.col = west /\ g.height = height /\ g.width = width
  BY <1>4 DEF Area
<1>6. IsFiniteSet(R)
  BY DEF RastersOk
<1>7. /\ north \in Int /\ height \in Nat \ {0}
      /\ \A r \in R : north <= top[r] - m /\ bottom[r] + m <= north + height
  <2>1. \A r \in R : top[r] \in Int /\ bottom[r] \in Int /\ top[r] < bottom[r]
    BY <1>1
  <2>2. top = [r \in R |-> top[r]] /\ bottom = [r \in R |-> bottom[r]]
    OBVIOUS
  <2> HIDE DEF top, bottom, left, right
  <2> QED
    BY <1>3, <1>6, <2>1, <2>2, SpanFacts
<1>8. /\ west \in Int /\ width \in Nat \ {0}
      /\ \A r \in R : west <= left[r] - m /\ right[r] + m <= west + width
  <2>1. \A r \in R : left[r] \in Int /\ right[r] \in Int /\ left[r] < right[r]
    BY <1>1
  <2>2. left = [r \in R |-> left[r]] /\ right = [r \in R |-> right[r]]
    OBVIOUS
  <2> HIDE DEF top, bottom, left, right
  <2> QED
    BY <1>3, <1>6, <2>1, <2>2, SpanFacts
<1> QED
  BY <1>4, <1>5, <1>7, <1>8

\* Along one axis, the windows leave nothing out.
LEMMA WindowAt ==
    ASSUME NEW start \in Int, NEW n \in Nat \ {0}, NEW x \in Int, start <= x, x < start + n
    PROVE  \E i \in 0 .. ((n - 1) \div WindowSize) :
             /\ start + i * WindowSize <= x
             /\ x < start + i * WindowSize + Min({WindowSize, n - i * WindowSize})
<1>1. PICK s \in Nat \ {0} : s = WindowSize
  BY ComparisonAssumption
<1>2. PICK d \in Nat : d = x - start /\ d <= n - 1
  <2>1. x - start \in Nat /\ x - start <= n - 1
    OBVIOUS
  <2> QED
    BY <2>1
<1>3. PICK i \in Nat : i = d \div s /\ i * s <= d /\ d < i * s + s
  BY BlockOf
<1>4. i <= (n - 1) \div s /\ (n - 1) \div s \in Nat
  <2>1. n - 1 \in Nat
    OBVIOUS
  <2> QED
    BY <1>2, <1>3, <2>1, BlockOf
<1>5. PICK p \in Nat : p = i * s
  <2>1. i * s \in Nat
    OBVIOUS
  <2> QED
    BY <2>1
<1>6. Min({s, n - p}) = IF s <= n - p THEN s ELSE n - p
  BY MinOfTwo
<1>7. start + p <= x /\ x < start + p + Min({s, n - p})
  BY <1>2, <1>3, <1>5, <1>6
<1>8. i \in 0 .. ((n - 1) \div s)
  BY <1>4
<1> QED
  BY <1>1, <1>5, <1>7, <1>8

\* The windows of a grid leave no cell of it out.
LEMMA WindowsCover ==
    ASSUME NEW g, g = Area(g.row, g.col, g.height, g.width), g.row \in Int, g.col \in Int,
           g.height \in Nat \ {0}, g.width \in Nat \ {0},
           NEW c \in Int \X Int, Inside(c, g)
    PROVE  \E w \in Windows(g) : Inside(c, w)
<1>1. /\ g.row <= c[1] /\ c[1] < g.row + g.height /\ g.col <= c[2] /\ c[2] < g.col + g.width
      /\ c[1] \in Int /\ c[2] \in Int
  BY DEF Inside
<1>2. PICK i \in 0 .. ((g.height - 1) \div WindowSize) :
        /\ g.row + i * WindowSize <= c[1]
        /\ c[1] < g.row + i * WindowSize + Min({WindowSize, g.height - i * WindowSize})
  BY <1>1, WindowAt
<1>3. PICK k \in 0 .. ((g.width - 1) \div WindowSize) :
        /\ g.col + k * WindowSize <= c[2]
        /\ c[2] < g.col + k * WindowSize + Min({WindowSize, g.width - k * WindowSize})
  BY <1>1, WindowAt
<1>4. PICK row, col, height, width :
        /\ row = g.row + i * WindowSize /\ col = g.col + k * WindowSize
        /\ height = Min({WindowSize, g.height - i * WindowSize})
        /\ width = Min({WindowSize, g.width - k * WindowSize})
  OBVIOUS
<1>5. Area(row, col, height, width) \in Windows(g)
  <2> DEFINE W(y, x) == Area(g.row + y * WindowSize, g.col + x * WindowSize,
                             Min({WindowSize, g.height - y * WindowSize}),
                             Min({WindowSize, g.width - x * WindowSize}))
             I == 0 .. ((g.height - 1) \div WindowSize)
             K == 0 .. ((g.width - 1) \div WindowSize)
  <2>1. Windows(g) = {W(y, x) : y \in I, x \in K}
    BY DEF Windows
  <2>2. i \in I /\ k \in K /\ Area(row, col, height, width) = W(i, k)
    BY <1>4
  <2> HIDE DEF W, I, K
  <2> QED
    BY <2>1, <2>2
<1>6. row <= c[1] /\ c[1] < row + height /\ col <= c[2] /\ c[2] < col + width
  BY <1>2, <1>3, <1>4
<1>7. row \in Int /\ col \in Int
  BY <1>4, ComparisonAssumption
<1>8. PICK a : a = Area(row, col, height, width) /\ a.row = row /\ a.col = col
                /\ a.height = height /\ a.width = width
  <2>1. LET a == Area(row, col, height, width)
        IN a.row = row /\ a.col = col /\ a.height = height /\ a.width = width
    BY DEF Area
  <2> QED
    BY <2>1
<1>9. Inside(c, a)
  BY <1>1, <1>6, <1>7, <1>8 DEF Inside
<1> QED
  BY <1>5, <1>8, <1>9

-----------------------------------------------------------------------------
(* Comparisons: difference rasters. *)

FloodOf(R) == UNION {r.flooded : r \in R}
MovedBy(cells, shift) == {<<c[1] - shift[1], c[2] - shift[2]>> : c \in cells}
InWindows(cells, g) == UNION {{c \in cells : Inside(c, w)} : w \in Windows(g)}

\* The grid leaves out no cell of a flood that is moved by no more than its margin.
LEMMA ShownInGrid ==
    ASSUME NEW R, RastersOk(R), NEW S \in SUBSET R, NEW g, g = Grid(R), NEW shift,
           shift[1] \in -MaxGridShift .. MaxGridShift, shift[2] \in -MaxGridShift .. MaxGridShift
    PROVE  InWindows(Shown(S, shift), g) = MovedBy(FloodOf(S), shift)
<1>1. Shown(S, shift) = MovedBy(FloodOf(S), shift)
  BY DEF Shown, MovedBy, FloodOf
<1>2. ASSUME NEW c \in MovedBy(FloodOf(S), shift)
      PROVE  \E w \in Windows(g) : Inside(c, w)
  <2>1. PICK x \in FloodOf(S) : c = <<x[1] - shift[1], x[2] - shift[2]>>
    BY <1>2 DEF MovedBy
  <2>2. PICK r \in S : x \in r.flooded
    BY <2>1 DEF FloodOf
  <2>3. R # {} /\ r \in R /\ MaxGridShift \in Nat
    BY <2>2, ComparisonAssumption
  <2>4. r \in [at : Areas, flooded : SUBSET (Int \X Int)] /\ Inside(x, r.at)
    BY <2>2, <2>3 DEF RastersOk
  <2>5. /\ x[1] \in Int /\ x[2] \in Int /\ r.at.row \in Int /\ r.at.col \in Int
        /\ r.at.height \in Nat /\ r.at.width \in Nat
    BY <2>2, <2>4 DEF Areas
  <2>6. /\ g = Area(g.row, g.col, g.height, g.width)
        /\ g.row \in Int /\ g.col \in Int /\ g.height \in Nat \ {0} /\ g.width \in Nat \ {0}
        /\ g.row <= r.at.row - MaxGridShift
        /\ r.at.row + r.at.height + MaxGridShift <= g.row + g.height
        /\ g.col <= r.at.col - MaxGridShift
        /\ r.at.col + r.at.width + MaxGridShift <= g.col + g.width
    <3>1. g = Extent(R, MaxGridShift)
      BY DEF Grid
    <3> QED
      BY <2>3, <3>1, ExtentFacts
  <2>7. c[1] = x[1] - shift[1] /\ c[2] = x[2] - shift[2] /\ c \in Int \X Int
    BY <2>1, <2>5
  <2>8. /\ x[1] >= r.at.row /\ x[1] < r.at.row + r.at.height
        /\ x[2] >= r.at.col /\ x[2] < r.at.col + r.at.width
    BY <2>4 DEF Inside
  <2>9. /\ c[1] >= g.row /\ c[1] < g.row + g.height
        /\ c[2] >= g.col /\ c[2] < g.col + g.width
    BY <2>3, <2>5, <2>6, <2>7, <2>8
  <2>10. Inside(c, g)
    BY <2>9 DEF Inside
  <2> QED
    BY <2>6, <2>7, <2>10, WindowsCover
<1> QED
  BY <1>1, <1>2 DEF InWindows

\* A flood that is not moved is the flood.
LEMMA NotMoved ==
    ASSUME NEW R, RastersOk(R)
    PROVE  MovedBy(FloodOf(R), <<0, 0>>) = FloodOf(R)
<1>1. FloodOf(R) \in SUBSET (Int \X Int)
  BY DEF FloodOf, RastersOk
<1>2. \A x \in Int \X Int : <<x[1] - 0, x[2] - 0>> = x
  OBVIOUS
<1>3. MovedBy(FloodOf(R), <<0, 0>>) = {<<x[1] - 0, x[2] - 0>> : x \in FloodOf(R)}
  BY DEF MovedBy
<1> QED
  BY <1>1, <1>2, <1>3

\* Finitely many cells are flooded, moved or not.
LEMMA FloodFinite ==
    ASSUME NEW R, RastersOk(R), NEW shift
    PROVE  IsFiniteSet(FloodOf(R)) /\ IsFiniteSet(MovedBy(FloodOf(R), shift))
<1> DEFINE f == [r \in R |-> r.flooded]
           m == [c \in FloodOf(R) |-> <<c[1] - shift[1], c[2] - shift[2]>>]
<1>1. IsFiniteSet({f[r] : r \in R})
  <2>1. IsFiniteSet(R) /\ f = [r \in R |-> f[r]]
    BY DEF RastersOk
  <2> HIDE DEF f
  <2> QED
    BY <2>1, FiniteImage
<1>2. FloodOf(R) = UNION {f[r] : r \in R}
  BY DEF FloodOf
<1>3. \A r \in R : IsFiniteSet(f[r])
  BY DEF RastersOk
<1>4. IsFiniteSet(FloodOf(R))
  <2> HIDE DEF f
  <2> QED
    BY <1>1, <1>2, <1>3, FS_UNION
<1>5. IsFiniteSet({m[c] : c \in FloodOf(R)})
  BY <1>4, FiniteImage
<1>6. MovedBy(FloodOf(R), shift) = {m[c] : c \in FloodOf(R)}
  BY DEF MovedBy
<1> QED
  BY <1>4, <1>5, <1>6

\* The comparison of two floods at a small shift, cell by cell.
LEMMA ComparedFacts ==
    ASSUME NEW B, NEW T, RastersOk(B), RastersOk(T), NEW shift,
           shift[1] \in -MaxGridShift .. MaxGridShift, shift[2] \in -MaxGridShift .. MaxGridShift
    PROVE  LET d == Compared(B, T, shift)
           IN /\ d.shift = shift
              /\ d.lost = FloodOf(B) \ MovedBy(FloodOf(T), shift)
              /\ d.added = MovedBy(FloodOf(T), shift) \ FloodOf(B)
<1>1. RastersOk(B \cup T)
  BY FS_Union DEF RastersOk
<1>2. 0 \in -MaxGridShift .. MaxGridShift
  BY ComparisonAssumption
<1>3. InWindows(Shown(B, <<0, 0>>), Grid(B \cup T)) = FloodOf(B)
  <2>1. <<0, 0>>[1] = 0 /\ <<0, 0>>[2] = 0
    OBVIOUS
  <2>2. InWindows(Shown(B, <<0, 0>>), Grid(B \cup T)) = MovedBy(FloodOf(B), <<0, 0>>)
    BY <1>1, <1>2, <2>1, ShownInGrid
  <2> QED
    BY <2>2, NotMoved
<1>4. InWindows(Shown(T, shift), Grid(B \cup T)) = MovedBy(FloodOf(T), shift)
  BY <1>1, ShownInGrid
<1>5. Compared(B, T, shift) =
        [base |-> InWindows(Shown(B, <<0, 0>>), Grid(B \cup T)),
         candidate |-> InWindows(Shown(T, shift), Grid(B \cup T)),
         lost |-> InWindows(Shown(B, <<0, 0>>), Grid(B \cup T))
                    \ InWindows(Shown(T, shift), Grid(B \cup T)),
         added |-> InWindows(Shown(T, shift), Grid(B \cup T))
                     \ InWindows(Shown(B, <<0, 0>>), Grid(B \cup T)),
         shift |-> shift]
  BY DEF Compared, InWindows
<1> QED
  BY SMTT(60), <1>3, <1>4, <1>5

\* What is stored of two results: exact at a small shift, which is only taken
\* when it brings the floods closer.
LEMMA CompareOutputsFacts ==
    ASSUME NEW B, NEW T, RastersOk(B), RastersOk(T), NEW d, d = CompareOutputs(B, T)
    PROVE  /\ d.lost = FloodOf(B) \ MovedBy(FloodOf(T), d.shift)
           /\ d.added = MovedBy(FloodOf(T), d.shift) \ FloodOf(B)
           /\ \A axis \in {1, 2} : d.shift[axis] \in -MaxGridShift .. MaxGridShift
           /\ d.shift # <<0, 0>> =>
                Different(d) < Cardinality(FloodOf(B) \ FloodOf(T))
                                 + Cardinality(FloodOf(T) \ FloodOf(B))
           /\ IsFiniteSet(d.lost) /\ IsFiniteSet(d.added)
<1>1. PICK u, o : /\ u = Compared(B, T, <<0, 0>>)
                  /\ o = <<Offset(u, 1), Offset(u, 2)>>
  OBVIOUS
<1>2. \/ d = u
      \/ /\ d = Compared(B, T, o)
         /\ o[1] \in -MaxGridShift .. MaxGridShift /\ o[2] \in -MaxGridShift .. MaxGridShift
         /\ Different(Compared(B, T, o)) < Different(u)
  BY <1>1 DEF CompareOutputs
<1>3. /\ u.shift = <<0, 0>>
      /\ u.lost = FloodOf(B) \ FloodOf(T) /\ u.added = FloodOf(T) \ FloodOf(B)
  <2>1. <<0, 0>>[1] \in -MaxGridShift .. MaxGridShift /\ <<0, 0>>[2] \in -MaxGridShift .. MaxGridShift
    BY ComparisonAssumption
  <2>2. /\ u.shift = <<0, 0>>
        /\ u.lost = FloodOf(B) \ MovedBy(FloodOf(T), <<0, 0>>)
        /\ u.added = MovedBy(FloodOf(T), <<0, 0>>) \ FloodOf(B)
    BY <1>1, <2>1, ComparedFacts
  <2> QED
    BY <2>2, NotMoved
<1>4. Different(u) = Cardinality(FloodOf(B) \ FloodOf(T)) + Cardinality(FloodOf(T) \ FloodOf(B))
  BY <1>3 DEF Different
<1>5. /\ d.lost = FloodOf(B) \ MovedBy(FloodOf(T), d.shift)
      /\ d.added = MovedBy(FloodOf(T), d.shift) \ FloodOf(B)
      /\ \A axis \in {1, 2} : d.shift[axis] \in -MaxGridShift .. MaxGridShift
      /\ d.shift # <<0, 0>> => Different(d) < Different(u)
  <2>1. CASE d = u
    <3>1. \A axis \in {1, 2} : <<0, 0>>[axis] \in -MaxGridShift .. MaxGridShift
      BY ComparisonAssumption
    <3>2. MovedBy(FloodOf(T), d.shift) = FloodOf(T)
      BY <1>3, <2>1, NotMoved
    <3> QED
      BY <1>3, <2>1, <3>1, <3>2
  <2>2. CASE /\ d = Compared(B, T, o)
             /\ o[1] \in -MaxGridShift .. MaxGridShift /\ o[2] \in -MaxGridShift .. MaxGridShift
             /\ Different(Compared(B, T, o)) < Different(u)
    <3>1. /\ d.shift = o
          /\ d.lost = FloodOf(B) \ MovedBy(FloodOf(T), o)
          /\ d.added = MovedBy(FloodOf(T), o) \ FloodOf(B)
      BY <2>2, ComparedFacts
    <3> QED
      BY <2>2, <3>1
  <2> QED
    BY <1>2, <2>1, <2>2
<1>6. IsFiniteSet(d.lost) /\ IsFiniteSet(d.added)
  <2>1. IsFiniteSet(FloodOf(B)) /\ IsFiniteSet(MovedBy(FloodOf(T), d.shift))
    BY FloodFinite
  <2>2. IsFiniteSet(d.lost) /\ IsFiniteSet(d.added)
    <3>1. d.lost \in SUBSET FloodOf(B) /\ d.added \in SUBSET MovedBy(FloodOf(T), d.shift)
      BY <1>5
    <3> QED
      BY <2>1, <3>1, FS_Subset
  <2> QED
    BY <2>2
<1> QED
  BY <1>4, <1>5, <1>6

-----------------------------------------------------------------------------
(* Comparisons: the invariant of a task. *)

ResultOk(scenarios) ==
    scenarios \in Results /\ \A s \in ToSet(scenarios) : RastersOk(s.rasters)

CompareInv ==
    /\ ResultOk(base) /\ ResultOk(candidate)
    /\ DOMAIN comparing = {"at", "todo"}
    /\ comparing.at \in {"queued", "compare", "failed", "done"}
    /\ restarts \in 0 .. MaxRestarts
    /\ comparing.at = "compare" =>
         /\ comparing.todo \in Seq(ToSet(Shared))
         /\ \A id \in ToSet(Shared) :
              id \in DOMAIN diffs
                \/ \E i \in 1 .. Len(comparing.todo) : comparing.todo[i] = id
    /\ \A id \in DOMAIN diffs :
         /\ id \in ToSet(Shared)
         /\ diffs[id] = CompareOutputs(Of(base, id).rasters, Of(candidate, id).rasters)
    /\ report # NoReport =>
         /\ comparing.at = "done"
         /\ DOMAIN report = DOMAIN Shared
         /\ \A n \in DOMAIN Shared : \A id : id = Shared[n] =>
              /\ id \in DOMAIN diffs
              /\ report[n].id = id
              /\ report[n].matches => Different(diffs[id]) = 0 /\ Missing(id) = {}

\* The ids of a scenarios, and the scenario of an id.
LEMMA IdFacts ==
    ASSUME NEW scenarios, ResultOk(scenarios)
    PROVE  /\ IdsOf(scenarios) \in Seq(Nat) /\ Len(IdsOf(scenarios)) = Len(scenarios)
           /\ DOMAIN scenarios = 1 .. Len(scenarios)
           /\ \A n \in 1 .. Len(scenarios) : IdsOf(scenarios)[n] = scenarios[n].id
           /\ \A id \in ToSet(IdsOf(scenarios)) :
                Of(scenarios, id) \in ToSet(scenarios) /\ Of(scenarios, id).id = id
<1>1. PICK R : R = [id : Nat, rasters : SUBSET [at : Areas, flooded : SUBSET (Int \X Int)],
                    missing : Seq(Nat)]
  OBVIOUS
<1>2. scenarios \in Seq(R) /\ \A s \in R : s.id \in Nat
  BY <1>1 DEF ResultOk, Results
<1>3. DOMAIN scenarios = 1 .. Len(scenarios) /\ Len(scenarios) \in Nat /\ \A n \in 1 .. Len(scenarios) : scenarios[n] \in R
  BY <1>2
<1>4. IdsOf(scenarios) = [n \in 1 .. Len(scenarios) |-> scenarios[n].id]
  BY <1>3 DEF IdsOf
<1>5. IdsOf(scenarios) \in Seq(Nat) /\ Len(IdsOf(scenarios)) = Len(scenarios)
  <2>1. \A n \in 1 .. Len(scenarios) : scenarios[n].id \in Nat
    BY <1>2, <1>3
  <2> QED
    BY <1>3, <1>4, <2>1
<1>6. ASSUME NEW id \in ToSet(IdsOf(scenarios))
      PROVE  Of(scenarios, id) \in ToSet(scenarios) /\ Of(scenarios, id).id = id
  <2>1. PICK n \in 1 .. Len(scenarios) : id = scenarios[n].id
    <3>1. PICK s : s = IdsOf(scenarios) /\ s \in Seq(Nat) /\ Len(s) = Len(scenarios) /\ id \in ToSet(s)
      BY <1>5, <1>6
    <3>2. PICK n \in 1 .. Len(s) : id = s[n]
      BY <3>1, ToSetFacts
    <3>3. s[n] = scenarios[n].id
      BY <1>4, <3>1, <3>2
    <3> QED
      BY <3>1, <3>2, <3>3
  <2>2. scenarios[n] \in ToSet(scenarios)
    BY <1>2, <2>1, ToSetFacts
  <2> QED
    BY <2>1, <2>2 DEF Of
<1> QED
  BY <1>3, <1>4, <1>5, <1>6

\* The shared scenarios are in both results.
LEMMA SharedFacts ==
    ASSUME ResultOk(base), ResultOk(candidate)
    PROVE  /\ Shared \in Seq(Nat) /\ DOMAIN Shared = 1 .. Len(Shared)
           /\ \A id \in ToSet(Shared) :
                id \in ToSet(IdsOf(base)) /\ id \in ToSet(IdsOf(candidate))
<1>1. PICK s, P : /\ s = IdsOf(base)
                  /\ P = {n \in DOMAIN base : base[n].id \in ToSet(IdsOf(candidate))}
  OBVIOUS
<1>2. /\ s \in Seq(Nat) /\ Len(s) = Len(base) /\ DOMAIN base = 1 .. Len(base)
      /\ \A n \in 1 .. Len(base) : s[n] = base[n].id
  BY <1>1, IdFacts
<1>3. P \in SUBSET (1 .. Len(s))
  BY <1>1, <1>2
<1>4. Shared = Kept(s, P)
  BY <1>1 DEF Shared
<1>5. /\ Shared \in Seq(Nat) /\ Len(Shared) = Cardinality(P) /\ DOMAIN Shared = 1 .. Cardinality(P)
      /\ \A n \in 1 .. Cardinality(P) : Ascending(P)[n] \in P /\ Shared[n] = s[Ascending(P)[n]]
  BY <1>2, <1>3, <1>4, KeptFacts
<1>6. ASSUME NEW id \in ToSet(Shared)
      PROVE  id \in ToSet(IdsOf(base)) /\ id \in ToSet(IdsOf(candidate))
  <2>1. PICK n \in 1 .. Len(Shared) : id = Shared[n]
    BY <1>5, <1>6, ToSetFacts
  <2>2. PICK i \in P : id = s[i]
    BY <1>5, <2>1
  <2>3. id \in ToSet(s)
    BY <1>2, <1>3, <2>2, ToSetFacts
  <2>4. id \in ToSet(IdsOf(candidate))
    BY <1>1, <1>2, <1>3, <2>2
  <2> QED
    BY <1>1, <2>3, <2>4
<1> QED
  BY <1>5, <1>6

\* Of what the assumption says.
LEMMA PairsOk ==
    ASSUME NEW p \in Pairs
    PROVE  ResultOk(p.base) /\ ResultOk(p.candidate)
<1>1. ASSUME NEW scenarios \in {p.base, p.candidate} PROVE ResultOk(scenarios)
  <2>1. scenarios \in Results
    BY ComparisonAssumption
  <2>2. ASSUME NEW s \in ToSet(scenarios) PROVE RastersOk(s.rasters)
    <3>1. PICK R : R = [id : Nat, rasters : SUBSET [at : Areas, flooded : SUBSET (Int \X Int)],
                        missing : Seq(Nat)]
      OBVIOUS
    <3>2. scenarios \in Seq(R)
      BY <2>1, <3>1 DEF Results
    <3>3. s \in R
      BY <3>2, ToSetFacts
    <3>4. s.rasters \in SUBSET [at : Areas, flooded : SUBSET (Int \X Int)]
      BY <3>1, <3>3
    <3>5. s \in ToSet(p.base) \cup ToSet(p.candidate)
      BY <1>1
    <3>6. IsFiniteSet(s.rasters) /\ \A r \in s.rasters :
            IsFiniteSet(r.flooded) /\ \A c \in r.flooded : Inside(c, r.at)
      BY <3>5, ComparisonAssumption
    <3> QED
      BY <3>4, <3>6 DEF RastersOk
  <2> QED
    BY <2>1, <2>2 DEF ResultOk
<1> QED
  BY <1>1

\* Stopping ends the comparison.
LEMMA StopFacts ==
    ASSUME NEW outcome, Stop(outcome)
    PROVE  comparing'.at = outcome /\ DOMAIN comparing' = {"at", "todo"}
BY DEF Stop

\* Every step of a comparison keeps its invariant.
LEMMA CompareInvStep ==
    ASSUME CompareInv, CompareNext
    PROVE  CompareInv'
<1>1. base' = base /\ candidate' = candidate /\ parity' = parity
  BY DEF CompareNext, BeginComparison, CompareScenario, PutReport, ComparisonFails, RestartComparison
<1>2. /\ Shared' = Shared /\ ResultOk(base)' /\ ResultOk(candidate)'
      /\ \A id : Of(base, id)' = Of(base, id) /\ Of(candidate, id)' = Of(candidate, id)
  BY <1>1 DEF CompareInv, Shared, IdsOf, ResultOk, Of
<1>3. \A id : Missing(id)' = Missing(id)
  BY <1>1 DEF Missing, Of
<1>4. PICK S : S = Shared /\ S \in Seq(Nat) /\ DOMAIN S = 1 .. Len(S)
               /\ \A id \in ToSet(S) : id \in ToSet(IdsOf(base)) /\ id \in ToSet(IdsOf(candidate))
  BY SharedFacts DEF CompareInv
<1>5. ASSUME BeginComparison PROVE CompareInv'
  <2>1. /\ comparing.at = "queued" /\ diffs' = diffs /\ report' = report /\ restarts' = restarts
        /\ Stop("failed") \/ comparing' = [at |-> "compare", todo |-> Shared]
    BY <1>5 DEF BeginComparison
  <2>2. /\ DOMAIN comparing' = {"at", "todo"}
        /\ \/ comparing'.at = "failed"
           \/ comparing'.at = "compare" /\ comparing'.todo = S
    BY <1>4, <2>1, StopFacts
  <2>3. S \in Seq(ToSet(S)) /\ \A id \in ToSet(S) : \E i \in 1 .. Len(S) : S[i] = id
    <3>1. PICK T : T = ToSet(S) /\ \A i \in 1 .. Len(S) : S[i] \in T
      BY <1>4, ToSetFacts
    <3>2. S \in [1 .. Len(S) -> T] /\ Len(S) \in Nat
      BY <1>4, <3>1
    <3>3. S \in Seq(T)
      BY <3>2
    <3> QED
      BY <1>4, <3>1, <3>3, ToSetFacts
  <2>4. report' = NoReport
    BY <2>1 DEF CompareInv
  <2> QED
    BY <1>2, <1>3, <1>4, <2>1, <2>2, <2>3, <2>4 DEF CompareInv, NoReport
<1>6. ASSUME CompareScenario PROVE CompareInv'
  <2> DEFINE id == Head(comparing.todo)
             B == Of(base, id).rasters
             T == Of(candidate, id).rasters
  <2>1. /\ comparing.at = "compare" /\ comparing.todo # <<>> /\ report' = report /\ restarts' = restarts
        /\ \/ Stop("failed") /\ diffs' = diffs
           \/ /\ diffs' = With(diffs, id, CompareOutputs(B, T))
              /\ comparing' = [comparing EXCEPT !.todo = Tail(@)]
    BY <1>6 DEF CompareScenario
  <2>2. report = NoReport
    BY <2>1 DEF CompareInv
  <2>3. CASE Stop("failed") /\ diffs' = diffs
    <3>1. comparing'.at = "failed" /\ DOMAIN comparing' = {"at", "todo"}
      BY <2>3, StopFacts
    <3> QED
      BY <1>2, <2>1, <2>2, <2>3, <3>1 DEF CompareInv, NoReport
  <2>4. CASE /\ diffs' = With(diffs, id, CompareOutputs(B, T))
             /\ comparing' = [comparing EXCEPT !.todo = Tail(@)]
    <3>1. PICK s : s = comparing.todo /\ s \in Seq(ToSet(S)) /\ s # <<>>
      BY <1>4, <2>1 DEF CompareInv
    <3>2. /\ comparing'.at = "compare" /\ comparing'.todo = Tail(s)
          /\ DOMAIN comparing' = {"at", "todo"}
      BY <2>1, <2>4, <3>1 DEF CompareInv
    <3>3. /\ Len(s) \in Nat \ {0} /\ Head(s) = s[1] /\ Head(s) \in ToSet(S)
          /\ Tail(s) \in Seq(ToSet(S)) /\ Len(Tail(s)) = Len(s) - 1
          /\ \A i \in 1 .. Len(Tail(s)) : i + 1 \in 1 .. Len(s) /\ Tail(s)[i] = s[i + 1]
      BY <3>1, RestFacts
    <3>4. PICK x : x = Head(s)
      OBVIOUS
    <3>5. PICK d : d = CompareOutputs(Of(base, x).rasters, Of(candidate, x).rasters)
      OBVIOUS
    <3>6. diffs' = With(diffs, x, d)
      BY <2>4, <3>1, <3>4, <3>5
    <3>7. /\ DOMAIN diffs' = DOMAIN diffs \cup {x} /\ diffs'[x] = d
          /\ \A y \in DOMAIN diffs : y # x => diffs'[y] = diffs[y]
      BY <3>6 DEF With, Updated
    <3>8. ASSUME NEW y \in ToSet(S)
          PROVE  y \in DOMAIN diffs' \/ \E i \in 1 .. Len(Tail(s)) : Tail(s)[i] = y
      <4>1. y \in DOMAIN diffs \/ \E i \in 1 .. Len(s) : s[i] = y
        BY <1>4, <2>1, <3>1 DEF CompareInv
      <4>2. ASSUME NEW i \in 1 .. Len(s), s[i] = y, i # 1
            PROVE  \E k \in 1 .. Len(Tail(s)) : Tail(s)[k] = y
        <5>1. i - 1 \in 1 .. Len(Tail(s)) /\ (i - 1) + 1 = i
          BY <3>3, <4>2
        <5> QED
          BY <3>3, <4>2, <5>1
      <4> QED
        BY <3>3, <3>4, <3>7, <4>1, <4>2
    <3>9. \A y \in DOMAIN diffs' :
            /\ y \in ToSet(S)
            /\ diffs'[y] = CompareOutputs(Of(base, y).rasters, Of(candidate, y).rasters)
      BY <1>4, <3>3, <3>4, <3>5, <3>7 DEF CompareInv
    <3>10. report' = NoReport
      BY <2>1, <2>2
    <3> QED
      BY <1>2, <1>4, <2>1, <3>2, <3>3, <3>8, <3>9, <3>10 DEF CompareInv, NoReport
  <2> QED
    BY <2>1, <2>3, <2>4
<1>7. ASSUME PutReport PROVE CompareInv'
  <2>1. /\ comparing.at = "compare" /\ comparing.todo = <<>> /\ diffs' = diffs /\ restarts' = restarts
        /\ report' = [n \in DOMAIN Shared |->
              [id |-> Shared[n],
               matches |-> Different(diffs[Shared[n]]) = 0 /\ Missing(Shared[n]) = {}]]
        /\ Stop("done")
    BY <1>7 DEF PutReport
  <2>2. comparing'.at = "done" /\ DOMAIN comparing' = {"at", "todo"}
    BY <2>1, StopFacts
  <2>3. \A n \in DOMAIN S : S[n] \in DOMAIN diffs
    <3>1. \A id \in ToSet(S) : id \in DOMAIN diffs
      BY <1>4, <2>1 DEF CompareInv
    <3>2. \A n \in 1 .. Len(S) : S[n] \in ToSet(S)
      BY <1>4, ToSetFacts
    <3> QED
      BY <1>4, <3>1, <3>2
  <2>4. /\ DOMAIN report' = DOMAIN S
        /\ \A n \in DOMAIN S : \A id : id = S[n] =>
             /\ report'[n].id = id
             /\ report'[n].matches => Different(diffs'[id]) = 0 /\ Missing(id)' = {}
    <3>1. \A n \in DOMAIN S :
             report'[n] = [id |-> S[n],
                           matches |-> Different(diffs[S[n]]) = 0 /\ Missing(S[n]) = {}]
      BY <1>4, <2>1
    <3>2. DOMAIN report' = DOMAIN S
      BY <1>4, <2>1
    <3>3. ASSUME NEW n \in DOMAIN S, NEW id, id = S[n]
          PROVE  /\ report'[n].id = id
                 /\ report'[n].matches => Different(diffs[id]) = 0 /\ Missing(id) = {}
      <4> DEFINE m == Different(diffs[id]) = 0 /\ Missing(id) = {}
      <4>1. report'[n] = [id |-> id, matches |-> m]
        BY <3>1, <3>3
      <4> HIDE DEF m
      <4>2. report'[n].id = id /\ report'[n].matches = m
        BY <4>1
      <4>3. report'[n].matches => m
        BY <4>2
      <4> QED
        BY <4>2, <4>3 DEF m
    <3> QED
      BY <1>3, <2>1, <3>2, <3>3
  <2>5. \A id \in DOMAIN diffs' :
         /\ id \in ToSet(Shared)
         /\ diffs'[id] = CompareOutputs(Of(base, id)'.rasters, Of(candidate, id)'.rasters)
    BY <1>2, <2>1 DEF CompareInv
  <2> QED
    BY <1>2, <1>4, <2>1, <2>2, <2>3, <2>4, <2>5 DEF CompareInv
<1>8. ASSUME ComparisonFails PROVE CompareInv'
  <2>1. /\ comparing.at = "compare" /\ diffs' = diffs /\ report' = report /\ restarts' = restarts
        /\ Stop("failed")
    BY <1>8 DEF ComparisonFails
  <2>2. comparing'.at = "failed" /\ DOMAIN comparing' = {"at", "todo"}
    BY <2>1, StopFacts
  <2>3. report' = NoReport
    BY <2>1 DEF CompareInv
  <2> QED
    BY <1>2, <2>1, <2>2, <2>3 DEF CompareInv, NoReport
<1>9. ASSUME RestartComparison PROVE CompareInv'
  <2>1. /\ comparing.at = "compare" /\ diffs' = diffs /\ report' = report
        /\ restarts < MaxRestarts /\ restarts' = restarts + 1
        /\ comparing' = [at |-> "queued", todo |-> <<>>]
    BY <1>9 DEF RestartComparison
  <2>2. comparing'.at = "queued" /\ DOMAIN comparing' = {"at", "todo"}
    BY <2>1
  <2>3. report' = NoReport
    BY <2>1 DEF CompareInv
  <2>4. restarts' \in 0 .. MaxRestarts
    BY <2>1, ComparisonAssumption DEF CompareInv
  <2> QED
    BY <1>2, <2>1, <2>2, <2>3, <2>4 DEF CompareInv, NoReport
<1> QED
  BY <1>5, <1>6, <1>7, <1>8, <1>9 DEF CompareNext

\* A step is one of a comparison, or leaves comparisons alone.
LEMMA CompareOrNot ==
    ASSUME [Next]_vars
    PROVE  CompareNext \/ UNCHANGED compareVars
BY DEF Next, Prepare, Streaming, Legacy, Compare, vars

\* The inductive invariant of comparisons: what is left to compare and what is
\* stored make up the shared scenarios, and every raster stored is the
\* comparison of the two results.
THEOREM CompareInvariant == Spec => []CompareInv
<1>1. Init => CompareInv
  <2> SUFFICES ASSUME Init PROVE CompareInv
    OBVIOUS
  <2>1. PICK p \in Pairs : base = p.base /\ candidate = p.candidate
    BY DEF Init, CompareInit
  <2>2. /\ comparing = [at |-> "queued", todo |-> <<>>] /\ diffs = <<>> /\ report = NoReport
        /\ restarts = 0
    BY DEF Init, CompareInit
  <2>3. ResultOk(base) /\ ResultOk(candidate)
    BY <2>1, PairsOk
  <2>4. /\ comparing.at = "queued" /\ DOMAIN comparing = {"at", "todo"} /\ DOMAIN diffs = {}
        /\ restarts \in 0 .. MaxRestarts
    BY <2>2, ComparisonAssumption
  <2> QED
    BY <2>2, <2>3, <2>4 DEF CompareInv
<1>2. CompareInv /\ [Next]_vars => CompareInv'
  <2> SUFFICES ASSUME CompareInv, [Next]_vars PROVE CompareInv'
    OBVIOUS
  <2>1. CASE UNCHANGED compareVars
    <3>1. /\ base' = base /\ candidate' = candidate /\ parity' = parity /\ comparing' = comparing
          /\ diffs' = diffs /\ report' = report /\ restarts' = restarts
      BY <2>1 DEF compareVars
    <3>2. /\ Shared' = Shared /\ ResultOk(base)' /\ ResultOk(candidate)'
          /\ \A id : Of(base, id)' = Of(base, id) /\ Of(candidate, id)' = Of(candidate, id)
      BY <3>1 DEF CompareInv, Shared, IdsOf, ResultOk, Of
    <3>3. \A id : Missing(id)' = Missing(id)
      BY <3>1 DEF Missing, Of
    <3> QED
      BY <3>1, <3>2, <3>3 DEF CompareInv
  <2> QED
    BY <2>1, CompareOrNot, CompareInvStep
<1> QED
  BY <1>1, <1>2, PTL DEF Spec

\* A difference raster holds exactly the cells in which the floods differ, and
\* a scenario reported as a match has the same flood and misses no reach
\* (parity.py:47-175).
THEOREM ComparedExactly == Spec => []ComparisonIsExact
<1>1. CompareInv => ComparisonIsExact
  <2> SUFFICES ASSUME CompareInv PROVE ComparisonIsExact
    OBVIOUS
  <2>1. ASSUME NEW id \in DOMAIN diffs
        PROVE  LET d == diffs[id]
                   expected == UNION {r.flooded : r \in Of(base, id).rasters}
                   flood == UNION {r.flooded : r \in Of(candidate, id).rasters}
                   moved == {<<c[1] - d.shift[1], c[2] - d.shift[2]>> : c \in flood}
               IN /\ d.lost = expected \ moved /\ d.added = moved \ expected
                  /\ \A axis \in {1, 2} : d.shift[axis] \in -MaxGridShift .. MaxGridShift
                  /\ d.shift # <<0, 0>> =>
                       Different(d) < Cardinality(expected \ flood) + Cardinality(flood \ expected)
                  /\ IsFiniteSet(d.lost) /\ IsFiniteSet(d.added)
    <3>1. PICK B, T, d : /\ B = Of(base, id).rasters /\ T = Of(candidate, id).rasters
                         /\ d = diffs[id]
      OBVIOUS
    <3>2. id \in ToSet(Shared) /\ d = CompareOutputs(B, T) /\ ResultOk(base) /\ ResultOk(candidate)
      BY <3>1 DEF CompareInv
    <3>3. RastersOk(B) /\ RastersOk(T)
      <4>1. id \in ToSet(IdsOf(base)) /\ id \in ToSet(IdsOf(candidate))
        BY <3>2, SharedFacts
      <4>2. Of(base, id) \in ToSet(base) /\ Of(candidate, id) \in ToSet(candidate)
        BY <3>2, <4>1, IdFacts
      <4> QED
        BY <3>1, <3>2, <4>2 DEF ResultOk
    <3>4. /\ d.lost = FloodOf(B) \ MovedBy(FloodOf(T), d.shift)
          /\ d.added = MovedBy(FloodOf(T), d.shift) \ FloodOf(B)
          /\ \A axis \in {1, 2} : d.shift[axis] \in -MaxGridShift .. MaxGridShift
          /\ d.shift # <<0, 0>> =>
                Different(d) < Cardinality(FloodOf(B) \ FloodOf(T))
                                 + Cardinality(FloodOf(T) \ FloodOf(B))
          /\ IsFiniteSet(d.lost) /\ IsFiniteSet(d.added)
      BY <3>2, <3>3, CompareOutputsFacts
    <3> QED
      BY <3>1, <3>4 DEF FloodOf, MovedBy
  <2>2. ASSUME report # NoReport
        PROVE  /\ IdsOf(report) = Shared
               /\ \A s \in ToSet(report) : s.matches =>
                    /\ diffs[s.id].lost = {} /\ diffs[s.id].added = {}
                    /\ Missing(s.id) = {}
    <3>1. PICK S : S = Shared /\ S \in Seq(Nat) /\ DOMAIN S = 1 .. Len(S)
      BY SharedFacts DEF CompareInv
    <3>2. DOMAIN report = DOMAIN S /\ \A n \in DOMAIN S :
            /\ S[n] \in DOMAIN diffs /\ report[n].id = S[n]
            /\ report[n].matches => Different(diffs[S[n]]) = 0 /\ Missing(S[n]) = {}
      BY <2>2, <3>1 DEF CompareInv
    <3>3. IdsOf(report) = S
      <4>1. IdsOf(report) = [n \in DOMAIN S |-> S[n]]
        BY <3>2 DEF IdsOf
      <4> QED
        BY <3>1, <4>1
    <3>4. ASSUME NEW s \in ToSet(report), s.matches
          PROVE  /\ diffs[s.id].lost = {} /\ diffs[s.id].added = {}
                 /\ Missing(s.id) = {}
      <4>1. PICK n \in DOMAIN S : s = report[n]
        BY <3>2, <3>4 DEF ToSet
      <4>2. /\ s.id \in DOMAIN diffs
            /\ Different(diffs[s.id]) = 0 /\ Missing(s.id) = {}
        BY <3>2, <3>4, <4>1
      <4>3. PICK d : d = diffs[s.id] /\ IsFiniteSet(d.lost) /\ IsFiniteSet(d.added)
        BY <2>1, <4>2
      <4>4. Cardinality(d.lost) \in Nat /\ Cardinality(d.added) \in Nat
        BY <4>3, FS_CardinalityType
      <4>5. Cardinality(d.lost) = 0 /\ Cardinality(d.added) = 0
        BY <4>2, <4>3, <4>4 DEF Different
      <4>6. d.lost = {} /\ d.added = {}
        BY <4>3, <4>5, FS_EmptySet
      <4> QED
        BY <4>2, <4>3, <4>6
    <3> QED
      BY <3>1, <3>3, <3>4
  <2> QED
    BY <2>1, <2>2 DEF ComparisonIsExact
<1> QED
  BY <1>1, CompareInvariant, PTL

-----------------------------------------------------------------------------
(* Sequences of sequences. *)

\* A set of naturals that is not empty has a least element.
LEMMA LeastExists ==
    ASSUME NEW S \in SUBSET Nat, S # {}
    PROVE  \E i \in S : \A k \in S : i <= k
<1> DEFINE Less == {pair \in Nat \X Nat : pair[1] < pair[2]}
<1>1. PICK i \in S : \A k \in S : ~ (<<k, i>> \in Less)
  <2>1. IsWellFoundedOn(Less, Nat)
    BY NatLessThanWellFounded DEF OpToRel
  <2> QED
    BY <2>1, WFMin
<1>2. ASSUME NEW k \in S PROVE i <= k
  <2>1. ~ (<<k, i>> \in Less)
    BY <1>1
  <2>2. <<k, i>> \in Nat \X Nat /\ <<k, i>>[1] = k /\ <<k, i>>[2] = i
    OBVIOUS
  <2>3. ~ (k < i)
    BY <2>1, <2>2
  <2> QED
    BY <2>3
<1> QED
  BY <1>2

\* What FlattenSeq defines by recursion: the joined prefixes of s.
Joins(f, s) ==
    f = [i \in 1 .. Len(s) |-> IF i = 1 THEN s[i] ELSE f[i - 1] \o s[i]]

\* Such a function exists, for sequences of every length.
LEMMA JoinsExist ==
    ASSUME NEW T, NEW s \in Seq(T)
    PROVE  \E f : Joins(f, s)
<1> DEFINE P(n) == \A t \in Seq(T) : Len(t) = n => \E f : Joins(f, t)
<1> DEFINE Bad == {n \in Nat : ~P(n)}
<1>1. CASE Bad = {}
  <2>1. P(Len(s))
    BY <1>1
  <2> QED
    BY <2>1
<1>2. CASE Bad # {}
  <2>1. PICK n \in Bad : \A k \in Bad : n <= k
    <3> HIDE DEF P
    <3> QED
      BY <1>2, LeastExists
  <2>2. PICK t \in Seq(T) : Len(t) = n /\ ~ \E f : Joins(f, t)
    OBVIOUS
  <2>3. CASE n = 0
    <3>1. Joins([i \in 1 .. 0 |-> 0], t)
      BY <2>2, <2>3 DEF Joins
    <3> QED
      BY <2>2, <3>1
  <2>4. CASE n > 0
    <3> DEFINE u == SubSeq(t, 1, n - 1)
    <3>1. u \in Seq(T) /\ Len(u) = n - 1 /\ \A i \in 1 .. n - 1 : u[i] = t[i]
      BY <2>2, <2>4
    <3>2. n - 1 \in Nat /\ n - 1 \notin Bad
      BY <2>1, <2>4
    <3>3. P(n - 1)
      <4> HIDE DEF P
      <4> QED
        BY <3>2
    <3>4. PICK g : Joins(g, u)
      <4> HIDE DEF u
      <4> QED
        BY <3>1, <3>3
    <3> HIDE DEF u
    <3>5. g = [i \in 1 .. n - 1 |-> IF i = 1 THEN u[i] ELSE g[i - 1] \o u[i]]
      BY <3>4, <3>1 DEF Joins
    <3> DEFINE f == [i \in 1 .. n |-> IF i < n THEN g[i]
                                      ELSE IF i = 1 THEN t[i] ELSE g[i - 1] \o t[i]]
    <3>6. ASSUME NEW i \in 1 .. n
          PROVE  f[i] = IF i = 1 THEN t[i] ELSE f[i - 1] \o t[i]
      <4>1. CASE i < n
        <5>1. i \in 1 .. n - 1 /\ f[i] = g[i]
          BY <4>1
        <5>2. g[i] = IF i = 1 THEN t[i] ELSE g[i - 1] \o t[i]
          BY <5>1, <3>5, <3>1
        <5>3. i # 1 => i - 1 \in 1 .. n /\ i - 1 < n
          BY <4>1
        <5> QED
          BY <5>1, <5>2, <5>3
      <4>2. CASE i = n
        <5>1. i # 1 => i - 1 \in 1 .. n /\ i - 1 < n
          BY <4>2
        <5> QED
          BY <4>2, <5>1
      <4> QED
        BY <4>1, <4>2
    <3>7. Joins(f, t)
      <4>1. f = [i \in 1 .. n |-> IF i = 1 THEN t[i] ELSE f[i - 1] \o t[i]]
        BY <3>6
      <4> HIDE DEF f
      <4> QED
        BY <4>1, <2>2 DEF Joins
    <3> QED
      BY <3>7, <2>2
  <2> QED
    BY <2>3, <2>4
<1> QED
  BY <1>1, <1>2

\* FlattenSeq is the last of them.
LEMMA FlattenIsJoin ==
    ASSUME NEW T, NEW s \in Seq(T), s # <<>>
    PROVE  \E f : Joins(f, s) /\ FlattenSeq(s) = f[Len(s)]
<1>1. PICK g : Joins(g, s)
  BY JoinsExist
<1>2. Len(s) # 0
  OBVIOUS
<1> DEFINE flatten == CHOOSE f : Joins(f, s)
<1>3. Joins(flatten, s)
  BY <1>1
<1>4. FlattenSeq(s) = flatten[Len(s)]
  BY <1>2 DEF FlattenSeq, Joins
<1> HIDE DEF flatten
<1> QED
  BY <1>3, <1>4

\* The values of a join, one by one.
LEMMA JoinValue ==
    ASSUME NEW T, NEW s \in Seq(T), NEW f, Joins(f, s), NEW i \in 1 .. Len(s)
    PROVE  f[i] = IF i = 1 THEN s[i] ELSE f[i - 1] \o s[i]
<1> DEFINE g == [j \in 1 .. Len(s) |-> IF j = 1 THEN s[j] ELSE f[j - 1] \o s[j]]
<1>1. f = g
  BY DEF Joins
<1>2. g[i] = IF i = 1 THEN s[i] ELSE f[i - 1] \o s[i]
  OBVIOUS
<1> QED
  BY <1>1, <1>2

\* Two joins agree on a common prefix.
LEMMA JoinsAgree ==
    ASSUME NEW T, NEW s \in Seq(T), NEW t \in Seq(T), NEW f, NEW g,
           Joins(f, s), Joins(g, t),
           NEW n \in Nat, n <= Len(s), n <= Len(t), \A i \in 1 .. n : s[i] = t[i]
    PROVE  \A i \in 1 .. n : f[i] = g[i]
<1> DEFINE Bad == {i \in 1 .. n : f[i] # g[i]}
<1>1. CASE Bad = {}
  BY <1>1
<1>2. CASE Bad # {}
  <2>1. Bad \in SUBSET Nat
    OBVIOUS
  <2>2. PICK i \in Bad : \A k \in Bad : i <= k
    BY <1>2, <2>1, LeastExists
  <2>3. i \in 1 .. Len(s) /\ i \in 1 .. Len(t) /\ s[i] = t[i] /\ i \in 1 .. n
    OBVIOUS
  <2>4. f[i] = IF i = 1 THEN s[i] ELSE f[i - 1] \o s[i]
    BY <2>3, JoinValue
  <2>5. g[i] = IF i = 1 THEN t[i] ELSE g[i - 1] \o t[i]
    BY <2>3, JoinValue
  <2>6. i # 1 => f[i - 1] = g[i - 1]
    <3>1. i # 1 => i - 1 \in 1 .. n /\ ~ (i <= i - 1)
      BY <2>3
    <3> QED
      BY <3>1, <2>2
  <2>7. f[i] = g[i]
    BY <2>3, <2>4, <2>5, <2>6
  <2> QED
    BY <2>7
<1> QED
  BY <1>1, <1>2

\* Flattening one more sequence appends it.
LEMMA FlattenGrows ==
    ASSUME NEW T, NEW s \in Seq(T), NEW x \in T, s # <<>>
    PROVE  FlattenSeq(Append(s, x)) = FlattenSeq(s) \o x
<1>0. Append(s, x) \in Seq(T)
  OBVIOUS
<1>1. PICK t \in Seq(T) : t = Append(s, x)
  BY <1>0
<1>2. /\ Len(s) \in Nat /\ Len(s) > 0 /\ Len(t) = Len(s) + 1
      /\ t # <<>> /\ t[Len(t)] = x
      /\ \A i \in 1 .. Len(s) : s[i] = t[i]
  BY <1>1, EmptySeq
<1>3. PICK f : Joins(f, s) /\ FlattenSeq(s) = f[Len(s)]
  BY FlattenIsJoin
<1>4. PICK g : Joins(g, t) /\ FlattenSeq(t) = g[Len(t)]
  BY <1>2, FlattenIsJoin
<1>5. \A i \in 1 .. Len(s) : f[i] = g[i]
  BY <1>2, <1>3, <1>4, JoinsAgree
<1>6. g[Len(t)] = g[Len(t) - 1] \o x
  <2>1. Len(t) \in 1 .. Len(t) /\ Len(t) # 1
    BY <1>2
  <2>2. g[Len(t)] = IF Len(t) = 1 THEN t[Len(t)] ELSE g[Len(t) - 1] \o t[Len(t)]
    BY <2>1, <1>4, JoinValue
  <2> QED
    BY <2>1, <2>2, <1>2
<1>7. Len(s) \in 1 .. Len(s) /\ Len(t) - 1 = Len(s)
  BY <1>2
<1>8. FlattenSeq(t) = f[Len(s)] \o x
  BY <1>4, <1>5, <1>6, <1>7
<1> QED
  BY <1>1, <1>3, <1>8

\* Also when it is the first one.
LEMMA FlattenAppend ==
    ASSUME NEW S, NEW s \in Seq(Seq(S)), NEW x \in Seq(S)
    PROVE  FlattenSeq(Append(s, x)) = FlattenSeq(s) \o x
<1>1. CASE s # <<>>
  BY <1>1, FlattenGrows
<1>2. CASE s = <<>>
  <2>1. FlattenSeq(s) = <<>>
    BY <1>2 DEF FlattenSeq
  <2>0. Append(s, x) \in Seq(Seq(S))
    OBVIOUS
  <2>2. PICK t \in Seq(Seq(S)) : t = Append(s, x)
    BY <2>0
  <2>3. Len(t) = 1 /\ t # <<>> /\ t[1] = x
    BY <1>2, <2>2
  <2>4. PICK g : Joins(g, t) /\ FlattenSeq(t) = g[Len(t)]
    BY <2>3, FlattenIsJoin
  <2>5. g[1] = x
    BY <2>3, <2>4, JoinValue
  <2>6. <<>> \o x = x
    OBVIOUS
  <2> QED
    BY <2>1, <2>2, <2>3, <2>4, <2>5, <2>6
<1> QED
  BY <1>1, <1>2

\* The flattened sequence is one of elements.
LEMMA FlattenType ==
    ASSUME NEW S, NEW s \in Seq(Seq(S))
    PROVE  FlattenSeq(s) \in Seq(S)
<1>1. CASE s = <<>>
  BY <1>1 DEF FlattenSeq
<1>2. CASE s # <<>>
  <2>1. PICK f : Joins(f, s) /\ FlattenSeq(s) = f[Len(s)]
    BY <1>2, FlattenIsJoin
  <2> DEFINE Bad == {i \in 1 .. Len(s) : f[i] \notin Seq(S)}
  <2>2. Len(s) \in 1 .. Len(s)
    BY <1>2
  <2>3. CASE Bad = {}
    BY <2>1, <2>2, <2>3
  <2>4. CASE Bad # {}
    <3>1. Bad \in SUBSET Nat
      OBVIOUS
    <3>2. PICK i \in Bad : \A k \in Bad : i <= k
      BY <2>4, <3>1, LeastExists
    <3>3. f[i] = IF i = 1 THEN s[i] ELSE f[i - 1] \o s[i]
      BY <2>1, JoinValue
    <3>4. s[i] \in Seq(S)
      BY ElementOfSeq
    <3>5. i # 1 => f[i - 1] \in Seq(S)
      <4>1. i # 1 => i - 1 \in 1 .. Len(s) /\ ~ (i <= i - 1)
        OBVIOUS
      <4> QED
        BY <4>1, <3>2
    <3>6. f[i] \in Seq(S)
      BY <3>3, <3>4, <3>5
    <3> QED
      BY <3>6
  <2> QED
    BY <2>3, <2>4
<1> QED
  BY <1>1, <1>2

-----------------------------------------------------------------------------
(* The prepared index. *)

\* The files that download_huc can want.
FilesOfSource(src) ==
    {File("branch_ids", -1), File("hydrotable", -1)}
        \cup {File("catchments", b) : b \in ToSet(src.ids)}
        \cup {File("hydroTable", b) : b \in ToSet(src.ids)}

\* It wants nothing else.
LEMMA WantedFacts ==
    ASSUME NEW src, Hydrofabric(src)
    PROVE  /\ Wanted(src) \in Seq(FilesOfSource(src))
           /\ \A f \in FilesOfSource(src) : f.kind = "catchments" => f.branch \in ToSet(src.ids)
<1> DEFINE F == FilesOfSource(src)
<1> DEFINE each(i) == <<File("catchments", src.ids[i])>>
                \o (IF src.split THEN <<File("hydroTable", src.ids[i])>> ELSE <<>>)
<1> DEFINE s == [i \in 1 .. Len(src.ids) |-> each(i)]
<1>1. src.ids \in Seq(Nat) /\ Len(src.ids) \in Nat
  BY DEF Hydrofabric
<1>2. ASSUME NEW i \in 1 .. Len(src.ids) PROVE each(i) \in Seq(F)
  <2>1. src.ids[i] \in ToSet(src.ids)
    BY <1>1, ToSetFacts
  <2>2. File("catchments", src.ids[i]) \in F /\ File("hydroTable", src.ids[i]) \in F
    BY <2>1 DEF FilesOfSource
  <2> HIDE DEF F
  <2>3. <<File("catchments", src.ids[i])>> \in Seq(F) /\ <<File("hydroTable", src.ids[i])>> \in Seq(F)
        /\ <<>> \in Seq(F)
    BY <2>2
  <2> QED
    BY <2>3
<1>3. s \in Seq(Seq(F))
  <2> HIDE DEF each, F
  <2>1. s \in [1 .. Len(src.ids) -> Seq(F)]
    BY <1>2
  <2> HIDE DEF s
  <2> QED
    BY <2>1, <1>1
<1>4. FlattenSeq(s) \in Seq(F)
  <2> HIDE DEF s, F
  <2> QED
    BY <1>3, FlattenType
<1>5. <<File("branch_ids", -1)>> \in Seq(F)
      /\ (IF src.split THEN <<>> ELSE <<File("hydrotable", -1)>>) \in Seq(F)
  <2>1. File("branch_ids", -1) \in F /\ File("hydrotable", -1) \in F
    BY DEF FilesOfSource
  <2> HIDE DEF F
  <2> QED
    BY <2>1
<1>6. Wanted(src) = <<File("branch_ids", -1)>> \o FlattenSeq(s)
                       \o (IF src.split THEN <<>> ELSE <<File("hydrotable", -1)>>)
  BY DEF Wanted
<1>7. Wanted(src) \in Seq(F)
  <2> HIDE DEF s, F
  <2> QED
    BY <1>4, <1>5, <1>6
<1>8. \A f \in F : f.kind = "catchments" => f.branch \in ToSet(src.ids)
  <2>1. \A k, b : File(k, b).kind = k /\ File(k, b).branch = b
    BY DEF File
  <2> QED
    BY <2>1 DEF FilesOfSource
<1> QED
  BY <1>7, <1>8

\* The index that a conversion writes from a set of branches.
IndexOf(src, block, branches) ==
    [block |-> block,
     height |-> src.place[0].height, width |-> src.place[0].width,
     branches |-> [b \in branches |-> src.place[b]],
     groups |-> RowGroups(UNION {BranchRows(src, b, block) : b \in branches})]

Converts(idx, src, block) ==
    \E branches \in SUBSET ToSet(src.ids) :
        /\ 0 \in branches /\ \A b \in branches : Placed(src, b)
        /\ idx = IndexOf(src, block, branches)

\* Sources, directories and indexes of the HUCs.
IndexInv ==
    /\ DOMAIN source = Hucs /\ DOMAIN dir = Hucs /\ DOMAIN index = Hucs
    /\ fetched \subseteq Hucs /\ root \in BlockSizes \cup {0}
    /\ interruptions \in 0 .. MaxInterruptions
    /\ \A h \in Hucs :
         /\ source[h] \in Sources[h]
         /\ dir[h] \subseteq ToSet(Wanted(source[h]))
         /\ index[h] = NoIndex \/ (root # 0 /\ Converts(index[h], source[h], root))

\* A converted HUC.
LEMMA ConvertedFacts ==
    ASSUME IndexInv, NEW h \in Hucs, NEW block, Convertible(h)
    PROVE  Converts(Converted(h, block), source[h], block)
<1> DEFINE src == source[h]
<1> DEFINE B == BranchSources(h)
<1>1. Hydrofabric(src) /\ dir[h] \subseteq ToSet(Wanted(src))
  BY IndexAssumption DEF IndexInv
<1>2. B \in SUBSET ToSet(src.ids)
  <2>1. \A f \in ToSet(Wanted(src)) : f.kind = "catchments" => f.branch \in ToSet(src.ids)
    BY <1>1, WantedFacts, ToSetFacts
  <2> QED
    BY <1>1, <2>1 DEF BranchSources, BranchIds
<1>3. 0 \in B /\ \A b \in B : Placed(src, b)
  BY DEF Convertible
<1>4. Converted(h, block) = IndexOf(src, block, B)
  BY DEF Converted, IndexOf
<1> HIDE DEF B, src
<1> QED
  BY <1>2, <1>3, <1>4 DEF Converts, src

\* Nothing is there at first.
LEMMA IndexInvInit ==
    ASSUME Init
    PROVE  IndexInv
<1>1. /\ dir = [h \in Hucs |-> {}] /\ fetched = {} /\ root = 0
      /\ index = [h \in Hucs |-> NoIndex] /\ interruptions = 0
      /\ source \in [Hucs -> UNION {Sources[h] : h \in Hucs}]
      /\ \A h \in Hucs : source[h] \in Sources[h]
  BY DEF Init, IndexInit
<1> QED
  BY <1>1, IndexAssumption DEF IndexInv

\* Downloads bring wanted files; a conversion writes an index of one block size.
LEMMA IndexInvStep ==
    ASSUME IndexInv, [Next]_vars
    PROVE  IndexInv'
<1>0. \A h \in Hucs : Wanted(source[h]) \in Seq(FilesOfSource(source[h]))
  BY IndexAssumption, WantedFacts DEF IndexInv
<1>1. CASE UNCHANGED indexVars
  <2>1. /\ source' = source /\ dir' = dir /\ fetched' = fetched /\ root' = root
        /\ index' = index /\ interruptions' = interruptions
    BY <1>1 DEF indexVars
  <2> QED
    BY <2>1 DEF IndexInv
<1>2. ASSUME NEW h \in Hucs, SkipDownload(h) PROVE IndexInv'
  BY <1>2 DEF SkipDownload, IndexInv
<1>3. ASSUME NEW h \in Hucs, Download(h) PROVE IndexInv'
  <2>1. dir' = [dir EXCEPT ![h] = @ \cup ToSet(Wanted(source[h]))]
    BY <1>3 DEF Download
  <2> QED
    BY <1>3, <2>1 DEF Download, IndexInv
<1>4. ASSUME NEW h \in Hucs, InterruptDownload(h) PROVE IndexInv'
  <2>1. PICK n \in 1 .. Len(Wanted(source[h])) - 1 :
          dir' = [dir EXCEPT ![h] = @ \cup ToSet(SubSeq(Wanted(source[h]), 1, n))]
    BY <1>4 DEF InterruptDownload
  <2>2. ToSet(SubSeq(Wanted(source[h]), 1, n)) \subseteq ToSet(Wanted(source[h]))
    <3> DEFINE T == FilesOfSource(source[h])
    <3> HIDE DEF T
    <3>1. PICK s \in Seq(T) : s = Wanted(source[h])
      BY <1>0 DEF T
    <3>2. Len(s) \in Nat /\ n \in Nat /\ n <= Len(s)
      BY <3>1
    <3>3. SubSeq(s, 1, n) \in Seq(T) /\ Len(SubSeq(s, 1, n)) = n
          /\ \A i \in 1 .. n : i \in 1 .. Len(s) /\ SubSeq(s, 1, n)[i] = s[i]
      BY <3>2
    <3>4. PICK u \in Seq(T) : u = SubSeq(s, 1, n)
      BY <3>3
    <3>5. \A x : x \in ToSet(u) <=> \E i \in 1 .. Len(u) : x = u[i]
      BY ToSetFacts
    <3>6. \A x : x \in ToSet(s) <=> \E i \in 1 .. Len(s) : x = s[i]
      BY ToSetFacts
    <3> QED
      BY <3>1, <3>3, <3>4, <3>5, <3>6
  <2>3. interruptions' \in 0 .. MaxInterruptions
    BY <1>4, IndexAssumption DEF InterruptDownload, IndexInv
  <2> QED
    BY <1>4, <2>1, <2>2, <2>3 DEF InterruptDownload, IndexInv
<1>5. ASSUME NEW h \in Hucs, NEW block \in BlockSizes, RefuseDataset(h, block) PROVE IndexInv'
  BY <1>5 DEF RefuseDataset, IndexInv
<1>6. ASSUME NEW h \in Hucs, NEW block \in BlockSizes, PrepareHuc(h, block) PROVE IndexInv'
  <2>1. /\ root \in {0, block} /\ root' = block /\ root' # 0
        /\ source' = source /\ dir' = dir /\ interruptions' = interruptions
        /\ fetched' = fetched \ {h}
    BY <1>6, IndexAssumption DEF PrepareHuc
  <2>2. index' = [index EXCEPT ![h] = IF Convertible(h) THEN Converted(h, block) ELSE NoIndex]
    BY <1>6 DEF PrepareHuc
  <2>3. ASSUME NEW g \in Hucs
        PROVE  index'[g] = NoIndex \/ Converts(index'[g], source[g], block)
    <3>1. CASE g # h
      <4>1. index'[g] = index[g]
        BY <2>2, <3>1
      <4> QED
        BY <4>1, <2>1 DEF IndexInv
    <3>2. CASE g = h
      <4>1. index'[g] = IF Convertible(h) THEN Converted(h, block) ELSE NoIndex
        BY <2>2, <3>2 DEF IndexInv
      <4> QED
        BY <4>1, <3>2, ConvertedFacts
    <3> QED
      BY <3>1, <3>2
  <2>4. DOMAIN index' = Hucs
    BY <2>2 DEF IndexInv
  <2> QED
    BY <2>1, <2>3, <2>4 DEF IndexInv
<1>7. IndexNext \/ UNCHANGED indexVars
  BY DEF Next, Prepare, Streaming, Legacy, Compare, vars
<1> QED
  BY <1>1, <1>2, <1>3, <1>4, <1>5, <1>6, <1>7 DEF IndexNext

-----------------------------------------------------------------------------
(* Ratings and row groups. *)

\* The table rows of a HydroID and a feature on a branch, and their keys.
RowsAt(src, b, k) ==
    {i \in RowsOf(src, b) : src.table[i].hydroid = k[1] /\ src.table[i].feature = k[2]}

KeysOf(src, b) == {<<src.table[i].hydroid, src.table[i].feature>> : i \in RowsOf(src, b)}

\* Places in the hydro-table.
LEMMA RowsOfFacts ==
    ASSUME NEW src, Hydrofabric(src), NEW b
    PROVE  /\ Len(src.table) \in Nat /\ DOMAIN src.table = 1 .. Len(src.table)
           /\ RowsOf(src, b) \in SUBSET (1 .. Len(src.table)) /\ IsFiniteSet(RowsOf(src, b))
           /\ \A i \in RowsOf(src, b) :
                src.table[i].hydroid \in Int /\ src.table[i].feature \in Int
           /\ IsFiniteSet(KeysOf(src, b))
           /\ \A k \in KeysOf(src, b) : k[1] \in Int /\ k[2] \in Int
           /\ \A k : IsFiniteSet(RowsAt(src, b, k)) /\ RowsAt(src, b, k) \in SUBSET Int
<1> DEFINE R == RowsOf(src, b)
<1>1. src.table \in Seq(TableRows)
  BY DEF Hydrofabric
<1>2. Len(src.table) \in Nat /\ DOMAIN src.table = 1 .. Len(src.table)
      /\ \A i \in 1 .. Len(src.table) : src.table[i] \in TableRows
  BY <1>1
<1>3. R \in SUBSET (1 .. Len(src.table))
  BY <1>2 DEF RowsOf
<1>4. IsFiniteSet(1 .. Len(src.table))
  <2>1. 1 \in Int /\ Len(src.table) \in Int
    BY <1>2
  <2> QED
    BY <2>1, FS_Interval
<1>5. IsFiniteSet(R)
  BY <1>3, <1>4, FS_Subset
<1>6. \A r \in TableRows : r.hydroid \in Int /\ r.feature \in Int
  BY DEF TableRows
<1>7. \A i \in R : src.table[i].hydroid \in Int /\ src.table[i].feature \in Int
  BY <1>2, <1>3, <1>6
<1>8. IsFiniteSet(KeysOf(src, b))
  <2> DEFINE f == [i \in R |-> <<src.table[i].hydroid, src.table[i].feature>>]
  <2>1. KeysOf(src, b) = {f[i] : i \in R}
    BY DEF KeysOf
  <2>2. f = [i \in R |-> f[i]]
    OBVIOUS
  <2> HIDE DEF f, R
  <2> QED
    BY <2>1, <2>2, <1>5, FiniteImage
<1>9. \A k \in KeysOf(src, b) : k[1] \in Int /\ k[2] \in Int
  BY <1>7 DEF KeysOf
<1>10. ASSUME NEW k PROVE IsFiniteSet(RowsAt(src, b, k)) /\ RowsAt(src, b, k) \in SUBSET Int
  <2>1. RowsAt(src, b, k) \in SUBSET R
    BY DEF RowsAt
  <2> QED
    BY <2>1, <1>3, <1>5, FS_Subset
<1> QED
  BY <1>2, <1>3, <1>5, <1>7, <1>8, <1>9, <1>10

\* The row of reaches.parquet of a key.
RowFor(src, b, block, k) ==
    [feature |-> k[2], branch |-> b, hydroid |-> k[1],
     curve |-> [n \in 1 .. Len(Ascending(RowsAt(src, b, k))) |->
                  [q |-> src.table[Ascending(RowsAt(src, b, k))[n]].q,
                   h |-> src.table[Ascending(RowsAt(src, b, k))[n]].h]],
     row_order |-> IF \E k2 \in KeysOf(src, b) : k2[1] = k[1] /\ k2[2] # k[2]
                   THEN Ascending(RowsAt(src, b, k)) ELSE <<>>,
     blocks |-> UNION {OccupiedBlocks(src, b, block, j[1]) :
                         j \in {m \in KeysOf(src, b) : m[2] = k[2]}}]

\* A branch has one such row for each key.
LEMMA BranchRowsFacts ==
    ASSUME NEW src, Hydrofabric(src), NEW b, NEW block
    PROVE  /\ BranchRows(src, b, block) = {RowFor(src, b, block, k) : k \in KeysOf(src, b)}
           /\ IsFiniteSet(BranchRows(src, b, block))
           /\ \A r \in BranchRows(src, b, block) :
                /\ r.branch = b /\ r.hydroid \in Int /\ r.feature \in Int
                /\ <<r.hydroid, r.feature>> \in KeysOf(src, b)
                /\ r = RowFor(src, b, block, <<r.hydroid, r.feature>>)
           /\ \A k \in KeysOf(src, b) :
                /\ RowFor(src, b, block, k) \in BranchRows(src, b, block)
                /\ RowFor(src, b, block, k).hydroid = k[1]
                /\ RowFor(src, b, block, k).feature = k[2]
                /\ RowFor(src, b, block, k).branch = b
<1> DEFINE K == KeysOf(src, b)
<1> DEFINE at(k) == Ascending(RowsAt(src, b, k))
<1> DEFINE rating(k) ==
          [curve |-> [n \in 1 .. Len(at(k)) |->
                        [q |-> src.table[at(k)[n]].q, h |-> src.table[at(k)[n]].h]],
           row_order |-> IF \E k2 \in K : k2[1] = k[1] /\ k2[2] # k[2]
                         THEN at(k) ELSE <<>>]
<1>1. Ratings(src, b) = [k \in K |-> rating(k)]
  BY DEF Ratings, RowsAt, KeysOf
<1>2. \A k \in K :
        RowFor(src, b, block, k) =
        [feature |-> k[2], branch |-> b, hydroid |-> k[1],
         curve |-> Ratings(src, b)[k].curve, row_order |-> Ratings(src, b)[k].row_order,
         blocks |-> UNION {OccupiedBlocks(src, b, block, j[1]) :
                             j \in {m \in DOMAIN Ratings(src, b) : m[2] = k[2]}}]
  <2> TAKE k \in K
  <2>1. Ratings(src, b)[k] = rating(k) /\ DOMAIN Ratings(src, b) = K
    <3> HIDE DEF K, rating
    <3> QED
      BY <1>1
  <2>2. rating(k).curve = [n \in 1 .. Len(at(k)) |->
                        [q |-> src.table[at(k)[n]].q, h |-> src.table[at(k)[n]].h]]
        /\ rating(k).row_order = IF \E k2 \in K : k2[1] = k[1] /\ k2[2] # k[2]
                         THEN at(k) ELSE <<>>
    <3> HIDE DEF at, K
    <3> QED
      OBVIOUS
  <2> HIDE DEF rating
  <2> QED
    BY <2>1, <2>2 DEF RowFor
<1>3. DOMAIN Ratings(src, b) = K
  <2> HIDE DEF K, rating
  <2> QED
    BY <1>1
<1>4. BranchRows(src, b, block) = {RowFor(src, b, block, k) : k \in K}
  <2>1. BranchRows(src, b, block) = {
        [feature |-> k[2], branch |-> b, hydroid |-> k[1],
         curve |-> Ratings(src, b)[k].curve, row_order |-> Ratings(src, b)[k].row_order,
         blocks |-> UNION {OccupiedBlocks(src, b, block, j[1]) :
                             j \in {m \in DOMAIN Ratings(src, b) : m[2] = k[2]}}] :
         k \in DOMAIN Ratings(src, b)}
    BY DEF BranchRows
  <2> HIDE DEF K, rating
  <2> QED
    BY <1>2, <1>3, <2>1
<1>5. \A k : /\ RowFor(src, b, block, k).hydroid = k[1]
             /\ RowFor(src, b, block, k).feature = k[2]
             /\ RowFor(src, b, block, k).branch = b
  BY DEF RowFor
<1>6. \A k \in K : k = <<k[1], k[2]>> /\ k[1] \in Int /\ k[2] \in Int
  <2>1. \A k \in K : k = <<k[1], k[2]>>
    BY DEF KeysOf
  <2> HIDE DEF K
  <2> QED
    BY <2>1, RowsOfFacts DEF K
<1>7. IsFiniteSet(BranchRows(src, b, block))
  <2> DEFINE f == [k \in K |-> RowFor(src, b, block, k)]
  <2>1. BranchRows(src, b, block) = {f[k] : k \in K} /\ f = [k \in K |-> f[k]]
    BY <1>4
  <2>2. IsFiniteSet(K)
    BY RowsOfFacts
  <2> HIDE DEF f, K
  <2> QED
    BY <2>1, <2>2, FiniteImage
<1> HIDE DEF K
<1>8. \A r \in BranchRows(src, b, block) :
                /\ r.branch = b /\ r.hydroid \in Int /\ r.feature \in Int
                /\ <<r.hydroid, r.feature>> \in K
                /\ r = RowFor(src, b, block, <<r.hydroid, r.feature>>)
  BY <1>4, <1>5, <1>6
<1> QED
  BY <1>4, <1>5, <1>7, <1>8 DEF K

\* A group that holds a wanted feature is read: bisect_left finds a wanted
\* feature that is not above the group's last one.
LEMMA GroupIsRead ==
    ASSUME NEW F \in SUBSET Int, IsFiniteSet(F),
           NEW group, IsFiniteSet(group), \A r \in group : r.feature \in Int,
           NEW row \in group, row.feature \in F
    PROVE  GroupCanHold(Ascending(F), group)
<1> DEFINE G == {r.feature : r \in group}
<1> DEFINE wanted == Ascending(F)
<1> DEFINE features == Ascending(G)
<1>1. G \in SUBSET Int /\ row.feature \in G
  OBVIOUS
<1>2. IsFiniteSet(G)
  <2> DEFINE f == [r \in group |-> r.feature]
  <2>1. G = {f[r] : r \in group} /\ f = [r \in group |-> f[r]]
    OBVIOUS
  <2> HIDE DEF f, G
  <2> QED
    BY <2>1, FiniteImage
<1>3. PICK g : g = row.feature /\ g \in F /\ g \in G /\ g \in Int
  BY <1>1
<1> HIDE DEF G
<1>4. PICK m : m = Cardinality(G)
  OBVIOUS
<1>5. /\ features \in Seq(G) /\ m \in Nat /\ Len(features) = m
      /\ \A i \in 1 .. m : features[i] \in G
      /\ \A i, j \in 1 .. m : i < j => features[i] < features[j]
      /\ \A x \in G : \E i \in 1 .. m : features[i] = x
  BY <1>1, <1>2, <1>4, AscendingFacts
<1>6. PICK w : w = Cardinality(F)
  OBVIOUS
<1>7. /\ w \in Nat /\ Len(wanted) = w /\ DOMAIN wanted = 1 .. w
      /\ \A i \in 1 .. w : wanted[i] \in F
      /\ \A i, j \in 1 .. w : i < j => wanted[i] < wanted[j]
      /\ \A x \in F : \E i \in 1 .. w : wanted[i] = x
  BY <1>6, AscendingFacts
<1> HIDE DEF features, wanted
<1>8. PICK k \in 1 .. m : features[k] = g
  BY <1>3, <1>5
<1>9. features # <<>> /\ m >= 1
  BY <1>5, <1>8
<1>10. Head(features) = features[1] /\ Last(features) = features[m]
  BY <1>5, <1>9 DEF Last
<1>11. PICK first, last \in Int : first = features[1] /\ last = features[m] /\ first <= g /\ g <= last
  <2>1. 1 \in 1 .. m /\ m \in 1 .. m
    BY <1>5, <1>9
  <2>2. features[1] \in Int /\ features[m] \in Int
    BY <2>1, <1>1, <1>5
  <2>3. 1 < k => features[1] < g
    BY <2>1, <1>5, <1>8
  <2>4. k < m => g < features[m]
    BY <2>1, <1>5, <1>8
  <2> QED
    BY <2>2, <2>3, <2>4, <1>3, <1>5, <1>8
<1>12. PICK n \in 1 .. w : wanted[n] = g
  BY <1>3, <1>7
<1> DEFINE Below == {i \in 1 .. w : wanted[i] < first}
<1>13. PICK p \in 1 .. n : Below = 1 .. p - 1
  <2> DEFINE NotBelow == {i \in 1 .. w : ~ (wanted[i] < first)}
  <2>1. NotBelow \in SUBSET Nat /\ n \in NotBelow
    BY <1>3, <1>11, <1>12
  <2>2. PICK p \in NotBelow : \A i \in NotBelow : p <= i
    <3> HIDE DEF NotBelow
    <3> QED
      BY <2>1, LeastExists
  <2>3. p \in 1 .. w /\ p \in 1 .. n /\ ~ (wanted[p] < first)
    BY <2>1, <2>2, <1>7
  <2>4. \A i \in 1 .. p - 1 : i \in Below
    BY <2>2, <2>3, <1>7
  <2>5. \A i \in 1 .. w : i > p => ~ (wanted[i] < first)
    <3> TAKE i \in 1 .. w
    <3>1. i > p => wanted[p] < wanted[i]
      BY <2>3, <1>7
    <3>2. wanted[p] \in Int /\ wanted[i] \in Int
      BY <2>3, <1>7
    <3> QED
      BY <3>1, <3>2, <2>3
  <2>6. Below = 1 .. p - 1
    BY <2>3, <2>4, <2>5, <1>7
  <2> QED
    BY <2>3, <2>6
<1>14. Cardinality(Below) = p - 1
  <2>1. 1 \in Int /\ p - 1 \in Int
    OBVIOUS
  <2>2. Cardinality(1 .. p - 1) = p - 1
    BY <2>1, FS_Interval
  <2> QED
    BY <2>2, <1>13
<1>15. p <= w /\ wanted[p] <= last
  <2>0. p \in 1 .. w
    BY <1>7, <1>12
  <2>1. p < n => wanted[p] < g
    BY <2>0, <1>7, <1>12
  <2>2. wanted[p] \in Int
    BY <2>0, <1>7
  <2> QED
    BY <2>1, <2>2, <1>3, <1>11, <1>12, <1>7
<1>16. {i \in DOMAIN wanted : wanted[i] < Head(features)} = Below
  BY <1>7, <1>10, <1>11
<1>17. Cardinality({i \in DOMAIN wanted : wanted[i] < Head(features)}) + 1 = p
  <2> HIDE DEF Below
  <2> QED
    BY <1>14, <1>16
<1>18. p <= Len(wanted) /\ wanted[p] <= Last(features)
  BY <1>7, <1>10, <1>11, <1>15
<1> QED
  BY <1>17, <1>18 DEF GroupCanHold, features, G, wanted

\* Splitting the rows into groups and reading those that can hold a wanted
\* feature finds every row of a wanted feature.
LEMMA ReadReachesFacts ==
    ASSUME NEW rows, IsFiniteSet(rows), \A r \in rows : r.feature \in Int,
           NEW F \in SUBSET Int, IsFiniteSet(F)
    PROVE  ReadReaches(RowGroups(rows), F) = {r \in rows : r.feature \in F}
<1> DEFINE A == {r.feature : r \in rows}
<1> DEFINE features == Ascending(A)
<1> DEFINE size == Len(features)
<1> DEFINE count == (size + ReachesPerGroup - 1) \div ReachesPerGroup
<1> DEFINE group(g) == {r \in rows : \E i \in DOMAIN features :
              /\ features[i] = r.feature
              /\ (i - 1) \div ReachesPerGroup = g - 1}
<1> DEFINE groups == RowGroups(rows)
<1>1. groups = [g \in 1 .. count |-> group(g)]
  BY DEF RowGroups
<1>2. DOMAIN groups = 1 .. count /\ \A g \in 1 .. count : groups[g] = group(g)
  <2> HIDE DEF groups, group, count
  <2> QED
    BY <1>1
<1>3. \A g \in 1 .. count : groups[g] \in SUBSET rows
  <2> HIDE DEF groups, count, features
  <2> QED
    BY <1>2
<1>4. ASSUME NEW row \in rows, row.feature \in F
      PROVE  \E g \in DOMAIN groups :
               row \in groups[g] /\ GroupCanHold(Ascending(F), groups[g])
  <2>1. A \in SUBSET Int /\ IsFiniteSet(A) /\ row.feature \in A
    <3> DEFINE f == [r \in rows |-> r.feature]
    <3>1. A = {f[r] : r \in rows} /\ f = [r \in rows |-> f[r]]
      OBVIOUS
    <3>2. A \in SUBSET Int /\ row.feature \in A
      OBVIOUS
    <3> HIDE DEF f, A
    <3> QED
      BY <3>1, <3>2, FiniteImage
  <2> HIDE DEF A
  <2>2. PICK n : n = Cardinality(A)
    OBVIOUS
  <2>3. n \in Nat /\ Len(features) = n /\ DOMAIN features = 1 .. n
        /\ \A x \in A : \E i \in 1 .. n : features[i] = x
    BY <2>1, <2>2, AscendingFacts
  <2>4. PICK i \in 1 .. n : features[i] = row.feature
    BY <2>1, <2>3
  <2>5. PICK q, s : q = (i - 1) \div s /\ s = ReachesPerGroup
    OBVIOUS
  <2>6. s \in Nat \ {0}
    BY <2>5, IndexAssumption
  <2>7. q \in Nat /\ q * s <= i - 1 /\ q \in 0 .. count - 1 /\ count \in Nat
    <3>1. i - 1 \in Nat /\ n + s - 1 \in Nat /\ i - 1 <= n - 1
      BY <2>6, <2>3
    <3>2. q \in Nat /\ q * s <= i - 1
      BY <3>1, <2>5, <2>6, BlockOf
    <3>3. PICK c \in Nat : c = (n + s - 1) \div s /\ n + s - 1 < c * s + s
      BY <3>1, <2>6, BlockOf
    <3>4. q * s < c * s
      <4>1. q * s \in Nat /\ c * s \in Nat
        BY <3>2, <3>3, <2>6
      <4> QED
        BY <4>1, <3>1, <3>2, <3>3, <2>6, <2>3
    <3>5. q < c
      <4>1. CASE q >= c
        <5>1. q * s >= c * s
          BY <4>1, <3>2, <3>3, <2>6, SMTT(30)
        <5> QED
          BY <5>1, <3>4, <3>2, <3>3, <2>6
      <4> QED
        BY <4>1, <3>2, <3>3
    <3>6. c = count
      BY <3>3, <2>3, <2>5
    <3> QED
      BY <3>2, <3>3, <3>5, <3>6
  <2>8. PICK g : g = q + 1
    OBVIOUS
  <2>9. g \in 1 .. count /\ (i - 1) \div ReachesPerGroup = g - 1
    <3> HIDE DEF count
    <3>1. g - 1 = q
      BY <2>7, <2>8
    <3> QED
      BY <3>1, <2>5, <2>7, <2>8
  <2>10. row \in groups[g]
    <3> HIDE DEF groups, features, count
    <3> QED
      BY <2>3, <2>4, <2>9, <1>2
  <2>11. IsFiniteSet(groups[g]) /\ \A r \in groups[g] : r.feature \in Int
    <3> HIDE DEF groups
    <3> QED
      BY <1>3, <2>9, FS_Subset
  <2>12. GroupCanHold(Ascending(F), groups[g])
    <3> HIDE DEF groups
    <3>1. PICK grp : grp = groups[g]
      OBVIOUS
    <3>2. GroupCanHold(Ascending(F), grp)
      BY <3>1, <1>4, <2>10, <2>11, GroupIsRead
    <3> QED
      BY <3>1, <3>2
  <2> QED
    BY <1>2, <2>9, <2>10, <2>12
<1>5. ReadReaches(groups, F) =
        {r \in UNION {groups[g] : g \in {n \in DOMAIN groups : GroupCanHold(Ascending(F), groups[n])}} :
           r.feature \in F}
  BY DEF ReadReaches
<1> HIDE DEF groups
<1>6. ReadReaches(groups, F) = {r \in rows : r.feature \in F}
  <2> HIDE DEF count
  <2> QED
    BY <1>2, <1>3, <1>4, <1>5
<1> QED
  BY <1>6 DEF groups

-----------------------------------------------------------------------------
(* The plan of a HUC. *)

Reaches == [huc : Hucs, feature : Int, flow : Int]
Discharges == [feature : Int, flow : Int]

FeaturesOf(discharges) == {d.feature : d \in ToSet(discharges)}

\* Each feature has one discharge.
LEMMA FirstDischargesFacts ==
    ASSUME NEW reaches \in Seq(Reaches), NEW h
    PROVE  /\ FirstDischarges(reaches, h) \in Seq(Discharges)
           /\ \A m, n \in 1 .. Len(FirstDischarges(reaches, h)) :
                FirstDischarges(reaches, h)[m].feature = FirstDischarges(reaches, h)[n].feature
                  => m = n
<1> DEFINE P == {i \in DOMAIN reaches :
            /\ reaches[i].huc = h
            /\ \A j \in 1 .. i - 1 :
                 reaches[j].huc = h => reaches[j].feature # reaches[i].feature}
<1> DEFINE first == Kept(reaches, P)
<1> DEFINE D == FirstDischarges(reaches, h)
<1>1. D = [n \in DOMAIN first |-> [feature |-> first[n].feature, flow |-> first[n].flow]]
  BY DEF FirstDischarges
<1>2. P \in SUBSET (1 .. Len(reaches)) /\ P \in SUBSET Int
  OBVIOUS
<1>3. \A i, j \in P : j < i => reaches[j].feature # reaches[i].feature
  <2> SUFFICES ASSUME NEW i \in P, NEW j \in P, j < i
               PROVE  reaches[j].feature # reaches[i].feature
    OBVIOUS
  <2>1. j \in 1 .. i - 1 /\ reaches[j].huc = h
    BY <1>2
  <2> QED
    BY <2>1
<1> HIDE DEF P
<1>4. PICK c : c = Cardinality(P)
  OBVIOUS
<1>5. /\ c \in Nat /\ DOMAIN first = 1 .. c /\ first \in Seq(Reaches) /\ IsFiniteSet(P)
      /\ \A n \in 1 .. c : Ascending(P)[n] \in P /\ first[n] = reaches[Ascending(P)[n]]
  BY <1>2, <1>4, KeptFacts
<1>6. \A m, n \in 1 .. c : m < n => Ascending(P)[m] < Ascending(P)[n]
  BY <1>2, <1>4, <1>5, AscendingFacts
<1> HIDE DEF first
<1>7. \A n \in 1 .. c : first[n] \in Reaches
  BY <1>5
<1>8. \A r \in Reaches : [feature |-> r.feature, flow |-> r.flow] \in Discharges
  BY DEF Reaches, Discharges
<1>9. D \in [1 .. c -> Discharges]
  <2> HIDE DEF D
  <2> QED
    BY <1>1, <1>5, <1>7, <1>8
<1>10. D \in Seq(Discharges) /\ Len(D) = c
  <2> HIDE DEF D
  <2> QED
    BY <1>5, <1>9
<1>11. \A n \in 1 .. c : D[n].feature = reaches[Ascending(P)[n]].feature
  <2> HIDE DEF D
  <2> QED
    BY <1>1, <1>5
<1>12. \A m, n \in 1 .. c : m < n => D[m].feature # D[n].feature
  <2> HIDE DEF D
  <2> QED
    BY <1>3, <1>5, <1>6, <1>11
<1>13. \A m, n \in 1 .. c : D[m].feature = D[n].feature => m = n
  <2> HIDE DEF D
  <2> TAKE m, n \in 1 .. c
  <2>1. m < n \/ n < m \/ m = n
    BY <1>5
  <2> QED
    BY <2>1, <1>12
<1> QED
  BY <1>10, <1>13

\* The features of a sequence of discharges.
LEMMA FeaturesFacts ==
    ASSUME NEW D \in Seq(Discharges)
    PROVE  /\ FeaturesOf(D) \in SUBSET Int /\ IsFiniteSet(FeaturesOf(D))
           /\ \A f : f \in FeaturesOf(D) <=> \E n \in 1 .. Len(D) : D[n].feature = f
<1>1. /\ IsFiniteSet(ToSet(D)) /\ ToSet(D) \in SUBSET Discharges
      /\ \A x : x \in ToSet(D) <=> \E n \in 1 .. Len(D) : x = D[n]
  BY ToSetFacts
<1>2. \A d \in Discharges : d.feature \in Int
  BY DEF Discharges
<1>3. FeaturesOf(D) \in SUBSET Int
  BY <1>1, <1>2 DEF FeaturesOf
<1>4. IsFiniteSet(FeaturesOf(D))
  <2> DEFINE S == ToSet(D)
  <2> DEFINE f == [d \in S |-> d.feature]
  <2>1. FeaturesOf(D) = {f[d] : d \in S} /\ f = [d \in S |-> f[d]]
    BY DEF FeaturesOf
  <2> HIDE DEF f, S
  <2> QED
    BY <2>1, <1>1, FiniteImage DEF S
<1>5. \A f : f \in FeaturesOf(D) <=> \E n \in 1 .. Len(D) : D[n].feature = f
  BY <1>1 DEF FeaturesOf
<1> QED
  BY <1>3, <1>4, <1>5

\* The definition, with the last row named.
LEMMA StageForm ==
    ASSUME NEW d, NEW r
    PROVE  StageForDischarge(d, r) = Interpolated(d, r, RowsUpTo(d, r), LastRow(RowsUpTo(d, r)))
BY DEF StageForDischarge

\* A stage depends on the discharges and stages of the rows only.
LEMMA StageAgrees ==
    ASSUME NEW S, NEW T, NEW s \in Seq(S), NEW t \in Seq(T), Len(s) = Len(t), NEW d,
           \A k \in 1 .. Len(s) : s[k].q = t[k].q /\ s[k].h = t[k].h, Len(s) > 0
    PROVE  StageForDischarge(d, s) = StageForDischarge(d, t)
<1>1. PICK below : below = RowsUpTo(d, s)
  OBVIOUS
<1>2. /\ StageForDischarge(d, s) = Interpolated(d, s, below, LastRow(below))
      /\ StageForDischarge(d, t) = Interpolated(d, t, RowsUpTo(d, t), LastRow(RowsUpTo(d, t)))
  BY <1>1, StageForm
<1>3. below \in SUBSET (1 .. Len(s)) /\ Len(s) \in Nat /\ 1 \in 1 .. Len(s)
  BY <1>1 DEF RowsUpTo
<1>4. RowsUpTo(d, t) = below
  BY <1>1 DEF RowsUpTo
<1>5. CASE below = {}
  <2>1. s[1].h = t[1].h
    BY <1>3
  <2> QED
    BY <1>2, <1>4, <1>5, <2>1 DEF Interpolated
<1>6. CASE below # {}
  <2> DEFINE far == {Len(s) - i : i \in below}
  <2>0. \A i \in below : i \in 1 .. Len(s)
    BY <1>3
  <2>1. far \in SUBSET Nat /\ far # {}
    <3>1. \A i \in 1 .. Len(s) : Len(s) - i \in Nat
      BY <1>3
    <3>2. far \in SUBSET Nat
      BY <2>0, <3>1
    <3>3. PICK i : i \in below
      BY <1>6
    <3>4. Len(s) - i \in far
      BY <3>3
    <3> QED
      BY <3>2, <3>4
  <2>2. PICK m \in far : \A n \in far : m <= n
    <3> HIDE DEF far
    <3> QED
      BY <2>1, LeastExists
  <2>3. PICK i \in below : m = Len(s) - i
    OBVIOUS
  <2>4. \A j \in below : j <= i
    <3> TAKE j \in below
    <3>1. m <= Len(s) - j
      BY <2>2
    <3>2. j \in 1 .. Len(s) /\ i \in 1 .. Len(s)
      BY <1>3
    <3> QED
      BY <3>1, <3>2, <1>3, <2>3
  <2>5. LastRow(below) \in below
    BY <2>3, <2>4 DEF LastRow
  <2>6. PICK k \in 1 .. Len(s) : k = LastRow(below)
    BY <2>0, <2>5
  <2>7. StageForDischarge(d, s) = Interpolated(d, s, below, k) /\ StageForDischarge(d, t) = Interpolated(d, t, below, k)
    BY <1>2, <1>4, <2>6
  <2>8. s[k].h = t[k].h /\ s[k].q = t[k].q
    BY <2>6
  <2>9. CASE k = Len(s)
    BY <1>6, <2>7, <2>8, <2>9 DEF Interpolated
  <2>10. CASE k # Len(s)
    <3>1. k + 1 \in 1 .. Len(s)
      BY <2>6, <2>10, <1>3
    <3>2. s[k + 1].h = t[k + 1].h /\ s[k + 1].q = t[k + 1].q
      BY <3>1
    <3> QED
      BY <3>2, <1>6, <2>7, <2>8, <2>10 DEF Interpolated
  <2> QED
    BY <2>9, <2>10
<1> QED
  BY <1>5, <1>6

\* The binary search finds a HydroID exactly if it has a stage.
LEMMA WetFacts ==
    ASSUME NEW stages, DOMAIN stages \in SUBSET Int, IsFiniteSet(DOMAIN stages),
           NEW hydroid \in Int, NEW elevation
    PROVE  Wet(stages, hydroid, elevation)
             <=> hydroid \in DOMAIN stages /\ Deep(stages[hydroid], elevation)
<1> DEFINE D == DOMAIN stages
<1> DEFINE hydroids == Ascending(D)
<1> DEFINE Before == {i \in DOMAIN hydroids : hydroids[i] < hydroid}
<1> DEFINE before == Cardinality(Before)
<1> DEFINE at == IF before < Len(hydroids) THEN before + 1 ELSE Len(hydroids)
<1>1. Wet(stages, hydroid, elevation) <=>
        /\ hydroids # <<>>
        /\ hydroids[at] = hydroid
        /\ Deep(stages[hydroids[at]], elevation)
  BY DEF Wet
<1>2. PICK n : n = Cardinality(D)
  OBVIOUS
<1> HIDE DEF D
<1>3. /\ n \in Nat /\ Len(hydroids) = n /\ DOMAIN hydroids = 1 .. n /\ hydroids \in Seq(D)
      /\ \A i \in 1 .. n : hydroids[i] \in D /\ hydroids[i] \in Int
      /\ \A i, j \in 1 .. n : i < j => hydroids[i] < hydroids[j]
      /\ \A x \in D : \E i \in 1 .. n : hydroids[i] = x
  BY <1>2, AscendingFacts DEF D
<1> HIDE DEF hydroids
<1>4. IsFiniteSet(Before) /\ before \in Nat
  <2>1. 1 \in Int /\ n \in Int
    BY <1>3
  <2>2. IsFiniteSet(1 .. n) /\ Before \in SUBSET (1 .. n)
    BY <2>1, <1>3, FS_Interval
  <2> HIDE DEF Before
  <2> QED
    BY <2>2, FS_Subset, FS_CardinalityType
<1>5. CASE hydroid \in D
  <2>1. PICK m \in 1 .. n : hydroids[m] = hydroid
    BY <1>3, <1>5
  <2>2. Before = 1 .. m - 1
    <3>1. \A i \in 1 .. n : hydroids[i] < hydroid <=> i < m
      <4> TAKE i \in 1 .. n
      <4>1. i < m \/ i = m \/ m < i
        BY <1>3
      <4>2. i < m => hydroids[i] < hydroids[m]
        BY <1>3
      <4>3. m < i => hydroids[m] < hydroids[i]
        BY <1>3
      <4> QED
        BY <4>1, <4>2, <4>3, <2>1, <1>3
    <3> QED
      BY <3>1, <1>3
  <2>3. Cardinality(1 .. m - 1) = m - 1
    <3>1. 1 \in Int /\ m - 1 \in Int
      BY <1>3
    <3> QED
      BY <3>1, FS_Interval
  <2>4. before = m - 1
    <3> HIDE DEF Before
    <3> QED
      BY <2>2, <2>3
  <2> HIDE DEF before
  <2>5. at = m
    BY <2>4, <1>3
  <2>6. hydroids # <<>>
    BY <1>3
  <2> HIDE DEF at
  <2> QED
    BY <1>1, <1>5, <2>1, <2>5, <2>6 DEF D
<1>6. CASE hydroid \notin D
  <2> HIDE DEF before
  <2>1. hydroids # <<>> => n > 0
    BY <1>3
  <2>2. n > 0 => at \in 1 .. n
    BY <1>3, <1>4
  <2> HIDE DEF at
  <2>3. hydroids # <<>> => hydroids[at] # hydroid
    BY <1>3, <1>6, <2>1, <2>2
  <2> QED
    BY <1>1, <1>6, <2>3 DEF D
<1> QED
  BY <1>5, <1>6

\* The curve and the row order of an index row.
LEMMA RowForFacts ==
    ASSUME NEW src, Hydrofabric(src), NEW b, NEW block, NEW k
    PROVE  LET R == RowsAt(src, b, k)
               row == RowFor(src, b, block, k)
           IN /\ Cardinality(R) \in Nat /\ DOMAIN row.curve = 1 .. Cardinality(R)
              /\ \A n \in 1 .. Cardinality(R) :
                   /\ Ascending(R)[n] \in R
                   /\ row.curve[n] = [q |-> src.table[Ascending(R)[n]].q,
                                      h |-> src.table[Ascending(R)[n]].h]
              /\ \A j \in R : \E n \in 1 .. Cardinality(R) : Ascending(R)[n] = j
              /\ (\E k2 \in KeysOf(src, b) : k2[1] = k[1] /\ k2[2] # k[2])
                   => row.row_order = Ascending(R)
<1> DEFINE R == RowsAt(src, b, k)
<1> DEFINE row == RowFor(src, b, block, k)
<1>1. PICK c : c = Cardinality(R)
  OBVIOUS
<1>2. /\ c \in Nat /\ Len(Ascending(R)) = c
      /\ \A n \in 1 .. c : Ascending(R)[n] \in R
      /\ \A j \in R : \E n \in 1 .. c : Ascending(R)[n] = j
  BY <1>1, RowsOfFacts, AscendingFacts
<1>3. row.curve = [n \in 1 .. Len(Ascending(R)) |->
                  [q |-> src.table[Ascending(R)[n]].q, h |-> src.table[Ascending(R)[n]].h]]
  BY DEF RowFor
<1>4. row.row_order = IF \E k2 \in KeysOf(src, b) : k2[1] = k[1] /\ k2[2] # k[2]
                   THEN Ascending(R) ELSE <<>>
  BY DEF RowFor
<1> HIDE DEF R, row
<1>5. DOMAIN row.curve = 1 .. c
      /\ \A n \in 1 .. c : row.curve[n] = [q |-> src.table[Ascending(R)[n]].q,
                                           h |-> src.table[Ascending(R)[n]].h]
  BY <1>2, <1>3
<1> QED
  BY <1>1, <1>2, <1>4, <1>5 DEF R, row

\* The rows that are merged, as RatingRows defines them.
MergedOf(curves) ==
    UNION {{<<c.row.row_order[n], c.flow, c.row.curve[n]>> :
              n \in DOMAIN c.row.curve} : c \in ToSet(curves)}
MergedAt(M, n) == CHOOSE m \in M : m[1] = Ascending({j[1] : j \in M})[n]

\* The definition for several curves, with its parts named.
LEMMA RatingRowsForm ==
    ASSUME NEW curves, Len(curves) # 1
    PROVE  RatingRows(curves) =
             [n \in DOMAIN Ascending({j[1] : j \in MergedOf(curves)}) |->
                [flow |-> MergedAt(MergedOf(curves), n)[2],
                 q |-> MergedAt(MergedOf(curves), n)[3].q,
                 h |-> MergedAt(MergedOf(curves), n)[3].h]]
BY DEF RatingRows, MergedOf, MergedAt

RatingRow == [flow : Int, q : Int, h : Int]

\* A curve holds the discharges and stages of a set of table rows, in table order.
CurveOf(curve, table, S) ==
    /\ DOMAIN curve = 1 .. Cardinality(S)
    /\ \A j \in 1 .. Cardinality(S) :
         /\ curve[j].q = table[Ascending(S)[j]].q
         /\ curve[j].h = table[Ascending(S)[j]].h

\* A rating holds table rows, in table order, each with a flow of its feature.
Rated(rating, table, R, p, feats, flows) ==
    /\ rating \in Seq(RatingRow) /\ Len(rating) = Cardinality(R)
    /\ \A m \in 1 .. Cardinality(R) : \E n \in 1 .. p :
         /\ table[Ascending(R)[m]].feature = feats[n] /\ rating[m].flow = flows[n]
         /\ rating[m].q = table[Ascending(R)[m]].q /\ rating[m].h = table[Ascending(R)[m]].h

\* When a function is a rating.
LEMMA RatedWhen ==
    ASSUME NEW table, NEW R \in SUBSET Int, IsFiniteSet(R),
           \A k \in R : table[k].q \in Int /\ table[k].h \in Int,
           NEW p, NEW feats, NEW flows, \A n \in 1 .. p : flows[n] \in Int,
           NEW rating, DOMAIN rating = 1 .. Cardinality(R),
           rating = [m \in DOMAIN rating |-> rating[m]],
           \A m \in 1 .. Cardinality(R) : \E n \in 1 .. p : \E a, z :
             /\ table[Ascending(R)[m]].feature = feats[n]
             /\ rating[m] = [flow |-> flows[n], q |-> a, h |-> z]
             /\ a = table[Ascending(R)[m]].q /\ z = table[Ascending(R)[m]].h
    PROVE  Rated(rating, table, R, p, feats, flows)
<1>1. PICK c : c = Cardinality(R)
  OBVIOUS
<1>2. c \in Nat /\ \A m \in 1 .. c : Ascending(R)[m] \in R
  BY <1>1, AscendingFacts
<1>3. \A m \in 1 .. c : \E n \in 1 .. p : \E a, z \in Int :
             /\ table[Ascending(R)[m]].feature = feats[n]
             /\ rating[m] = [flow |-> flows[n], q |-> a, h |-> z]
             /\ a = table[Ascending(R)[m]].q /\ z = table[Ascending(R)[m]].h
  BY <1>1, <1>2
<1>4. \A m \in 1 .. c : rating[m] \in RatingRow
  <2> TAKE m \in 1 .. c
  <2>1. PICK n \in 1 .. p : \E a, z \in Int :
             /\ table[Ascending(R)[m]].feature = feats[n]
             /\ rating[m] = [flow |-> flows[n], q |-> a, h |-> z]
             /\ a = table[Ascending(R)[m]].q /\ z = table[Ascending(R)[m]].h
    BY <1>3
  <2>2. PICK a, z \in Int : rating[m] = [flow |-> flows[n], q |-> a, h |-> z]
    BY <2>1
  <2>3. flows[n] \in Int
    OBVIOUS
  <2> QED
    BY <2>2, <2>3 DEF RatingRow
<1>5. rating \in [1 .. c -> RatingRow]
  BY <1>1, <1>4
<1>6. rating \in Seq(RatingRow) /\ Len(rating) = c
  BY <1>2, <1>5
<1>7. \A m \in 1 .. c : \E n \in 1 .. p :
         /\ table[Ascending(R)[m]].feature = feats[n] /\ rating[m].flow = flows[n]
         /\ rating[m].q = table[Ascending(R)[m]].q /\ rating[m].h = table[Ascending(R)[m]].h
  <2> TAKE m \in 1 .. c
  <2>1. PICK n \in 1 .. p : \E a, z \in Int :
             /\ table[Ascending(R)[m]].feature = feats[n]
             /\ rating[m] = [flow |-> flows[n], q |-> a, h |-> z]
             /\ a = table[Ascending(R)[m]].q /\ z = table[Ascending(R)[m]].h
    BY <1>3
  <2>2. PICK a, z \in Int :
             /\ rating[m] = [flow |-> flows[n], q |-> a, h |-> z]
             /\ a = table[Ascending(R)[m]].q /\ z = table[Ascending(R)[m]].h
    BY <2>1
  <2>3. rating[m].flow = flows[n] /\ rating[m].q = a /\ rating[m].h = z
    BY <2>2
  <2> QED
    BY <2>1, <2>2, <2>3
<1> QED
  BY <1>1, <1>6, <1>7 DEF Rated

\* The rating of one reach: its curve as it stands.
LEMMA SingleRating ==
    ASSUME NEW table, NEW R \in SUBSET Int, IsFiniteSet(R),
           \A k \in R : table[k].q \in Int /\ table[k].h \in Int,
           NEW feats, NEW flows, flows[1] \in Int, \A k \in R : table[k].feature = feats[1],
           NEW curves, Len(curves) = 1, curves[1].flow = flows[1],
           CurveOf(curves[1].row.curve, table, R)
    PROVE  Rated(RatingRows(curves), table, R, 1, feats, flows)
<1>1. PICK c : c = Cardinality(R)
  OBVIOUS
<1>2. c \in Nat /\ \A m \in 1 .. c : Ascending(R)[m] \in R
  BY <1>1, AscendingFacts
<1>3. PICK curve : curve = curves[1].row.curve
  OBVIOUS
<1>4. PICK rating : rating = RatingRows(curves)
  OBVIOUS
<1>5. rating = [n \in DOMAIN curve |-> [flow |-> curves[1].flow, q |-> curve[n].q, h |-> curve[n].h]]
  BY <1>3, <1>4 DEF RatingRows
<1>6. DOMAIN curve = 1 .. c
      /\ \A j \in 1 .. c : curve[j].q = table[Ascending(R)[j]].q
                        /\ curve[j].h = table[Ascending(R)[j]].h
  BY <1>1, <1>3 DEF CurveOf
<1>7. DOMAIN rating = 1 .. c /\ rating = [m \in DOMAIN rating |-> rating[m]]
      /\ \A m \in 1 .. c : rating[m] = [flow |-> flows[1], q |-> curve[m].q, h |-> curve[m].h]
  BY <1>5, <1>6
<1>8. 1 \in 1 .. 1 /\ \A n \in 1 .. 1 : n = 1
  OBVIOUS
<1>9. \A m \in 1 .. c : \E n \in 1 .. 1 : \E a, z :
             /\ table[Ascending(R)[m]].feature = feats[n]
             /\ rating[m] = [flow |-> flows[n], q |-> a, h |-> z]
             /\ a = table[Ascending(R)[m]].q /\ z = table[Ascending(R)[m]].h
  BY <1>2, <1>6, <1>7, <1>8
<1>10. \A n \in 1 .. 1 : flows[n] \in Int
  BY <1>8
<1>11. Rated(rating, table, R, 1, feats, flows)
  BY <1>1, <1>7, <1>9, <1>10, RatedWhen
<1> QED
  BY <1>4, <1>11

\* The rating of several reaches: their rows merged back in table order.
LEMMA MergedRating ==
    ASSUME NEW table, NEW p \in Nat, NEW S, NEW R \in SUBSET Int, IsFiniteSet(R),
           \A k \in R : table[k].q \in Int /\ table[k].h \in Int,
           \A n \in 1 .. p : S[n] \in SUBSET R,
           \A k \in R : \E n \in 1 .. p : k \in S[n],
           NEW feats, NEW flows, \A n \in 1 .. p : flows[n] \in Int,
           \A n \in 1 .. p : \A k \in S[n] : table[k].feature = feats[n],
           NEW C, NEW curves \in Seq(C), Len(curves) = p, p # 1,
           \A n \in 1 .. p :
             /\ curves[n].flow = flows[n] /\ CurveOf(curves[n].row.curve, table, S[n])
             /\ curves[n].row.row_order = Ascending(S[n])
    PROVE  Rated(RatingRows(curves), table, R, p, feats, flows)
<1>1. PICK M : M = MergedOf(curves)
  OBVIOUS
<1>2. \A n \in 1 .. p :
        /\ \A j \in 1 .. Cardinality(S[n]) : Ascending(S[n])[j] \in S[n]
        /\ \A k \in S[n] : \E j \in 1 .. Cardinality(S[n]) : Ascending(S[n])[j] = k
  <2> TAKE n \in 1 .. p
  <2>1. PICK s : s = S[n]
    OBVIOUS
  <2>2. s \in SUBSET Int /\ IsFiniteSet(s)
    BY <2>1, FS_Subset
  <2> QED
    BY <2>1, <2>2, AscendingFacts
<1>3. \A m : m \in M <=> \E x \in ToSet(curves) : \E j \in DOMAIN x.row.curve :
                            m = <<x.row.row_order[j], x.flow, x.row.curve[j]>>
  BY <1>1 DEF MergedOf
<1>4. \A x : x \in ToSet(curves) <=> \E n \in 1 .. p : x = curves[n]
  BY ToSetFacts
<1>5. \A m : m \in M <=> \E n \in 1 .. p : \E j \in 1 .. Cardinality(S[n]) :
                            m = <<Ascending(S[n])[j], flows[n], curves[n].row.curve[j]>>
  <2>1. \A n \in 1 .. p :
          /\ DOMAIN curves[n].row.curve = 1 .. Cardinality(S[n])
          /\ \A j : <<curves[n].row.row_order[j], curves[n].flow, curves[n].row.curve[j]>>
                      = <<Ascending(S[n])[j], flows[n], curves[n].row.curve[j]>>
    BY DEF CurveOf
  <2>2. ASSUME NEW m \in M
        PROVE  \E n \in 1 .. p : \E j \in 1 .. Cardinality(S[n]) :
                  m = <<Ascending(S[n])[j], flows[n], curves[n].row.curve[j]>>
    <3>1. PICK x \in ToSet(curves) : \E j \in DOMAIN x.row.curve :
             m = <<x.row.row_order[j], x.flow, x.row.curve[j]>>
      BY <1>3
    <3>2. PICK n \in 1 .. p : x = curves[n]
      BY <1>4
    <3>3. PICK j \in 1 .. Cardinality(S[n]) :
             m = <<curves[n].row.row_order[j], curves[n].flow, curves[n].row.curve[j]>>
      BY <2>1, <3>1, <3>2
    <3> QED
      BY <2>1, <3>3
  <2>3. ASSUME NEW n \in 1 .. p, NEW j \in 1 .. Cardinality(S[n])
        PROVE  <<Ascending(S[n])[j], flows[n], curves[n].row.curve[j]>> \in M
    <3>1. curves[n] \in ToSet(curves) /\ j \in DOMAIN curves[n].row.curve
      BY <1>4, <2>1
    <3>2. <<curves[n].row.row_order[j], curves[n].flow, curves[n].row.curve[j]>> \in M
      BY <1>3, <3>1
    <3> QED
      BY <2>1, <3>2
  <2> QED
    BY <2>2, <2>3
<1>6. \A n \in 1 .. p : \A j \in 1 .. Cardinality(S[n]) :
        /\ curves[n].row.curve[j].q = table[Ascending(S[n])[j]].q
        /\ curves[n].row.curve[j].h = table[Ascending(S[n])[j]].h
  BY DEF CurveOf
<1>7. \A m \in M : /\ m[1] \in R
                   /\ m[3].q = table[m[1]].q /\ m[3].h = table[m[1]].h
                   /\ \E n \in 1 .. p : table[m[1]].feature = feats[n] /\ m[2] = flows[n]
  <2> TAKE m \in M
  <2>1. PICK n \in 1 .. p : \E j \in 1 .. Cardinality(S[n]) :
           m = <<Ascending(S[n])[j], flows[n], curves[n].row.curve[j]>>
    BY <1>5
  <2>2. PICK j \in 1 .. Cardinality(S[n]) :
           m = <<Ascending(S[n])[j], flows[n], curves[n].row.curve[j]>>
    BY <2>1
  <2>3. m[1] = Ascending(S[n])[j] /\ m[2] = flows[n] /\ m[3] = curves[n].row.curve[j]
    BY <2>2
  <2>4. m[1] \in S[n]
    BY <1>2, <2>3
  <2>5. m[3].q = table[m[1]].q /\ m[3].h = table[m[1]].h
    BY <1>6, <2>3
  <2> QED
    BY <2>3, <2>4, <2>5
<1>8. \A k \in R : \E m \in M : m[1] = k
  <2> TAKE k \in R
  <2>1. PICK n \in 1 .. p : k \in S[n]
    OBVIOUS
  <2>2. PICK j \in 1 .. Cardinality(S[n]) : Ascending(S[n])[j] = k
    BY <1>2, <2>1
  <2>3. <<Ascending(S[n])[j], flows[n], curves[n].row.curve[j]>> \in M
    BY <1>5
  <2>4. <<Ascending(S[n])[j], flows[n], curves[n].row.curve[j]>>[1] = k
    BY <2>2
  <2> QED
    BY <2>3, <2>4
<1>9. {j[1] : j \in M} = R
  <2>1. \A m \in M : m[1] \in R
    BY <1>7
  <2>2. \A x : x \in {j[1] : j \in M} <=> \E j \in M : x = j[1]
    OBVIOUS
  <2>3. \A x : x \in {j[1] : j \in M} => x \in R
    BY <2>1, <2>2
  <2>4. ASSUME NEW x \in R PROVE x \in {j[1] : j \in M}
    <3>1. PICK m \in M : m[1] = x
      BY <1>8
    <3> QED
      BY <3>1
  <2> QED
    BY <2>3, <2>4
<1>10. PICK c : c = Cardinality(R)
  OBVIOUS
<1>11. /\ c \in Nat /\ DOMAIN Ascending(R) = 1 .. c
       /\ \A m \in 1 .. c : Ascending(R)[m] \in R
  BY <1>10, AscendingFacts
<1>12. PICK rating : rating = RatingRows(curves)
  OBVIOUS
<1>13. rating = [n \in DOMAIN Ascending(R) |->
               [flow |-> MergedAt(M, n)[2], q |-> MergedAt(M, n)[3].q, h |-> MergedAt(M, n)[3].h]]
  <2>1. Len(curves) # 1
    OBVIOUS
  <2> QED
    BY ZenonT(60), <2>1, <1>1, <1>9, <1>12, RatingRowsForm
<1>14. \A n \in 1 .. c : MergedAt(M, n) \in M /\ MergedAt(M, n)[1] = Ascending(R)[n]
  <2> TAKE n \in 1 .. c
  <2>1. \E m \in M : m[1] = Ascending(R)[n]
    BY <1>8, <1>11
  <2> QED
    BY <2>1, <1>9 DEF MergedAt
<1>15. DOMAIN rating = 1 .. c /\ rating = [m \in DOMAIN rating |-> rating[m]]
       /\ \A n \in 1 .. c : rating[n] =
            [flow |-> MergedAt(M, n)[2], q |-> MergedAt(M, n)[3].q, h |-> MergedAt(M, n)[3].h]
  BY <1>11, <1>13
<1>16. \A m \in 1 .. c : \E n \in 1 .. p : \E a, z :
             /\ table[Ascending(R)[m]].feature = feats[n]
             /\ rating[m] = [flow |-> flows[n], q |-> a, h |-> z]
             /\ a = table[Ascending(R)[m]].q /\ z = table[Ascending(R)[m]].h
  <2> TAKE m \in 1 .. c
  <2>1. PICK x : x = MergedAt(M, m) /\ x \in M /\ x[1] = Ascending(R)[m]
    BY <1>14
  <2>2. PICK n \in 1 .. p : table[x[1]].feature = feats[n] /\ x[2] = flows[n]
    BY <1>7, <2>1
  <2>3. x[3].q = table[x[1]].q /\ x[3].h = table[x[1]].h
    BY <1>7, <2>1
  <2>4. rating[m] = [flow |-> flows[n], q |-> x[3].q, h |-> x[3].h]
    BY <1>15, <2>1, <2>2
  <2>5. PICK y : y = Ascending(R)[m]
    OBVIOUS
  <2>6. PICK a, z : a = table[y].q /\ z = table[y].h
    OBVIOUS
  <2>7. table[y].feature = feats[n] /\ rating[m] = [flow |-> flows[n], q |-> a, h |-> z]
    BY <2>1, <2>2, <2>3, <2>4, <2>5, <2>6
  <2> QED
    BY ZenonT(60), <2>5, <2>6, <2>7
<1>17. Rated(rating, table, R, p, feats, flows)
  BY <1>10, <1>15, <1>16, RatedWhen
<1> QED
  BY <1>12, <1>17

\* The parts of plan_huc, as PlanHuc defines them.
OfBranch(rows, b) == {r \in rows : r.branch = b}
AskedRows(rows, b, hydroid, d) ==
    {r \in OfBranch(rows, b) : r.hydroid = hydroid /\ r.feature = d.feature}
HoldersOf(rows, D, b, hydroid) ==
    Kept(D, {n \in DOMAIN D : AskedRows(rows, b, hydroid, D[n]) # {}})
CurvesFor(rows, D, b, hydroid) ==
    [n \in DOMAIN HoldersOf(rows, D, b, hydroid) |->
       [flow |-> HoldersOf(rows, D, b, hydroid)[n].flow,
        row |-> CHOOSE r \in AskedRows(rows, b, hydroid, HoldersOf(rows, D, b, hydroid)[n]) : TRUE]]
StageFor(rows, D, b, hydroid) ==
    StageForDischarge(RatingRows(CurvesFor(rows, D, b, hydroid))[1].flow,
                      RatingRows(CurvesFor(rows, D, b, hydroid)))
PlanOf(idx, rows, D, b) ==
    [branch |-> b, place |-> idx.branches[b],
     stages |-> [i \in {r.hydroid : r \in OfBranch(rows, b)} |-> StageFor(rows, D, b, i)],
     blocks |-> UNION {r.blocks : r \in OfBranch(rows, b)}]
PlannedBranches(idx, rows, D) ==
    Ascending({b \in {r.branch : r \in rows} : PlanOf(idx, rows, D, b).blocks # {}})
AbsentFrom(rows, D) ==
    Kept(D, {n \in DOMAIN D : D[n].feature \notin {r.feature : r \in rows}})

PlanRows(idx, D) == ReadReaches(idx.groups, {d.feature : d \in ToSet(D)})
PlansOf(idx, rows, D) ==
    [n \in DOMAIN PlannedBranches(idx, rows, D) |->
       PlanOf(idx, rows, D, PlannedBranches(idx, rows, D)[n])]
MissingOf(rows, D) ==
    [n \in DOMAIN AbsentFrom(rows, D) |-> AbsentFrom(rows, D)[n].feature]

\* The definition, with its parts named.
LEMMA PlanForm ==
    ASSUME NEW idx, NEW D
    PROVE  PlanHuc(idx, D) =
             [plans |-> PlansOf(idx, PlanRows(idx, D), D), missing |-> MissingOf(PlanRows(idx, D), D)]
BY DEF PlanRows, PlansOf, MissingOf, PlanHuc, PlanOf, PlannedBranches, StageFor, CurvesFor, HoldersOf, AskedRows, OfBranch,
       AbsentFrom

\* The index rows of the branches for a set of features.
RowsFor(src, block, B, F) ==
    {r \in UNION {BranchRows(src, b, block) : b \in B} : r.feature \in F}

\* The rows of one branch among them.
LEMMA OfBranchFacts ==
    ASSUME NEW src, Hydrofabric(src), NEW block, NEW B, NEW F, NEW b \in B
    PROVE  /\ OfBranch(RowsFor(src, block, B, F), b) =
                {r \in BranchRows(src, b, block) : r.feature \in F}
           /\ \A r : r \in OfBranch(RowsFor(src, block, B, F), b) <=>
                \E k \in KeysOf(src, b) : k[2] \in F /\ r = RowFor(src, b, block, k)
<1> DEFINE O == OfBranch(RowsFor(src, block, B, F), b)
<1>1. \A x : \A r \in BranchRows(src, x, block) : r.branch = x
  BY BranchRowsFacts
<1>2. O = {r \in BranchRows(src, b, block) : r.feature \in F}
  BY <1>1 DEF OfBranch, RowsFor
<1> HIDE DEF O
<1>3. PICK K : K = KeysOf(src, b)
  OBVIOUS
<1>4. /\ \A r \in BranchRows(src, b, block) :
           /\ <<r.hydroid, r.feature>> \in K
           /\ r = RowFor(src, b, block, <<r.hydroid, r.feature>>)
      /\ \A k \in K : /\ RowFor(src, b, block, k) \in BranchRows(src, b, block)
                      /\ RowFor(src, b, block, k).hydroid = k[1]
                      /\ RowFor(src, b, block, k).feature = k[2]
  BY <1>3, BranchRowsFacts
<1>5. ASSUME NEW r \in O
      PROVE  \E k \in K : k[2] \in F /\ r = RowFor(src, b, block, k)
  <2>1. r \in BranchRows(src, b, block) /\ r.feature \in F
    BY <1>2
  <2>2. PICK k : k = <<r.hydroid, r.feature>> /\ k[2] = r.feature
    <3>1. <<r.hydroid, r.feature>>[2] = r.feature
      OBVIOUS
    <3> QED
      BY <3>1
  <2> QED
    BY <1>4, <2>1, <2>2
<1>6. ASSUME NEW k \in K, k[2] \in F PROVE RowFor(src, b, block, k) \in O
  BY <1>2, <1>4, <1>6
<1> QED
  BY <1>2, <1>3, <1>5, <1>6 DEF O

\* The row of a HydroID and a feature, if there is one.
LEMMA AskedFacts ==
    ASSUME NEW src, Hydrofabric(src), NEW block, NEW B, NEW F, NEW b \in B,
           NEW hydroid, NEW d, d.feature \in F
    PROVE  AskedRows(RowsFor(src, block, B, F), b, hydroid, d) =
             IF <<hydroid, d.feature>> \in KeysOf(src, b)
             THEN {RowFor(src, b, block, <<hydroid, d.feature>>)} ELSE {}
<1>1. PICK O, K : O = OfBranch(RowsFor(src, block, B, F), b) /\ K = KeysOf(src, b)
  OBVIOUS
<1>2. \A r : r \in O <=> \E k \in K : k[2] \in F /\ r = RowFor(src, b, block, k)
  BY <1>1, OfBranchFacts
<1>3. \A k \in K : /\ RowFor(src, b, block, k).hydroid = k[1]
                   /\ RowFor(src, b, block, k).feature = k[2]
                   /\ k = <<k[1], k[2]>>
  <2>1. \A k \in K : k = <<k[1], k[2]>>
    BY <1>1 DEF KeysOf
  <2>2. \A k : RowFor(src, b, block, k).hydroid = k[1] /\ RowFor(src, b, block, k).feature = k[2]
    BY DEF RowFor
  <2> QED
    BY <2>1, <2>2
<1>4. PICK f, k : f = d.feature /\ k = <<hydroid, f>> /\ k[1] = hydroid /\ k[2] = f
  <2>1. PICK f : f = d.feature
    OBVIOUS
  <2>2. <<hydroid, f>>[1] = hydroid /\ <<hydroid, f>>[2] = f
    OBVIOUS
  <2> QED
    BY <2>1, <2>2
<1>5. AskedRows(RowsFor(src, block, B, F), b, hydroid, d) =
        {r \in O : r.hydroid = hydroid /\ r.feature = f}
  BY <1>1, <1>4 DEF AskedRows
<1>6. ASSUME NEW r \in O, r.hydroid = hydroid, r.feature = f
      PROVE  k \in K /\ r = RowFor(src, b, block, k)
  <2>1. PICK m \in K : m[2] \in F /\ r = RowFor(src, b, block, m)
    BY <1>2
  <2>2. m[1] = hydroid /\ m[2] = f /\ m = <<m[1], m[2]>>
    BY <1>3, <1>6, <2>1
  <2> QED
    BY <1>4, <2>1, <2>2
<1>7. k \in K => RowFor(src, b, block, k) \in O
                   /\ RowFor(src, b, block, k).hydroid = hydroid
                   /\ RowFor(src, b, block, k).feature = f
  BY <1>2, <1>3, <1>4
<1>8. k \in K => {r \in O : r.hydroid = hydroid /\ r.feature = f} = {RowFor(src, b, block, k)}
  BY <1>6, <1>7
<1>9. k \notin K => {r \in O : r.hydroid = hydroid /\ r.feature = f} = {}
  BY <1>6
<1> QED
  BY <1>1, <1>4, <1>5, <1>8, <1>9

\* The table rows of a HydroID on a branch, of a set of features.
Picked(src, b, hydroid, F) ==
    {k \in RowsOf(src, b) : src.table[k].hydroid = hydroid /\ src.table[k].feature \in F}

\* The curves of a HydroID: one for each requested feature that has it.
CurvesOk(curves, p, feats, flows, src, b, block, hydroid, D) ==
    /\ curves \in Seq({curves[n] : n \in 1 .. p}) /\ Len(curves) = p
    /\ \A n \in 1 .. p :
         /\ \E m \in 1 .. Len(D) : D[m].feature = feats[n] /\ D[m].flow = flows[n]
         /\ <<hydroid, feats[n]>> \in KeysOf(src, b)
         /\ curves[n].flow = flows[n]
         /\ curves[n].row = RowFor(src, b, block, <<hydroid, feats[n]>>)
    /\ \A f \in FeaturesOf(D) :
         <<hydroid, f>> \in KeysOf(src, b) => \E n \in 1 .. p : feats[n] = f
    /\ \A m, n \in 1 .. p : m # n => feats[m] # feats[n]

\* The curves of a HydroID: one for each requested feature that rates it.
LEMMA CurvesFacts ==
    ASSUME NEW src, Hydrofabric(src), NEW block, NEW B, NEW b \in B, NEW hydroid,
           NEW D \in Seq(Discharges),
           \A m, n \in 1 .. Len(D) : D[m].feature = D[n].feature => m = n
    PROVE  \E p \in Nat : \E feats, flows :
             CurvesOk(CurvesFor(RowsFor(src, block, B, FeaturesOf(D)), D, b, hydroid),
                      p, feats, flows, src, b, block, hydroid, D)
<1>0. PICK rows, K, len :
         rows = RowsFor(src, block, B, FeaturesOf(D)) /\ K = KeysOf(src, b) /\ len = Len(D)
  OBVIOUS
<1>1. PICK P : P = {n \in DOMAIN D : AskedRows(rows, b, hydroid, D[n]) # {}}
  OBVIOUS
<1>2. PICK holders : holders = HoldersOf(rows, D, b, hydroid)
  OBVIOUS
<1>3. holders = Kept(D, P)
  BY <1>1, <1>2 DEF HoldersOf
<1>4. \A d : d.feature \in FeaturesOf(D) =>
        AskedRows(rows, b, hydroid, d) =
          IF <<hydroid, d.feature>> \in K
          THEN {RowFor(src, b, block, <<hydroid, d.feature>>)} ELSE {}
  <2>1. PICK F : F = FeaturesOf(D)
    OBVIOUS
  <2>2. \A i, d : d.feature \in F =>
          AskedRows(RowsFor(src, block, B, F), b, i, d) =
            IF <<i, d.feature>> \in KeysOf(src, b)
            THEN {RowFor(src, b, block, <<i, d.feature>>)} ELSE {}
    BY AskedFacts
  <2> QED
    BY <1>0, <2>1, <2>2
<1>5. \A n \in 1 .. len : D[n].feature \in FeaturesOf(D)
  BY <1>0, FeaturesFacts
<1>6. P \in SUBSET (1 .. len)
      /\ \A n \in 1 .. len : n \in P <=> <<hydroid, D[n].feature>> \in K
  <2>1. \A n \in 1 .. len :
           AskedRows(rows, b, hydroid, D[n]) # {} <=> <<hydroid, D[n].feature>> \in K
    BY <1>4, <1>5
  <2>2. DOMAIN D = 1 .. len
    BY <1>0
  <2> QED
    BY <1>1, <2>1, <2>2
<1>7. PICK p : p = Cardinality(P)
  OBVIOUS
<1>8. /\ p \in Nat /\ IsFiniteSet(P) /\ P \in SUBSET Int
      /\ holders \in Seq(Discharges) /\ Len(holders) = p /\ DOMAIN holders = 1 .. p
      /\ \A n \in 1 .. p : Ascending(P)[n] \in P /\ holders[n] = D[Ascending(P)[n]]
      /\ \A i \in P : \E n \in 1 .. p : Ascending(P)[n] = i
  <2>1. P \in SUBSET (1 .. Len(D))
    BY <1>0, <1>6
  <2>2. P \in SUBSET Int
    BY <2>1
  <2> QED
    BY SMTT(60), <1>3, <1>7, <2>1, <2>2, KeptFacts
<1>9. \A m, n \in 1 .. p : m < n => Ascending(P)[m] < Ascending(P)[n]
  BY <1>7, <1>8, AscendingFacts
<1>10. PICK feats, flows : feats = [n \in 1 .. p |-> holders[n].feature]
                        /\ flows = [n \in 1 .. p |-> holders[n].flow]
  OBVIOUS
<1>11. \A n \in 1 .. p :
         /\ Ascending(P)[n] \in 1 .. len /\ Ascending(P)[n] \in P
         /\ feats[n] = D[Ascending(P)[n]].feature /\ flows[n] = D[Ascending(P)[n]].flow
         /\ holders[n].feature = feats[n] /\ holders[n].flow = flows[n]
  BY <1>6, <1>8, <1>10
<1>12. PICK curves : curves = CurvesFor(rows, D, b, hydroid)
  OBVIOUS
<1>13. curves = [n \in 1 .. p |->
         [flow |-> holders[n].flow,
          row |-> CHOOSE r \in AskedRows(rows, b, hydroid, holders[n]) : TRUE]]
  BY <1>2, <1>8, <1>12 DEF CurvesFor
<1>14. \A n \in 1 .. p :
         /\ curves[n].flow = flows[n]
         /\ curves[n].row = CHOOSE r \in AskedRows(rows, b, hydroid, holders[n]) : TRUE
  <2> TAKE n \in 1 .. p
  <2>1. PICK r : r = CHOOSE x \in AskedRows(rows, b, hydroid, holders[n]) : TRUE
    OBVIOUS
  <2>2. curves[n] = [flow |-> holders[n].flow, row |-> r]
    BY <1>13, <2>1
  <2> QED
    BY <1>11, <2>1, <2>2
<1>15. \A n \in 1 .. p : <<hydroid, feats[n]>> \in K /\ feats[n] \in FeaturesOf(D)
  BY <1>5, <1>6, <1>11
<1>16. \A n \in 1 .. p : curves[n].row = RowFor(src, b, block, <<hydroid, feats[n]>>)
  <2> TAKE n \in 1 .. p
  <2>1. AskedRows(rows, b, hydroid, holders[n]) = {RowFor(src, b, block, <<hydroid, feats[n]>>)}
    BY <1>4, <1>11, <1>15
  <2> QED
    BY <1>14, <2>1
<1>17. \A m, n \in 1 .. p : m # n => feats[m] # feats[n]
  <2> SUFFICES ASSUME NEW m \in 1 .. p, NEW n \in 1 .. p, feats[m] = feats[n] PROVE m = n
    OBVIOUS
  <2>1. m < n \/ n < m \/ m = n
    BY <1>8
  <2>2. Ascending(P)[m] = Ascending(P)[n]
    BY <1>0, <1>11
  <2>3. Ascending(P)[m] \in Int /\ Ascending(P)[n] \in Int
    BY <1>8
  <2> QED
    BY <1>9, <2>1, <2>2, <2>3
<1>18. \A f \in FeaturesOf(D) :
         <<hydroid, f>> \in K => \E n \in 1 .. p : feats[n] = f
  <2> TAKE f \in FeaturesOf(D)
  <2> SUFFICES ASSUME <<hydroid, f>> \in K PROVE \E n \in 1 .. p : feats[n] = f
    OBVIOUS
  <2>1. PICK i \in 1 .. len : D[i].feature = f
    BY <1>0, FeaturesFacts
  <2>2. i \in P
    BY <1>6, <2>1
  <2>3. PICK n \in 1 .. p : Ascending(P)[n] = i
    BY <1>8, <2>2
  <2> QED
    BY <1>11, <2>1, <2>3
<1>19. curves \in Seq({curves[n] : n \in 1 .. p}) /\ Len(curves) = p
  <2>1. PICK C : C = {curves[n] : n \in 1 .. p}
    OBVIOUS
  <2>2. curves = [n \in 1 .. p |-> curves[n]]
    BY <1>13
  <2>3. curves \in [1 .. p -> C]
    BY <2>1, <2>2
  <2>4. curves \in Seq(C) /\ Len(curves) = p
    BY <1>8, <2>3
  <2> QED
    BY <2>1, <2>4
<1>20. \A n \in 1 .. p : \E m \in 1 .. len : D[m].feature = feats[n] /\ D[m].flow = flows[n]
  BY <1>11
<1>21. CurvesOk(curves, p, feats, flows, src, b, block, hydroid, D)
  BY <1>0, <1>14, <1>15, <1>16, <1>17, <1>18, <1>19, <1>20 DEF CurvesOk
<1> QED
  BY <1>0, <1>8, <1>12, <1>21

\* The discharge of a feature.
FlowOf(D, f) == (CHOOSE d \in ToSet(D) : d.feature = f).flow

\* The flow that is looked up is the one that was asked.
LEMMA FlowOfFacts ==
    ASSUME NEW D \in Seq(Discharges),
           \A m, n \in 1 .. Len(D) : D[m].feature = D[n].feature => m = n,
           NEW m \in 1 .. Len(D)
    PROVE  FlowOf(D, D[m].feature) = D[m].flow
<1>1. \A x : x \in ToSet(D) <=> \E n \in 1 .. Len(D) : x = D[n]
  BY ToSetFacts
<1>2. PICK f : f = D[m].feature
  OBVIOUS
<1>3. PICK d : d = CHOOSE x \in ToSet(D) : x.feature = f
  OBVIOUS
<1>4. d \in ToSet(D) /\ d.feature = f
  BY <1>1, <1>2, <1>3
<1>5. d = D[m]
  BY <1>1, <1>2, <1>4
<1> QED
  BY <1>2, <1>3, <1>5 DEF FlowOf

\* The stage of a HydroID on the whole table.
RefStage(src, b, hydroid, D) ==
    StageForDischarge(FlowOf(D, Kept(src.table, Picked(src, b, hydroid, FeaturesOf(D)))[1].feature),
                      Kept(src.table, Picked(src, b, hydroid, FeaturesOf(D))))

\* The rows that are picked.
LEMMA PickedFacts ==
    ASSUME NEW src, Hydrofabric(src), NEW b, NEW hydroid, NEW F, NEW R,
           R = Picked(src, b, hydroid, F)
    PROVE  /\ R \in SUBSET RowsOf(src, b) /\ R \in SUBSET (1 .. Len(src.table)) /\ R \in SUBSET Int
           /\ IsFiniteSet(R)
           /\ \A k \in R : src.table[k].q \in Int /\ src.table[k].h \in Int
<1>1. R \in SUBSET RowsOf(src, b)
  BY DEF Picked
<1>2. RowsOf(src, b) \in SUBSET (1 .. Len(src.table)) /\ IsFiniteSet(RowsOf(src, b))
  BY RowsOfFacts
<1>3. IsFiniteSet(R)
  BY <1>1, <1>2, FS_Subset
<1>4. src.table \in Seq(TableRows) /\ \A r \in TableRows : r.q \in Int /\ r.h \in Int
  BY DEF Hydrofabric, TableRows
<1>5. \A k \in R : src.table[k].q \in Int /\ src.table[k].h \in Int
  BY <1>1, <1>2, <1>4
<1>6. R \in SUBSET Int
  BY <1>1, <1>2
<1> QED
  BY <1>1, <1>2, <1>3, <1>5, <1>6

\* A HydroID has rows among them when the index has it for a feature.
LEMMA PickedWhen ==
    ASSUME NEW src, NEW b, NEW hydroid, NEW F
    PROVE  (Picked(src, b, hydroid, F) # {}) <=> (\E f \in F : <<hydroid, f>> \in KeysOf(src, b))
<1>1. \A f : <<hydroid, f>> \in KeysOf(src, b) <=>
           \E k \in RowsOf(src, b) : src.table[k].hydroid = hydroid /\ src.table[k].feature = f
  BY DEF KeysOf
<1>2. \A k : k \in Picked(src, b, hydroid, F) <=>
           k \in RowsOf(src, b) /\ src.table[k].hydroid = hydroid /\ src.table[k].feature \in F
  BY DEF Picked
<1> QED
  BY <1>1, <1>2

\* The curve of an index row is that of its rows in the table.
LEMMA RowForCurve ==
    ASSUME NEW src, Hydrofabric(src), NEW b, NEW block, NEW k, NEW s, s = RowsAt(src, b, k),
           NEW row, row = RowFor(src, b, block, k)
    PROVE  CurveOf(row.curve, src.table, s)
<1>1. PICK c : c = Cardinality(s)
  OBVIOUS
<1>2. DOMAIN row.curve = 1 .. c
  BY <1>1, RowForFacts
<1>3. \A n \in 1 .. c : row.curve[n] = [q |-> src.table[Ascending(s)[n]].q,
                                        h |-> src.table[Ascending(s)[n]].h]
  BY <1>1, RowForFacts
<1>4. \A n \in 1 .. c : row.curve[n].q = src.table[Ascending(s)[n]].q
                     /\ row.curve[n].h = src.table[Ascending(s)[n]].h
  <2> TAKE n \in 1 .. c
  <2>1. PICK a, z : a = src.table[Ascending(s)[n]].q /\ z = src.table[Ascending(s)[n]].h
    OBVIOUS
  <2>2. row.curve[n] = [q |-> a, h |-> z]
    BY <1>3, <2>1
  <2> QED
    BY <2>1, <2>2
<1> QED
  BY <1>1, <1>2, <1>4 DEF CurveOf

\* It keeps their order when its HydroID has another feature.
LEMMA RowForOrder ==
    ASSUME NEW src, NEW b, NEW block, NEW k, NEW k2 \in KeysOf(src, b),
           k2[1] = k[1], k2[2] # k[2]
    PROVE  RowFor(src, b, block, k).row_order = Ascending(RowsAt(src, b, k))
BY DEF RowFor

\* The stage that plan_huc finds from the index is that of the table.
LEMMA StageForFacts ==
    ASSUME NEW src, Hydrofabric(src), NEW block, NEW B, NEW b \in B, NEW hydroid,
           NEW D \in Seq(Discharges),
           \A m, n \in 1 .. Len(D) : D[m].feature = D[n].feature => m = n,
           Picked(src, b, hydroid, FeaturesOf(D)) # {}
    PROVE  StageFor(RowsFor(src, block, B, FeaturesOf(D)), D, b, hydroid)
             = RefStage(src, b, hydroid, D)
<1>1. PICK curves : curves = CurvesFor(RowsFor(src, block, B, FeaturesOf(D)), D, b, hydroid)
  OBVIOUS
<1>2. PICK p \in Nat : \E feats, flows : CurvesOk(curves, p, feats, flows, src, b, block, hydroid, D)
  BY <1>1, CurvesFacts
<1>3. PICK feats, flows : CurvesOk(curves, p, feats, flows, src, b, block, hydroid, D)
  BY <1>2
<1>4. PICK R : R = Picked(src, b, hydroid, FeaturesOf(D))
  OBVIOUS
<1>5. /\ R \in SUBSET RowsOf(src, b) /\ R \in SUBSET Int /\ IsFiniteSet(R)
      /\ R \in SUBSET (1 .. Len(src.table))
      /\ \A k \in R : src.table[k].q \in Int /\ src.table[k].h \in Int
  BY <1>4, PickedFacts
<1>6. PICK S : S = [n \in 1 .. p |-> RowsAt(src, b, <<hydroid, feats[n]>>)]
  OBVIOUS
<1>7. \A n \in 1 .. p : \A k : k \in S[n] <=>
        k \in RowsOf(src, b) /\ src.table[k].hydroid = hydroid /\ src.table[k].feature = feats[n]
  <2> TAKE n \in 1 .. p
  <2>1. PICK key : key = <<hydroid, feats[n]>> /\ key[1] = hydroid /\ key[2] = feats[n]
    <3>1. <<hydroid, feats[n]>>[1] = hydroid /\ <<hydroid, feats[n]>>[2] = feats[n]
      OBVIOUS
    <3> QED
      BY <3>1
  <2>2. S[n] = RowsAt(src, b, key)
    BY <1>6, <2>1
  <2> QED
    BY <2>1, <2>2 DEF RowsAt
<1>8. \A k : k \in R <=>
        k \in RowsOf(src, b) /\ src.table[k].hydroid = hydroid
        /\ src.table[k].feature \in FeaturesOf(D)
  BY <1>4 DEF Picked
<1>9. \A n \in 1 .. p : \E m \in 1 .. Len(D) : D[m].feature = feats[n] /\ D[m].flow = flows[n]
  BY <1>3 DEF CurvesOk
<1>10. \A n \in 1 .. p : feats[n] \in FeaturesOf(D) /\ flows[n] \in Int
  <2> TAKE n \in 1 .. p
  <2>1. PICK m \in 1 .. Len(D) : D[m].feature = feats[n] /\ D[m].flow = flows[n]
    BY <1>9
  <2>2. D[m] \in Discharges
    OBVIOUS
  <2>3. D[m].flow \in Int
    BY <2>2 DEF Discharges
  <2> QED
    BY <2>1, <2>3, FeaturesFacts
<1>11. \A n \in 1 .. p : S[n] \in SUBSET R
  BY <1>7, <1>8, <1>10
<1>12. \A k \in R : \E n \in 1 .. p : k \in S[n]
  <2> TAKE k \in R
  <2>1. <<hydroid, src.table[k].feature>> \in KeysOf(src, b)
    BY <1>8 DEF KeysOf
  <2>2. PICK n \in 1 .. p : feats[n] = src.table[k].feature
    BY <1>3, <1>8, <2>1 DEF CurvesOk
  <2> QED
    BY <1>7, <1>8, <2>2
<1>13. p # 0
  BY <1>4, <1>12
<1>14. \A n \in 1 .. p : \A k \in S[n] : src.table[k].feature = feats[n]
  BY <1>7
<1>15. \A n \in 1 .. p :
         curves[n].flow = flows[n] /\ CurveOf(curves[n].row.curve, src.table, S[n])
  <2> TAKE n \in 1 .. p
  <2>1. PICK key, s : key = <<hydroid, feats[n]>> /\ s = S[n] /\ s = RowsAt(src, b, key)
    BY <1>6
  <2>2. PICK row : row = curves[n].row /\ row = RowFor(src, b, block, key)
    BY <1>3, <2>1 DEF CurvesOk
  <2>3. CurveOf(row.curve, src.table, s)
    BY <2>1, <2>2, RowForCurve
  <2>4. curves[n].flow = flows[n]
    BY <1>3 DEF CurvesOk
  <2> QED
    BY <2>1, <2>2, <2>3, <2>4
<1>16. p # 1 => \A n \in 1 .. p : curves[n].row.row_order = Ascending(S[n])
  <2> SUFFICES ASSUME p # 1, NEW n \in 1 .. p PROVE curves[n].row.row_order = Ascending(S[n])
    OBVIOUS
  <2>1. PICK key, s : /\ key = <<hydroid, feats[n]>> /\ s = S[n] /\ s = RowsAt(src, b, key)
                      /\ key[1] = hydroid /\ key[2] = feats[n]
    <3>1. <<hydroid, feats[n]>>[1] = hydroid /\ <<hydroid, feats[n]>>[2] = feats[n]
      OBVIOUS
    <3> QED
      BY <1>6, <3>1
  <2>2. PICK row : row = curves[n].row /\ row = RowFor(src, b, block, key)
    BY <1>3, <2>1 DEF CurvesOk
  <2>3. PICK o \in 1 .. p : o # n
    <3>1. 1 \in 1 .. p /\ 2 \in 1 .. p
      BY <1>13
    <3>2. CASE n = 1
      BY <3>1, <3>2
    <3>3. CASE n # 1
      BY <3>1, <3>3
    <3> QED
      BY <3>2, <3>3
  <2>4. PICK key2 : key2 \in KeysOf(src, b) /\ key2[1] = hydroid /\ key2[2] = feats[o]
    <3>1. <<hydroid, feats[o]>>[1] = hydroid /\ <<hydroid, feats[o]>>[2] = feats[o]
      OBVIOUS
    <3>2. <<hydroid, feats[o]>> \in KeysOf(src, b)
      BY <1>3 DEF CurvesOk
    <3> QED
      BY <3>1, <3>2
  <2>5. feats[o] # feats[n]
    BY <1>3, <2>3 DEF CurvesOk
  <2>6. \E k2 \in KeysOf(src, b) : k2[1] = key[1] /\ k2[2] # key[2]
    BY <2>1, <2>4, <2>5
  <2>7. row.row_order = Ascending(s)
    BY <2>1, <2>2, <2>6, RowForOrder
  <2> QED
    BY <2>1, <2>2, <2>7
<1>17. PICK C : C = {curves[n] : n \in 1 .. p}
  OBVIOUS
<1>18. curves \in Seq(C) /\ Len(curves) = p
  BY <1>3, <1>17 DEF CurvesOk
<1>19. Rated(RatingRows(curves), src.table, R, p, feats, flows)
  <2>1. CASE p # 1
    <3>1. \A n \in 1 .. p :
             /\ curves[n].flow = flows[n] /\ CurveOf(curves[n].row.curve, src.table, S[n])
             /\ curves[n].row.row_order = Ascending(S[n])
      BY <1>15, <1>16, <2>1
    <3>2. PICK table : table = src.table
      OBVIOUS
    <3>4. /\ p \in Nat /\ R \in SUBSET Int /\ IsFiniteSet(R)
          /\ \A k \in R : table[k].q \in Int /\ table[k].h \in Int
      BY <1>5, <3>2
    <3>5. /\ \A n \in 1 .. p : S[n] \in SUBSET R
          /\ \A k \in R : \E n \in 1 .. p : k \in S[n]
          /\ \A n \in 1 .. p : flows[n] \in Int
          /\ \A n \in 1 .. p : \A k \in S[n] : table[k].feature = feats[n]
      BY <1>10, <1>11, <1>12, <1>14, <3>2
    <3>6. /\ curves \in Seq(C) /\ Len(curves) = p /\ p # 1
          /\ \A n \in 1 .. p :
               /\ curves[n].flow = flows[n] /\ CurveOf(curves[n].row.curve, table, S[n])
               /\ curves[n].row.row_order = Ascending(S[n])
      BY <1>18, <2>1, <3>1, <3>2
    <3>3. Rated(RatingRows(curves), table, R, p, feats, flows)
      BY ZenonT(60), <3>4, <3>5, <3>6, MergedRating
    <3> QED
      BY <3>2, <3>3
  <2>2. CASE p = 1
    <3>0. 1 \in 1 .. p /\ \A n \in 1 .. p : n = 1
      BY <2>2
    <3>1. S[1] = R
      BY <1>11, <1>12, <3>0
    <3>2. curves[1].flow = flows[1] /\ CurveOf(curves[1].row.curve, src.table, R)
          /\ flows[1] \in Int /\ \A k \in R : src.table[k].feature = feats[1]
      BY <1>10, <1>14, <1>15, <3>0, <3>1
    <3>3. PICK table : table = src.table
      OBVIOUS
    <3>4. Rated(RatingRows(curves), table, R, 1, feats, flows)
      BY <1>5, <1>18, <2>2, <3>2, <3>3, SingleRating
    <3> QED
      BY <2>2, <3>3, <3>4
  <2> QED
    BY <2>1, <2>2
<1>20. PICK rating, rows, c :
          rating = RatingRows(curves) /\ rows = Kept(src.table, R) /\ c = Cardinality(R)
  OBVIOUS
<1>21. /\ c \in Nat /\ rows \in Seq(TableRows) /\ Len(rows) = c
       /\ \A m \in 1 .. c : rows[m] = src.table[Ascending(R)[m]]
  <2>1. src.table \in Seq(TableRows)
    BY DEF Hydrofabric
  <2>2. PICK table \in Seq(TableRows) : table = src.table
    BY <2>1
  <2> QED
    BY <1>5, <1>20, <2>2, KeptFacts
<1>22. /\ rating \in Seq(RatingRow) /\ Len(rating) = c
       /\ \A m \in 1 .. c : rating[m].q = rows[m].q /\ rating[m].h = rows[m].h
       /\ \A m \in 1 .. c : \E n \in 1 .. p : rows[m].feature = feats[n] /\ rating[m].flow = flows[n]
  <2>1. PICK table : table = src.table
    OBVIOUS
  <2>2. Rated(rating, table, R, p, feats, flows)
    BY <1>19, <1>20, <2>1
  <2>3. /\ rating \in Seq(RatingRow) /\ Len(rating) = c
        /\ \A m \in 1 .. c : \E n \in 1 .. p :
             /\ table[Ascending(R)[m]].feature = feats[n] /\ rating[m].flow = flows[n]
             /\ rating[m].q = table[Ascending(R)[m]].q /\ rating[m].h = table[Ascending(R)[m]].h
    BY <1>20, <2>2 DEF Rated
  <2>4. \A m \in 1 .. c : rows[m] = table[Ascending(R)[m]]
    BY <1>21, <2>1
  <2>5. \A m \in 1 .. c : rating[m].q = rows[m].q /\ rating[m].h = rows[m].h
    BY <2>3, <2>4
  <2>6. \A m \in 1 .. c : \E n \in 1 .. p : rows[m].feature = feats[n] /\ rating[m].flow = flows[n]
    BY <2>3, <2>4
  <2> QED
    BY <2>3, <2>5, <2>6
<1>23. c > 0
  BY <1>4, <1>5, <1>20, <1>21, FS_EmptySet
<1>24. ASSUME NEW d PROVE StageForDischarge(d, rating) = StageForDischarge(d, rows)
  <2>1. /\ rating \in Seq(RatingRow) /\ rows \in Seq(TableRows)
        /\ Len(rating) = Len(rows) /\ Len(rating) > 0
        /\ \A k \in 1 .. Len(rating) : rating[k].q = rows[k].q /\ rating[k].h = rows[k].h
    BY <1>21, <1>22, <1>23
  <2> QED
    BY <2>1, StageAgrees
<1>25. rating[1].flow = FlowOf(D, rows[1].feature)
  <2>1. PICK n \in 1 .. p : rows[1].feature = feats[n] /\ rating[1].flow = flows[n]
    <3>1. 1 \in 1 .. c
      BY <1>21, <1>23
    <3> QED
      BY <3>1, <1>22
  <2>2. PICK m \in 1 .. Len(D) : D[m].feature = feats[n] /\ D[m].flow = flows[n]
    BY <1>9
  <2>3. FlowOf(D, D[m].feature) = D[m].flow
    BY FlowOfFacts
  <2> QED
    BY <2>1, <2>2, <2>3
<1>26. StageFor(RowsFor(src, block, B, FeaturesOf(D)), D, b, hydroid)
         = StageForDischarge(rating[1].flow, rating)
  BY <1>1, <1>20 DEF StageFor
<1>27. RefStage(src, b, hydroid, D) = StageForDischarge(FlowOf(D, rows[1].feature), rows)
  BY <1>4, <1>20 DEF RefStage
<1> QED
  BY <1>24, <1>25, <1>26, <1>27

\* What the plan of a branch holds.
PlanOk(p, src, block, B, D) ==
    /\ p.branch \in B /\ p.place = src.place[p.branch]
    /\ DOMAIN p.stages \in SUBSET Int /\ IsFiniteSet(DOMAIN p.stages)
    /\ \A i : i \in DOMAIN p.stages <=> Picked(src, p.branch, i, FeaturesOf(D)) # {}
    /\ \A i \in DOMAIN p.stages : p.stages[i] = RefStage(src, p.branch, i, D)
    /\ p.blocks \in SUBSET BlockGrid(p.place, block)
    /\ \A i \in DOMAIN p.stages : OccupiedBlocks(src, p.branch, block, i) \in SUBSET p.blocks

\* The HydroIDs and the blocks of the rows of a branch.
StagedOf(rows, b) == {r.hydroid : r \in OfBranch(rows, b)}
BlocksOf(rows, b) == UNION {r.blocks : r \in OfBranch(rows, b)}

\* The HydroIDs of a branch that the index holds for the requested features.
LEMMA StagedFacts ==
    ASSUME NEW src, Hydrofabric(src), NEW block, NEW B, NEW F, NEW b \in B,
           NEW I, I = StagedOf(RowsFor(src, block, B, F), b)
    PROVE  /\ I \in SUBSET Int /\ IsFiniteSet(I)
           /\ \A i : i \in I <=> Picked(src, b, i, F) # {}
<1>1. PICK O, K : O = OfBranch(RowsFor(src, block, B, F), b) /\ K = KeysOf(src, b)
  OBVIOUS
<1>2. \A r : r \in O <=> \E k \in K : k[2] \in F /\ r = RowFor(src, b, block, k)
  BY <1>1, OfBranchFacts
<1>3. \A k \in K : /\ RowFor(src, b, block, k).hydroid = k[1]
                   /\ k = <<k[1], k[2]>> /\ k[1] \in Int
  <2>1. \A k \in K : k = <<k[1], k[2]>>
    BY <1>1 DEF KeysOf
  <2>2. \A k : RowFor(src, b, block, k).hydroid = k[1]
    BY DEF RowFor
  <2>3. \A k \in K : k[1] \in Int
    BY <1>1, RowsOfFacts
  <2> QED
    BY <2>1, <2>2, <2>3
<1>4. \A i : i \in I <=> \E k \in K : k[2] \in F /\ k[1] = i
  BY <1>1, <1>2, <1>3 DEF StagedOf
<1>5. \A i, f : <<i, f>>[1] = i /\ <<i, f>>[2] = f
  OBVIOUS
<1>6. \A i : i \in I <=> \E f \in F : <<i, f>> \in K
  <2>1. ASSUME NEW i \in I PROVE \E f \in F : <<i, f>> \in K
    <3>1. PICK k \in K : k[2] \in F /\ k[1] = i
      BY <1>4
    <3>2. k = <<i, k[2]>>
      BY <1>3, <3>1
    <3> QED
      BY <3>1, <3>2
  <2>2. ASSUME NEW i, NEW f \in F, <<i, f>> \in K PROVE i \in I
    BY <1>4, <1>5, <2>2
  <2> QED
    BY <2>1, <2>2
<1>7. \A i : i \in I <=> Picked(src, b, i, F) # {}
  BY <1>1, <1>6, PickedWhen
<1>8. I \in SUBSET Int
  BY <1>3, <1>4
<1>9. IsFiniteSet(I)
  <2>1. IsFiniteSet(K)
    BY <1>1, RowsOfFacts
  <2>2. PICK f : f = [k \in K |-> k[1]]
    OBVIOUS
  <2>3. f = [k \in K |-> f[k]] /\ \A k \in K : f[k] = k[1]
    BY <2>2
  <2>4. IsFiniteSet({f[k] : k \in K})
    BY <2>1, <2>3, FiniteImage
  <2>5. I \in SUBSET {f[k] : k \in K}
    BY <1>4, <2>3
  <2> QED
    BY <2>4, <2>5, FS_Subset
<1> QED
  BY <1>7, <1>8, <1>9

\* The blocks of a branch for the requested features.
LEMMA BlocksFacts ==
    ASSUME NEW src, Hydrofabric(src), NEW block, NEW B, NEW F, NEW b \in B,
           NEW blocks, blocks = BlocksOf(RowsFor(src, block, B, F), b)
    PROVE  /\ blocks \in SUBSET BlockGrid(src.place[b], block)
           /\ \A i : Picked(src, b, i, F) # {} => OccupiedBlocks(src, b, block, i) \in SUBSET blocks
<1>1. PICK O, K : O = OfBranch(RowsFor(src, block, B, F), b) /\ K = KeysOf(src, b)
  OBVIOUS
<1>2. \A r : r \in O <=> \E k \in K : k[2] \in F /\ r = RowFor(src, b, block, k)
  BY <1>1, OfBranchFacts
<1>3. \A k, at : at \in RowFor(src, b, block, k).blocks <=>
        \E j \in K : j[2] = k[2] /\ at \in OccupiedBlocks(src, b, block, j[1])
  <2> TAKE k, at
  <2>1. RowFor(src, b, block, k).blocks =
          UNION {OccupiedBlocks(src, b, block, j[1]) : j \in {m \in KeysOf(src, b) : m[2] = k[2]}}
    BY DEF RowFor
  <2> QED
    BY <1>1, <2>1
<1>4. \A i : OccupiedBlocks(src, b, block, i) \in SUBSET BlockGrid(src.place[b], block)
  BY DEF OccupiedBlocks
<1>5. \A at : at \in blocks <=> \E r \in O : at \in r.blocks
  BY <1>1 DEF BlocksOf
<1>6. blocks \in SUBSET BlockGrid(src.place[b], block)
  BY <1>2, <1>3, <1>4, <1>5
<1>7. ASSUME NEW i, Picked(src, b, i, F) # {}, NEW at \in OccupiedBlocks(src, b, block, i)
      PROVE  at \in blocks
  <2>1. PICK f \in F : <<i, f>> \in K
    BY <1>1, <1>7, PickedWhen
  <2>2. PICK k : k = <<i, f>> /\ k[1] = i /\ k[2] = f
    <3>1. <<i, f>>[1] = i /\ <<i, f>>[2] = f
      OBVIOUS
    <3> QED
      BY <3>1
  <2>3. RowFor(src, b, block, k) \in O
    BY <1>2, <2>1, <2>2
  <2>4. at \in RowFor(src, b, block, k).blocks
    BY <1>3, <1>7, <2>1, <2>2
  <2> QED
    BY <1>5, <2>3, <2>4
<1> QED
  BY <1>6, <1>7

\* The plan of a converted branch.
LEMMA PlanOfFacts ==
    ASSUME NEW src, Hydrofabric(src), NEW block, NEW B, NEW b \in B, NEW idx,
           idx.branches = [x \in B |-> src.place[x]],
           NEW D \in Seq(Discharges),
           \A m, n \in 1 .. Len(D) : D[m].feature = D[n].feature => m = n,
           NEW p, p = PlanOf(idx, RowsFor(src, block, B, FeaturesOf(D)), D, b)
    PROVE  PlanOk(p, src, block, B, D) /\ p.branch = b
<1>1. PICK rows, F : rows = RowsFor(src, block, B, FeaturesOf(D)) /\ F = FeaturesOf(D)
  OBVIOUS
<1>2. PICK I, blocks : I = StagedOf(rows, b) /\ blocks = BlocksOf(rows, b)
  OBVIOUS
<1>3. p = [branch |-> b, place |-> idx.branches[b],
           stages |-> [i \in StagedOf(rows, b) |-> StageFor(rows, D, b, i)],
           blocks |-> BlocksOf(rows, b)]
  BY <1>1 DEF PlanOf, StagedOf, BlocksOf
<1>4. PICK stages, place : /\ stages = [i \in StagedOf(rows, b) |-> StageFor(rows, D, b, i)]
                           /\ place = idx.branches[b]
  OBVIOUS
<1>5. p = [branch |-> b, place |-> place, stages |-> stages, blocks |-> blocks]
  BY <1>2, <1>3, <1>4
<1>6. p.branch = b /\ p.place = place /\ p.stages = stages /\ p.blocks = blocks
  BY <1>5
<1>7. place = src.place[b]
  BY <1>4
<1>8. I \in SUBSET Int /\ IsFiniteSet(I) /\ \A i : i \in I <=> Picked(src, b, i, F) # {}
  BY <1>1, <1>2, StagedFacts
<1>9. DOMAIN stages = I /\ \A i \in I : stages[i] = StageFor(rows, D, b, i)
  BY <1>2, <1>4
<1>10. \A i \in I : stages[i] = RefStage(src, b, i, D)
  <2> TAKE i \in I
  <2>1. Picked(src, b, i, FeaturesOf(D)) # {}
    BY <1>1, <1>8
  <2>2. StageFor(RowsFor(src, block, B, FeaturesOf(D)), D, b, i) = RefStage(src, b, i, D)
    BY <2>1, StageForFacts
  <2> QED
    BY <1>1, <1>9, <2>2
<1>11. /\ blocks \in SUBSET BlockGrid(src.place[b], block)
       /\ \A i : Picked(src, b, i, F) # {} => OccupiedBlocks(src, b, block, i) \in SUBSET blocks
  BY <1>1, <1>2, BlocksFacts
<1> QED
  BY <1>1, <1>6, <1>7, <1>8, <1>9, <1>10, <1>11 DEF PlanOk

\* The index holds the rows of the requested features.
LEMMA PlanRowsFacts ==
    ASSUME NEW src, Hydrofabric(src), NEW block, NEW B \in SUBSET ToSet(src.ids),
           NEW idx, idx = IndexOf(src, block, B), NEW D \in Seq(Discharges)
    PROVE  PlanRows(idx, D) = RowsFor(src, block, B, FeaturesOf(D))
<1>1. PICK rows : rows = UNION {BranchRows(src, b, block) : b \in B}
  OBVIOUS
<1>2. \A b : IsFiniteSet(BranchRows(src, b, block))
             /\ \A r \in BranchRows(src, b, block) : r.feature \in Int
  BY BranchRowsFacts
<1>3. \A r \in rows : r.feature \in Int
  BY <1>1, <1>2
<1>4. IsFiniteSet(B)
  <2>1. src.ids \in Seq(Nat)
    BY DEF Hydrofabric
  <2>2. PICK s \in Seq(Nat) : s = src.ids
    BY <2>1
  <2>3. IsFiniteSet(ToSet(s))
    BY ToSetFacts
  <2> QED
    BY <2>2, <2>3, FS_Subset
<1>5. IsFiniteSet(rows)
  <2>1. PICK f : f = [b \in B |-> BranchRows(src, b, block)]
    OBVIOUS
  <2>2. f = [b \in B |-> f[b]] /\ \A b \in B : f[b] = BranchRows(src, b, block)
    BY <2>1
  <2>3. PICK S : S = {f[b] : b \in B}
    OBVIOUS
  <2>4. IsFiniteSet(S)
    BY <1>4, <2>2, <2>3, FiniteImage
  <2>5. \A x \in S : IsFiniteSet(x)
    BY <1>2, <2>2, <2>3
  <2>6. rows = UNION S
    BY <1>1, <2>2, <2>3
  <2> QED
    BY <2>4, <2>5, <2>6, FS_UNION
<1>6. idx.groups = RowGroups(rows)
  BY <1>1 DEF IndexOf
<1>7. PICK F : F = FeaturesOf(D) /\ F \in SUBSET Int /\ IsFiniteSet(F)
  BY FeaturesFacts
<1>8. ReadReaches(RowGroups(rows), F) = {r \in rows : r.feature \in F}
  BY <1>3, <1>5, <1>7, ReadReachesFacts
<1> QED
  BY <1>1, <1>6, <1>7, <1>8 DEF PlanRows, RowsFor, FeaturesOf

\* plan_huc plans the branches with a block of a requested HydroID.
LEMMA PlansFacts ==
    ASSUME NEW src, Hydrofabric(src), NEW block, NEW B \in SUBSET ToSet(src.ids),
           NEW idx, idx = IndexOf(src, block, B), NEW D \in Seq(Discharges),
           \A m, n \in 1 .. Len(D) : D[m].feature = D[n].feature => m = n,
           NEW plans, plans = PlanHuc(idx, D).plans
    PROVE  /\ \E c \in Nat : DOMAIN plans = 1 .. c
           /\ \A n \in DOMAIN plans : PlanOk(plans[n], src, block, B, D)
           /\ \A b \in B : \A i : (Picked(src, b, i, FeaturesOf(D)) # {}
                                 /\ OccupiedBlocks(src, b, block, i) # {})
                => \E n \in DOMAIN plans : plans[n].branch = b
<1>1. PICK rows : rows = PlanRows(idx, D)
  OBVIOUS
<1>2. rows = RowsFor(src, block, B, FeaturesOf(D))
  BY <1>1, PlanRowsFacts
<1>3. PICK A : A = {b \in {r.branch : r \in rows} : PlanOf(idx, rows, D, b).blocks # {}}
  OBVIOUS
<1>4. PICK planned : planned = PlannedBranches(idx, rows, D) /\ planned = Ascending(A)
  BY <1>3 DEF PlannedBranches
<1>5. plans = [n \in DOMAIN planned |-> PlanOf(idx, rows, D, planned[n])]
  <2>1. plans = PlansOf(idx, rows, D)
    <3>1. PlanHuc(idx, D) = [plans |-> PlansOf(idx, PlanRows(idx, D), D),
                             missing |-> MissingOf(PlanRows(idx, D), D)]
      BY PlanForm
    <3>2. PICK u, v : u = PlansOf(idx, PlanRows(idx, D), D) /\ v = MissingOf(PlanRows(idx, D), D)
      OBVIOUS
    <3>3. PlanHuc(idx, D) = [plans |-> u, missing |-> v]
      BY <3>1, <3>2
    <3> QED
      BY <1>1, <3>2, <3>3
  <2> QED
    BY <1>4, <2>1 DEF PlansOf
<1>6. idx.branches = [x \in B |-> src.place[x]]
  BY DEF IndexOf
<1>7. \A b \in B : /\ PlanOk(PlanOf(idx, rows, D, b), src, block, B, D)
                   /\ PlanOf(idx, rows, D, b).branch = b
  <2> TAKE b \in B
  <2>1. PICK p : p = PlanOf(idx, RowsFor(src, block, B, FeaturesOf(D)), D, b)
    OBVIOUS
  <2>2. PlanOk(p, src, block, B, D) /\ p.branch = b
    BY <1>6, <2>1, PlanOfFacts
  <2> QED
    BY <1>2, <2>1, <2>2
<1>8. \A r \in rows : r.branch \in B
  <2>1. \A r \in rows : \E b \in B : r \in BranchRows(src, b, block)
    BY <1>2 DEF RowsFor
  <2>2. \A b : \A r \in BranchRows(src, b, block) : r.branch = b
    BY BranchRowsFacts
  <2> QED
    BY <2>1, <2>2
<1>9. A \in SUBSET B
  BY <1>3, <1>8
<1>10. B \in SUBSET Int /\ IsFiniteSet(B)
  <2>1. src.ids \in Seq(Nat)
    BY DEF Hydrofabric
  <2>2. PICK s \in Seq(Nat) : s = src.ids
    BY <2>1
  <2>3. IsFiniteSet(ToSet(s)) /\ ToSet(s) \in SUBSET Nat
    BY ToSetFacts
  <2> QED
    BY <2>2, <2>3, FS_Subset
<1>11. PICK c : c = Cardinality(A)
  OBVIOUS
<1>12. /\ c \in Nat /\ DOMAIN planned = 1 .. c
       /\ \A n \in 1 .. c : planned[n] \in A
       /\ \A b \in A : \E n \in 1 .. c : planned[n] = b
  <2>1. A \in SUBSET Int /\ IsFiniteSet(A)
    BY <1>9, <1>10, FS_Subset
  <2> QED
    BY <1>4, <1>11, <2>1, AscendingFacts
<1>13. DOMAIN plans = 1 .. c /\ \A n \in 1 .. c : plans[n] = PlanOf(idx, rows, D, planned[n])
  BY <1>5, <1>12
<1>14. \A n \in 1 .. c : PlanOk(plans[n], src, block, B, D)
  BY <1>7, <1>9, <1>12, <1>13
<1>15. ASSUME NEW b \in B, NEW i, Picked(src, b, i, FeaturesOf(D)) # {},
              OccupiedBlocks(src, b, block, i) # {}
       PROVE  \E n \in 1 .. c : plans[n].branch = b
  <2>1. PICK p : p = PlanOf(idx, rows, D, b)
    OBVIOUS
  <2>2. PlanOk(p, src, block, B, D) /\ p.branch = b
    BY <1>7, <2>1
  <2>3. i \in DOMAIN p.stages
    BY <1>15, <2>2 DEF PlanOk
  <2>4. p.blocks # {}
    <3>1. OccupiedBlocks(src, b, block, i) \in SUBSET p.blocks
      BY <2>2, <2>3 DEF PlanOk
    <3> QED
      BY <1>15, <3>1
  <2>5. \E r \in rows : r.branch = b
    <3>1. p.blocks = BlocksOf(rows, b)
      BY <2>1 DEF PlanOf, BlocksOf
    <3>2. OfBranch(rows, b) # {}
      BY <2>4, <3>1 DEF BlocksOf
    <3> QED
      BY <3>2 DEF OfBranch
  <2>6. b \in A
    BY <1>3, <2>1, <2>4, <2>5
  <2>7. PICK n \in 1 .. c : planned[n] = b
    BY <1>12, <2>6
  <2> QED
    BY <1>7, <1>13, <2>7
<1> QED
  BY <1>12, <1>13, <1>14, <1>15

\* The requested features that no converted branch has outside lakes.
Known(src, B, f) ==
    \E b \in B : \E i \in 1 .. Len(src.table) :
        src.table[i].branch = b /\ src.table[i].feature = f /\ ~src.table[i].lake

\* A plan reports the requested features that no converted branch rates.
LEMMA MissingFacts ==
    ASSUME NEW src, Hydrofabric(src), NEW block, NEW B \in SUBSET ToSet(src.ids),
           NEW idx, idx = IndexOf(src, block, B), NEW D \in Seq(Discharges),
           NEW absent, absent = Kept(D, {n \in DOMAIN D : ~Known(src, B, D[n].feature)})
    PROVE  PlanHuc(idx, D).missing = [n \in DOMAIN absent |-> absent[n].feature]
<1>1. PICK rows : rows = PlanRows(idx, D)
  OBVIOUS
<1>2. PlanHuc(idx, D).missing = MissingOf(rows, D)
  <2>1. PlanHuc(idx, D) = [plans |-> PlansOf(idx, PlanRows(idx, D), D),
                           missing |-> MissingOf(PlanRows(idx, D), D)]
    BY PlanForm
  <2>2. PICK u, v : u = PlansOf(idx, PlanRows(idx, D), D) /\ v = MissingOf(PlanRows(idx, D), D)
    OBVIOUS
  <2>3. PlanHuc(idx, D) = [plans |-> u, missing |-> v]
    BY <2>1, <2>2
  <2> QED
    BY <1>1, <2>2, <2>3
<1>3. rows = RowsFor(src, block, B, FeaturesOf(D))
  BY <1>1, PlanRowsFacts
<1>4. DOMAIN D = 1 .. Len(D) /\ \A n \in 1 .. Len(D) : D[n].feature \in FeaturesOf(D)
  BY FeaturesFacts
<1>5. \A f \in FeaturesOf(D) : (f \in {r.feature : r \in rows}) <=> Known(src, B, f)
  <2> TAKE f \in FeaturesOf(D)
  <2>1. ASSUME NEW r \in rows, r.feature = f PROVE Known(src, B, f)
    <3>1. PICK b \in B : r \in BranchRows(src, b, block)
      BY <1>3 DEF RowsFor
    <3>2. <<r.hydroid, r.feature>> \in KeysOf(src, b)
      BY <3>1, BranchRowsFacts
    <3>3. PICK i \in RowsOf(src, b) :
             <<r.hydroid, r.feature>> = <<src.table[i].hydroid, src.table[i].feature>>
      BY <3>2 DEF KeysOf
    <3>4. i \in DOMAIN src.table /\ src.table[i].branch = b /\ ~src.table[i].lake
      BY DEF RowsOf
    <3>5. i \in 1 .. Len(src.table) /\ src.table[i].feature = f
      BY <2>1, <3>3, <3>4, RowsOfFacts
    <3> QED
      BY <3>4, <3>5 DEF Known
  <2>2. ASSUME Known(src, B, f) PROVE \E r \in rows : r.feature = f
    <3>1. PICK b \in B : \E i \in 1 .. Len(src.table) :
             src.table[i].branch = b /\ src.table[i].feature = f /\ ~src.table[i].lake
      BY <2>2 DEF Known
    <3>2. PICK i \in 1 .. Len(src.table) :
             src.table[i].branch = b /\ src.table[i].feature = f /\ ~src.table[i].lake
      BY <3>1
    <3>3. i \in RowsOf(src, b)
      BY <3>2, RowsOfFacts DEF RowsOf
    <3>4. PICK k : k = <<src.table[i].hydroid, f>> /\ k[2] = f
      <4>1. <<src.table[i].hydroid, f>>[2] = f
        OBVIOUS
      <4> QED
        BY <4>1
    <3>5. k \in KeysOf(src, b)
      BY <3>2, <3>3, <3>4 DEF KeysOf
    <3>6. /\ RowFor(src, b, block, k) \in BranchRows(src, b, block)
          /\ RowFor(src, b, block, k).feature = f
      BY <3>4, <3>5, BranchRowsFacts
    <3>7. RowFor(src, b, block, k) \in rows
      BY <1>3, <3>6 DEF RowsFor
    <3> QED
      BY <3>6, <3>7
  <2> QED
    BY <2>1, <2>2
<1>6. {n \in DOMAIN D : D[n].feature \notin {r.feature : r \in rows}}
        = {n \in DOMAIN D : ~Known(src, B, D[n].feature)}
  BY <1>4, <1>5
<1>7. AbsentFrom(rows, D) = absent
  BY <1>6 DEF AbsentFrom
<1> QED
  BY <1>2, <1>7 DEF MissingOf

-----------------------------------------------------------------------------
(* Windows, blocks and tiles. *)

\* The place of a cell among runs of d cells.
LEMMA RunOf ==
    ASSUME NEW r \in Int, NEW d \in Nat \ {0}
    PROVE  /\ r \div d \in Int
           /\ \A t \in Int : (t * d <= r /\ r < t * d + d) <=> t = r \div d
<1>1. PICK q \in Int : q = r \div d /\ q * d <= r /\ r < q * d + d
  OBVIOUS
<1>2. ASSUME NEW t \in Int, t * d <= r, r < t * d + d PROVE t = q
  <2>1. CASE t < q
    <3>1. PICK k \in Nat : q = t + 1 + k
      <4>1. q - t - 1 \in Nat /\ q = t + 1 + (q - t - 1)
        BY <2>1
      <4> QED
        BY <4>1
    <3>2. q * d = t * d + d + k * d /\ k * d >= 0
      BY <3>1
    <3>3. t * d \in Int /\ k * d \in Int
      BY <3>1
    <3> QED
      BY <1>1, <1>2, <3>2, <3>3
  <2>2. CASE q < t
    <3>1. PICK k \in Nat : t = q + 1 + k
      <4>1. t - q - 1 \in Nat /\ t = q + 1 + (t - q - 1)
        BY <2>2
      <4> QED
        BY <4>1
    <3>2. t * d = q * d + d + k * d /\ k * d >= 0
      BY <3>1
    <3>3. q * d \in Int /\ k * d \in Int
      BY <3>1
    <3> QED
      BY <1>1, <1>2, <3>2, <3>3
  <2> QED
    BY <2>1, <2>2
<1> QED
  BY <1>1, <1>2

\* A number lies in the run of its quotient.
LEMMA RunAt ==
    ASSUME NEW r \in Int, NEW d \in Nat \ {0}, NEW t \in Int, NEW s, s = t * d
    PROVE  (s <= r /\ r < s + d) <=> t = r \div d
BY RunOf

\* Runs are in order.
LEMMA RunsAscend ==
    ASSUME NEW r \in Int, NEW s \in Int, r <= s, NEW d \in Nat \ {0}
    PROVE  r \div d <= s \div d
<1>1. PICK a \in Int : a = r \div d /\ a * d <= r /\ r < a * d + d
  BY RunOf
<1>2. PICK b \in Int : b = s \div d /\ b * d <= s /\ s < b * d + d
  BY RunOf
<1>3. CASE b < a
  <2>1. PICK k \in Nat : a = b + 1 + k
    <3>1. a - b - 1 \in Nat /\ a = b + 1 + (a - b - 1)
      BY <1>3
    <3> QED
      BY <3>1
  <2>2. a * d = b * d + d + k * d /\ k * d >= 0 /\ b * d \in Int /\ k * d \in Int
    BY <2>1
  <2> QED
    BY <1>1, <1>2, <2>2
<1> QED
  BY <1>1, <1>2, <1>3

\* A window has its place and its size in whole cells.
Whole(w) == w.row \in Int /\ w.col \in Int /\ w.height \in Int /\ w.width \in Int

\* The fields of a window.
LEMMA WindowFacts ==
    ASSUME NEW r, NEW c, NEW h, NEW w
    PROVE  /\ Window(r, c, h, w).row = r /\ Window(r, c, h, w).col = c
           /\ Window(r, c, h, w).height = h /\ Window(r, c, h, w).width = w
BY DEF Window

\* The fields of a window that is moved.
LEMMA MovedFacts ==
    ASSUME NEW r, NEW c, NEW h, NEW w, NEW a, NEW b, NEW m, m = Moved(Window(r, c, h, w), a, b)
    PROVE  m.row = r - a /\ m.col = c - b /\ m.height = h /\ m.width = w
BY DEF Window, Moved

\* A cell of a window.
LEMMA CellsFacts ==
    ASSUME NEW w, Whole(w)
    PROVE  /\ CellsOf(w) \in SUBSET (Int \X Int)
           /\ \A c \in Int \X Int : c \in CellsOf(w) <=>
                /\ w.row <= c[1] /\ c[1] < w.row + w.height
                /\ w.col <= c[2] /\ c[2] < w.col + w.width
<1>1. PICK r, c, h, k \in Int : r = w.row /\ c = w.col /\ h = w.height /\ k = w.width
  BY DEF Whole
<1>2. CellsOf(w) = (r .. r + h - 1) \X (c .. c + k - 1)
  BY <1>1 DEF CellsOf
<1>3. \A x \in Int : x \in r .. r + h - 1 <=> r <= x /\ x < r + h
  OBVIOUS
<1>4. \A x \in Int : x \in c .. c + k - 1 <=> c <= x /\ x < c + k
  OBVIOUS
<1>5. CellsOf(w) \in SUBSET (Int \X Int)
  BY <1>2
<1>6. ASSUME NEW x \in Int \X Int
      PROVE  x \in CellsOf(w) <=> x[1] \in r .. r + h - 1 /\ x[2] \in c .. c + k - 1
  BY <1>2
<1>7. \A x \in Int \X Int : x[1] \in Int /\ x[2] \in Int
  OBVIOUS
<1> QED
  BY <1>1, <1>3, <1>4, <1>5, <1>6, <1>7

\* The overlap of a window with a tile.
LEMMA OverlapFacts ==
    ASSUME NEW w, Whole(w), NEW tile \in Int \X Int, NEW o, o = Overlap(w, tile)
    PROVE  /\ \E a, b, h, k \in Int : o = Window(a, b, h, k)
           /\ Whole(o)
           /\ \A x \in Int \X Int : x \in CellsOf(o) <=>
                /\ x \in CellsOf(w)
                /\ tile[1] = x[1] \div TileSize /\ tile[2] = x[2] \div TileSize
<1>0. TileSize \in Nat \ {0}
  BY StreamAssumption
<1>1. PICK r, c, h, k \in Int : r = w.row /\ c = w.col /\ h = w.height /\ k = w.width
  BY DEF Whole
<1>2. PICK s, t \in Int : s = tile[1] * TileSize /\ t = tile[2] * TileSize
  BY <1>0
<1>3. (tile[1] + 1) * TileSize = s + TileSize /\ (tile[2] + 1) * TileSize = t + TileSize
  BY <1>0, <1>2
<1>4. PICK a, b, y, z \in Int :
        /\ a = (IF r < s THEN s ELSE r) /\ b = (IF c < t THEN t ELSE c)
        /\ y = (IF r + h < s + TileSize THEN r + h ELSE s + TileSize) - a
        /\ z = (IF c + k < t + TileSize THEN c + k ELSE t + TileSize) - b
  BY <1>0
<1>5. o = Window(a, b, y, z)
  BY <1>1, <1>2, <1>3, <1>4 DEF Overlap
<1>6. o.row = a /\ o.col = b /\ o.height = y /\ o.width = z
  BY <1>5, WindowFacts
<1>7. Whole(o)
  BY <1>6 DEF Whole
<1>8. ASSUME NEW x \in Int, NEW e \in Int
      PROVE  /\ a <= x /\ x < a + y <=> (r <= x /\ x < r + h) /\ (s <= x /\ x < s + TileSize)
             /\ b <= e /\ e < b + z <=> (c <= e /\ e < c + k) /\ (t <= e /\ e < t + TileSize)
  BY <1>0, <1>4
<1>9. ASSUME NEW x \in Int \X Int
      PROVE  x \in CellsOf(o) <=>
                /\ x \in CellsOf(w)
                /\ tile[1] = x[1] \div TileSize /\ tile[2] = x[2] \div TileSize
  <2>1. x[1] \in Int /\ x[2] \in Int /\ tile[1] \in Int /\ tile[2] \in Int
    OBVIOUS
  <2>2. /\ (s <= x[1] /\ x[1] < s + TileSize) <=> tile[1] = x[1] \div TileSize
        /\ (t <= x[2] /\ x[2] < t + TileSize) <=> tile[2] = x[2] \div TileSize
    <3>1. PICK d \in Nat \ {0} : d = TileSize
      BY <1>0
    <3>2. PICK x1, x2, t1, t2 \in Int : x1 = x[1] /\ x2 = x[2] /\ t1 = tile[1] /\ t2 = tile[2]
      BY <2>1
    <3>3. s = t1 * d /\ t = t2 * d
      BY <1>2, <3>1, <3>2
    <3>4. ((s <= x1 /\ x1 < s + d) <=> t1 = x1 \div d) /\ ((t <= x2 /\ x2 < t + d) <=> t2 = x2 \div d)
      BY <3>3, RunAt
    <3> QED
      BY <3>1, <3>2, <3>4
  <2>3. x \in CellsOf(o) <=> (a <= x[1] /\ x[1] < a + y) /\ (b <= x[2] /\ x[2] < b + z)
    BY <1>6, <1>7, CellsFacts
  <2>4. x \in CellsOf(w) <=> (r <= x[1] /\ x[1] < r + h) /\ (c <= x[2] /\ x[2] < c + k)
    BY <1>1, CellsFacts
  <2> QED
    BY <1>8, <2>1, <2>2, <2>3, <2>4
<1> QED
  BY <1>5, <1>7, <1>9

\* The tiles that a window touches: those of its cells.
LEMMA TilesOfFacts ==
    ASSUME NEW w, Whole(w)
    PROVE  /\ TilesOf(w) \in SUBSET (Int \X Int)
           /\ \A x \in CellsOf(w) : <<x[1] \div TileSize, x[2] \div TileSize>> \in TilesOf(w)
<1>0. TileSize \in Nat \ {0}
  BY StreamAssumption
<1>1. PICK r, c, h, k \in Int : r = w.row /\ c = w.col /\ h = w.height /\ k = w.width
  BY DEF Whole
<1>2. PICK a, b, y, z \in Int :
        /\ a = r \div TileSize /\ b = (r + h - 1) \div TileSize
        /\ y = c \div TileSize /\ z = (c + k - 1) \div TileSize
  <2>1. r + h - 1 \in Int /\ c + k - 1 \in Int
    OBVIOUS
  <2>2. r \div TileSize \in Int /\ (r + h - 1) \div TileSize \in Int
    BY <1>0, <2>1, RunOf
  <2>3. c \div TileSize \in Int /\ (c + k - 1) \div TileSize \in Int
    BY <1>0, <2>1, RunOf
  <2> QED
    BY <2>2, <2>3
<1>3. TilesOf(w) = (a .. b) \X (y .. z)
  BY <1>1, <1>2 DEF TilesOf
<1>4. ASSUME NEW x \in CellsOf(w)
      PROVE  <<x[1] \div TileSize, x[2] \div TileSize>> \in TilesOf(w)
  <2>1. x[1] \in Int /\ x[2] \in Int
        /\ r <= x[1] /\ x[1] <= r + h - 1 /\ c <= x[2] /\ x[2] <= c + k - 1
    BY <1>1, CellsFacts
  <2>2. PICK u, v \in Int : u = x[1] \div TileSize /\ v = x[2] \div TileSize
    BY <1>0, <2>1
  <2>3. a <= u /\ u <= b
    BY <1>0, <1>2, <2>1, <2>2, RunsAscend
  <2>4. y <= v /\ v <= z
    BY <1>0, <1>2, <2>1, <2>2, RunsAscend
  <2> QED
    BY <1>3, <2>2, <2>3, <2>4
<1> QED
  BY <1>3, <1>4

\* The blocks of a raster: each cell lies in one.
LEMMA BlockFacts ==
    ASSUME NEW place \in [row : Int, col : Int, height : Nat \ {0}, width : Nat \ {0}],
           NEW block \in Nat \ {0}
    PROVE  /\ \A at \in BlockGrid(place, block) :
                /\ \E r, c, h, k \in Int : BlockWindow(place, block, at) = Window(r, c, h, k)
                /\ Whole(BlockWindow(place, block, at))
                /\ \A x \in Int \X Int : x \in CellsOf(BlockWindow(place, block, at)) <=>
                     /\ x \in CellsOf(Window(0, 0, place.height, place.width))
                     /\ at = <<x[1] \div block, x[2] \div block>>
           /\ \A x \in CellsOf(Window(0, 0, place.height, place.width)) :
                <<x[1] \div block, x[2] \div block>> \in BlockGrid(place, block)
<1>1. PICK h, k \in Nat \ {0} : h = place.height /\ k = place.width
  OBVIOUS
<1>2. PICK g : g = Window(0, 0, h, k)
  OBVIOUS
<1>3. g.row = 0 /\ g.col = 0 /\ g.height = h /\ g.width = k
  BY <1>2, WindowFacts
<1>4. Whole(g)
  BY <1>3 DEF Whole
<1>5. CellsOf(g) \in SUBSET (Int \X Int)
      /\ \A x \in Int \X Int : x \in CellsOf(g) <=> (0 <= x[1] /\ x[1] < h) /\ (0 <= x[2] /\ x[2] < k)
  BY <1>3, <1>4, CellsFacts
<1>6. PICK y, z \in Int : y = (h - 1) \div block /\ z = (k - 1) \div block
  OBVIOUS
<1>7. BlockGrid(place, block) = (0 .. y) \X (0 .. z)
  BY <1>1, <1>6 DEF BlockGrid
<1>8. ASSUME NEW x \in CellsOf(g)
      PROVE  <<x[1] \div block, x[2] \div block>> \in BlockGrid(place, block)
  <2>1. x[1] \in Int /\ x[2] \in Int /\ 0 <= x[1] /\ x[1] <= h - 1 /\ 0 <= x[2] /\ x[2] <= k - 1
    BY <1>5
  <2>2. PICK u, v \in Int : u = x[1] \div block /\ v = x[2] \div block
    BY <2>1
  <2>3. 0 \div block = 0
    OBVIOUS
  <2>4. 0 <= u /\ u <= y
    BY <1>6, <2>1, <2>2, <2>3, RunsAscend
  <2>5. 0 <= v /\ v <= z
    BY <1>6, <2>1, <2>2, <2>3, RunsAscend
  <2> QED
    BY <1>7, <2>2, <2>4, <2>5
<1>9. ASSUME NEW at \in BlockGrid(place, block)
      PROVE  /\ \E r, c, a, b \in Int : BlockWindow(place, block, at) = Window(r, c, a, b)
             /\ Whole(BlockWindow(place, block, at))
             /\ \A x \in Int \X Int : x \in CellsOf(BlockWindow(place, block, at)) <=>
                  x \in CellsOf(g) /\ at = <<x[1] \div block, x[2] \div block>>
  <2>1. at \in Int \X Int /\ at[1] >= 0 /\ at[2] >= 0
    BY <1>7
  <2>2. PICK r, c \in Int : r = at[1] * block /\ c = at[2] * block /\ r >= 0 /\ c >= 0
    <3>1. PICK a1, a2 \in Nat : a1 = at[1] /\ a2 = at[2]
      BY <2>1
    <3>2. a1 * block \in Nat /\ a2 * block \in Nat
      OBVIOUS
    <3> QED
      BY <3>1, <3>2
  <2>3. PICK a, b \in Int : /\ a = (IF block < h - r THEN block ELSE h - r)
                            /\ b = (IF block < k - c THEN block ELSE k - c)
    <3>1. block \in Int /\ h - r \in Int /\ k - c \in Int
      BY <2>2
    <3>2. PICK u, v \in Int : u = h - r /\ v = k - c
      BY <3>1
    <3>3. (IF block < u THEN block ELSE u) \in Int /\ (IF block < v THEN block ELSE v) \in Int
      BY <3>1
    <3> QED
      BY <3>2, <3>3
  <2>4. PICK w : w = BlockWindow(place, block, at)
    OBVIOUS
  <2>5. w = Window(r, c, a, b)
    BY <1>1, <2>2, <2>3, <2>4 DEF BlockWindow
  <2>6. w.row = r /\ w.col = c /\ w.height = a /\ w.width = b
    BY <2>5, WindowFacts
  <2>7. Whole(w)
    BY <2>6 DEF Whole
  <2>8. ASSUME NEW x \in Int \X Int
        PROVE  x \in CellsOf(w) <=> x \in CellsOf(g) /\ at = <<x[1] \div block, x[2] \div block>>
    <3>1. x[1] \in Int /\ x[2] \in Int /\ at[1] \in Int /\ at[2] \in Int
      BY <2>1
    <3>2. /\ (r <= x[1] /\ x[1] < r + block) <=> at[1] = x[1] \div block
          /\ (c <= x[2] /\ x[2] < c + block) <=> at[2] = x[2] \div block
      <4>1. PICK x1, x2, t1, t2 \in Int : x1 = x[1] /\ x2 = x[2] /\ t1 = at[1] /\ t2 = at[2]
        BY <3>1
      <4>2. r = t1 * block /\ c = t2 * block
        BY <2>2, <4>1
      <4>3. /\ (r <= x1 /\ x1 < r + block) <=> t1 = x1 \div block
            /\ (c <= x2 /\ x2 < c + block) <=> t2 = x2 \div block
        BY <4>2, RunAt
      <4> QED
        BY <4>1, <4>3
    <3>3. x \in CellsOf(w) <=> (r <= x[1] /\ x[1] < r + a) /\ (c <= x[2] /\ x[2] < c + b)
      BY <2>6, <2>7, CellsFacts
    <3>4. x \in CellsOf(g) <=> (0 <= x[1] /\ x[1] < h) /\ (0 <= x[2] /\ x[2] < k)
      BY <1>5
    <3>5. /\ (r <= x[1] /\ x[1] < r + a) <=>
                (0 <= x[1] /\ x[1] < h) /\ (r <= x[1] /\ x[1] < r + block)
          /\ (c <= x[2] /\ x[2] < c + b) <=>
                (0 <= x[2] /\ x[2] < k) /\ (c <= x[2] /\ x[2] < c + block)
      BY <2>2, <2>3, <3>1
    <3>6. at = <<x[1] \div block, x[2] \div block>>
            <=> at[1] = x[1] \div block /\ at[2] = x[2] \div block
      BY <2>1
    <3> QED
      BY <3>2, <3>3, <3>4, <3>5, <3>6
  <2> QED
    BY <2>4, <2>5, <2>7, <2>8
<1> QED
  BY <1>1, <1>2, <1>8, <1>9

-----------------------------------------------------------------------------
(* The schedule of a HUC. *)

\* The parts of schedule_tiles, as ScheduleTiles defines them.
SpanAt(plans, block, i, at) ==
    Moved(BlockWindow(plans[i].place, block, at), -plans[i].place.row, -plans[i].place.col)
SpansOf(block, plans) ==
    UNION {{<<i, SpanAt(plans, block, i, at)>> : at \in plans[i].blocks} : i \in DOMAIN plans}
PartOf(plans, s, tile) ==
    [plan |-> s[1],
     from |-> Moved(Overlap(s[2], tile), plans[s[1]].place.row, plans[s[1]].place.col),
     to |-> Moved(Overlap(s[2], tile), tile[1] * TileSize, tile[2] * TileSize)]

\* The definition, with its parts named.
LEMMA ScheduleForm ==
    ASSUME NEW block, NEW plans
    PROVE  ScheduleTiles(block, plans) =
             [tile \in UNION {TilesOf(s[2]) : s \in SpansOf(block, plans)} |->
                {PartOf(plans, s, tile) : s \in {x \in SpansOf(block, plans) : tile \in TilesOf(x[2])}}]
BY DEF ScheduleTiles, SpansOf, SpanAt, PartOf

\* Each part is the piece of a block's window on a tile.
LEMMA ScheduleFacts ==
    ASSUME NEW block, NEW plans, NEW sched, sched = ScheduleTiles(block, plans)
    PROVE  /\ \A tile \in DOMAIN sched : sched[tile] # {}
           /\ \A tile \in DOMAIN sched : \A y \in sched[tile] :
                \E i \in DOMAIN plans : \E at \in plans[i].blocks :
                  /\ tile \in TilesOf(SpanAt(plans, block, i, at))
                  /\ y = PartOf(plans, <<i, SpanAt(plans, block, i, at)>>, tile)
           /\ \A i \in DOMAIN plans : \A at \in plans[i].blocks :
                \A tile \in TilesOf(SpanAt(plans, block, i, at)) :
                  /\ tile \in DOMAIN sched
                  /\ PartOf(plans, <<i, SpanAt(plans, block, i, at)>>, tile) \in sched[tile]
<1>1. PICK S : S = SpansOf(block, plans)
  OBVIOUS
<1>2. \A s : s \in S <=> \E i \in DOMAIN plans : \E at \in plans[i].blocks :
                           s = <<i, SpanAt(plans, block, i, at)>>
  BY <1>1 DEF SpansOf
<1>3. /\ DOMAIN sched = UNION {TilesOf(s[2]) : s \in S}
      /\ \A tile \in DOMAIN sched :
           sched[tile] = {PartOf(plans, s, tile) : s \in {x \in S : tile \in TilesOf(x[2])}}
  BY <1>1, ScheduleForm
<1>4. \A i, w : <<i, w>>[1] = i /\ <<i, w>>[2] = w
  OBVIOUS
<1>5. \A tile \in DOMAIN sched : \A y : y \in sched[tile] <=>
        \E s \in S : tile \in TilesOf(s[2]) /\ y = PartOf(plans, s, tile)
  BY <1>3
<1>6. \A tile : tile \in DOMAIN sched <=> \E s \in S : tile \in TilesOf(s[2])
  BY <1>3
<1>7. ASSUME NEW tile \in DOMAIN sched, NEW y \in sched[tile]
      PROVE  \E i \in DOMAIN plans : \E at \in plans[i].blocks :
                  /\ tile \in TilesOf(SpanAt(plans, block, i, at))
                  /\ y = PartOf(plans, <<i, SpanAt(plans, block, i, at)>>, tile)
  <2>1. PICK s \in S : tile \in TilesOf(s[2]) /\ y = PartOf(plans, s, tile)
    BY <1>5
  <2>2. PICK i \in DOMAIN plans : \E at \in plans[i].blocks : s = <<i, SpanAt(plans, block, i, at)>>
    BY <1>2
  <2>3. PICK at \in plans[i].blocks : s = <<i, SpanAt(plans, block, i, at)>>
    BY <2>2
  <2> QED
    BY <1>4, <2>1, <2>3
<1>8. ASSUME NEW i \in DOMAIN plans, NEW at \in plans[i].blocks,
             NEW tile \in TilesOf(SpanAt(plans, block, i, at))
      PROVE  /\ tile \in DOMAIN sched
             /\ PartOf(plans, <<i, SpanAt(plans, block, i, at)>>, tile) \in sched[tile]
  <2>1. PICK s : s = <<i, SpanAt(plans, block, i, at)>> /\ s[2] = SpanAt(plans, block, i, at)
    BY <1>4
  <2>2. s \in S /\ tile \in TilesOf(s[2])
    BY <1>2, <2>1
  <2> QED
    BY <1>5, <1>6, <2>1, <2>2
<1>9. \A tile \in DOMAIN sched : sched[tile] # {}
  BY <1>5, <1>6
<1> QED
  BY <1>7, <1>8, <1>9

\* The plans have their blocks inside their rasters, and these inside the HUC's grid.
PlansFit(plans, block, height, width) ==
    /\ block \in Nat \ {0} /\ height \in Nat \ {0} /\ width \in Nat \ {0}
    /\ \A i \in DOMAIN plans :
         /\ plans[i].place \in [row : Int, col : Int, height : Nat \ {0}, width : Nat \ {0}]
         /\ plans[i].blocks \in SUBSET BlockGrid(plans[i].place, block)
         /\ plans[i].place.row >= 0 /\ plans[i].place.row + plans[i].place.height <= height
         /\ plans[i].place.col >= 0 /\ plans[i].place.col + plans[i].place.width <= width

\* The window of a block on the grid is that on the raster, moved to its place.
LEMMA SpanAtFacts ==
    ASSUME NEW plans, NEW block, NEW height, NEW width, PlansFit(plans, block, height, width),
           NEW i \in DOMAIN plans, NEW at \in plans[i].blocks,
           NEW span, span = SpanAt(plans, block, i, at)
    PROVE  /\ Whole(span)
           /\ \A x \in Int \X Int :
                <<x[1] + plans[i].place.row, x[2] + plans[i].place.col>> \in CellsOf(span)
                  <=> x \in CellsOf(BlockWindow(plans[i].place, block, at))
<1>1. PICK place : place = plans[i].place
  OBVIOUS
<1>2. /\ place \in [row : Int, col : Int, height : Nat \ {0}, width : Nat \ {0}]
      /\ at \in BlockGrid(place, block) /\ block \in Nat \ {0}
  BY <1>1 DEF PlansFit
<1>3. PICK w : w = BlockWindow(place, block, at)
  OBVIOUS
<1>4. Whole(w) /\ \E r, c, h, k \in Int : w = Window(r, c, h, k)
  <2>1. \A a \in BlockGrid(place, block) :
          /\ \E r, c, h, k \in Int : BlockWindow(place, block, a) = Window(r, c, h, k)
          /\ Whole(BlockWindow(place, block, a))
    BY <1>2, BlockFacts
  <2> QED
    BY <1>2, <1>3, <2>1
<1>5. PICK r, c, h, k \in Int : w = Window(r, c, h, k)
  BY <1>4
<1>6. w.row = r /\ w.col = c /\ w.height = h /\ w.width = k
  BY <1>5, WindowFacts
<1>7. PICK pr, pc \in Int : pr = place.row /\ pc = place.col
  BY <1>2
<1>8. span = Moved(Window(r, c, h, k), -pr, -pc)
  BY <1>1, <1>3, <1>5, <1>7 DEF SpanAt
<1>9. PICK ur, uc \in Int : ur = -pr /\ uc = -pc
  OBVIOUS
<1>10. span.row = r - ur /\ span.col = c - uc /\ span.height = h /\ span.width = k
  BY <1>8, <1>9, MovedFacts
<1>11. span.row = r + pr /\ span.col = c + pc /\ Whole(span)
  BY <1>9, <1>10 DEF Whole
<1>12. ASSUME NEW x \in Int \X Int
       PROVE  <<x[1] + pr, x[2] + pc>> \in CellsOf(span) <=> x \in CellsOf(w)
  <2>1. PICK x1, x2 \in Int : x1 = x[1] /\ x2 = x[2]
    OBVIOUS
  <2>2. PICK y \in Int \X Int : y = <<x1 + pr, x2 + pc>> /\ y[1] = x1 + pr /\ y[2] = x2 + pc
    <3>1. <<x1 + pr, x2 + pc>> \in Int \X Int
      OBVIOUS
    <3>2. <<x1 + pr, x2 + pc>>[1] = x1 + pr /\ <<x1 + pr, x2 + pc>>[2] = x2 + pc
      OBVIOUS
    <3> QED
      BY <3>1, <3>2
  <2>3. y \in CellsOf(span) <=> /\ r + pr <= y[1] /\ y[1] < r + pr + h
                                /\ c + pc <= y[2] /\ y[2] < c + pc + k
    BY <1>10, <1>11, CellsFacts
  <2>4. x \in CellsOf(w) <=> r <= x1 /\ x1 < r + h /\ c <= x2 /\ x2 < c + k
    BY <1>4, <1>6, <2>1, CellsFacts
  <2>5. y \in CellsOf(span) <=> x \in CellsOf(w)
    BY <2>2, <2>3, <2>4
  <2> QED
    BY <2>1, <2>2, <2>5
<1> QED
  BY <1>1, <1>3, <1>7, <1>11, <1>12

\* Where a part reads a cell of its output window.
ReadAt(p, cell) == <<cell[1] - p.to.row + p.from.row, cell[2] - p.to.col + p.from.col>>

\* A part of plan i on a tile holds the cells of one block that lie on the tile.
PartOk(y, plans, block, i, at, tile) ==
    /\ y.plan = i /\ Whole(y.from) /\ Whole(y.to)
    /\ y.to.row + tile[1] * TileSize = y.from.row + plans[i].place.row
    /\ y.to.col + tile[2] * TileSize = y.from.col + plans[i].place.col
    /\ \A x \in Int \X Int : x \in CellsOf(y.from) <=>
         /\ x \in CellsOf(BlockWindow(plans[i].place, block, at))
         /\ tile[1] = (x[1] + plans[i].place.row) \div TileSize
         /\ tile[2] = (x[2] + plans[i].place.col) \div TileSize
    /\ \A z \in Int \X Int : ReadAt(y, z) \in Int \X Int
                               /\ (z \in CellsOf(y.to) <=> ReadAt(y, z) \in CellsOf(y.from))

\* The piece of a block's window on a tile is such a part.
LEMMA PartFacts ==
    ASSUME NEW plans, NEW block, NEW height, NEW width, PlansFit(plans, block, height, width),
           NEW i \in DOMAIN plans, NEW at \in plans[i].blocks,
           NEW span, span = SpanAt(plans, block, i, at), NEW tile \in Int \X Int,
           NEW y, y = PartOf(plans, <<i, span>>, tile)
    PROVE  PartOk(y, plans, block, i, at, tile)
<1>0. TileSize \in Nat \ {0}
  BY StreamAssumption
<1>1. PICK pr, pc \in Int : pr = plans[i].place.row /\ pc = plans[i].place.col
  BY DEF PlansFit
<1>2. PICK o : o = Overlap(span, tile)
  OBVIOUS
<1>3. Whole(span)
  BY SpanAtFacts
<1>4. \E a, b, h, k \in Int : o = Window(a, b, h, k)
  BY <1>2, <1>3, OverlapFacts
<1>5. PICK a, b, h, k \in Int : o = Window(a, b, h, k)
  BY <1>4
<1>6. Whole(o) /\ o.row = a /\ o.col = b /\ o.height = h /\ o.width = k
  BY <1>5, WindowFacts DEF Whole
<1>7. PICK tr, tc \in Int : tr = tile[1] * TileSize /\ tc = tile[2] * TileSize
  BY <1>0
<1>8. PICK from, to : from = Moved(Window(a, b, h, k), pr, pc) /\ to = Moved(Window(a, b, h, k), tr, tc)
  OBVIOUS
<1>9. y = [plan |-> i, from |-> from, to |-> to]
  <2>1. PICK s : s = <<i, span>> /\ s[1] = i /\ s[2] = span
    <3>1. <<i, span>>[1] = i /\ <<i, span>>[2] = span
      OBVIOUS
    <3> QED
      BY <3>1
  <2>2. y = [plan |-> s[1],
     from |-> Moved(Overlap(s[2], tile), plans[s[1]].place.row, plans[s[1]].place.col),
     to |-> Moved(Overlap(s[2], tile), tile[1] * TileSize, tile[2] * TileSize)]
    BY <2>1 DEF PartOf
  <2>3. from = Moved(Overlap(s[2], tile), plans[s[1]].place.row, plans[s[1]].place.col)
    BY <1>1, <1>2, <1>5, <1>8, <2>1
  <2>4. to = Moved(Overlap(s[2], tile), tile[1] * TileSize, tile[2] * TileSize)
    BY <1>2, <1>5, <1>7, <1>8, <2>1
  <2> QED
    BY <2>1, <2>2, <2>3, <2>4
<1>10. y.plan = i /\ y.from = from /\ y.to = to
  BY <1>9
<1>11. /\ from.row = a - pr /\ from.col = b - pc /\ from.height = h /\ from.width = k
       /\ to.row = a - tr /\ to.col = b - tc /\ to.height = h /\ to.width = k
  BY <1>8, MovedFacts
<1>12. Whole(from) /\ Whole(to)
  BY <1>11 DEF Whole
<1>13. ASSUME NEW x \in Int \X Int
       PROVE  x \in CellsOf(from) <=>
         /\ x \in CellsOf(BlockWindow(plans[i].place, block, at))
         /\ tile[1] = (x[1] + pr) \div TileSize /\ tile[2] = (x[2] + pc) \div TileSize
  <2>1. PICK x1, x2 \in Int : x1 = x[1] /\ x2 = x[2]
    OBVIOUS
  <2>2. PICK c \in Int \X Int : c = <<x1 + pr, x2 + pc>> /\ c[1] = x1 + pr /\ c[2] = x2 + pc
    <3>1. <<x1 + pr, x2 + pc>> \in Int \X Int
      OBVIOUS
    <3>2. <<x1 + pr, x2 + pc>>[1] = x1 + pr /\ <<x1 + pr, x2 + pc>>[2] = x2 + pc
      OBVIOUS
    <3> QED
      BY <3>1, <3>2
  <2>3. c \in CellsOf(o) <=> c \in CellsOf(span) /\ tile[1] = c[1] \div TileSize /\ tile[2] = c[2] \div TileSize
    BY <1>2, <1>3, OverlapFacts
  <2>4. c \in CellsOf(span) <=> x \in CellsOf(BlockWindow(plans[i].place, block, at))
    BY <1>1, <2>1, <2>2, SpanAtFacts
  <2>5. c \in CellsOf(o) <=> a <= c[1] /\ c[1] < a + h /\ b <= c[2] /\ c[2] < b + k
    BY <1>6, CellsFacts
  <2>6. x \in CellsOf(from) <=> /\ a - pr <= x1 /\ x1 < a - pr + h
                                /\ b - pc <= x2 /\ x2 < b - pc + k
    BY <1>11, <1>12, <2>1, CellsFacts
  <2>7. x \in CellsOf(from) <=> c \in CellsOf(o)
    BY <2>2, <2>5, <2>6
  <2> QED
    BY <2>1, <2>2, <2>3, <2>4, <2>7
<1>14. ASSUME NEW z \in Int \X Int
       PROVE  ReadAt(y, z) \in Int \X Int /\ (z \in CellsOf(to) <=> ReadAt(y, z) \in CellsOf(from))
  <2>1. PICK z1, z2 \in Int : z1 = z[1] /\ z2 = z[2]
    OBVIOUS
  <2>2. PICK c1, c2 \in Int : c1 = z1 - (a - tr) + (a - pr) /\ c2 = z2 - (b - tc) + (b - pc)
    OBVIOUS
  <2>3. ReadAt(y, z) = <<c1, c2>>
    BY <1>10, <1>11, <2>1, <2>2 DEF ReadAt
  <2>4. PICK c \in Int \X Int : c = <<c1, c2>> /\ c[1] = c1 /\ c[2] = c2
    <3>1. <<c1, c2>> \in Int \X Int /\ <<c1, c2>>[1] = c1 /\ <<c1, c2>>[2] = c2
      OBVIOUS
    <3> QED
      BY <3>1
  <2>5. c \in CellsOf(from) <=> /\ a - pr <= c1 /\ c1 < a - pr + h
                                /\ b - pc <= c2 /\ c2 < b - pc + k
    BY <1>11, <1>12, <2>4, CellsFacts
  <2>6. z \in CellsOf(to) <=> /\ a - tr <= z1 /\ z1 < a - tr + h
                              /\ b - tc <= z2 /\ z2 < b - tc + k
    BY <1>11, <1>12, <2>1, CellsFacts
  <2>7. c \in CellsOf(from) <=> z \in CellsOf(to)
    BY <2>2, <2>5, <2>6
  <2> QED
    BY <2>3, <2>4, <2>7
<1>15. to.row + tr = from.row + pr /\ to.col + tc = from.col + pc
  BY <1>11
<1> QED
  BY <1>1, <1>7, <1>10, <1>12, <1>13, <1>14, <1>15 DEF PartOk

\* Every scheduled part is one of those.
LEMMA PartsOk ==
    ASSUME NEW plans, NEW block, NEW height, NEW width, PlansFit(plans, block, height, width),
           NEW sched, sched = ScheduleTiles(block, plans),
           NEW tile \in DOMAIN sched
    PROVE  /\ tile \in Int \X Int
           /\ \A y \in sched[tile] : \E i \in DOMAIN plans : \E at \in plans[i].blocks :
                /\ PartOk(y, plans, block, i, at, tile)
                /\ y = PartOf(plans, <<i, SpanAt(plans, block, i, at)>>, tile)
<1>1. \A y \in sched[tile] : \E i \in DOMAIN plans : \E at \in plans[i].blocks :
                  /\ tile \in TilesOf(SpanAt(plans, block, i, at))
                  /\ y = PartOf(plans, <<i, SpanAt(plans, block, i, at)>>, tile)
  BY ScheduleFacts
<1>2. ASSUME NEW i \in DOMAIN plans, NEW at \in plans[i].blocks,
             tile \in TilesOf(SpanAt(plans, block, i, at))
      PROVE  tile \in Int \X Int
  <2>1. PICK span : span = SpanAt(plans, block, i, at)
    OBVIOUS
  <2>2. Whole(span)
    BY <2>1, SpanAtFacts
  <2> QED
    BY <1>2, <2>1, <2>2, TilesOfFacts
<1>3. tile \in Int \X Int
  <2>1. PICK y \in sched[tile] : TRUE
    BY ScheduleFacts
  <2> QED
    BY <1>1, <1>2, <2>1
<1>4. ASSUME NEW y \in sched[tile]
      PROVE  \E i \in DOMAIN plans : \E at \in plans[i].blocks :
                /\ PartOk(y, plans, block, i, at, tile)
                /\ y = PartOf(plans, <<i, SpanAt(plans, block, i, at)>>, tile)
  <2>1. PICK i \in DOMAIN plans : \E at \in plans[i].blocks :
          y = PartOf(plans, <<i, SpanAt(plans, block, i, at)>>, tile)
    BY <1>1
  <2>2. PICK at \in plans[i].blocks : y = PartOf(plans, <<i, SpanAt(plans, block, i, at)>>, tile)
    BY <2>1
  <2>3. PICK span : span = SpanAt(plans, block, i, at)
    OBVIOUS
  <2>4. PartOk(y, plans, block, i, at, tile)
    BY <1>3, <2>2, <2>3, PartFacts
  <2> QED
    BY <2>2, <2>4
<1> QED
  BY <1>3, <1>4

\* A pair of whole numbers.
LEMMA PairFacts ==
    ASSUME NEW a \in Int, NEW b \in Int
    PROVE  /\ <<a, b>> \in Int \X Int /\ <<a, b>>[1] = a /\ <<a, b>>[2] = b
           /\ \A x \in Int \X Int : x[1] = a /\ x[2] = b => x = <<a, b>>
OBVIOUS

\* The tile under a cell of a raster.
TileUnder(place, x) == <<(x[1] + place.row) \div TileSize, (x[2] + place.col) \div TileSize>>

\* Each cell of a needed block has a part.
LEMMA CellHasPart ==
    ASSUME NEW plans, NEW block, NEW height, NEW width, PlansFit(plans, block, height, width),
           NEW sched, sched = ScheduleTiles(block, plans),
           NEW i \in DOMAIN plans, NEW at \in plans[i].blocks,
           NEW x \in CellsOf(BlockWindow(plans[i].place, block, at)),
           NEW tile, tile = TileUnder(plans[i].place, x),
           NEW y, y = PartOf(plans, <<i, SpanAt(plans, block, i, at)>>, tile)
    PROVE  /\ tile \in DOMAIN sched /\ y \in sched[tile] /\ x \in CellsOf(y.from)
           /\ PartOk(y, plans, block, i, at, tile)
<1>0. TileSize \in Nat \ {0}
  BY StreamAssumption
<1>1. PICK place : place = plans[i].place
  OBVIOUS
<1>2. /\ place \in [row : Int, col : Int, height : Nat \ {0}, width : Nat \ {0}]
      /\ at \in BlockGrid(place, block) /\ block \in Nat \ {0}
  BY <1>1 DEF PlansFit
<1>3. Whole(BlockWindow(place, block, at))
  <2>1. \A a \in BlockGrid(place, block) : Whole(BlockWindow(place, block, a))
    BY <1>2, BlockFacts
  <2> QED
    BY <1>2, <2>1
<1>4. PICK w : w = BlockWindow(place, block, at)
  OBVIOUS
<1>5. x \in Int \X Int
  BY <1>1, <1>3, <1>4, CellsFacts
<1>6. PICK a, b \in Int : a = x[1] + place.row /\ b = x[2] + place.col
  BY <1>2, <1>5
<1>7. a \div TileSize \in Int /\ b \div TileSize \in Int
  BY <1>0, <1>6, RunOf
<1>8. PICK u, v \in Int : u = a \div TileSize /\ v = b \div TileSize
  BY <1>7
<1>9. tile = <<u, v>> /\ tile \in Int \X Int /\ tile[1] = u /\ tile[2] = v
  BY <1>1, <1>6, <1>8, PairFacts DEF TileUnder
<1>10. PICK span : span = SpanAt(plans, block, i, at)
  OBVIOUS
<1>11. PICK g \in Int \X Int : g = <<a, b>> /\ g[1] = a /\ g[2] = b
  <2>1. <<a, b>> \in Int \X Int /\ <<a, b>>[1] = a /\ <<a, b>>[2] = b
    BY PairFacts
  <2> QED
    BY <2>1
<1>12. Whole(span) /\ g \in CellsOf(span)
  BY <1>1, <1>5, <1>6, <1>10, <1>11, SpanAtFacts
<1>13. tile \in TilesOf(span)
  <2>1. <<g[1] \div TileSize, g[2] \div TileSize>> \in TilesOf(span)
    BY <1>12, TilesOfFacts
  <2> QED
    BY <1>8, <1>9, <1>11, <2>1
<1>14. PartOk(y, plans, block, i, at, tile)
  BY <1>9, <1>10, PartFacts
<1>15. tile \in DOMAIN sched /\ y \in sched[tile]
  BY <1>10, <1>13, ScheduleFacts
<1>16. x \in CellsOf(y.from)
  BY <1>1, <1>5, <1>6, <1>8, <1>9, <1>14 DEF PartOk
<1> QED
  BY <1>14, <1>15, <1>16

\* The cells of the needed blocks of a plan.
NeedOf(plans, block, i) ==
    UNION {CellsOf(BlockWindow(plans[i].place, block, at)) : at \in plans[i].blocks}

\* A cell lies in one block only.
LEMMA NeedFacts ==
    ASSUME NEW plans, NEW block, NEW height, NEW width, PlansFit(plans, block, height, width),
           NEW i \in DOMAIN plans, NEW x \in NeedOf(plans, block, i)
    PROVE  /\ x \in Int \X Int
           /\ x \in CellsOf(Window(0, 0, plans[i].place.height, plans[i].place.width))
           /\ <<x[1] \div block, x[2] \div block>> \in plans[i].blocks
           /\ \A at \in plans[i].blocks : x \in CellsOf(BlockWindow(plans[i].place, block, at))
                <=> at = <<x[1] \div block, x[2] \div block>>
<1>1. PICK place : place = plans[i].place
  OBVIOUS
<1>2. /\ place \in [row : Int, col : Int, height : Nat \ {0}, width : Nat \ {0}]
      /\ plans[i].blocks \in SUBSET BlockGrid(place, block) /\ block \in Nat \ {0}
  BY <1>1 DEF PlansFit
<1>3. \A a \in BlockGrid(place, block) :
        /\ Whole(BlockWindow(place, block, a))
        /\ \A c \in Int \X Int : c \in CellsOf(BlockWindow(place, block, a)) <=>
             /\ c \in CellsOf(Window(0, 0, place.height, place.width))
             /\ a = <<c[1] \div block, c[2] \div block>>
  BY <1>2, BlockFacts
<1>4. PICK at \in plans[i].blocks : x \in CellsOf(BlockWindow(place, block, at))
  BY <1>1 DEF NeedOf
<1>5. x \in Int \X Int
  <2>1. PICK w : w = BlockWindow(place, block, at)
    OBVIOUS
  <2>2. Whole(w)
    BY <1>2, <1>3, <2>1
  <2> QED
    BY <1>4, <2>1, <2>2, CellsFacts
<1>6. /\ x \in CellsOf(Window(0, 0, place.height, place.width))
      /\ at = <<x[1] \div block, x[2] \div block>>
  BY <1>2, <1>3, <1>4, <1>5
<1>7. \A a \in plans[i].blocks : x \in CellsOf(BlockWindow(place, block, a))
                <=> a = <<x[1] \div block, x[2] \div block>>
  BY <1>2, <1>3, <1>5, <1>6
<1> QED
  BY <1>1, <1>5, <1>6, <1>7

\* The parts of a plan, with their tiles.
PartsOf(sched, i) == {y \in UNION {{t} \X sched[t] : t \in DOMAIN sched} : y[2].plan = i}

\* schedule_tiles cuts the needed cells exactly.
LEMMA CutFacts ==
    ASSUME NEW plans, NEW block, NEW height, NEW width, PlansFit(plans, block, height, width),
           NEW sched, sched = ScheduleTiles(block, plans), NEW i \in DOMAIN plans
    PROVE  /\ \A x \in NeedOf(plans, block, i) :
                Cardinality({y \in PartsOf(sched, i) : x \in CellsOf(y[2].from)}) = 1
           /\ \A y \in PartsOf(sched, i) :
                /\ y[1] \in DOMAIN sched /\ y[2] \in sched[y[1]]
                /\ \E at \in plans[i].blocks : PartOk(y[2], plans, block, i, at, y[1])
                /\ CellsOf(y[2].from) \in SUBSET NeedOf(plans, block, i)
<1>1. \A y : y \in PartsOf(sched, i) <=>
        \E t \in DOMAIN sched : \E p \in sched[t] : y = <<t, p>> /\ p.plan = i
  <2>1. \A y : y \in UNION {{t} \X sched[t] : t \in DOMAIN sched}
                 <=> \E t \in DOMAIN sched : \E p \in sched[t] : y = <<t, p>>
    OBVIOUS
  <2>2. \A t, p : <<t, p>>[2] = p
    OBVIOUS
  <2> QED
    BY <2>1, <2>2 DEF PartsOf
<1>2. \A t, p : <<t, p>>[1] = t /\ <<t, p>>[2] = p
  OBVIOUS
<1>3. ASSUME NEW t \in DOMAIN sched, NEW p \in sched[t], p.plan = i
      PROVE  \E at \in plans[i].blocks :
               /\ PartOk(p, plans, block, i, at, t)
               /\ p = PartOf(plans, <<i, SpanAt(plans, block, i, at)>>, t)
  <2>1. PICK j \in DOMAIN plans : \E at \in plans[j].blocks :
                /\ PartOk(p, plans, block, j, at, t)
                /\ p = PartOf(plans, <<j, SpanAt(plans, block, j, at)>>, t)
    BY PartsOk
  <2>2. PICK at \in plans[j].blocks :
                /\ PartOk(p, plans, block, j, at, t)
                /\ p = PartOf(plans, <<j, SpanAt(plans, block, j, at)>>, t)
    BY <2>1
  <2>3. j = i
    BY <1>3, <2>2 DEF PartOk
  <2> QED
    BY <2>2, <2>3
<1>4. ASSUME NEW t \in DOMAIN sched, NEW p \in sched[t], NEW at \in plans[i].blocks,
             PartOk(p, plans, block, i, at, t), NEW x \in CellsOf(p.from)
      PROVE  /\ x \in Int \X Int /\ x \in CellsOf(BlockWindow(plans[i].place, block, at))
             /\ x \in NeedOf(plans, block, i)
             /\ t[1] = (x[1] + plans[i].place.row) \div TileSize
             /\ t[2] = (x[2] + plans[i].place.col) \div TileSize
  <2>1. PICK from : from = p.from /\ Whole(from)
    BY <1>4 DEF PartOk
  <2>2. x \in Int \X Int
    BY <2>1, CellsFacts
  <2>3. /\ x \in CellsOf(BlockWindow(plans[i].place, block, at))
        /\ t[1] = (x[1] + plans[i].place.row) \div TileSize
        /\ t[2] = (x[2] + plans[i].place.col) \div TileSize
    BY <1>4, <2>2 DEF PartOk
  <2> QED
    BY <2>2, <2>3 DEF NeedOf
<1>5. ASSUME NEW x \in NeedOf(plans, block, i)
      PROVE  Cardinality({y \in PartsOf(sched, i) : x \in CellsOf(y[2].from)}) = 1
  <2>1. PICK at : at = <<x[1] \div block, x[2] \div block>>
    OBVIOUS
  <2>2. /\ at \in plans[i].blocks
        /\ \A a \in plans[i].blocks :
             x \in CellsOf(BlockWindow(plans[i].place, block, a)) <=> a = at
    BY <2>1, NeedFacts
  <2>3. PICK tile, p : tile = TileUnder(plans[i].place, x)
                    /\ p = PartOf(plans, <<i, SpanAt(plans, block, i, at)>>, tile)
    OBVIOUS
  <2>4. /\ tile \in DOMAIN sched /\ p \in sched[tile] /\ x \in CellsOf(p.from)
        /\ PartOk(p, plans, block, i, at, tile)
    BY <2>2, <2>3, CellHasPart
  <2>5. p.plan = i
    BY <2>4 DEF PartOk
  <2>6. PICK one : one = <<tile, p>>
    OBVIOUS
  <2>7. one \in PartsOf(sched, i) /\ x \in CellsOf(one[2].from)
    BY <1>1, <1>2, <2>4, <2>5, <2>6
  <2>8. ASSUME NEW y \in PartsOf(sched, i), x \in CellsOf(y[2].from) PROVE y = one
    <3>1. PICK t \in DOMAIN sched : \E q \in sched[t] : y = <<t, q>> /\ q.plan = i
      BY <1>1
    <3>2. PICK q \in sched[t] : y = <<t, q>> /\ q.plan = i
      BY <3>1
    <3>3. y[2] = q
      BY <1>2, <3>2
    <3>4. PICK a \in plans[i].blocks :
               /\ PartOk(q, plans, block, i, a, t)
               /\ q = PartOf(plans, <<i, SpanAt(plans, block, i, a)>>, t)
      BY <1>3, <3>2
    <3>5. /\ x \in CellsOf(BlockWindow(plans[i].place, block, a))
          /\ t[1] = (x[1] + plans[i].place.row) \div TileSize
          /\ t[2] = (x[2] + plans[i].place.col) \div TileSize
      BY <1>4, <2>8, <3>3, <3>4
    <3>6. a = at
      BY <2>2, <3>5
    <3>7. t = tile
      <4>1. t \in Int \X Int
        BY PartsOk
      <4>2. t = <<t[1], t[2]>>
        BY <4>1
      <4> QED
        BY <2>3, <3>5, <4>2 DEF TileUnder
    <3> QED
      BY <2>3, <2>6, <3>2, <3>4, <3>6, <3>7
  <2>9. {y \in PartsOf(sched, i) : x \in CellsOf(y[2].from)} = {one}
    BY <2>7, <2>8
  <2> QED
    BY <2>9, FS_Singleton
<1>6. ASSUME NEW y \in PartsOf(sched, i)
      PROVE  /\ y[1] \in DOMAIN sched /\ y[2] \in sched[y[1]]
             /\ \E at \in plans[i].blocks : PartOk(y[2], plans, block, i, at, y[1])
             /\ CellsOf(y[2].from) \in SUBSET NeedOf(plans, block, i)
  <2>1. PICK t \in DOMAIN sched : \E q \in sched[t] : y = <<t, q>> /\ q.plan = i
    BY <1>1
  <2>2. PICK q \in sched[t] : y = <<t, q>> /\ q.plan = i
    BY <2>1
  <2>3. y[1] = t /\ y[2] = q
    BY <1>2, <2>2
  <2>4. PICK at \in plans[i].blocks : PartOk(q, plans, block, i, at, t)
    BY <1>3, <2>2
  <2>5. CellsOf(q.from) \in SUBSET NeedOf(plans, block, i)
    BY <1>4, <2>4
  <2> QED
    BY <2>3, <2>4, <2>5
<1> QED
  BY <1>5, <1>6

\* A part stays inside its tile, clipped to the HUC's grid.
LEMMA PartInside ==
    ASSUME NEW plans, NEW block, NEW height, NEW width, PlansFit(plans, block, height, width),
           NEW i \in DOMAIN plans, NEW at \in plans[i].blocks, NEW tile \in Int \X Int,
           NEW y, PartOk(y, plans, block, i, at, tile),
           NEW a \in Int, a = height - tile[1] * TileSize,
           NEW b \in Int, b = width - tile[2] * TileSize,
           NEW shape, shape = Window(0, 0, IF TileSize < a THEN TileSize ELSE a,
                                           IF TileSize < b THEN TileSize ELSE b)
    PROVE  /\ Whole(shape)
           /\ CellsOf(y.to) \in SUBSET CellsOf(shape) /\ CellsOf(y.to) \in SUBSET (Int \X Int)
<1>0. TileSize \in Nat \ {0}
  BY StreamAssumption
<1>1. PICK place : place = plans[i].place
  OBVIOUS
<1>2. /\ place \in [row : Int, col : Int, height : Nat \ {0}, width : Nat \ {0}]
      /\ place.row >= 0 /\ place.row + place.height <= height /\ height \in Int
      /\ place.col >= 0 /\ place.col + place.width <= width /\ width \in Int
      /\ block \in Nat \ {0} /\ at \in BlockGrid(place, block)
  BY <1>1 DEF PlansFit
<1>3. PICK pr, pc, ph, pw \in Int :
        pr = place.row /\ pc = place.col /\ ph = place.height /\ pw = place.width
  BY <1>2
<1>4. PICK h, w \in Int : /\ h = (IF TileSize < a THEN TileSize ELSE a)
                          /\ w = (IF TileSize < b THEN TileSize ELSE b)
  <2>1. (IF TileSize < a THEN TileSize ELSE a) \in Int /\ (IF TileSize < b THEN TileSize ELSE b) \in Int
    BY <1>0
  <2> QED
    BY <2>1
<1>5. shape.row = 0 /\ shape.col = 0 /\ shape.height = h /\ shape.width = w
  BY <1>4, WindowFacts
<1>6. Whole(shape)
  BY <1>5 DEF Whole
<1>7. PICK to, from : to = y.to /\ from = y.from /\ Whole(to) /\ Whole(from)
  BY DEF PartOk
<1>8. PICK tr, tc, t1, t2 \in Int : /\ tr = tile[1] * TileSize /\ tc = tile[2] * TileSize
                                    /\ t1 = tile[1] /\ t2 = tile[2]
  BY <1>0
<1>9. PICK r, c, fr, fc \in Int : r = to.row /\ c = to.col /\ fr = from.row /\ fc = from.col
  BY <1>7 DEF Whole
<1>10. r + tr = fr + pr /\ c + tc = fc + pc
  BY <1>1, <1>3, <1>7, <1>8, <1>9 DEF PartOk
<1>11. ASSUME NEW z \in CellsOf(to) PROVE z \in Int \X Int /\ z \in CellsOf(shape)
  <2>1. z \in Int \X Int
    BY <1>7, CellsFacts
  <2>2. PICK x \in Int \X Int : x = ReadAt(y, z) /\ x \in CellsOf(from)
    BY <1>7, <2>1 DEF PartOk
  <2>3. PICK z1, z2, x1, x2 \in Int : z1 = z[1] /\ z2 = z[2] /\ x1 = x[1] /\ x2 = x[2]
    BY <2>1
  <2>4. x1 = z1 - r + fr /\ x2 = z2 - c + fc
    <3>1. x = <<z1 - r + fr, z2 - c + fc>>
      BY <1>7, <1>9, <2>2, <2>3 DEF ReadAt
    <3> QED
      BY <2>3, <3>1
  <2>5. z1 + tr = x1 + pr /\ z2 + tc = x2 + pc
    BY <1>10, <2>4
  <2>6. /\ x \in CellsOf(BlockWindow(place, block, at))
        /\ t1 = (x1 + pr) \div TileSize /\ t2 = (x2 + pc) \div TileSize
    BY <1>1, <1>3, <1>7, <1>8, <2>2, <2>3 DEF PartOk
  <2>7. x \in CellsOf(Window(0, 0, ph, pw))
    <3>1. \A e \in BlockGrid(place, block) : \A g \in Int \X Int :
            g \in CellsOf(BlockWindow(place, block, e)) <=>
                     /\ g \in CellsOf(Window(0, 0, place.height, place.width))
                     /\ e = <<g[1] \div block, g[2] \div block>>
      BY <1>2, BlockFacts
    <3> QED
      BY <1>2, <1>3, <2>6, <3>1
  <2>8. x1 < ph /\ x2 < pw
    <3>1. PICK g : g = Window(0, 0, ph, pw)
      OBVIOUS
    <3>2. g.row = 0 /\ g.col = 0 /\ g.height = ph /\ g.width = pw
      BY <3>1, WindowFacts
    <3>3. Whole(g)
      BY <3>2 DEF Whole
    <3>4. x[1] < g.row + g.height /\ x[2] < g.col + g.width
      BY <2>7, <3>1, <3>3, CellsFacts
    <3> QED
      BY <2>3, <3>2, <3>4
  <2>9. /\ tr <= x1 + pr /\ x1 + pr < tr + TileSize
        /\ tc <= x2 + pc /\ x2 + pc < tc + TileSize
    <3>1. PICK d \in Nat \ {0} : d = TileSize
      BY <1>0
    <3>2. PICK e, f \in Int : e = x1 + pr /\ f = x2 + pc
      OBVIOUS
    <3>3. tr = t1 * d /\ tc = t2 * d
      BY <1>8, <3>1
    <3>4. ((tr <= e /\ e < tr + d) <=> t1 = e \div d) /\ ((tc <= f /\ f < tc + d) <=> t2 = f \div d)
      BY <3>3, RunAt
    <3> QED
      BY <2>6, <3>1, <3>2, <3>4
  <2>10. a = height - tr /\ b = width - tc
    BY <1>8
  <2>11. 0 <= z1 /\ z1 < h /\ 0 <= z2 /\ z2 < w
    BY <1>0, <1>2, <1>3, <1>4, <2>5, <2>8, <2>9, <2>10
  <2>12. z \in CellsOf(shape)
    BY <1>5, <1>6, <2>1, <2>3, <2>11, CellsFacts
  <2> QED
    BY <2>1, <2>12
<1> QED
  BY <1>6, <1>7, <1>11

-----------------------------------------------------------------------------
(* The flood of a HUC. *)

\* A cell of a plan's raster is computed wet.
WetHere(h, p, x) ==
    Wet(p.stages, source[h].catchments[p.branch][x], source[h].rem[p.branch][x])

\* A tile holds the cells of its parts that are wet where they are read.
LEMMA ComputeForm ==
    ASSUME NEW h, NEW plans, NEW parts, NEW x
    PROVE  x \in ComputeTile(h, plans, parts) <=>
             \E p \in parts : x \in CellsOf(p.to) /\ WetHere(h, plans[p.plan], ReadAt(p, x))
<1>1. ComputeTile(h, plans, parts) =
        UNION {{cell \in CellsOf(p.to) : WetHere(h, plans[p.plan], ReadAt(p, cell))} : p \in parts}
  BY DEF ComputeTile, WetHere, ReadAt
<1> QED
  BY <1>1

\* A cell of a tile, on the grid.
OnGrid(tile, c) == <<c[1] + tile[1] * TileSize, c[2] + tile[2] * TileSize>>
\* A cell of a raster, on the grid.
Laid(place, x) == <<x[1] + place.row, x[2] + place.col>>

\* A part puts the cell that it reads where the raster has it.
LEMMA ReadFacts ==
    ASSUME NEW plans, NEW block, NEW height, NEW width, PlansFit(plans, block, height, width),
           NEW i \in DOMAIN plans, NEW at, NEW tile \in Int \X Int,
           NEW y, PartOk(y, plans, block, i, at, tile), NEW z \in Int \X Int,
           NEW x \in Int \X Int, NEW place, place = plans[i].place
    PROVE  x = ReadAt(y, z) <=> OnGrid(tile, z) = Laid(place, x)
<1>0. TileSize \in Nat \ {0}
  BY StreamAssumption
<1>1. PICK pr, pc, tr, tc \in Int :
        /\ pr = place.row /\ pc = place.col
        /\ tr = tile[1] * TileSize /\ tc = tile[2] * TileSize
  <2>1. place \in [row : Int, col : Int, height : Nat \ {0}, width : Nat \ {0}]
    BY DEF PlansFit
  <2>2. tile[1] * TileSize \in Int /\ tile[2] * TileSize \in Int
    BY <1>0
  <2> QED
    BY <2>1, <2>2
<1>2. PICK r, c, fr, fc \in Int : r = y.to.row /\ c = y.to.col /\ fr = y.from.row /\ fc = y.from.col
  BY DEF PartOk, Whole
<1>3. r + tr = fr + pr /\ c + tc = fc + pc
  BY <1>1, <1>2 DEF PartOk
<1>4. PICK z1, z2, x1, x2 \in Int : z1 = z[1] /\ z2 = z[2] /\ x1 = x[1] /\ x2 = x[2]
  OBVIOUS
<1>5. x = ReadAt(y, z) <=> x1 = z1 - r + fr /\ x2 = z2 - c + fc
  <2>1. ReadAt(y, z) = <<z1 - r + fr, z2 - c + fc>>
    BY <1>2, <1>4 DEF ReadAt
  <2>2. PICK u, v \in Int : u = z1 - r + fr /\ v = z2 - c + fc
    OBVIOUS
  <2>3. x = <<u, v>> <=> x1 = u /\ x2 = v
    BY <1>4
  <2> QED
    BY <2>1, <2>2, <2>3
<1>6. OnGrid(tile, z) = Laid(place, x) <=> z1 + tr = x1 + pr /\ z2 + tc = x2 + pc
  <2>1. OnGrid(tile, z) = <<z1 + tr, z2 + tc>> /\ Laid(place, x) = <<x1 + pr, x2 + pc>>
    BY <1>1, <1>4 DEF OnGrid, Laid
  <2> QED
    BY <2>1
<1> QED
  BY <1>3, <1>5, <1>6

\* The tiles together hold the wet cells of the needed blocks, each in its place.
LEMMA FloodOnGrid ==
    ASSUME NEW plans, NEW block, NEW height, NEW width, PlansFit(plans, block, height, width),
           NEW sched, sched = ScheduleTiles(block, plans), NEW h, NEW g
    PROVE  (\E tile \in DOMAIN sched : \E c \in ComputeTile(h, plans, sched[tile]) : g = OnGrid(tile, c))
             <=> \E i \in DOMAIN plans : \E x \in NeedOf(plans, block, i) :
                   WetHere(h, plans[i], x) /\ g = Laid(plans[i].place, x)
<1>1. ASSUME NEW tile \in DOMAIN sched, NEW c \in ComputeTile(h, plans, sched[tile]), g = OnGrid(tile, c)
      PROVE  \E i \in DOMAIN plans : \E x \in NeedOf(plans, block, i) :
                   WetHere(h, plans[i], x) /\ g = Laid(plans[i].place, x)
  <2>1. PICK y \in sched[tile] : c \in CellsOf(y.to) /\ WetHere(h, plans[y.plan], ReadAt(y, c))
    BY ComputeForm
  <2>2. tile \in Int \X Int
    BY PartsOk
  <2>3. PICK i \in DOMAIN plans : \E at \in plans[i].blocks : PartOk(y, plans, block, i, at, tile)
    BY PartsOk
  <2>4. PICK at \in plans[i].blocks : PartOk(y, plans, block, i, at, tile)
    BY <2>3
  <2>5. y.plan = i /\ Whole(y.to)
    BY <2>4 DEF PartOk
  <2>6. c \in Int \X Int
    BY <2>1, <2>5, CellsFacts
  <2>7. PICK x \in Int \X Int : x = ReadAt(y, c) /\ x \in CellsOf(y.from)
    BY <2>1, <2>4, <2>6 DEF PartOk
  <2>8. x \in CellsOf(BlockWindow(plans[i].place, block, at))
    BY <2>4, <2>7 DEF PartOk
  <2>9. x \in NeedOf(plans, block, i)
    BY <2>8 DEF NeedOf
  <2>10. OnGrid(tile, c) = Laid(plans[i].place, x)
    BY <2>2, <2>4, <2>6, <2>7, ReadFacts
  <2> QED
    BY <1>1, <2>1, <2>5, <2>7, <2>9, <2>10
<1>2. ASSUME NEW i \in DOMAIN plans, NEW x \in NeedOf(plans, block, i),
             WetHere(h, plans[i], x), g = Laid(plans[i].place, x)
      PROVE  \E tile \in DOMAIN sched : \E c \in ComputeTile(h, plans, sched[tile]) : g = OnGrid(tile, c)
  <2>1. PICK at \in plans[i].blocks : x \in CellsOf(BlockWindow(plans[i].place, block, at))
    BY DEF NeedOf
  <2>2. PICK tile, y : tile = TileUnder(plans[i].place, x)
                    /\ y = PartOf(plans, <<i, SpanAt(plans, block, i, at)>>, tile)
    OBVIOUS
  <2>3. /\ tile \in DOMAIN sched /\ y \in sched[tile] /\ x \in CellsOf(y.from)
        /\ PartOk(y, plans, block, i, at, tile)
    BY <2>1, <2>2, CellHasPart
  <2>4. tile \in Int \X Int
    BY <2>3, PartsOk
  <2>5. x \in Int \X Int
    BY NeedFacts
  <2>6. PICK place : place = plans[i].place /\ place \in [row : Int, col : Int, height : Nat \ {0}, width : Nat \ {0}]
    BY DEF PlansFit
  <2>7. PICK c \in Int \X Int : OnGrid(tile, c) = Laid(place, x)
    <3>0. TileSize \in Nat \ {0}
      BY StreamAssumption
    <3>1. PICK pr, pc, tr, tc, x1, x2 \in Int :
            /\ pr = place.row /\ pc = place.col
            /\ tr = tile[1] * TileSize /\ tc = tile[2] * TileSize
            /\ x1 = x[1] /\ x2 = x[2]
      <4>1. tile[1] * TileSize \in Int /\ tile[2] * TileSize \in Int
        BY <2>4, <3>0
      <4> QED
        BY <2>5, <2>6, <4>1
    <3>2. PICK c1, c2 \in Int : c1 = x1 + pr - tr /\ c2 = x2 + pc - tc
      OBVIOUS
    <3>3. <<c1, c2>> \in Int \X Int /\ <<c1, c2>>[1] = c1 /\ <<c1, c2>>[2] = c2
      BY PairFacts
    <3>4. PICK c \in Int \X Int : c[1] = c1 /\ c[2] = c2
      BY <3>3
    <3>5. OnGrid(tile, c) = <<c1 + tr, c2 + tc>> /\ Laid(place, x) = <<x1 + pr, x2 + pc>>
      BY <3>1, <3>4 DEF OnGrid, Laid
    <3> QED
      BY <3>2, <3>5
  <2>8. x = ReadAt(y, c)
    BY <2>3, <2>4, <2>5, <2>6, <2>7, ReadFacts
  <2>9. c \in CellsOf(y.to)
    BY <2>3, <2>8 DEF PartOk
  <2>10. y.plan = i
    BY <2>3 DEF PartOk
  <2>11. c \in ComputeTile(h, plans, sched[tile])
    BY <1>2, <2>3, <2>8, <2>9, <2>10, ComputeForm
  <2> QED
    BY <1>2, <2>3, <2>6, <2>7, <2>11
<1> QED
  BY <1>1, <1>2

\* The parts of the reference, as RefFlood defines them.
RefWet(h, D, b, x) ==
    LET rows == RefRows(h, b, source[h].catchments[b][x], FeaturesOf(D))
    IN rows # <<>> /\ Deep(StageForDischarge(FlowOf(D, rows[1].feature), rows), source[h].rem[b][x])

\* A cell of the reference flood lies under a wet cell of some branch.
LEMMA RefForm ==
    ASSUME NEW h, NEW reaches, NEW g
    PROVE  g \in RefFlood(h, reaches) <=>
             \E b \in DOMAIN index[h].branches :
               \E x \in CellsOf(Window(0, 0, source[h].place[b].height, source[h].place[b].width)) :
                 RefWet(h, FirstDischarges(reaches, h), b, x) /\ g = Laid(source[h].place[b], x)
<1>1. RefFlood(h, reaches) =
        UNION {{Laid(source[h].place[b], c) :
                 c \in {x \in CellsOf(Window(0, 0, source[h].place[b].height, source[h].place[b].width)) :
                         RefWet(h, FirstDischarges(reaches, h), b, x)}} :
                b \in DOMAIN index[h].branches}
  BY DEF RefFlood, RefWet, FeaturesOf, FlowOf, Laid
<1> QED
  BY <1>1

\* A cell is wet there when its HydroID has rows whose stage is above it.
LEMMA RefWetFacts ==
    ASSUME NEW h, Hydrofabric(source[h]), NEW D, NEW b, NEW x, NEW hydroid,
           hydroid = source[h].catchments[b][x]
    PROVE  RefWet(h, D, b, x) <=>
             /\ Picked(source[h], b, hydroid, FeaturesOf(D)) # {}
             /\ Deep(RefStage(source[h], b, hydroid, D), source[h].rem[b][x])
<1>1. PICK src, R : src = source[h] /\ R = Picked(src, b, hydroid, FeaturesOf(D))
  OBVIOUS
<1>2. {i \in DOMAIN src.table :
        LET r == src.table[i] IN
        r.branch = b /\ r.hydroid = hydroid /\ ~r.lake /\ r.feature \in FeaturesOf(D)} = R
  BY <1>1 DEF Picked, RowsOf
<1>3. PICK rows : rows = Kept(src.table, R)
  OBVIOUS
<1>4. RefRows(h, b, hydroid, FeaturesOf(D)) = rows
  BY <1>1, <1>2, <1>3 DEF RefRows
<1>5. Hydrofabric(src) /\ R \in SUBSET (1 .. Len(src.table)) /\ IsFiniteSet(R)
  BY <1>1, PickedFacts
<1>6. rows # <<>> <=> R # {}
  <2>1. PICK table \in Seq(TableRows) : table = src.table
    BY <1>5 DEF Hydrofabric
  <2>2. PICK c : c = Cardinality(R)
    OBVIOUS
  <2>3. rows \in Seq(TableRows) /\ Len(rows) = c /\ c \in Nat
    BY <1>3, <1>5, <2>1, <2>2, KeptFacts
  <2>4. c = 0 <=> R = {}
    BY <1>5, <2>2, FS_EmptySet
  <2> QED
    BY <2>3, <2>4
<1>7. RefStage(src, b, hydroid, D) = StageForDischarge(FlowOf(D, rows[1].feature), rows)
  BY <1>1, <1>3 DEF RefStage
<1> QED
  BY <1>1, <1>4, <1>6, <1>7 DEF RefWet

\* The tiles of a HUC hold the cells that the reference floods.
LEMMA FloodOfHuc ==
    ASSUME NEW h, NEW src, src = source[h], Hydrofabric(src), NEW block \in Nat \ {0},
           NEW B \in SUBSET ToSet(src.ids), 0 \in B, \A b \in B : Placed(src, b),
           DOMAIN index[h].branches = B,
           NEW reaches, NEW D, D = FirstDischarges(reaches, h),
           NEW plans, PlansFit(plans, block, src.place[0].height, src.place[0].width),
           \A n \in DOMAIN plans : PlanOk(plans[n], src, block, B, D),
           \A b \in B : \A i : (Picked(src, b, i, FeaturesOf(D)) # {}
                                 /\ OccupiedBlocks(src, b, block, i) # {})
                => \E n \in DOMAIN plans : plans[n].branch = b,
           NEW sched, sched = ScheduleTiles(block, plans), NEW g
    PROVE  (\E tile \in DOMAIN sched : \E c \in ComputeTile(h, plans, sched[tile]) : g = OnGrid(tile, c))
             <=> g \in RefFlood(h, reaches)
<1>1. \A b \in B :
        /\ src.place[b] \in [row : Int, col : Int, height : Nat \ {0}, width : Nat \ {0}]
        /\ src.catchments[b] \in
             [CellsOf(Window(0, 0, src.place[b].height, src.place[b].width)) -> Int]
  BY DEF Hydrofabric
<1>2. ASSUME NEW n \in DOMAIN plans, NEW b, b = plans[n].branch,
             NEW x \in CellsOf(Window(0, 0, src.place[b].height, src.place[b].width))
      PROVE  WetHere(h, plans[n], x) <=> RefWet(h, D, b, x)
  <2>1. PICK stages, hydroid, elevation :
          /\ stages = plans[n].stages /\ hydroid = src.catchments[b][x]
          /\ elevation = src.rem[b][x]
    OBVIOUS
  <2>2. /\ b \in B /\ DOMAIN stages \in SUBSET Int /\ IsFiniteSet(DOMAIN stages)
        /\ \A i : i \in DOMAIN stages <=> Picked(src, b, i, FeaturesOf(D)) # {}
        /\ \A i \in DOMAIN stages : stages[i] = RefStage(src, b, i, D)
    BY <1>2, <2>1 DEF PlanOk
  <2>3. hydroid \in Int
    <3>1. src.catchments[b] \in
            [CellsOf(Window(0, 0, src.place[b].height, src.place[b].width)) -> Int]
      BY <1>1, <2>2, Zenon
    <3>2. ASSUME NEW C, NEW f \in [C -> Int], NEW y \in C PROVE f[y] \in Int
      OBVIOUS
    <3>3. hydroid = src.catchments[b][x]
      BY <2>1
    <3> QED
      BY <3>1, <3>2, <3>3, <1>2, Zenon
  <2>4. WetHere(h, plans[n], x) <=> Wet(stages, hydroid, elevation)
    BY <1>2, <2>1 DEF WetHere
  <2>5. Wet(stages, hydroid, elevation) <=> hydroid \in DOMAIN stages /\ Deep(stages[hydroid], elevation)
    BY <2>2, <2>3, WetFacts
  <2>6. RefWet(h, D, b, x) <=> /\ Picked(src, b, hydroid, FeaturesOf(D)) # {}
                               /\ Deep(RefStage(src, b, hydroid, D), elevation)
    BY <2>1, RefWetFacts
  <2> QED
    BY <2>2, <2>4, <2>5, <2>6
<1>3. ASSUME NEW n \in DOMAIN plans, NEW x \in NeedOf(plans, block, n),
             WetHere(h, plans[n], x), g = Laid(plans[n].place, x)
      PROVE  g \in RefFlood(h, reaches)
  <2>1. PICK b \in B : b = plans[n].branch /\ plans[n].place = src.place[b]
    BY DEF PlanOk
  <2>2. x \in CellsOf(Window(0, 0, src.place[b].height, src.place[b].width))
    <3>1. PICK height, width : PlansFit(plans, block, height, width)
      OBVIOUS
    <3>2. x \in CellsOf(Window(0, 0, plans[n].place.height, plans[n].place.width))
      BY <3>1, NeedFacts
    <3> QED
      BY <2>1, <3>2
  <2>3. RefWet(h, D, b, x)
    BY <1>2, <1>3, <2>1, <2>2
  <2> QED
    BY <1>3, <2>1, <2>2, <2>3, RefForm
<1>4. ASSUME g \in RefFlood(h, reaches)
      PROVE  \E n \in DOMAIN plans : \E x \in NeedOf(plans, block, n) :
                   WetHere(h, plans[n], x) /\ g = Laid(plans[n].place, x)
  <2>1. PICK b \in B :
          \E x \in CellsOf(Window(0, 0, src.place[b].height, src.place[b].width)) :
                 RefWet(h, D, b, x) /\ g = Laid(src.place[b], x)
    BY <1>4, RefForm
  <2>2. PICK x \in CellsOf(Window(0, 0, src.place[b].height, src.place[b].width)) :
                 RefWet(h, D, b, x) /\ g = Laid(src.place[b], x)
    BY <2>1
  <2>3. PICK hydroid, place : hydroid = src.catchments[b][x] /\ place = src.place[b]
    OBVIOUS
  <2>4. Picked(src, b, hydroid, FeaturesOf(D)) # {}
    BY <2>2, <2>3, RefWetFacts
  <2>5. PICK at : at = <<x[1] \div block, x[2] \div block>>
    OBVIOUS
  <2>6. place \in [row : Int, col : Int, height : Nat \ {0}, width : Nat \ {0}]
    BY <1>1, <2>3
  <2>7. at \in BlockGrid(place, block) /\ x \in CellsOf(BlockWindow(place, block, at))
    <3>1. PICK w : w = Window(0, 0, place.height, place.width)
      OBVIOUS
    <3>2. Whole(w)
      BY <2>6, <3>1, WindowFacts DEF Whole
    <3>3. x \in CellsOf(w)
      BY <2>2, <2>3, <3>1
    <3>4. x \in Int \X Int
      BY <3>2, <3>3, CellsFacts
    <3>5. \A y \in CellsOf(w) : <<y[1] \div block, y[2] \div block>> \in BlockGrid(place, block)
      BY <2>6, <3>1, BlockFacts
    <3>6. \A e \in BlockGrid(place, block) : \A y \in Int \X Int :
            y \in CellsOf(BlockWindow(place, block, e)) <=>
                     y \in CellsOf(w) /\ e = <<y[1] \div block, y[2] \div block>>
      BY <2>6, <3>1, BlockFacts
    <3> QED
      BY <2>5, <3>3, <3>4, <3>5, <3>6
  <2>8. at \in OccupiedBlocks(src, b, block, hydroid)
    BY <2>3, <2>7 DEF OccupiedBlocks
  <2>9. PICK n \in DOMAIN plans : plans[n].branch = b
    BY <2>4, <2>8
  <2>10. plans[n].place = place /\ at \in plans[n].blocks
    <3>1. /\ plans[n].place = src.place[b]
          /\ hydroid \in DOMAIN plans[n].stages
          /\ \A i \in DOMAIN plans[n].stages : OccupiedBlocks(src, b, block, i) \in SUBSET plans[n].blocks
      BY <2>4, <2>9 DEF PlanOk
    <3> QED
      BY <2>3, <2>8, <3>1
  <2>11. x \in NeedOf(plans, block, n)
    BY <2>7, <2>10 DEF NeedOf
  <2>12. WetHere(h, plans[n], x)
    BY <1>2, <2>2, <2>9
  <2> QED
    BY <2>2, <2>3, <2>10, <2>11, <2>12
<1>5. (\E n \in DOMAIN plans : \E x \in NeedOf(plans, block, n) :
                   WetHere(h, plans[n], x) /\ g = Laid(plans[n].place, x))
        <=> g \in RefFlood(h, reaches)
  BY <1>3, <1>4
<1> QED
  BY <1>5, FloodOnGrid

-----------------------------------------------------------------------------
(* The streaming command. *)

\* What the command computes of a HUC for a sequence of reaches.
PlansIn(h, reaches) == PlanHuc(index[h], FirstDischarges(reaches, h)).plans
ScheduleIn(h, reaches) == ScheduleTiles(index[h].block, PlansIn(h, reaches))
CellsIn(h, reaches, tile) == ComputeTile(h, PlansIn(h, reaches), ScheduleIn(h, reaches)[tile])
WetTiles(h, reaches) == {tile \in DOMAIN ScheduleIn(h, reaches) : CellsIn(h, reaches, tile) # {}}

\* What it reports missing, as MissingIsExact defines it.
KnownIn(h, f) ==
    \E b \in DOMAIN index[h].branches, r \in ToSet(source[h].table) :
        r.branch = b /\ r.feature = f /\ ~r.lake
AbsentIn(h, reaches) ==
    Kept(FirstDischarges(reaches, h),
         {i \in DOMAIN FirstDischarges(reaches, h) : ~KnownIn(h, FirstDischarges(reaches, h)[i].feature)})
MissingIn(h, reaches) ==
    [k \in DOMAIN AbsentIn(h, reaches) |-> <<h, AbsentIn(h, reaches)[k].feature>>]
MissingUpTo(scenario, k) ==
    FlattenSeq([i \in 1 .. k |-> MissingIn(HucsOf(scenario)[i], scenario.reaches)])

\* The entry of a wet tile, and its object.
Holds(t, id, h, reaches, tile) ==
    /\ t.huc = h /\ t.key = <<id, h, tile[1], tile[2]>>
    /\ t.key \in DOMAIN objects /\ objects[t.key] # {}
    /\ CellsOfTile(t) = {OnGrid(tile, c) : c \in CellsIn(h, reaches, tile)}

WorkShape == DOMAIN work = {"at", "todo", "current", "left", "tiles", "dry", "missing"}

\* The plans and the schedule at hand are those of a prepared HUC.
CurrentOk ==
    work.current = NoPlan \/
      \E h \in Hucs : \E reaches \in Seq(Reaches) :
        /\ index[h] # NoIndex
        /\ work.current = [huc |-> h, plans |-> PlansIn(h, reaches), schedule |-> ScheduleIn(h, reaches)]

\* A manifest holds the flood of its scenario's HUCs.
ManifestOk(m, scenario) ==
    /\ m.tiles \in Seq(ToSet(m.tiles))
    /\ \A t \in ToSet(m.tiles) : t.key[1] = scenario.id /\ t.key \in DOMAIN objects
    /\ \A h \in {r.huc : r \in ToSet(scenario.reaches)} :
         UNION {CellsOfTile(t) : t \in {u \in ToSet(m.tiles) : u.huc = h}} = RefFlood(h, scenario.reaches)
    /\ (\A t \in ToSet(m.tiles) : objects[t.key] # {}) \/ Len(m.tiles) = 1
    /\ m.missing = MissingUpTo(scenario, Len(HucsOf(scenario)))

\* The first k HUCs of the scenario are planned; the others are to do.
Planned(k, scenario) ==
    LET hucs == HucsOf(scenario) IN
    /\ k \in 0 .. Len(hucs)
    /\ work.todo \in Seq(Int) /\ Len(work.todo) = Len(hucs) - k
    /\ \A j \in 1 .. Len(work.todo) : work.todo[j] = hucs[k + j]
    /\ \A i \in 1 .. k : index[hucs[i]] # NoIndex
    /\ work.missing = MissingUpTo(scenario, k)
    /\ work.at = "plan" => work.left = {}
    /\ work.at = "tiles" =>
         /\ k > 0 /\ work.left \in SUBSET DOMAIN ScheduleIn(hucs[k], scenario.reaches)
         /\ work.current = [huc |-> hucs[k], plans |-> PlansIn(hucs[k], scenario.reaches),
                            schedule |-> ScheduleIn(hucs[k], scenario.reaches)]

\* The wet tiles of those HUCs are written, but for those that are left of the last.
Written(k, scenario) ==
    LET hucs == HucsOf(scenario) IN
    /\ work.tiles \in Seq(ToSet(work.tiles))
    /\ \A t \in ToSet(work.tiles) : \E i \in 1 .. k :
         \E tile \in WetTiles(hucs[i], scenario.reaches) :
           /\ Holds(t, scenario.id, hucs[i], scenario.reaches, tile)
           /\ i = k => tile \notin work.left
    /\ \A i \in 1 .. k : \A tile \in WetTiles(hucs[i], scenario.reaches) :
         \/ i = k /\ tile \in work.left
         \/ \E t \in ToSet(work.tiles) : Holds(t, scenario.id, hucs[i], scenario.reaches, tile)
    /\ work.dry = NoTile \/ (work.dry.key[1] = scenario.id)

StreamTypes ==
    /\ WorkShape /\ work.at \in {"idle", "plan", "tiles", "failed"}
    /\ request \in Requests \cup {<<>>} /\ rule \in {"pinned"} \cup Rules
    /\ manifests \in Seq(ToSet(manifests)) /\ Len(manifests) <= Len(request)
    /\ request = <<>> => work = Idle /\ manifests = <<>>

\* (A set of one element names a state's value, so that the rest is about a constant.)
ManifestsOk ==
    \A n \in 1 .. Len(manifests) :
        \A m \in {manifests[n]} : \A scenario \in {request[n]} : ManifestOk(m, scenario)

WorkOk ==
    work.at \in {"plan", "tiles"} =>
        /\ Len(manifests) < Len(request)
        /\ \E scenario \in {Scenario} : \E k \in 0 .. Len(HucsOf(scenario)) :
             Planned(k, scenario) /\ Written(k, scenario)

StreamInv == StreamTypes /\ CurrentOk /\ ManifestsOk /\ WorkOk

\* A feature has one discharge; every branch that a requested feature floods
\* has a plan, and every plan is right.
OneEach(D) == \A m, n \in 1 .. Len(D) : D[m].feature = D[n].feature => m = n
PlansOk(plans, src, block, B, D) == \A n \in DOMAIN plans : PlanOk(plans[n], src, block, B, D)
PlansCover(plans, src, block, B, D) ==
    \A b \in B : \A i : (Picked(src, b, i, FeaturesOf(D)) # {} /\ OccupiedBlocks(src, b, block, i) # {})
        => \E n \in DOMAIN plans : plans[n].branch = b
AllPlaced(B, src) == \A b \in B : Placed(src, b)

\* PlansFacts and FloodOfHuc, on one HUC's source, index and discharges.
LEMMA HucPlans ==
    ASSUME NEW src, Hydrofabric(src), NEW block, NEW B \in SUBSET ToSet(src.ids),
           NEW idx, idx = IndexOf(src, block, B), NEW D \in Seq(Discharges), OneEach(D),
           NEW plans, plans = PlanHuc(idx, D).plans
    PROVE  PlansOk(plans, src, block, B, D) /\ PlansCover(plans, src, block, B, D)
<1>1. \A m, n \in 1 .. Len(D) : D[m].feature = D[n].feature => m = n
  BY DEF OneEach
<1>2. \A n \in DOMAIN plans : PlanOk(plans[n], src, block, B, D)
  BY <1>1, PlansFacts
<1>3. \A b \in B : \A i : (Picked(src, b, i, FeaturesOf(D)) # {} /\ OccupiedBlocks(src, b, block, i) # {})
        => \E n \in DOMAIN plans : plans[n].branch = b
  BY <1>1, PlansFacts
<1> QED
  BY <1>2, <1>3 DEF PlansOk, PlansCover

\* FloodOfHuc, from the facts above as a whole.
LEMMA HucFlood ==
    ASSUME NEW h, NEW src, src = source[h], Hydrofabric(src), NEW block \in Nat \ {0},
           NEW B \in SUBSET ToSet(src.ids), 0 \in B, AllPlaced(B, src),
           DOMAIN index[h].branches = B,
           NEW reaches, NEW D, D = FirstDischarges(reaches, h),
           NEW plans, PlansFit(plans, block, src.place[0].height, src.place[0].width),
           PlansOk(plans, src, block, B, D), PlansCover(plans, src, block, B, D),
           NEW sched, sched = ScheduleTiles(block, plans), NEW g
    PROVE  (\E tile \in DOMAIN sched : \E c \in ComputeTile(h, plans, sched[tile]) : g = OnGrid(tile, c))
             <=> g \in RefFlood(h, reaches)
<1>1. \A n \in DOMAIN plans : PlanOk(plans[n], src, block, B, D)
  BY DEF PlansOk
<1>2. \A b \in B : \A i : (Picked(src, b, i, FeaturesOf(D)) # {} /\ OccupiedBlocks(src, b, block, i) # {})
        => \E n \in DOMAIN plans : plans[n].branch = b
  BY DEF PlansCover
<1>3. \A b \in B : Placed(src, b)
  BY DEF AllPlaced
<1> QED
  BY <1>1, <1>2, <1>3, FloodOfHuc

\* A prepared HUC: its plans fit its grid, its tiles hold the reference's cells.
LEMMA HucFacts ==
    ASSUME IndexInv, NEW h \in Hucs, index[h] # NoIndex, NEW reaches \in Seq(Reaches)
    PROVE  /\ PlansFit(PlansIn(h, reaches), index[h].block, index[h].height, index[h].width)
           /\ \A g : (\E tile \in DOMAIN ScheduleIn(h, reaches) :
                        \E c \in CellsIn(h, reaches, tile) : g = OnGrid(tile, c))
                <=> g \in RefFlood(h, reaches)
<1>1. PICK src, idx : src = source[h] /\ idx = index[h]
  OBVIOUS
<1>2. Hydrofabric(src)
  BY <1>1, IndexAssumption DEF IndexInv
<1>3. PICK block \in Nat \ {0} : block = root /\ Converts(idx, src, block)
  BY <1>1, IndexAssumption DEF IndexInv
<1>4. PICK B \in SUBSET ToSet(src.ids) :
        0 \in B /\ (\A b \in B : Placed(src, b)) /\ idx = IndexOf(src, block, B)
  BY <1>3 DEF Converts
<1>5. /\ idx.block = block /\ idx.height = src.place[0].height /\ idx.width = src.place[0].width
      /\ DOMAIN idx.branches = B
  BY <1>4 DEF IndexOf
<1>6. PICK D : D = FirstDischarges(reaches, h)
  OBVIOUS
<1>7. /\ D \in Seq(Discharges)
      /\ \A m, n \in 1 .. Len(D) : D[m].feature = D[n].feature => m = n
  BY <1>6, FirstDischargesFacts
<1>8. PICK plans : plans = PlanHuc(idx, D).plans
  OBVIOUS
<1>9. plans = PlansIn(h, reaches)
  BY <1>1, <1>6, <1>8 DEF PlansIn
<1>10. PlansOk(plans, src, block, B, D) /\ PlansCover(plans, src, block, B, D)
  <2>1. OneEach(D)
    BY <1>7 DEF OneEach
  <2>2. idx = IndexOf(src, block, B) /\ D \in Seq(Discharges)
    BY <1>4, <1>7
  <2> QED
    BY <1>2, <1>8, <2>1, <2>2, HucPlans
<1>11. \A b \in B : src.place[b] \in [row : Int, col : Int, height : Nat \ {0}, width : Nat \ {0}]
  BY <1>2 DEF Hydrofabric
<1>12. PlansFit(plans, block, idx.height, idx.width)
  <2>1. idx.height \in Nat \ {0} /\ idx.width \in Nat \ {0}
    BY <1>4, <1>5, <1>11
  <2>2. ASSUME NEW n \in DOMAIN plans
        PROVE  /\ plans[n].place \in [row : Int, col : Int, height : Nat \ {0}, width : Nat \ {0}]
               /\ plans[n].blocks \in SUBSET BlockGrid(plans[n].place, block)
               /\ plans[n].place.row >= 0 /\ plans[n].place.row + plans[n].place.height <= idx.height
               /\ plans[n].place.col >= 0 /\ plans[n].place.col + plans[n].place.width <= idx.width
    <3>1. PICK b \in B : b = plans[n].branch /\ plans[n].place = src.place[b]
      BY <1>10 DEF PlansOk, PlanOk
    <3>2. plans[n].blocks \in SUBSET BlockGrid(plans[n].place, block)
      BY <1>10 DEF PlansOk, PlanOk
    <3>3. PICK place : place = src.place[b]
      OBVIOUS
    <3>4. /\ place.row >= 0 /\ place.row + place.height <= idx.height
          /\ place.col >= 0 /\ place.col + place.width <= idx.width
      BY <1>4, <1>5, <3>1, <3>3 DEF Placed
    <3> QED
      BY <1>11, <3>1, <3>2, <3>3, <3>4
  <2> QED
    BY <1>3, <2>1, <2>2 DEF PlansFit
<1>13. PICK sched : sched = ScheduleTiles(block, plans)
  OBVIOUS
<1>14. sched = ScheduleIn(h, reaches)
  BY <1>1, <1>5, <1>9, <1>13 DEF ScheduleIn
<1>15. ASSUME NEW g
       PROVE  (\E tile \in DOMAIN sched : \E c \in ComputeTile(h, plans, sched[tile]) : g = OnGrid(tile, c))
                <=> g \in RefFlood(h, reaches)
  <2>1. PlansFit(plans, block, src.place[0].height, src.place[0].width)
    BY <1>5, <1>12
  <2>2. DOMAIN index[h].branches = B /\ src = source[h] /\ block \in Nat \ {0}
    BY <1>1, <1>3, <1>5
  <2>3. B \in SUBSET ToSet(src.ids) /\ 0 \in B /\ AllPlaced(B, src)
    BY <1>4 DEF AllPlaced
  <2> QED
    BY <1>2, <1>6, <1>10, <1>13, <2>1, <2>2, <2>3, HucFlood
<1> QED
  BY <1>1, <1>5, <1>9, <1>12, <1>14, <1>15 DEF CellsIn

\* What it reports missing.
LEMMA HucMissing ==
    ASSUME IndexInv, NEW h \in Hucs, index[h] # NoIndex, NEW reaches \in Seq(Reaches),
           NEW missing, missing = PlanHuc(index[h], FirstDischarges(reaches, h)).missing
    PROVE  /\ [n \in DOMAIN missing |-> <<h, missing[n]>>] = MissingIn(h, reaches)
           /\ MissingIn(h, reaches) \in Seq(Int \X Int)
<1>1. PICK src, idx : src = source[h] /\ idx = index[h]
  OBVIOUS
<1>2. Hydrofabric(src)
  BY <1>1, IndexAssumption DEF IndexInv
<1>3. root \in BlockSizes /\ root \in Nat \ {0} /\ Converts(idx, src, root)
  BY <1>1, IndexAssumption DEF IndexInv
<1>4. PICK B \in SUBSET ToSet(src.ids) : idx = IndexOf(src, root, B)
  BY <1>3 DEF Converts
<1>5. DOMAIN idx.branches = B
  BY <1>4 DEF IndexOf
<1>6. PICK D : D = FirstDischarges(reaches, h)
  OBVIOUS
<1>7. D \in Seq(Discharges)
  BY <1>6, FirstDischargesFacts
<1>8. \A f : KnownIn(h, f) <=> Known(src, B, f)
  <2>1. PICK table \in Seq(TableRows) : table = src.table
    BY <1>2 DEF Hydrofabric
  <2>2. \A x : x \in ToSet(table) <=> \E i \in 1 .. Len(table) : x = table[i]
    BY ToSetFacts
  <2>3. ASSUME NEW f PROVE KnownIn(h, f) <=>
          \E b \in B : \E r \in ToSet(table) : r.branch = b /\ r.feature = f /\ ~r.lake
    BY <1>1, <1>5, <2>1 DEF KnownIn
  <2>4. ASSUME NEW f PROVE Known(src, B, f) <=>
          \E b \in B : \E i \in 1 .. Len(table) :
            table[i].branch = b /\ table[i].feature = f /\ ~table[i].lake
    BY <2>1 DEF Known
  <2> QED
    BY <2>2, <2>3, <2>4
<1>9. PICK P : P = {n \in DOMAIN D : ~Known(src, B, D[n].feature)}
  OBVIOUS
<1>10. PICK absent : absent = Kept(D, P)
  OBVIOUS
<1>11. AbsentIn(h, reaches) = absent
  <2>1. {n \in DOMAIN D : ~KnownIn(h, D[n].feature)} = P
    BY <1>8, <1>9
  <2> QED
    BY <1>6, <1>10, <2>1 DEF AbsentIn
<1>12. missing = [n \in DOMAIN absent |-> absent[n].feature]
  BY <1>1, <1>2, <1>4, <1>6, <1>7, <1>9, <1>10, MissingFacts
<1>13. MissingIn(h, reaches) = [n \in DOMAIN absent |-> <<h, absent[n].feature>>]
  BY <1>11 DEF MissingIn
<1>14. [n \in DOMAIN missing |-> <<h, missing[n]>>] = MissingIn(h, reaches)
  BY <1>12, <1>13
<1>15. PICK c : c = Cardinality(P)
  OBVIOUS
<1>16. c \in Nat /\ DOMAIN absent = 1 .. c /\ absent \in Seq(Discharges)
  <2>1. P \in SUBSET (1 .. Len(D))
    BY <1>7, <1>9
  <2> QED
    BY <1>7, <1>10, <1>15, <2>1, KeptFacts
<1>17. \A n \in 1 .. c : <<h, absent[n].feature>> \in Int \X Int
  <2>1. \A n \in 1 .. c : absent[n] \in Discharges
    BY <1>16
  <2>2. \A d \in Discharges : d.feature \in Int
    BY DEF Discharges
  <2>3. h \in Int
    BY IndexAssumption
  <2> QED
    BY <2>1, <2>2, <2>3
<1>18. MissingIn(h, reaches) \in [1 .. c -> Int \X Int]
  BY <1>13, <1>16, <1>17
<1> QED
  BY <1>14, <1>16, <1>18

\* The HUCs of a scenario's reaches.
AskedHucs(scenario) == {r.huc : r \in ToSet(scenario.reaches)}
ListsAll(s, S) == \A x \in S : \E i \in 1 .. Len(s) : x = s[i]

\* The HUCs of a scenario, in order.
LEMMA RequestFacts ==
    ASSUME NEW scenarios \in Requests, NEW n \in 1 .. Len(scenarios),
           NEW scenario, scenario = scenarios[n]
    PROVE  /\ scenario.reaches \in Seq(Reaches)
           /\ \A m \in 1 .. Len(scenarios) : scenarios[m].id = scenario.id => m = n
           /\ HucsOf(scenario) \in Seq(Hucs) /\ Len(HucsOf(scenario)) \in Nat
           /\ DOMAIN HucsOf(scenario) = 1 .. Len(HucsOf(scenario))
           /\ \A i, j \in 1 .. Len(HucsOf(scenario)) :
                HucsOf(scenario)[i] = HucsOf(scenario)[j] => i = j
           /\ ListsAll(HucsOf(scenario), AskedHucs(scenario))
<1>1. /\ scenarios \in Seq([id : Int, reaches : Seq([huc : Hucs, feature : Int, flow : Int])])
      /\ \A m, o \in DOMAIN scenarios : scenarios[m].id = scenarios[o].id => m = o
  BY StreamAssumption
<1>2. PICK S : S = [id : Int, reaches : Seq(Reaches)] /\ scenarios \in Seq(S)
  BY <1>1 DEF Reaches
<1>3. scenario \in S /\ DOMAIN scenarios = 1 .. Len(scenarios)
  <2>1. scenarios \in Seq(S)
    BY <1>2
  <2> QED
    BY <2>1
<1>4. scenario.reaches \in Seq(Reaches)
  BY <1>2, <1>3
<1>5. PICK reaches \in Seq(Reaches) : reaches = scenario.reaches
  BY <1>4
<1>6. PICK H : H = {r.huc : r \in ToSet(reaches)}
  OBVIOUS
<1>7. IsFiniteSet(ToSet(reaches)) /\ ToSet(reaches) \in SUBSET Reaches
  BY ToSetFacts
<1>8. H \in SUBSET Hucs
  <2>1. \A r \in Reaches : r.huc \in Hucs
    BY DEF Reaches
  <2> QED
    BY <1>6, <1>7, <2>1
<1>9. IsFiniteSet(H)
  <2>1. PICK T : T = ToSet(reaches)
    OBVIOUS
  <2>2. PICK f : f = [r \in T |-> r.huc]
    OBVIOUS
  <2>3. f = [r \in T |-> f[r]] /\ \A r \in T : f[r] = r.huc
    BY <2>2
  <2>4. IsFiniteSet({f[r] : r \in T})
    BY <1>7, <2>1, <2>3, FiniteImage
  <2>5. H = {f[r] : r \in T}
    BY <1>6, <2>1, <2>3
  <2> QED
    BY <2>4, <2>5
<1>10. H \in SUBSET Int
  BY <1>8, IndexAssumption
<1>11. PICK hucs, c : hucs = Ascending(H) /\ c = Cardinality(H)
  OBVIOUS
<1>12. /\ hucs \in Seq(H) /\ c \in Nat /\ Len(hucs) = c /\ DOMAIN hucs = 1 .. c
       /\ \A i \in 1 .. c : hucs[i] \in H
       /\ \A i, j \in 1 .. c : i < j => hucs[i] < hucs[j]
       /\ \A x \in H : \E i \in 1 .. c : hucs[i] = x
  BY <1>9, <1>10, <1>11, AscendingFacts
<1>13. ASSUME NEW i \in 1 .. c, NEW j \in 1 .. c, hucs[i] = hucs[j] PROVE i = j
  <2>1. hucs[i] \in Int /\ hucs[j] \in Int
    BY <1>10, <1>12
  <2>2. i < j \/ j < i \/ i = j
    OBVIOUS
  <2> QED
    BY <1>12, <1>13, <2>1, <2>2
<1>14. HucsOf(scenario) = hucs
  BY <1>5, <1>6, <1>11 DEF HucsOf
<1>15. \A h : h \in H <=> \E i \in 1 .. c : h = hucs[i]
  BY <1>12
<1>16. hucs \in Seq(Hucs)
  BY <1>8, <1>12
<1>17. \A m \in 1 .. Len(scenarios) : scenarios[m].id = scenario.id => m = n
  BY <1>1, <1>3
<1>18. {r.huc : r \in ToSet(scenario.reaches)} = H
  BY <1>5, <1>6
<1>19. Len(hucs) = c /\ DOMAIN hucs = 1 .. c /\ c \in Nat
  BY <1>12
<1>20. PICK hs : hs = HucsOf(scenario)
  OBVIOUS
<1>21. PICK set : set = AskedHucs(scenario)
  OBVIOUS
<1>22. /\ hs \in Seq(Hucs) /\ Len(hs) \in Nat /\ DOMAIN hs = 1 .. Len(hs)
      /\ \A i, j \in 1 .. Len(hs) : hs[i] = hs[j] => i = j
  BY <1>13, <1>14, <1>16, <1>19, <1>20
<1>23. ListsAll(hs, set)
  BY ZenonT(60), <1>14, <1>15, <1>18, <1>19, <1>20, <1>21 DEF AskedHucs, ListsAll
<1> QED
  BY <1>4, <1>17, <1>20, <1>21, <1>22, <1>23

\* A quotient of naturals is not negative.
LEMMA QuotientFromZero ==
    ASSUME NEW a \in Int, a >= 0, NEW d \in Nat \ {0}
    PROVE  a \div d >= 0
<1>1. 0 \div d = 0
  OBVIOUS
<1> QED
  BY <1>1, RunsAscend

\* No tile starts before the grid.
LEMMA TilesFromZero ==
    ASSUME NEW w, Whole(w), w.row >= 0, w.col >= 0
    PROVE  TilesOf(w) \in SUBSET (Nat \X Nat)
<1>0. TileSize \in Nat \ {0}
  BY StreamAssumption
<1>1. PICK r, c, h, k \in Int : r = w.row /\ c = w.col /\ h = w.height /\ k = w.width
  BY DEF Whole
<1>2. PICK a, b, y, z \in Int :
        /\ a = r \div TileSize /\ b = (r + h - 1) \div TileSize
        /\ y = c \div TileSize /\ z = (c + k - 1) \div TileSize
  BY <1>0
<1>3. a >= 0 /\ y >= 0
  BY <1>0, <1>1, <1>2, QuotientFromZero
<1>4. TilesOf(w) = (a .. b) \X (y .. z)
  BY <1>1, <1>2 DEF TilesOf
<1>5. a .. b \in SUBSET Nat /\ y .. z \in SUBSET Nat
  BY <1>3
<1> QED
  BY <1>4, <1>5

\* Neither does a block.
LEMMA SpanFromZero ==
    ASSUME NEW plans, NEW block, NEW height, NEW width, PlansFit(plans, block, height, width),
           NEW i \in DOMAIN plans, NEW at \in plans[i].blocks,
           NEW span, span = SpanAt(plans, block, i, at)
    PROVE  span.row >= 0 /\ span.col >= 0
<1>1. PICK place : place = plans[i].place
  OBVIOUS
<1>2. /\ place \in [row : Int, col : Int, height : Nat \ {0}, width : Nat \ {0}]
      /\ at \in BlockGrid(place, block) /\ block \in Nat \ {0}
      /\ place.row >= 0 /\ place.col >= 0
  BY <1>1 DEF PlansFit
<1>3. PICK pr, pc \in Int : pr = place.row /\ pc = place.col
  BY <1>2
<1>4. PICK y, z \in Int : y = (place.height - 1) \div block /\ z = (place.width - 1) \div block
  BY <1>2
<1>5. BlockGrid(place, block) = (0 .. y) \X (0 .. z)
  BY <1>4 DEF BlockGrid
<1>6. PICK a1, a2 \in Nat : a1 = at[1] /\ a2 = at[2]
  BY <1>2, <1>5
<1>7. PICK r, c \in Nat : r = a1 * block /\ c = a2 * block
  BY <1>2
<1>8. PICK a, b : BlockWindow(place, block, at) = Window(r, c, a, b)
  BY <1>6, <1>7 DEF BlockWindow
<1>9. PICK ur, uc \in Int : ur = -pr /\ uc = -pc
  OBVIOUS
<1>10. span = Moved(Window(r, c, a, b), ur, uc)
  BY <1>1, <1>3, <1>8, <1>9 DEF SpanAt
<1>11. span.row = r - ur /\ span.col = c - uc
  BY <1>10, MovedFacts
<1> QED
  BY <1>2, <1>3, <1>7, <1>9, <1>11

\* The tiles of a schedule, and their parts.
LEMMA TilesAndParts ==
    ASSUME NEW plans, NEW block, NEW height, NEW width, PlansFit(plans, block, height, width),
           NEW sched, sched = ScheduleTiles(block, plans), NEW tile \in DOMAIN sched
    PROVE  /\ tile \in Nat \X Nat
           /\ \A y \in sched[tile] : \E i \in DOMAIN plans : \E at \in plans[i].blocks :
                PartOk(y, plans, block, i, at, tile)
<1>1. /\ sched[tile] # {}
      /\ \A y \in sched[tile] : \E i \in DOMAIN plans : \E at \in plans[i].blocks :
           /\ tile \in TilesOf(SpanAt(plans, block, i, at))
           /\ y = PartOf(plans, <<i, SpanAt(plans, block, i, at)>>, tile)
  BY ScheduleFacts
<1>2. ASSUME NEW i \in DOMAIN plans, NEW at \in plans[i].blocks,
             tile \in TilesOf(SpanAt(plans, block, i, at))
      PROVE  tile \in Nat \X Nat
  <2>1. PICK span : span = SpanAt(plans, block, i, at)
    OBVIOUS
  <2>2. Whole(span)
    BY <2>1, SpanAtFacts
  <2>3. span.row >= 0 /\ span.col >= 0
    BY <2>1, SpanFromZero
  <2> QED
    BY <1>2, <2>1, <2>2, <2>3, TilesFromZero
<1>3. tile \in Nat \X Nat
  BY <1>1, <1>2
<1>4. ASSUME NEW y \in sched[tile]
      PROVE  \E i \in DOMAIN plans : \E at \in plans[i].blocks :
               PartOk(y, plans, block, i, at, tile)
  <2>1. PICK i \in DOMAIN plans : \E at \in plans[i].blocks :
           y = PartOf(plans, <<i, SpanAt(plans, block, i, at)>>, tile)
    BY <1>1
  <2>2. PICK at \in plans[i].blocks : y = PartOf(plans, <<i, SpanAt(plans, block, i, at)>>, tile)
    BY <2>1
  <2>3. PICK span : span = SpanAt(plans, block, i, at)
    OBVIOUS
  <2>4. tile \in Int \X Int
    BY <1>3
  <2>5. y = PartOf(plans, <<i, span>>, tile)
    BY <2>2, <2>3
  <2>6. PartOk(y, plans, block, i, at, tile)
    BY <2>3, <2>4, <2>5, PartFacts
  <2> QED
    BY <2>6
<1> QED
  BY <1>3, <1>4

\* The cells of a tile lie on it.
LEMMA CellsOfPartsFacts ==
    ASSUME NEW plans, NEW block, NEW height, NEW width, PlansFit(plans, block, height, width),
           NEW sched, sched = ScheduleTiles(block, plans), NEW tile \in DOMAIN sched, NEW h,
           NEW cells, cells = ComputeTile(h, plans, sched[tile])
    PROVE  cells \in SUBSET (Int \X Int) /\ IsFiniteSet(cells)
<1>0. TileSize \in Nat \ {0} /\ height \in Int /\ width \in Int
  BY StreamAssumption DEF PlansFit
<1>1. /\ tile \in Nat \X Nat
      /\ \A y \in sched[tile] : \E i \in DOMAIN plans : \E at \in plans[i].blocks :
           PartOk(y, plans, block, i, at, tile)
  BY TilesAndParts
<1>2. PICK t1, t2 \in Nat : t1 = tile[1] /\ t2 = tile[2]
  BY <1>1
<1>3. PICK a, b \in Int : a = height - tile[1] * TileSize /\ b = width - tile[2] * TileSize
  <2>1. t1 * TileSize \in Int /\ t2 * TileSize \in Int
    BY <1>0
  <2> QED
    BY <1>0, <1>2, <2>1
<1>4. PICK ha, wb \in Int : /\ ha = (IF TileSize < a THEN TileSize ELSE a)
                            /\ wb = (IF TileSize < b THEN TileSize ELSE b)
  BY <1>0
<1>5. PICK shape : shape = Window(0, 0, ha, wb)
  OBVIOUS
<1>6. tile \in Int \X Int
  BY <1>1
<1>7. ASSUME NEW y \in sched[tile]
      PROVE  CellsOf(y.to) \in SUBSET CellsOf(shape)
  <2>1. PICK i \in DOMAIN plans : \E at \in plans[i].blocks : PartOk(y, plans, block, i, at, tile)
    BY <1>1
  <2>2. PICK at \in plans[i].blocks : PartOk(y, plans, block, i, at, tile)
    BY <2>1
  <2>3. shape = Window(0, 0, IF TileSize < a THEN TileSize ELSE a,
                             IF TileSize < b THEN TileSize ELSE b)
    BY <1>4, <1>5
  <2>4. PlansFit(plans, block, height, width) /\ i \in DOMAIN plans /\ at \in plans[i].blocks
    OBVIOUS
  <2>5. /\ a \in Int /\ a = height - tile[1] * TileSize
        /\ b \in Int /\ b = width - tile[2] * TileSize
    BY <1>3
  <2>6. Whole(shape) /\ CellsOf(y.to) \in SUBSET CellsOf(shape) /\ CellsOf(y.to) \in SUBSET (Int \X Int)
    BY <1>6, <2>2, <2>3, <2>4, <2>5, PartInside
  <2> QED
    BY <2>6
<1>8. shape.row = 0 /\ shape.col = 0 /\ shape.height = ha /\ shape.width = wb
  BY <1>5, WindowFacts
<1>9. PICK rs, cs : rs = 0 .. 0 + ha - 1 /\ cs = 0 .. 0 + wb - 1
  OBVIOUS
<1>10. CellsOf(shape) = rs \X cs
  BY <1>8, <1>9 DEF CellsOf
<1>11. rs \in SUBSET Int /\ cs \in SUBSET Int /\ IsFiniteSet(rs) /\ IsFiniteSet(cs)
  <2>1. 0 \in Int /\ 0 + ha - 1 \in Int /\ 0 + wb - 1 \in Int
    OBVIOUS
  <2>2. IsFiniteSet(rs) /\ IsFiniteSet(cs)
    BY <1>9, <2>1, FS_Interval
  <2> QED
    BY <1>9, <2>2
<1>12. IsFiniteSet(CellsOf(shape)) /\ CellsOf(shape) \in SUBSET (Int \X Int)
  <2>1. IsFiniteSet(rs \X cs)
    BY <1>11, FS_Product
  <2> QED
    BY <1>10, <1>11, <2>1
<1>13. \A x \in cells : \E y \in sched[tile] : x \in CellsOf(y.to)
  BY ComputeForm
<1>14. cells \in SUBSET CellsOf(shape)
  BY <1>7, <1>13
<1>15. IsFiniteSet(cells)
  BY <1>12, <1>14, FS_Subset
<1> QED
  BY <1>12, <1>14, <1>15

\* The same of a prepared HUC.
LEMMA CellsInFacts ==
    ASSUME IndexInv, NEW h \in Hucs, index[h] # NoIndex, NEW reaches \in Seq(Reaches),
           NEW tile \in DOMAIN ScheduleIn(h, reaches)
    PROVE  /\ tile \in Nat \X Nat
           /\ CellsIn(h, reaches, tile) \in SUBSET (Int \X Int)
           /\ IsFiniteSet(CellsIn(h, reaches, tile))
<1>1. PICK plans, block, height, width, sched :
        /\ plans = PlansIn(h, reaches) /\ block = index[h].block
        /\ height = index[h].height /\ width = index[h].width
        /\ sched = ScheduleIn(h, reaches)
  OBVIOUS
<1>2. PlansFit(plans, block, height, width)
  BY <1>1, HucFacts
<1>3. sched = ScheduleTiles(block, plans) /\ tile \in DOMAIN sched
  BY <1>1 DEF ScheduleIn
<1>4. PICK cells : cells = ComputeTile(h, plans, sched[tile])
  OBVIOUS
<1>5. CellsIn(h, reaches, tile) = cells
  BY <1>1, <1>4 DEF CellsIn
<1>6. tile \in Nat \X Nat
  BY <1>2, <1>3, TilesAndParts
<1>7. cells \in SUBSET (Int \X Int) /\ IsFiniteSet(cells)
  BY <1>2, <1>3, <1>4, CellsOfPartsFacts
<1> QED
  BY <1>5, <1>6, <1>7

\* The next tile is one of those that are left.
LEMMA NextTileFacts ==
    ASSUME NEW left \in SUBSET (Nat \X Nat), left # {}
    PROVE  NextTile(left) \in left
<1>1. PICK rows : rows = {r \in Nat : \E t \in left : t[1] = r}
  OBVIOUS
<1>2. rows \in SUBSET Nat /\ rows # {}
  BY <1>1
<1>3. PICK r \in rows : \A k \in rows : r <= k
  BY <1>2, LeastExists
<1>4. PICK cols : cols = {c \in Nat : \E t \in left : t[1] = r /\ t[2] = c}
  OBVIOUS
<1>5. cols \in SUBSET Nat /\ cols # {}
  BY <1>1, <1>3, <1>4
<1>6. PICK c \in cols : \A k \in cols : c <= k
  BY <1>5, LeastExists
<1>7. PICK t \in left : t[1] = r /\ t[2] = c
  BY <1>4, <1>6
<1>8. ASSUME NEW u \in left PROVE t[1] < u[1] \/ (t[1] = u[1] /\ t[2] <= u[2])
  <2>1. u[1] \in Nat /\ u[2] \in Nat /\ t[1] \in Nat /\ t[2] \in Nat
    OBVIOUS
  <2>2. r <= u[1]
    BY <1>1, <1>3, <2>1
  <2>3. u[1] = r => c <= u[2]
    BY <1>4, <1>6, <2>1
  <2> QED
    BY <1>7, <2>1, <2>2, <2>3
<1>9. \E x \in left : \A u \in left : x[1] < u[1] \/ (x[1] = u[1] /\ x[2] <= u[2])
  BY <1>7, <1>8
<1> QED
  BY <1>9 DEF NextTile

\* The crop of a wet tile starts at whole cells.
LEMMA CroppedFacts ==
    ASSUME NEW cells \in SUBSET (Int \X Int), IsFiniteSet(cells), cells # {}
    PROVE  \E r, c \in Int : \E a, b : Cropped(cells) = Window(r, c, a, b)
<1>1. PICK f, g : f = [c \in cells |-> c[1]] /\ g = [c \in cells |-> c[2]]
  OBVIOUS
<1>2. PICK rs, cs : rs = {c[1] : c \in cells} /\ cs = {c[2] : c \in cells}
  OBVIOUS
<1>3. IsFiniteSet({f[c] : c \in cells}) /\ IsFiniteSet({g[c] : c \in cells})
  <2>1. f = [c \in cells |-> f[c]] /\ g = [c \in cells |-> g[c]]
    BY <1>1
  <2> QED
    BY <2>1, FiniteImage
<1>4. rs = {f[c] : c \in cells} /\ cs = {g[c] : c \in cells}
  BY <1>1, <1>2
<1>5. IsFiniteSet(rs) /\ IsFiniteSet(cs)
  BY <1>3, <1>4
<1>6. rs \in SUBSET Int /\ cs \in SUBSET Int /\ rs # {} /\ cs # {}
  BY <1>2
<1>7. PICK R, C, m, n : R = Ascending(rs) /\ C = Ascending(cs) /\ m = Cardinality(rs) /\ n = Cardinality(cs)
  OBVIOUS
<1>8. m \in Nat /\ DOMAIN R = 1 .. m /\ R \in Seq(rs) /\ (\A i \in 1 .. m : R[i] \in rs)
      /\ \A x \in rs : \E i \in 1 .. m : R[i] = x
  BY <1>5, <1>6, <1>7, AscendingFacts
<1>9. n \in Nat /\ DOMAIN C = 1 .. n /\ C \in Seq(cs) /\ (\A i \in 1 .. n : C[i] \in cs)
      /\ \A x \in cs : \E i \in 1 .. n : C[i] = x
  BY <1>5, <1>6, <1>7, AscendingFacts
<1>10. Head(R) \in Int /\ Head(C) \in Int
  <2>0. PICK x \in rs, y \in cs : TRUE
    BY <1>6
  <2>1. 1 \in 1 .. m /\ 1 \in 1 .. n
    <3>1. PICK i \in 1 .. m : R[i] = x
      BY <1>8
    <3>2. PICK j \in 1 .. n : C[j] = y
      BY <1>9
    <3> QED
      BY <1>8, <1>9, <3>1, <3>2
  <2>2. Head(R) = R[1] /\ Head(C) = C[1]
    BY <1>8, <1>9
  <2> QED
    BY <1>6, <1>8, <1>9, <2>1, <2>2
<1>11. PICK r, c \in Int : r = Head(R) /\ c = Head(C)
  BY <1>10
<1>12. PICK a, b : a = Last(R) - Head(R) + 1 /\ b = Last(C) - Head(C) + 1
  OBVIOUS
<1>13. Cropped(cells) = Window(r, c, a, b)
  BY <1>2, <1>7, <1>11, <1>12 DEF Cropped
<1> QED
  BY <1>13

\* The cells of an object, where its entry places them on the grid.
PlacedCells(content, at) == {<<c[1] + at.row, c[2] + at.col>> : c \in content}
LaidCells(cells, tile) == {OnGrid(tile, c) : c \in cells}

\* What is written of a wet tile lies where its cells were computed.
LEMMA ContentFacts ==
    ASSUME NEW cells \in SUBSET (Int \X Int), IsFiniteSet(cells), cells # {},
           NEW tile \in Nat \X Nat, NEW w, w = Cropped(cells),
           NEW at, at = Moved(w, -tile[1] * TileSize, -tile[2] * TileSize)
    PROVE  PlacedCells(Content(cells, w), at) = LaidCells(cells, tile) /\ Content(cells, w) # {}
<1>0. TileSize \in Nat \ {0}
  BY StreamAssumption
<1>1. PICK r, c \in Int : \E a, b : w = Window(r, c, a, b)
  BY CroppedFacts
<1>2. PICK a, b : w = Window(r, c, a, b)
  BY <1>1
<1>3. w.row = r /\ w.col = c
  BY <1>2, WindowFacts
<1>4. PICK t1, t2 \in Nat : t1 = tile[1] /\ t2 = tile[2]
  OBVIOUS
<1>5. PICK u, v \in Int : u = t1 * TileSize /\ v = t2 * TileSize
  BY <1>0
<1>6. PICK nu, nv \in Int : nu = -t1 * TileSize /\ nv = -t2 * TileSize
  BY <1>0
<1>7. nu = -u /\ nv = -v
  <2>1. PICK d \in Int : d = TileSize
    BY <1>0
  <2>2. nu = -t1 * d /\ nv = -t2 * d /\ u = t1 * d /\ v = t2 * d
    BY <1>5, <1>6, <2>1
  <2> QED
    BY <2>2
<1>8. at = Moved(Window(r, c, a, b), nu, nv)
  BY <1>2, <1>4, <1>6
<1>9. at.row = r - nu /\ at.col = c - nv
  BY <1>8, MovedFacts
<1>10. at.row = r + u /\ at.col = c + v
  BY <1>7, <1>9
<1>11. \A y : y \in Content(cells, w) <=> \E x \in cells : y = <<x[1] - r, x[2] - c>>
  BY <1>3 DEF Content
<1>12. \A g : g \in PlacedCells(Content(cells, w), at) <=>
         \E y \in Content(cells, w) : g = <<y[1] + (r + u), y[2] + (c + v)>>
  BY <1>10 DEF PlacedCells
<1>13. \A g : g \in LaidCells(cells, tile) <=> \E x \in cells : g = <<x[1] + u, x[2] + v>>
  BY <1>4, <1>5 DEF LaidCells, OnGrid
<1>14. ASSUME NEW x \in cells
       PROVE  /\ <<x[1] - r, x[2] - c>>[1] + (r + u) = x[1] + u
              /\ <<x[1] - r, x[2] - c>>[2] + (c + v) = x[2] + v
  <2>1. PICK x1, x2 \in Int : x1 = x[1] /\ x2 = x[2]
    OBVIOUS
  <2>2. PICK m, n \in Int : m = x1 - r /\ n = x2 - c
    OBVIOUS
  <2>3. <<m, n>>[1] = m /\ <<m, n>>[2] = n
    OBVIOUS
  <2>4. m + (r + u) = x1 + u /\ n + (c + v) = x2 + v
    BY <2>2
  <2> QED
    BY <2>1, <2>2, <2>3, <2>4
<1>15. \A g : g \in PlacedCells(Content(cells, w), at) <=> g \in LaidCells(cells, tile)
  <2>1. ASSUME NEW g, g \in PlacedCells(Content(cells, w), at) PROVE g \in LaidCells(cells, tile)
    <3>1. PICK y \in Content(cells, w) : g = <<y[1] + (r + u), y[2] + (c + v)>>
      BY <1>12, <2>1
    <3>2. PICK x \in cells : y = <<x[1] - r, x[2] - c>>
      BY <1>11, <3>1
    <3>3. g = <<x[1] + u, x[2] + v>>
      BY <1>14, <3>1, <3>2
    <3> QED
      BY <1>13, <3>3
  <2>2. ASSUME NEW g, g \in LaidCells(cells, tile) PROVE g \in PlacedCells(Content(cells, w), at)
    <3>1. PICK x \in cells : g = <<x[1] + u, x[2] + v>>
      BY <1>13, <2>2
    <3>2. PICK y : y = <<x[1] - r, x[2] - c>>
      OBVIOUS
    <3>3. y \in Content(cells, w)
      BY <1>11, <3>2
    <3>4. g = <<y[1] + (r + u), y[2] + (c + v)>>
      BY <1>14, <3>1, <3>2
    <3> QED
      BY <1>12, <3>3, <3>4
  <2> QED
    BY <2>1, <2>2
<1>16. Content(cells, w) # {}
  BY <1>11
<1> QED
  BY <1>15, <1>16

\* What the command computes depends on the sources, the indexes and the rule.
LEMMA Frozen ==
    ASSUME source' = source, index' = index, rule' = rule, NEW h, NEW reaches
    PROVE  /\ PlansIn(h, reaches)' = PlansIn(h, reaches)
           /\ ScheduleIn(h, reaches)' = ScheduleIn(h, reaches)
           /\ \A tile : CellsIn(h, reaches, tile)' = CellsIn(h, reaches, tile)
           /\ WetTiles(h, reaches)' = WetTiles(h, reaches)
           /\ RefFlood(h, reaches)' = RefFlood(h, reaches)
           /\ MissingIn(h, reaches)' = MissingIn(h, reaches)
<1>1. PlansIn(h, reaches)' = PlansIn(h, reaches)
  BY DEF PlansIn
<1>2. ScheduleIn(h, reaches)' = ScheduleIn(h, reaches)
  BY <1>1 DEF ScheduleIn
<1>3. ASSUME NEW plans, NEW parts
      PROVE ComputeTile(h, plans, parts)' = ComputeTile(h, plans, parts)
  BY DEF ComputeTile, Wet, Deep
<1>4. ASSUME NEW tile PROVE CellsIn(h, reaches, tile)' = CellsIn(h, reaches, tile)
  BY <1>1, <1>2, <1>3 DEF CellsIn
<1>5. WetTiles(h, reaches)' = WetTiles(h, reaches)
  BY <1>2, <1>4 DEF WetTiles
<1>6. RefFlood(h, reaches)' = RefFlood(h, reaches)
  BY DEF RefFlood, RefRows, Deep
<1>7. MissingIn(h, reaches)' = MissingIn(h, reaches)
  BY DEF MissingIn, AbsentIn, KnownIn
<1> QED
  BY <1>1, <1>2, <1>4, <1>5, <1>6, <1>7

\* What is missing depends on the sources and indexes only.
LEMMA FrozenMissing ==
    ASSUME source' = source, index' = index, NEW scenario, NEW k
    PROVE  MissingUpTo(scenario, k)' = MissingUpTo(scenario, k)
BY DEF MissingUpTo, MissingIn, AbsentIn, KnownIn

\* The reaches missing from one HUC more.
LEMMA MissingGrows ==
    ASSUME IndexInv, NEW scenarios \in Requests, NEW n \in 1 .. Len(scenarios),
           NEW scenario, scenario = scenarios[n], NEW hs, hs = HucsOf(scenario),
           NEW k \in Nat, k < Len(hs), \A i \in 1 .. k + 1 : index[hs[i]] # NoIndex
    PROVE  MissingUpTo(scenario, k + 1) =
             MissingUpTo(scenario, k) \o MissingIn(hs[k + 1], scenario.reaches)
<1>1. PICK reaches \in Seq(Reaches) : reaches = scenario.reaches
  BY RequestFacts
<1>2. hs \in Seq(Hucs) /\ Len(hs) \in Nat
  BY RequestFacts
<1>3. ASSUME NEW i \in 1 .. k + 1 PROVE MissingIn(hs[i], reaches) \in Seq(Int \X Int)
  <2>1. hs[i] \in Hucs /\ index[hs[i]] # NoIndex
    BY <1>2
  <2>2. PICK h \in Hucs : h = hs[i]
    BY <2>1
  <2>3. PICK missing : missing = PlanHuc(index[h], FirstDischarges(reaches, h)).missing
    OBVIOUS
  <2>4. MissingIn(h, reaches) \in Seq(Int \X Int)
    BY <2>1, <2>2, <2>3, HucMissing
  <2> QED
    BY <2>2, <2>4
<1>4. PICK s : s = [i \in 1 .. k |-> MissingIn(hs[i], reaches)]
  OBVIOUS
<1>5. PICK x : x = MissingIn(hs[k + 1], reaches)
  OBVIOUS
<1>6. PICK T : T = Seq(Int \X Int)
  OBVIOUS
<1>7. x \in T /\ \A i \in 1 .. k : MissingIn(hs[i], reaches) \in T
  BY <1>3, <1>5, <1>6
<1>8. s \in [1 .. k -> T]
  BY <1>4, <1>7
<1>9. s \in Seq(T) /\ Len(s) = k
  BY <1>8
<1>10. PICK z : z = [i \in 1 .. k + 1 |-> MissingIn(hs[i], reaches)]
  OBVIOUS
<1>11. z = Append(s, x)
  <2>1. z \in [1 .. k + 1 -> T]
    BY <1>3, <1>6, <1>10
  <2>2. z \in Seq(T) /\ Len(z) = k + 1
    BY <2>1
  <2>3. \A i \in 1 .. k : z[i] = s[i]
    BY <1>4, <1>10
  <2>4. z[k + 1] = x
    BY <1>5, <1>10
  <2> QED
    BY <1>7, <1>9, <2>2, <2>3, <2>4
<1>12. FlattenSeq(z) = FlattenSeq(s) \o x
  <2>1. s \in Seq(Seq(Int \X Int)) /\ x \in Seq(Int \X Int)
    BY <1>6, <1>7, <1>9
  <2>2. FlattenSeq(Append(s, x)) = FlattenSeq(s) \o x
    BY <2>1, FlattenAppend
  <2> QED
    BY <1>11, <2>2
<1>13. MissingUpTo(scenario, k + 1) = FlattenSeq(z) /\ MissingUpTo(scenario, k) = FlattenSeq(s)
  BY <1>1, <1>4, <1>10 DEF MissingUpTo
<1> QED
  BY <1>1, <1>5, <1>12, <1>13

\* Before the first HUC there is none.
LEMMA MissingStarts ==
    ASSUME NEW scenario
    PROVE  MissingUpTo(scenario, 0) = <<>>
<1>1. PICK s : s = [i \in 1 .. 0 |-> MissingIn(HucsOf(scenario)[i], scenario.reaches)]
  OBVIOUS
<1>2. s = <<>>
  BY <1>1
<1>3. FlattenSeq(s) = <<>>
  BY <1>2 DEF FlattenSeq
<1> QED
  BY <1>1, <1>3 DEF MissingUpTo

\* An entry holds its tile as long as its object stays.
LEMMA HoldsKept ==
    ASSUME source' = source, index' = index, rule' = rule,
           NEW t, NEW id, NEW h, NEW reaches, NEW tile, Holds(t, id, h, reaches, tile),
           t.key \in DOMAIN objects', objects'[t.key] = objects[t.key]
    PROVE  Holds(t, id, h, reaches, tile)'
<1>1. CellsIn(h, reaches, tile)' = CellsIn(h, reaches, tile)
  BY Frozen
<1>2. CellsOfTile(t)' = CellsOfTile(t)
  BY DEF CellsOfTile
<1>3. /\ t.huc = h /\ t.key = <<id, h, tile[1], tile[2]>>
      /\ t.key \in DOMAIN objects' /\ objects'[t.key] # {}
  BY DEF Holds
<1>4. CellsOfTile(t) = {OnGrid(tile, c) : c \in CellsIn(h, reaches, tile)}
  BY DEF Holds
<1>5. CellsOfTile(t)' = {OnGrid(tile, c) : c \in CellsIn(h, reaches, tile)'}
  BY <1>1, <1>2, <1>4
<1> QED
  BY <1>3, <1>5 DEF Holds

\* A manifest stays right as long as the objects of its scenario stay.
LEMMA ManifestKept ==
    ASSUME source' = source, index' = index, rule' = rule, NEW m, NEW scenario,
           \A x \in DOMAIN objects :
             x[1] = scenario.id => x \in DOMAIN objects' /\ objects'[x] = objects[x],
           ManifestOk(m, scenario)
    PROVE  ManifestOk(m, scenario)'
<1>1. /\ m.tiles \in Seq(ToSet(m.tiles))
      /\ \A t \in ToSet(m.tiles) : t.key[1] = scenario.id /\ t.key \in DOMAIN objects
      /\ (\A t \in ToSet(m.tiles) : objects[t.key] # {}) \/ Len(m.tiles) = 1
  BY DEF ManifestOk
<1>2. \A t \in ToSet(m.tiles) : t.key \in DOMAIN objects' /\ objects'[t.key] = objects[t.key]
  BY <1>1
<1>3. \A t \in ToSet(m.tiles) : CellsOfTile(t)' = CellsOfTile(t)
  BY <1>2 DEF CellsOfTile
<1>4. ASSUME NEW h, h \in {r.huc : r \in ToSet(scenario.reaches)}
      PROVE  UNION {CellsOfTile(t)' : t \in {u \in ToSet(m.tiles) : u.huc = h}}
               = RefFlood(h, scenario.reaches)'
  <2>1. UNION {CellsOfTile(t) : t \in {u \in ToSet(m.tiles) : u.huc = h}} = RefFlood(h, scenario.reaches)
    BY <1>4 DEF ManifestOk
  <2>2. UNION {CellsOfTile(t)' : t \in {u \in ToSet(m.tiles) : u.huc = h}}
          = UNION {CellsOfTile(t) : t \in {u \in ToSet(m.tiles) : u.huc = h}}
    BY <1>3
  <2>3. RefFlood(h, scenario.reaches)' = RefFlood(h, scenario.reaches)
    BY Frozen
  <2> QED
    BY <2>1, <2>2, <2>3
<1>5. m.missing = MissingUpTo(scenario, Len(HucsOf(scenario)))'
  <2>1. m.missing = MissingUpTo(scenario, Len(HucsOf(scenario)))
    BY DEF ManifestOk
  <2>2. PICK k : k = Len(HucsOf(scenario))
    OBVIOUS
  <2>3. MissingUpTo(scenario, k)' = MissingUpTo(scenario, k)
    BY FrozenMissing
  <2> QED
    BY <2>1, <2>2, <2>3
<1>6. (\A t \in ToSet(m.tiles) : objects'[t.key] # {}) \/ Len(m.tiles) = 1
  BY <1>1, <1>2
<1> QED
  BY <1>1, <1>2, <1>4, <1>5, <1>6 DEF ManifestOk

\* The manifests that are there stay right, when the objects that change are
\* another scenario's.
LEMMA ManifestsKept ==
    ASSUME StreamTypes, ManifestsOk, source' = source, index' = index, rule' = rule,
           request' = request, request \in Requests, Len(manifests) < Len(request),
           NEW id, id = Scenario.id,
           \A x \in DOMAIN objects :
             x[1] # id => x \in DOMAIN objects' /\ objects'[x] = objects[x]
    PROVE  \A n \in 1 .. Len(manifests) :
             \A m \in {manifests[n]} : \A scenario \in {request[n]} : ManifestOk(m, scenario)'
<1>1. PICK c \in Nat : c = Len(manifests)
  BY DEF StreamTypes
<1>2. PICK scenarios : scenarios = request
  OBVIOUS
<1>3. /\ scenarios \in Seq([id : Int, reaches : Seq([huc : Hucs, feature : Int, flow : Int])])
      /\ \A m, o \in DOMAIN scenarios : scenarios[m].id = scenarios[o].id => m = o
  BY <1>2, StreamAssumption
<1>4. DOMAIN scenarios = 1 .. Len(scenarios) /\ Len(scenarios) \in Nat
  BY <1>3
<1>5. ASSUME NEW n \in 1 .. c, NEW m, m = manifests[n], NEW scenario, scenario = scenarios[n]
      PROVE  ManifestOk(m, scenario)'
  <2>1. ManifestOk(m, scenario)
    BY <1>1, <1>2, <1>5 DEF ManifestsOk
  <2>2. scenario.id # id
    <3>1. n \in 1 .. Len(scenarios) /\ c + 1 \in 1 .. Len(scenarios) /\ n # c + 1
      BY <1>1, <1>2, <1>4
    <3>2. id = scenarios[c + 1].id
      BY <1>1, <1>2 DEF Scenario
    <3> QED
      BY <1>3, <1>4, <1>5, <3>1, <3>2
  <2>3. \A x \in DOMAIN objects :
          x[1] = scenario.id => x \in DOMAIN objects' /\ objects'[x] = objects[x]
    BY <2>2
  <2> QED
    BY <2>1, <2>3, ManifestKept
<1> QED
  BY <1>1, <1>2, <1>5

\* The scenario at hand.
LEMMA ScenarioFacts ==
    ASSUME StreamTypes, Len(manifests) < Len(request)
    PROVE  /\ request \in Requests /\ request # <<>>
           /\ Len(manifests) \in Nat /\ Len(request) \in Nat
           /\ Len(manifests) + 1 \in 1 .. Len(request)
           /\ Scenario = request[Len(manifests) + 1]
<1>1. Len(manifests) \in Nat
  BY DEF StreamTypes
<1>2. request # <<>>
  BY <1>1
<1>3. request \in Requests
  BY <1>2 DEF StreamTypes
<1>4. Len(request) \in Nat
  BY <1>3, StreamAssumption
<1> QED
  BY <1>1, <1>2, <1>3, <1>4 DEF Scenario

\* Nothing is written and nothing is at hand before the command starts.
LEMMA IdleStream ==
    ASSUME work' = Idle, manifests' = <<>>, request' \in Requests \cup {<<>>},
           rule' \in {"pinned"} \cup Rules
    PROVE  StreamInv'
<1>1. WorkShape' /\ work'.at = "idle" /\ work'.current = NoPlan
  BY DEF WorkShape, Idle
<1>2. Len(request') \in Nat
  BY StreamAssumption
<1>3. manifests' \in Seq(ToSet(manifests')) /\ Len(manifests') = 0
  OBVIOUS
<1>4. StreamTypes'
  BY <1>1, <1>2, <1>3 DEF StreamTypes
<1>5. CurrentOk'
  BY <1>1 DEF CurrentOk
<1>6. ManifestsOk'
  <2>1. 1 .. Len(manifests') = {}
    BY <1>3
  <2> QED
    BY <2>1 DEF ManifestsOk
<1>7. WorkOk'
  BY <1>1 DEF WorkOk
<1> QED
  BY <1>4, <1>5, <1>6, <1>7 DEF StreamInv

\* StreamInv holds initially.
LEMMA StreamInvInit == Init => StreamInv
<1> SUFFICES ASSUME Init PROVE StreamInv
  OBVIOUS
<1>0. work = Idle /\ manifests = <<>> /\ request = <<>> /\ rule = "pinned"
  BY DEF Init, StreamInit
<1>1. WorkShape /\ work.at = "idle" /\ work.current = NoPlan
  BY <1>0 DEF WorkShape, Idle
<1>3. manifests \in Seq(ToSet(manifests)) /\ Len(manifests) = 0 /\ Len(request) = 0
  BY <1>0
<1>4. StreamTypes
  BY <1>0, <1>1, <1>3 DEF StreamTypes
<1>5. CurrentOk
  BY <1>1 DEF CurrentOk
<1>6. ManifestsOk
  <2>1. 1 .. Len(manifests) = {}
    BY <1>3
  <2> QED
    BY <2>1 DEF ManifestsOk
<1>7. WorkOk
  BY <1>1 DEF WorkOk
<1> QED
  BY <1>4, <1>5, <1>6, <1>7 DEF StreamInv

\* The plans at hand stay.
LEMMA CurrentKept ==
    ASSUME source' = source, index' = index, rule' = rule, CurrentOk,
           work'.current = work.current
    PROVE  CurrentOk'
<1>1. ASSUME NEW h, NEW reaches
      PROVE  PlansIn(h, reaches)' = PlansIn(h, reaches) /\ ScheduleIn(h, reaches)' = ScheduleIn(h, reaches)
  BY Frozen
<1>2. CASE work.current = NoPlan
  BY <1>2 DEF CurrentOk
<1>3. CASE work.current # NoPlan
  <2>1. PICK h \in Hucs : \E reaches \in Seq(Reaches) :
          /\ index[h] # NoIndex
          /\ work.current = [huc |-> h, plans |-> PlansIn(h, reaches), schedule |-> ScheduleIn(h, reaches)]
    BY <1>3 DEF CurrentOk
  <2>2. PICK reaches \in Seq(Reaches) :
          /\ index[h] # NoIndex
          /\ work.current = [huc |-> h, plans |-> PlansIn(h, reaches), schedule |-> ScheduleIn(h, reaches)]
    BY <2>1
  <2>3. /\ index'[h] # NoIndex
        /\ work'.current = [huc |-> h, plans |-> PlansIn(h, reaches)', schedule |-> ScheduleIn(h, reaches)']
    BY <1>1, <2>2
  <2> QED
    BY <2>3 DEF CurrentOk
<1> QED
  BY <1>2, <1>3

\* What is planned of a scenario stays.
LEMMA PlannedKept ==
    ASSUME source' = source, index' = index, rule' = rule, work' = work,
           NEW k, NEW scenario, Planned(k, scenario)
    PROVE  Planned(k, scenario)'
<1>1. PICK hs, reaches : hs = HucsOf(scenario) /\ reaches = scenario.reaches
  OBVIOUS
<1>2. PICK h : h = hs[k]
  OBVIOUS
<1>3. PlansIn(h, reaches)' = PlansIn(h, reaches) /\ ScheduleIn(h, reaches)' = ScheduleIn(h, reaches)
  BY Frozen
<1>4. MissingUpTo(scenario, k)' = MissingUpTo(scenario, k)
  BY FrozenMissing
<1>5. /\ k \in 0 .. Len(hs)
      /\ work.todo \in Seq(Int) /\ Len(work.todo) = Len(hs) - k
      /\ \A j \in 1 .. Len(work.todo) : work.todo[j] = hs[k + j]
      /\ \A i \in 1 .. k : index[hs[i]] # NoIndex
      /\ work.missing = MissingUpTo(scenario, k)
      /\ work.at = "plan" => work.left = {}
      /\ work.at = "tiles" =>
           /\ k > 0 /\ work.left \in SUBSET DOMAIN ScheduleIn(h, reaches)
           /\ work.current = [huc |-> h, plans |-> PlansIn(h, reaches), schedule |-> ScheduleIn(h, reaches)]
  BY <1>1, <1>2 DEF Planned
<1> QED
  BY <1>1, <1>2, <1>3, <1>4, <1>5 DEF Planned

\* What is written of it stays.
LEMMA WrittenKept ==
    ASSUME source' = source, index' = index, rule' = rule, objects' = objects,
           work'.tiles = work.tiles, work'.left = work.left, work'.dry = work.dry,
           NEW k, NEW scenario, Written(k, scenario)
    PROVE  Written(k, scenario)'
<1>1. PICK hs, reaches, id : hs = HucsOf(scenario) /\ reaches = scenario.reaches /\ id = scenario.id
  OBVIOUS
<1>2. \A h : WetTiles(h, reaches)' = WetTiles(h, reaches)
  BY Frozen
<1>3. ASSUME NEW t, NEW h, NEW tile, Holds(t, id, h, reaches, tile)
      PROVE  Holds(t, id, h, reaches, tile)'
  <2>1. t.key \in DOMAIN objects' /\ objects'[t.key] = objects[t.key]
    BY <1>3 DEF Holds
  <2> QED
    BY <1>3, <2>1, HoldsKept
<1>4. /\ work.tiles \in Seq(ToSet(work.tiles))
      /\ \A t \in ToSet(work.tiles) : \E i \in 1 .. k :
           \E tile \in WetTiles(hs[i], reaches) :
             /\ Holds(t, id, hs[i], reaches, tile)
             /\ i = k => tile \notin work.left
      /\ \A i \in 1 .. k : \A tile \in WetTiles(hs[i], reaches) :
           \/ i = k /\ tile \in work.left
           \/ \E t \in ToSet(work.tiles) : Holds(t, id, hs[i], reaches, tile)
      /\ work.dry = NoTile \/ (work.dry.key[1] = id)
  BY <1>1 DEF Written
<1>5. \A t \in ToSet(work'.tiles) : \E i \in 1 .. k :
           \E tile \in WetTiles(hs[i], reaches)' :
             /\ Holds(t, id, hs[i], reaches, tile)'
             /\ i = k => tile \notin work'.left
  BY <1>2, <1>3, <1>4
<1>6. \A i \in 1 .. k : \A tile \in WetTiles(hs[i], reaches)' :
           \/ i = k /\ tile \in work'.left
           \/ \E t \in ToSet(work'.tiles) : Holds(t, id, hs[i], reaches, tile)'
  BY <1>2, <1>3, <1>4
<1>7. work'.tiles \in Seq(ToSet(work'.tiles)) /\ (work'.dry = NoTile \/ (work'.dry.key[1] = id))
  BY <1>4
<1> QED
  BY <1>1, <1>5, <1>6, <1>7 DEF Written

\* A step of another mode.
LEMMA StreamUnmoved ==
    ASSUME StreamInv, UNCHANGED indexVars, UNCHANGED streamVars
    PROVE  StreamInv'
<1>1. /\ source' = source /\ index' = index /\ root' = root /\ rule' = rule /\ request' = request
      /\ work' = work /\ objects' = objects /\ manifests' = manifests
  BY DEF indexVars, streamVars
<1>2. StreamTypes'
  BY <1>1 DEF StreamInv, StreamTypes, WorkShape
<1>3. CurrentOk'
  BY <1>1, CurrentKept DEF StreamInv
<1>4. ManifestsOk'
  <2>1. ASSUME NEW m, NEW scenario, ManifestOk(m, scenario) PROVE ManifestOk(m, scenario)'
    <3>1. \A x \in DOMAIN objects :
             x[1] = scenario.id => x \in DOMAIN objects' /\ objects'[x] = objects[x]
      BY <1>1
    <3> QED
      BY <1>1, <2>1, <3>1, ManifestKept
  <2> QED
    BY <1>1, <2>1 DEF StreamInv, ManifestsOk
<1>5. WorkOk'
  <2>1. ASSUME work.at \in {"plan", "tiles"}
        PROVE  /\ Len(manifests') < Len(request')
               /\ \E scenario \in {Scenario'} : \E k \in 0 .. Len(HucsOf(scenario)) :
                    Planned(k, scenario)' /\ Written(k, scenario)'
    <3>1. Len(manifests) < Len(request)
      BY <2>1 DEF StreamInv, WorkOk
    <3>2. PICK scenario : scenario = Scenario /\ \E k \in 0 .. Len(HucsOf(scenario)) :
             Planned(k, scenario) /\ Written(k, scenario)
      BY <2>1 DEF StreamInv, WorkOk
    <3>3. PICK k \in 0 .. Len(HucsOf(scenario)) : Planned(k, scenario) /\ Written(k, scenario)
      BY <3>2
    <3>4. Planned(k, scenario)'
      BY <1>1, <3>3, PlannedKept
    <3>5. Written(k, scenario)'
      BY <1>1, <3>3, WrittenKept
    <3>6. Scenario' = scenario
      BY <1>1, <3>2 DEF Scenario
    <3> QED
      BY <1>1, <3>1, <3>4, <3>5, <3>6
  <2> QED
    BY <1>1, <2>1 DEF WorkOk
<1> QED
  BY <1>2, <1>3, <1>4, <1>5 DEF StreamInv

\* A step of the scenario at hand keeps what is not its own.
LEMMA StepWithin ==
    ASSUME StreamInv, UNCHANGED indexVars, request' = request, rule' = rule, manifests' = manifests,
           Len(manifests) < Len(request), NEW scenario, scenario = Scenario,
           \A x \in DOMAIN objects :
             x[1] # scenario.id => x \in DOMAIN objects' /\ objects'[x] = objects[x],
           WorkShape', work'.at \in {"idle", "plan", "tiles", "failed"}, CurrentOk',
           work'.at \in {"plan", "tiles"} =>
             \E k \in 0 .. Len(HucsOf(scenario)) : Planned(k, scenario)' /\ Written(k, scenario)'
    PROVE  StreamInv'
<1>1. source' = source /\ index' = index
  BY DEF indexVars
<1>2. StreamTypes /\ ManifestsOk
  BY DEF StreamInv
<1>3. request \in Requests /\ request # <<>>
  BY <1>2, ScenarioFacts
<1>4. StreamTypes'
  BY <1>2, <1>3 DEF StreamTypes
<1>5. PICK id : id = scenario.id /\ id = Scenario.id
  OBVIOUS
<1>6. \A n \in 1 .. Len(manifests) :
             \A m \in {manifests[n]} : \A s \in {request[n]} : ManifestOk(m, s)'
  <2>1. \A x \in DOMAIN objects : x[1] # id => x \in DOMAIN objects' /\ objects'[x] = objects[x]
    BY <1>5
  <2> QED
    BY <1>1, <1>2, <1>3, <1>5, <2>1, ManifestsKept
<1>7. ManifestsOk'
  BY <1>6 DEF ManifestsOk
<1>8. Scenario' = scenario
  BY DEF Scenario
<1>9. WorkOk'
  BY <1>8 DEF WorkOk
<1> QED
  BY <1>4, <1>7, <1>9 DEF StreamInv

\* The scenario stops.
LEMMA ScenarioStops ==
    ASSUME StreamInv, UNCHANGED indexVars, request' = request, rule' = rule, manifests' = manifests,
           objects' = objects, Len(manifests) < Len(request),
           work' = [work EXCEPT !.at = "failed"]
    PROVE  StreamInv'
<1>1. PICK scenario : scenario = Scenario
  OBVIOUS
<1>2. WorkShape
  BY DEF StreamInv, StreamTypes
<1>3. WorkShape' /\ work'.at = "failed" /\ work'.current = work.current
  BY <1>2 DEF WorkShape
<1>4. source' = source /\ index' = index
  BY DEF indexVars
<1>5. CurrentOk'
  BY <1>3, <1>4, CurrentKept DEF StreamInv
<1> QED
  BY <1>1, <1>3, <1>5, StepWithin

\* It starts: no HUC is planned yet.
LEMMA StartScenarioStep ==
    ASSUME IndexInv, StreamInv, UNCHANGED indexVars, StartScenario
    PROVE  StreamInv'
<1>1. /\ Len(manifests) < Len(request) /\ request' = request /\ rule' = rule
      /\ objects' = objects /\ manifests' = manifests
  BY DEF StartScenario
<1>2. CASE root = 0
  <2>1. work' = [work EXCEPT !.at = "failed"]
    BY <1>2 DEF StartScenario
  <2> QED
    BY <1>1, <2>1, ScenarioStops
<1>3. CASE root # 0
  <2>1. PICK scenario, hs : scenario = Scenario /\ hs = HucsOf(scenario)
    OBVIOUS
  <2>2. work' = [Idle EXCEPT !.at = "plan", !.todo = hs]
    BY <1>3, <2>1 DEF StartScenario
  <2>3. /\ WorkShape' /\ work'.at = "plan" /\ work'.todo = hs /\ work'.current = NoPlan
        /\ work'.left = {} /\ work'.tiles = <<>> /\ work'.dry = NoTile /\ work'.missing = <<>>
    BY <2>2 DEF WorkShape, Idle
  <2>4. PICK scenarios, n : scenarios = request /\ n = Len(manifests) + 1
    OBVIOUS
  <2>5. scenarios \in Requests /\ n \in 1 .. Len(scenarios) /\ scenario = scenarios[n]
    BY <1>1, <2>1, <2>4, ScenarioFacts DEF StreamInv
  <2>6. hs \in Seq(Hucs) /\ Len(hs) \in Nat
    BY <2>1, <2>5, RequestFacts
  <2>7. Planned(0, scenario)'
    <3>1. hs \in Seq(Int)
      <4>1. PICK m \in Nat : m = Len(hs)
        BY <2>6
      <4>2. DOMAIN hs = 1 .. m /\ \A i \in 1 .. m : hs[i] \in Hucs
        BY <2>6, <4>1
      <4>3. \A i \in 1 .. m : hs[i] \in Int
        <5>1. \A h \in Hucs : h \in Int
          BY IndexAssumption
        <5> QED
          BY <4>2, <5>1
      <4>4. hs \in [1 .. m -> Int]
        <5>1. hs = [i \in 1 .. m |-> hs[i]]
          BY <2>6, <4>1
        <5> QED
          BY <4>3, <5>1
      <4> QED
        BY <4>4
    <3>2. MissingUpTo(scenario, 0)' = <<>>
      <4>1. MissingUpTo(scenario, 0) = <<>>
        BY MissingStarts
      <4>2. source' = source /\ index' = index
        BY DEF indexVars
      <4> QED
        BY <4>1, <4>2, FrozenMissing
    <3>3. 0 \in 0 .. Len(hs) /\ Len(hs) - 0 = Len(hs) /\ \A j \in 1 .. Len(hs) : hs[j] = hs[0 + j]
      BY <2>6
    <3>4. 1 .. 0 = {}
      OBVIOUS
    <3> QED
      BY <2>1, <2>3, <3>1, <3>2, <3>3, <3>4 DEF Planned
  <2>8. Written(0, scenario)'
    <3>1. 1 .. 0 = {} /\ ToSet(<<>>) = {} /\ <<>> \in Seq({})
      BY DEF ToSet
    <3> QED
      BY <2>3, <3>1 DEF Written
  <2>9. CurrentOk'
    BY <2>3 DEF CurrentOk
  <2>10. 0 \in 0 .. Len(HucsOf(scenario))
    BY <2>1, <2>6
  <2>11. \A x \in DOMAIN objects :
           x[1] # scenario.id => x \in DOMAIN objects' /\ objects'[x] = objects[x]
    BY <1>1
  <2> QED
    BY <1>1, <2>1, <2>3, <2>7, <2>8, <2>9, <2>10, <2>11, StepWithin
<1> QED
  BY <1>2, <1>3

\* What WorkOk says of a scenario at hand.
LEMMA AtHand ==
    ASSUME StreamInv, work.at \in {"plan", "tiles"}
    PROVE  /\ Len(manifests) < Len(request)
           /\ \E n : \E scenarios \in Requests : \E scenario :
                /\ n = Len(manifests) + 1 /\ n \in 1 .. Len(scenarios) /\ scenarios = request
                /\ scenario = scenarios[n] /\ scenario = Scenario
                /\ \E k \in 0 .. Len(HucsOf(scenario)) : Planned(k, scenario) /\ Written(k, scenario)
<1>1. StreamTypes /\ WorkOk
  BY DEF StreamInv
<1>2. Len(manifests) < Len(request)
  BY <1>1 DEF WorkOk
<1>3. PICK scenario : scenario = Scenario /\ \E k \in 0 .. Len(HucsOf(scenario)) :
         Planned(k, scenario) /\ Written(k, scenario)
  BY <1>1 DEF WorkOk
<1>4. PICK n : n = Len(manifests) + 1
  OBVIOUS
<1>5. PICK scenarios : scenarios = request
  OBVIOUS
<1>6. scenarios \in Requests /\ n \in 1 .. Len(scenarios) /\ Scenario = scenarios[n]
  BY <1>1, <1>2, <1>4, <1>5, ScenarioFacts
<1> QED
  BY <1>2, <1>3, <1>4, <1>5, <1>6

\* The HUC at hand is done.
LEMMA FinishHucStep ==
    ASSUME IndexInv, StreamInv, UNCHANGED indexVars, FinishHuc
    PROVE  StreamInv'
<1>1. /\ work.at = "tiles" /\ work.left = {} /\ work' = [work EXCEPT !.at = "plan", !.current = NoPlan]
      /\ request' = request /\ rule' = rule /\ objects' = objects /\ manifests' = manifests
  BY DEF FinishHuc
<1>2. Len(manifests) < Len(request)
  BY <1>1, AtHand
<1>3. PICK n : \E scenarios \in Requests : \E scenario :
                /\ n = Len(manifests) + 1 /\ n \in 1 .. Len(scenarios) /\ scenarios = request
                /\ scenario = scenarios[n] /\ scenario = Scenario
                /\ \E k \in 0 .. Len(HucsOf(scenario)) : Planned(k, scenario) /\ Written(k, scenario)
  BY <1>1, AtHand
<1>4. PICK scenario : /\ scenario = Scenario
                      /\ \E k \in 0 .. Len(HucsOf(scenario)) : Planned(k, scenario) /\ Written(k, scenario)
  BY <1>3
<1>5. PICK k \in 0 .. Len(HucsOf(scenario)) : Planned(k, scenario) /\ Written(k, scenario)
  BY <1>4
<1>6. WorkShape
  BY DEF StreamInv, StreamTypes
<1>7. /\ WorkShape' /\ work'.at = "plan" /\ work'.current = NoPlan /\ work'.todo = work.todo
      /\ work'.left = work.left /\ work'.tiles = work.tiles /\ work'.dry = work.dry
      /\ work'.missing = work.missing
  BY <1>1, <1>6 DEF WorkShape
<1>8. source' = source /\ index' = index
  BY DEF indexVars
<1>9. Written(k, scenario)'
  BY <1>1, <1>5, <1>7, <1>8, WrittenKept
<1>10. Planned(k, scenario)'
  <2>1. MissingUpTo(scenario, k)' = MissingUpTo(scenario, k)
    BY <1>8, FrozenMissing
  <2> QED
    BY <1>1, <1>5, <1>7, <1>8, <2>1 DEF Planned
<1>11. CurrentOk'
  BY <1>7 DEF CurrentOk
<1>12. \A x \in DOMAIN objects :
           x[1] # scenario.id => x \in DOMAIN objects' /\ objects'[x] = objects[x]
  BY <1>1
<1> QED
  BY <1>1, <1>2, <1>4, <1>7, <1>9, <1>10, <1>11, <1>12, StepWithin

\* The next HUC is planned.
LEMMA PlanNextHucStep ==
    ASSUME IndexInv, StreamInv, UNCHANGED indexVars, PlanNextHuc
    PROVE  StreamInv'
<1>1. /\ work.at = "plan" /\ work.todo # <<>>
      /\ request' = request /\ rule' = rule /\ objects' = objects /\ manifests' = manifests
  BY DEF PlanNextHuc
<1>2. Len(manifests) < Len(request)
  BY <1>1, AtHand
<1>3. PICK n : \E scenarios \in Requests : \E scenario :
                /\ n = Len(manifests) + 1 /\ n \in 1 .. Len(scenarios) /\ scenarios = request
                /\ scenario = scenarios[n] /\ scenario = Scenario
                /\ \E k \in 0 .. Len(HucsOf(scenario)) : Planned(k, scenario) /\ Written(k, scenario)
  BY <1>1, AtHand
<1>4. PICK scenarios \in Requests : \E scenario :
                /\ n \in 1 .. Len(scenarios)
                /\ scenario = scenarios[n] /\ scenario = Scenario
                /\ \E k \in 0 .. Len(HucsOf(scenario)) : Planned(k, scenario) /\ Written(k, scenario)
  BY <1>3
<1>5. PICK scenario :
                /\ n \in 1 .. Len(scenarios)
                /\ scenario = scenarios[n] /\ scenario = Scenario
                /\ \E k \in 0 .. Len(HucsOf(scenario)) : Planned(k, scenario) /\ Written(k, scenario)
  BY <1>4
<1>6. PICK hs, reaches, id : hs = HucsOf(scenario) /\ reaches = scenario.reaches /\ id = scenario.id
  OBVIOUS
<1>7. PICK k \in 0 .. Len(hs) : Planned(k, scenario) /\ Written(k, scenario)
  BY <1>5, <1>6
<1>8. hs \in Seq(Hucs) /\ Len(hs) \in Nat /\ reaches \in Seq(Reaches)
      /\ \A i \in 1 .. Len(hs) : hs[i] \in Hucs
  <2>1. hs \in Seq(Hucs) /\ Len(hs) \in Nat /\ reaches \in Seq(Reaches)
    BY <1>5, <1>6, RequestFacts
  <2> QED
    BY <2>1
<1>9. /\ work.todo \in Seq(Int) /\ Len(work.todo) = Len(hs) - k
      /\ \A j \in 1 .. Len(work.todo) : work.todo[j] = hs[k + j]
      /\ \A i \in 1 .. k : index[hs[i]] # NoIndex
      /\ work.missing = MissingUpTo(scenario, k) /\ work.left = {}
  BY <1>1, <1>6, <1>7 DEF Planned
<1>10. k \in Nat /\ k < Len(hs) /\ k + 1 \in 1 .. Len(hs)
  <2>1. Len(work.todo) \in Nat /\ Len(work.todo) # 0
    BY <1>1, <1>9
  <2> QED
    BY <1>8, <1>9, <2>1
<1>11. PICK h \in Hucs : h = hs[k + 1]
  BY <1>8, <1>10
<1>12. Head(work.todo) = h
  <2>1. 1 \in 1 .. Len(work.todo)
    BY <1>1, <1>9
  <2>2. Head(work.todo) = work.todo[1]
    BY <1>1, <1>9
  <2> QED
    BY <1>9, <1>11, <2>1, <2>2
<1>13. PICK planned, schedule :
         /\ planned = PlanHuc(index[h], FirstDischarges(reaches, h))
         /\ schedule = ScheduleTiles(index[h].block, planned.plans)
  OBVIOUS
<1>14. planned.plans = PlansIn(h, reaches) /\ schedule = ScheduleIn(h, reaches)
  BY <1>13 DEF PlansIn, ScheduleIn
<1>15. PICK missed : missed = [m \in DOMAIN planned.missing |-> <<h, planned.missing[m]>>]
  OBVIOUS
<1>16. \/ work' = [work EXCEPT !.at = "failed"]
       \/ /\ index[h] # NoIndex
          /\ work' = [work EXCEPT
                 !.at = "tiles", !.todo = Tail(@),
                 !.current = [huc |-> h, plans |-> planned.plans, schedule |-> schedule],
                 !.left = DOMAIN schedule, !.missing = @ \o missed]
  <2>1. PICK admitted : admitted =
          (/\ BlockCount(planned.plans) <= MaxBlocks
           /\ Len(work.tiles) + Cardinality(DOMAIN schedule) <= MaxTiles)
    OBVIOUS
  <2>2. PICK more : more = work.missing \o missed
    OBVIOUS
  <2>3. IF index[h] = NoIndex \/ ~admitted
        THEN work' = [work EXCEPT !.at = "failed"]
        ELSE work' = [work EXCEPT
                 !.at = "tiles", !.todo = Tail(@),
                 !.current = [huc |-> h, plans |-> planned.plans, schedule |-> schedule],
                 !.left = DOMAIN schedule, !.missing = @ \o missed]
    BY <1>5, <1>6, <1>12, <1>13, <1>15, <2>1, ZenonT(30) DEF PlanNextHuc
  <2> QED
    BY <2>3, Zenon
<1>17. CASE work' = [work EXCEPT !.at = "failed"]
  BY <1>1, <1>2, <1>17, ScenarioStops
<1>18. CASE /\ index[h] # NoIndex
            /\ work' = [work EXCEPT
                 !.at = "tiles", !.todo = Tail(@),
                 !.current = [huc |-> h, plans |-> planned.plans, schedule |-> schedule],
                 !.left = DOMAIN schedule, !.missing = @ \o missed]
  <2>1. WorkShape
    BY DEF StreamInv, StreamTypes
  <2>2. PICK tail, more : tail = Tail(work.todo) /\ more = work.missing \o missed
    OBVIOUS
  <2>3. work' = [work EXCEPT !.at = "tiles", !.todo = tail,
                 !.current = [huc |-> h, plans |-> planned.plans, schedule |-> schedule],
                 !.left = DOMAIN schedule, !.missing = more]
    BY <1>18, <2>2, Zenon
  <2>4. /\ WorkShape' /\ work'.at = "tiles" /\ work'.todo = tail
        /\ work'.current = [huc |-> h, plans |-> planned.plans, schedule |-> schedule]
        /\ work'.left = DOMAIN schedule /\ work'.missing = more
        /\ work'.tiles = work.tiles /\ work'.dry = work.dry
    BY <2>1, <2>3 DEF WorkShape
  <2>5. source' = source /\ index' = index
    BY DEF indexVars
  <2>6. \A g : PlansIn(g, reaches)' = PlansIn(g, reaches) /\ ScheduleIn(g, reaches)' = ScheduleIn(g, reaches)
               /\ WetTiles(g, reaches)' = WetTiles(g, reaches)
    BY <1>1, <2>5, Frozen
  <2>7. work'.current = [huc |-> h, plans |-> PlansIn(h, reaches)', schedule |-> ScheduleIn(h, reaches)']
    BY <1>14, <2>4, <2>6
  <2>8. CurrentOk'
    BY <1>8, <1>18, <2>5, <2>7 DEF CurrentOk
  <2>9. \A i \in 1 .. k + 1 : index[hs[i]] # NoIndex
    <3>1. \A i \in 1 .. k + 1 : i \in 1 .. k \/ i = k + 1
      BY <1>10
    <3> QED
      BY <1>9, <1>11, <1>18, <3>1
  <2>10. more = MissingUpTo(scenario, k + 1)
    <3>1. PICK missing : missing = planned.missing
      OBVIOUS
    <3>2. missing = PlanHuc(index[h], FirstDischarges(reaches, h)).missing
      BY <1>13, <3>1
    <3>3. [m \in DOMAIN missing |-> <<h, missing[m]>>] = MissingIn(h, reaches)
      BY <1>8, <1>18, <3>2, HucMissing
    <3>4. missed = MissingIn(h, reaches)
      BY <1>15, <3>1, <3>3
    <3>5. MissingUpTo(scenario, k + 1) = MissingUpTo(scenario, k) \o MissingIn(hs[k + 1], scenario.reaches)
      BY <1>5, <1>6, <1>10, <2>9, MissingGrows
    <3> QED
      BY <1>6, <1>9, <1>11, <2>2, <3>4, <3>5, SMT
  <2>11. Planned(k + 1, scenario)'
    <3>1. /\ tail \in Seq(Int) /\ Len(tail) = Len(hs) - (k + 1)
          /\ \A j \in 1 .. Len(tail) : tail[j] = hs[(k + 1) + j]
      <4>1. tail \in Seq(Int) /\ Len(tail) = Len(work.todo) - 1
            /\ \A j \in 1 .. Len(tail) : tail[j] = work.todo[j + 1]
        BY <1>1, <1>9, <2>2
      <4>2. ASSUME NEW j \in 1 .. Len(tail) PROVE tail[j] = hs[(k + 1) + j]
        <5>1. j + 1 \in 1 .. Len(work.todo)
          BY <1>8, <1>9, <1>10, <4>1
        <5>2. k + (j + 1) = (k + 1) + j
          BY <1>10, <4>1
        <5> QED
          BY <1>9, <4>1, <5>1, <5>2
      <4>3. Len(tail) = Len(hs) - (k + 1)
        <5>1. PICK m \in Nat : m = Len(hs)
          BY <1>8
        <5>2. Len(tail) = (m - k) - 1 /\ (m - k) - 1 = m - (k + 1)
          BY <1>9, <1>10, <4>1, <5>1
        <5> QED
          BY <5>1, <5>2
      <4>4. \A j \in 1 .. Len(tail) : tail[j] = hs[(k + 1) + j]
        BY <4>2
      <4> QED
        BY <4>1, <4>3, <4>4
    <3>2. MissingUpTo(scenario, k + 1)' = MissingUpTo(scenario, k + 1)
      BY <2>5, FrozenMissing
    <3>3. PICK j : j = k + 1
      OBVIOUS
    <3>4. j \in 0 .. Len(hs) /\ j > 0 /\ h = hs[j]
      BY <1>10, <1>11, <3>3
    <3>5. more = MissingUpTo(scenario, j)' /\ \A i \in 1 .. j : index'[hs[i]] # NoIndex
      BY <2>5, <2>9, <2>10, <3>2, <3>3
    <3>6. work'.left \in SUBSET DOMAIN ScheduleIn(h, reaches)'
      BY <1>14, <2>4, <2>6
    <3>7. Len(tail) = Len(hs) - j /\ \A i \in 1 .. Len(tail) : tail[i] = hs[j + i]
      BY <3>1, <3>3
    <3>8. Planned(j, scenario)'
      BY <1>6, <2>4, <2>7, <3>1, <3>4, <3>5, <3>6, <3>7 DEF Planned
    <3> QED
      BY <3>3, <3>8
  <2>12. Written(k + 1, scenario)'
    <3>1. ASSUME NEW t, NEW g, NEW tile, Holds(t, id, g, reaches, tile)
          PROVE  Holds(t, id, g, reaches, tile)'
      <4>1. t.key \in DOMAIN objects' /\ objects'[t.key] = objects[t.key]
        BY <1>1, <3>1 DEF Holds
      <4> QED
        BY <1>1, <2>5, <3>1, <4>1, HoldsKept
    <3>2. /\ work.tiles \in Seq(ToSet(work.tiles))
          /\ \A t \in ToSet(work.tiles) : \E i \in 1 .. k :
               \E tile \in WetTiles(hs[i], reaches) : Holds(t, id, hs[i], reaches, tile)
          /\ \A i \in 1 .. k : \A tile \in WetTiles(hs[i], reaches) :
               \E t \in ToSet(work.tiles) : Holds(t, id, hs[i], reaches, tile)
          /\ work.dry = NoTile \/ (work.dry.key[1] = id)
      BY <1>6, <1>7, <1>9 DEF Written
    <3>3. PICK j : j = k + 1 /\ \A i \in 1 .. k : i \in 1 .. j /\ i # j
      BY <1>10
    <3>4. \A i \in 1 .. j : i \in 1 .. k \/ i = j
      BY <1>10, <3>3
    <3>5. \A t \in ToSet(work'.tiles) : \E i \in 1 .. j :
               \E tile \in WetTiles(hs[i], reaches)' :
                 /\ Holds(t, id, hs[i], reaches, tile)'
                 /\ i = j => tile \notin work'.left
      BY ZenonT(60), <2>4, <2>6, <3>1, <3>2, <3>3
    <3>6. ASSUME NEW i \in 1 .. j, NEW tile \in WetTiles(hs[i], reaches)'
          PROVE  \/ i = j /\ tile \in work'.left
                 \/ \E t \in ToSet(work'.tiles) : Holds(t, id, hs[i], reaches, tile)'
      <4>1. CASE i \in 1 .. k
        BY <2>4, <2>6, <3>1, <3>2, <4>1
      <4>2. CASE i = j
        <5>1. tile \in WetTiles(h, reaches)
          BY <1>11, <2>6, <3>3, <4>2
        <5>2. tile \in DOMAIN ScheduleIn(h, reaches)
          BY <5>1 DEF WetTiles
        <5> QED
          BY <1>14, <2>4, <4>2, <5>2
      <4> QED
        BY <3>4, <4>1, <4>2
    <3>7. work'.tiles \in Seq(ToSet(work'.tiles)) /\ (work'.dry = NoTile \/ (work'.dry.key[1] = id))
      BY <2>4, <3>2
    <3>8. Written(j, scenario)'
      BY <1>6, <3>5, <3>6, <3>7 DEF Written
    <3> QED
      BY <3>3, <3>8
  <2>13. k + 1 \in 0 .. Len(HucsOf(scenario))
    BY <1>6, <1>10
  <2>14. \A x \in DOMAIN objects :
           x[1] # scenario.id => x \in DOMAIN objects' /\ objects'[x] = objects[x]
    BY <1>1
  <2>15. work'.at \in {"idle", "plan", "tiles", "failed"} /\ WorkShape'
    BY <2>4
  <2>16. \E j \in 0 .. Len(HucsOf(scenario)) : Planned(j, scenario)' /\ Written(j, scenario)'
    BY <2>11, <2>12, <2>13
  <2> QED
    BY <1>1, <1>2, <1>5, <2>8, <2>14, <2>15, <2>16, StepWithin
<1> QED
  BY <1>16, <1>17, <1>18, Zenon

\* A tile cannot be written: the scenario stops.
LEMMA TileWriteFailsStep ==
    ASSUME StreamInv, UNCHANGED indexVars, TileWriteFails
    PROVE  StreamInv'
<1>1. /\ work.at = "tiles" /\ work' = [work EXCEPT !.at = "failed"]
      /\ request' = request /\ rule' = rule /\ objects' = objects /\ manifests' = manifests
  BY DEF TileWriteFails
<1>2. Len(manifests) < Len(request)
  BY <1>1, AtHand
<1> QED
  BY <1>1, <1>2, ScenarioStops

\* The tile that runs next, and what its planned HUC says of it.
RunsNext(scenario, k, h, reaches, tile, cells) ==
    /\ scenario = Scenario /\ k \in 0 .. Len(HucsOf(scenario)) /\ k > 0
    /\ Planned(k, scenario) /\ Written(k, scenario)
    /\ h \in Hucs /\ h = HucsOf(scenario)[k] /\ reaches \in Seq(Reaches)
    /\ reaches = scenario.reaches /\ work.current.huc = h
    /\ tile \in work.left /\ tile = NextTile(work.left)
    /\ tile \in Nat \X Nat /\ tile \in DOMAIN ScheduleIn(h, reaches)
    /\ cells = CellsIn(h, reaches, tile)
    /\ cells = ComputeTile(h, work.current.plans, work.current.schedule[tile])
    /\ cells \in SUBSET (Int \X Int) /\ IsFiniteSet(cells)
    /\ \A i, j \in 1 .. Len(HucsOf(scenario)) : HucsOf(scenario)[i] = HucsOf(scenario)[j] => i = j
    /\ \A i \in 1 .. Len(HucsOf(scenario)) : HucsOf(scenario)[i] \in Hucs

Apart(s) == \A i, j \in 1 .. Len(s) : s[i] = s[j] => i = j

\* A scenario plans a HUC once.
LEMMA PlannedOnce ==
    ASSUME NEW scenarios \in Requests, NEW n \in 1 .. Len(scenarios),
           NEW scenario, scenario = scenarios[n], NEW hs, hs = HucsOf(scenario)
    PROVE  Apart(hs)
<1>1. \A i, j \in 1 .. Len(HucsOf(scenario)) : HucsOf(scenario)[i] = HucsOf(scenario)[j] => i = j
  BY RequestFacts
<1> QED
  BY <1>1 DEF Apart

\* There is such a tile while some are left.
LEMMA RunsNextExists ==
    ASSUME IndexInv, StreamInv, work.at = "tiles", work.left # {}
    PROVE  \E scenario, k, h, reaches, tile, cells : RunsNext(scenario, k, h, reaches, tile, cells)
<1>3. PICK n : \E scenarios \in Requests : \E scenario :
                /\ n = Len(manifests) + 1 /\ n \in 1 .. Len(scenarios) /\ scenarios = request
                /\ scenario = scenarios[n] /\ scenario = Scenario
                /\ \E k \in 0 .. Len(HucsOf(scenario)) : Planned(k, scenario) /\ Written(k, scenario)
  BY AtHand
<1>4. PICK scenarios \in Requests : \E scenario :
                /\ n \in 1 .. Len(scenarios)
                /\ scenario = scenarios[n] /\ scenario = Scenario
                /\ \E k \in 0 .. Len(HucsOf(scenario)) : Planned(k, scenario) /\ Written(k, scenario)
  BY <1>3
<1>5. PICK scenario :
                /\ n \in 1 .. Len(scenarios)
                /\ scenario = scenarios[n] /\ scenario = Scenario
                /\ \E k \in 0 .. Len(HucsOf(scenario)) : Planned(k, scenario) /\ Written(k, scenario)
  BY <1>4
<1>6. PICK hs : hs = HucsOf(scenario)
  OBVIOUS
<1>7. PICK k \in 0 .. Len(hs) : Planned(k, scenario) /\ Written(k, scenario)
  BY <1>5, <1>6
<1>8. hs \in Seq(Hucs) /\ Len(hs) \in Nat /\ scenario.reaches \in Seq(Reaches)
      /\ \A i, j \in 1 .. Len(hs) : hs[i] = hs[j] => i = j
  <2>1. hs \in Seq(Hucs) /\ Len(hs) \in Nat /\ scenario.reaches \in Seq(Reaches)
    BY <1>5, <1>6, RequestFacts
  <2>2. n \in 1 .. Len(scenarios) /\ scenario = scenarios[n] /\ hs = HucsOf(scenario)
    BY <1>5, <1>6
  <2>3. Apart(hs)
    BY <2>2, PlannedOnce
  <2>4. \A i, j \in 1 .. Len(hs) : hs[i] = hs[j] => i = j
    BY <2>3 DEF Apart
  <2> QED
    BY <2>1, <2>4
<1>9. PICK reaches \in Seq(Reaches) : reaches = scenario.reaches
  BY <1>8
<1>10. /\ k > 0 /\ work.left \in SUBSET DOMAIN ScheduleIn(hs[k], reaches)
       /\ work.current = [huc |-> hs[k], plans |-> PlansIn(hs[k], reaches),
                          schedule |-> ScheduleIn(hs[k], reaches)]
       /\ \A i \in 1 .. k : index[hs[i]] # NoIndex
  BY <1>6, <1>7, <1>9 DEF Planned
<1>11. k \in 1 .. Len(hs) /\ k \in 1 .. k
  BY <1>8, <1>10
<1>12. PICK h \in Hucs : h = hs[k]
  BY <1>8, <1>11
<1>13. index[h] # NoIndex
  BY <1>10, <1>11, <1>12
<1>14. PICK sched, left : sched = ScheduleIn(h, reaches) /\ left = work.left
  OBVIOUS
<1>15. \A t \in DOMAIN sched : t \in Nat \X Nat
  BY <1>13, <1>14, CellsInFacts
<1>16. left \in SUBSET DOMAIN sched /\ left \in SUBSET (Nat \X Nat) /\ left # {}
  BY <1>10, <1>12, <1>14, <1>15
<1>17. PICK tile \in left : tile = NextTile(left)
  BY <1>16, NextTileFacts
<1>18. PICK cells : cells = CellsIn(h, reaches, tile)
  OBVIOUS
<1>19. cells \in SUBSET (Int \X Int) /\ IsFiniteSet(cells)
  BY <1>13, <1>14, <1>16, <1>18, CellsInFacts
<1>20. work.current.huc = h /\ work.current.plans = PlansIn(h, reaches)
       /\ work.current.schedule = ScheduleIn(h, reaches)
  BY <1>10, <1>12
<1>21. cells = ComputeTile(h, work.current.plans, work.current.schedule[tile])
  BY <1>18, <1>20 DEF CellsIn
<1>22. RunsNext(scenario, k, h, reaches, tile, cells)
  <2>1. /\ scenario = Scenario /\ k \in 0 .. Len(HucsOf(scenario)) /\ k > 0
        /\ Planned(k, scenario) /\ Written(k, scenario)
        /\ h \in Hucs /\ h = HucsOf(scenario)[k] /\ reaches \in Seq(Reaches)
        /\ reaches = scenario.reaches /\ work.current.huc = h
    BY <1>5, <1>6, <1>7, <1>9, <1>10, <1>12, <1>20
  <2>2. /\ tile \in work.left /\ tile = NextTile(work.left)
        /\ tile \in Nat \X Nat /\ tile \in DOMAIN ScheduleIn(h, reaches)
    BY <1>14, <1>16, <1>17
  <2>3. \A i, j \in 1 .. Len(HucsOf(scenario)) : HucsOf(scenario)[i] = HucsOf(scenario)[j] => i = j
    BY <1>6, <1>8
  <2>4. \A i \in 1 .. Len(HucsOf(scenario)) : HucsOf(scenario)[i] \in Hucs
    BY <1>6, <1>8
  <2> QED
    BY <1>18, <1>19, <1>21, <2>1, <2>2, <2>3, <2>4 DEF RunsNext
<1> QED
  BY <1>22

\* What Written says, of the tile that runs.
LEMMA RunsNextKeys ==
    ASSUME NEW scenario, NEW k, NEW h, NEW reaches, NEW tile, NEW cells,
           RunsNext(scenario, k, h, reaches, tile, cells),
           NEW t, NEW i \in 1 .. k, NEW other \in Nat \X Nat,
           Holds(t, scenario.id, HucsOf(scenario)[i], reaches, other),
           i = k => other \notin work.left
    PROVE  t.key # <<scenario.id, h, tile[1], tile[2]>>
<1>1. PICK hs : hs = HucsOf(scenario)
  OBVIOUS
<1>2. t.key = <<scenario.id, hs[i], other[1], other[2]>>
  BY <1>1 DEF Holds
<1>3. k \in 0 .. Len(hs) /\ h = hs[k] /\ k > 0 /\ tile \in Nat \X Nat /\ tile \in work.left
      /\ \A m, n \in 1 .. Len(hs) : hs[m] = hs[n] => m = n
  BY SMTT(60), <1>1 DEF RunsNext
<1>4. SUFFICES ASSUME t.key = <<scenario.id, h, tile[1], tile[2]>> PROVE FALSE
  OBVIOUS
<1>5. hs[i] = hs[k] /\ other[1] = tile[1] /\ other[2] = tile[2]
  BY <1>2, <1>3, <1>4
<1>6. i \in 1 .. Len(hs) /\ k \in 1 .. Len(hs)
  BY <1>3
<1>7. i = k
  BY <1>3, <1>5, <1>6
<1>8. other = tile
  BY <1>3, <1>5
<1> QED
  BY <1>3, <1>7, <1>8

\* A dry tile is skipped.
LEMMA RunTileDry ==
    ASSUME IndexInv, StreamInv, UNCHANGED indexVars, request' = request, rule' = rule,
           manifests' = manifests, objects' = objects, Len(manifests) < Len(request),
           work.at = "tiles",
           NEW scenario, NEW k, NEW h, NEW reaches, NEW tile,
           RunsNext(scenario, k, h, reaches, tile, {}),
           NEW entry, entry.key[1] = scenario.id,
           work' = [work EXCEPT !.left = @ \ {tile}, !.dry = IF @ = NoTile THEN entry ELSE @]
    PROVE  StreamInv'
<1>1. WorkShape
  BY DEF StreamInv, StreamTypes
<1>2. PICK left, dry : left = work.left \ {tile} /\ dry = (IF work.dry = NoTile THEN entry ELSE work.dry)
  OBVIOUS
<1>3. work' = [work EXCEPT !.left = left, !.dry = dry]
  BY <1>2, Zenon
<1>4. /\ WorkShape' /\ work'.at = "tiles" /\ work'.todo = work.todo /\ work'.current = work.current
      /\ work'.left = left /\ work'.tiles = work.tiles /\ work'.dry = dry
      /\ work'.missing = work.missing
  BY <1>1, <1>3 DEF WorkShape
<1>5. source' = source /\ index' = index
  BY DEF indexVars
<1>6. PICK hs, id : hs = HucsOf(scenario) /\ id = scenario.id
  OBVIOUS
<1>7. /\ scenario = Scenario /\ k \in 0 .. Len(hs) /\ k > 0 /\ Planned(k, scenario)
      /\ Written(k, scenario) /\ h = hs[k] /\ reaches = scenario.reaches
      /\ tile \in work.left /\ CellsIn(h, reaches, tile) = {}
  BY <1>6 DEF RunsNext
<1>8. \A g : /\ WetTiles(g, reaches)' = WetTiles(g, reaches)
             /\ PlansIn(g, reaches)' = PlansIn(g, reaches)
             /\ ScheduleIn(g, reaches)' = ScheduleIn(g, reaches)
  BY <1>5, Frozen
<1>9. Planned(k, scenario)'
  <2>1. MissingUpTo(scenario, k)' = MissingUpTo(scenario, k)
    BY <1>5, FrozenMissing
  <2>2. /\ work.todo \in Seq(Int) /\ Len(work.todo) = Len(hs) - k
        /\ \A j \in 1 .. Len(work.todo) : work.todo[j] = hs[k + j]
        /\ \A i \in 1 .. k : index[hs[i]] # NoIndex
        /\ work.missing = MissingUpTo(scenario, k)
        /\ work.left \in SUBSET DOMAIN ScheduleIn(h, reaches)
        /\ work.current = [huc |-> h, plans |-> PlansIn(h, reaches), schedule |-> ScheduleIn(h, reaches)]
    BY <1>6, <1>7 DEF Planned
  <2>3. left \in SUBSET DOMAIN ScheduleIn(h, reaches)'
    BY <1>2, <1>8, <2>2
  <2>4. work'.current = [huc |-> h, plans |-> PlansIn(h, reaches)', schedule |-> ScheduleIn(h, reaches)']
    BY <1>4, <1>8, <2>2
  <2> QED
    BY <1>4, <1>5, <1>6, <1>7, <2>1, <2>2, <2>3, <2>4 DEF Planned
<1>10. Written(k, scenario)'
  <2>1. ASSUME NEW t, NEW g, NEW x, Holds(t, id, g, reaches, x)
        PROVE  Holds(t, id, g, reaches, x)'
    <3>1. t.key \in DOMAIN objects' /\ objects'[t.key] = objects[t.key]
      BY <2>1 DEF Holds
    <3> QED
      BY <1>5, <2>1, <3>1, HoldsKept
  <2>2. /\ work.tiles \in Seq(ToSet(work.tiles))
        /\ \A t \in ToSet(work.tiles) : \E i \in 1 .. k :
             \E x \in WetTiles(hs[i], reaches) :
               Holds(t, id, hs[i], reaches, x) /\ (i = k => x \notin work.left)
        /\ \A i \in 1 .. k : \A x \in WetTiles(hs[i], reaches) :
             \/ i = k /\ x \in work.left
             \/ \E t \in ToSet(work.tiles) : Holds(t, id, hs[i], reaches, x)
        /\ work.dry = NoTile \/ (work.dry.key[1] = id)
    BY <1>6, <1>7 DEF Written
  <2>3. \A t \in ToSet(work'.tiles) : \E i \in 1 .. k :
             \E x \in WetTiles(hs[i], reaches)' :
               Holds(t, id, hs[i], reaches, x)' /\ (i = k => x \notin work'.left)
    <3>1. ASSUME NEW t \in ToSet(work.tiles)
          PROVE  \E i \in 1 .. k : \E x \in WetTiles(hs[i], reaches)' :
                   Holds(t, id, hs[i], reaches, x)' /\ (i = k => x \notin left)
      <4>1. PICK i \in 1 .. k : \E x \in WetTiles(hs[i], reaches) :
               Holds(t, id, hs[i], reaches, x) /\ (i = k => x \notin work.left)
        BY <2>2
      <4>2. PICK x \in WetTiles(hs[i], reaches) :
               Holds(t, id, hs[i], reaches, x) /\ (i = k => x \notin work.left)
        BY <4>1
      <4>3. x \in WetTiles(hs[i], reaches)' /\ Holds(t, id, hs[i], reaches, x)'
        BY <1>8, <2>1, <4>2
      <4> QED
        BY <1>2, <4>2, <4>3
    <3> QED
      BY <1>4, <3>1
  <2>4. ASSUME NEW i \in 1 .. k, NEW x \in WetTiles(hs[i], reaches)'
        PROVE  \/ i = k /\ x \in work'.left
               \/ \E t \in ToSet(work'.tiles) : Holds(t, id, hs[i], reaches, x)'
    <3>1. x \in WetTiles(hs[i], reaches)
      BY <1>8
    <3>2. CellsIn(hs[i], reaches, x) # {}
      BY <3>1 DEF WetTiles
    <3>3. i = k => x # tile
      BY <1>7, <3>2
    <3> QED
      BY <1>2, <1>4, <2>1, <2>2, <3>1, <3>3
  <2>5. dry = NoTile \/ (dry.key[1] = id)
    BY <1>2, <1>6, <2>2
  <2> QED
    BY <1>4, <1>6, <1>7, <2>2, <2>3, <2>4, <2>5 DEF Written
<1>11. CurrentOk'
  BY <1>4, <1>5, CurrentKept DEF StreamInv
<1>12. \A x \in DOMAIN objects :
           x[1] # scenario.id => x \in DOMAIN objects' /\ objects'[x] = objects[x]
  OBVIOUS
<1>13. \E j \in 0 .. Len(HucsOf(scenario)) : Planned(j, scenario)' /\ Written(j, scenario)'
  BY <1>6, <1>7, <1>9, <1>10
<1> QED
  BY <1>4, <1>7, <1>11, <1>12, <1>13, StepWithin

\* One more item.
LEMMA AppendFacts ==
    ASSUME NEW s, s \in Seq(ToSet(s)), NEW x, NEW z, z = Append(s, x)
    PROVE  /\ ToSet(z) = ToSet(s) \cup {x}
           /\ z \in Seq(ToSet(z)) /\ Len(z) = Len(s) + 1
<1>1. PICK T : T = ToSet(s) \cup {x}
  OBVIOUS
<1>2. s \in Seq(T)
  <2>1. PICK S : S = ToSet(s)
    OBVIOUS
  <2>2. s \in Seq(S) /\ S \in SUBSET T
    BY <1>1, <2>1
  <2> QED
    BY <2>2
<1>3. x \in T
  BY <1>1
<1>4. z \in Seq(T) /\ Len(z) = Len(s) + 1 /\ (\A i \in 1 .. Len(s) : z[i] = s[i])
      /\ z[Len(s) + 1] = x /\ Len(s) \in Nat
  BY <1>2, <1>3
<1>5. \A y : y \in ToSet(s) <=> \E i \in 1 .. Len(s) : y = s[i]
  BY <1>2, ToSetFacts
<1>6. \A y : y \in ToSet(z) <=> \E i \in 1 .. Len(z) : y = z[i]
  BY ZenonT(60), <1>4, ToSetFacts
<1>7. \A i \in 1 .. Len(z) : i \in 1 .. Len(s) \/ i = Len(s) + 1
  BY <1>4
<1>8. ASSUME NEW y PROVE y \in ToSet(z) <=> y \in ToSet(s) \/ y = x
  <2>1. ASSUME y \in ToSet(z) PROVE y \in ToSet(s) \/ y = x
    BY <1>4, <1>5, <1>6, <1>7, <2>1
  <2>2. ASSUME y \in ToSet(s) PROVE y \in ToSet(z)
    <3>1. PICK i \in 1 .. Len(s) : y = s[i]
      BY <1>5, <2>2
    <3>2. i \in 1 .. Len(z) /\ y = z[i]
      BY <1>4, <3>1
    <3> QED
      BY <1>6, <3>2
  <2>3. ASSUME y = x PROVE y \in ToSet(z)
    <3>1. Len(s) + 1 \in 1 .. Len(z)
      BY <1>4
    <3> QED
      BY <1>4, <1>6, <2>3, <3>1
  <2> QED
    BY <2>1, <2>2, <2>3
<1>9. ToSet(z) = T
  BY <1>1, <1>8
<1> QED
  BY <1>1, <1>4, <1>9

\* The entry of a tile, under the key of its object.
TileKey(scenario, h, tile) == <<scenario.id, h, tile[1], tile[2]>>
TileEntry(scenario, h, tile, w) ==
    [key |-> TileKey(scenario, h, tile), huc |-> h, tile |-> tile,
     at |-> Moved(w, -tile[1] * TileSize, -tile[2] * TileSize)]

\* A wet tile is written under a key of its own.
LEMMA RunTileWet ==
    ASSUME IndexInv, StreamInv, UNCHANGED indexVars, request' = request, rule' = rule,
           manifests' = manifests, Len(manifests) < Len(request), work.at = "tiles",
           NEW scenario, NEW k, NEW h, NEW reaches, NEW tile, NEW cells,
           RunsNext(scenario, k, h, reaches, tile, cells), cells # {},
           NEW w, w = Cropped(cells), NEW entry,
           entry = TileEntry(scenario, h, tile, w),
           objects' = With(objects, TileKey(scenario, h, tile), Content(cells, w)),
           work' = [work EXCEPT !.left = @ \ {tile}, !.tiles = Append(@, entry)]
    PROVE  StreamInv'
<1>1. WorkShape
  BY DEF StreamInv, StreamTypes
<1>2. PICK left, tiles : left = work.left \ {tile} /\ tiles = Append(work.tiles, entry)
  OBVIOUS
<1>3. work' = [work EXCEPT !.left = left, !.tiles = tiles]
  BY <1>2, Zenon
<1>4. /\ WorkShape' /\ work'.at = "tiles" /\ work'.todo = work.todo /\ work'.current = work.current
      /\ work'.left = left /\ work'.tiles = tiles /\ work'.dry = work.dry
      /\ work'.missing = work.missing
  BY <1>1, <1>3 DEF WorkShape
<1>5. source' = source /\ index' = index
  BY DEF indexVars
<1>6. PICK hs, id : hs = HucsOf(scenario) /\ id = scenario.id
  OBVIOUS
<1>7. /\ scenario = Scenario /\ k \in 0 .. Len(hs) /\ k > 0 /\ Planned(k, scenario)
      /\ Written(k, scenario) /\ h \in Hucs /\ h = hs[k] /\ reaches = scenario.reaches
      /\ reaches \in Seq(Reaches)
      /\ tile \in work.left /\ tile \in Nat \X Nat /\ tile \in DOMAIN ScheduleIn(h, reaches)
      /\ cells = CellsIn(h, reaches, tile) /\ cells \in SUBSET (Int \X Int) /\ IsFiniteSet(cells)
  BY <1>6 DEF RunsNext
<1>8. \A g : /\ WetTiles(g, reaches)' = WetTiles(g, reaches)
             /\ PlansIn(g, reaches)' = PlansIn(g, reaches)
             /\ ScheduleIn(g, reaches)' = ScheduleIn(g, reaches)
             /\ \A x : CellsIn(g, reaches, x)' = CellsIn(g, reaches, x)
  BY <1>5, Frozen
<1>9. PICK key, content, at :
        /\ key = <<id, h, tile[1], tile[2]>> /\ content = Content(cells, w)
        /\ at = Moved(w, -tile[1] * TileSize, -tile[2] * TileSize)
  OBVIOUS
<1>10. entry.key = key /\ entry.huc = h /\ entry.at = at /\ key[1] = id
       /\ key = TileKey(scenario, h, tile)
  BY <1>6, <1>9 DEF TileEntry, TileKey
<1>11. /\ DOMAIN objects' = DOMAIN objects \cup {key} /\ objects'[key] = content
       /\ \A x \in DOMAIN objects : x # key => objects'[x] = objects[x]
  <2>1. PICK f, f1 : f = objects /\ f1 = With(f, key, content)
    OBVIOUS
  <2>2. objects' = f1
    BY <1>9, <1>10, <2>1
  <2>3. /\ DOMAIN f1 = DOMAIN f \cup {key} /\ f1[key] = content
        /\ \A x \in DOMAIN f : x # key => f1[x] = f[x]
    <3>1. /\ DOMAIN With(f, key, content) = DOMAIN f \cup {key}
          /\ With(f, key, content)[key] = content
          /\ \A x \in DOMAIN f : x # key => With(f, key, content)[x] = f[x]
      BY DEF With, Updated
    <3> QED
      BY <2>1, <3>1
  <2> QED
    BY <2>1, <2>2, <2>3
<1>12. \A x \in DOMAIN objects : x[1] # id => x \in DOMAIN objects' /\ objects'[x] = objects[x]
  BY <1>10, <1>11
<1>13. Planned(k, scenario)'
  <2>1. MissingUpTo(scenario, k)' = MissingUpTo(scenario, k)
    BY <1>5, FrozenMissing
  <2>2. /\ work.todo \in Seq(Int) /\ Len(work.todo) = Len(hs) - k
        /\ \A j \in 1 .. Len(work.todo) : work.todo[j] = hs[k + j]
        /\ \A i \in 1 .. k : index[hs[i]] # NoIndex
        /\ work.missing = MissingUpTo(scenario, k)
        /\ work.left \in SUBSET DOMAIN ScheduleIn(h, reaches)
        /\ work.current = [huc |-> h, plans |-> PlansIn(h, reaches), schedule |-> ScheduleIn(h, reaches)]
    BY <1>6, <1>7 DEF Planned
  <2>3. left \in SUBSET DOMAIN ScheduleIn(h, reaches)'
    BY <1>2, <1>8, <2>2
  <2>4. work'.current = [huc |-> h, plans |-> PlansIn(h, reaches)', schedule |-> ScheduleIn(h, reaches)']
    BY <1>4, <1>8, <2>2
  <2> QED
    BY SMTT(60), <1>4, <1>5, <1>6, <1>7, <2>1, <2>2, <2>3, <2>4 DEF Planned
<1>14. Holds(entry, id, h, reaches, tile)'
  <2>1. PlacedCells(content, at) = LaidCells(cells, tile) /\ content # {}
    BY SMTT(60), <1>7, <1>9, ContentFacts
  <2>2. key \in DOMAIN objects' /\ objects'[key] # {}
    BY <1>11, <2>1
  <2>3. CellsOfTile(entry)' = PlacedCells(content, at)
    BY <1>10, <1>11 DEF CellsOfTile, PlacedCells
  <2>4. {OnGrid(tile, c) : c \in CellsIn(h, reaches, tile)'} = LaidCells(cells, tile)
    BY <1>7, <1>8 DEF LaidCells
  <2> QED
    BY <1>9, <1>10, <2>1, <2>2, <2>3, <2>4 DEF Holds
<1>15. Written(k, scenario)'
  <2>1. ASSUME NEW t, NEW i \in 1 .. k, NEW x \in WetTiles(hs[i], reaches),
               Holds(t, id, hs[i], reaches, x), i = k => x \notin work.left
        PROVE  Holds(t, id, hs[i], reaches, x)'
    <3>1. PICK g : g = hs[i] /\ g \in Hucs /\ index[g] # NoIndex
      <4>1. \A j \in 1 .. k : index[hs[j]] # NoIndex
        BY <1>6, <1>7 DEF Planned
      <4>2. hs[i] \in Hucs
        <5>1. i \in 1 .. Len(hs)
          BY <1>7
        <5>2. \A j \in 1 .. Len(hs) : hs[j] \in Hucs
          BY <1>6 DEF RunsNext
        <5> QED
          BY <5>1, <5>2
      <4> QED
        BY <4>1, <4>2
    <3>2. x \in DOMAIN ScheduleIn(g, reaches)
      BY <3>1 DEF WetTiles
    <3>3. x \in Nat \X Nat
      BY <1>7, <3>1, <3>2, CellsInFacts
    <3>4. t.key # key
      <4>1. Holds(t, scenario.id, HucsOf(scenario)[i], reaches, x) /\ (i = k => x \notin work.left)
        BY <1>6, <2>1
      <4>2. RunsNext(scenario, k, h, reaches, tile, cells)
        OBVIOUS
      <4>3. t.key # <<scenario.id, h, tile[1], tile[2]>>
        BY <3>3, <4>1, <4>2, RunsNextKeys
      <4> QED
        BY <1>6, <1>9, <4>3
    <3>5. t.key \in DOMAIN objects
      BY <2>1 DEF Holds
    <3>6. t.key \in DOMAIN objects' /\ objects'[t.key] = objects[t.key]
      BY <1>11, <3>4, <3>5
    <3> QED
      BY <1>5, <2>1, <3>6, HoldsKept
  <2>2. /\ work.tiles \in Seq(ToSet(work.tiles))
        /\ \A t \in ToSet(work.tiles) : \E i \in 1 .. k :
             \E x \in WetTiles(hs[i], reaches) :
               Holds(t, id, hs[i], reaches, x) /\ (i = k => x \notin work.left)
        /\ \A i \in 1 .. k : \A x \in WetTiles(hs[i], reaches) :
             \/ i = k /\ x \in work.left
             \/ \E t \in ToSet(work.tiles) : Holds(t, id, hs[i], reaches, x)
        /\ work.dry = NoTile \/ (work.dry.key[1] = id)
    BY <1>6, <1>7 DEF Written
  <2>3. (\A y : y \in ToSet(tiles) <=> y \in ToSet(work.tiles) \/ y = entry)
        /\ tiles \in Seq(ToSet(tiles))
    <3>1. PICK s : s = work.tiles
      OBVIOUS
    <3>2. s \in Seq(ToSet(s)) /\ tiles = Append(s, entry)
      BY <1>2, <2>2, <3>1
    <3>3. (\A y : y \in ToSet(tiles) <=> y \in ToSet(s) \/ y = entry) /\ tiles \in Seq(ToSet(tiles))
      <4>1. ToSet(tiles) = ToSet(s) \cup {entry}
        BY <3>2, AppendFacts
      <4>2. tiles \in Seq(ToSet(tiles))
        BY <3>2, AppendFacts
      <4> QED
        BY <4>1, <4>2
    <3> QED
      BY <3>1, <3>3
  <2>4. k \in 1 .. k
    BY <1>7
  <2>5. tile \in WetTiles(h, reaches)
    BY <1>7 DEF WetTiles
  <2>6. ASSUME NEW t \in ToSet(tiles)
        PROVE  \E i \in 1 .. k : \E x \in WetTiles(hs[i], reaches)' :
                 Holds(t, id, hs[i], reaches, x)' /\ (i = k => x \notin left)
    <3>1. CASE t = entry
      BY <1>2, <1>7, <1>8, <1>14, <2>4, <2>5, <3>1
    <3>2. CASE t \in ToSet(work.tiles)
      <4>1. PICK i \in 1 .. k : \E x \in WetTiles(hs[i], reaches) :
               Holds(t, id, hs[i], reaches, x) /\ (i = k => x \notin work.left)
        BY <2>2, <3>2
      <4>2. PICK x \in WetTiles(hs[i], reaches) :
               Holds(t, id, hs[i], reaches, x) /\ (i = k => x \notin work.left)
        BY <4>1
      <4>3. x \in WetTiles(hs[i], reaches)' /\ Holds(t, id, hs[i], reaches, x)'
        BY <1>8, <2>1, <4>2
      <4> QED
        BY <1>2, <4>2, <4>3
    <3> QED
      BY <2>3, <3>1, <3>2
  <2>7. ASSUME NEW i \in 1 .. k, NEW x \in WetTiles(hs[i], reaches)'
        PROVE  \/ i = k /\ x \in left
               \/ \E t \in ToSet(tiles) : Holds(t, id, hs[i], reaches, x)'
    <3>1. x \in WetTiles(hs[i], reaches)
      BY <1>8
    <3>2. CASE i = k /\ x = tile
      BY <1>7, <1>14, <2>3, <3>2
    <3>3. CASE i = k /\ x \in work.left /\ x # tile
      BY <1>2, <3>3
    <3>4. CASE ~ (i = k /\ x \in work.left)
      <4>1. PICK t \in ToSet(work.tiles) : Holds(t, id, hs[i], reaches, x)
        BY <2>2, <3>1, <3>4
      <4>2. i = k => x \notin work.left
        BY <3>4
      <4> QED
        BY <2>1, <2>3, <3>1, <4>1, <4>2
    <3> QED
      BY <3>2, <3>3, <3>4
  <2> QED
    BY ZenonT(60), <1>4, <1>6, <1>7, <2>2, <2>3, <2>6, <2>7 DEF Written
<1>16. CurrentOk'
  BY <1>4, <1>5, CurrentKept DEF StreamInv
<1>17. \E j \in 0 .. Len(HucsOf(scenario)) : Planned(j, scenario)' /\ Written(j, scenario)'
  BY <1>6, <1>7, <1>13, <1>15
<1>18. \A x \in DOMAIN objects :
           x[1] # scenario.id => x \in DOMAIN objects' /\ objects'[x] = objects[x]
  BY <1>6, <1>12
<1>19. WorkShape' /\ work'.at \in {"idle", "plan", "tiles", "failed"} /\ scenario = Scenario
  BY <1>4, <1>7
<1> QED
  BY <1>16, <1>17, <1>18, <1>19, StepWithin

\* The next tile runs.
LEMMA RunTileStep ==
    ASSUME IndexInv, StreamInv, UNCHANGED indexVars, RunTile
    PROVE  StreamInv'
<1>1. /\ work.at = "tiles" /\ work.left # {}
      /\ request' = request /\ rule' = rule /\ manifests' = manifests
  BY DEF RunTile
<1>2. Len(manifests) < Len(request)
  BY <1>1, AtHand
<1>3. PICK scenario, k, h, reaches, tile, cells : RunsNext(scenario, k, h, reaches, tile, cells)
  BY <1>1, RunsNextExists
<1>4. /\ scenario = Scenario /\ work.current.huc = h /\ tile = NextTile(work.left)
      /\ cells = ComputeTile(h, work.current.plans, work.current.schedule[tile])
  BY <1>3 DEF RunsNext
<1>5. CASE cells = {}
  <2>1. PICK entry : entry = Entry(h, tile, TileShape(h, tile))
    OBVIOUS
  <2>2. entry.key[1] = scenario.id
    BY <1>4, <2>1 DEF Entry
  <2>3. /\ work' = [work EXCEPT !.left = @ \ {tile}, !.dry = IF @ = NoTile THEN entry ELSE @]
        /\ objects' = objects
    BY <1>4, <1>5, <2>1, ZenonT(30) DEF RunTile
  <2>4. RunsNext(scenario, k, h, reaches, tile, {})
    BY <1>3, <1>5
  <2> QED
    BY <1>1, <1>2, <2>2, <2>3, <2>4, RunTileDry
<1>6. CASE cells # {}
  <2>1. PICK w : w = Cropped(cells)
    OBVIOUS
  <2>2. PICK entry : entry = Entry(h, tile, w)
    OBVIOUS
  <2>3. entry = TileEntry(scenario, h, tile, w) /\ entry.key = TileKey(scenario, h, tile)
    BY <1>4, <2>2 DEF Entry, TileEntry, TileKey
  <2>4. /\ work' = [work EXCEPT !.left = @ \ {tile}, !.tiles = Append(@, entry)]
        /\ objects' = Stored(entry.key, Content(cells, w))
    BY <1>4, <1>6, <2>1, <2>2, ZenonT(30) DEF RunTile
  <2>5. objects' = With(objects, TileKey(scenario, h, tile), Content(cells, w))
    BY <2>3, <2>4 DEF Stored
  <2> QED
    BY <1>1, <1>2, <1>3, <1>6, <2>1, <2>3, <2>4, <2>5, RunTileWet
<1> QED
  BY <1>5, <1>6

\* When all HUCs of a scenario are done, its tiles are its flood.
LEMMA WrittenFlood ==
    ASSUME IndexInv, NEW scenario, NEW hs, hs = HucsOf(scenario), NEW reaches \in Seq(Reaches),
           reaches = scenario.reaches, Len(hs) \in Nat, \A i \in 1 .. Len(hs) : hs[i] \in Hucs,
           Planned(Len(hs), scenario), Written(Len(hs), scenario), work.left = {},
           NEW h, NEW j \in 1 .. Len(hs), h = hs[j]
    PROVE  UNION {CellsOfTile(t) : t \in {u \in ToSet(work.tiles) : u.huc = h}} = RefFlood(h, reaches)
<1>1. PICK k, id : k = Len(hs) /\ id = scenario.id
  OBVIOUS
<1>2. /\ \A t \in ToSet(work.tiles) : \E i \in 1 .. k :
           \E tile \in WetTiles(hs[i], reaches) : Holds(t, id, hs[i], reaches, tile)
      /\ \A i \in 1 .. k : \A tile \in WetTiles(hs[i], reaches) :
           \E t \in ToSet(work.tiles) : Holds(t, id, hs[i], reaches, tile)
  BY <1>1 DEF Written
<1>3. h \in Hucs /\ index[h] # NoIndex
  BY DEF Planned
<1>4. \A g : (\E tile \in DOMAIN ScheduleIn(h, reaches) :
                \E c \in CellsIn(h, reaches, tile) : g = OnGrid(tile, c))
                <=> g \in RefFlood(h, reaches)
  BY <1>3, HucFacts
<1>5. \A t, i, tile : Holds(t, id, i, reaches, tile) =>
        t.huc = i /\ CellsOfTile(t) = {OnGrid(tile, c) : c \in CellsIn(i, reaches, tile)}
  BY DEF Holds
<1>6. \A tile : tile \in WetTiles(h, reaches) <=>
        tile \in DOMAIN ScheduleIn(h, reaches) /\ CellsIn(h, reaches, tile) # {}
  BY DEF WetTiles
<1>7. ASSUME NEW g, g \in RefFlood(h, reaches)
      PROVE  \E t \in ToSet(work.tiles) : t.huc = h /\ g \in CellsOfTile(t)
  <2>1. PICK tile \in DOMAIN ScheduleIn(h, reaches) :
          \E c \in CellsIn(h, reaches, tile) : g = OnGrid(tile, c)
    BY <1>4, <1>7
  <2>2. tile \in WetTiles(h, reaches)
    BY <1>6, <2>1
  <2>3. PICK t \in ToSet(work.tiles) : Holds(t, id, h, reaches, tile)
    BY <1>1, <1>2, <2>2
  <2>4. t.huc = h /\ CellsOfTile(t) = {OnGrid(tile, c) : c \in CellsIn(h, reaches, tile)}
    BY <1>5, <2>3
  <2> QED
    BY <2>1, <2>4
<1>8. ASSUME NEW t \in ToSet(work.tiles), t.huc = h, NEW g \in CellsOfTile(t)
      PROVE  g \in RefFlood(h, reaches)
  <2>1. PICK i \in 1 .. k : \E tile \in WetTiles(hs[i], reaches) : Holds(t, id, hs[i], reaches, tile)
    BY <1>2
  <2>2. PICK tile \in WetTiles(hs[i], reaches) : Holds(t, id, hs[i], reaches, tile)
    BY <2>1
  <2>3. hs[i] = h /\ CellsOfTile(t) = {OnGrid(tile, c) : c \in CellsIn(hs[i], reaches, tile)}
    BY <1>5, <1>8, <2>2
  <2>4. tile \in DOMAIN ScheduleIn(h, reaches)
    BY <1>6, <2>2, <2>3
  <2>5. \E c \in CellsIn(h, reaches, tile) : g = OnGrid(tile, c)
    BY <2>3
  <2> QED
    BY <1>4, <2>4, <2>5
<1> QED
  BY <1>7, <1>8

\* Its entries are its own, and their objects hold cells.
LEMMA WrittenOwn ==
    ASSUME NEW scenario, NEW k, Written(k, scenario), NEW t \in ToSet(work.tiles)
    PROVE  t.key \in DOMAIN objects /\ t.key[1] = scenario.id /\ objects[t.key] # {}
<1>1. PICK i \in 1 .. k : \E tile \in WetTiles(HucsOf(scenario)[i], scenario.reaches) :
        Holds(t, scenario.id, HucsOf(scenario)[i], scenario.reaches, tile)
  BY DEF Written
<1>2. PICK tile : Holds(t, scenario.id, HucsOf(scenario)[i], scenario.reaches, tile)
  BY <1>1
<1> QED
  BY <1>2 DEF Holds

\* All HUCs of the scenario at hand are done.
AllDone(scenario, hs, reaches) ==
    /\ scenario = Scenario /\ hs = HucsOf(scenario) /\ reaches \in Seq(Reaches)
    /\ reaches = scenario.reaches /\ Len(hs) \in Nat
    /\ \A i \in 1 .. Len(hs) : hs[i] \in Hucs
    /\ ListsAll(hs, AskedHucs(scenario))
    /\ Planned(Len(hs), scenario) /\ Written(Len(hs), scenario) /\ work.left = {}

\* After the last HUC the scenario is planned and written as a whole.
LEMMA AllDoneExists ==
    ASSUME IndexInv, StreamInv, work.at = "plan", work.todo = <<>>
    PROVE  \E scenario, hs, reaches : AllDone(scenario, hs, reaches)
<1>3. PICK n : \E scenarios \in Requests : \E scenario :
                /\ n = Len(manifests) + 1 /\ n \in 1 .. Len(scenarios) /\ scenarios = request
                /\ scenario = scenarios[n] /\ scenario = Scenario
                /\ \E k \in 0 .. Len(HucsOf(scenario)) : Planned(k, scenario) /\ Written(k, scenario)
  BY AtHand
<1>4. PICK scenarios \in Requests : \E scenario :
                /\ n \in 1 .. Len(scenarios)
                /\ scenario = scenarios[n] /\ scenario = Scenario
                /\ \E k \in 0 .. Len(HucsOf(scenario)) : Planned(k, scenario) /\ Written(k, scenario)
  BY <1>3
<1>5. PICK scenario :
                /\ n \in 1 .. Len(scenarios)
                /\ scenario = scenarios[n] /\ scenario = Scenario
                /\ \E k \in 0 .. Len(HucsOf(scenario)) : Planned(k, scenario) /\ Written(k, scenario)
  BY <1>4
<1>6. PICK hs : hs = HucsOf(scenario)
  OBVIOUS
<1>7. PICK k \in 0 .. Len(hs) : Planned(k, scenario) /\ Written(k, scenario)
  BY <1>5, <1>6
<1>8. n \in 1 .. Len(scenarios) /\ scenario = scenarios[n] /\ scenario = Scenario
  BY <1>5
<1>9. scenario.reaches \in Seq(Reaches) /\ hs \in Seq(Hucs) /\ Len(hs) \in Nat
  BY <1>6, <1>8, RequestFacts
<1>10. ListsAll(HucsOf(scenario), AskedHucs(scenario))
  BY <1>8, RequestFacts
<1>11. /\ Len(work.todo) = Len(hs) - k /\ work.left = {}
  BY <1>6, <1>7 DEF Planned
<1>12. k = Len(hs)
  BY <1>9, <1>11
<1>13. \A i \in 1 .. Len(hs) : hs[i] \in Hucs
  BY <1>9
<1>14. AllDone(scenario, hs, scenario.reaches)
  BY <1>6, <1>7, <1>8, <1>9, <1>10, <1>11, <1>12, <1>13 DEF AllDone
<1> QED
  BY <1>14

\* The flood of each of its HUCs.
LEMMA AllDoneFlood ==
    ASSUME IndexInv, NEW scenario, NEW hs, NEW reaches, AllDone(scenario, hs, reaches),
           NEW h, h \in {r.huc : r \in ToSet(reaches)}
    PROVE  UNION {CellsOfTile(t) : t \in {u \in ToSet(work.tiles) : u.huc = h}} = RefFlood(h, reaches)
<1>1. /\ hs = HucsOf(scenario) /\ reaches \in Seq(Reaches)
      /\ reaches = scenario.reaches /\ Len(hs) \in Nat
      /\ \A i \in 1 .. Len(hs) : hs[i] \in Hucs
      /\ Planned(Len(hs), scenario) /\ Written(Len(hs), scenario) /\ work.left = {}
  BY DEF AllDone
<1>2. PICK j \in 1 .. Len(hs) : h = hs[j]
  <2>1. h \in AskedHucs(scenario)
    BY <1>1 DEF AskedHucs
  <2> QED
    BY <2>1 DEF AllDone, ListsAll
<1> QED
  BY <1>1, <1>2, WrittenFlood

\* Its manifest lists the tiles that are wet.
LEMMA FinishWet ==
    ASSUME IndexInv, NEW scenario, NEW hs, NEW reaches, AllDone(scenario, hs, reaches),
           NEW m, m.tiles = work.tiles, m.missing = work.missing
    PROVE  ManifestOk(m, scenario)
<1>1. /\ hs = HucsOf(scenario) /\ reaches = scenario.reaches
      /\ Planned(Len(hs), scenario) /\ Written(Len(hs), scenario)
  BY DEF AllDone
<1>2. m.missing = MissingUpTo(scenario, Len(HucsOf(scenario)))
  BY <1>1 DEF Planned
<1>3. m.tiles \in Seq(ToSet(m.tiles))
  BY <1>1 DEF Written
<1>4. \A t \in ToSet(m.tiles) :
        t.key \in DOMAIN objects /\ t.key[1] = scenario.id /\ objects[t.key] # {}
  BY <1>1, WrittenOwn
<1>5. ASSUME NEW h, h \in {r.huc : r \in ToSet(scenario.reaches)}
      PROVE  UNION {CellsOfTile(t) : t \in {u \in ToSet(m.tiles) : u.huc = h}}
               = RefFlood(h, scenario.reaches)
  BY <1>1, <1>5, AllDoneFlood
<1> QED
  BY <1>2, <1>3, <1>4, <1>5 DEF ManifestOk

\* That of a dry scenario lists one blank tile.
LEMMA FinishDry ==
    ASSUME IndexInv, source' = source, index' = index, rule' = rule,
           NEW scenario, NEW hs, NEW reaches, AllDone(scenario, hs, reaches),
           work.tiles = <<>>, NEW dry, dry = work.dry, dry # NoTile,
           objects' = With(objects, dry.key, {}),
           NEW m, m.tiles = <<dry>>, m.missing = work.missing
    PROVE  ManifestOk(m, scenario)' /\ dry.key[1] = scenario.id
<1>1. /\ hs = HucsOf(scenario) /\ reaches = scenario.reaches
      /\ Planned(Len(hs), scenario) /\ Written(Len(hs), scenario)
  BY DEF AllDone
<1>2. dry.key[1] = scenario.id
  BY <1>1 DEF Written
<1>3. m.missing = MissingUpTo(scenario, Len(HucsOf(scenario)))'
  <2>1. PICK k : k = Len(HucsOf(scenario))
    OBVIOUS
  <2>2. m.missing = MissingUpTo(scenario, k)
    BY <1>1, <2>1 DEF Planned
  <2>3. MissingUpTo(scenario, k)' = MissingUpTo(scenario, k)
    BY FrozenMissing
  <2> QED
    BY <2>1, <2>2, <2>3
<1>4. ToSet(m.tiles) = {dry} /\ m.tiles \in Seq(ToSet(m.tiles)) /\ Len(m.tiles) = 1
  <2>1. ToSet(<<dry>>) = {dry} /\ <<dry>> \in Seq({dry}) /\ Len(<<dry>>) = 1
    BY DEF ToSet
  <2> QED
    BY <2>1
<1>5. dry.key \in DOMAIN objects' /\ objects'[dry.key] = {}
  BY DEF With, Updated
<1>6. CellsOfTile(dry)' = {}
  BY <1>5 DEF CellsOfTile
<1>7. ASSUME NEW h, h \in {r.huc : r \in ToSet(scenario.reaches)}
      PROVE  UNION {CellsOfTile(t)' : t \in {u \in ToSet(m.tiles) : u.huc = h}}
               = RefFlood(h, scenario.reaches)'
  <2>1. UNION {CellsOfTile(t) : t \in {u \in ToSet(work.tiles) : u.huc = h}} = RefFlood(h, reaches)
    BY <1>1, <1>7, AllDoneFlood
  <2>2. ToSet(work.tiles) = {}
    BY DEF ToSet
  <2>3. RefFlood(h, reaches) = {}
    BY <2>1, <2>2
  <2>4. RefFlood(h, reaches)' = RefFlood(h, reaches)
    BY Frozen
  <2>5. UNION {CellsOfTile(t)' : t \in {u \in ToSet(m.tiles) : u.huc = h}} = {}
    BY <1>4, <1>6
  <2> QED
    BY <1>1, <2>3, <2>4, <2>5
<1>8. \A t \in ToSet(m.tiles) : t.key[1] = scenario.id /\ t.key \in DOMAIN objects'
  BY <1>2, <1>4, <1>5
<1> QED
  BY <1>2, <1>3, <1>4, <1>7, <1>8 DEF ManifestOk

\* One manifest more.
LEMMA ManifestAdded ==
    ASSUME StreamInv, UNCHANGED indexVars, request' = request, rule' = rule,
           Len(manifests) < Len(request), NEW scenario, scenario = Scenario,
           NEW m, manifests' = Append(manifests, m), work' = Idle,
           ManifestOk(m, scenario)',
           \A x \in DOMAIN objects :
             x[1] # scenario.id => x \in DOMAIN objects' /\ objects'[x] = objects[x]
    PROVE  StreamInv'
<1>1. source' = source /\ index' = index
  BY DEF indexVars
<1>2. StreamTypes /\ ManifestsOk
  BY DEF StreamInv
<1>3. /\ request \in Requests /\ request # <<>> /\ Len(manifests) \in Nat /\ Len(request) \in Nat
      /\ scenario = request[Len(manifests) + 1]
  BY <1>2, ScenarioFacts
<1>4. PICK s, c : s = manifests /\ c = Len(s)
  OBVIOUS
<1>5. s \in Seq(ToSet(s))
  BY <1>2, <1>4 DEF StreamTypes
<1>6. PICK z : z = Append(s, m)
  OBVIOUS
<1>7. z \in Seq(ToSet(z)) /\ Len(z) = c + 1
  BY <1>4, <1>5, <1>6, AppendFacts
<1>8. manifests' = z /\ c \in Nat /\ c < Len(request)
  BY <1>3, <1>4, <1>6
<1>9. (\A n \in 1 .. c : z[n] = s[n]) /\ z[c + 1] = m
  BY <1>4, <1>5, <1>6
<1>10. WorkShape' /\ work'.at = "idle" /\ work'.current = NoPlan
  BY DEF WorkShape, Idle
<1>11. StreamTypes'
  BY <1>2, <1>3, <1>7, <1>8, <1>10 DEF StreamTypes
<1>12. PICK id : id = scenario.id /\ id = Scenario.id
  OBVIOUS
<1>13. \A n \in 1 .. Len(manifests) :
             \A o \in {manifests[n]} : \A t \in {request[n]} : ManifestOk(o, t)'
  <2>1. \A x \in DOMAIN objects : x[1] # id => x \in DOMAIN objects' /\ objects'[x] = objects[x]
    BY <1>12
  <2> QED
    BY <1>1, <1>2, <1>3, <1>12, <2>1, ManifestsKept
<1>14. ASSUME NEW n \in 1 .. c + 1, NEW o \in {z[n]}, NEW t \in {request[n]}
       PROVE  ManifestOk(o, t)'
  <2>1. CASE n \in 1 .. c
    BY <1>4, <1>9, <1>13, <2>1
  <2>2. CASE n = c + 1
    <3>1. o = m /\ t = scenario
      BY <1>3, <1>4, <1>9, <2>2
    <3> QED
      BY <3>1
  <2>3. n \in 1 .. c \/ n = c + 1
    BY <1>8
  <2> QED
    BY <2>1, <2>2, <2>3
<1>15. ManifestsOk'
  BY <1>7, <1>8, <1>14 DEF ManifestsOk
<1>16. CurrentOk'
  BY <1>10 DEF CurrentOk
<1>17. WorkOk'
  BY <1>10 DEF WorkOk
<1> QED
  BY <1>11, <1>15, <1>16, <1>17 DEF StreamInv

\* The scenario is written down.
LEMMA FinishScenarioStep ==
    ASSUME IndexInv, StreamInv, UNCHANGED indexVars, FinishScenario
    PROVE  StreamInv'
<1>1. /\ work.at = "plan" /\ work.todo = <<>> /\ request' = request /\ rule' = rule
  BY DEF FinishScenario
<1>2. Len(manifests) < Len(request)
  BY <1>1, AtHand
<1>3. source' = source /\ index' = index
  BY DEF indexVars
<1>4. PICK scenario, hs, reaches : AllDone(scenario, hs, reaches)
  BY <1>1, AllDoneExists
<1>5. scenario = Scenario
  BY <1>4 DEF AllDone
<1>6. CASE work.tiles = <<>> /\ work.dry = NoTile
  <2>1. /\ work' = [work EXCEPT !.at = "failed"] /\ objects' = objects /\ manifests' = manifests
    BY <1>6 DEF FinishScenario
  <2> QED
    BY <1>1, <1>2, <2>1, ScenarioStops
<1>7. CASE ~ (work.tiles = <<>> /\ work.dry = NoTile)
  <2>1. PICK m : m = [id |-> Scenario.id, missing |-> work.missing,
                      tiles |-> IF work.tiles = <<>> THEN <<work.dry>> ELSE work.tiles]
    OBVIOUS
  <2>2. /\ objects' = (IF work.tiles = <<>> THEN Stored(work.dry.key, {}) ELSE objects)
        /\ manifests' = Append(manifests, m) /\ work' = Idle
    BY <1>7, <2>1, ZenonT(30) DEF FinishScenario
  <2>3. m.missing = work.missing
    BY <2>1
  <2>4. CASE work.tiles = <<>>
    <3>1. PICK dry : dry = work.dry
      OBVIOUS
    <3>2. m.tiles = <<dry>> /\ dry # NoTile
      BY <1>7, <2>1, <2>4, <3>1
    <3>3. objects' = With(objects, dry.key, {})
      BY <2>2, <2>4, <3>1 DEF Stored
    <3>4. ManifestOk(m, scenario)' /\ dry.key[1] = scenario.id
      BY <1>1, <1>3, <1>4, <2>3, <2>4, <3>1, <3>2, <3>3, FinishDry
    <3>5. PICK f, key : f = objects /\ key = dry.key
      OBVIOUS
    <3>6. \A x \in DOMAIN f : x # key => x \in DOMAIN With(f, key, {}) /\ With(f, key, {})[x] = f[x]
      BY DEF With, Updated
    <3>7. \A x \in DOMAIN objects :
             x[1] # scenario.id => x \in DOMAIN objects' /\ objects'[x] = objects[x]
      BY <3>3, <3>4, <3>5, <3>6
    <3> QED
      BY <1>1, <1>2, <1>5, <2>2, <3>4, <3>7, ManifestAdded
  <2>5. CASE work.tiles # <<>>
    <3>1. m.tiles = work.tiles /\ objects' = objects
      BY <2>1, <2>2, <2>5
    <3>2. ManifestOk(m, scenario)
      BY <1>4, <2>3, <3>1, FinishWet
    <3>3. \A x \in DOMAIN objects : x \in DOMAIN objects' /\ objects'[x] = objects[x]
      BY <3>1
    <3>4. ManifestOk(m, scenario)'
      BY <1>1, <1>3, <3>2, <3>3, ManifestKept
    <3> QED
      BY <1>1, <1>2, <1>5, <2>2, <3>3, <3>4, ManifestAdded
  <2> QED
    BY <2>4, <2>5
<1> QED
  BY <1>6, <1>7

\* The command starts: there is nothing yet.
LEMMA StartCommandStep ==
    ASSUME StreamInv, StartCommand
    PROVE  StreamInv'
<1>1. /\ request = <<>> /\ request' \in Requests /\ rule' \in Rules
      /\ work' = work /\ manifests' = manifests
  BY DEF StartCommand
<1>2. work = Idle /\ manifests = <<>>
  BY <1>1 DEF StreamInv, StreamTypes
<1> QED
  BY <1>1, <1>2, IdleStream

\* Every step keeps the streaming command's invariant.
LEMMA StreamInvStep ==
    ASSUME IndexInv, StreamInv, [Next]_vars
    PROVE  StreamInv'
<1>1. CASE UNCHANGED vars
  BY <1>1, StreamUnmoved DEF vars
<1>2. CASE Prepare
  <2>1. /\ request = <<>> /\ UNCHANGED streamVars
    BY <1>2 DEF Prepare
  <2>2. /\ request' = request /\ rule' = rule /\ work' = work /\ manifests' = manifests
    BY <2>1 DEF streamVars
  <2>3. work = Idle /\ manifests = <<>> /\ rule \in {"pinned"} \cup Rules
    BY <2>1 DEF StreamInv, StreamTypes
  <2> QED
    BY <2>1, <2>2, <2>3, IdleStream
<1>3. CASE Streaming
  <2>1. StreamNext /\ UNCHANGED indexVars
    BY <1>3 DEF Streaming
  <2>2. CASE StartCommand
    BY <2>2, StartCommandStep
  <2>3. CASE StartScenario
    BY <2>1, <2>3, StartScenarioStep
  <2>4. CASE PlanNextHuc
    BY <2>1, <2>4, PlanNextHucStep
  <2>5. CASE RunTile
    BY <2>1, <2>5, RunTileStep
  <2>6. CASE TileWriteFails
    BY <2>1, <2>6, TileWriteFailsStep
  <2>7. CASE FinishHuc
    BY <2>1, <2>7, FinishHucStep
  <2>8. CASE FinishScenario
    BY <2>1, <2>8, FinishScenarioStep
  <2> QED
    BY <2>1, <2>2, <2>3, <2>4, <2>5, <2>6, <2>7, <2>8 DEF StreamNext
<1>4. CASE Legacy
  BY <1>4, StreamUnmoved DEF Legacy
<1>5. CASE Compare
  BY <1>5, StreamUnmoved DEF Compare
<1> QED
  BY <1>1, <1>2, <1>3, <1>4, <1>5 DEF Next

\* The prepared indexes are conversions of their sources, whatever downloads
\* were interrupted (download_huc, prepare_huc).
THEOREM IndexInvariant == Spec => []IndexInv
<1>1. Init => IndexInv
  BY IndexInvInit
<1>2. IndexInv /\ [Next]_vars => IndexInv'
  BY IndexInvStep
<1> QED
  BY <1>1, <1>2, PTL DEF Spec

\* The inductive invariant of the streaming command: of the HUCs planned so
\* far, each tile with a wet cell is written or left, and the entries of a
\* manifest hold the flood of its scenario.
THEOREM StreamInvariant == Spec => []StreamInv
<1>1. Init => StreamInv
  BY StreamInvInit
<1>2. IndexInv /\ StreamInv /\ [Next]_vars => StreamInv'
  BY StreamInvStep
<1> QED
  BY <1>1, <1>2, IndexInvariant, PTL DEF Spec

\* Row groups, shared HydroIDs, block selection, tiling and cropping lose no
\* flooded cell and add none (run_scenario, plan_huc, prepare_huc).
THEOREM FloodExact == Spec => []FloodIsReference
<1>1. StreamInv => FloodIsReference
  <2> SUFFICES ASSUME StreamInv, NEW n \in DOMAIN manifests
               PROVE  /\ \A h \in {r.huc : r \in ToSet(request[n].reaches)} :
                           UNION {CellsOfTile(t) : t \in {u \in ToSet(manifests[n].tiles) : u.huc = h}}
                             = RefFlood(h, request[n].reaches)
                      /\ \/ \A t \in ToSet(manifests[n].tiles) : objects[t.key] # {}
                         \/ Len(manifests[n].tiles) = 1
    BY Zenon DEF FloodIsReference
  <2>1. n \in 1 .. Len(manifests)
    BY DEF StreamInv, StreamTypes
  <2>2. PICK m, scenario : m = manifests[n] /\ scenario = request[n]
    OBVIOUS
  <2>3. ManifestOk(m, scenario)
    BY <2>1, <2>2 DEF StreamInv, ManifestsOk
  <2>4. /\ \A h \in {r.huc : r \in ToSet(scenario.reaches)} :
             UNION {CellsOfTile(t) : t \in {u \in ToSet(m.tiles) : u.huc = h}} = RefFlood(h, scenario.reaches)
        /\ (\A t \in ToSet(m.tiles) : objects[t.key] # {}) \/ Len(m.tiles) = 1
    BY <2>3 DEF ManifestOk
  <2> QED
    BY <2>2, <2>4
<1> QED
  BY <1>1, StreamInvariant, PTL

\* A manifest reports the reaches that no converted branch rates outside lakes,
\* in the order of the request (plan_huc, read_reaches_parquet).
THEOREM MissingExact == Spec => []MissingIsExact
<1>1. StreamInv => MissingIsExact
  <2> SUFFICES ASSUME StreamInv, NEW n \in DOMAIN manifests
               PROVE  manifests[n].missing =
                        FlattenSeq([i \in DOMAIN HucsOf(request[n]) |->
                                     MissingIn(HucsOf(request[n])[i], request[n].reaches)])
    BY Zenon DEF MissingIsExact, MissingIn, AbsentIn, KnownIn
  <2>1. n \in 1 .. Len(manifests) /\ Len(manifests) <= Len(request) /\ Len(manifests) \in Nat
    BY DEF StreamInv, StreamTypes
  <2>2. PICK m, scenario, scenarios :
          m = manifests[n] /\ scenarios = request /\ scenario = scenarios[n]
    OBVIOUS
  <2>3. ManifestOk(m, scenario)
    BY <2>1, <2>2 DEF StreamInv, ManifestsOk
  <2>4. m.missing = MissingUpTo(scenario, Len(HucsOf(scenario)))
    BY <2>3 DEF ManifestOk
  <2>5. scenarios \in Requests
    BY <2>1, <2>2 DEF StreamInv, StreamTypes
  <2>6. n \in 1 .. Len(scenarios)
    BY <2>1, <2>2, <2>5, StreamAssumption
  <2>7. PICK hs : hs = HucsOf(scenario)
    OBVIOUS
  <2>8. DOMAIN hs = 1 .. Len(hs)
    BY <2>2, <2>5, <2>6, <2>7, RequestFacts
  <2>9. m.missing = FlattenSeq([i \in 1 .. Len(hs) |-> MissingIn(hs[i], scenario.reaches)])
    BY <2>4, <2>7 DEF MissingUpTo
  <2> QED
    BY <2>2, <2>7, <2>8, <2>9
<1> QED
  BY <1>1, StreamInvariant, PTL

\* EveryCellOnce, of one plan: the parts cut its cells, and stay in their tiles.
CutOnce(plans, block, sched, i) ==
    \A x \in NeedOf(plans, block, i) :
        Cardinality({y \in PartsOf(sched, i) : x \in CellsOf(y[2].from)}) = 1

PlacedRight(plans, block, sched, i, h) ==
    \A y \in PartsOf(sched, i) :
        /\ CellsOf(y[2].from) \subseteq NeedOf(plans, block, i)
        /\ y[2].to.row + y[1][1] * TileSize = y[2].from.row + plans[i].place.row
        /\ y[2].to.col + y[1][2] * TileSize = y[2].from.col + plans[i].place.col
        /\ CellsOf(y[2].to) \subseteq CellsOf(TileShape(h, y[1]))

\* The shape of a tile on the HUC's grid.
LEMMA TileShapeFacts ==
    ASSUME NEW h, NEW tile \in Int \X Int, NEW height \in Int, NEW width \in Int,
           height = index[h].height, width = index[h].width
    PROVE  \E a, b \in Int :
             /\ a = height - tile[1] * TileSize /\ b = width - tile[2] * TileSize
             /\ TileShape(h, tile) = Window(0, 0, IF TileSize < a THEN TileSize ELSE a,
                                                  IF TileSize < b THEN TileSize ELSE b)
<1>1. TileSize \in Int
  BY StreamAssumption
<1>2. PICK t1, t2 \in Int : t1 = tile[1] /\ t2 = tile[2]
  OBVIOUS
<1>3. PICK a, b \in Int : a = height - t1 * TileSize /\ b = width - t2 * TileSize
  <2>1. height - t1 * TileSize \in Int /\ width - t2 * TileSize \in Int
    BY <1>1
  <2> QED
    BY <2>1
<1>4. a = index[h].height - tile[1] * TileSize /\ b = index[h].width - tile[2] * TileSize
  BY <1>2, <1>3
<1>5. TileShape(h, tile) = Window(0, 0, IF TileSize < a THEN TileSize ELSE a,
                                        IF TileSize < b THEN TileSize ELSE b)
  BY <1>4, Zenon DEF TileShape
<1>6. a = height - tile[1] * TileSize /\ b = width - tile[2] * TileSize
  BY <1>4
<1> QED
  BY <1>5, <1>6

\* The plans of a prepared HUC are cut exactly.
LEMMA HucCut ==
    ASSUME IndexInv, NEW h \in Hucs, index[h] # NoIndex, NEW reaches \in Seq(Reaches),
           NEW plans, plans = PlansIn(h, reaches), NEW sched, sched = ScheduleIn(h, reaches),
           NEW i \in DOMAIN plans
    PROVE  CutOnce(plans, index[h].block, sched, i) /\ PlacedRight(plans, index[h].block, sched, i, h)
<1>1. PICK block, height, width :
        block = index[h].block /\ height = index[h].height /\ width = index[h].width
  OBVIOUS
<1>2. PlansFit(plans, block, height, width)
  BY <1>1, HucFacts
<1>3. sched = ScheduleTiles(block, plans)
  BY <1>1 DEF ScheduleIn
<1>4. height \in Int /\ width \in Int
  BY <1>2 DEF PlansFit
<1>5. \A x \in NeedOf(plans, block, i) :
        Cardinality({y \in PartsOf(sched, i) : x \in CellsOf(y[2].from)}) = 1
  BY <1>2, <1>3, CutFacts
<1>6. ASSUME NEW y \in PartsOf(sched, i)
      PROVE  /\ CellsOf(y[2].from) \subseteq NeedOf(plans, block, i)
             /\ y[2].to.row + y[1][1] * TileSize = y[2].from.row + plans[i].place.row
             /\ y[2].to.col + y[1][2] * TileSize = y[2].from.col + plans[i].place.col
             /\ CellsOf(y[2].to) \subseteq CellsOf(TileShape(h, y[1]))
  <2>1. /\ y[1] \in DOMAIN sched
        /\ \E at \in plans[i].blocks : PartOk(y[2], plans, block, i, at, y[1])
        /\ CellsOf(y[2].from) \in SUBSET NeedOf(plans, block, i)
    BY <1>2, <1>3, CutFacts
  <2>2. PICK tile, part : tile = y[1] /\ part = y[2]
    OBVIOUS
  <2>3. PICK at \in plans[i].blocks : PartOk(part, plans, block, i, at, tile)
    BY <2>1, <2>2
  <2>4. tile \in Nat \X Nat
    BY <1>2, <1>3, <2>1, <2>2, TilesAndParts
  <2>5. tile \in Int \X Int
    BY <2>4
  <2>6. PICK a, b \in Int :
          /\ a = height - tile[1] * TileSize /\ b = width - tile[2] * TileSize
          /\ TileShape(h, tile) = Window(0, 0, IF TileSize < a THEN TileSize ELSE a,
                                               IF TileSize < b THEN TileSize ELSE b)
    BY <1>1, <1>4, <2>5, TileShapeFacts
  <2>7. PICK shape : shape = TileShape(h, tile)
    OBVIOUS
  <2>8. CellsOf(part.to) \in SUBSET CellsOf(shape)
    <3>1. shape = Window(0, 0, IF TileSize < a THEN TileSize ELSE a,
                               IF TileSize < b THEN TileSize ELSE b)
      BY <2>6, <2>7
    <3>2. PlansFit(plans, block, height, width) /\ i \in DOMAIN plans /\ at \in plans[i].blocks
      BY <1>2
    <3>3. /\ a \in Int /\ a = height - tile[1] * TileSize
          /\ b \in Int /\ b = width - tile[2] * TileSize
      BY <2>6
    <3>4. /\ Whole(shape)
          /\ CellsOf(part.to) \in SUBSET CellsOf(shape) /\ CellsOf(part.to) \in SUBSET (Int \X Int)
      BY <2>3, <2>5, <3>1, <3>2, <3>3, PartInside
    <3> QED
      BY <3>4
  <2>9. /\ part.to.row + tile[1] * TileSize = part.from.row + plans[i].place.row
        /\ part.to.col + tile[2] * TileSize = part.from.col + plans[i].place.col
    BY <2>3 DEF PartOk
  <2> QED
    BY <2>1, <2>2, <2>7, <2>8, <2>9
<1> QED
  BY <1>1, <1>5, <1>6, Zenon DEF CutOnce, PlacedRight

\* schedule_tiles computes every cell of every block once, from the place under
\* its tile (streamFIM.py:393).
THEOREM CutExactly == Spec => []EveryCellOnce
<1>1. IndexInv /\ StreamInv => EveryCellOnce
  <2> SUFFICES ASSUME IndexInv, StreamInv, NEW i \in DOMAIN work.current.plans
               PROVE  /\ CutOnce(work.current.plans, index[work.current.huc].block,
                                 work.current.schedule, i)
                      /\ PlacedRight(work.current.plans, index[work.current.huc].block,
                                     work.current.schedule, i, work.current.huc)
    BY Zenon DEF EveryCellOnce, CutOnce, PlacedRight, NeedOf, PartsOf
  <2>1. work.current # NoPlan
    <3>1. NoPlan.plans = <<>>
      BY DEF NoPlan
    <3>2. DOMAIN <<>> = {}
      OBVIOUS
    <3> QED
      BY <3>1, <3>2
  <2>2. PICK h \in Hucs : \E reaches \in Seq(Reaches) :
          /\ index[h] # NoIndex
          /\ work.current = [huc |-> h, plans |-> PlansIn(h, reaches), schedule |-> ScheduleIn(h, reaches)]
    BY <2>1 DEF StreamInv, CurrentOk
  <2>3. PICK reaches \in Seq(Reaches) :
          /\ index[h] # NoIndex
          /\ work.current = [huc |-> h, plans |-> PlansIn(h, reaches), schedule |-> ScheduleIn(h, reaches)]
    BY <2>2
  <2>4. PICK plans, sched : plans = PlansIn(h, reaches) /\ sched = ScheduleIn(h, reaches)
    OBVIOUS
  <2>5. work.current.huc = h /\ work.current.plans = plans /\ work.current.schedule = sched
    BY <2>3, <2>4
  <2>6. i \in DOMAIN plans
    BY <2>5
  <2>7. CutOnce(plans, index[h].block, sched, i) /\ PlacedRight(plans, index[h].block, sched, i, h)
    BY <2>3, <2>4, <2>6, HucCut
  <2> QED
    BY <2>5, <2>7
<1> QED
  BY <1>1, IndexInvariant, StreamInvariant, PTL

ModeOk == mode \in Modes

\* The type invariant of all three kinds of task.
THEOREM TypeCorrect == Spec => []TypeOK
<1>1. Init => ModeOk
  BY DEF Init, ModeOk
<1>2. ModeOk /\ [Next]_vars => ModeOk'
  BY DEF ModeOk, Next, Prepare, Streaming, Legacy, Compare, vars
<1>3. ModeOk /\ IndexInv /\ StreamInv /\ LegacyInv /\ CompareInv => TypeOK
  <2> SUFFICES ASSUME ModeOk, IndexInv, StreamInv, LegacyInv, CompareInv PROVE TypeOK
    OBVIOUS
  <2>1. ASSUME NEW h \in Hucs
        PROVE  dir[h] \subseteq ToSet(Wanted(source[h])) /\ (index[h] = NoIndex \/ index[h].block = root)
    <3>1. dir[h] \subseteq ToSet(Wanted(source[h]))
      BY DEF IndexInv
    <3>2. CASE index[h] # NoIndex
      <4>1. PICK idx, src : idx = index[h] /\ src = source[h] /\ Converts(idx, src, root)
        BY <3>2 DEF IndexInv
      <4>2. PICK branches \in SUBSET ToSet(src.ids) : idx = IndexOf(src, root, branches)
        BY <4>1 DEF Converts
      <4>3. idx.block = root
        BY <4>2 DEF IndexOf
      <4> QED
        BY <3>1, <4>1, <4>3
    <3> QED
      BY <3>1, <3>2
  <2>2. fetched \subseteq Hucs /\ root \in BlockSizes \cup {0} /\ interruptions \in 0 .. MaxInterruptions
    BY DEF IndexInv
  <2>3. /\ request \in Requests \cup {<<>>} /\ rule \in {"pinned"} \cup Rules
        /\ work.at \in {"idle", "plan", "tiles", "failed"} /\ Len(manifests) <= Len(request)
    BY DEF StreamInv, StreamTypes
  <2>4. /\ waiting \subseteq Jobs
        /\ attempt.at \in {"idle", "download", "compute", "assemble", "upload", "cleanup"}
        /\ attempt.at # "idle" => attempt.job \in Jobs \ waiting
    BY DEF LegacyInv, LegacyShape
  <2>5. /\ DOMAIN flow \subseteq LabelSet /\ \A l \in DOMAIN flow : flow[l] \in Jobs
        /\ \A h \in DOMAIN hucDir : hucDir[h] \in {"partial", "whole"}
        /\ \A k \in DOMAIN raster : raster[k] \in RasterSet
    BY DEF LegacyInv, LegacyTypes
  <2>6. Range(flow) \subseteq Jobs /\ Range(hucDir) \subseteq {"partial", "whole"}
        /\ Range(raster) \subseteq RasterSet
    BY <2>5, Zenon DEF Range
  <2>7. /\ DOMAIN outDir \subseteq Jobs /\ \A key \in DOMAIN bucket : bucket[key].by \in Jobs
        /\ result \in [Jobs -> {"none", "done", "failed"}]
        /\ kills \in 0 .. MaxKills /\ faults \in 0 .. MaxFaults
    BY DEF LegacyInv, LegacyTypes
  <2>8. comparing.at \in {"queued", "compare", "failed", "done"} /\ restarts \in 0 .. MaxRestarts
    BY DEF CompareInv
  <2>9. DOMAIN diffs \subseteq ToSet(IdsOf(base))
    BY SharedFacts DEF CompareInv
  <2> QED
    BY <2>1, <2>2, <2>3, <2>4, <2>5, <2>6, <2>7, <2>8, <2>9, Zenon DEF TypeOK, ModeOk
<1>4. Spec => []ModeOk
  BY <1>1, <1>2, PTL DEF Spec
<1> QED
  BY <1>3, <1>4, IndexInvariant, StreamInvariant, LegacyInvariant, CompareInvariant, PTL
=============================================================================
