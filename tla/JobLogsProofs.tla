----------------------------- MODULE JobLogsProofs -----------------------------
(***************************************************************************)
(* Proofs about JobLogs, for any lines, any max_bytes of at least four and *)
(* any faults: type correctness, and that a settled view shows the whole   *)
(* log. The reader advances by chunks that end where characters end, so    *)
(* what it shows is the text of a prefix of the log; the inductive         *)
(* invariant says which log that is while the worker clears it, archives   *)
(* it and starts again.                                                    *)
(***************************************************************************)
EXTENDS JobLogs, Integers, FiniteSetTheorems, SequenceTheorems,
        WellFoundedInduction, TLAPS

Symbols == Character \cup {Replaced}

\* Every byte belongs to a character that is there from its first to its last byte.
IsWhole(c) ==
    \A i \in 1 .. Len(c) :
        /\ c[i].part <= i
        /\ c[i].part <= Width[c[i].line]
        /\ i - c[i].part + Width[c[i].line] <= Len(c)
        /\ \A k \in 1 .. Width[c[i].line] :
             c[i - c[i].part + k] = [attempt |-> c[i].attempt, line |-> c[i].line, part |-> k]

\* After n bytes a character begins, or the content ends.
Boundary(c, n) == n \in 0 .. Len(c) /\ (n < Len(c) => c[n + 1].part = 1)

WholeLogs == IsWhole(log) /\ IsWhole(archive) /\ \A e \in endings : IsWhole(e)

NoLoss == "redisLoss" \notin faults

Starting == {"report", "recordStarted", "clear", "append"}

\* A worker crashes once, so there are two attempts at most, and bytes tell them apart.
Attempts ==
    /\ attempt = (IF phase = "idle" THEN 0 ELSE 1) + (IF "workerCrash" \in faults THEN 1 ELSE 0)
    /\ Cardinality(faults) <= MaxFaults
    /\ \A i \in DOMAIN log : log[i].attempt <= attempt
    /\ \A e \in endings : \A i \in DOMAIN e : e[i].attempt <= attempt
    /\ phase \in Starting =>
         \A e \in endings : \A i \in DOMAIN e : e[i].attempt < attempt

\* An attempt that starts after another has ended starts because of a crash.
Resumed == endings # {} /\ phase \in Starting \cup {"idle"} => "workerCrash" \in faults

\* Before an attempt has ended nobody sees an end.
NothingEnded ==
    endings = {} =>
        /\ phase \in Starting \cup {"idle"}
        /\ archive = <<>>
        /\ record \notin Terminal
        /\ backend \in {"PENDING", "STARTED"}
        /\ view.status \notin Terminal /\ view.answer \notin Terminal

Running ==
    /\ phase \in {"recordStarted", "clear", "append"} /\ NoLoss => backend = "STARTED"
    /\ phase \in {"clear", "append"} => record = "started"
    /\ phase \in {"archive", "recordEnd"} => outcome \in Terminal

\* While all attempts that ended left the same log e: where it is.
Stored ==
    NoLoss =>
        /\ bound
        /\ \A e \in endings : endings = {e} =>
             /\ log = e \/ phase = "append"
             /\ archive \in {<<>>, e}
             /\ record \in Terminal \/ phase = "recordEnd" => archive = e

\* What a request has read before it is answered.
Fetched(e) ==
    /\ view.phase = "pollArchive" => archive = e
    /\ view.phase = "pollRange" => log # e \/ (view.start = view.offset /\ view.offset < Len(e))
    /\ view.phase = "pollState" =>
         \/ log # e
         \/ /\ Boundary(e, view.start) /\ view.offset <= view.start
            /\ view.text = Text(SubSeq(e, view.offset + 1, view.start))
            /\ view.start = view.offset => view.offset = Len(e)

\* A view of a job that has ended shows the text of a prefix of e.
Viewed ==
    NoLoss /\ view.status \in Terminal /\ view.phase \in Polling \cup {"settled"} =>
        \A e \in endings : endings = {e} =>
            /\ Boundary(e, view.offset)
            /\ view.shown = Text(SubSeq(e, 1, view.offset))
            /\ view.phase = "settled" => view.offset = Len(e)
            /\ Fetched(e)

Requests ==
    /\ view.phase \in Polling \ {"pollState"} => view.text = <<>>
    /\ view.phase = "settled" => view.status \in Terminal
    /\ view.phase = "pollArchive" /\ NoLoss => view.answer \in Terminal

Views ==
    [phase : {"closed", "stale", "stopped", "settled"} \cup Opening \cup Polling,
     status : Statuses, shown : Seq(Symbols), offset : Nat, start : Nat,
     text : Seq(Symbols), answer : Statuses]

ViewType == view \in Views

IInv ==
    /\ TypeOK /\ ViewType
    /\ WholeLogs /\ Attempts /\ Resumed /\ NothingEnded
    /\ Running /\ Stored /\ Viewed /\ Requests

-----------------------------------------------------------------------------
(* Sequences of sequences. *)

\* A set of naturals that is not empty has a least element.
LEMMA LeastExists ==
    ASSUME NEW S \in SUBSET Nat, S # {}
    PROVE  \E i \in S : \A k \in S : i <= k
<1> DEFINE Less == {pair \in Nat \X Nat : pair[1] < pair[2]}
<1>1. PICK i \in S : \A k \in S : ~ (<<k, i>> \in Less)
  <2>1. IsWellFoundedOn(Less, Nat)
    BY NatLessThanWellFounded DEF OpToRel
  <2> QED
    BY <2>1, WFMin
<1>2. ASSUME NEW k \in S PROVE i <= k
  <2>1. ~ (<<k, i>> \in Less)
    BY <1>1
  <2>2. <<k, i>> \in Nat \X Nat /\ <<k, i>>[1] = k /\ <<k, i>>[2] = i
    OBVIOUS
  <2>3. ~ (k < i)
    BY <2>1, <2>2
  <2> QED
    BY <2>3
<1> QED
  BY <1>2

\* What FlattenSeq defines by recursion: the joined prefixes of s.
Joins(f, s) ==
    f = [i \in 1 .. Len(s) |-> IF i = 1 THEN s[i] ELSE f[i - 1] \o s[i]]

\* Such a function exists, for sequences of every length.
LEMMA JoinsExist ==
    ASSUME NEW T, NEW s \in Seq(T)
    PROVE  \E f : Joins(f, s)
<1> DEFINE P(n) == \A t \in Seq(T) : Len(t) = n => \E f : Joins(f, t)
<1> DEFINE Bad == {n \in Nat : ~P(n)}
<1>1. CASE Bad = {}
  <2>1. P(Len(s))
    BY <1>1
  <2> QED
    BY <2>1
<1>2. CASE Bad # {}
  <2>1. PICK n \in Bad : \A k \in Bad : n <= k
    <3> HIDE DEF P
    <3> QED
      BY <1>2, LeastExists
  <2>2. PICK t \in Seq(T) : Len(t) = n /\ ~ \E f : Joins(f, t)
    OBVIOUS
  <2>3. CASE n = 0
    <3>1. Joins([i \in 1 .. 0 |-> 0], t)
      BY <2>2, <2>3 DEF Joins
    <3> QED
      BY <2>2, <3>1
  <2>4. CASE n > 0
    <3> DEFINE u == SubSeq(t, 1, n - 1)
    <3>1. u \in Seq(T) /\ Len(u) = n - 1 /\ \A i \in 1 .. n - 1 : u[i] = t[i]
      BY <2>2, <2>4
    <3>2. n - 1 \in Nat /\ n - 1 \notin Bad
      BY <2>1, <2>4
    <3>3. P(n - 1)
      <4> HIDE DEF P
      <4> QED
        BY <3>2
    <3>4. PICK g : Joins(g, u)
      <4> HIDE DEF u
      <4> QED
        BY <3>1, <3>3
    <3> HIDE DEF u
    <3>5. g = [i \in 1 .. n - 1 |-> IF i = 1 THEN u[i] ELSE g[i - 1] \o u[i]]
      BY <3>4, <3>1 DEF Joins
    <3> DEFINE f == [i \in 1 .. n |-> IF i < n THEN g[i]
                                      ELSE IF i = 1 THEN t[i] ELSE g[i - 1] \o t[i]]
    <3>6. ASSUME NEW i \in 1 .. n
          PROVE  f[i] = IF i = 1 THEN t[i] ELSE f[i - 1] \o t[i]
      <4>1. CASE i < n
        <5>1. i \in 1 .. n - 1 /\ f[i] = g[i]
          BY <4>1
        <5>2. g[i] = IF i = 1 THEN t[i] ELSE g[i - 1] \o t[i]
          BY <5>1, <3>5, <3>1
        <5>3. i # 1 => i - 1 \in 1 .. n /\ i - 1 < n
          BY <4>1
        <5> QED
          BY <5>1, <5>2, <5>3
      <4>2. CASE i = n
        <5>1. i # 1 => i - 1 \in 1 .. n /\ i - 1 < n
          BY <4>2
        <5> QED
          BY <4>2, <5>1
      <4> QED
        BY <4>1, <4>2
    <3>7. Joins(f, t)
      <4>1. f = [i \in 1 .. n |-> IF i = 1 THEN t[i] ELSE f[i - 1] \o t[i]]
        BY <3>6
      <4> HIDE DEF f
      <4> QED
        BY <4>1, <2>2 DEF Joins
    <3> QED
      BY <3>7, <2>2
  <2> QED
    BY <2>3, <2>4
<1> QED
  BY <1>1, <1>2

\* FlattenSeq is the last of them.
LEMMA FlattenIsJoin ==
    ASSUME NEW T, NEW s \in Seq(T), s # <<>>
    PROVE  \E f : Joins(f, s) /\ FlattenSeq(s) = f[Len(s)]
<1>1. PICK g : Joins(g, s)
  BY JoinsExist
<1>2. Len(s) # 0
  OBVIOUS
<1> DEFINE flatten == CHOOSE f : Joins(f, s)
<1>3. Joins(flatten, s)
  BY <1>1
<1>4. FlattenSeq(s) = flatten[Len(s)]
  BY <1>2 DEF FlattenSeq, Joins
<1> HIDE DEF flatten
<1> QED
  BY <1>3, <1>4

\* The values of a join, one by one.
LEMMA JoinValue ==
    ASSUME NEW T, NEW s \in Seq(T), NEW f, Joins(f, s), NEW i \in 1 .. Len(s)
    PROVE  f[i] = IF i = 1 THEN s[i] ELSE f[i - 1] \o s[i]
<1> DEFINE g == [j \in 1 .. Len(s) |-> IF j = 1 THEN s[j] ELSE f[j - 1] \o s[j]]
<1>1. f = g
  BY DEF Joins
<1>2. g[i] = IF i = 1 THEN s[i] ELSE f[i - 1] \o s[i]
  OBVIOUS
<1> QED
  BY <1>1, <1>2

\* Two joins agree on a common prefix.
LEMMA JoinsAgree ==
    ASSUME NEW T, NEW s \in Seq(T), NEW t \in Seq(T), NEW f, NEW g,
           Joins(f, s), Joins(g, t),
           NEW n \in Nat, n <= Len(s), n <= Len(t), \A i \in 1 .. n : s[i] = t[i]
    PROVE  \A i \in 1 .. n : f[i] = g[i]
<1> DEFINE Bad == {i \in 1 .. n : f[i] # g[i]}
<1>1. CASE Bad = {}
  BY <1>1
<1>2. CASE Bad # {}
  <2>1. Bad \in SUBSET Nat
    OBVIOUS
  <2>2. PICK i \in Bad : \A k \in Bad : i <= k
    BY <1>2, <2>1, LeastExists
  <2>3. i \in 1 .. Len(s) /\ i \in 1 .. Len(t) /\ s[i] = t[i] /\ i \in 1 .. n
    OBVIOUS
  <2>4. f[i] = IF i = 1 THEN s[i] ELSE f[i - 1] \o s[i]
    BY <2>3, JoinValue
  <2>5. g[i] = IF i = 1 THEN t[i] ELSE g[i - 1] \o t[i]
    BY <2>3, JoinValue
  <2>6. i # 1 => f[i - 1] = g[i - 1]
    <3>1. i # 1 => i - 1 \in 1 .. n /\ ~ (i <= i - 1)
      BY <2>3
    <3> QED
      BY <3>1, <2>2
  <2>7. f[i] = g[i]
    BY <2>3, <2>4, <2>5, <2>6
  <2> QED
    BY <2>7
<1> QED
  BY <1>1, <1>2

\* Flattening one more sequence appends it.
LEMMA FlattenGrows ==
    ASSUME NEW T, NEW s \in Seq(T), NEW x \in T, s # <<>>
    PROVE  FlattenSeq(Append(s, x)) = FlattenSeq(s) \o x
<1>0. Append(s, x) \in Seq(T)
  OBVIOUS
<1>1. PICK t \in Seq(T) : t = Append(s, x)
  BY <1>0
<1>2. /\ Len(s) \in Nat /\ Len(s) > 0 /\ Len(t) = Len(s) + 1
      /\ t # <<>> /\ t[Len(t)] = x
      /\ \A i \in 1 .. Len(s) : s[i] = t[i]
  BY <1>1, EmptySeq
<1>3. PICK f : Joins(f, s) /\ FlattenSeq(s) = f[Len(s)]
  BY FlattenIsJoin
<1>4. PICK g : Joins(g, t) /\ FlattenSeq(t) = g[Len(t)]
  BY <1>2, FlattenIsJoin
<1>5. \A i \in 1 .. Len(s) : f[i] = g[i]
  BY <1>2, <1>3, <1>4, JoinsAgree
<1>6. g[Len(t)] = g[Len(t) - 1] \o x
  <2>1. Len(t) \in 1 .. Len(t) /\ Len(t) # 1
    BY <1>2
  <2>2. g[Len(t)] = IF Len(t) = 1 THEN t[Len(t)] ELSE g[Len(t) - 1] \o t[Len(t)]
    BY <2>1, <1>4, JoinValue
  <2> QED
    BY <2>1, <2>2, <1>2
<1>7. Len(s) \in 1 .. Len(s) /\ Len(t) - 1 = Len(s)
  BY <1>2
<1>8. FlattenSeq(t) = f[Len(s)] \o x
  BY <1>4, <1>5, <1>6, <1>7
<1> QED
  BY <1>1, <1>3, <1>8

\* Also when it is the first one.
LEMMA FlattenAppend ==
    ASSUME NEW S, NEW s \in Seq(Seq(S)), NEW x \in Seq(S)
    PROVE  FlattenSeq(Append(s, x)) = FlattenSeq(s) \o x
<1>1. CASE s # <<>>
  BY <1>1, FlattenGrows
<1>2. CASE s = <<>>
  <2>1. FlattenSeq(s) = <<>>
    BY <1>2 DEF FlattenSeq
  <2>0. Append(s, x) \in Seq(Seq(S))
    OBVIOUS
  <2>2. PICK t \in Seq(Seq(S)) : t = Append(s, x)
    BY <2>0
  <2>3. Len(t) = 1 /\ t # <<>> /\ t[1] = x
    BY <1>2, <2>2
  <2>4. PICK g : Joins(g, t) /\ FlattenSeq(t) = g[Len(t)]
    BY <2>3, FlattenIsJoin
  <2>5. g[1] = x
    BY <2>3, <2>4, JoinValue
  <2>6. <<>> \o x = x
    OBVIOUS
  <2> QED
    BY <2>1, <2>2, <2>3, <2>4, <2>5, <2>6
<1> QED
  BY <1>1, <1>2

\* The flattened sequence is one of elements.
LEMMA FlattenType ==
    ASSUME NEW S, NEW s \in Seq(Seq(S))
    PROVE  FlattenSeq(s) \in Seq(S)
<1>1. CASE s = <<>>
  BY <1>1 DEF FlattenSeq
<1>2. CASE s # <<>>
  <2>1. PICK f : Joins(f, s) /\ FlattenSeq(s) = f[Len(s)]
    BY <1>2, FlattenIsJoin
  <2> DEFINE Bad == {i \in 1 .. Len(s) : f[i] \notin Seq(S)}
  <2>2. Len(s) \in 1 .. Len(s)
    BY <1>2
  <2>3. CASE Bad = {}
    BY <2>1, <2>2, <2>3
  <2>4. CASE Bad # {}
    <3>1. Bad \in SUBSET Nat
      OBVIOUS
    <3>2. PICK i \in Bad : \A k \in Bad : i <= k
      BY <2>4, <3>1, LeastExists
    <3>3. f[i] = IF i = 1 THEN s[i] ELSE f[i - 1] \o s[i]
      BY <2>1, JoinValue
    <3>4. s[i] \in Seq(S)
      BY ElementOfSeq
    <3>5. i # 1 => f[i - 1] \in Seq(S)
      <4>1. i # 1 => i - 1 \in 1 .. Len(s) /\ ~ (i <= i - 1)
        OBVIOUS
      <4> QED
        BY <4>1, <3>2
    <3>6. f[i] \in Seq(S)
      BY <3>3, <3>4, <3>5
    <3> QED
      BY <3>6
  <2> QED
    BY <2>3, <2>4
<1> QED
  BY <1>1, <1>2

\* Flattening distributes over concatenation: one more sequence on the right.
LEMMA FlattenConcatStep ==
    ASSUME NEW S, NEW s \in Seq(Seq(S)), NEW v \in Seq(Seq(S)), NEW x \in Seq(S),
           FlattenSeq(s \o v) = FlattenSeq(s) \o FlattenSeq(v)
    PROVE  FlattenSeq(s \o Append(v, x)) = FlattenSeq(s) \o FlattenSeq(Append(v, x))
<1>1. s \o Append(v, x) = Append(s \o v, x)
  <2>1. s \o v \in Seq(Seq(S)) /\ <<x>> \in Seq(Seq(S))
    OBVIOUS
  <2>2. Append(v, x) = v \o <<x>>
    BY AppendIsConcat
  <2>3. Append(s \o v, x) = (s \o v) \o <<x>>
    BY <2>1, AppendIsConcat
  <2>4. (s \o v) \o <<x>> = s \o (v \o <<x>>)
    BY <2>1, ConcatAssociative, SMTT(30)
  <2> QED
    BY <2>2, <2>3, <2>4
<1>2. FlattenSeq(Append(s \o v, x)) = FlattenSeq(s \o v) \o x
  <2>1. s \o v \in Seq(Seq(S))
    OBVIOUS
  <2> QED
    BY <2>1, FlattenAppend
<1>3. FlattenSeq(Append(v, x)) = FlattenSeq(v) \o x
  BY FlattenAppend
<1>4. PICK a \in Seq(S), b \in Seq(S) : a = FlattenSeq(s) /\ b = FlattenSeq(v)
  BY FlattenType
<1>5. (a \o b) \o x = a \o (b \o x)
  BY SMTT(30)
<1> QED
  BY <1>1, <1>2, <1>3, <1>4, <1>5

\* Flattening distributes over concatenation.
LEMMA FlattenConcat ==
    ASSUME NEW S, NEW s \in Seq(Seq(S)), NEW t \in Seq(Seq(S))
    PROVE  FlattenSeq(s \o t) = FlattenSeq(s) \o FlattenSeq(t)
<1> DEFINE P(n) == \A u \in Seq(Seq(S)) : Len(u) = n =>
                      FlattenSeq(s \o u) = FlattenSeq(s) \o FlattenSeq(u)
<1> DEFINE Bad == {n \in Nat : ~P(n)}
<1>1. CASE Bad = {}
  <2>1. P(Len(t))
    <3>1. Len(t) \in Nat
      OBVIOUS
    <3> HIDE DEF P
    <3> QED
      BY <1>1, <3>1
  <2> QED
    BY <2>1
<1>2. CASE Bad # {}
  <2>1. PICK n \in Bad : \A k \in Bad : n <= k
    <3> HIDE DEF P
    <3> QED
      BY <1>2, LeastExists
  <2>2. PICK u \in Seq(Seq(S)) : /\ Len(u) = n
                                 /\ FlattenSeq(s \o u) # FlattenSeq(s) \o FlattenSeq(u)
    OBVIOUS
  <2>3. CASE n = 0
    <3>1. u = <<>> /\ FlattenSeq(u) = <<>>
      <4>1. u = <<>>
        BY <2>2, <2>3, EmptySeq
      <4> QED
        BY <4>1, <2>2, <2>3 DEF FlattenSeq
    <3>2. s \o u = s
      BY <3>1
    <3>3. FlattenSeq(s) \o <<>> = FlattenSeq(s)
      BY FlattenType, ConcatEmptySeq
    <3> QED
      BY <2>2, <3>1, <3>2, <3>3
  <2>4. CASE n > 0
    <3>1. PICK v \in Seq(Seq(S)), x \in Seq(S) : u = Append(v, x)
      <4>1. u # <<>>
        BY <2>2, <2>4
      <4> QED
        BY <4>1, SequenceEmptyOrAppend
    <3>2. Len(v) = n - 1 /\ n - 1 \in Nat /\ n - 1 \notin Bad
      <4>1. Len(u) = Len(v) + 1
        BY <3>1
      <4> HIDE DEF P
      <4> QED
        BY <2>1, <2>2, <2>4, <4>1
    <3>3. P(n - 1)
      <4> HIDE DEF P
      <4> QED
        BY <3>2
    <3>4. FlattenSeq(s \o v) = FlattenSeq(s) \o FlattenSeq(v)
      BY <3>2, <3>3
    <3> HIDE DEF P, Bad
    <3> QED
      BY <2>2, <3>1, <3>4, FlattenConcatStep
  <2> QED
    BY <2>3, <2>4
<1> QED
  BY <1>1, <1>2

-----------------------------------------------------------------------------
(* Content made of whole characters. *)

\* What a byte is made of.
LEMMA ByteFacts ==
    ASSUME NEW c \in Seq(Byte), NEW i \in 1 .. Len(c)
    PROVE  /\ c[i].part \in 1 .. 4
           /\ c[i].line \in Lines
           /\ c[i].attempt \in 1 .. 1 + MaxFaults
           /\ Width[c[i].line] \in 1 .. 4
<1>1. c[i] \in Byte
  OBVIOUS
<1>2. \A l \in Lines : Width[l] \in 1 .. 4
  BY LogsAssumption DEF Lines
<1> QED
  BY <1>1, <1>2 DEF Byte

\* The attempts in logs are numbers.
LEMMA AttemptsAreNumbers ==
    ASSUME TypeOK
    PROVE  /\ \A i \in DOMAIN log : log[i].attempt \in Int
           /\ \A e \in endings : \A i \in DOMAIN e : e[i].attempt \in Int
           /\ attempt \in Int
<1>1. \A c \in Seq(Byte) : \A i \in DOMAIN c : c[i].attempt \in Int
  <2> SUFFICES ASSUME NEW c \in Seq(Byte), NEW i \in DOMAIN c PROVE c[i].attempt \in Int
    OBVIOUS
  <2>1. i \in 1 .. Len(c)
    OBVIOUS
  <2>2. c[i].attempt \in 1 .. 1 + MaxFaults
    BY <2>1, ByteFacts
  <2> QED
    BY <2>2
<1>2. log \in Seq(Byte) /\ (\A e \in endings : e \in Seq(Byte)) /\ attempt \in 0 .. 1 + MaxFaults
  BY DEF TypeOK
<1> QED
  BY <1>1, <1>2

\* The bytes of a line.
LEMMA BytesOfFacts ==
    ASSUME NEW a \in 1 .. 1 + MaxFaults, NEW l \in Lines
    PROVE  /\ BytesOf(a, l) \in Seq(Byte)
           /\ Len(BytesOf(a, l)) = Width[l] /\ Width[l] \in 1 .. 4
           /\ \A k \in 1 .. Width[l] :
                BytesOf(a, l)[k] = [attempt |-> a, line |-> l, part |-> k]
<1>1. Width[l] \in 1 .. 4
  BY LogsAssumption DEF Lines
<1>2. \A k \in 1 .. Width[l] : [attempt |-> a, line |-> l, part |-> k] \in Byte
  BY <1>1 DEF Byte
<1> QED
  BY <1>1, <1>2 DEF BytesOf

LineAdded(c, a, l) == c \o BytesOf(a, l)

\* Appending a line keeps the content whole.
LEMMA WholeAppend ==
    ASSUME NEW c \in Seq(Byte), IsWhole(c), NEW a \in 1 .. 1 + MaxFaults, NEW l \in Lines
    PROVE  LET d == LineAdded(c, a, l) IN
             /\ d \in Seq(Byte) /\ IsWhole(d)
             /\ Len(d) > Len(c) /\ d[Len(d)].attempt = a
             /\ \A i \in 1 .. Len(d) : d[i].attempt = a \/ (i \in 1 .. Len(c) /\ d[i] = c[i])
<1>0. PICK d : d = LineAdded(c, a, l)
  OBVIOUS
<1> DEFINE n == Len(c)
           w == Width[l]
<1>1. /\ n \in Nat /\ w \in 1 .. 4 /\ Len(d) = n + w /\ d \in Seq(Byte)
      /\ \A i \in 1 .. n : d[i] = c[i]
      /\ \A k \in 1 .. w : d[n + k] = [attempt |-> a, line |-> l, part |-> k]
  <2>1. PICK b \in Seq(Byte) :
            /\ b = BytesOf(a, l) /\ Len(b) = w /\ w \in 1 .. 4
            /\ \A k \in 1 .. w : b[k] = [attempt |-> a, line |-> l, part |-> k]
    BY BytesOfFacts
  <2>2. d = c \o b
    BY <2>1, <1>0 DEF LineAdded
  <2> HIDE DEF n, w
  <2>3. Len(d) = Len(c) + Len(b) /\ d \in Seq(Byte) /\ Len(c) \in Nat
    BY <2>2
  <2>4. \A i \in 1 .. Len(c) : d[i] = c[i]
    BY <2>2
  <2>5. \A k \in 1 .. Len(b) : d[Len(c) + k] = b[k]
    BY <2>2
  <2> QED
    BY <2>1, <2>3, <2>4, <2>5 DEF n
<1> HIDE DEF n, w
<1>2. ASSUME NEW i \in 1 .. Len(d)
      PROVE  /\ d[i].part <= i
             /\ d[i].part <= Width[d[i].line]
             /\ i - d[i].part + Width[d[i].line] <= Len(d)
             /\ \A k \in 1 .. Width[d[i].line] :
                  d[i - d[i].part + k]
                    = [attempt |-> d[i].attempt, line |-> d[i].line, part |-> k]
  <2>1. CASE i \in 1 .. n
    <3>1. i \in 1 .. Len(c) /\ d[i] = c[i]
      BY <2>1, <1>1 DEF n
    <3>2. PICK p \in 1 .. 4, v \in 1 .. 4 : p = c[i].part /\ v = Width[c[i].line]
      BY <3>1, ByteFacts
    <3>3. /\ p <= i /\ p <= v /\ i - p + v <= n
          /\ \A k \in 1 .. v :
               c[i - p + k] = [attempt |-> c[i].attempt, line |-> c[i].line, part |-> k]
      BY <3>1, <3>2 DEF IsWhole, n
    <3>4. \A k \in 1 .. v : i - p + k \in 1 .. n
      BY <3>3, <1>1, <2>1
    <3>5. i - p + v <= Len(d)
      BY <3>3, <1>1, <2>1
    <3>6. /\ d[i].part = p /\ Width[d[i].line] = v
          /\ d[i].line = c[i].line /\ d[i].attempt = c[i].attempt
      BY <3>1, <3>2
    <3>7. ASSUME NEW k \in 1 .. v
          PROVE  d[i - p + k] = [attempt |-> c[i].attempt, line |-> c[i].line, part |-> k]
      <4>1. i - p + k \in 1 .. n
        BY <3>4
      <4>2. d[i - p + k] = c[i - p + k]
        BY <4>1, <1>1
      <4> QED
        BY <4>2, <3>3
    <3> QED
      BY <3>3, <3>5, <3>6, <3>7
  <2>2. CASE i \in n + 1 .. n + w
    <3>1. PICK p \in 1 .. w : i = n + p
      <4>1. i - n \in 1 .. w /\ i = n + (i - n)
        BY <2>2, <1>1
      <4> QED
        BY <4>1
    <3>2. d[i] = [attempt |-> a, line |-> l, part |-> p]
      BY <3>1, <1>1
    <3>3. d[i].part = p /\ d[i].line = l /\ d[i].attempt = a
      BY <3>2
    <3>4. i - p = n /\ p <= i /\ p <= w /\ n + w <= Len(d)
      BY <3>1, <1>1
    <3>5. Width[d[i].line] = w
      BY <3>3 DEF w
    <3>6. \A k \in 1 .. w : d[i - p + k] = [attempt |-> a, line |-> l, part |-> k]
      BY <3>4, <1>1
    <3> QED
      BY <3>3, <3>4, <3>5, <3>6
  <2>3. i \in 1 .. n \/ i \in n + 1 .. n + w
    BY <1>1
  <2> QED
    BY <2>1, <2>2, <2>3
<1>3. IsWhole(d)
  BY <1>2 DEF IsWhole
<1>4. Len(d) > Len(c) /\ d[Len(d)].attempt = a
  <2>1. w \in 1 .. w /\ Len(d) = n + w
    BY <1>1
  <2>2. d[Len(d)] = [attempt |-> a, line |-> l, part |-> w]
    BY <2>1, <1>1
  <2> QED
    BY <2>1, <2>2, <1>1 DEF n
<1>5. ASSUME NEW i \in 1 .. Len(d), i \notin 1 .. Len(c) PROVE d[i].attempt = a
  <2>1. i - n \in 1 .. w /\ i = n + (i - n)
    BY <1>1, <1>5 DEF n
  <2>2. d[i] = [attempt |-> a, line |-> l, part |-> i - n]
    BY <2>1, <1>1
  <2> QED
    BY <2>2
<1>6. \A i \in 1 .. Len(d) : d[i].attempt = a \/ (i \in 1 .. Len(c) /\ d[i] = c[i])
  BY <1>1, <1>5 DEF n
<1> QED
  BY <1>0, <1>1, <1>3, <1>4, <1>6

\* A whole content begins with a first byte, so its beginning is a boundary; so is its end.
LEMMA BoundaryEnds ==
    ASSUME NEW c \in Seq(Byte), IsWhole(c)
    PROVE  Boundary(c, 0) /\ Boundary(c, Len(c))
<1>1. Len(c) > 0 => c[1].part = 1
  <2> SUFFICES ASSUME Len(c) > 0 PROVE c[1].part = 1
    OBVIOUS
  <2>1. 1 \in 1 .. Len(c)
    OBVIOUS
  <2>2. c[1].part \in 1 .. 4
    BY <2>1, ByteFacts
  <2>3. c[1].part <= 1
    BY <2>1 DEF IsWhole
  <2> QED
    BY <2>2, <2>3
<1> QED
  BY <1>1 DEF Boundary

\* At a boundary no character is open: one that starts before it ends before it.
LEMMA BoundarySplits ==
    ASSUME NEW c \in Seq(Byte), IsWhole(c), NEW n, Boundary(c, n),
           NEW i \in 1 .. Len(c)
    PROVE  /\ i <= n => i - c[i].part + Width[c[i].line] <= n
           /\ i > n => i - c[i].part >= n
<1>1. n \in 0 .. Len(c) /\ Len(c) \in Nat
  BY DEF Boundary
<1>2. PICK p \in 1 .. 4, w \in 1 .. 4 : p = c[i].part /\ w = Width[c[i].line]
  BY ByteFacts
<1>3. p <= i /\ p <= w /\ i - p + w <= Len(c)
  BY <1>2 DEF IsWhole
<1>6. ASSUME NEW k \in 1 .. w, NEW j, j = i - p + k PROVE c[j].part = k
  <2>1. c[i - p + k] = [attempt |-> c[i].attempt, line |-> c[i].line, part |-> k]
    BY <1>2 DEF IsWhole
  <2> QED
    BY <2>1, <1>6
<1>7. n \in Int /\ i \in Int /\ p \in Int /\ w \in Int
  BY <1>1
<1>4. i <= n => i - p + w <= n
  <2> SUFFICES ASSUME i <= n, i - p + w > n PROVE FALSE
    BY <1>1, <1>2
  <2>1. PICK k \in 1 .. w : n + 1 = i - p + k /\ k # 1
    <3>1. n + 1 - (i - p) \in 1 .. w
      BY <1>3, <1>7
    <3>2. n + 1 - (i - p) # 1 /\ n + 1 = i - p + (n + 1 - (i - p))
      BY <1>3, <1>7
    <3> QED
      BY <3>1, <3>2
  <2>2. n < Len(c)
    BY <1>1, <1>2, <1>3
  <2>3. c[n + 1].part = k
    BY <2>1, <1>6
  <2> QED
    BY <2>1, <2>2, <2>3 DEF Boundary
<1>5. i > n => i - p >= n
  <2> SUFFICES ASSUME i > n, i - p < n PROVE FALSE
    BY <1>1, <1>2
  <2>1. PICK k \in 1 .. w : n + 1 = i - p + k /\ k # 1
    <3>1. n + 1 - (i - p) \in 1 .. w
      BY <1>3, <1>7
    <3>2. n + 1 - (i - p) # 1 /\ n + 1 = i - p + (n + 1 - (i - p))
      BY <1>3, <1>7
    <3> QED
      BY <3>1, <3>2
  <2>2. n < Len(c)
    BY <1>1, <1>2, <1>3
  <2>3. c[n + 1].part = k
    BY <2>1, <1>6
  <2> QED
    BY <2>1, <2>2, <2>3 DEF Boundary
<1> QED
  BY <1>2, <1>4, <1>5

\* What lies between two boundaries is whole.
LEMMA WholeBetween ==
    ASSUME NEW c \in Seq(Byte), IsWhole(c),
           NEW m, NEW n, Boundary(c, m), Boundary(c, n), m <= n,
           NEW d, d = SubSeq(c, m + 1, n)
    PROVE  /\ d \in Seq(Byte) /\ IsWhole(d) /\ Len(d) = n - m
           /\ \A i \in 1 .. n - m : d[i] = c[m + i]
<1>1. m \in 0 .. Len(c) /\ n \in 0 .. Len(c) /\ Len(c) \in Nat
  BY DEF Boundary
<1>2. /\ d \in Seq(Byte) /\ Len(d) = n - m
      /\ \A i \in 1 .. n - m : d[i] = c[m + i]
  BY <1>1
<1>3. ASSUME NEW i \in 1 .. Len(d)
      PROVE  /\ d[i].part <= i
             /\ d[i].part <= Width[d[i].line]
             /\ i - d[i].part + Width[d[i].line] <= Len(d)
             /\ \A k \in 1 .. Width[d[i].line] :
                  d[i - d[i].part + k]
                    = [attempt |-> d[i].attempt, line |-> d[i].line, part |-> k]
  <2>1. m + i \in 1 .. Len(c) /\ d[i] = c[m + i] /\ i \in 1 .. n - m
    BY <1>1, <1>2
  <2>2. PICK j \in 1 .. Len(c) : j = m + i
    BY <2>1
  <2>3. PICK p \in 1 .. 4, w \in 1 .. 4 : p = c[j].part /\ w = Width[c[j].line]
    BY ByteFacts
  <2>4. \A k \in 1 .. w :
            c[j - p + k] = [attempt |-> c[j].attempt, line |-> c[j].line, part |-> k]
    BY <2>3 DEF IsWhole
  <2>11. p <= w
    BY <2>3 DEF IsWhole
  <2>10. j <= n /\ j > m
    BY <1>1, <2>1, <2>2
  <2>5. j - p + w <= n
    <3>1. j <= n => j - c[j].part + Width[c[j].line] <= n
      BY BoundarySplits
    <3> QED
      BY <3>1, <2>3, <2>10
  <2>6. j - p >= m
    <3>1. j > m => j - c[j].part >= m
      BY BoundarySplits
    <3> QED
      BY <3>1, <2>3, <2>10
  <2>7. /\ d[i].part = p /\ Width[d[i].line] = w
        /\ d[i].line = c[j].line /\ d[i].attempt = c[j].attempt
    BY <2>1, <2>2, <2>3
  <2>12. /\ i \in Int /\ j \in Int /\ m \in Int /\ n \in Int /\ p \in Int /\ w \in Int
         /\ j = m + i /\ Len(d) = n - m
    BY <1>1, <1>2, <2>1, <2>2
  <2>8. p <= i /\ i - p + w <= Len(d)
    BY <2>12, <2>5, <2>6
  <2>9. ASSUME NEW k \in 1 .. w
        PROVE  d[i - p + k] = [attempt |-> c[j].attempt, line |-> c[j].line, part |-> k]
    <3>1. i - p + k \in 1 .. n - m /\ m + (i - p + k) = j - p + k
      BY <2>12, <2>5, <2>6
    <3>2. d[i - p + k] = c[m + (i - p + k)]
      BY <3>1, <1>2
    <3> QED
      BY <3>1, <3>2, <2>4
  <2> QED
    BY <2>7, <2>8, <2>9, <2>11
<1>4. IsWhole(d)
  BY <1>3 DEF IsWhole
<1> QED
  BY <1>2, <1>4

\* From a boundary before the end, a chunk brings at least one character and ends at a
\* boundary: four bytes hold the longest character.
LEMMA ChunkAdvances ==
    ASSUME NEW c \in Seq(Byte), IsWhole(c), NEW s, Boundary(c, s), s < Len(c)
    PROVE  \E n \in 0 .. Len(c) :
               Boundary(c, n) /\ s < n /\ Chunk(c, s) = SubSeq(c, s + 1, n)
<1>1. s \in Nat /\ Len(c) \in Nat /\ s < Len(c) /\ c[s + 1].part = 1
  BY DEF Boundary
<1>2. PICK e \in Nat : /\ e = LeastOf(s + MaxBytes, Len(c))
                       /\ s < e /\ e <= Len(c)
                       /\ e = Len(c) \/ e >= s + 4
  <2>1. MaxBytes \in Nat /\ MaxBytes >= 4
    BY LogsAssumption
  <2>2. CASE s + MaxBytes < Len(c)
    <3>1. LeastOf(s + MaxBytes, Len(c)) = s + MaxBytes
      BY <2>2 DEF LeastOf
    <3>2. s + MaxBytes \in Nat /\ s < s + MaxBytes /\ s + MaxBytes >= s + 4
      BY <1>1, <2>1
    <3> QED
      BY <2>2, <3>1, <3>2
  <2>3. CASE ~ (s + MaxBytes < Len(c))
    BY <1>1, <2>3 DEF LeastOf
  <2> QED
    BY <2>2, <2>3
<1>3. PICK raw \in Seq(Byte) :
          /\ raw = SubSeq(c, s + 1, e) /\ Len(raw) = e - s
          /\ \A i \in 1 .. e - s : raw[i] = c[s + i]
  <2>1. \A i \in s + 1 .. e : c[i] \in Byte
    BY <1>1, <1>2
  <2>2. /\ SubSeq(c, s + 1, e) \in Seq(Byte)
        /\ Len(SubSeq(c, s + 1, e)) = e - s
        /\ \A i \in 1 .. e - s : SubSeq(c, s + 1, e)[i] = c[s + i]
    BY <1>1, <1>2, <2>1
  <2> QED
    BY <2>2
<1>4. Chunk(c, s) = Decodable(raw)
  BY <1>2, <1>3 DEF Chunk
<1> DEFINE cut == {i \in CharacterStarts(raw) : ~Completes(raw, i)}
<1>5. \A i \in cut : /\ i \in 1 .. e - s /\ c[s + i].part = 1
                     /\ i + Width[c[s + i].line] - 1 > e - s
  <2> SUFFICES ASSUME NEW i \in cut
               PROVE  /\ i \in 1 .. e - s /\ c[s + i].part = 1
                      /\ i + Width[c[s + i].line] - 1 > e - s
    OBVIOUS
  <2>1. i \in 1 .. Len(raw) /\ raw[i].part = 1 /\ ~ (i + Width[raw[i].line] - 1 <= Len(raw))
    BY DEF CharacterStarts, Completes
  <2>2. i \in 1 .. e - s /\ raw[i] = c[s + i]
    BY <2>1, <1>3
  <2>3. PICK w \in 1 .. 4 : w = Width[raw[i].line]
    BY <2>1, ByteFacts
  <2>4. e - s \in Int /\ Len(raw) = e - s /\ i \in Int
    BY <1>1, <1>2, <1>3, <2>1
  <2>5. i + w - 1 > e - s
    BY <2>1, <2>3, <2>4
  <2> QED
    BY <2>1, <2>2, <2>3, <2>5
<1>6. CASE cut = {}
  <2>1. Chunk(c, s) = SubSeq(c, s + 1, e)
    <3>1. Decodable(raw) = raw
      BY <1>6 DEF Decodable
    <3> QED
      BY <3>1, <1>3, <1>4
  <2>2. e < Len(c) => c[e + 1].part = 1
    <3> SUFFICES ASSUME e < Len(c), c[e + 1].part # 1 PROVE FALSE
      OBVIOUS
    <3>1. PICK j \in 1 .. Len(c) : j = e + 1
      BY <1>1, <1>2
    <3>2. PICK p \in 1 .. 4, w \in 1 .. 4 : p = c[j].part /\ w = Width[c[j].line]
      BY ByteFacts
    <3>3. p <= j /\ p <= w /\ p # 1
      BY <3>1, <3>2 DEF IsWhole
    <3>4. c[j - p + 1] = [attempt |-> c[j].attempt, line |-> c[j].line, part |-> 1]
      <4>1. 1 \in 1 .. w
        OBVIOUS
      <4> QED
        BY <3>2, <4>1 DEF IsWhole
    <3>5. j > s => j - c[j].part >= s
      BY <1>1, BoundarySplits
    <3>6. PICK i \in 1 .. e - s : s + i = j - p + 1
      <4>1. j - p >= s
        BY <3>1, <3>2, <3>5, <1>1, <1>2
      <4>3. s \in Int /\ e \in Int /\ p \in Int /\ p > 1 /\ j \in Int
        BY <1>1, <1>2, <3>3
      <4>2. j - p + 1 - s \in 1 .. e - s /\ s + (j - p + 1 - s) = j - p + 1
        BY <4>1, <4>3, <3>1, SMTT(30)
      <4> QED
        BY <4>2
    <3>7. raw[i].part = 1 /\ Width[raw[i].line] = w
      <4>1. raw[i] = c[j - p + 1]
        BY <3>6, <1>3
      <4> QED
        BY <3>2, <3>4, <4>1
    <3>8. ~ (i + w - 1 <= Len(raw))
      <4>1. /\ s \in Int /\ e \in Int /\ p \in Int /\ w \in Int /\ j \in Int /\ i \in Int
            /\ Len(raw) = e - s
        BY <1>1, <1>2, <1>3
      <4> QED
        BY <4>1, <3>1, <3>3, <3>6
    <3>9. i \in cut
      <4>1. i \in DOMAIN raw
        BY <3>6, <1>3
      <4>2. raw[i].part = 1 /\ ~ (i + Width[raw[i].line] - 1 <= Len(raw))
        BY <3>7, <3>8
      <4>3. i \in CharacterStarts(raw) /\ ~ Completes(raw, i)
        BY <4>1, <4>2 DEF CharacterStarts, Completes
      <4> QED
        BY <4>3
    <3> QED
      BY <1>6, <3>9
  <2>3. Boundary(c, e)
    BY <2>2, <1>1, <1>2 DEF Boundary
  <2> QED
    BY <2>1, <2>3, <1>1, <1>2
<1>7. CASE cut # {}
  <2>1. PICK i : i = CHOOSE x \in cut : TRUE
    OBVIOUS
  <2>2. i \in cut
    BY <1>7, <2>1
  <2>3. /\ i \in 1 .. e - s /\ c[s + i].part = 1
        /\ i + Width[c[s + i].line] - 1 > e - s
    BY <2>2, <1>5
  <2>4. s + i \in 1 .. Len(c)
    BY <2>3, <1>1, <1>2
  <2>5. PICK w \in 1 .. 4 : w = Width[c[s + i].line]
    BY <2>4, ByteFacts
  <2>6. i # 1
    <3> SUFFICES ASSUME i = 1 PROVE FALSE
      OBVIOUS
    <3>1. PICK j \in 1 .. Len(c) : j = s + 1 /\ c[j].part = 1 /\ w = Width[c[j].line]
      BY <2>3, <2>4, <2>5
    <3>2. j - 1 + w <= Len(c)
      <4>1. j - c[j].part + Width[c[j].line] <= Len(c)
        BY DEF IsWhole
      <4> QED
        BY <3>1, <4>1
    <3>3. 1 + w - 1 > e - s
      BY <2>3, <2>5
    <3>4. /\ s \in Int /\ e \in Int /\ w \in Int /\ w <= 4 /\ Len(c) \in Int
          /\ e = Len(c) \/ e >= s + 4
      BY <1>1, <1>2
    <3> QED
      BY <3>1, <3>2, <3>3, <3>4, SMTT(30)
  <2>7. Decodable(raw) = SubSeq(raw, 1, i - 1)
    <3>1. raw # <<>> /\ raw[1].part = 1
      <4>1. 1 \in 1 .. e - s /\ Len(raw) # 0
        BY <1>1, <1>2, <1>3
      <4> QED
        BY <4>1, <1>1, <1>3
    <3> QED
      BY <1>7, <2>1, <3>1 DEF Decodable
  <2>8. PICK n \in 0 .. Len(c) : n = s + i - 1
    <3>1. s + i - 1 \in 0 .. Len(c)
      BY <2>3, <1>1, <1>2
    <3> QED
      BY <3>1
  <2>9. SubSeq(raw, 1, i - 1) = SubSeq(c, s + 1, n)
    <3> DEFINE x == SubSeq(raw, 1, i - 1)
               y == SubSeq(c, s + 1, n)
    <3>1. /\ x \in Seq(Byte) /\ Len(x) = i - 1
          /\ \A k \in 1 .. i - 1 : x[k] = raw[k]
      <4>1. e - s \in Int /\ Len(raw) = e - s
        BY <1>1, <1>2, <1>3
      <4>2. i \in 1 .. Len(raw)
        BY <4>1, <2>3
      <4>3. PICK m \in 0 .. Len(raw) : m = i - 1
        BY <4>2
      <4>4. /\ SubSeq(raw, 1, m) \in Seq(Byte) /\ Len(SubSeq(raw, 1, m)) = m
            /\ \A k \in 1 .. m : SubSeq(raw, 1, m)[k] = raw[k]
        <5>1. \A k \in 1 .. m : raw[k] \in Byte
          OBVIOUS
        <5> QED
          BY <5>1
      <4> QED
        BY <4>3, <4>4
    <3>2. /\ y \in Seq(Byte) /\ Len(y) = i - 1
          /\ \A k \in 1 .. i - 1 : y[k] = c[s + k]
      <4>1. /\ s \in Int /\ s >= 0 /\ n \in Int /\ n <= Len(c) /\ i \in Int /\ i >= 1
            /\ n = s + i - 1 /\ Len(c) \in Int
        BY <2>3, <2>8, <1>1, <1>2
      <4>2. /\ SubSeq(c, s + 1, n) \in Seq(Byte) /\ Len(SubSeq(c, s + 1, n)) = n - s
            /\ \A k \in 1 .. n - s : SubSeq(c, s + 1, n)[k] = c[s + k]
        <5>1. \A k \in s + 1 .. n : c[k] \in Byte
          BY <4>1
        <5> QED
          BY <4>1, <5>1
      <4>3. n - s = i - 1
        BY <4>1
      <4> QED
        BY <4>2, <4>3
    <3>3. \A k \in 1 .. i - 1 : raw[k] = c[s + k]
      BY <2>3, <1>1, <1>2, <1>3
    <3> HIDE DEF x, y
    <3>4. x = y
      BY <3>1, <3>2, <3>3, SeqEqual
    <3> QED
      BY <3>4 DEF x, y
  <2>10. Boundary(c, n) /\ s < n
    BY <2>3, <2>4, <2>6, <2>8, <1>1, <1>2 DEF Boundary
  <2> QED
    BY <2>7, <2>9, <2>10, <1>4
<1> QED
  BY <1>6, <1>7

-----------------------------------------------------------------------------
(* The text of a content. *)

\* What Text makes of the byte at i.
MarkAt(content, i) ==
    IF content[i].part = 1
        THEN IF Completes(content, i)
                 THEN <<[attempt |-> content[i].attempt, line |-> content[i].line]>>
                 ELSE <<Replaced>>
        ELSE IF \E k \in CharacterStarts(content) : k < i THEN <<>> ELSE <<Replaced>>

\* The same for whole content: the character at its first byte, nothing at the others.
Marks(c) ==
    [i \in 1 .. Len(c) |->
        IF c[i].part = 1 THEN <<[attempt |-> c[i].attempt, line |-> c[i].line]>> ELSE <<>>]

\* Text yields characters and replacements.
LEMMA TextType ==
    ASSUME NEW c \in Seq(Byte)
    PROVE  Text(c) \in Seq(Symbols)
<1> DEFINE marks == [i \in DOMAIN c |-> MarkAt(c, i)]
<1>1. Text(c) = FlattenSeq(marks)
  BY DEF Text, MarkAt
<1>2. \A i \in 1 .. Len(c) : MarkAt(c, i) \in Seq(Symbols)
  <2> SUFFICES ASSUME NEW i \in 1 .. Len(c) PROVE MarkAt(c, i) \in Seq(Symbols)
    OBVIOUS
  <2>1. [attempt |-> c[i].attempt, line |-> c[i].line] \in Symbols
    <3>1. c[i].line \in Lines /\ c[i].attempt \in 1 .. 1 + MaxFaults
      BY ByteFacts
    <3> QED
      BY <3>1 DEF Symbols, Character
  <2>2. Replaced \in Symbols
    BY DEF Symbols
  <2>3. \A x \in Symbols : <<x>> \in Seq(Symbols)
    OBVIOUS
  <2>4. <<>> \in Seq(Symbols)
    OBVIOUS
  <2> HIDE DEF Symbols
  <2> QED
    BY <2>1, <2>2, <2>3, <2>4 DEF MarkAt
<1>3. marks \in Seq(Seq(Symbols))
  <2>1. DOMAIN c = 1 .. Len(c) /\ Len(c) \in Nat
    OBVIOUS
  <2> HIDE DEF Symbols
  <2> QED
    BY <2>1, <1>2
<1> HIDE DEF marks
<1> QED
  BY <1>1, <1>3, FlattenType

\* The marks of whole content are sequences of characters.
LEMMA MarksType ==
    ASSUME NEW c \in Seq(Byte)
    PROVE  Marks(c) \in Seq(Seq(Symbols)) /\ Len(Marks(c)) = Len(c)
<1>1. ASSUME NEW i \in 1 .. Len(c)
      PROVE  (IF c[i].part = 1 THEN <<[attempt |-> c[i].attempt, line |-> c[i].line]>>
              ELSE <<>>) \in Seq(Symbols)
  <2>1. [attempt |-> c[i].attempt, line |-> c[i].line] \in Symbols
    <3>1. c[i].line \in Lines /\ c[i].attempt \in 1 .. 1 + MaxFaults
      BY ByteFacts
    <3> QED
      BY <3>1 DEF Symbols, Character
  <2> QED
    BY <2>1
<1>2. Len(c) \in Nat
  OBVIOUS
<1> HIDE DEF Symbols
<1> QED
  BY <1>1, <1>2 DEF Marks

\* Whole content shows a character for each of its characters and no replacement.
LEMMA TextOfWhole ==
    ASSUME NEW c \in Seq(Byte), IsWhole(c)
    PROVE  Text(c) = FlattenSeq(Marks(c))
<1> DEFINE marks == [i \in DOMAIN c |-> MarkAt(c, i)]
<1>1. Text(c) = FlattenSeq(marks)
  BY DEF Text, MarkAt
<1>2. ASSUME NEW i \in 1 .. Len(c)
      PROVE  MarkAt(c, i) = IF c[i].part = 1
                            THEN <<[attempt |-> c[i].attempt, line |-> c[i].line]>>
                            ELSE <<>>
  <2>1. PICK p \in 1 .. 4, w \in 1 .. 4 : p = c[i].part /\ w = Width[c[i].line]
    BY ByteFacts
  <2>2. p <= i /\ i - p + w <= Len(c) /\ i \in Int /\ Len(c) \in Int
    BY <2>1 DEF IsWhole
  <2>3. CASE p = 1
    <3>1. Completes(c, i)
      <4>1. i + w - 1 <= Len(c)
        BY <2>2, <2>3
      <4> QED
        BY <2>1, <4>1 DEF Completes
    <3> QED
      BY <2>1, <2>3, <3>1 DEF MarkAt
  <2>4. CASE p # 1
    <3>1. c[i - p + 1] = [attempt |-> c[i].attempt, line |-> c[i].line, part |-> 1]
      <4>1. 1 \in 1 .. w
        OBVIOUS
      <4> QED
        BY <2>1, <4>1 DEF IsWhole
    <3>2. i - p + 1 \in 1 .. Len(c) /\ i - p + 1 < i
      BY <2>2, <2>4
    <3>3. i - p + 1 \in CharacterStarts(c)
      BY <3>1, <3>2 DEF CharacterStarts
    <3> QED
      BY <2>1, <2>4, <3>2, <3>3 DEF MarkAt
  <2> QED
    BY <2>3, <2>4
<1>3. marks = Marks(c)
  <2>1. DOMAIN c = 1 .. Len(c)
    OBVIOUS
  <2> QED
    BY <2>1, <1>2 DEF Marks
<1> QED
  BY <1>1, <1>3

\* Nothing shows nothing.
LEMMA TextOfNothing == Text(<<>>) = <<>>
<1>1. [i \in DOMAIN <<>> |-> MarkAt(<<>>, i)] = <<>>
  OBVIOUS
<1>2. Text(<<>>) = FlattenSeq([i \in DOMAIN <<>> |-> MarkAt(<<>>, i)])
  BY DEF Text, MarkAt
<1> QED
  BY <1>1, <1>2 DEF FlattenSeq

\* Reading on appends to the text.
LEMMA TextConcat ==
    ASSUME NEW c \in Seq(Byte), NEW d \in Seq(Byte), IsWhole(c), IsWhole(d),
           NEW e \in Seq(Byte), IsWhole(e), e = c \o d
    PROVE  Text(e) = Text(c) \o Text(d)
<1>1. /\ Len(e) = Len(c) + Len(d) /\ Len(c) \in Nat /\ Len(d) \in Nat
      /\ \A i \in 1 .. Len(c) : e[i] = c[i]
      /\ \A i \in 1 .. Len(d) : e[Len(c) + i] = d[i]
  OBVIOUS
<1>2. PICK mc \in Seq(Seq(Symbols)), md \in Seq(Seq(Symbols)), me \in Seq(Seq(Symbols)) :
          /\ mc = Marks(c) /\ Len(mc) = Len(c)
          /\ md = Marks(d) /\ Len(md) = Len(d)
          /\ me = Marks(e) /\ Len(me) = Len(e)
  BY MarksType
<1>3. /\ \A i \in 1 .. Len(c) : me[i] = mc[i]
      /\ \A i \in 1 .. Len(d) : me[Len(c) + i] = md[i]
  <2>1. ASSUME NEW i \in 1 .. Len(c) PROVE me[i] = mc[i]
    <3>1. i \in 1 .. Len(e)
      BY <1>1
    <3> QED
      BY <3>1, <1>1, <1>2 DEF Marks
  <2>2. ASSUME NEW i \in 1 .. Len(d) PROVE me[Len(c) + i] = md[i]
    <3>1. Len(c) + i \in 1 .. Len(e)
      BY <1>1
    <3> QED
      BY <3>1, <1>1, <1>2 DEF Marks
  <2> QED
    BY <2>1, <2>2
<1>4. me = mc \o md
  <2> HIDE DEF Symbols
  <2>1. PICK x \in Seq(Seq(Symbols)) :
            /\ x = mc \o md /\ Len(x) = Len(mc) + Len(md)
            /\ \A i \in 1 .. Len(mc) : x[i] = mc[i]
            /\ \A i \in 1 .. Len(md) : x[Len(mc) + i] = md[i]
    <3>1. /\ mc \o md \in Seq(Seq(Symbols)) /\ Len(mc \o md) = Len(mc) + Len(md)
          /\ \A i \in 1 .. Len(mc) : (mc \o md)[i] = mc[i]
          /\ \A i \in 1 .. Len(md) : (mc \o md)[Len(mc) + i] = md[i]
      OBVIOUS
    <3> QED
      BY <3>1
  <2>2. ASSUME NEW i \in 1 .. Len(me) PROVE me[i] = x[i]
    <3>1. CASE i \in 1 .. Len(c)
      BY <3>1, <1>2, <1>3, <2>1
    <3>2. CASE i \notin 1 .. Len(c)
      <4>1. PICK k \in 1 .. Len(d) : i = Len(c) + k
        <5>1. i - Len(c) \in 1 .. Len(d) /\ i = Len(c) + (i - Len(c))
          BY <3>2, <1>1, <1>2
        <5> QED
          BY <5>1
      <4>2. me[i] = md[k]
        BY <4>1, <1>3
      <4>3. x[i] = md[k]
        BY <4>1, <1>2, <2>1
      <4> QED
        BY <4>2, <4>3
    <3> QED
      BY <3>1, <3>2
  <2>3. Len(me) = Len(x)
    BY <1>1, <1>2, <2>1
  <2>4. me = x
    BY <2>2, <2>3, SeqEqual
  <2> QED
    BY <2>1, <2>4
<1>5. FlattenSeq(me) = FlattenSeq(mc) \o FlattenSeq(md)
  BY <1>4, FlattenConcat
<1> QED
  BY <1>2, <1>5, TextOfWhole

\* Only nothing shows nothing.
LEMMA TextIsNothing ==
    ASSUME NEW c \in Seq(Byte), IsWhole(c), Text(c) = <<>>
    PROVE  c = <<>>
<1> SUFFICES ASSUME c # <<>> PROVE FALSE
  OBVIOUS
<1>1. Len(c) \in Nat /\ Len(c) > 0 /\ c[1].part = 1
  <2>1. Len(c) \in Nat /\ Len(c) > 0
    BY EmptySeq
  <2> QED
    BY <2>1, BoundaryEnds DEF Boundary
<1>2. PICK m \in Seq(Seq(Symbols)) : m = Marks(c) /\ Len(m) = Len(c)
  BY MarksType
<1>3. m[1] # <<>>
  <2>1. 1 \in 1 .. Len(c)
    BY <1>1
  <2>2. m[1] = <<[attempt |-> c[1].attempt, line |-> c[1].line]>>
    BY <1>1, <1>2, <2>1 DEF Marks
  <2> QED
    BY <2>2
<1>4. PICK x \in Seq(Symbols), y \in Seq(Seq(Symbols)) : x = m[1] /\ m = <<x>> \o y
  <2> DEFINE y == SubSeq(m, 2, Len(m))
  <2>1. m[1] \in Seq(Symbols)
    BY <1>1, <1>2, ElementOfSeq
  <2>2. SubSeq(m, 1, Len(m)) = <<m[1]>> \o SubSeq(m, 2, Len(m))
    <3>1. 1 \in 1 .. Len(m) /\ Len(m) \in 1 .. Len(m)
      BY <1>1, <1>2
    <3> QED
      BY <3>1, SubSeqRecursiveFirst
  <2>3. SubSeq(m, 1, Len(m)) = m
    BY SubSeqFull
  <2>4. y \in Seq(Seq(Symbols))
    <3>1. \A i \in 2 .. Len(m) : m[i] \in Seq(Symbols)
      BY ElementOfSeq
    <3>2. Len(m) \in Int
      OBVIOUS
    <3> QED
      BY <3>1, <3>2, SubSeqProperties
  <2> HIDE DEF y
  <2> QED
    BY <2>1, <2>2, <2>3, <2>4 DEF y
<1>5. FlattenSeq(<<x>>) = x
  <2>1. /\ <<>> \in Seq(Seq(Symbols)) /\ FlattenSeq(<<>>) = <<>>
        /\ Append(<<>>, x) = <<x>> /\ <<>> \o x = x
    BY DEF FlattenSeq
  <2> QED
    BY <2>1, FlattenAppend
<1>6. FlattenSeq(m) = x \o FlattenSeq(y)
  <2>1. <<x>> \in Seq(Seq(Symbols))
    OBVIOUS
  <2> QED
    BY <1>4, <1>5, <2>1, FlattenConcat
<1>7. x \o FlattenSeq(y) # <<>>
  <2>1. FlattenSeq(y) \in Seq(Symbols)
    BY FlattenType
  <2> QED
    BY <1>3, <1>4, <2>1, ConcatEqualIffEmpty
<1> QED
  BY <1>2, <1>6, <1>7, TextOfWhole

-----------------------------------------------------------------------------
(* Steps. *)

\* There are finitely many kinds of fault.
LEMMA FaultsFinite ==
    ASSUME TypeOK
    PROVE  IsFiniteSet(faults)
<1>1. IsFiniteSet(FaultKinds)
  <2> DEFINE f == <<"storeError", "redisError", "readError", "workerCrash", "redisLoss">>
  <2>1. f \in Surjection(1 .. 5, FaultKinds)
    BY DEF Surjection, FaultKinds
  <2>2. IsFiniteSet(1 .. 5)
    <3>1. 1 \in Int /\ 5 \in Int
      OBVIOUS
    <3> QED
      BY <3>1, FS_Interval, Zenon
  <2> HIDE DEF f
  <2> QED
    BY <2>1, <2>2, FS_Surjection
<1>2. faults \in SUBSET FaultKinds
  BY LogsAssumption DEF TypeOK
<1> QED
  BY <1>1, <1>2, FS_Subset

\* A fault is one that has not happened, and there is room for it.
LEMMA FaultFacts ==
    ASSUME TypeOK, Cardinality(faults) <= MaxFaults, NEW kind, Fault(kind)
    PROVE  /\ kind \notin faults /\ faults' = faults \cup {kind}
           /\ faults' \subseteq Faults /\ Cardinality(faults') <= MaxFaults
<1>1. IsFiniteSet(faults)
  BY FaultsFinite
<1>2. kind \notin faults /\ faults' = faults \cup {kind} /\ kind \in Faults
  BY DEF Fault
<1>3. Cardinality(faults \cup {kind}) = Cardinality(faults) + 1
  BY <1>1, <1>2, FS_AddElement
<1>4. Cardinality(faults) \in Nat /\ Cardinality(faults) < MaxFaults
  BY <1>1, FS_CardinalityType DEF Fault
<1> QED
  BY <1>2, <1>3, <1>4, LogsAssumption DEF TypeOK

\* A crash needs room for a fault, so attempts are numbered within bounds.
LEMMA AttemptBound ==
    ASSUME TypeOK, Attempts
    PROVE  /\ attempt \in 0 .. 2 /\ attempt \in 0 .. 1 + MaxFaults
           /\ phase # "idle" => attempt \in 1 .. 1 + MaxFaults
           /\ phase = "idle" => attempt + 1 \in 1 .. 1 + MaxFaults
<1>1. "workerCrash" \in faults => MaxFaults >= 1
  <2> SUFFICES ASSUME "workerCrash" \in faults PROVE MaxFaults >= 1
    OBVIOUS
  <2>1. IsFiniteSet({"workerCrash"}) /\ Cardinality({"workerCrash"}) = 1
    BY FS_Singleton
  <2>2. IsFiniteSet(faults)
    BY FaultsFinite
  <2>3. Cardinality({"workerCrash"}) <= Cardinality(faults)
    <3>1. {"workerCrash"} \in SUBSET faults
      OBVIOUS
    <3> QED
      BY <2>2, <3>1, FS_Subset
  <2>4. Cardinality(faults) \in Nat
    BY <2>2, FS_CardinalityType
  <2> QED
    BY <2>1, <2>3, <2>4, LogsAssumption DEF Attempts
<1>2. MaxFaults \in Nat
  BY LogsAssumption
<1> QED
  BY <1>1, <1>2 DEF Attempts

\* The parts of the invariant that do not look into the view.
Base ==
    /\ TypeOK /\ ViewType
    /\ WholeLogs /\ Attempts /\ Resumed /\ NothingEnded /\ Running

\* Steps of the worker, its crash and the loss of Redis keep them.
LEMMA WorkerKeepsBase ==
    ASSUME Base, Worker \/ CrashWorker \/ LoseRedis
    PROVE  Base'
<1>0. Base /\ TypeOK /\ Attempts
  BY DEF Base
<1>1. CASE Deliver
  <2>1. /\ faults' \subseteq Faults /\ Cardinality(faults') <= MaxFaults
        /\ ("workerCrash" \in faults' <=> "workerCrash" \in faults)
        /\ ("redisLoss" \in faults => "redisLoss" \in faults')
    <3> QED
      BY <1>0, <1>1 DEF Base, TypeOK, Attempts, Deliver, storeVars, redisVars, workerVars
  <2>9. /\ \A i \in DOMAIN log : log[i].attempt \in Int
        /\ \A e \in endings : \A i \in DOMAIN e : e[i].attempt \in Int
        /\ attempt \in Int
    BY <1>0, AttemptsAreNumbers
  <2>2. TypeOK'
    BY <1>0, <1>1, <2>1, AttemptBound, <2>9 DEF TypeOK, Phases, States, Statuses, Terminal, Raised, Deliver, storeVars, redisVars, workerVars
  <2>3. ViewType'
    BY <1>0, <1>1 DEF Base, ViewType, Deliver, storeVars, redisVars, workerVars
  <2>4. WholeLogs'
    BY <1>0, <1>1, <2>9 DEF Base, WholeLogs, Deliver, storeVars, redisVars, workerVars
  <2>5. Attempts'
    BY <1>0, <1>1, <2>1, <2>9 DEF Base, Attempts, Starting, Deliver, storeVars, redisVars, workerVars
  <2>6. Resumed'
    BY <1>0, <1>1, <2>1 DEF Base, Resumed, Starting, Deliver, storeVars, redisVars, workerVars
  <2>7. NothingEnded'
    BY <1>0, <1>1 DEF Base, NothingEnded, Starting, Terminal, Deliver, storeVars, redisVars, workerVars
  <2>8. Running'
    BY <1>0, <1>1, <2>1 DEF Base, Running, NoLoss, Terminal, Deliver, storeVars, redisVars, workerVars
  <2> QED
    BY <2>2, <2>3, <2>4, <2>5, <2>6, <2>7, <2>8 DEF Base
<1>2. CASE ReportStarted
  <2>1. /\ faults' \subseteq Faults /\ Cardinality(faults') <= MaxFaults
        /\ ("workerCrash" \in faults' <=> "workerCrash" \in faults)
        /\ ("redisLoss" \in faults => "redisLoss" \in faults')
    <3> QED
      BY <1>0, <1>2 DEF Base, TypeOK, Attempts, ReportStarted, storeVars, redisVars, workerVars
  <2>2. TypeOK'
    BY <1>0, <1>2, <2>1, AttemptBound DEF TypeOK, Phases, States, Statuses, Terminal, Raised, ReportStarted, storeVars, redisVars, workerVars
  <2>3. ViewType'
    BY <1>0, <1>2 DEF Base, ViewType, ReportStarted, storeVars, redisVars, workerVars
  <2>4. WholeLogs'
    BY <1>0, <1>2 DEF Base, WholeLogs, ReportStarted, storeVars, redisVars, workerVars
  <2>5. Attempts'
    BY <1>0, <1>2, <2>1 DEF Base, Attempts, Starting, ReportStarted, storeVars, redisVars, workerVars
  <2>6. Resumed'
    BY <1>0, <1>2, <2>1 DEF Base, Resumed, Starting, ReportStarted, storeVars, redisVars, workerVars
  <2>7. NothingEnded'
    BY <1>0, <1>2 DEF Base, NothingEnded, Starting, Terminal, ReportStarted, storeVars, redisVars, workerVars
  <2>8. Running'
    BY <1>0, <1>2, <2>1 DEF Base, Running, NoLoss, Terminal, ReportStarted, storeVars, redisVars, workerVars
  <2> QED
    BY <2>2, <2>3, <2>4, <2>5, <2>6, <2>7, <2>8 DEF Base
<1>3. CASE RecordStarted
  <2>1. /\ faults' \subseteq Faults /\ Cardinality(faults') <= MaxFaults
        /\ ("workerCrash" \in faults' <=> "workerCrash" \in faults)
        /\ ("redisLoss" \in faults => "redisLoss" \in faults')
    <3>1. Fault("storeError") => /\ "storeError" \notin faults /\ faults' = faults \cup {"storeError"}
                                    /\ faults' \subseteq Faults /\ Cardinality(faults') <= MaxFaults
      BY <1>0, FaultFacts DEF Base, Attempts
    <3> QED
      BY <3>1, <1>0, <1>3 DEF Base, TypeOK, Attempts, RecordStarted, storeVars, redisVars, workerVars
  <2>2. TypeOK'
    BY <1>0, <1>3, <2>1, AttemptBound DEF TypeOK, Phases, States, Statuses, Terminal, Raised, RecordStarted, storeVars, redisVars, workerVars
  <2>3. ViewType'
    BY <1>0, <1>3 DEF Base, ViewType, RecordStarted, storeVars, redisVars, workerVars
  <2>4. WholeLogs'
    BY <1>0, <1>3 DEF Base, WholeLogs, RecordStarted, storeVars, redisVars, workerVars
  <2>5. Attempts'
    BY <1>0, <1>3, <2>1 DEF Base, Attempts, Starting, RecordStarted, storeVars, redisVars, workerVars
  <2>6. Resumed'
    BY <1>0, <1>3, <2>1 DEF Base, Resumed, Starting, RecordStarted, storeVars, redisVars, workerVars
  <2>7. NothingEnded'
    BY <1>0, <1>3 DEF Base, NothingEnded, Starting, Terminal, RecordStarted, storeVars, redisVars, workerVars
  <2>8. Running'
    BY <1>0, <1>3, <2>1 DEF Base, Running, NoLoss, Terminal, RecordStarted, storeVars, redisVars, workerVars
  <2> QED
    BY <2>2, <2>3, <2>4, <2>5, <2>6, <2>7, <2>8 DEF Base
<1>4. CASE ClearLog
  <2>1. /\ faults' \subseteq Faults /\ Cardinality(faults') <= MaxFaults
        /\ ("workerCrash" \in faults' <=> "workerCrash" \in faults)
        /\ ("redisLoss" \in faults => "redisLoss" \in faults')
    <3>1. Fault("redisError") => /\ "redisError" \notin faults /\ faults' = faults \cup {"redisError"}
                                    /\ faults' \subseteq Faults /\ Cardinality(faults') <= MaxFaults
      BY <1>0, FaultFacts DEF Base, Attempts
    <3> QED
      BY <3>1, <1>0, <1>4 DEF Base, TypeOK, Attempts, ClearLog, End, storeVars, redisVars, workerVars
  <2>10. <<>> \in Seq(Byte) /\ IsWhole(<<>>) /\ DOMAIN <<>> = {}
    BY DEF IsWhole
  <2>15. /\ log' \in Seq(Byte) /\ phase' \in Phases /\ outcome' \in Terminal \cup {Raised}
         /\ \A e \in endings' : e \in Seq(Byte)
    BY <1>0, <1>4, <2>10 DEF TypeOK, Phases, Terminal, ClearLog, End
  <2>2. TypeOK'
    BY <1>0, <1>4, <2>1, AttemptBound, <2>10, <2>15 DEF TypeOK, Phases, States, Statuses, Terminal, Raised, ClearLog, End, storeVars, redisVars, workerVars
  <2>3. ViewType'
    BY <1>0, <1>4 DEF Base, ViewType, ClearLog, End, storeVars, redisVars, workerVars
  <2>4. WholeLogs'
    BY <1>0, <1>4, <2>10, <2>15 DEF Base, WholeLogs, ClearLog, End, storeVars, redisVars, workerVars
  <2>5. Attempts'
    BY <1>0, <1>4, <2>1, <2>10, <2>15 DEF Base, Attempts, Starting, ClearLog, End, storeVars, redisVars, workerVars
  <2>6. Resumed'
    BY <1>0, <1>4, <2>1 DEF Base, Resumed, Starting, ClearLog, End, storeVars, redisVars, workerVars
  <2>7. NothingEnded'
    BY <1>0, <1>4 DEF Base, NothingEnded, Starting, Terminal, ClearLog, End, storeVars, redisVars, workerVars
  <2>8. Running'
    BY <1>0, <1>4, <2>1 DEF Base, Running, NoLoss, Terminal, ClearLog, End, storeVars, redisVars, workerVars
  <2> QED
    BY <2>2, <2>3, <2>4, <2>5, <2>6, <2>7, <2>8 DEF Base
<1>5. CASE AppendLine
  <2>1. /\ faults' \subseteq Faults /\ Cardinality(faults') <= MaxFaults
        /\ ("workerCrash" \in faults' <=> "workerCrash" \in faults)
        /\ ("redisLoss" \in faults => "redisLoss" \in faults')
    <3>1. Fault("redisError") => /\ "redisError" \notin faults /\ faults' = faults \cup {"redisError"}
                                    /\ faults' \subseteq Faults /\ Cardinality(faults') <= MaxFaults
      BY <1>0, FaultFacts DEF Base, Attempts
    <3> QED
      BY <3>1, <1>0, <1>5 DEF Base, TypeOK, Attempts, AppendLine, End, storeVars, redisVars, workerVars
  <2>11. PICK d : d = LineAdded(log, attempt, printed + 1)
    OBVIOUS
  <2>12. /\ d \in Seq(Byte) /\ IsWhole(d)
         /\ \A i \in DOMAIN d : d[i].attempt = attempt \/ (i \in DOMAIN log /\ d[i] = log[i])
    <3>1. log \in Seq(Byte) /\ IsWhole(log)
      BY <1>0 DEF Base, TypeOK, WholeLogs
    <3>2. attempt \in 1 .. 1 + MaxFaults
      BY <1>0, <1>5, AttemptBound DEF AppendLine
    <3>3. printed + 1 \in Lines
      BY <1>0, <1>5, LogsAssumption DEF TypeOK, AppendLine, Lines
    <3>4. /\ d \in Seq(Byte) /\ IsWhole(d)
          /\ \A i \in 1 .. Len(d) : d[i].attempt = attempt \/ (i \in 1 .. Len(log) /\ d[i] = log[i])
      BY <2>11, <3>1, <3>2, <3>3, WholeAppend
    <3> QED
      BY <3>1, <3>4
  <2>13. log' \in {log, d}
    BY <1>5, <2>11 DEF AppendLine, LineAdded
  <2>9. /\ \A i \in DOMAIN log : log[i].attempt \in Int
        /\ \A e \in endings : \A i \in DOMAIN e : e[i].attempt \in Int
        /\ attempt \in Int
    BY <1>0, AttemptsAreNumbers
  <2>2. TypeOK'
    BY <1>0, <1>5, <2>1, AttemptBound, <2>12, <2>13, <2>9 DEF TypeOK, Phases, States, Statuses, Terminal, Raised, AppendLine, End, storeVars, redisVars, workerVars
  <2>3. ViewType'
    BY <1>0, <1>5 DEF Base, ViewType, AppendLine, End, storeVars, redisVars, workerVars
  <2>4. WholeLogs'
    BY <1>0, <1>5, <2>12, <2>13, <2>9 DEF Base, WholeLogs, AppendLine, End, storeVars, redisVars, workerVars
  <2>5. Attempts'
    BY <1>0, <1>5, <2>1, <2>12, <2>13, <2>9 DEF Base, Attempts, Starting, AppendLine, End, storeVars, redisVars, workerVars
  <2>6. Resumed'
    BY <1>0, <1>5, <2>1 DEF Base, Resumed, Starting, AppendLine, End, storeVars, redisVars, workerVars
  <2>7. NothingEnded'
    BY <1>0, <1>5 DEF Base, NothingEnded, Starting, Terminal, AppendLine, End, storeVars, redisVars, workerVars
  <2>8. Running'
    BY <1>0, <1>5, <2>1 DEF Base, Running, NoLoss, Terminal, AppendLine, End, storeVars, redisVars, workerVars
  <2> QED
    BY <2>2, <2>3, <2>4, <2>5, <2>6, <2>7, <2>8 DEF Base
<1>6. CASE EndRun
  <2>1. /\ faults' \subseteq Faults /\ Cardinality(faults') <= MaxFaults
        /\ ("workerCrash" \in faults' <=> "workerCrash" \in faults)
        /\ ("redisLoss" \in faults => "redisLoss" \in faults')
    <3> QED
      BY <1>0, <1>6 DEF Base, TypeOK, Attempts, EndRun, End, storeVars, redisVars, workerVars
  <2>2. TypeOK'
    BY <1>0, <1>6, <2>1, AttemptBound DEF TypeOK, Phases, States, Statuses, Terminal, Raised, EndRun, End, storeVars, redisVars, workerVars
  <2>3. ViewType'
    BY <1>0, <1>6 DEF Base, ViewType, EndRun, End, storeVars, redisVars, workerVars
  <2>4. WholeLogs'
    BY <1>0, <1>6 DEF Base, WholeLogs, EndRun, End, storeVars, redisVars, workerVars
  <2>5. Attempts'
    BY <1>0, <1>6, <2>1 DEF Base, Attempts, Starting, EndRun, End, storeVars, redisVars, workerVars
  <2>6. Resumed'
    BY <1>0, <1>6, <2>1 DEF Base, Resumed, Starting, EndRun, End, storeVars, redisVars, workerVars
  <2>7. NothingEnded'
    BY <1>0, <1>6 DEF Base, NothingEnded, Starting, Terminal, EndRun, End, storeVars, redisVars, workerVars
  <2>8. Running'
    BY <1>0, <1>6, <2>1 DEF Base, Running, NoLoss, Terminal, EndRun, End, storeVars, redisVars, workerVars
  <2> QED
    BY <2>2, <2>3, <2>4, <2>5, <2>6, <2>7, <2>8 DEF Base
<1>7. CASE ArchiveLog
  <2>1. /\ faults' \subseteq Faults /\ Cardinality(faults') <= MaxFaults
        /\ ("workerCrash" \in faults' <=> "workerCrash" \in faults)
        /\ ("redisLoss" \in faults => "redisLoss" \in faults')
    <3>1. Fault("storeError") => /\ "storeError" \notin faults /\ faults' = faults \cup {"storeError"}
                                    /\ faults' \subseteq Faults /\ Cardinality(faults') <= MaxFaults
      BY <1>0, FaultFacts DEF Base, Attempts
    <3>2. Fault("redisError") => /\ "redisError" \notin faults /\ faults' = faults \cup {"redisError"}
                                    /\ faults' \subseteq Faults /\ Cardinality(faults') <= MaxFaults
      BY <1>0, FaultFacts DEF Base, Attempts
    <3> QED
      BY <3>1, <3>2, <1>0, <1>7 DEF Base, TypeOK, Attempts, ArchiveLog, FinishRaises, storeVars, redisVars, workerVars
  <2>2. TypeOK'
    BY <1>0, <1>7, <2>1, AttemptBound DEF TypeOK, Phases, States, Statuses, Terminal, Raised, ArchiveLog, FinishRaises, storeVars, redisVars, workerVars
  <2>3. ViewType'
    BY <1>0, <1>7 DEF Base, ViewType, ArchiveLog, FinishRaises, storeVars, redisVars, workerVars
  <2>4. WholeLogs'
    BY <1>0, <1>7 DEF Base, WholeLogs, ArchiveLog, FinishRaises, storeVars, redisVars, workerVars
  <2>5. Attempts'
    BY <1>0, <1>7, <2>1 DEF Base, Attempts, Starting, ArchiveLog, FinishRaises, storeVars, redisVars, workerVars
  <2>6. Resumed'
    BY <1>0, <1>7, <2>1 DEF Base, Resumed, Starting, ArchiveLog, FinishRaises, storeVars, redisVars, workerVars
  <2>7. NothingEnded'
    BY <1>0, <1>7 DEF Base, NothingEnded, Starting, Terminal, ArchiveLog, FinishRaises, storeVars, redisVars, workerVars
  <2>8. Running'
    BY <1>0, <1>7, <2>1 DEF Base, Running, NoLoss, Terminal, ArchiveLog, FinishRaises, storeVars, redisVars, workerVars
  <2> QED
    BY <2>2, <2>3, <2>4, <2>5, <2>6, <2>7, <2>8 DEF Base
<1>8. CASE RecordEnd
  <2>1. /\ faults' \subseteq Faults /\ Cardinality(faults') <= MaxFaults
        /\ ("workerCrash" \in faults' <=> "workerCrash" \in faults)
        /\ ("redisLoss" \in faults => "redisLoss" \in faults')
    <3>1. Fault("storeError") => /\ "storeError" \notin faults /\ faults' = faults \cup {"storeError"}
                                    /\ faults' \subseteq Faults /\ Cardinality(faults') <= MaxFaults
      BY <1>0, FaultFacts DEF Base, Attempts
    <3> QED
      BY <3>1, <1>0, <1>8 DEF Base, TypeOK, Attempts, RecordEnd, FinishRaises, storeVars, redisVars, workerVars
  <2>14. outcome \in Terminal
    BY <1>0, <1>8 DEF Base, Running, RecordEnd
  <2>2. TypeOK'
    BY <1>0, <1>8, <2>1, AttemptBound, <2>14 DEF TypeOK, Phases, States, Statuses, Terminal, Raised, RecordEnd, FinishRaises, storeVars, redisVars, workerVars
  <2>3. ViewType'
    BY <1>0, <1>8 DEF Base, ViewType, RecordEnd, FinishRaises, storeVars, redisVars, workerVars
  <2>4. WholeLogs'
    BY <1>0, <1>8, <2>14 DEF Base, WholeLogs, RecordEnd, FinishRaises, storeVars, redisVars, workerVars
  <2>5. Attempts'
    BY <1>0, <1>8, <2>1, <2>14 DEF Base, Attempts, Starting, RecordEnd, FinishRaises, storeVars, redisVars, workerVars
  <2>6. Resumed'
    BY <1>0, <1>8, <2>1 DEF Base, Resumed, Starting, RecordEnd, FinishRaises, storeVars, redisVars, workerVars
  <2>7. NothingEnded'
    BY <1>0, <1>8 DEF Base, NothingEnded, Starting, Terminal, RecordEnd, FinishRaises, storeVars, redisVars, workerVars
  <2>8. Running'
    BY <1>0, <1>8, <2>1 DEF Base, Running, NoLoss, Terminal, RecordEnd, FinishRaises, storeVars, redisVars, workerVars
  <2> QED
    BY <2>2, <2>3, <2>4, <2>5, <2>6, <2>7, <2>8 DEF Base
<1>9. CASE ReportResult
  <2>1. /\ faults' \subseteq Faults /\ Cardinality(faults') <= MaxFaults
        /\ ("workerCrash" \in faults' <=> "workerCrash" \in faults)
        /\ ("redisLoss" \in faults => "redisLoss" \in faults')
    <3> QED
      BY <1>0, <1>9 DEF Base, TypeOK, Attempts, ReportResult, storeVars, redisVars, workerVars
  <2>2. TypeOK'
    BY <1>0, <1>9, <2>1, AttemptBound DEF TypeOK, Phases, States, Statuses, Terminal, Raised, ReportResult, storeVars, redisVars, workerVars
  <2>3. ViewType'
    BY <1>0, <1>9 DEF Base, ViewType, ReportResult, storeVars, redisVars, workerVars
  <2>4. WholeLogs'
    BY <1>0, <1>9 DEF Base, WholeLogs, ReportResult, storeVars, redisVars, workerVars
  <2>5. Attempts'
    BY <1>0, <1>9, <2>1 DEF Base, Attempts, Starting, ReportResult, storeVars, redisVars, workerVars
  <2>6. Resumed'
    BY <1>0, <1>9, <2>1 DEF Base, Resumed, Starting, ReportResult, storeVars, redisVars, workerVars
  <2>7. NothingEnded'
    BY <1>0, <1>9 DEF Base, NothingEnded, Starting, Terminal, ReportResult, storeVars, redisVars, workerVars
  <2>8. Running'
    BY <1>0, <1>9, <2>1 DEF Base, Running, NoLoss, Terminal, ReportResult, storeVars, redisVars, workerVars
  <2> QED
    BY <2>2, <2>3, <2>4, <2>5, <2>6, <2>7, <2>8 DEF Base
<1>10. CASE Acknowledge
  <2>1. /\ faults' \subseteq Faults /\ Cardinality(faults') <= MaxFaults
        /\ ("workerCrash" \in faults' <=> "workerCrash" \in faults)
        /\ ("redisLoss" \in faults => "redisLoss" \in faults')
    <3> QED
      BY <1>0, <1>10 DEF Base, TypeOK, Attempts, Acknowledge, storeVars, redisVars, workerVars
  <2>2. TypeOK'
    BY <1>0, <1>10, <2>1, AttemptBound DEF TypeOK, Phases, States, Statuses, Terminal, Raised, Acknowledge, storeVars, redisVars, workerVars
  <2>3. ViewType'
    BY <1>0, <1>10 DEF Base, ViewType, Acknowledge, storeVars, redisVars, workerVars
  <2>4. WholeLogs'
    BY <1>0, <1>10 DEF Base, WholeLogs, Acknowledge, storeVars, redisVars, workerVars
  <2>5. Attempts'
    BY <1>0, <1>10, <2>1 DEF Base, Attempts, Starting, Acknowledge, storeVars, redisVars, workerVars
  <2>6. Resumed'
    BY <1>0, <1>10, <2>1 DEF Base, Resumed, Starting, Acknowledge, storeVars, redisVars, workerVars
  <2>7. NothingEnded'
    BY <1>0, <1>10 DEF Base, NothingEnded, Starting, Terminal, Acknowledge, storeVars, redisVars, workerVars
  <2>8. Running'
    BY <1>0, <1>10, <2>1 DEF Base, Running, NoLoss, Terminal, Acknowledge, storeVars, redisVars, workerVars
  <2> QED
    BY <2>2, <2>3, <2>4, <2>5, <2>6, <2>7, <2>8 DEF Base
<1>11. CASE CrashWorker
  <2>1. /\ faults' \subseteq Faults /\ Cardinality(faults') <= MaxFaults
        /\ "workerCrash" \in faults' /\ "workerCrash" \notin faults
        /\ ("redisLoss" \in faults => "redisLoss" \in faults')
    <3>1. Fault("workerCrash") => /\ "workerCrash" \notin faults /\ faults' = faults \cup {"workerCrash"}
                                     /\ faults' \subseteq Faults /\ Cardinality(faults') <= MaxFaults
      BY <1>0, FaultFacts DEF Base, Attempts
    <3> QED
      BY <3>1, <1>0, <1>11 DEF Base, TypeOK, Attempts, CrashWorker, storeVars, redisVars, workerVars
  <2>2. TypeOK'
    BY <1>0, <1>11, <2>1, AttemptBound DEF TypeOK, Phases, States, Statuses, Terminal, Raised, CrashWorker, storeVars, redisVars, workerVars
  <2>3. ViewType'
    BY <1>0, <1>11 DEF Base, ViewType, CrashWorker, storeVars, redisVars, workerVars
  <2>4. WholeLogs'
    BY <1>0, <1>11 DEF Base, WholeLogs, CrashWorker, storeVars, redisVars, workerVars
  <2>5. Attempts'
    BY <1>0, <1>11, <2>1 DEF Base, Attempts, Starting, CrashWorker, storeVars, redisVars, workerVars
  <2>6. Resumed'
    BY <1>0, <1>11, <2>1 DEF Base, Resumed, Starting, CrashWorker, storeVars, redisVars, workerVars
  <2>7. NothingEnded'
    BY <1>0, <1>11 DEF Base, NothingEnded, Starting, Terminal, CrashWorker, storeVars, redisVars, workerVars
  <2>8. Running'
    BY <1>0, <1>11, <2>1 DEF Base, Running, NoLoss, Terminal, CrashWorker, storeVars, redisVars, workerVars
  <2> QED
    BY <2>2, <2>3, <2>4, <2>5, <2>6, <2>7, <2>8 DEF Base
<1>12. CASE LoseRedis
  <2>1. /\ faults' \subseteq Faults /\ Cardinality(faults') <= MaxFaults
        /\ ("workerCrash" \in faults' <=> "workerCrash" \in faults)
        /\ "redisLoss" \in faults'
    <3>1. Fault("redisLoss") => /\ "redisLoss" \notin faults /\ faults' = faults \cup {"redisLoss"}
                                   /\ faults' \subseteq Faults /\ Cardinality(faults') <= MaxFaults
      BY <1>0, FaultFacts DEF Base, Attempts
    <3> QED
      BY <3>1, <1>0, <1>12 DEF Base, TypeOK, Attempts, LoseRedis, storeVars, redisVars, workerVars
  <2>10. <<>> \in Seq(Byte) /\ IsWhole(<<>>) /\ DOMAIN <<>> = {}
    BY DEF IsWhole
  <2>2. TypeOK'
    BY <1>0, <1>12, <2>1, AttemptBound, <2>10, ZenonT(40) DEF TypeOK, Phases, States, Statuses, Terminal, Raised, LoseRedis, storeVars, redisVars, workerVars
  <2>3. ViewType'
    BY <1>0, <1>12 DEF Base, ViewType, LoseRedis, storeVars, redisVars, workerVars
  <2>4. WholeLogs'
    BY <1>0, <1>12, <2>10 DEF Base, WholeLogs, LoseRedis, storeVars, redisVars, workerVars
  <2>5. Attempts'
    BY <1>0, <1>12, <2>1, <2>10 DEF Base, Attempts, Starting, LoseRedis, storeVars, redisVars, workerVars
  <2>6. Resumed'
    BY <1>0, <1>12, <2>1 DEF Base, Resumed, Starting, LoseRedis, storeVars, redisVars, workerVars
  <2>7. NothingEnded'
    BY <1>0, <1>12 DEF Base, NothingEnded, Starting, Terminal, LoseRedis, storeVars, redisVars, workerVars
  <2>8. Running'
    BY <1>0, <1>12, <2>1 DEF Base, Running, NoLoss, Terminal, LoseRedis, storeVars, redisVars, workerVars
  <2> QED
    BY <2>2, <2>3, <2>4, <2>5, <2>6, <2>7, <2>8 DEF Base
<1> QED
  BY <1>1, <1>2, <1>3, <1>4, <1>5, <1>6, <1>7, <1>8, <1>9, <1>10, <1>11, <1>12 DEF Worker

-----------------------------------------------------------------------------
(* The view. *)

\* A chunk is made of bytes.
LEMMA ChunkType ==
    ASSUME NEW c \in Seq(Byte), NEW s \in Nat
    PROVE  Chunk(c, s) \in Seq(Byte) /\ Len(Chunk(c, s)) \in Nat
<1>1. PICK e \in Nat : e = LeastOf(s + MaxBytes, Len(c)) /\ e <= Len(c)
  <2>1. s + MaxBytes \in Nat /\ Len(c) \in Nat
    BY LogsAssumption
  <2> QED
    BY <2>1 DEF LeastOf
<1>2. PICK raw \in Seq(Byte) : raw = SubSeq(c, s + 1, e)
  <2>1. \A i \in s + 1 .. e : c[i] \in Byte
    BY <1>1
  <2>2. SubSeq(c, s + 1, e) \in Seq(Byte)
    BY <1>1, <2>1
  <2> QED
    BY <2>2
<1>3. Decodable(raw) \in Seq(Byte)
  <2> DEFINE cut == {i \in CharacterStarts(raw) : ~Completes(raw, i)}
  <2>1. CASE raw # <<>> /\ raw[1].part = 1 /\ cut # {}
    <3>1. PICK i \in 1 .. Len(raw) : i = CHOOSE x \in cut : TRUE
      <4>1. (CHOOSE x \in cut : TRUE) \in cut
        BY <2>1
      <4>2. cut \subseteq 1 .. Len(raw)
        BY DEF CharacterStarts
      <4> HIDE DEF cut
      <4> QED
        BY <4>1, <4>2
    <3>2. Decodable(raw) = SubSeq(raw, 1, i - 1)
      BY <2>1, <3>1 DEF Decodable
    <3>3. SubSeq(raw, 1, i - 1) \in Seq(Byte)
      OBVIOUS
    <3> QED
      BY <3>2, <3>3
  <2>2. CASE ~ (raw # <<>> /\ raw[1].part = 1 /\ cut # {})
    BY <2>2 DEF Decodable
  <2> QED
    BY <2>1, <2>2
<1> QED
  BY <1>1, <1>2, <1>3 DEF Chunk

\* The states of a job that a view can be told.
LEMMA JobStatusFacts ==
    ASSUME NEW state \in States
    PROVE  /\ JobStatus(state) \in Statuses
           /\ state \in {"PENDING", "STARTED"} => JobStatus(state) \notin Terminal
BY DEF States, JobStatus, Statuses, Terminal

ViewPhases == {"closed", "stale", "stopped", "settled"} \cup Opening \cup Polling

\* A fresh view, by field.
IsFresh(v, p, st) ==
    /\ v \in Views
    /\ v.phase = p /\ v.status = st /\ v.offset = 0 /\ v.shown = <<>>
    /\ v.text = <<>> /\ v.answer = "queued" /\ v.start = 0

\* What a view is when it has just been opened.
LEMMA FreshView ==
    ASSUME NEW p \in ViewPhases, NEW st \in Statuses,
           NEW v, v = [NoView EXCEPT !.phase = p, !.status = st]
    PROVE  IsFresh(v, p, st)
<1>1. <<>> \in Seq(Symbols) /\ 0 \in Nat /\ "queued" \in Statuses
  BY DEF Statuses
<1> HIDE DEF Symbols
<1> QED
  BY <1>1 DEF NoView, Views, ViewPhases, IsFresh

\* What becomes of a view that is answered.
LEMMA AnsweredFacts ==
    ASSUME ViewType, NEW text \in Seq(Symbols), NEW next \in Nat, NEW status \in Statuses,
           NEW v, v = Answered(text, next, status)
    PROVE  /\ v \in Views
           /\ v.status \in {"queued", view.status} /\ v.answer = "queued" /\ v.text = <<>>
           /\ status # view.status => v.phase = "openRecord"
           /\ status = view.status =>
                /\ v.phase = AfterAnswer(status, text)
                /\ v.status = view.status /\ v.shown = view.shown \o text /\ v.offset = next
           /\ v.phase \in {"openRecord", "pollRecord", "settled"}
<1>1. <<>> \in Seq(Symbols) /\ 0 \in Nat /\ "queued" \in Statuses
  BY DEF Statuses
<1>2. CASE status # view.status
  <2>1. v = [NoView EXCEPT !.phase = "openRecord"]
    BY <1>2 DEF Answered
  <2>2. /\ v.phase = "openRecord" /\ v.status = "queued" /\ v.offset = 0 /\ v.shown = <<>>
        /\ v.text = <<>> /\ v.answer = "queued" /\ v.start = 0
    BY <2>1 DEF NoView
  <2>3. v \in Views
    BY <2>1, <1>1 DEF NoView, Views, Opening
  <2> QED
    BY <1>2, <2>2, <2>3
<1>3. CASE status = view.status
  <2>1. v = [view EXCEPT !.shown = view.shown \o text, !.offset = next,
                         !.start = 0, !.text = <<>>, !.answer = "queued",
                         !.phase = AfterAnswer(status, text)]
    BY <1>3 DEF Answered
  <2>2. view \in Views
    BY DEF ViewType
  <2>3. AfterAnswer(status, text) \in {"pollRecord", "settled"}
    BY DEF AfterAnswer
  <2>4. PICK shown \in Seq(Symbols) : shown = view.shown \o text
    <3>1. PICK s \in Seq(Symbols) : s = view.shown
      <4> HIDE DEF Symbols
      <4> QED
        BY <2>2 DEF Views
    <3>2. s \o text \in Seq(Symbols)
      <4> HIDE DEF Symbols
      <4> QED
        OBVIOUS
    <3> QED
      BY <3>1, <3>2
  <2>5. v = [view EXCEPT !.shown = shown, !.offset = next, !.start = 0, !.text = <<>>,
                         !.answer = "queued", !.phase = AfterAnswer(status, text)]
    BY <2>1, <2>4
  <2>6. /\ v \in Views
        /\ v.phase = AfterAnswer(status, text) /\ v.answer = "queued" /\ v.text = <<>>
        /\ v.status = view.status /\ v.shown = shown /\ v.offset = next
    <3> HIDE DEF Symbols
    <3> QED
      BY <2>5, <2>2, <2>3, <1>1 DEF Views, Polling
  <2> QED
    BY <1>3, <2>3, <2>4, <2>6
<1> QED
  BY <1>2, <1>3

\* A view that is opened or reloaded.
LEMMA Reopened ==
    ASSUME NEW v, v = [NoView EXCEPT !.phase = "openRecord"]
    PROVE  /\ v \in Views /\ v.phase = "openRecord"
           /\ v.status = "queued" /\ v.answer = "queued" /\ v.text = <<>>
<1>1. <<>> \in Seq(Symbols) /\ 0 \in Nat /\ "queued" \in Statuses
  BY DEF Statuses
<1> HIDE DEF Symbols
<1> QED
  BY <1>1 DEF NoView, Views, Opening

\* Reading on from one boundary to the next.
LEMMA ReadOn ==
    ASSUME NEW e \in Seq(Byte), IsWhole(e), NEW m, NEW n,
           Boundary(e, m), Boundary(e, n), m <= n
    PROVE  /\ Text(SubSeq(e, 1, n)) = Text(SubSeq(e, 1, m)) \o Text(SubSeq(e, m + 1, n))
           /\ Text(SubSeq(e, m + 1, n)) = <<>> => m = n
           /\ SubSeq(e, m + 1, n) \in Seq(Byte) /\ Len(SubSeq(e, m + 1, n)) = n - m
<1>1. m \in 0 .. Len(e) /\ n \in 0 .. Len(e) /\ Len(e) \in Nat
  BY DEF Boundary
<1>2. Boundary(e, 0) /\ 0 <= m /\ 0 <= n /\ 0 + 1 = 1
  BY <1>1, BoundaryEnds
<1>3. PICK a \in Seq(Byte) : a = SubSeq(e, 1, m) /\ IsWhole(a)
  <2>1. \A d : d = SubSeq(e, 0 + 1, m) => d \in Seq(Byte) /\ IsWhole(d)
    BY <1>2, WholeBetween
  <2> QED
    BY <2>1, <1>2
<1>4. PICK b \in Seq(Byte) : b = SubSeq(e, m + 1, n) /\ IsWhole(b) /\ Len(b) = n - m
  <2>1. \A d : d = SubSeq(e, m + 1, n) => d \in Seq(Byte) /\ IsWhole(d) /\ Len(d) = n - m
    BY WholeBetween
  <2> QED
    BY <2>1
<1>5. PICK c \in Seq(Byte) : c = SubSeq(e, 1, n) /\ IsWhole(c)
  <2>1. \A d : d = SubSeq(e, 0 + 1, n) => d \in Seq(Byte) /\ IsWhole(d)
    <3> SUFFICES ASSUME NEW d, d = SubSeq(e, 0 + 1, n) PROVE d \in Seq(Byte) /\ IsWhole(d)
      OBVIOUS
    <3> QED
      BY <1>2, WholeBetween
  <2> QED
    BY <2>1, <1>2
<1>6. c = a \o b
  <2>1. /\ Len(a) = m /\ \A i \in 1 .. m : a[i] = e[i]
        /\ Len(b) = n - m /\ \A i \in 1 .. n - m : b[i] = e[m + i]
        /\ Len(c) = n /\ \A i \in 1 .. n : c[i] = e[i]
    BY <1>1, <1>3, <1>4, <1>5
  <2>2. PICK x \in Seq(Byte) :
            /\ x = a \o b /\ Len(x) = Len(a) + Len(b)
            /\ \A i \in 1 .. Len(a) : x[i] = a[i]
            /\ \A i \in 1 .. Len(b) : x[Len(a) + i] = b[i]
    <3>1. /\ a \o b \in Seq(Byte) /\ Len(a \o b) = Len(a) + Len(b)
          /\ \A i \in 1 .. Len(a) : (a \o b)[i] = a[i]
          /\ \A i \in 1 .. Len(b) : (a \o b)[Len(a) + i] = b[i]
      OBVIOUS
    <3> QED
      BY <3>1
  <2>3. ASSUME NEW i \in 1 .. Len(c) PROVE c[i] = x[i]
    <3>0. /\ i \in 1 .. n /\ m \in Int /\ n \in Int
          /\ Len(a) = m /\ Len(b) = n - m /\ c[i] = e[i]
      BY <1>1, <2>1
    <3>1. CASE i <= m
      <4>1. i \in 1 .. m /\ i \in 1 .. Len(a)
        BY <3>0, <3>1
      <4>2. x[i] = a[i] /\ a[i] = e[i]
        BY <4>1, <2>1, <2>2
      <4> QED
        BY <4>2, <3>0
    <3>2. CASE i > m
      <4>1. PICK k \in 1 .. n - m : i = m + k
        <5>1. i - m \in 1 .. n - m /\ i = m + (i - m)
          BY <3>0, <3>2
        <5> QED
          BY <5>1
      <4>2. k \in 1 .. Len(b) /\ i = Len(a) + k
        BY <4>1, <3>0
      <4>3. x[i] = b[k]
        BY <4>2, <2>2
      <4>4. b[k] = e[i]
        BY <4>1, <2>1
      <4> QED
        BY <4>3, <4>4, <3>0
    <3> QED
      BY <3>0, <3>1, <3>2
  <2>4. Len(c) = Len(x)
    BY <1>1, <2>1, <2>2
  <2>5. c = x
    BY <2>3, <2>4, SeqEqual
  <2> QED
    BY <2>2, <2>5
<1>7. Text(c) = Text(a) \o Text(b)
  BY <1>3, <1>4, <1>5, <1>6, TextConcat, ZenonT(40)
<1>8. Text(b) = <<>> => m = n
  <2> SUFFICES ASSUME Text(b) = <<>> PROVE m = n
    OBVIOUS
  <2>1. b = <<>>
    BY <1>4, TextIsNothing
  <2>2. Len(b) = 0
    BY <2>1
  <2> QED
    BY <1>1, <1>4, <2>2
<1> QED
  BY <1>3, <1>4, <1>5, <1>7, <1>8

\* What a step of the view leaves alone.
OthersUnchanged ==
    UNCHANGED <<clears, record, archive, log, bound, backend, phase, attempt, printed,
                outcome, endings>>

\* A step of the view keeps the parts of the invariant that do not look into it.
LEMMA ViewKeepsBase ==
    ASSUME Base, OthersUnchanged, view' \in Views,
           endings = {} => view'.status \notin Terminal /\ view'.answer \notin Terminal,
           faults' = faults \/ Fault("readError")
    PROVE  Base' /\ (NoLoss' <=> NoLoss)
<1>1. TypeOK /\ Attempts
  BY DEF Base
<1>2. /\ faults' \subseteq Faults /\ Cardinality(faults') <= MaxFaults
      /\ "workerCrash" \in faults' <=> "workerCrash" \in faults
      /\ "redisLoss" \in faults' <=> "redisLoss" \in faults
  <2>1. Fault("readError") => /\ "readError" \notin faults /\ faults' = faults \cup {"readError"}
                              /\ faults' \subseteq Faults /\ Cardinality(faults') <= MaxFaults
    BY <1>1, FaultFacts DEF Attempts
  <2> QED
    BY <2>1, <1>1 DEF TypeOK, Attempts
<1>3. TypeOK'
  <2>1. /\ view'.phase \in {"closed", "stale", "stopped", "settled"} \cup Opening \cup Polling
        /\ {view'.status, view'.answer} \subseteq Statuses
        /\ view'.shown \in Seq(Character \cup {Replaced})
        /\ view'.text \in Seq(Character \cup {Replaced})
        /\ {view'.offset, view'.start} \subseteq Nat
    BY DEF Views, Symbols
  <2> QED
    BY <2>1, <1>1, <1>2 DEF TypeOK, OthersUnchanged
<1>4. ViewType'
  BY DEF ViewType
<1>5. WholeLogs'
  BY DEF Base, WholeLogs, OthersUnchanged
<1>6. Attempts'
  BY <1>2 DEF Base, Attempts, OthersUnchanged
<1>7. Resumed'
  BY <1>2 DEF Base, Resumed, OthersUnchanged
<1>8. NothingEnded'
  BY DEF Base, NothingEnded, OthersUnchanged
<1>9. Running'
  BY <1>2 DEF Base, Running, NoLoss, OthersUnchanged
<1> QED
  BY <1>2, <1>3, <1>4, <1>5, <1>6, <1>7, <1>8, <1>9 DEF Base, NoLoss

-----------------------------------------------------------------------------
(* Steps of the worker: where the log of the attempts that ended is. *)

\* What is appended bears the number of the attempt: the log is none that was left.
LEMMA AppendDiffers ==
    ASSUME Base, phase = "append", printed < Len(Width), NEW e \in endings,
           NEW d, d = LineAdded(log, attempt, printed + 1)
    PROVE  d # e
<1>1. log \in Seq(Byte) /\ IsWhole(log) /\ e \in Seq(Byte)
  BY DEF Base, TypeOK, WholeLogs
<1>2. attempt \in 1 .. 1 + MaxFaults /\ printed + 1 \in Lines /\ attempt \in Int
  <2>1. attempt \in 1 .. 1 + MaxFaults /\ attempt \in Int
    BY AttemptBound DEF Base
  <2> QED
    BY <2>1, LogsAssumption DEF Base, TypeOK, Lines
<1>3. d \in Seq(Byte) /\ Len(d) > Len(log) /\ d[Len(d)].attempt = attempt
  BY <1>1, <1>2, WholeAppend
<1>4. Len(d) \in 1 .. Len(d)
  BY <1>1, <1>3
<1>5. SUFFICES ASSUME d = e PROVE FALSE
  OBVIOUS
<1>6. d[Len(d)].attempt < attempt
  BY <1>1, <1>4, <1>5 DEF Base, Attempts, Starting
<1> QED
  BY <1>2, <1>3, <1>6

\* A request that fetched the log of an attempt that ended is not misled by a step.
LEMMA WorkerKeepsEnding ==
    ASSUME Base, Stored, NoLoss', Worker \/ CrashWorker \/ LoseRedis,
           NEW e, endings' = {e}, endings # {}
    PROVE  /\ endings = {e}
           /\ log' = e => log = e
           /\ archive = e => archive' = e
<1>1. CASE Deliver
  BY <1>1 DEF NoLoss, Stored, storeVars, redisVars, workerVars, Deliver
<1>2. CASE ReportStarted
  BY <1>2 DEF NoLoss, Stored, storeVars, redisVars, workerVars, ReportStarted
<1>3. CASE RecordStarted
  BY <1>3 DEF NoLoss, Stored, storeVars, redisVars, workerVars, RecordStarted
<1>4. CASE ClearLog
  <2>1. endings = {e} /\ NoLoss /\ phase # "append"
    BY <1>4 DEF NoLoss, Fault, ClearLog, End
  <2>2. log = e
    BY <2>1 DEF Stored
  <2> QED
    BY <1>4, <2>1, <2>2 DEF storeVars, ClearLog, End
<1>5. CASE AppendLine
  <2>1. PICK d : d = LineAdded(log, attempt, printed + 1)
    OBVIOUS
  <2>2. endings = {e} /\ log' \in {log, d} /\ archive' = archive
    BY <1>5, <2>1 DEF AppendLine, LineAdded, End, storeVars
  <2>3. d # e
    BY <1>5, <2>1, <2>2, AppendDiffers DEF AppendLine
  <2> QED
    BY <2>2, <2>3
<1>6. CASE EndRun
  BY <1>6 DEF NoLoss, Stored, storeVars, redisVars, workerVars, EndRun, End
<1>7. CASE ArchiveLog
  <2>1. endings = {e} /\ NoLoss /\ phase # "append"
    BY <1>7 DEF NoLoss, Fault, ArchiveLog, FinishRaises
  <2>2. log = e
    BY <2>1 DEF Stored
  <2> QED
    BY <1>7, <2>1, <2>2 DEF storeVars, ArchiveLog, FinishRaises
<1>8. CASE RecordEnd
  BY <1>8 DEF NoLoss, Stored, storeVars, redisVars, workerVars, RecordEnd, FinishRaises
<1>9. CASE ReportResult
  BY <1>9 DEF NoLoss, Stored, storeVars, redisVars, workerVars, ReportResult
<1>10. CASE Acknowledge
  BY <1>10 DEF NoLoss, Stored, storeVars, redisVars, workerVars, Acknowledge
<1>11. CASE CrashWorker
  BY <1>11 DEF NoLoss, Stored, storeVars, redisVars, workerVars, CrashWorker
<1>12. CASE LoseRedis
  BY <1>12 DEF Base, Running, Fault, NoLoss, Stored, storeVars, redisVars, workerVars, LoseRedis
<1> QED
  BY <1>1, <1>2, <1>3, <1>4, <1>5, <1>6, <1>7, <1>8, <1>9, <1>10, <1>11, <1>12 DEF Worker

\* Steps of the worker keep what is stored of the attempts that ended.
LEMMA WorkerKeepsStored ==
    ASSUME Base, Stored, NoLoss', Worker \/ CrashWorker \/ LoseRedis
    PROVE  Stored'
<1>1. NoLoss /\ bound /\ bound'
  <2>1. NoLoss /\ ~LoseRedis
    BY DEF NoLoss, Worker, CrashWorker, LoseRedis, Fault, Deliver, ReportStarted, RecordStarted,
           ClearLog, AppendLine, EndRun, ArchiveLog, RecordEnd, ReportResult, Acknowledge, End
  <2>2. bound' = bound
    BY <2>1 DEF Worker, CrashWorker, Deliver, ReportStarted, RecordStarted, redisVars,
           ClearLog, AppendLine, EndRun, ArchiveLog, RecordEnd, ReportResult, Acknowledge
  <2> QED
    BY <2>1, <2>2 DEF Stored
<1>2. ASSUME NEW e, endings' = {e}
      PROVE  /\ log' = e \/ phase' = "append"
             /\ archive' \in {<<>>, e}
             /\ record' \in Terminal \/ phase' = "recordEnd" => archive' = e
  <2>1. CASE endings = {}
    <3>1. archive = <<>> /\ record \notin Terminal /\ phase \in Starting \cup {"idle"}
      BY <2>1 DEF Base, NothingEnded
    <3>2. log' \in endings' /\ archive' = archive /\ record' \in {record, "started"}
          /\ phase' \in {"archive", "result"}
      BY <1>2, <2>1, <3>1
         DEF Worker, CrashWorker, LoseRedis, Deliver, ReportStarted, RecordStarted, ClearLog,
             AppendLine, EndRun, ArchiveLog, RecordEnd, ReportResult, Acknowledge, End,
             Starting, storeVars, redisVars, workerVars
    <3> QED
      BY <1>2, <3>1, <3>2 DEF Terminal
  <2>2. CASE endings # {}
    <3>1. endings = {e} /\ (archive = e => archive' = e)
      BY <1>2, <2>2, WorkerKeepsEnding
    <3>2. /\ log = e \/ phase = "append"
          /\ archive \in {<<>>, e}
          /\ record \in Terminal \/ phase = "recordEnd" => archive = e
      BY <1>1, <3>1 DEF Stored
    <3>3. CASE Deliver
      BY <3>3, <3>1, <3>2, <1>2 DEF Terminal, storeVars, redisVars, workerVars, Deliver
    <3>4. CASE ReportStarted
      BY <3>4, <3>1, <3>2, <1>2 DEF Terminal, storeVars, redisVars, workerVars, ReportStarted
    <3>5. CASE RecordStarted
      BY <3>5, <3>1, <3>2, <1>2 DEF Terminal, storeVars, redisVars, workerVars, RecordStarted
    <3>6. CASE ClearLog
      BY <3>6, <3>1, <3>2, <1>2 DEF Terminal, storeVars, redisVars, workerVars, ClearLog, End
    <3>7. CASE AppendLine
      BY <3>7, <3>1, <3>2, <1>2 DEF Terminal, storeVars, redisVars, workerVars, AppendLine, End
    <3>8. CASE EndRun
      BY <3>8, <3>1, <3>2, <1>2 DEF Terminal, storeVars, redisVars, workerVars, EndRun, End
    <3>9. CASE ArchiveLog
      BY <3>9, <3>1, <3>2, <1>2 DEF Terminal, storeVars, redisVars, workerVars, ArchiveLog, FinishRaises
    <3>10. CASE RecordEnd
      BY <3>10, <3>1, <3>2, <1>2 DEF Terminal, storeVars, redisVars, workerVars, RecordEnd, FinishRaises
    <3>11. CASE ReportResult
      BY <3>11, <3>1, <3>2, <1>2 DEF Terminal, storeVars, redisVars, workerVars, ReportResult
    <3>12. CASE Acknowledge
      BY <3>12, <3>1, <3>2, <1>2 DEF Terminal, storeVars, redisVars, workerVars, Acknowledge
    <3>13. CASE CrashWorker
      <4>1. phase # "append"
        BY <3>13, <3>1 DEF Base, Resumed, Starting, CrashWorker, Fault
      <4> QED
        BY <3>13, <3>1, <3>2, <4>1 DEF Terminal, storeVars, redisVars, workerVars, CrashWorker
    <3>14. CASE LoseRedis
      BY <3>14 DEF NoLoss, Fault, LoseRedis
    <3> QED
      BY <3>3, <3>4, <3>5, <3>6, <3>7, <3>8, <3>9, <3>10, <3>11, <3>12, <3>13, <3>14 DEF Worker
  <2> QED
    BY <2>1, <2>2
<1>3. \A e \in endings' : endings' = {e} =>
          /\ log' = e \/ phase' = "append"
          /\ archive' \in {<<>>, e}
          /\ record' \in Terminal \/ phase' = "recordEnd" => archive' = e
  BY <1>2
<1> QED
  BY <1>1, <1>3 DEF Stored

\* Steps of the worker keep what a view of a job that ended shows and has fetched.
LEMMA WorkerKeepsView ==
    ASSUME Base, Stored, Viewed, Requests, Worker \/ CrashWorker \/ LoseRedis
    PROVE  Viewed' /\ Requests'
<1>1. view' = view /\ (NoLoss' => NoLoss)
  BY DEF NoLoss, Worker, CrashWorker, LoseRedis, Fault, Deliver, ReportStarted, RecordStarted,
         ClearLog, AppendLine, EndRun, ArchiveLog, RecordEnd, ReportResult, Acknowledge, End,
         storeVars, redisVars, workerVars
<1>2. Requests'
  BY <1>1 DEF Requests
<1>3. Viewed'
  <2> SUFFICES ASSUME NoLoss', view.status \in Terminal,
                      view.phase \in Polling \cup {"settled"}, NEW e, endings' = {e}
               PROVE  /\ Boundary(e, view.offset)
                      /\ view.shown = Text(SubSeq(e, 1, view.offset))
                      /\ view.phase = "settled" => view.offset = Len(e)
                      /\ Fetched(e)'
    BY <1>1 DEF Viewed
  <2>1. endings # {}
    BY DEF Base, NothingEnded
  <2>2. endings = {e} /\ (log' = e => log = e) /\ (archive = e => archive' = e)
    BY <2>1, WorkerKeepsEnding
  <2>3. /\ Boundary(e, view.offset)
        /\ view.shown = Text(SubSeq(e, 1, view.offset))
        /\ view.phase = "settled" => view.offset = Len(e)
        /\ Fetched(e)
    BY <1>1, <2>2 DEF Viewed
  <2>4. Fetched(e)'
    BY <1>1, <2>2, <2>3 DEF Fetched
  <2> QED
    BY <2>3, <2>4
<1> QED
  BY <1>2, <1>3

-----------------------------------------------------------------------------
(* Steps of the view. *)

\* What a view shows when it is loaded or reloaded, and what any step keeps.
ViewInv == Viewed /\ Requests

\* A view that neither polls nor has settled promises nothing.
LEMMA IdleView ==
    ASSUME view'.phase \in {"closed", "stale", "stopped"} \cup Opening
    PROVE  ViewInv'
BY DEF ViewInv, Viewed, Requests, Polling, Opening

\* A loaded view begins at the beginning.
LEMMA LoadedView ==
    ASSUME Base', view'.phase = "pollRecord", view'.offset = 0,
           view'.shown = <<>>, view'.text = <<>>
    PROVE  ViewInv'
<1>1. Requests'
  BY DEF Requests
<1>2. ASSUME NEW e \in endings'
      PROVE  Boundary(e, 0) /\ Text(SubSeq(e, 1, 0)) = <<>>
  <2>1. e \in Seq(Byte) /\ IsWhole(e)
    BY DEF Base, TypeOK, WholeLogs
  <2>2. SubSeq(e, 1, 0) = <<>>
    BY <2>1
  <2> QED
    BY <2>1, <2>2, BoundaryEnds, TextOfNothing
<1>3. ASSUME NEW e \in endings' PROVE Fetched(e)'
  BY DEF Fetched
<1> QED
  BY <1>1, <1>2, <1>3 DEF Viewed, ViewInv

\* Opening and reloading.
LEMMA OpeningKeeps ==
    ASSUME Base, Stored, OpenJob \/ OpenRecord \/ OpenState
    PROVE  Base' /\ Stored' /\ ViewInv'
<1>1. OthersUnchanged /\ faults' = faults
  BY DEF OpenJob, OpenRecord, OpenState, View, OthersUnchanged, storeVars, redisVars, workerVars
<1>2. record \in Statuses /\ backend \in States /\ view.answer \in Statuses /\ view \in Views
  BY DEF Base, TypeOK, ViewType
<1>3. CASE view' = [NoView EXCEPT !.phase = "openRecord"]
  <2>1. /\ view' \in Views /\ view'.phase = "openRecord"
        /\ view'.status = "queued" /\ view'.answer = "queued"
    BY <1>3, Reopened
  <2> QED
    BY <1>1, <2>1, ViewKeepsBase, IdleView DEF Opening, Terminal, Stored, OthersUnchanged, NoLoss
<1>4. ASSUME NEW st \in Statuses, NEW known \in BOOLEAN, view' = Loaded(st, known),
             endings = {} => st \notin Terminal
      PROVE  Base' /\ Stored' /\ ViewInv'
  <2>1. PICK p \in {"pollRecord", "stale"} : view' = [NoView EXCEPT !.phase = p, !.status = st]
    BY <1>4 DEF Loaded
  <2>2. /\ view' \in Views /\ view'.phase = p /\ view'.status = st
        /\ view'.offset = 0 /\ view'.shown = <<>> /\ view'.text = <<>> /\ view'.answer = "queued"
    <3>1. p \in ViewPhases
      BY DEF ViewPhases, Polling
    <3>2. PICK v : v = [NoView EXCEPT !.phase = p, !.status = st]
      OBVIOUS
    <3>3. /\ v \in Views /\ v.phase = p /\ v.status = st
          /\ v.offset = 0 /\ v.shown = <<>> /\ v.text = <<>> /\ v.answer = "queued"
      <4>1. st \in Statuses
        BY <1>4
      <4>2. IsFresh(v, p, st)
        BY <3>1, <3>2, <4>1, FreshView
      <4> QED
        BY <4>2 DEF IsFresh
    <3> QED
      BY <2>1, <3>2, <3>3
  <2>3. Base' /\ (NoLoss' <=> NoLoss)
    BY <1>1, <1>4, <2>2, ViewKeepsBase DEF Terminal
  <2>4. Stored'
    BY <1>1, <2>3 DEF Stored, OthersUnchanged
  <2>5. ViewInv'
    BY <2>2, <2>3, IdleView, LoadedView
  <2> QED
    BY <2>3, <2>4, <2>5
<1>5. CASE OpenJob
  BY <1>3, <1>5 DEF OpenJob, View
<1>6. CASE OpenRecord
  <2>1. CASE record \in Terminal \/ ~bound
    <3>1. endings = {} => record \notin Terminal
      BY DEF Base, NothingEnded
    <3> QED
      BY <1>2, <1>4, <1>6, <2>1, <3>1 DEF OpenRecord, View
  <2>2. CASE record \notin Terminal /\ bound
    <3>1. view' = [view EXCEPT !.phase = "openState", !.answer = record]
      BY <1>6, <2>2 DEF OpenRecord, View
    <3>2. /\ view' \in Views /\ view'.phase = "openState" /\ view'.status = view.status
          /\ view'.answer = record
      <4> HIDE DEF Symbols
      <4> QED
        BY <3>1, <1>2 DEF Views, Opening
    <3>3. Base' /\ (NoLoss' <=> NoLoss)
      BY <1>1, <2>2, <3>2, ViewKeepsBase DEF Base, NothingEnded
    <3> QED
      BY <1>1, <3>2, <3>3, IdleView DEF Opening, Stored, OthersUnchanged
  <2> QED
    BY <2>1, <2>2
<1>7. CASE OpenState
  <2>1. CASE backend = "PENDING"
    <3>1. endings = {} => view.answer \notin Terminal
      BY DEF Base, NothingEnded
    <3> QED
      BY <1>2, <1>4, <1>7, <2>1, <3>1 DEF OpenState, View
  <2>2. CASE backend # "PENDING"
    <3>1. PICK st \in Statuses : st = JobStatus(backend)
      BY <1>2, JobStatusFacts
    <3>2. endings = {} => st \notin Terminal
      BY <1>2, <3>1, JobStatusFacts DEF Base, NothingEnded
    <3> QED
      BY <1>4, <1>7, <2>2, <3>1, <3>2 DEF OpenState, View
  <2> QED
    BY <2>1, <2>2
<1> QED
  BY <1>5, <1>6, <1>7

\* The first request of a poll.
LEMMA PollRecordKeeps ==
    ASSUME Base, Stored, ViewInv, PollRecord
    PROVE  Base' /\ Stored' /\ ViewInv'
<1>1. OthersUnchanged /\ faults' = faults /\ view.phase = "pollRecord"
  BY DEF PollRecord, View, OthersUnchanged, storeVars, redisVars, workerVars
<1>2. record \in Statuses /\ view \in Views
  BY DEF Base, TypeOK, ViewType
<1>3. PICK p \in {"pollArchive", "pollLength"} :
          /\ p = IF record \in Terminal \/ ~bound THEN "pollArchive" ELSE "pollLength"
          /\ view' = [view EXCEPT !.phase = p, !.answer = record]
  BY DEF PollRecord, View
<1>4. /\ view' \in Views /\ view'.phase = p /\ view'.answer = record
      /\ view'.status = view.status /\ view'.offset = view.offset
      /\ view'.shown = view.shown /\ view'.text = view.text
  <2> HIDE DEF Symbols
  <2> QED
    BY <1>2, <1>3 DEF Views, Polling
<1>5. Base' /\ (NoLoss' <=> NoLoss)
  BY <1>1, <1>4, ViewKeepsBase DEF Base, NothingEnded
<1>6. Stored'
  BY <1>1, <1>5 DEF Stored, OthersUnchanged
<1>7. p = "pollArchive" /\ NoLoss => record \in Terminal
  BY <1>3 DEF Stored
<1>8. Requests'
  BY <1>1, <1>4, <1>5, <1>7 DEF ViewInv, Requests, Polling, OthersUnchanged
<1>9. Viewed'
  <2> SUFFICES ASSUME NoLoss, view.status \in Terminal, NEW e, endings = {e}
               PROVE  /\ Boundary(e, view.offset)
                      /\ view.shown = Text(SubSeq(e, 1, view.offset))
                      /\ Fetched(e)'
    BY <1>1, <1>4, <1>5 DEF Viewed, OthersUnchanged
  <2>1. Boundary(e, view.offset) /\ view.shown = Text(SubSeq(e, 1, view.offset))
    BY <1>1 DEF ViewInv, Viewed, Polling
  <2>2. Fetched(e)'
    BY <1>1, <1>4, <1>7 DEF Fetched, Stored, OthersUnchanged
  <2> QED
    BY <2>1, <2>2
<1> QED
  BY <1>5, <1>6, <1>8, <1>9 DEF ViewInv

\* An answer that brings the next part of the log of the attempts that ended, or nothing at
\* its end, extends what the view shows and settles it only at the end.
LEMMA AnsweredKeeps ==
    ASSUME Base, Stored, ViewInv, OthersUnchanged, faults' = faults, view.phase \in Polling,
           NEW text \in Seq(Symbols), NEW next \in Nat, NEW status \in Statuses,
           view' = Answered(text, next, status),
           endings = {} => status \notin Terminal,
           NoLoss /\ status \in Terminal /\ status = view.status =>
               \A e \in endings : endings = {e} =>
                   /\ Boundary(e, next) /\ view.offset <= next
                   /\ text = Text(SubSeq(e, view.offset + 1, next))
                   /\ next = view.offset => view.offset = Len(e)
    PROVE  Base' /\ Stored' /\ ViewInv'
<1>1. /\ view' \in Views
      /\ view'.status \in {"queued", view.status} /\ view'.answer = "queued" /\ view'.text = <<>>
      /\ status # view.status => view'.phase = "openRecord"
      /\ status = view.status =>
           /\ view'.phase = AfterAnswer(status, text)
           /\ view'.status = view.status /\ view'.shown = view.shown \o text
           /\ view'.offset = next
      /\ view'.phase \in {"openRecord", "pollRecord", "settled"}
  <2> HIDE DEF Symbols
  <2>1. ViewType
    BY DEF Base
  <2> QED
    BY <2>1, AnsweredFacts
<1>2. Base' /\ (NoLoss' <=> NoLoss)
  <2>1. endings = {} => view'.status \notin Terminal /\ view'.answer \notin Terminal
    BY <1>1 DEF Base, NothingEnded, Terminal
  <2> QED
    BY <1>1, <2>1, ViewKeepsBase
<1>3. Stored'
  BY <1>2 DEF Stored, OthersUnchanged
<1>4. CASE status # view.status
  BY <1>1, <1>2, <1>3, <1>4, IdleView DEF Opening
<1>5. CASE status = view.status
  <2>1. Requests'
    BY <1>1, <1>5 DEF Requests, AfterAnswer, Polling
  <2>2. Viewed'
    <3> SUFFICES ASSUME NoLoss, status \in Terminal, NEW e \in endings, endings = {e}
                 PROVE  /\ Boundary(e, next)
                        /\ view.shown \o text = Text(SubSeq(e, 1, next))
                        /\ view'.phase = "settled" => next = Len(e)
                        /\ Fetched(e)'
      BY <1>1, <1>2, <1>5 DEF Viewed, OthersUnchanged
    <3>1. /\ Boundary(e, next) /\ view.offset <= next
          /\ text = Text(SubSeq(e, view.offset + 1, next))
          /\ next = view.offset => view.offset = Len(e)
      BY <1>5
    <3>2. Boundary(e, view.offset) /\ view.shown = Text(SubSeq(e, 1, view.offset))
      BY <1>5 DEF ViewInv, Viewed
    <3>3. PICK m \in Nat : m = view.offset
      BY DEF Base, ViewType, Views
    <3>4. e \in Seq(Byte) /\ IsWhole(e)
      BY DEF Base, TypeOK, WholeLogs
    <3>5. /\ Text(SubSeq(e, 1, next)) = Text(SubSeq(e, 1, m)) \o Text(SubSeq(e, m + 1, next))
          /\ Text(SubSeq(e, m + 1, next)) = <<>> => m = next
      <4>1. Boundary(e, m) /\ m <= next
        BY <3>1, <3>2, <3>3
      <4> QED
        BY <3>1, <3>4, <4>1, ReadOn
    <3>6. view.shown \o text = Text(SubSeq(e, 1, next))
      BY <3>1, <3>2, <3>3, <3>5
    <3>7. view'.phase = "settled" => next = Len(e)
      <4>1. view'.phase = "settled" => text = <<>>
        BY <1>1, <1>5 DEF AfterAnswer
      <4> QED
        BY <4>1, <3>1, <3>3, <3>5
    <3>8. Fetched(e)'
      BY <1>1 DEF Fetched
    <3> QED
      BY <3>1, <3>6, <3>7, <3>8
  <2> QED
    BY <1>2, <1>3, <2>1, <2>2 DEF ViewInv
<1> QED
  BY <1>4, <1>5

\* The second request of a poll from S3.
LEMMA PollArchiveKeeps ==
    ASSUME Base, Stored, ViewInv, PollArchive
    PROVE  Base' /\ Stored' /\ ViewInv'
<1>1. OthersUnchanged /\ faults' = faults /\ view.phase = "pollArchive" /\ view.phase \in Polling
  BY DEF PollArchive, View, OthersUnchanged, storeVars, redisVars, workerVars, Polling
<1>2. /\ archive \in Seq(Byte) /\ IsWhole(archive) /\ Len(archive) \in Nat
      /\ view.offset \in Nat /\ view.answer \in Statuses
  BY DEF Base, TypeOK, WholeLogs
<1>3. PICK content \in Seq(Byte) :
          /\ content = IF view.offset < Len(archive) THEN Chunk(archive, view.offset) ELSE <<>>
          /\ Len(content) \in Nat
  <2>1. PICK m \in Nat : m = view.offset
    BY <1>2
  <2>2. Chunk(archive, m) \in Seq(Byte) /\ Len(Chunk(archive, m)) \in Nat
    BY <1>2, ChunkType
  <2>3. <<>> \in Seq(Byte) /\ Len(<<>>) \in Nat
    OBVIOUS
  <2> QED
    BY <2>1, <2>2, <2>3
<1>4. view' = Answered(Text(content), view.offset + Len(content), view.answer)
  BY <1>3 DEF PollArchive, View
<1>5. Text(content) \in Seq(Symbols) /\ view.offset + Len(content) \in Nat
  <2>1. Text(content) \in Seq(Symbols)
    BY TextType
  <2>2. view.offset + Len(content) \in Nat
    BY <1>2, <1>3
  <2> QED
    BY <2>1, <2>2
<1>6. endings = {} => view.answer \notin Terminal
  BY DEF Base, NothingEnded
<1>7. ASSUME NoLoss, view.answer \in Terminal, view.answer = view.status,
             NEW e \in endings, endings = {e}
      PROVE  /\ Boundary(e, view.offset + Len(content))
             /\ view.offset <= view.offset + Len(content)
             /\ Text(content) = Text(SubSeq(e, view.offset + 1, view.offset + Len(content)))
             /\ view.offset + Len(content) = view.offset => view.offset = Len(e)
  <2>1. PICK m \in Nat : m = view.offset
    BY <1>2
  <2>2. archive = e /\ Boundary(e, m)
    BY <1>1, <1>7, <2>1 DEF ViewInv, Viewed, Fetched
  <2>3. CASE m < Len(e)
    <3>1. PICK n \in 0 .. Len(e) : Boundary(e, n) /\ m < n /\ Chunk(e, m) = SubSeq(e, m + 1, n)
      BY <1>2, <2>2, <2>3, ChunkAdvances
    <3>2. content = SubSeq(e, m + 1, n)
      BY <1>3, <2>1, <2>2, <2>3, <3>1
    <3>3. Len(content) = n - m
      <4>1. m <= n
        BY <1>2, <3>1
      <4>2. Len(SubSeq(e, m + 1, n)) = n - m
        BY <4>1, <1>2, <2>2, <3>1, ReadOn
      <4> QED
        BY <4>2, <3>2
    <3>4. m + Len(content) = n
      BY <3>3
    <3>5. /\ view.offset + Len(content) = n /\ view.offset <= n /\ view.offset # n
          /\ SubSeq(e, view.offset + 1, n) = content
      <4>1. m \in Int /\ n \in Int /\ m <= n /\ m # n
        BY <3>1
      <4>2. view.offset + Len(content) = n
        BY <2>1, <3>4
      <4> QED
        BY <2>1, <3>2, <4>1, <4>2
    <3> QED
      BY <3>1, <3>5
  <2>4. CASE ~ (m < Len(e))
    <3>1. m = Len(e)
      BY <1>2, <2>2, <2>4 DEF Boundary
    <3>2. content = <<>> /\ Len(content) = 0
      BY <1>3, <2>1, <2>2, <2>4
    <3>3. SubSeq(e, m + 1, m + 0) = <<>>
      BY <1>2, <2>2
    <3>4. m + 0 = m
      OBVIOUS
    <3>5. /\ view.offset + Len(content) = m /\ view.offset = m
          /\ SubSeq(e, view.offset + 1, m) = content
      BY <2>1, <3>2, <3>3, <3>4
    <3>6. m <= m
      OBVIOUS
    <3> QED
      BY <2>2, <3>1, <3>5, <3>6
  <2> QED
    BY <2>3, <2>4
<1>8. PICK text \in Seq(Symbols), next \in Nat, status \in Statuses :
          text = Text(content) /\ next = view.offset + Len(content) /\ status = view.answer
  <2> HIDE DEF Symbols
  <2> QED
    BY <1>2, <1>5
<1> HIDE DEF Symbols
<1> QED
  BY <1>1, <1>4, <1>6, <1>7, <1>8, AnsweredKeeps

\* The answer to a poll of the log in Redis.
LEMMA PollStateKeeps ==
    ASSUME Base, Stored, ViewInv, PollState
    PROVE  Base' /\ Stored' /\ ViewInv'
<1>1. OthersUnchanged /\ faults' = faults /\ view.phase = "pollState" /\ view.phase \in Polling
  BY DEF PollState, View, OthersUnchanged, storeVars, redisVars, workerVars, Polling
<1>2. PICK text \in Seq(Symbols), next \in Nat, status \in Statuses :
          text = view.text /\ next = view.start /\ status = JobStatus(backend)
  <2>1. view.text \in Seq(Symbols) /\ view.start \in Nat
    BY DEF Base, ViewType, Views
  <2>2. JobStatus(backend) \in Statuses
    BY JobStatusFacts DEF Base, TypeOK
  <2> HIDE DEF Symbols
  <2> QED
    BY <2>1, <2>2
<1>3. view' = Answered(text, next, status)
  BY <1>2 DEF PollState, View
<1>4. endings = {} => status \notin Terminal
  BY <1>2, JobStatusFacts DEF Base, TypeOK, NothingEnded
<1>5. ASSUME NoLoss, status \in Terminal, status = view.status, NEW e \in endings, endings = {e}
      PROVE  /\ Boundary(e, next) /\ view.offset <= next
             /\ text = Text(SubSeq(e, view.offset + 1, next))
             /\ next = view.offset => view.offset = Len(e)
  <2>1. phase # "append"
    BY <1>2, <1>5, JobStatusFacts DEF Base, TypeOK, Running
  <2>2. log = e
    BY <1>5, <2>1 DEF Stored
  <2>3. Fetched(e)
    BY <1>1, <1>5 DEF ViewInv, Viewed
  <2> QED
    BY <1>1, <1>2, <2>2, <2>3 DEF Fetched
<1> HIDE DEF Symbols
<1> QED
  BY <1>1, <1>3, <1>4, <1>5, AnsweredKeeps

\* The length of the log: the request starts where the view ends, or at the end.
LEMMA PollLengthKeeps ==
    ASSUME Base, Stored, ViewInv, PollLength
    PROVE  Base' /\ Stored' /\ ViewInv'
<1>1. OthersUnchanged /\ faults' = faults /\ view.phase = "pollLength"
  BY DEF PollLength, View, OthersUnchanged, storeVars, redisVars, workerVars
<1>2. /\ view \in Views /\ log \in Seq(Byte) /\ Len(log) \in Nat /\ view.offset \in Nat
  BY DEF Base, TypeOK, ViewType
<1>3. PICK start \in Nat, p \in {"pollState", "pollRange"} :
          /\ start = LeastOf(view.offset, Len(log))
          /\ p = IF start = Len(log) THEN "pollState" ELSE "pollRange"
          /\ view' = [view EXCEPT !.phase = p, !.start = start]
  BY <1>2 DEF PollLength, View, LeastOf
<1>4. /\ view' \in Views /\ view'.phase = p /\ view'.start = start
      /\ view'.status = view.status /\ view'.offset = view.offset
      /\ view'.shown = view.shown /\ view'.text = view.text /\ view'.answer = view.answer
  <2> HIDE DEF Symbols
  <2> QED
    BY <1>2, <1>3 DEF Views, Polling
<1>5. Base' /\ (NoLoss' <=> NoLoss)
  BY <1>1, <1>4, ViewKeepsBase DEF Base, NothingEnded
<1>6. Stored'
  BY <1>1, <1>5 DEF Stored, OthersUnchanged
<1>7. view.text = <<>>
  BY <1>1 DEF ViewInv, Requests, Polling
<1>8. Requests'
  BY <1>4, <1>7 DEF Requests, Polling
<1>9. Viewed'
  <2> SUFFICES ASSUME NoLoss, view.status \in Terminal, NEW e \in endings, endings = {e}
               PROVE  /\ Boundary(e, view.offset)
                      /\ view.shown = Text(SubSeq(e, 1, view.offset))
                      /\ Fetched(e)'
    BY <1>1, <1>4, <1>5 DEF Viewed, OthersUnchanged
  <2>1. Boundary(e, view.offset) /\ view.shown = Text(SubSeq(e, 1, view.offset))
    BY <1>1 DEF ViewInv, Viewed, Polling
  <2>2. PICK m \in Nat : m = view.offset /\ m <= Len(e)
    <3>1. view.offset <= Len(e)
      BY <2>1, <1>2 DEF Boundary
    <3> QED
      BY <1>2, <3>1
  <2>3. log = e => start = m /\ (p = "pollState" => m = Len(e)) /\ (p = "pollRange" => m < Len(e))
    BY <1>2, <1>3, <2>2 DEF LeastOf
  <2>4. Text(SubSeq(e, m + 1, m)) = <<>>
    <3>1. SubSeq(e, m + 1, m) = <<>>
      OBVIOUS
    <3> QED
      BY <3>1, TextOfNothing
  <2>5. log = e => /\ Boundary(e, start) /\ view.offset <= start
                   /\ view.text = Text(SubSeq(e, view.offset + 1, start))
    BY <1>7, <2>1, <2>2, <2>3, <2>4
  <2>6. view'.phase = "pollRange" => log # e \/ (start = view.offset /\ view.offset < Len(e))
    BY <1>4, <2>2, <2>3
  <2>7. view'.phase = "pollState" =>
            \/ log # e
            \/ /\ Boundary(e, start) /\ view.offset <= start
               /\ view.text = Text(SubSeq(e, view.offset + 1, start))
               /\ start = view.offset => view.offset = Len(e)
    BY <1>4, <2>2, <2>3, <2>5
  <2>8. Fetched(e)'
    BY <1>1, <1>4, <2>6, <2>7 DEF Fetched, OthersUnchanged
  <2> QED
    BY <2>1, <2>8
<1> QED
  BY <1>5, <1>6, <1>8, <1>9 DEF ViewInv

\* The bytes of the log: if it is still the one, they bring it forward to a boundary.
LEMMA PollRangeKeeps ==
    ASSUME Base, Stored, ViewInv, PollRange
    PROVE  Base' /\ Stored' /\ ViewInv'
<1>1. OthersUnchanged /\ faults' = faults /\ view.phase = "pollRange"
  BY DEF PollRange, View, OthersUnchanged, storeVars, redisVars, workerVars
<1>2. /\ view \in Views /\ log \in Seq(Byte) /\ IsWhole(log) /\ view.start \in Nat
  BY DEF Base, TypeOK, ViewType, WholeLogs
<1>3. PICK content \in Seq(Byte), text \in Seq(Symbols), start \in Nat :
          /\ content = Chunk(log, view.start) /\ Len(content) \in Nat
          /\ start = view.start + Len(content) /\ text = Text(content)
          /\ view' = [view EXCEPT !.phase = "pollState", !.start = start, !.text = text]
  <2>1. PICK m \in Nat : m = view.start
    BY <1>2
  <2>2. Chunk(log, m) \in Seq(Byte) /\ Len(Chunk(log, m)) \in Nat
    BY <1>2, ChunkType
  <2>3. PICK content \in Seq(Byte) : content = Chunk(log, view.start) /\ Len(content) \in Nat
    BY <2>1, <2>2
  <2>4. PICK start \in Nat : start = view.start + Len(content)
    BY <2>1, <2>3
  <2>5. PICK text \in Seq(Symbols) : text = Text(content)
    <3> HIDE DEF Symbols
    <3> QED
      BY TextType
  <2>6. view' = [view EXCEPT !.phase = "pollState", !.start = start, !.text = text]
    BY <2>3, <2>4, <2>5 DEF PollRange, View
  <2> HIDE DEF Symbols
  <2> QED
    BY <2>3, <2>4, <2>5, <2>6
<1>4. /\ view' \in Views /\ view'.phase = "pollState" /\ view'.start = start
      /\ view'.status = view.status /\ view'.offset = view.offset
      /\ view'.shown = view.shown /\ view'.text = text /\ view'.answer = view.answer
  <2> HIDE DEF Symbols
  <2> QED
    BY <1>2, <1>3 DEF Views, Polling
<1>5. Base' /\ (NoLoss' <=> NoLoss)
  BY <1>1, <1>4, ViewKeepsBase DEF Base, NothingEnded
<1>6. Stored'
  BY <1>1, <1>5 DEF Stored, OthersUnchanged
<1>8. Requests'
  BY <1>4 DEF Requests, Polling
<1>9. Viewed'
  <2> SUFFICES ASSUME NoLoss, view.status \in Terminal, NEW e \in endings, endings = {e}
               PROVE  /\ Boundary(e, view.offset)
                      /\ view.shown = Text(SubSeq(e, 1, view.offset))
                      /\ Fetched(e)'
    BY <1>1, <1>4, <1>5 DEF Viewed, OthersUnchanged
  <2>1. /\ Boundary(e, view.offset) /\ view.shown = Text(SubSeq(e, 1, view.offset))
        /\ log # e \/ (view.start = view.offset /\ view.offset < Len(e))
    BY <1>1 DEF ViewInv, Viewed, Polling, Fetched
  <2>2. CASE log = e
    <3>1. PICK m \in Nat : m = view.start /\ m = view.offset /\ m < Len(e) /\ Boundary(e, m)
      BY <1>2, <2>1, <2>2
    <3>2. PICK n \in 0 .. Len(e) : Boundary(e, n) /\ m < n /\ Chunk(e, m) = SubSeq(e, m + 1, n)
      BY <1>2, <2>2, <3>1, ChunkAdvances
    <3>3. content = SubSeq(e, m + 1, n)
      BY <1>3, <2>2, <3>1, <3>2
    <3>4. Len(content) = n - m /\ m <= n /\ m \in Int /\ n \in Int
      <4>1. m <= n /\ m \in Int /\ n \in Int
        BY <3>2
      <4>2. Len(SubSeq(e, m + 1, n)) = n - m
        BY <4>1, <1>2, <2>2, <3>1, <3>2, ReadOn
      <4> QED
        BY <4>1, <4>2, <3>3
    <3>5. start = n
      BY <1>3, <3>1, <3>4
    <3>6. /\ Boundary(e, start) /\ view.offset <= start /\ start # view.offset
          /\ text = Text(SubSeq(e, view.offset + 1, start))
      <4>1. view.offset = m /\ m < n /\ m \in Int /\ n \in Int
        BY <3>1, <3>2, <3>4
      <4>2. SubSeq(e, view.offset + 1, start) = content
        BY <3>3, <3>5, <4>1
      <4>3. view.offset <= start /\ start # view.offset
        BY <3>5, <4>1
      <4>4. text = Text(content)
        BY <1>3
      <4> QED
        BY <3>2, <3>5, <4>2, <4>3, <4>4
    <3>7. Fetched(e)'
      BY <1>1, <1>4, <3>6 DEF Fetched
    <3> QED
      BY <2>1, <3>7
  <2>3. CASE log # e
    <3>1. Fetched(e)'
      BY <1>1, <1>4, <2>3 DEF Fetched, OthersUnchanged
    <3> QED
      BY <2>1, <3>1
  <2> QED
    BY <2>2, <2>3
<1> QED
  BY <1>5, <1>6, <1>8, <1>9 DEF ViewInv

\* A request that fails ends the polling.
LEMMA ReadFailsKeeps ==
    ASSUME Base, Stored, ReadFails
    PROVE  Base' /\ Stored' /\ ViewInv'
<1>1. OthersUnchanged /\ Fault("readError") /\ view' = [view EXCEPT !.phase = "stopped"]
  BY DEF ReadFails, View, OthersUnchanged, storeVars, redisVars, workerVars
<1>2. view \in Views
  BY DEF Base, ViewType
<1>3. /\ view' \in Views /\ view'.phase = "stopped"
      /\ view'.status = view.status /\ view'.answer = view.answer
  <2> HIDE DEF Symbols
  <2> QED
    BY <1>1, <1>2 DEF Views
<1>4. Base' /\ (NoLoss' <=> NoLoss)
  BY <1>1, <1>3, ViewKeepsBase DEF Base, NothingEnded
<1> QED
  BY <1>1, <1>3, <1>4, IdleView DEF Stored, OthersUnchanged

-----------------------------------------------------------------------------
(* The invariant. *)

\* A job that waits, and a view that is closed.
LEMMA InitIInv == Init => IInv
<1> SUFFICES ASSUME Init PROVE IInv
  OBVIOUS
<1>1. /\ <<>> \in Seq(Byte) /\ IsWhole(<<>>) /\ DOMAIN <<>> = {} /\ <<>> \in Seq(Symbols)
  BY DEF IsWhole
<1>2. Cardinality({}) = 0
  BY FS_EmptySet
<1>3. view \in Views /\ view.phase = "closed" /\ view.status = "queued" /\ view.answer = "queued"
  <2> HIDE DEF Symbols
  <2> QED
    BY <1>1 DEF Init, NoView, Views, Statuses
<1>4. TypeOK
  <2>1. /\ view.phase \in {"closed", "stale", "stopped", "settled"} \cup Opening \cup Polling
        /\ {view.status, view.answer} \subseteq Statuses
        /\ view.shown \in Seq(Character \cup {Replaced})
        /\ view.text \in Seq(Character \cup {Replaced})
        /\ {view.offset, view.start} \subseteq Nat
    BY <1>3 DEF Views, Symbols
  <2> QED
    BY <2>1, <1>1, LogsAssumption DEF Init, TypeOK, Statuses, States, Phases, Terminal
<1>5. ViewType /\ WholeLogs
  BY <1>1, <1>3 DEF Init, ViewType, WholeLogs
<1>6. Attempts
  BY <1>1, <1>2, LogsAssumption DEF Init, Attempts, Starting
<1>7. Resumed /\ NothingEnded /\ Running
  BY <1>3 DEF Init, Resumed, NothingEnded, Running, Terminal, Starting
<1>8. Stored /\ Viewed /\ Requests
  BY <1>3 DEF Init, Stored, Viewed, Requests, Terminal, Polling
<1> QED
  BY <1>4, <1>5, <1>6, <1>7, <1>8 DEF IInv

\* The invariant, in the two parts that the lemmas are about.
LEMMA IInvParts == IInv <=> Base /\ Stored /\ ViewInv
BY DEF IInv, Base, ViewInv

\* A step of the worker, its crash or the loss of Redis.
LEMMA WorkerKeeps ==
    ASSUME Base, Stored, ViewInv, Worker \/ CrashWorker \/ LoseRedis
    PROVE  Base' /\ Stored' /\ ViewInv'
<1>1. Base'
  BY WorkerKeepsBase
<1>2. ViewInv'
  BY WorkerKeepsView DEF ViewInv
<1>3. Stored'
  <2>1. CASE NoLoss'
    BY <2>1, WorkerKeepsStored
  <2>2. CASE ~NoLoss'
    BY <2>2 DEF Stored
  <2> QED
    BY <2>1, <2>2
<1> QED
  BY <1>1, <1>2, <1>3

\* Every step keeps the invariant.
LEMMA NextIInv == IInv /\ [Next]_vars => IInv'
<1> SUFFICES ASSUME IInv, [Next]_vars PROVE Base' /\ Stored' /\ ViewInv'
  <2>1. Base' /\ Stored' /\ ViewInv' => IInv'
    BY DEF IInv, Base, ViewInv
  <2> QED
    BY <2>1
<1>0. Base /\ Stored /\ ViewInv
  BY IInvParts
<1>1. CASE Worker \/ CrashWorker \/ LoseRedis
  BY <1>0, <1>1, WorkerKeeps
<1>2. CASE OpenJob \/ OpenRecord \/ OpenState
  BY <1>0, <1>2, OpeningKeeps
<1>3. CASE PollRecord
  BY <1>0, <1>3, PollRecordKeeps
<1>4. CASE PollArchive
  BY <1>0, <1>4, PollArchiveKeeps
<1>5. CASE PollLength
  BY <1>0, <1>5, PollLengthKeeps
<1>6. CASE PollRange
  BY <1>0, <1>6, PollRangeKeeps
<1>7. CASE PollState
  BY <1>0, <1>7, PollStateKeeps
<1>8. CASE ReadFails
  BY <1>0, <1>8, ReadFailsKeeps
<1>9. CASE UNCHANGED vars
  <2>1. OthersUnchanged /\ view' = view /\ faults' = faults
    BY <1>9 DEF vars, OthersUnchanged, storeVars, redisVars, workerVars
  <2>2. view' \in Views
    BY <1>0, <2>1 DEF Base, ViewType
  <2>3. Base' /\ (NoLoss' <=> NoLoss)
    BY <1>0, <2>1, <2>2, ViewKeepsBase DEF Base, NothingEnded
  <2>4. Stored'
    BY <1>0, <2>1, <2>3 DEF Stored, OthersUnchanged
  <2>5. Requests'
    BY <1>0, <2>1, <2>3 DEF ViewInv, Requests, OthersUnchanged
  <2>6. \A e : Fetched(e) => Fetched(e)'
    BY <2>1 DEF Fetched, OthersUnchanged
  <2>7. Viewed'
    BY <1>0, <2>1, <2>3, <2>6 DEF ViewInv, Viewed, OthersUnchanged
  <2> QED
    BY <2>3, <2>4, <2>5, <2>7 DEF ViewInv
<1> QED
  BY <1>1, <1>2, <1>3, <1>4, <1>5, <1>6, <1>7, <1>8, <1>9 DEF Next, Reload, Poll

\* The invariant is one.
THEOREM Invariant == Spec => []IInv
BY InitIInv, NextIInv, PTL DEF Spec

\* Variables keep their types, whatever the worker, the faults and the view do (tasks.py,
\* job_logs.py, history.py, main.py, app.js).
THEOREM TypeCorrect == Spec => []TypeOK
<1>1. IInv => TypeOK
  BY DEF IInv
<1> QED
  BY <1>1, Invariant, PTL

\* A view that stopped polling because the job ended shows the whole output of the attempt,
\* for lines of any width, any number of them and any max_bytes of at least four: offsets
\* the browser sends (app.js) are always ends of characters, the archive is complete
\* before the terminal record (history.persist), and the state is read after the log.
THEOREM SettledMeansWhole == Spec => []SettledShowsWholeLog
<1>1. IInv => SettledShowsWholeLog
  <2> SUFFICES ASSUME IInv, view.phase = "settled", NoLoss
               PROVE  /\ endings # {}
                      /\ \A e \in endings : endings = {e} => view.shown = Text(e)
    BY DEF SettledShowsWholeLog, NoLoss
  <2>1. view.status \in Terminal
    BY DEF IInv, Requests
  <2>2. endings # {}
    BY <2>1 DEF IInv, NothingEnded
  <2>3. ASSUME NEW e \in endings, endings = {e} PROVE view.shown = Text(e)
    <3>1. view.shown = Text(SubSeq(e, 1, view.offset)) /\ view.offset = Len(e)
      BY <2>1, <2>3 DEF IInv, Viewed
    <3>2. e \in Seq(Byte)
      BY DEF IInv, TypeOK
    <3>3. SubSeq(e, 1, Len(e)) = e
      BY <3>2, SubSeqFull
    <3> QED
      BY <3>1, <3>3
  <2> QED
    BY <2>2, <2>3
<1> QED
  BY <1>1, Invariant, PTL
=============================================================================
