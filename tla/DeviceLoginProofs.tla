-------------------------- MODULE DeviceLoginProofs --------------------------
(***************************************************************************)
(* Proofs about DeviceLogin, for any polls, tabs, number of tries, faults  *)
(* and fault bound. The properties follow from one inductive invariant,    *)
(* IInv: a request whose EXEC would succeed has read the record as it is,  *)
(* so a status is left once, and what leaves "authorized" is consumed.     *)
(***************************************************************************)
EXTENDS DeviceLogin, TLAPS

\* WATCH at work: a watcher that is not dirty has read what is stored.
Current ==
    \A r \in watching : r \notin dirty => seen[r].status = status

\* Who takes which steps, and when it may still try.
StepsOK ==
    /\ \A r \in watching : step[r] \in Updates
    /\ \A t \in Tabs : step[t] # "poll"
    /\ \A p \in Polls :
          step[p] \in {"idle", "poll", "done"} /\ (answer[p] # "none" => step[p] = "done")
    /\ \A r \in Requests : step[r] \notin {"done", "revoke"} => tries[r] < MaxTries

\* Once the token has been handed out the record holds none.
HandedIsConsumed ==
    (\E p \in Polls : answer[p] = "authorized") => status \in {"consumed", "gone"}

IInv ==
    /\ LoginTypeOK
    /\ Current /\ StepsOK /\ HandedIsConsumed
    /\ TokenIsHandedOnce /\ NoOrphanSession

-----------------------------------------------------------------------------
(* Updates of the record. *)

\* What an update that the record accepts makes of its status.
LEMMA StatusFacts ==
    ASSUME LoginTypeOK, StepsOK, NEW r \in Requests, step[r] \in Updates, Accepts(r)
    PROVE  /\ Updated(r) \in Statuses
           /\ seen[r].status = "authorized" => step[r] = "poll" /\ Updated(r) = "consumed"
           /\ seen[r].status # "consumed"
           /\ seen[r].status # "gone"
           /\ step[r] = "finish" => Updated(r) = "authorized"
           /\ Updated(r) = "authorized" => step[r] = "finish"
           /\ step[r] = "poll" /\ seen[r].status \in {"denied", "failed"} => Updated(r) = "consumed"
<1>1. seen[r].status \in Statuses
  BY DEF LoginTypeOK
<1>2. CASE step[r] = "approve"
  BY <1>1, <1>2 DEF Accepts, Updated, Statuses
<1>3. CASE step[r] = "deny"
  BY <1>1, <1>3 DEF Accepts, Updated, Statuses
<1>4. CASE step[r] = "fail"
  BY <1>1, <1>4 DEF Accepts, Updated, Statuses
<1>5. CASE step[r] = "finish"
  BY <1>1, <1>5 DEF Accepts, Updated, Statuses
<1>6. CASE step[r] = "poll"
  BY <1>1, <1>6 DEF Accepts, Updated, Statuses
<1> QED
  BY <1>2, <1>3, <1>4, <1>5, <1>6 DEF Updates

\* A request that is refused ends, or revokes its session, and changes no other.
LEMMA RefusedFacts ==
    ASSUME LoginTypeOK, NEW r \in Requests, Refused(r)
    PROVE  /\ step' \in [Requests -> Steps] /\ answer' \in [Polls -> Answers]
           /\ step'[r] = IF step[r] = "finish" THEN "revoke" ELSE "done"
           /\ \A q \in Requests : q # r => step'[q] = step[q]
           /\ \A p \in Polls : answer'[p] = IF p = r THEN "error" ELSE answer[p]
BY DEF LoginTypeOK, Refused, StepTo, Steps, Answers

-----------------------------------------------------------------------------
(* Type correctness, with the steps. *)

Typed == LoginTypeOK /\ StepsOK

\* Every step keeps the types.
LEMMA TypeStep == Typed /\ [LoginNext]_loginVars => Typed'
<1> SUFFICES ASSUME Typed, [LoginNext]_loginVars PROVE Typed'
  OBVIOUS
<1> USE DeviceAssumption DEF Typed, Requests, NoLoginFault
<1>1. ASSUME NEW r \in Requests, Watch(r) PROVE Typed'
  <2>1. step[r] \in Updates /\ UNCHANGED <<status, token, polled, sessions, oauth, tries, loginFaults>>
    BY <1>1 DEF Watch, record
  <2>2. CASE /\ status # "gone"
             /\ watching' = watching \cup {r}
             /\ seen' = [seen EXCEPT ![r] = [status |-> status, polled |-> polled]]
             /\ UNCHANGED <<dirty, step, answer>>
    <3>1. [status |-> status, polled |-> polled] \in [status : Statuses, polled : BOOLEAN]
      BY <2>2 DEF LoginTypeOK
    <3>2. seen' \in [Requests -> [status : Statuses, polled : BOOLEAN]]
      BY <2>2, <3>1 DEF LoginTypeOK
    <3>3. LoginTypeOK'
      BY <2>1, <2>2, <3>2 DEF LoginTypeOK
    <3>4. StepsOK'
      <4>1. UNCHANGED <<step, tries, answer>> /\ watching' = watching \cup {r}
        BY <2>1, <2>2
      <4> QED
        BY <2>1, <4>1 DEF StepsOK
    <3> QED
      BY <3>3, <3>4
  <2>3. CASE Refused(r) /\ UNCHANGED <<watching, seen, dirty>>
    <3>1. r \notin watching
      BY <1>1 DEF Watch
    <3>2. /\ step' \in [Requests -> Steps] /\ answer' \in [Polls -> Answers]
          /\ step'[r] = IF step[r] = "finish" THEN "revoke" ELSE "done"
          /\ \A q \in Requests : q # r => step'[q] = step[q]
          /\ \A p \in Polls : answer'[p] = IF p = r THEN "error" ELSE answer[p]
      BY <2>3, RefusedFacts
    <3>3. LoginTypeOK'
      BY <2>1, <2>3, <3>2 DEF LoginTypeOK
    <3>4. StepsOK'
      <4>1. \A q \in watching : q # r
        BY <3>1
      <4>2. \A q \in watching : q \in Requests
        BY DEF LoginTypeOK
      <4>3. \A q \in watching' : step'[q] \in Updates
        BY <2>3, <3>2, <4>1, <4>2 DEF StepsOK
      <4>4. step'[r] \in {"done", "revoke"} /\ (r \in Polls => step'[r] = "done")
        BY <2>1, <3>2 DEF StepsOK, Updates
      <4> QED
        BY <2>1, <3>2, <4>3, <4>4 DEF StepsOK
    <3> QED
      BY <3>3, <3>4
  <2> QED
    BY <1>1, <2>2, <2>3 DEF Watch
<1>2. ASSUME NEW r \in Requests, Execute(r) PROVE Typed'
  <2>1. /\ r \in watching /\ step[r] \in Updates /\ Accepts(r) /\ Write(r)
        /\ UNCHANGED <<sessions, oauth, seen>>
        /\ tries' = [tries EXCEPT ![r] = 0]
    BY <1>2 DEF Execute, StepsOK
  <2>2. /\ status' \in Statuses /\ token' \in Tabs \cup {NoTab} /\ polled' \in BOOLEAN
        /\ watching' = watching \ {r} /\ dirty' \subseteq watching'
    <3>1. Updated(r) \in Statuses
      BY <2>1, StatusFacts
    <3>2. step[r] = "finish" => r \in Tabs
      BY DEF StepsOK
    <3> QED
      BY <2>1, <3>1, <3>2 DEF Write, LoginTypeOK
  <2>3. /\ step' \in [Requests -> Steps]
        /\ step'[r] \in {"redirect", "done"}
        /\ step[r] = "poll" => step'[r] = "done"
        /\ \A q \in Requests : q # r => step'[q] = step[q]
    <3>1. \/ step' = [step EXCEPT ![r] = IF step[r] = "approve" THEN "redirect" ELSE "done"]
          \/ step' = [step EXCEPT ![r] = "done"]
      BY <1>2 DEF Execute, StepTo
    <3> QED
      BY <3>1 DEF LoginTypeOK, Steps
  <2>4. /\ answer' \in [Polls -> Answers] /\ loginFaults' \in 0 .. MaxLoginFaults
        /\ \A p \in Polls : p # r => answer'[p] = answer[p]
    <3>1. \/ answer' = [p \in Polls |-> IF p = r THEN Told(seen[r].status) ELSE answer[p]]
          \/ answer' = [answer EXCEPT ![r] = "error"]
      BY <1>2 DEF Execute
    <3>2. r \in Polls => Told(seen[r].status) \in Answers
      <4>1. r \in Polls => step[r] = "poll"
        BY <2>1 DEF StepsOK, Updates
      <4>2. r \in Polls => seen[r].status # "consumed"
        BY <2>1, <4>1, StatusFacts
      <4> QED
        BY <4>2 DEF Told, Answers, LoginTypeOK, Statuses
    <3>3. loginFaults' \in 0 .. MaxLoginFaults
      BY <1>2 DEF Execute, LoginFault, LoginTypeOK
    <3> QED
      BY <3>1, <3>2, <3>3 DEF LoginTypeOK, Answers
  <2>5. LoginTypeOK'
    BY <2>1, <2>2, <2>3, <2>4 DEF LoginTypeOK
  <2>6. StepsOK'
    BY <2>1, <2>2, <2>3, <2>4 DEF StepsOK, LoginTypeOK, Updates
  <2> QED
    BY <2>5, <2>6
<1>3. ASSUME NEW r \in Requests, Refuse(r) PROVE Typed'
  <2>1. /\ r \in watching /\ Unwatch(r) /\ Refused(r)
        /\ UNCHANGED <<status, token, polled, sessions, oauth, seen, tries, loginFaults>>
    BY <1>3 DEF Refuse, record
  <2> QED
    BY <2>1, RefusedFacts, SMTT(30) DEF LoginTypeOK, StepsOK, Unwatch, Updates
<1>4. ASSUME NEW r \in Requests, Retry(r) PROVE Typed'
  <2>1. /\ r \in watching /\ Unwatch(r) /\ step[r] \in Updates
        /\ tries' = [tries EXCEPT ![r] = @ + 1]
        /\ UNCHANGED <<status, token, polled, sessions, oauth, seen, loginFaults>>
    BY <1>4 DEF Retry, StepsOK, record
  <2>2. tries[r] < MaxTries /\ tries[r] \in 0 .. MaxTries
    BY <2>1 DEF StepsOK, LoginTypeOK, Updates
  <2>3. tries' \in [Requests -> 0 .. MaxTries] /\ tries'[r] = tries[r] + 1
        /\ \A q \in Requests : q # r => tries'[q] = tries[q]
    BY <2>1, <2>2 DEF LoginTypeOK
  <2>4. CASE tries[r] + 1 = MaxTries /\ Refused(r)
    BY <2>1, <2>3, <2>4, RefusedFacts DEF LoginTypeOK, StepsOK, Unwatch, Updates
  <2>5. CASE tries[r] + 1 # MaxTries /\ UNCHANGED <<step, answer>>
    BY <2>1, <2>2, <2>3, <2>5 DEF LoginTypeOK, StepsOK, Unwatch, Updates
  <2> QED
    BY <1>4, <2>4, <2>5 DEF Retry
<1>5. ASSUME NEW r \in Requests, UpdateRaises(r) PROVE Typed'
  <2>1. /\ r \in watching /\ step[r] \in Updates
        /\ step' = [step EXCEPT ![r] = "done"]
        /\ answer' = [p \in Polls |-> IF p = r THEN "error" ELSE answer[p]]
        /\ UNCHANGED <<sessions, oauth, seen, tries>>
        /\ loginFaults' \in 0 .. MaxLoginFaults
    BY <1>5 DEF UpdateRaises, StepTo, StepsOK, LoginFault, LoginTypeOK
  <2>2. /\ status' \in Statuses \cup {"gone"} /\ token' \in Tabs \cup {NoTab} /\ polled' \in BOOLEAN
        /\ watching' = watching \ {r} /\ dirty' \subseteq watching'
    <3>1. Accepts(r) => Updated(r) \in Statuses
      BY <2>1, StatusFacts
    <3>2. step[r] = "finish" => r \in Tabs
      BY DEF StepsOK
    <3>3. CASE Accepts(r) /\ Write(r)
      BY <3>1, <3>2, <3>3 DEF Write, LoginTypeOK
    <3>4. CASE Unwatch(r) /\ UNCHANGED record
      BY <3>4 DEF Unwatch, record, LoginTypeOK
    <3> QED
      BY <1>5, <3>3, <3>4 DEF UpdateRaises
  <2>3. LoginTypeOK'
    BY <2>1, <2>2 DEF LoginTypeOK, Steps, Answers
  <2>4. StepsOK'
    BY <2>1, <2>2 DEF StepsOK, LoginTypeOK
  <2> QED
    BY <2>3, <2>4
<1>6. ASSUME NEW r \in Requests,
             \/ r \in Tabs /\ (Confirm(r) \/ Redirect(r) \/ Return(r) \/ Issue(r) \/ Revoke(r))
             \/ r \in Polls /\ Poll(r)
      PROVE  Typed'
  <2>1. PICK next \in Steps :
          /\ step' = [step EXCEPT ![r] = next]
          /\ r \in Polls => next = "poll" /\ step[r] = "idle"
          /\ r \in Tabs => next # "poll"
          /\ step[r] \notin Updates \cup {"done"}
          /\ step[r] = "revoke" => next = "done"
    BY <1>6 DEF Confirm, Redirect, Return, Issue, Revoke, Poll, StepTo, Steps, Updates, StepsOK
  <2>2. /\ sessions' \subseteq Tabs /\ oauth' \subseteq Tabs /\ loginFaults' \in 0 .. MaxLoginFaults
        /\ UNCHANGED <<status, token, polled, watching, seen, dirty, tries, answer>>
    BY <1>6 DEF Confirm, Redirect, Return, Issue, Revoke, Poll, record, optimism, LoginFault, LoginTypeOK
  <2>3. LoginTypeOK'
    BY <2>1, <2>2 DEF LoginTypeOK
  <2>4. StepsOK'
    BY <2>1, <2>2 DEF StepsOK, LoginTypeOK, Updates
  <2> QED
    BY <2>3, <2>4
<1>7. CASE Expire
  BY <1>7 DEF Expire, LoginTypeOK, StepsOK, LoginFault, record
<1>8. CASE UNCHANGED loginVars
  BY <1>8 DEF loginVars, record, optimism, LoginTypeOK, StepsOK
<1> QED
  BY <1>1, <1>2, <1>3, <1>4, <1>5, <1>6, <1>7, <1>8 DEF LoginNext

-----------------------------------------------------------------------------
(* The invariant is inductive. *)

\* The invariant holds before the first request.
LEMMA Initially == LoginInit => IInv
<1> SUFFICES ASSUME LoginInit PROVE IInv
  OBVIOUS
<1>1. LoginTypeOK
  <2>1. 0 \in 0 .. MaxTries /\ 0 \in 0 .. MaxLoginFaults
    BY DeviceAssumption
  <2>2. [status |-> "pending", polled |-> FALSE] \in [status : Statuses, polled : BOOLEAN]
    BY DEF Statuses
  <2>3. seen \in [Requests -> [status : Statuses, polled : BOOLEAN]]
    BY <2>2 DEF LoginInit
  <2> QED
    BY <2>1, <2>3 DEF LoginInit, LoginTypeOK, Statuses, Steps, Answers
<1>2. Current /\ HandedIsConsumed /\ TokenIsHandedOnce /\ NoOrphanSession
  BY DEF LoginInit, Current, HandedIsConsumed, TokenIsHandedOnce, NoOrphanSession
<1>3. StepsOK
  BY DeviceAssumption DEF LoginInit, StepsOK, Requests
<1> QED
  BY <1>1, <1>2, <1>3 DEF IInv

\* A request that writes nothing to the record: its answer can only be an error.
LEMMA NoWriteStep ==
    ASSUME IInv, Typed', UNCHANGED <<status, token>>,
           \A r \in watching' : r \notin dirty' =>
               seen'[r].status = status \/ (r \in watching \ dirty /\ seen'[r] = seen[r]),
           \A p \in Polls : answer'[p] = "authorized" <=> answer[p] = "authorized",
           loginFaults <= loginFaults',
           loginFaults' = 0 => \A t \in sessions' :
               \/ step'[t] \in {"finish", "revoke"}
               \/ t \in sessions /\ step[t] \notin {"finish", "revoke"}
    PROVE  IInv'
<1>1. Current'
  BY DEF IInv, Current
<1>2. HandedIsConsumed' /\ TokenIsHandedOnce'
  BY DEF IInv, HandedIsConsumed, TokenIsHandedOnce
<1>3. loginFaults' = 0 => loginFaults = 0
  BY DEF IInv, LoginTypeOK, Typed
<1>4. NoOrphanSession'
  BY <1>3 DEF IInv, NoOrphanSession
<1> QED
  BY <1>1, <1>2, <1>4 DEF IInv, Typed

\* A request that writes the record has read it as it was, so every other watcher is dirty and
\* a status is left once.
LEMMA WriteFacts ==
    ASSUME IInv, NEW r \in Requests, r \in watching, Accepts(r), r \notin dirty, Write(r)
    PROVE  /\ seen[r].status = status
           /\ status' = Updated(r) /\ Updated(r) \in Statuses
           /\ watching' \subseteq dirty'
           /\ \A p \in Polls : answer[p] # "authorized"
           /\ status = "authorized" => step[r] = "poll" /\ status' = "consumed"
           /\ step[r] = "finish" => status' = "authorized" /\ token' = r
           /\ r \in Polls <=> step[r] = "poll"
<1>1. seen[r].status = status /\ step[r] \in Updates
  BY DEF IInv, Current, StepsOK
<1>2. status \notin {"consumed", "gone"}
  BY <1>1, StatusFacts DEF IInv
<1>3. \A p \in Polls : answer[p] # "authorized"
  BY <1>2 DEF IInv, HandedIsConsumed
<1>4. status = "authorized" => step[r] = "poll" /\ Updated(r) = "consumed"
  BY <1>1, StatusFacts DEF IInv
<1>5. step[r] = "finish" => Updated(r) = "authorized"
  BY <1>1, StatusFacts DEF IInv
<1>6. Updated(r) \in Statuses
  BY <1>1, StatusFacts DEF IInv
<1>7. r \in Polls <=> step[r] = "poll"
  BY <1>1 DEF IInv, StepsOK, Updates, Requests
<1> QED
  BY <1>1, <1>3, <1>4, <1>5, <1>6, <1>7 DEF Write

\* An EXEC that succeeds writes what its request has read: the record was not
\* touched in between, so no other update left the same state.
LEMMA ExecuteStep ==
    ASSUME IInv, Typed', NEW r \in Requests, Execute(r)
    PROVE  IInv'
<1>1. r \in watching /\ Accepts(r) /\ r \notin dirty /\ Write(r) /\ UNCHANGED <<sessions, seen>>
  BY DEF Execute
<1>2. /\ seen[r].status = status
      /\ watching' \subseteq dirty'
      /\ \A p \in Polls : answer[p] # "authorized"
      /\ status = "authorized" => step[r] = "poll" /\ status' = "consumed"
      /\ step[r] = "finish" => status' = "authorized" /\ token' = r
      /\ r \in Polls <=> step[r] = "poll"
  BY <1>1, WriteFacts
<1>3. \/ /\ answer' = [p \in Polls |-> IF p = r THEN Told(status) ELSE answer[p]]
         /\ loginFaults' = loginFaults
      \/ answer' = [answer EXCEPT ![r] = "error"] /\ loginFaults' = loginFaults + 1
  BY <1>1, <1>2 DEF Execute, NoLoginFault, LoginFault
<1>4. \A p \in Polls : answer'[p] = "authorized" => p = r /\ status = "authorized"
  BY <1>2, <1>3 DEF Told, IInv, LoginTypeOK
<1>5. Current'
  BY <1>2 DEF Current
<1>6. HandedIsConsumed' /\ TokenIsHandedOnce'
  BY <1>2, <1>4 DEF HandedIsConsumed, TokenIsHandedOnce
<1>7. \A q \in Requests : q # r => step'[q] = step[q]
  BY DEF Execute, StepTo, IInv, LoginTypeOK
<1>8. NoOrphanSession'
  <2> SUFFICES ASSUME loginFaults' = 0, NEW t \in sessions
               PROVE  \/ step'[t] \in {"finish", "revoke"}
                      \/ status' = "authorized" /\ token' = t
                      \/ \E p \in Polls : answer'[p] = "authorized"
    BY <1>1 DEF NoOrphanSession
  <2>1. loginFaults = 0 /\ answer' = [p \in Polls |-> IF p = r THEN Told(status) ELSE answer[p]]
    BY <1>3 DEF IInv, LoginTypeOK
  <2>2. t \in Requests
    BY DEF IInv, LoginTypeOK, Requests
  <2>3. CASE step[t] \in {"finish", "revoke"}
    <3>1. step[r] # "revoke"
      BY <1>1 DEF IInv, StepsOK, Updates
    <3> QED
      BY <1>2, <1>7, <2>2, <2>3, <3>1
  <2>4. CASE status = "authorized" /\ token = t
    BY <1>2, <2>1, <2>4 DEF Told
  <2> QED
    BY <1>2, <2>1, <2>3, <2>4 DEF IInv, NoOrphanSession
<1> QED
  BY <1>5, <1>6, <1>8 DEF IInv, Typed

\* A failing Redis call is a fault, after which sessions are not claimed.
LEMMA RaiseStep ==
    ASSUME IInv, Typed', NEW r \in Requests, UpdateRaises(r)
    PROVE  IInv'
<1>1. /\ r \in watching
      /\ answer' = [p \in Polls |-> IF p = r THEN "error" ELSE answer[p]]
      /\ loginFaults' = loginFaults + 1
      /\ seen' = seen
  BY DEF UpdateRaises, LoginFault
<1>2. loginFaults' # 0 /\ loginFaults <= loginFaults'
  BY <1>1 DEF IInv, LoginTypeOK
<1>3. r \in Polls => answer[r] = "none"
  BY <1>1 DEF IInv, StepsOK, Updates
<1>4. \A p \in Polls : answer'[p] = "authorized" <=> answer[p] = "authorized"
  BY <1>1, <1>3
<1>5. CASE Accepts(r) /\ r \notin dirty /\ Write(r)
  <2>1. watching' \subseteq dirty' /\ \A p \in Polls : answer[p] # "authorized"
    BY <1>1, <1>5, WriteFacts
  <2>2. Current' /\ HandedIsConsumed' /\ TokenIsHandedOnce' /\ NoOrphanSession'
    BY <1>2, <1>4, <2>1 DEF Current, HandedIsConsumed, TokenIsHandedOnce, NoOrphanSession
  <2> QED
    BY <2>2 DEF IInv, Typed
<1>6. CASE Unwatch(r) /\ UNCHANGED record
  <2>1. UNCHANGED <<status, token>>
    BY <1>6 DEF record
  <2>2. \A q \in watching' : q \notin dirty' => q \in watching \ dirty /\ seen'[q] = seen[q]
    BY <1>1, <1>6 DEF Unwatch
  <2> QED
    BY <1>2, <1>4, <2>1, <2>2, NoWriteStep
<1> QED
  BY <1>5, <1>6 DEF UpdateRaises

\* A refusal: the callback that could not deliver its session goes on to revoke it.
LEMMA RefusedStep ==
    ASSUME IInv, Typed', NEW r \in Requests, Refused(r), step[r] \in Updates,
           UNCHANGED <<status, token, sessions, seen, loginFaults>>,
           Unwatch(r) \/ UNCHANGED <<watching, dirty>>
    PROVE  IInv'
<1>1. /\ step'[r] = IF step[r] = "finish" THEN "revoke" ELSE "done"
      /\ \A q \in Requests : q # r => step'[q] = step[q]
      /\ \A p \in Polls : answer'[p] = IF p = r THEN "error" ELSE answer[p]
  BY RefusedFacts DEF IInv
<1>2. \A q \in watching' : q \notin dirty' => q \in watching \ dirty /\ seen'[q] = seen[q]
  BY DEF Unwatch
<1>3. r \in Polls => answer[r] = "none"
  BY DEF IInv, StepsOK, Updates
<1>4. \A p \in Polls : answer'[p] = "authorized" <=> answer[p] = "authorized"
  BY <1>1, <1>3
<1>5. \A t \in sessions' :
          step'[t] \in {"finish", "revoke"} \/ (t \in sessions /\ step[t] \notin {"finish", "revoke"})
  BY <1>1 DEF IInv, LoginTypeOK, Requests, Updates
<1>6. loginFaults <= loginFaults'
  BY DEF IInv, LoginTypeOK
<1> QED
  BY <1>2, <1>4, <1>5, <1>6, NoWriteStep

\* What the browser does between transactions leaves the record alone.
LEMMA BrowserStep ==
    ASSUME IInv, Typed', NEW t \in Tabs,
           Confirm(t) \/ Redirect(t) \/ Return(t) \/ Issue(t) \/ Revoke(t)
    PROVE  IInv'
<1>1. UNCHANGED <<status, token, watching, dirty, seen, answer>>
  BY DEF Confirm, Redirect, Return, Issue, Revoke, record, optimism
<1>2. loginFaults' = loginFaults \/ loginFaults' = loginFaults + 1
  BY DEF Confirm, Redirect, Return, Issue, Revoke, NoLoginFault, LoginFault
<1>3. t \in Requests /\ \A u \in Requests : u # t => step'[u] = step[u]
  BY DEF Confirm, Redirect, Return, Issue, Revoke, StepTo, IInv, LoginTypeOK, Requests
<1>4. CASE Confirm(t) \/ Redirect(t) \/ Return(t)
  <2>1. step[t] \in {"idle", "redirect", "consent"} /\ sessions' = sessions
    BY <1>4 DEF Confirm, Redirect, Return
  <2>2. \A u \in sessions' :
            step'[u] \in {"finish", "revoke"} \/ (u \in sessions /\ step[u] \notin {"finish", "revoke"})
    BY <1>3, <2>1 DEF IInv, LoginTypeOK, Requests
  <2> QED
    BY <1>1, <1>2, <2>2, NoWriteStep DEF IInv, LoginTypeOK
<1>5. CASE Issue(t) \/ Revoke(t)
  <2>1. loginFaults' = 0 => \A u \in sessions' :
            step'[u] \in {"finish", "revoke"} \/ (u \in sessions /\ step[u] \notin {"finish", "revoke"})
    <3>1. CASE Issue(t)
      BY <1>3, <3>1 DEF Issue, StepTo, LoginFault, IInv, LoginTypeOK, Requests
    <3>2. CASE Revoke(t)
      BY <1>3, <3>2 DEF Revoke, StepTo, LoginFault, IInv, LoginTypeOK, Requests
    <3> QED
      BY <1>5, <3>1, <3>2
  <2> QED
    BY <1>1, <1>2, <2>1, NoWriteStep DEF IInv, LoginTypeOK
<1> QED
  BY <1>4, <1>5

\* A poll that starts reads nothing yet; an expired record is gone for everybody.
LEMMA RestStep ==
    ASSUME IInv, Typed', (\E p \in Polls : Poll(p)) \/ Expire
    PROVE  IInv'
<1>1. ASSUME NEW p \in Polls, Poll(p) PROVE IInv'
  <2>1. UNCHANGED <<status, token, watching, dirty, seen, answer, sessions, loginFaults>>
    BY <1>1 DEF Poll, record, optimism, NoLoginFault
  <2>2. \A t \in sessions' : step'[t] = step[t]
    <3>1. \A t \in sessions' : t \in Tabs /\ t # p
      BY <1>1, <2>1, DeviceAssumption DEF IInv, LoginTypeOK
    <3> QED
      BY <1>1, <3>1 DEF Poll, StepTo, IInv, LoginTypeOK, Requests
  <2> QED
    BY <2>1, <2>2, NoWriteStep DEF IInv, LoginTypeOK
<1>2. CASE Expire
  <2>1. /\ loginFaults' = loginFaults + 1
        /\ UNCHANGED <<sessions, step, watching, seen, answer>>
        /\ \/ status' = "gone" /\ dirty' = watching
           \/ UNCHANGED <<status, dirty>>
    BY <1>2 DEF Expire, LoginFault, record
  <2>2. NoOrphanSession'
    BY <2>1 DEF NoOrphanSession, IInv, LoginTypeOK
  <2>3. Current' /\ HandedIsConsumed' /\ TokenIsHandedOnce'
    BY <2>1 DEF IInv, Current, HandedIsConsumed, TokenIsHandedOnce
  <2> QED
    BY <2>2, <2>3 DEF IInv, Typed
<1> QED
  BY <1>1, <1>2

\* A transaction that starts has read what is stored.
LEMMA WatchStep ==
    ASSUME IInv, Typed', NEW r \in Requests, Watch(r)
    PROVE  IInv'
<1>1. /\ step[r] \in Updates /\ r \notin watching
      /\ UNCHANGED <<status, token, sessions, loginFaults>>
  BY DEF Watch, record, NoLoginFault
<1>2. CASE Refused(r) /\ UNCHANGED <<watching, seen, dirty>>
  BY <1>1, <1>2, RefusedStep
<1>3. CASE /\ watching' = watching \cup {r}
           /\ seen' = [seen EXCEPT ![r] = [status |-> status, polled |-> polled]]
           /\ UNCHANGED <<dirty, step, answer>>
  <2>1. \A q \in watching' : q \notin dirty' => seen'[q].status = status
    BY <1>3 DEF IInv, LoginTypeOK, Current
  <2>2. loginFaults <= loginFaults'
    BY <1>1 DEF IInv, LoginTypeOK
  <2>3. Current' /\ HandedIsConsumed' /\ TokenIsHandedOnce' /\ NoOrphanSession'
    BY <1>1, <1>3, <2>1 DEF IInv, Current, HandedIsConsumed, TokenIsHandedOnce, NoOrphanSession
  <2> QED
    BY <2>3 DEF IInv, Typed
<1> QED
  BY <1>2, <1>3 DEF Watch

\* A transaction that is refused or tried again gives its WATCH up.
LEMMA RefuseStep ==
    ASSUME IInv, Typed', NEW r \in Requests, Refuse(r) \/ Retry(r)
    PROVE  IInv'
<1>1. /\ r \in watching /\ Unwatch(r)
      /\ UNCHANGED <<status, token, sessions, seen, loginFaults>>
  BY DEF Refuse, Retry, record, NoLoginFault
<1>2. step[r] \in Updates
  BY <1>1 DEF IInv, StepsOK
<1>3. CASE Refused(r)
  BY <1>1, <1>2, <1>3, RefusedStep
<1>4. CASE UNCHANGED <<step, answer>>
  <2>1. \A q \in watching' : q \notin dirty' => q \in watching \ dirty
    BY <1>1 DEF Unwatch
  <2>2. Current' /\ HandedIsConsumed' /\ TokenIsHandedOnce' /\ NoOrphanSession'
    BY <1>1, <1>4, <2>1 DEF IInv, Current, HandedIsConsumed, TokenIsHandedOnce, NoOrphanSession
  <2> QED
    BY <2>2 DEF IInv, Typed
<1> QED
  BY <1>3, <1>4 DEF Refuse, Retry

\* The invariant survives every step.
LEMMA NextStep == IInv /\ [LoginNext]_loginVars => IInv'
<1> SUFFICES ASSUME IInv, [LoginNext]_loginVars PROVE IInv'
  OBVIOUS
<1>1. Typed'
  BY TypeStep DEF IInv, Typed
<1>2. CASE UNCHANGED loginVars
  BY <1>1, <1>2 DEF loginVars, record, optimism, IInv, Typed, Current, HandedIsConsumed,
     TokenIsHandedOnce, NoOrphanSession
<1>3. ASSUME NEW r \in Requests,
             Watch(r) \/ Execute(r) \/ Refuse(r) \/ Retry(r) \/ UpdateRaises(r)
      PROVE  IInv'
  BY <1>1, <1>3, WatchStep, ExecuteStep, RefuseStep, RaiseStep
<1>4. ASSUME NEW t \in Tabs, Confirm(t) \/ Redirect(t) \/ Return(t) \/ Issue(t) \/ Revoke(t)
      PROVE  IInv'
  BY <1>1, <1>4, BrowserStep
<1>5. CASE (\E p \in Polls : Poll(p)) \/ Expire
  BY <1>1, <1>5, RestStep
<1> QED
  BY <1>2, <1>3, <1>4, <1>5 DEF LoginNext

-----------------------------------------------------------------------------
(* The theorems. *)

\* Every step of a tab, of a poll or of the callback keeps the invariant.
THEOREM Invariance == LoginSpec => []IInv
BY Initially, NextStep, PTL DEF LoginSpec

\* The record and the requests stay within their types; no request tries too often.
THEOREM TypeCorrect == LoginSpec => []LoginTypeOK
BY Invariance, PTL DEF IInv

\* At most one poll is answered with the token, for any number of overlapping polls.
THEOREM OneToken == LoginSpec => []TokenIsHandedOnce
BY Invariance, PTL DEF IInv

\* Without faults every live session is on its way to the client or to its revocation.
THEOREM SessionsAreHeld == LoginSpec => []NoOrphanSession
BY Invariance, PTL DEF IInv
=============================================================================
