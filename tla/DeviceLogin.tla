----------------------------- MODULE DeviceLogin -----------------------------
(***************************************************************************)
(* One device login (device_auth.py, auth_routes.py, auth.py): an SDK      *)
(* client polls while a browser, perhaps in several tabs, approves the     *)
(* login and comes back from HydroShare. They meet in one Redis record     *)
(* that every request reads, changes and writes as a whole, under WATCH,   *)
(* with a bounded number of retries.                                       *)
(***************************************************************************)
EXTENDS Naturals, FiniteSets

CONSTANTS
    Polls,          \* poll requests of the client
    Tabs,           \* browser tabs that confirm the login
    NoTab,          \* where no session token is stored
    MaxTries,       \* attempts of __update_device (5 in the code)
    LoginFaults,    \* the kinds of fault this instance admits
    MaxLoginFaults  \* bound on the number of faults in a behaviour

LoginFaultKinds == {
    "redisError",   \* a Redis request raises; a write may have been applied or not
    "lostResponse", \* a poll is answered, but the answer does not arrive
    "expiry"}       \* the record or an OAuth state reaches its time to live

ASSUME DeviceAssumption ==
    /\ Polls \cap Tabs = {}
    /\ NoTab \notin Tabs
    /\ MaxTries \in Nat \ {0}
    /\ LoginFaults \subseteq LoginFaultKinds
    /\ MaxLoginFaults \in Nat

VARIABLES
    status,     \* Redis: status of the record, "gone" once it expired
    token,      \* Redis: the tab whose session token the record holds
    polled,     \* Redis: a poll has set last_poll
    sessions,   \* Redis: the tabs whose session is alive
    oauth,      \* Redis: the tabs whose OAuth state is stored
    step,       \* what each request is doing
    watching,   \* requests between WATCH and EXEC
    seen,       \* the status and last_poll each of them read
    dirty,      \* those whose EXEC will fail
    tries,      \* failed EXECs of each request's call of __update_device
    answer,     \* what each poll told the client
    loginFaults \* number of faults so far

record  == <<status, token, polled>>
optimism == <<watching, seen, dirty, tries>>
loginVars == <<record, sessions, oauth, step, optimism, answer, loginFaults>>

Requests == Polls \cup Tabs
Statuses == {"pending", "authorizing", "authorized", "denied", "failed", "consumed"}

\* The steps that are a call of __update_device.
Updates == {"approve", "deny", "fail", "finish", "poll"}
Steps == Updates \cup {"idle", "redirect", "consent", "issue", "revoke", "done"}
Answers == {"none", "pending", "authorized", "denied", "failed", "error"}

LoginTypeOK ==
    /\ status \in Statuses \cup {"gone"}
    /\ token \in Tabs \cup {NoTab}
    /\ sessions \subseteq Tabs
    /\ oauth \subseteq Tabs
    /\ step \in [Requests -> Steps]
    /\ watching \subseteq Requests
    /\ polled \in BOOLEAN
    /\ seen \in [Requests -> [status : Statuses, polled : BOOLEAN]]
    /\ dirty \subseteq watching
    /\ tries \in [Requests -> 0..MaxTries]
    /\ answer \in [Polls -> Answers]
    /\ loginFaults \in 0..MaxLoginFaults

\* start_device_login has stored the record.
LoginInit ==
    /\ status = "pending"
    /\ token = NoTab
    /\ sessions = {}
    /\ oauth = {}
    /\ step = [r \in Requests |-> "idle"]
    /\ watching = {}
    /\ polled = FALSE
    /\ seen = [r \in Requests |-> [status |-> "pending", polled |-> FALSE]]
    /\ dirty = {}
    /\ tries = [r \in Requests |-> 0]
    /\ answer = [p \in Polls |-> "none"]
    /\ loginFaults = 0

LoginFault(f) ==
    /\ f \in LoginFaults
    /\ loginFaults < MaxLoginFaults
    /\ loginFaults' = loginFaults + 1

NoLoginFault == UNCHANGED loginFaults

StepTo(r, s) == step' = [step EXCEPT ![r] = s]

(***************************************************************************)
(* __update_device                                                         *)
(***************************************************************************)

\* Mutant of Unwatch: the flag of the transaction outlives it.
UnwatchKeepingFlag(r) ==
    /\ watching' = watching \ {r}
    /\ UNCHANGED dirty

\* The request has no more business with the record.
Unwatch(r) ==
    /\ watching' = watching \ {r}
    /\ dirty' = dirty \ {r}

\* Mutant of Refused: a session the record did not take is left alive.
RefusedKeepingSession(r) ==
    /\ StepTo(r, "done")
    /\ answer' = [p \in Polls |-> IF p = r THEN "error" ELSE answer[p]]

\* A request that is refused, or that gives up, answers with an HTTP error;
\* the callback that cannot deliver a session revokes it.
Refused(r) ==
    /\ StepTo(r, IF step[r] = "finish" THEN "revoke" ELSE "done")
    /\ answer' = [p \in Polls |-> IF p = r THEN "error" ELSE answer[p]]

Watch(r) ==
    /\ step[r] \in Updates
    /\ r \notin watching
    /\ \/ /\ status # "gone"
          /\ watching' = watching \cup {r}
          /\ seen' = [seen EXCEPT ![r] = [status |-> status, polled |-> polled]]
          /\ UNCHANGED <<dirty, step, answer>>
       \/ /\ status = "gone"
          /\ Refused(r)
          /\ UNCHANGED <<watching, seen, dirty>>
    /\ NoLoginFault
    /\ UNCHANGED <<record, sessions, oauth, tries>>

\* The update function of the request accepts the record it read.
Accepts(r) ==
    CASE step[r] = "approve" -> seen[r].status = "pending"
      [] step[r] \in {"deny", "fail", "finish"} -> seen[r].status = "authorizing"
      [] step[r] = "poll" -> seen[r].status # "consumed"

\* ... and what it makes of it.
Updated(r) ==
    CASE step[r] = "approve" -> "authorizing"
      [] step[r] = "deny" -> "denied"
      [] step[r] = "fail" -> "failed"
      [] step[r] = "finish" -> "authorized"
      [] step[r] = "poll" /\ seen[r].status \in {"authorized", "denied", "failed"} -> "consumed"
      [] OTHER -> seen[r].status

\* Mutant of Write: the record is written without a transaction.
WriteUnwatched(r) ==
    /\ status' = Updated(r)
    /\ token' = CASE step[r] = "finish" -> r
                  [] Updated(r) = "consumed" -> NoTab
                  [] OTHER -> token
    /\ polled' = (seen[r].polled \/ step[r] = "poll")
    /\ watching' = watching \ {r}
    /\ dirty' = dirty \ {r}

\* The whole record is written back, so every other watcher has to retry.
Write(r) ==
    /\ status' = Updated(r)
    /\ token' = CASE step[r] = "finish" -> r
                  [] Updated(r) = "consumed" -> NoTab
                  [] OTHER -> token
    /\ polled' = (seen[r].polled \/ step[r] = "poll")
    /\ watching' = watching \ {r}
    /\ dirty' = watching \ {r}

\* What the client hears from a poll that read a status.
Told(s) == IF s = "authorizing" THEN "pending" ELSE s

Execute(r) ==
    /\ r \in watching
    /\ Accepts(r)
    /\ r \notin dirty
    /\ \/ /\ Write(r)
          /\ StepTo(r, IF step[r] = "approve" THEN "redirect" ELSE "done")
          /\ answer' = [p \in Polls |-> IF p = r THEN Told(seen[r].status) ELSE answer[p]]
          /\ NoLoginFault
       \/ /\ r \in Polls
          /\ Write(r)
          /\ StepTo(r, "done")
          /\ answer' = [answer EXCEPT ![r] = "error"]
          /\ LoginFault("lostResponse")
    /\ tries' = [tries EXCEPT ![r] = 0]
    /\ UNCHANGED <<sessions, oauth, seen>>

\* The status forbids the update, or a poll comes too soon after the last one:
\* nothing is written.
Refuse(r) ==
    /\ r \in watching
    /\ \/ ~Accepts(r)
       \/ step[r] = "poll" /\ seen[r].polled
    /\ Unwatch(r)
    /\ Refused(r)
    /\ NoLoginFault
    /\ UNCHANGED <<record, sessions, oauth, seen, tries>>

\* WatchError
Retry(r) ==
    /\ r \in watching
    /\ Accepts(r)
    /\ r \in dirty
    /\ Unwatch(r)
    /\ tries' = [tries EXCEPT ![r] = @ + 1]
    /\ IF tries[r] + 1 = MaxTries THEN Refused(r) ELSE UNCHANGED <<step, answer>>
    /\ NoLoginFault
    /\ UNCHANGED <<record, sessions, oauth, seen>>

\* A Redis error is no HTTPException: the callback does not revoke its session.
UpdateRaises(r) ==
    /\ r \in watching
    /\ \/ Accepts(r) /\ r \notin dirty /\ Write(r)
       \/ Unwatch(r) /\ UNCHANGED record
    /\ StepTo(r, "done")
    /\ answer' = [p \in Polls |-> IF p = r THEN "error" ELSE answer[p]]
    /\ LoginFault("redisError")
    /\ UNCHANGED <<sessions, oauth, seen, tries>>

(***************************************************************************)
(* The browser: auth_routes.py                                             *)
(***************************************************************************)

\* POST /auth/device/verify
Confirm(t) ==
    /\ step[t] = "idle"
    /\ StepTo(t, "approve")
    /\ NoLoginFault
    /\ UNCHANGED <<record, sessions, oauth, optimism, answer>>

\* create_oauth_authorization_redirect; if it fails the record stays "authorizing".
Redirect(t) ==
    /\ step[t] = "redirect"
    /\ \/ /\ oauth' = oauth \cup {t}
          /\ StepTo(t, "consent")
          /\ NoLoginFault
       \/ /\ StepTo(t, "done")
          /\ LoginFault("redisError")
          /\ UNCHANGED oauth
    /\ UNCHANGED <<record, sessions, optimism, answer>>

\* GET /auth/callback with HydroShare's answer: the state is consumed first.
Return(t) ==
    /\ step[t] = "consent"
    /\ \/ /\ t \in oauth
          /\ \E next \in {"deny", "issue"} : StepTo(t, next)
       \/ /\ t \notin oauth
          /\ StepTo(t, "done")
    /\ oauth' = oauth \ {t}
    /\ NoLoginFault
    /\ UNCHANGED <<record, sessions, optimism, answer>>

\* issue_user_session_from_authorization_code: HydroShare may refuse the code.
Issue(t) ==
    /\ step[t] = "issue"
    /\ \/ /\ sessions' = sessions \cup {t}
          /\ StepTo(t, "finish")
          /\ NoLoginFault
       \/ /\ StepTo(t, "fail")
          /\ NoLoginFault
          /\ UNCHANGED sessions
       \/ /\ sessions' \in {sessions, sessions \cup {t}}
          /\ StepTo(t, "done")
          /\ LoginFault("redisError")
    /\ UNCHANGED <<record, oauth, optimism, answer>>

Revoke(t) ==
    /\ step[t] = "revoke"
    /\ \/ /\ sessions' = sessions \ {t}
          /\ NoLoginFault
       \/ /\ LoginFault("redisError")
          /\ UNCHANGED sessions
    /\ StepTo(t, "done")
    /\ UNCHANGED <<record, oauth, optimism, answer>>

(***************************************************************************)
(* The client: fimbox_login.py polls, one request after the other or, when *)
(* an application waits in two threads, at once.                           *)
(***************************************************************************)
Poll(p) ==
    /\ step[p] = "idle"
    /\ StepTo(p, "poll")
    /\ NoLoginFault
    /\ UNCHANGED <<record, sessions, oauth, optimism, answer>>

Expire ==
    /\ \/ /\ status # "gone"
          /\ status' = "gone"
          /\ token' = NoTab
          /\ dirty' = watching
          /\ UNCHANGED <<polled, oauth>>
       \/ /\ oauth # {}
          /\ oauth' = {}
          /\ UNCHANGED <<record, dirty>>
    /\ LoginFault("expiry")
    /\ UNCHANGED <<sessions, step, watching, seen, tries, answer>>

LoginNext ==
    \/ \E r \in Requests : Watch(r) \/ Execute(r) \/ Refuse(r) \/ Retry(r) \/ UpdateRaises(r)
    \/ \E t \in Tabs : Confirm(t) \/ Redirect(t) \/ Return(t) \/ Issue(t) \/ Revoke(t)
    \/ \E p \in Polls : Poll(p)
    \/ Expire

LoginSpec == LoginInit /\ [][LoginNext]_loginVars

(***************************************************************************)
(* Properties                                                              *)
(***************************************************************************)

\* The session token is handed out once, however many polls overlap
\* (poll_device_login consumes the record).
TokenIsHandedOnce ==
    \A p, q \in Polls : answer[p] = "authorized" /\ answer[q] = "authorized" => p = q

\* Without faults no session stays alive that nobody can get hold of: it is in
\* the record, or the client was given it, or the callback will revoke it. (A
\* Redis error or an expiry between two steps does leave one.)
NoOrphanSession ==
    loginFaults = 0 =>
        \A t \in sessions :
            \/ step[t] \in {"finish", "revoke"}
            \/ status = "authorized" /\ token = t
            \/ \E p \in Polls : answer[p] = "authorized"
=============================================================================
