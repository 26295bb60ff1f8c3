---------------------------- MODULE S21Accounts -----------------------------
(***************************************************************************)
(* The stored S21 credentials of users: /login and /logout, the daily      *)
(* probe of the cron function, the use of any healthy account for calls to *)
(* the identity service, and the cold-start migration of legacy rows.      *)
(*                                                                         *)
(* Rows are read and written whole, and everything but /logout reads them  *)
(* before a call to S21 and writes them after it.                          *)
(*                                                                         *)
(* A password is the number of times its owner has changed it.  The rules  *)
(* of the shared s21account package are modelled from how this code uses   *)
(* it.  Direct messages, campus and login names are dropped.               *)
(***************************************************************************)
EXTENDS Integers

CONSTANTS
    Users,
    Workers,       \* concurrent invocations
    Deadline,      \* days of rejected credentials until auto-logout
    MaxRotations,  \* bound: how often a user changes the S21 password
    None           \* no row, no job

VARIABLES
    legacy,    \* who has a row in the legacy admins table, which nobody writes
    accounts,  \* the rows of s21_accounts
    password,  \* S21: the password in force
    prompted,  \* who has been sent the /logout prompt
    job,       \* what each worker is doing
    out,       \* history: the last thing a user was told is "Logged out"
    stale      \* history: the users whose rows changed since each worker read them

vars == <<legacy, accounts, password, prompted, job, out, stale>>

Passwords == 0..MaxRotations

\* S21CredsFailedAt, as days since.
Healthy == -1

Rows == [cred : Passwords, failing : {Healthy} \cup 0..Deadline]

\* Copies of some users' rows.
Copies == UNION {[U -> Rows] : U \in SUBSET Users}

\* "todo": the rows still to be dealt with; "user": whose turn it is.
Jobs == [at : {"next", "auth", "valid", "invalid", "put"},
         kind : {"login", "probe", "pick", "migrate"},
         user : Users \cup {None}, todo : Copies]

ASSUME S21AccountsAssumption ==
    /\ Deadline \in Nat \ {0}
    /\ MaxRotations \in Nat
    /\ None \notin Users \cup Workers \cup Rows \cup Jobs

TypeOK ==
    /\ legacy \subseteq Users
    /\ accounts \in [Users -> Rows \cup {None}]
    /\ password \in [Users -> Passwords]
    /\ prompted \in [Users -> BOOLEAN]
    /\ job \in [Workers -> Jobs \cup {None}]
    /\ out \in [Users -> BOOLEAN]
    /\ stale \in [Workers -> SUBSET Users]

Init ==
    /\ legacy \in SUBSET Users
    /\ accounts = [u \in Users |-> None]
    /\ password = [u \in Users |-> 0]
    /\ prompted = [u \in Users |-> FALSE]
    /\ job = [w \in Workers |-> None]
    /\ out = [u \in Users |-> FALSE]
    /\ stale = [w \in Workers |-> {}]

-----------------------------------------------------------------------------
(* The store *)

LoggedIn == {u \in Users : accounts[u] # None}

\* List.
AllRows == [u \in LoggedIn |-> accounts[u]]

\* Mutation: a new row has failed since the zero time.
FreshOverdue(cred) == [cred |-> cred, failing |-> Deadline + 1]

Fresh(cred) == [cred |-> cred, failing |-> Healthy]

Working(u, row) == row.cred = password[u]

\* A job is going to write the user's row from what it has read: a copy of the
\* row, the reply to /login, or a legacy row of a user found without a row.
Holds(v, u) ==
    /\ job[v] # None
    /\ u \in DOMAIN job[v].todo
    /\ job[v].kind = "migrate" => job[v].at = "put" /\ job[v].user = u

\* Upsert or Delete by worker w.
Write(w, u, row) ==
    /\ accounts' = [accounts EXCEPT ![u] = row]
    /\ stale' = [v \in Workers |->
                    IF v # w /\ Holds(v, u) THEN stale[v] \cup {u} ELSE stale[v]]

-----------------------------------------------------------------------------
(* Jobs *)

Is(w, kind, at) == job[w] # None /\ job[w].kind = kind /\ job[w].at = at

Start(w, kind, user, at, todo) ==
    /\ job[w] = None
    /\ job' = [job EXCEPT ![w] = [at |-> at, kind |-> kind, user |-> user, todo |-> todo]]
    /\ stale' = [stale EXCEPT ![w] = {}]

\* The row of the user whose turn it is, and the next step of the loop.
Copy(w) == job[w].todo[job[w].user]

Rest(w) ==
    [job EXCEPT ![w].at = "next", ![w].user = None,
                ![w].todo = [u \in DOMAIN @ \ {job[w].user} |-> @[u]]]

\* The verdict of S21 on the copy's credentials.
Authenticate(w) ==
    /\ job[w] # None
    /\ job[w].at = "auth"
    /\ job' = [job EXCEPT ![w].at = IF Working(job[w].user, Copy(w)) THEN "valid" ELSE "invalid"]
    /\ UNCHANGED <<legacy, accounts, password, prompted, out, stale>>

\* S21 or the identity service cannot be reached.  The probe goes on with the
\* next row, the others give up.
Unreachable(w) ==
    /\ job[w] # None
    /\ job[w].at = "auth"
    /\ job' = IF job[w].kind = "probe" THEN Rest(w) ELSE [job EXCEPT ![w] = None]
    /\ UNCHANGED <<legacy, accounts, password, prompted, out, stale>>

\* The loop of a job is over.
Done(w) ==
    /\ job[w] # None
    /\ job[w].at = "next"
    /\ \/ DOMAIN job[w].todo = {}
       \/ job[w].kind = "pick" /\ \A u \in DOMAIN job[w].todo : job[w].todo[u].failing # Healthy
    /\ job' = [job EXCEPT ![w] = None]
    /\ UNCHANGED <<legacy, accounts, password, prompted, out, stale>>

-----------------------------------------------------------------------------
(* /login and /logout *)

\* The user replies to the /login prompt with a password, right or out of date.
LoginReply(w, u, cred) ==
    /\ cred <= password[u]
    /\ Start(w, "login", u, "auth", [v \in {u} |-> Fresh(cred)])
    /\ UNCHANGED <<legacy, accounts, password, prompted, out>>

LoginStore(w) ==
    /\ Is(w, "login", "valid")
    /\ Write(w, job[w].user, Copy(w))
    /\ out' = [out EXCEPT ![job[w].user] = FALSE]
    /\ job' = [job EXCEPT ![w] = None]
    /\ UNCHANGED <<legacy, password, prompted>>

LoginRejected(w) ==
    /\ Is(w, "login", "invalid")
    /\ job' = [job EXCEPT ![w] = None]
    /\ UNCHANGED <<legacy, accounts, password, prompted, out, stale>>

Logout(u) ==
    /\ u \in LoggedIn
    /\ prompted' = [prompted EXCEPT ![u] = TRUE]
    /\ UNCHANGED <<legacy, accounts, password, job, out, stale>>

\* "confirm", to a prompt of any age.
LogoutReply(u) ==
    /\ prompted[u]
    /\ Write(None, u, None)
    /\ out' = [out EXCEPT ![u] = TRUE]
    /\ UNCHANGED <<legacy, password, prompted, job>>

-----------------------------------------------------------------------------
(* The daily probe *)

ProbeAllAccounts(w) ==
    /\ Start(w, "probe", None, "next", AllRows)
    /\ UNCHANGED <<legacy, accounts, password, prompted, out>>

\* probeOne, until the answer of S21.
ProbeOne(w, u) ==
    /\ Is(w, "probe", "next")
    /\ u \in DOMAIN job[w].todo
    /\ job' = [job EXCEPT ![w].at = "auth", ![w].user = u]
    /\ UNCHANGED <<legacy, accounts, password, prompted, out, stale>>

\* ApplyAuthResult: accepted credentials clear the mark.
ProbeAccepted(w) ==
    /\ Is(w, "probe", "valid")
    /\ IF Copy(w).failing # Healthy
       THEN Write(w, job[w].user, Fresh(Copy(w).cred))
       ELSE UNCHANGED <<accounts, stale>>
    /\ job' = Rest(w)
    /\ UNCHANGED <<legacy, password, prompted, out>>

\* Mutation: every rejection starts the days anew.
MarkAnew(row) == [row EXCEPT !.failing = 0]

\* ApplyAuthResult: the first rejection sets the mark, later ones keep it (and
\* note the warnings sent).
Mark(row) == IF row.failing = Healthy THEN [row EXCEPT !.failing = 0] ELSE row

\* Mutation: the first rejection logs the user out.
LogoutDueAtOnce(row) == TRUE

LogoutDue(row) == row.failing = Deadline

ProbeRejected(w) ==
    /\ Is(w, "probe", "invalid")
    /\ Write(w, job[w].user, IF LogoutDue(Copy(w)) THEN None ELSE Mark(Copy(w)))
    /\ job' = Rest(w)
    /\ UNCHANGED <<legacy, password, prompted, out>>

-----------------------------------------------------------------------------
(* withIdentity *)

PickHealthy(w) ==
    /\ Start(w, "pick", None, "next", AllRows)
    /\ UNCHANGED <<legacy, accounts, password, prompted, out>>

\* A row that is not marked is tried.
PickTry(w, u) ==
    /\ Is(w, "pick", "next")
    /\ u \in DOMAIN job[w].todo
    /\ job[w].todo[u].failing = Healthy
    /\ job' = [job EXCEPT ![w].at = "auth", ![w].user = u]
    /\ UNCHANGED <<legacy, accounts, password, prompted, out, stale>>

\* The identity service answers: the call is served.
PickServed(w) ==
    /\ Is(w, "pick", "valid")
    /\ job' = [job EXCEPT ![w] = None]
    /\ UNCHANGED <<legacy, accounts, password, prompted, out, stale>>

\* ErrInvalidS21Token: the row is marked, and the next one tried.
PickMarksBad(w) ==
    /\ Is(w, "pick", "invalid")
    /\ Write(w, job[w].user, Mark(Copy(w)))
    /\ job' = Rest(w)
    /\ UNCHANGED <<legacy, password, prompted, out>>

-----------------------------------------------------------------------------
(* MigrateAdminsToS21Accounts *)

\* The legacy rows hold the users' first passwords.
Migrate(w) ==
    /\ Start(w, "migrate", None, "next", [u \in legacy |-> Fresh(0)])
    /\ UNCHANGED <<legacy, accounts, password, prompted, out>>

\* Mutation: rows already mirrored are copied again.
MigrateGetAll(w, u) ==
    /\ Is(w, "migrate", "next")
    /\ u \in DOMAIN job[w].todo
    /\ job' = [job EXCEPT ![w].at = "put", ![w].user = u]
    /\ UNCHANGED <<legacy, accounts, password, prompted, out, stale>>

\* Rows already mirrored are skipped.
MigrateGet(w, u) ==
    /\ Is(w, "migrate", "next")
    /\ u \in DOMAIN job[w].todo
    /\ job' = IF u \in LoggedIn
              THEN [job EXCEPT ![w].todo = [v \in DOMAIN @ \ {u} |-> @[v]]]
              ELSE [job EXCEPT ![w].at = "put", ![w].user = u]
    /\ UNCHANGED <<legacy, accounts, password, prompted, out, stale>>

MigrateUpsert(w) ==
    /\ Is(w, "migrate", "put")
    /\ Write(w, job[w].user, Copy(w))
    /\ job' = Rest(w)
    /\ UNCHANGED <<legacy, password, prompted, out>>

-----------------------------------------------------------------------------
(* Environment *)

\* A user changes the S21 password.
Rotate(u) ==
    /\ password[u] < MaxRotations
    /\ password' = [password EXCEPT ![u] = @ + 1]
    /\ UNCHANGED <<legacy, accounts, prompted, job, out, stale>>

\* An invocation ends early: its container is recycled, or a store call fails.
Crash(w) ==
    /\ job[w] # None
    /\ job' = [job EXCEPT ![w] = None]
    /\ UNCHANGED <<legacy, accounts, password, prompted, out, stale>>

\* A day passes: every mark, in a row or in a copy of it, is a day older.
Older(row) ==
    IF row # None /\ row.failing \in 0..Deadline - 1 THEN [row EXCEPT !.failing = @ + 1] ELSE row

Tick ==
    /\ accounts' = [u \in Users |-> Older(accounts[u])]
    /\ job' = [w \in Workers |->
                 IF job[w] = None THEN None
                 ELSE [job[w] EXCEPT !.todo = [u \in DOMAIN @ |-> Older(@[u])]]]
    /\ UNCHANGED <<legacy, password, prompted, out, stale>>

Step(w) ==
    \/ Authenticate(w) \/ Unreachable(w) \/ Done(w) \/ LoginStore(w) \/ LoginRejected(w)
    \/ ProbeAccepted(w) \/ ProbeRejected(w) \/ PickServed(w) \/ PickMarksBad(w)
    \/ MigrateUpsert(w)
    \/ \E u \in Users : ProbeOne(w, u) \/ PickTry(w, u) \/ MigrateGet(w, u)

Next ==
    \/ \E w \in Workers :
          \/ Step(w) \/ Crash(w)
          \/ ProbeAllAccounts(w) \/ PickHealthy(w) \/ Migrate(w)
          \/ \E u \in Users, cred \in Passwords : LoginReply(w, u, cred)
    \/ \E u \in Users : Logout(u) \/ LogoutReply(u) \/ Rotate(u)
    \/ Tick

Spec == Init /\ [][Next]_vars

\* Invocations run on; days pass and the cron function is started every day,
\* whatever else is served; and not every probe crashes or finds S21 down.
Fairness ==
    /\ SF_vars(Tick)
    /\ \A w \in Workers :
          /\ WF_vars(Step(w))
          /\ SF_vars(ProbeAllAccounts(w))
          /\ \A u \in Users : SF_vars(ProbeOne(w, u))
          /\ SF_vars(Is(w, "probe", "auth") /\ Authenticate(w))
          /\ SF_vars(ProbeRejected(w))

FairSpec == Spec /\ Fairness

-----------------------------------------------------------------------------
(* Properties *)

\* After "Your stored S21 credentials have been removed" no row comes back
\* before the next /login (handleLogoutReply).
LogoutSticks == \A u \in Users : out[u] => accounts[u] = None

\* A job only removes credentials that have been marked for Deadline days and
\* that S21 still rejects, unless somebody else wrote the row since that job
\* read it (probeOne deletes by the row it listed before the call to S21).
AutoLogoutJust ==
    [][\A w \in Workers, u \in LoggedIn :
          job'[w] # job[w] /\ u \notin stale[w] /\ accounts'[u] = None
          => accounts[u].failing = Deadline /\ ~Working(u, accounts[u])]_vars

\* A job never replaces a stored password by an older one, whatever rotates,
\* crashes or is migrated meanwhile, unless somebody else wrote the row since
\* that job read it: logins, marks and the copying of legacy rows all write the
\* password with the row.
CredsNeverGoBack ==
    [][\A w \in Workers, u \in LoggedIn :
          job'[w] # job[w] /\ u \notin stale[w] /\ accounts'[u] # None
          => accounts'[u].cred >= accounts[u].cred]_vars

\* Credentials that S21 rejects do not stay for ever, although calls, migrations
\* and logins write the same rows (probeAllAccounts and its 7-day deadline).
InvalidCredsLeave ==
    \A u \in Users : []<>(accounts[u] = None \/ Working(u, accounts[u]))

=============================================================================
