------------------------- MODULE S21AccountsProofs --------------------------
(***************************************************************************)
(* Proofs about the stored S21 credentials, for any number of users and    *)
(* of concurrent invocations.                                              *)
(***************************************************************************)
EXTENDS S21Accounts, TLAPS

-----------------------------------------------------------------------------
(* The inductive invariant *)

\* A job whose turn has come holds the row of its user.  No password is newer
\* than the one in force, and what S21 has rejected is older: a password that
\* was given up never comes back.
JobOK(w) ==
    /\ job[w].at # "next" => job[w].user \in DOMAIN job[w].todo
    /\ \A u \in DOMAIN job[w].todo : job[w].todo[u].cred <= password[u]
    /\ job[w].at = "invalid" => Copy(w).cred < password[job[w].user]

RowsOK == \A u \in Users : accounts[u] # None => accounts[u].cred <= password[u]

\* What a job relies on when it writes, except for the users in s, whose rows
\* were written since: a listed row is still the one it read, a password that
\* S21 accepted at /login is not older than the stored one, and a user about to
\* be migrated still has no row.
HeldOK(j, s, acc) ==
    /\ j.kind \in {"probe", "pick"} => \A u \in DOMAIN j.todo : u \notin s => acc[u] = j.todo[u]
    /\ j.kind = "login" /\ j.at = "valid" /\ j.user \notin s /\ acc[j.user] # None
          => acc[j.user].cred <= j.todo[j.user].cred
    /\ j.kind = "migrate" /\ j.at = "put" /\ j.user \notin s => acc[j.user] = None

AccountsInv ==
    /\ TypeOK
    /\ \A w \in Workers : job[w] # None => JobOK(w)
    /\ RowsOK
    /\ \A w \in Workers : job[w] # None => HeldOK(job[w], stale[w], accounts)

-----------------------------------------------------------------------------
(* Rows and copies *)

LEMMA CopiesType ==
    /\ \A f \in Copies : DOMAIN f \subseteq Users /\ f \in [DOMAIN f -> Rows]
    /\ \A U \in SUBSET Users : \A f \in [U -> Rows] : f \in Copies
BY DEF Copies

LEMMA FreshType ==
    ASSUME NEW cred \in Passwords
    PROVE  Fresh(cred) \in Rows /\ Fresh(cred).cred = cred
BY DEF Fresh, Rows

LEMMA MarkType ==
    ASSUME NEW row \in Rows
    PROVE  Mark(row) \in Rows /\ Mark(row).cred = row.cred
BY S21AccountsAssumption DEF Mark, Rows, Healthy

\* A day changes the age of a mark and nothing else.
LEMMA OlderType ==
    /\ Older(None) = None
    /\ \A row \in Rows : Older(row) \in Rows /\ Older(row).cred = row.cred
BY S21AccountsAssumption DEF Older, Rows, Healthy

LEMMA RowNotNone == None \notin Rows /\ None \notin Jobs /\ None \notin Workers
BY S21AccountsAssumption

LEMMA JobFacts ==
    ASSUME AccountsInv, NEW w \in Workers, job[w] # None
    PROVE  /\ job[w] \in Jobs /\ JobOK(w)
           /\ DOMAIN job[w].todo \subseteq Users
           /\ \A u \in DOMAIN job[w].todo : job[w].todo[u] \in Rows
<1>1. job[w] \in Jobs /\ JobOK(w)
  BY DEF AccountsInv, TypeOK
<1>2. job[w].todo \in Copies
  BY <1>1 DEF Jobs
<1> QED
  BY <1>1, <1>2, CopiesType

LEMMA TurnFacts ==
    ASSUME AccountsInv, NEW w \in Workers, job[w] # None, job[w].at # "next"
    PROVE  /\ job[w].user \in Users /\ job[w].user \in DOMAIN job[w].todo
           /\ Copy(w) \in Rows /\ Copy(w).cred <= password[job[w].user]
BY JobFacts DEF JobOK, Copy

-----------------------------------------------------------------------------
(* Jobs that read on *)

\* A job goes on with some of the rows it has, or ends.
Shrinks(w) ==
    /\ \A v \in Workers : v # w => job'[v] = job[v]
    /\ job' \in [Workers -> Jobs \cup {None}]
    /\ job'[w] # None =>
          /\ job[w] # None
          /\ job'[w].kind = job[w].kind
          /\ DOMAIN job'[w].todo \subseteq DOMAIN job[w].todo
          /\ \A u \in DOMAIN job'[w].todo : job'[w].todo[u] = job[w].todo[u]
          /\ job'[w].at # "next" => job'[w].user \in DOMAIN job'[w].todo
          /\ job'[w].at = "invalid" => Copy(w)'.cred < password[job'[w].user]

LEMMA ShrunkJobs ==
    ASSUME AccountsInv, NEW w \in Workers, Shrinks(w), UNCHANGED <<legacy, password>>
    PROVE  \A v \in Workers : job'[v] # None => JobOK(v)'
<1> SUFFICES ASSUME NEW v \in Workers, job'[v] # None
             PROVE  JobOK(v)'
  OBVIOUS
<1>1. CASE v # w
  BY <1>1 DEF Shrinks, AccountsInv, JobOK, Copy
<1>2. CASE v = w
  <2>1. job[w] # None /\ JobOK(w)
    BY <1>2, JobFacts DEF Shrinks
  <2> QED
    BY <1>2, <2>1 DEF Shrinks, JobOK
<1> QED
  BY <1>1, <1>2

\* The rows stay as they are.
LEMMA ShrunkInv ==
    ASSUME AccountsInv, NEW w \in Workers, Shrinks(w),
           job'[w] # None => HeldOK(job'[w], stale[w], accounts),
           UNCHANGED <<legacy, accounts, password, prompted, out, stale>>
    PROVE  AccountsInv'
<1>1. TypeOK'
  BY DEF AccountsInv, TypeOK, Shrinks
<1>2. ASSUME NEW v \in Workers, job'[v] # None
      PROVE  HeldOK(job'[v], stale[v], accounts)
  BY <1>2 DEF AccountsInv, Shrinks
<1>3. \A v \in Workers : job'[v] # None => HeldOK(job[v], stale[v], accounts)'
  BY <1>2 DEF HeldOK
<1>4. RowsOK'
  BY DEF AccountsInv, RowsOK
<1> QED
  BY <1>1, <1>3, <1>4, ShrunkJobs DEF AccountsInv

\* A job that is not about to store a login or a migrated row.
LEMMA ShrunkHeld ==
    ASSUME AccountsInv, NEW w \in Workers, Shrinks(w),
           job'[w] # None => /\ job'[w].kind = "login" => job'[w].at # "valid"
                             /\ job'[w].at # "put"
    PROVE  job'[w] # None => HeldOK(job'[w], stale[w], accounts)
BY DEF AccountsInv, Shrinks, HeldOK

LEMMA EndShrinks ==
    ASSUME AccountsInv, NEW w \in Workers, job' = [job EXCEPT ![w] = None]
    PROVE  Shrinks(w) /\ job'[w] = None
BY DEF AccountsInv, TypeOK, Shrinks

LEMMA RestShrinks ==
    ASSUME AccountsInv, NEW w \in Workers, job[w] # None, job' = Rest(w)
    PROVE  /\ Shrinks(w) /\ job'[w] # None
           /\ job'[w].at = "next" /\ job[w].user \notin DOMAIN job'[w].todo
<1>1. PICK j \in Jobs : j = job[w]
  BY JobFacts
<1> DEFINE left == [u \in DOMAIN j.todo \ {j.user} |-> j.todo[u]]
<1>2. left \in Copies
  BY <1>1, JobFacts, CopiesType
<1>3. job' = [job EXCEPT ![w] = [j EXCEPT !.at = "next", !.user = None, !.todo = left]]
  BY <1>1 DEF Rest, AccountsInv, TypeOK
<1>4. DOMAIN left = DOMAIN j.todo \ {j.user} /\ \A u \in DOMAIN left : left[u] = j.todo[u]
  OBVIOUS
<1> HIDE DEF left
<1>5. [j EXCEPT !.at = "next", !.user = None, !.todo = left] \in Jobs
  BY <1>2 DEF Jobs
<1>6. /\ job'[w] = [j EXCEPT !.at = "next", !.user = None, !.todo = left]
      /\ \A v \in Workers : v # w => job'[v] = job[v]
      /\ job' \in [Workers -> Jobs \cup {None}]
  BY <1>3, <1>5 DEF AccountsInv, TypeOK
<1>7. job'[w].at = "next" /\ job'[w].kind = j.kind /\ job'[w].todo = left
  BY <1>6 DEF Jobs
<1> QED
  BY <1>1, <1>4, <1>5, <1>6, <1>7, RowNotNone DEF Shrinks

\* The job takes another step with the rows it has.
LEMMA TurnShrinks ==
    ASSUME AccountsInv, NEW w \in Workers, job[w] # None,
           NEW at \in {"auth", "valid", "invalid", "put"}, NEW u \in DOMAIN job[w].todo,
           job' = [job EXCEPT ![w].at = at, ![w].user = u],
           at = "invalid" => job[w].todo[u].cred < password[u]
    PROVE  /\ Shrinks(w) /\ job'[w].kind = job[w].kind /\ job'[w].at = at
           /\ job'[w].user = u /\ job'[w].todo = job[w].todo
<1>1. PICK j \in Jobs : j = job[w]
  BY JobFacts
<1>2. u \in Users
  BY JobFacts
<1>3. job' = [job EXCEPT ![w] = [j EXCEPT !.at = at, !.user = u]]
  BY <1>1 DEF AccountsInv, TypeOK
<1>4. [j EXCEPT !.at = at, !.user = u] \in Jobs
  BY <1>2 DEF Jobs
<1>5. /\ job'[w] = [j EXCEPT !.at = at, !.user = u]
      /\ \A v \in Workers : v # w => job'[v] = job[v]
      /\ job' \in [Workers -> Jobs \cup {None}]
  BY <1>3, <1>4 DEF AccountsInv, TypeOK
<1>6. job'[w].at = at /\ job'[w].user = u /\ job'[w].kind = j.kind /\ job'[w].todo = j.todo
  BY <1>5 DEF Jobs
<1> QED
  BY <1>1, <1>5, <1>6 DEF Shrinks, Copy

LEMMA AuthenticateShrinks ==
    ASSUME AccountsInv, NEW w \in Workers, Authenticate(w)
    PROVE  Shrinks(w) /\ HeldOK(job'[w], stale[w], accounts)
<1>1. job[w] # None /\ job[w].at = "auth" /\ job[w] \in Jobs
  BY JobFacts DEF Authenticate
<1>2. PICK u \in DOMAIN job[w].todo : u = job[w].user
  BY <1>1, TurnFacts
<1>3. u \in Users /\ job[w].todo[u] \in Rows /\ job[w].todo[u].cred <= password[u]
  BY <1>1, <1>2, TurnFacts DEF Copy
<1>4. PICK at \in {"valid", "invalid"} :
          /\ job' = [job EXCEPT ![w].at = at]
          /\ at = "invalid" => job[w].todo[u].cred # password[u]
          /\ at = "valid" => job[w].todo[u].cred = password[u]
  <2>1. CASE Working(job[w].user, Copy(w))
    <3>1. job' = [job EXCEPT ![w].at = "valid"]
      BY <2>1 DEF Authenticate
    <3> QED
      BY <1>2, <2>1, <3>1 DEF Working, Copy
  <2>2. CASE ~Working(job[w].user, Copy(w))
    <3>1. job' = [job EXCEPT ![w].at = "invalid"]
      BY <2>2 DEF Authenticate
    <3> QED
      BY <1>2, <2>2, <3>1 DEF Working, Copy
  <2> QED
    BY <2>1, <2>2
<1>5. [job EXCEPT ![w].at = at] = [job EXCEPT ![w].at = at, ![w].user = u]
  <2>1. [job[w] EXCEPT !.at = at] = [job[w] EXCEPT !.at = at, !.user = u]
    BY <1>1, <1>2 DEF Jobs
  <2> QED
    BY <2>1 DEF AccountsInv, TypeOK
<1>6. job[w].todo[u].cred \in Int /\ password[u] \in Int
  BY <1>3, S21AccountsAssumption DEF Rows, Passwords, AccountsInv, TypeOK
<1>7. at = "invalid" => job[w].todo[u].cred < password[u]
  BY <1>3, <1>4, <1>6
<1>8. at \in {"auth", "valid", "invalid", "put"}
  OBVIOUS
<1>9. job' = [job EXCEPT ![w].at = at, ![w].user = u]
  BY <1>4, <1>5
<1>10. /\ Shrinks(w) /\ job'[w].kind = job[w].kind /\ job'[w].at = at
       /\ job'[w].user = u /\ job'[w].todo = job[w].todo
  BY <1>1, <1>7, <1>8, <1>9, TurnShrinks
<1>11. accounts[u] # None => accounts[u].cred <= password[u]
  BY <1>3 DEF AccountsInv, RowsOK
<1>12. HeldOK(job[w], stale[w], accounts)
  BY <1>1 DEF AccountsInv
<1>13. HeldOK(job'[w], stale[w], accounts)
  BY <1>4, <1>10, <1>11, <1>12 DEF HeldOK
<1> QED
  BY <1>10, <1>13

LEMMA MigrateGetShrinks ==
    ASSUME AccountsInv, NEW w \in Workers, NEW u \in Users, MigrateGet(w, u)
    PROVE  Shrinks(w) /\ (job'[w] # None => HeldOK(job'[w], stale[w], accounts))
<1>1. job[w] # None /\ job[w].at = "next" /\ u \in DOMAIN job[w].todo
  BY DEF MigrateGet, Is
<1>2. CASE u \in LoggedIn
  <2>1. PICK j \in Jobs : j = job[w]
    BY <1>1, JobFacts
  <2> DEFINE left == [v \in DOMAIN j.todo \ {u} |-> j.todo[v]]
  <2>2. left \in Copies
    BY <1>1, <2>1, JobFacts, CopiesType
  <2>3. job' = [job EXCEPT ![w] = [j EXCEPT !.todo = left]]
    BY <1>2, <2>1 DEF MigrateGet, AccountsInv, TypeOK
  <2>4. DOMAIN left \subseteq DOMAIN j.todo /\ \A v \in DOMAIN left : left[v] = j.todo[v]
    OBVIOUS
  <2> HIDE DEF left
  <2>5. [j EXCEPT !.todo = left] \in Jobs
    BY <2>2 DEF Jobs
  <2>6. /\ job'[w] = [j EXCEPT !.todo = left]
        /\ \A v \in Workers : v # w => job'[v] = job[v]
        /\ job' \in [Workers -> Jobs \cup {None}]
    BY <2>3, <2>5 DEF AccountsInv, TypeOK
  <2>7. job'[w].at = j.at /\ job'[w].kind = j.kind /\ job'[w].todo = left
    BY <2>6 DEF Jobs
  <2>8. Shrinks(w)
    BY <1>1, <2>1, <2>4, <2>6, <2>7 DEF Shrinks
  <2> QED
    BY <1>1, <2>1, <2>7, <2>8, ShrunkHeld
<1>3. CASE u \notin LoggedIn
  <2>1. job' = [job EXCEPT ![w].at = "put", ![w].user = u]
    BY <1>3 DEF MigrateGet
  <2>2. /\ Shrinks(w) /\ job'[w].kind = "migrate" /\ job'[w].at = "put"
        /\ job'[w].user = u
    BY <1>1, <2>1, TurnShrinks DEF MigrateGet, Is
  <2>3. accounts[u] = None
    BY <1>3 DEF LoggedIn
  <2> QED
    BY <2>2, <2>3 DEF HeldOK
<1> QED
  BY <1>2, <1>3

LEMMA ReadingInv ==
    ASSUME AccountsInv, NEW w \in Workers,
           \/ Authenticate(w) \/ Unreachable(w) \/ Done(w) \/ LoginRejected(w) \/ PickServed(w)
           \/ Crash(w)
           \/ \E u \in Users : ProbeOne(w, u) \/ PickTry(w, u) \/ MigrateGet(w, u)
    PROVE  AccountsInv'
<1>1. UNCHANGED <<legacy, accounts, password, prompted, out, stale>>
  BY DEF Authenticate, Unreachable, Done, LoginRejected, PickServed, Crash, ProbeOne, PickTry,
         MigrateGet
<1>2. CASE Done(w) \/ LoginRejected(w) \/ PickServed(w) \/ Crash(w)
  BY <1>1, <1>2, EndShrinks, ShrunkInv DEF Done, LoginRejected, PickServed, Crash
<1>3. CASE Unreachable(w)
  <2>1. Shrinks(w) /\ (job'[w] # None => job'[w].at = "next")
    BY <1>3, EndShrinks, RestShrinks DEF Unreachable
  <2> QED
    BY <1>1, <2>1, ShrunkHeld, ShrunkInv
<1>4. CASE Authenticate(w)
  BY <1>1, <1>4, AuthenticateShrinks, ShrunkInv
<1>5. ASSUME NEW u \in Users, ProbeOne(w, u) \/ PickTry(w, u)
      PROVE  AccountsInv'
  <2>1. /\ job[w] # None /\ u \in DOMAIN job[w].todo
        /\ job' = [job EXCEPT ![w].at = "auth", ![w].user = u]
    BY <1>5 DEF ProbeOne, PickTry, Is
  <2>2. Shrinks(w) /\ job'[w].at = "auth"
    BY <2>1, TurnShrinks
  <2> QED
    BY <1>1, <2>2, ShrunkHeld, ShrunkInv
<1>6. ASSUME NEW u \in Users, MigrateGet(w, u)
      PROVE  AccountsInv'
  BY <1>1, <1>6, MigrateGetShrinks, ShrunkInv
<1> QED
  BY <1>2, <1>3, <1>4, <1>5, <1>6

-----------------------------------------------------------------------------
(* Jobs that write *)

\* The rows and the history after a write.
LEMMA WriteFacts ==
    ASSUME TypeOK, NEW w, NEW u \in Users, NEW row \in Rows \cup {None}, Write(w, u, row)
    PROVE  /\ accounts' \in [Users -> Rows \cup {None}] /\ accounts'[u] = row
           /\ \A x \in Users : x # u => accounts'[x] = accounts[x]
           /\ stale' \in [Workers -> SUBSET Users]
           /\ \A v \in Workers : stale[v] \subseteq stale'[v]
           /\ \A v \in Workers : v # w /\ Holds(v, u) => u \in stale'[v]
<1>1. /\ accounts' \in [Users -> Rows \cup {None}] /\ accounts'[u] = row
      /\ \A x \in Users : x # u => accounts'[x] = accounts[x]
  BY DEF Write, TypeOK
<1>2. stale' = [v \in Workers |->
                  IF v # w /\ Holds(v, u) THEN stale[v] \cup {u} ELSE stale[v]]
  BY DEF Write
<1>3. \A v \in Workers : stale[v] \in SUBSET Users
  BY DEF TypeOK
<1>4. \A v \in Workers : stale'[v] \in SUBSET Users
  BY <1>2, <1>3
<1>5. stale' \in [Workers -> SUBSET Users]
  BY <1>2, <1>4
<1> QED
  BY <1>1, <1>2, <1>5

\* A job that does not write itself: whoever writes a row it relies on makes it
\* stale.
LEMMA HeldElsewhere ==
    ASSUME AccountsInv, NEW w, NEW u \in Users, NEW row \in Rows \cup {None}, Write(w, u, row),
           NEW v \in Workers, v # w, job[v] # None
    PROVE  HeldOK(job[v], stale'[v], accounts')
<1>1. /\ \A x \in Users : x # u => accounts'[x] = accounts[x]
      /\ stale[v] \subseteq stale'[v]
      /\ Holds(v, u) => u \in stale'[v]
  BY WriteFacts DEF AccountsInv
<1>2. HeldOK(job[v], stale[v], accounts) /\ DOMAIN job[v].todo \subseteq Users
  BY JobFacts DEF AccountsInv
<1>3. job[v].at # "next" => job[v].user \in DOMAIN job[v].todo
  BY JobFacts DEF JobOK
<1>4. ASSUME job[v].kind # "migrate", NEW x \in DOMAIN job[v].todo, x \notin stale'[v]
      PROVE  x # u /\ x \notin stale[v] /\ accounts'[x] = accounts[x]
  BY <1>1, <1>2, <1>4 DEF Holds
<1>5. job[v].kind = "migrate" /\ job[v].at = "put" /\ job[v].user \notin stale'[v]
        => accounts'[job[v].user] = accounts[job[v].user]
  BY <1>1, <1>2, <1>3 DEF Holds
<1> QED
  BY <1>1, <1>2, <1>3, <1>4, <1>5 DEF HeldOK

\* A job writes the row of the user whose turn it is and forgets its copy.
LEMMA WrittenInv ==
    ASSUME AccountsInv, NEW w \in Workers, job[w] # None,
           NEW u \in DOMAIN job[w].todo, NEW row \in Rows \cup {None}, Write(w, u, row),
           row # None => row.cred <= password[u],
           Shrinks(w),
           job'[w] # None => job'[w].at = "next" /\ u \notin DOMAIN job'[w].todo,
           UNCHANGED <<legacy, password, prompted>>, out' \in [Users -> BOOLEAN]
    PROVE  AccountsInv'
<1>0. u \in Users
  BY JobFacts
<1>1. TypeOK
  BY DEF AccountsInv
<1>2. /\ accounts' \in [Users -> Rows \cup {None}] /\ accounts'[u] = row
      /\ \A x \in Users : x # u => accounts'[x] = accounts[x]
      /\ stale' \in [Workers -> SUBSET Users]
      /\ stale[w] \subseteq stale'[w]
  BY <1>0, <1>1, WriteFacts
<1>3. TypeOK'
  BY <1>1, <1>2 DEF TypeOK, Shrinks
<1>4. RowsOK'
  BY <1>2 DEF AccountsInv, RowsOK
<1>5. ASSUME NEW v \in Workers, job'[v] # None
      PROVE  HeldOK(job'[v], stale'[v], accounts')
  <2>1. CASE v # w
    BY <1>0, <1>5, <2>1, HeldElsewhere DEF Shrinks
  <2>2. CASE v = w
    <3>1. HeldOK(job[w], stale[w], accounts) /\ DOMAIN job[w].todo \subseteq Users
      BY JobFacts DEF AccountsInv
    <3>2. /\ job'[w].at = "next" /\ job'[w].kind = job[w].kind
          /\ \A x \in DOMAIN job'[w].todo : /\ x # u /\ x \in DOMAIN job[w].todo
                                            /\ job'[w].todo[x] = job[w].todo[x]
      BY <1>5, <2>2 DEF Shrinks
    <3> QED
      BY <1>2, <2>2, <3>1, <3>2 DEF HeldOK
  <2> QED
    BY <2>1, <2>2
<1> QED
  BY <1>3, <1>4, <1>5, ShrunkJobs DEF AccountsInv

LEMMA WritingInv ==
    ASSUME AccountsInv, NEW w \in Workers,
           \/ LoginStore(w) \/ ProbeAccepted(w) \/ ProbeRejected(w) \/ PickMarksBad(w)
           \/ MigrateUpsert(w)
    PROVE  AccountsInv'
<1>1. job[w] # None /\ job[w].at # "next" /\ UNCHANGED <<legacy, password, prompted>>
  BY DEF LoginStore, ProbeAccepted, ProbeRejected, PickMarksBad, MigrateUpsert, Is
<1>2. PICK u \in DOMAIN job[w].todo : u = job[w].user
  BY <1>1, TurnFacts
<1>3. u \in Users /\ Copy(w) \in Rows /\ Copy(w).cred <= password[u]
  BY <1>1, <1>2, TurnFacts
<1>4. CASE LoginStore(w)
  <2>1. Shrinks(w) /\ job'[w] = None
    BY <1>4, EndShrinks DEF LoginStore
  <2>2. out' \in [Users -> BOOLEAN]
    BY <1>3, <1>4 DEF LoginStore, AccountsInv, TypeOK
  <2> QED
    BY <1>1, <1>2, <1>3, <1>4, <2>1, <2>2, WrittenInv DEF LoginStore
<1>5. CASE ~LoginStore(w)
  <2>1. job' = Rest(w) /\ UNCHANGED out
    BY <1>5 DEF ProbeAccepted, ProbeRejected, PickMarksBad, MigrateUpsert
  <2>2. /\ Shrinks(w) /\ job'[w].at = "next" /\ u \notin DOMAIN job'[w].todo
        /\ out' \in [Users -> BOOLEAN]
    BY <1>1, <1>2, <2>1, RestShrinks DEF AccountsInv, TypeOK
  <2>3. CASE ProbeAccepted(w)
    <3>1. CASE Copy(w).failing # Healthy
      <4>1. Copy(w).cred \in Passwords
        BY <1>3 DEF Rows
      <4>2. Fresh(Copy(w).cred) \in Rows /\ Fresh(Copy(w).cred).cred = Copy(w).cred
        BY <4>1, FreshType
      <4>3. Write(w, u, Fresh(Copy(w).cred))
        BY <1>2, <2>3, <3>1 DEF ProbeAccepted
      <4> QED
        BY <1>1, <1>3, <2>2, <4>2, <4>3, WrittenInv
    <3>2. CASE Copy(w).failing = Healthy
      BY <1>1, <2>1, <2>2, <2>3, <3>2, ShrunkHeld, ShrunkInv DEF ProbeAccepted
    <3> QED
      BY <3>1, <3>2
  <2>4. CASE ProbeRejected(w)
    <3>1. PICK row \in Rows \cup {None} :
              Write(w, u, row) /\ (row # None => row.cred = Copy(w).cred)
      BY <1>2, <1>3, <2>4, MarkType DEF ProbeRejected
    <3> QED
      BY <1>1, <1>3, <2>2, <3>1, WrittenInv
  <2>5. CASE PickMarksBad(w)
    <3>1. Write(w, u, Mark(Copy(w)))
      BY <1>2, <2>5 DEF PickMarksBad
    <3> QED
      BY <1>1, <1>3, <2>2, <3>1, MarkType, WrittenInv
  <2>6. CASE MigrateUpsert(w)
    <3>1. Write(w, u, Copy(w))
      BY <1>2, <2>6 DEF MigrateUpsert
    <3> QED
      BY <1>1, <1>3, <2>2, <3>1, WrittenInv
  <2> QED
    BY <1>5, <2>3, <2>4, <2>5, <2>6
<1> QED
  BY <1>4, <1>5

-----------------------------------------------------------------------------
(* Jobs that begin *)

LEMMA BegunInv ==
    ASSUME AccountsInv, NEW w \in Workers, NEW kind \in {"login", "probe", "pick", "migrate"},
           NEW user \in Users \cup {None}, NEW at \in {"next", "auth"}, NEW todo \in Copies,
           Start(w, kind, user, at, todo),
           at # "next" => user \in DOMAIN todo,
           \A u \in DOMAIN todo : todo[u].cred <= password[u],
           kind \in {"probe", "pick"} => \A u \in DOMAIN todo : accounts[u] = todo[u],
           UNCHANGED <<legacy, accounts, password, prompted, out>>
    PROVE  AccountsInv'
<1> DEFINE j == [at |-> at, kind |-> kind, user |-> user, todo |-> todo]
<1>1. j \in Jobs /\ j.at = at /\ j.kind = kind /\ j.user = user /\ j.todo = todo
  BY DEF Jobs
<1> HIDE DEF j
<1>2. /\ job'[w] = j /\ \A v \in Workers : v # w => job'[v] = job[v]
      /\ job' \in [Workers -> Jobs \cup {None}]
  BY <1>1 DEF Start, AccountsInv, TypeOK, j
<1>3. TypeOK' /\ \A v \in Workers : v # w => stale'[v] = stale[v]
  BY <1>2 DEF AccountsInv, TypeOK, Start
<1>4. ASSUME NEW v \in Workers, job'[v] # None
      PROVE  JobOK(v)'
  <2>1. CASE v # w
    BY <1>2, <1>4, <2>1 DEF AccountsInv, JobOK, Copy
  <2>2. CASE v = w
    BY <1>1, <1>2, <2>2 DEF JobOK
  <2> QED
    BY <2>1, <2>2
<1>5. ASSUME NEW v \in Workers, job'[v] # None
      PROVE  HeldOK(job'[v], stale'[v], accounts)
  <2>1. CASE v # w
    BY <1>2, <1>3, <1>5, <2>1 DEF AccountsInv
  <2>2. CASE v = w
    BY <1>1, <1>2, <2>2 DEF HeldOK
  <2> QED
    BY <2>1, <2>2
<1>6. \A v \in Workers : job'[v] # None => HeldOK(job[v], stale[v], accounts)'
  BY <1>5 DEF HeldOK
<1>7. RowsOK'
  BY DEF AccountsInv, RowsOK
<1> QED
  BY <1>3, <1>4, <1>6, <1>7 DEF AccountsInv

LEMMA BeginningInv ==
    ASSUME AccountsInv, NEW w \in Workers,
           \/ ProbeAllAccounts(w) \/ PickHealthy(w) \/ Migrate(w)
           \/ \E u \in Users, cred \in Passwords : LoginReply(w, u, cred)
    PROVE  AccountsInv'
<1>1. UNCHANGED <<legacy, accounts, password, prompted, out>>
  BY DEF ProbeAllAccounts, PickHealthy, Migrate, LoginReply
<1>2. TypeOK
  BY DEF AccountsInv
<1>3. ASSUME NEW kind \in {"probe", "pick"}, Start(w, kind, None, "next", AllRows)
      PROVE  AccountsInv'
  <2>1. LoggedIn \subseteq Users /\ AllRows \in [LoggedIn -> Rows]
    BY <1>2 DEF LoggedIn, AllRows, TypeOK
  <2>2. /\ AllRows \in Copies /\ DOMAIN AllRows = LoggedIn
        /\ \A u \in LoggedIn : AllRows[u] = accounts[u]
    BY <2>1, CopiesType DEF AllRows
  <2>3. \A u \in LoggedIn : accounts[u].cred <= password[u]
    BY DEF AccountsInv, RowsOK, LoggedIn
  <2> QED
    BY <1>1, <1>3, <2>2, <2>3, BegunInv
<1>4. ASSUME Migrate(w)
      PROVE  AccountsInv'
  <2> DEFINE todo == [u \in legacy |-> Fresh(0)]
  <2>1. 0 \in Passwords /\ \A u \in Users : 0 <= password[u]
    BY <1>2, S21AccountsAssumption DEF Passwords, TypeOK
  <2>2. todo \in [legacy -> Rows] /\ \A u \in legacy : todo[u].cred = 0
    BY <2>1, FreshType
  <2>3. todo \in Copies /\ DOMAIN todo = legacy /\ legacy \subseteq Users
    BY <1>2, <2>2, CopiesType DEF TypeOK
  <2>4. Start(w, "migrate", None, "next", todo)
    BY <1>4 DEF Migrate
  <2> HIDE DEF todo
  <2> QED
    BY <1>1, <2>1, <2>2, <2>3, <2>4, BegunInv
<1>5. ASSUME NEW u \in Users, NEW cred \in Passwords, LoginReply(w, u, cred)
      PROVE  AccountsInv'
  <2> DEFINE todo == [v \in {u} |-> Fresh(cred)]
  <2>1. todo \in [{u} -> Rows] /\ todo[u].cred = cred /\ DOMAIN todo = {u}
    BY FreshType
  <2>2. todo \in Copies
    BY <2>1, CopiesType
  <2>3. Start(w, "login", u, "auth", todo) /\ cred <= password[u]
    BY <1>5 DEF LoginReply
  <2> HIDE DEF todo
  <2> QED
    BY <1>1, <2>1, <2>2, <2>3, BegunInv
<1> QED
  BY <1>3, <1>4, <1>5 DEF ProbeAllAccounts, PickHealthy

-----------------------------------------------------------------------------
(* Users, S21 and time *)

LEMMA LogoutInv ==
    ASSUME AccountsInv, NEW u \in Users, Logout(u) \/ LogoutReply(u)
    PROVE  AccountsInv'
<1>1. CASE Logout(u)
  <2>1. UNCHANGED <<legacy, accounts, password, job, out, stale>>
        /\ prompted' \in [Users -> BOOLEAN]
    BY <1>1 DEF Logout, AccountsInv, TypeOK
  <2>2. TypeOK' /\ RowsOK'
    BY <2>1 DEF AccountsInv, TypeOK, RowsOK
  <2> QED
    BY <2>1, <2>2 DEF AccountsInv, JobOK, Copy, HeldOK
<1>2. CASE LogoutReply(u)
  <2>1. /\ UNCHANGED <<legacy, password, prompted, job>> /\ Write(None, u, None)
        /\ out' = [out EXCEPT ![u] = TRUE]
    BY <1>2 DEF LogoutReply
  <2>2. TypeOK
    BY DEF AccountsInv
  <2>3. /\ accounts' \in [Users -> Rows \cup {None}] /\ accounts'[u] = None
        /\ \A x \in Users : x # u => accounts'[x] = accounts[x]
        /\ stale' \in [Workers -> SUBSET Users]
    BY <2>1, <2>2, WriteFacts
  <2>4. TypeOK'
    BY <2>1, <2>2, <2>3 DEF TypeOK
  <2>5. \A w \in Workers : job'[w] # None => JobOK(w)'
    BY <2>1 DEF AccountsInv, JobOK, Copy
  <2>6. ASSUME NEW w \in Workers, job'[w] # None
        PROVE  HeldOK(job[w], stale[w], accounts)'
    <3>1. job'[w] = job[w] /\ w # None
      BY <2>1, RowNotNone
    <3>2. HeldOK(job[w], stale'[w], accounts')
      BY <2>1, <2>6, <3>1, HeldElsewhere
    <3> QED
      BY <3>1, <3>2 DEF HeldOK
  <2>7. RowsOK'
    BY <2>1, <2>3 DEF AccountsInv, RowsOK
  <2> QED
    BY <2>4, <2>5, <2>6, <2>7 DEF AccountsInv
<1> QED
  BY <1>1, <1>2

LEMMA RotateInv ==
    ASSUME AccountsInv, NEW u \in Users, Rotate(u)
    PROVE  AccountsInv'
<1>1. UNCHANGED <<legacy, accounts, prompted, job, out, stale>>
  BY DEF Rotate
<1>2. TypeOK
  BY DEF AccountsInv
<1>3. /\ password' \in [Users -> Passwords]
      /\ \A x \in Users : password[x] \in Int /\ password'[x] \in Int /\ password[x] <= password'[x]
  BY <1>2, S21AccountsAssumption DEF Rotate, Passwords, TypeOK
<1>4. \A row \in Rows : row.cred \in Int
  BY S21AccountsAssumption DEF Rows, Passwords
<1>5. TypeOK'
  BY <1>1, <1>2, <1>3 DEF TypeOK
<1>6. RowsOK'
  <2> SUFFICES ASSUME NEW x \in Users, accounts[x] # None
               PROVE  accounts[x].cred <= password'[x]
    BY <1>1 DEF RowsOK
  <2>1. accounts[x] \in Rows /\ accounts[x].cred <= password[x]
    BY <1>2 DEF TypeOK, AccountsInv, RowsOK
  <2> QED
    BY <1>3, <1>4, <2>1
<1>7. ASSUME NEW w \in Workers, job'[w] # None
      PROVE  JobOK(w)'
  <2>1. /\ job[w] # None /\ job'[w] = job[w] /\ JobOK(w) /\ DOMAIN job[w].todo \subseteq Users
        /\ \A x \in DOMAIN job[w].todo : job[w].todo[x] \in Rows
    BY <1>1, <1>7, JobFacts
  <2>2. \A x \in DOMAIN job[w].todo : job[w].todo[x].cred <= password'[x]
    BY <1>3, <1>4, <2>1 DEF JobOK
  <2>3. job[w].at = "invalid" => Copy(w).cred < password'[job[w].user]
    <3> SUFFICES ASSUME job[w].at = "invalid"
                 PROVE  Copy(w).cred < password'[job[w].user]
      OBVIOUS
    <3>1. job[w].user \in Users /\ Copy(w) \in Rows /\ Copy(w).cred < password[job[w].user]
      BY <2>1, TurnFacts DEF JobOK
    <3> QED
      BY <1>3, <1>4, <3>1
  <2> QED
    BY <1>1, <2>1, <2>2, <2>3 DEF JobOK, Copy
<1>8. \A w \in Workers : job'[w] # None => HeldOK(job[w], stale[w], accounts)'
  BY <1>1 DEF AccountsInv, HeldOK
<1> QED
  BY <1>5, <1>6, <1>7, <1>8 DEF AccountsInv

LEMMA TickInv ==
    ASSUME AccountsInv, Tick
    PROVE  AccountsInv'
<1>1. UNCHANGED <<legacy, password, prompted, out, stale>>
  BY DEF Tick
<1>2. TypeOK
  BY DEF AccountsInv
<1>3. \A u \in Users : accounts'[u] = Older(accounts[u])
  BY DEF Tick
<1>4. /\ accounts' \in [Users -> Rows \cup {None}]
      /\ \A u \in Users : accounts[u] = None => accounts'[u] = None
      /\ \A u \in Users : accounts'[u] # None =>
            accounts[u] # None /\ accounts'[u].cred = accounts[u].cred
  BY <1>2, <1>3, OlderType DEF Tick, TypeOK
<1>5. ASSUME NEW w \in Workers, job[w] # None
      PROVE  /\ job'[w] \in Jobs
             /\ job'[w].at = job[w].at /\ job'[w].kind = job[w].kind /\ job'[w].user = job[w].user
             /\ DOMAIN job'[w].todo = DOMAIN job[w].todo
             /\ \A u \in DOMAIN job[w].todo : job'[w].todo[u] = Older(job[w].todo[u])
  <2>1. PICK j \in Jobs : j = job[w]
    BY <1>5, JobFacts
  <2> DEFINE todo == [u \in DOMAIN j.todo |-> Older(j.todo[u])]
  <2>2. DOMAIN j.todo \subseteq Users /\ \A u \in DOMAIN j.todo : j.todo[u] \in Rows
    BY <1>5, <2>1, JobFacts
  <2>3. /\ todo \in [DOMAIN j.todo -> Rows] /\ DOMAIN todo = DOMAIN j.todo
        /\ \A u \in DOMAIN j.todo : todo[u] = Older(j.todo[u])
    BY <2>2, OlderType
  <2>4. todo \in Copies
    BY <2>2, <2>3, CopiesType
  <2>5. job'[w] = [j EXCEPT !.todo = todo]
    BY <1>5, <2>1 DEF Tick, Jobs
  <2> HIDE DEF todo
  <2>6. /\ job'[w] \in Jobs /\ job'[w].at = j.at /\ job'[w].kind = j.kind
        /\ job'[w].user = j.user /\ job'[w].todo = todo
    BY <2>4, <2>5 DEF Jobs
  <2> QED
    BY <2>1, <2>3, <2>6
<1>6. \A w \in Workers : job[w] = None => job'[w] = None
  BY DEF Tick
<1>7. TypeOK'
  <2>1. job' \in [Workers -> Jobs \cup {None}]
    BY <1>5, <1>6 DEF Tick
  <2> QED
    BY <1>1, <1>2, <1>4, <2>1 DEF TypeOK
<1>8. ASSUME NEW w \in Workers, job'[w] # None
      PROVE  JobOK(w)'
  <2>1. /\ job[w] # None /\ JobOK(w)
        /\ \A u \in DOMAIN job[w].todo : job[w].todo[u] \in Rows
    BY <1>6, <1>8, JobFacts
  <2>2. \A u \in DOMAIN job[w].todo : job'[w].todo[u].cred = job[w].todo[u].cred
    BY <1>5, <2>1, OlderType
  <2> QED
    BY <1>1, <1>5, <2>1, <2>2 DEF JobOK, Copy
<1>9. ASSUME NEW w \in Workers, job'[w] # None
      PROVE  HeldOK(job[w], stale[w], accounts)'
  <2>1. /\ job[w] # None /\ HeldOK(job[w], stale[w], accounts)
        /\ DOMAIN job[w].todo \subseteq Users
    BY <1>6, <1>9, JobFacts DEF AccountsInv
  <2>2. job[w].at # "next" => job[w].user \in DOMAIN job[w].todo
    BY <2>1, JobFacts DEF JobOK
  <2>3. \A u \in DOMAIN job[w].todo : job'[w].todo[u].cred = job[w].todo[u].cred
    BY <1>5, <2>1, JobFacts, OlderType
  <2> QED
    BY <1>1, <1>3, <1>4, <1>5, <2>1, <2>2, <2>3 DEF HeldOK
<1>10. RowsOK'
  BY <1>1, <1>4 DEF AccountsInv, RowsOK
<1> QED
  BY <1>7, <1>8, <1>9, <1>10 DEF AccountsInv

-----------------------------------------------------------------------------
(* Theorems *)

LEMMA AccountsInit == Init => AccountsInv
<1> SUFFICES ASSUME Init
             PROVE  AccountsInv
  OBVIOUS
<1>1. TypeOK
  BY S21AccountsAssumption DEF Init, TypeOK, Passwords
<1> QED
  BY <1>1 DEF Init, AccountsInv, RowsOK

LEMMA AccountsStep == AccountsInv /\ [Next]_vars => AccountsInv'
<1> SUFFICES ASSUME AccountsInv, [Next]_vars
             PROVE  AccountsInv'
  OBVIOUS
<1>1. ASSUME NEW w \in Workers, Step(w)
      PROVE  AccountsInv'
  BY <1>1, ReadingInv, WritingInv DEF Step
<1>2. CASE UNCHANGED vars
  <2>1. TypeOK' /\ RowsOK'
    BY <1>2 DEF AccountsInv, TypeOK, RowsOK, vars
  <2> QED
    BY <1>2, <2>1 DEF AccountsInv, JobOK, Copy, HeldOK, vars
<1> QED
  BY <1>1, <1>2, ReadingInv, BeginningInv, LogoutInv, RotateInv, TickInv DEF Next

\* The rows, the jobs and their copies keep their types, with any number of
\* invocations reading and writing the same rows.
THEOREM AccountTypes == Spec => []TypeOK
<1>1. AccountsInv => TypeOK
  BY DEF AccountsInv
<1> QED
  BY <1>1, AccountsInit, AccountsStep, PTL DEF Spec

\* Who writes the row of u.
LEMMA RowWriter ==
    ASSUME AccountsInv, [Next]_vars, NEW v \in Workers, job'[v] # job[v], ~Tick,
           NEW u \in Users, accounts'[u] # accounts[u]
    PROVE  /\ \/ LoginStore(v) \/ ProbeAccepted(v) \/ ProbeRejected(v)
              \/ PickMarksBad(v) \/ MigrateUpsert(v)
           /\ job[v] # None /\ job[v].at # "next" /\ job[v].user = u
           /\ u \in DOMAIN job[v].todo /\ Copy(v) \in Rows
<1>1. ASSUME NEW w \in Workers, Step(w)
      PROVE  \/ LoginStore(w) \/ ProbeAccepted(w) \/ ProbeRejected(w)
             \/ PickMarksBad(w) \/ MigrateUpsert(w)
  BY <1>1 DEF Step, Authenticate, Unreachable, Done, LoginRejected, PickServed,
              ProbeOne, PickTry, MigrateGet
<1>2. ~UNCHANGED vars
  BY DEF vars
<1>3. \A x \in Users : ~Logout(x) /\ ~Rotate(x) /\ ~LogoutReply(x)
  BY DEF Logout, Rotate, LogoutReply
<1>4. \A w \in Workers : /\ ~Crash(w) /\ ~ProbeAllAccounts(w) /\ ~PickHealthy(w) /\ ~Migrate(w)
                         /\ \A x \in Users, cred \in Passwords : ~LoginReply(w, x, cred)
  BY DEF Crash, ProbeAllAccounts, PickHealthy, Migrate, LoginReply
<1>5. PICK w \in Workers : \/ LoginStore(w) \/ ProbeAccepted(w) \/ ProbeRejected(w)
                           \/ PickMarksBad(w) \/ MigrateUpsert(w)
  BY <1>1, <1>2, <1>3, <1>4 DEF Next
<1>6. job[w] # None /\ job[w].at # "next"
  BY <1>5 DEF LoginStore, ProbeAccepted, ProbeRejected, PickMarksBad, MigrateUpsert, Is
<1>7. v = w
  <2>1. Shrinks(w)
    <3>1. CASE LoginStore(w)
      BY <3>1, EndShrinks DEF LoginStore
    <3>2. CASE ~LoginStore(w)
      <4>1. job' = Rest(w)
        BY <1>5, <3>2 DEF ProbeAccepted, ProbeRejected, PickMarksBad, MigrateUpsert
      <4> QED
        BY <1>6, <4>1, RestShrinks
    <3> QED
      BY <3>1, <3>2
  <2> QED
    BY <2>1 DEF Shrinks
<1>8. PICK row : Write(w, job[w].user, row)
  <2>1. CASE ProbeAccepted(w)
    BY <2>1 DEF ProbeAccepted
  <2>2. CASE ~ProbeAccepted(w)
    BY <1>5, <2>2 DEF LoginStore, ProbeRejected, PickMarksBad, MigrateUpsert
  <2> QED
    BY <2>1, <2>2
<1>9. job[w].user = u
  BY <1>8 DEF Write, AccountsInv, TypeOK
<1> QED
  BY <1>5, <1>6, <1>7, <1>9, TurnFacts

\* A job only removes a row that has been marked for Deadline days and whose
\* credentials S21 still rejects, unless the row was written since it read it.
THEOREM RemovalsJust == Spec => AutoLogoutJust
<1>1. AccountsInv /\ [Next]_vars =>
        [\A w \in Workers, u \in LoggedIn :
            job'[w] # job[w] /\ u \notin stale[w] /\ accounts'[u] = None
            => accounts[u].failing = Deadline /\ ~Working(u, accounts[u])]_vars
  <2> SUFFICES ASSUME AccountsInv, [Next]_vars, NEW w \in Workers, NEW u \in LoggedIn,
                      job'[w] # job[w], u \notin stale[w], accounts'[u] = None
               PROVE  accounts[u].failing = Deadline /\ ~Working(u, accounts[u])
    OBVIOUS
  <2>1. u \in Users /\ accounts[u] \in Rows /\ accounts[u] # None
    BY DEF LoggedIn, AccountsInv, TypeOK
  <2>2. ~Tick
    BY <2>1, OlderType, RowNotNone DEF Tick
  <2>3. /\ \/ LoginStore(w) \/ ProbeAccepted(w) \/ ProbeRejected(w)
           \/ PickMarksBad(w) \/ MigrateUpsert(w)
        /\ job[w] # None /\ job[w].user = u /\ u \in DOMAIN job[w].todo /\ Copy(w) \in Rows
    BY <2>1, <2>2, RowWriter
  <2>4. ASSUME NEW row, Write(w, u, row)
        PROVE  row = None
    BY <2>1, <2>4 DEF Write, AccountsInv, TypeOK
  <2>5. Mark(Copy(w)) # None /\ Copy(w) # None /\ Fresh(Copy(w).cred) # None
    <3>1. Copy(w).cred \in Passwords
      BY <2>3 DEF Rows
    <3> QED
      BY <2>3, <3>1, MarkType, FreshType, RowNotNone
  <2>6. ~LoginStore(w) /\ ~MigrateUpsert(w) /\ ~PickMarksBad(w)
    BY <2>3, <2>4, <2>5 DEF LoginStore, MigrateUpsert, PickMarksBad
  <2>7. ~ProbeAccepted(w)
    BY <2>1, <2>3, <2>4, <2>5 DEF ProbeAccepted
  <2>8. ProbeRejected(w) /\ LogoutDue(Copy(w))
    BY <2>3, <2>4, <2>5, <2>6, <2>7 DEF ProbeRejected
  <2>9. job[w].kind = "probe" /\ job[w].at = "invalid"
    BY <2>8 DEF ProbeRejected, Is
  <2>10. accounts[u] = Copy(w)
    BY <2>3, <2>9 DEF AccountsInv, HeldOK, Copy
  <2>11. Copy(w).cred < password[u]
    BY <2>3, <2>9, JobFacts DEF JobOK
  <2>12. Copy(w).cred # password[u]
    BY <2>1, <2>3, <2>11, S21AccountsAssumption DEF Rows, Passwords, AccountsInv, TypeOK
  <2> QED
    BY <2>8, <2>10, <2>12 DEF LogoutDue, Working
<1> QED
  BY <1>1, AccountsInit, AccountsStep, PTL DEF Spec, AutoLogoutJust

\* A job never puts an older password in place of the stored one, unless the row
\* was written since it read it: the reply to /login was accepted by S21, a mark
\* goes with the password it was read with, and the migration found no row.
THEOREM CredsRenewed == Spec => CredsNeverGoBack
<1>1. AccountsInv /\ [Next]_vars =>
        [\A w \in Workers, u \in LoggedIn :
            job'[w] # job[w] /\ u \notin stale[w] /\ accounts'[u] # None
            => accounts'[u].cred >= accounts[u].cred]_vars
  <2> SUFFICES ASSUME AccountsInv, [Next]_vars, NEW w \in Workers, NEW u \in LoggedIn,
                      job'[w] # job[w], u \notin stale[w], accounts'[u] # None
               PROVE  accounts'[u].cred >= accounts[u].cred
    OBVIOUS
  <2>1. u \in Users /\ accounts[u] \in Rows /\ accounts[u] # None
    BY DEF LoggedIn, AccountsInv, TypeOK
  <2>2. accounts[u].cred \in Int
    BY <2>1, S21AccountsAssumption DEF Rows, Passwords
  <2>3. CASE Tick
    <3>1. accounts'[u] = Older(accounts[u])
      BY <2>1, <2>3 DEF Tick
    <3> QED
      BY <2>1, <2>2, <3>1, OlderType
  <2>4. CASE accounts'[u] = accounts[u]
    BY <2>2, <2>4
  <2>5. CASE ~Tick /\ accounts'[u] # accounts[u]
    <3>1. /\ \/ LoginStore(w) \/ ProbeAccepted(w) \/ ProbeRejected(w)
             \/ PickMarksBad(w) \/ MigrateUpsert(w)
          /\ job[w] # None /\ job[w].user = u /\ u \in DOMAIN job[w].todo /\ Copy(w) \in Rows
      BY <2>1, <2>5, RowWriter
    <3>2. HeldOK(job[w], stale[w], accounts)
      BY <3>1 DEF AccountsInv
    <3>3. Copy(w).cred \in Passwords /\ Copy(w).cred \in Int
      BY <3>1, S21AccountsAssumption DEF Rows, Passwords
    <3>4. ASSUME NEW row, Write(w, u, row)
          PROVE  accounts'[u] = row
      BY <2>1, <3>4 DEF Write, AccountsInv, TypeOK
    <3>5. CASE LoginStore(w)
      <4>1. accounts'[u] = Copy(w) /\ job[w].kind = "login" /\ job[w].at = "valid"
        BY <3>1, <3>4, <3>5 DEF LoginStore, Is
      <4>2. accounts[u].cred <= Copy(w).cred
        BY <2>1, <3>1, <3>2, <4>1 DEF HeldOK, Copy
      <4> QED
        BY <2>2, <3>3, <4>1, <4>2
    <3>6. CASE MigrateUpsert(w)
      BY <2>1, <3>1, <3>2, <3>6 DEF MigrateUpsert, Is, HeldOK
    <3>7. CASE ProbeAccepted(w) \/ ProbeRejected(w) \/ PickMarksBad(w)
      <4>1. job[w].kind \in {"probe", "pick"}
        BY <3>7 DEF ProbeAccepted, ProbeRejected, PickMarksBad, Is
      <4>2. accounts[u] = Copy(w)
        BY <3>1, <3>2, <4>1 DEF HeldOK, Copy
      <4>3. accounts'[u] \in {Fresh(Copy(w).cred), Mark(Copy(w))}
        <5>1. CASE ProbeAccepted(w)
          BY <2>5, <3>1, <3>4, <5>1 DEF ProbeAccepted
        <5>2. CASE ProbeRejected(w)
          BY <3>1, <3>4, <5>2 DEF ProbeRejected
        <5>3. CASE PickMarksBad(w)
          BY <3>1, <3>4, <5>3 DEF PickMarksBad
        <5> QED
          BY <3>7, <5>1, <5>2, <5>3
      <4>4. accounts'[u].cred = Copy(w).cred
        BY <3>1, <3>3, <4>3, FreshType, MarkType
      <4> QED
        BY <3>3, <4>2, <4>4
    <3> QED
      BY <3>1, <3>5, <3>6, <3>7
  <2> QED
    BY <2>3, <2>4, <2>5
<1> QED
  BY <1>1, AccountsInit, AccountsStep, PTL DEF Spec, CredsNeverGoBack

=============================================================================
