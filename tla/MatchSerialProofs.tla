-------------------------- MODULE MatchSerialProofs --------------------------
(***************************************************************************)
(* Proofs about MatchLifecycle when handlers and cron sweeps run one at a  *)
(* time and no call fails, for any number of users, workers and matches:   *)
(* the tables have no orphans, the cards tell the truth, and the handlers  *)
(* implement the ledger of module MatchLedger.                             *)
(***************************************************************************)
EXTENDS MatchLifecycleProofs

-----------------------------------------------------------------------------
(* The inductive invariant *)

\* The match counts, or has counted, towards the ratings.
Settled(m) == HasStatus(m, "APPROVED") \/ HasStatus(m, "UNDONE")

\* Some worker is at this step of a handler for match m.
Working(step, m) == \E w \in Workers : At(w, step) /\ job[w].mid = m

OneAtATime ==
    \A w \in Workers : ~Idle(w) => cron.at = "idle" /\ \A v \in Workers : ~Idle(v) => v = w

\* Nothing a handler has read has changed since, and it has stored what its
\* step says.
PendingSteps == {"authorConfirm", "sendCard", "confirmInsert", "confirmDecide", "confirmApprove",
                 "confirmRemaining", "cancelDelete"}

ToggleSteps == {"undoList", "undoWithdraw", "undoInsert", "undoCheck", "undoToggle"}

StepInv(w) ==
    LET j == job[w]
    IN  /\ j.at \in PendingSteps => HasStatus(j.mid, "PENDING")
        /\ j.at \in ToggleSteps \cup {"announce", "confirmEdit", "undoClear"} => Settled(j.mid)
        /\ j.at \in ToggleSteps => HasStatus(j.mid, j.snap.status)
        /\ j.at = "cancelEdit" => ~Exists(j.mid)
        /\ j.at = "confirmDecide" => j.user \in ConfirmedBy(j.mid)
        /\ j.at = "confirmApprove" => Vouched(ConfirmedBy(j.mid), j.snap)
        /\ j.at = "undoToggle" => Vouched(UndoRequestedBy(j.mid), j.snap)
        /\ j.admin => j.user \in Admins

JobsInv == \A w \in Workers : ~Idle(w) => StepInv(w)

CronInv ==
    /\ cron.at \in {"idle", "undo"} => cron.todo = {}
    /\ \A m \in cron.todo : HasStatus(m, "PENDING")
    /\ cron.at = "expireClear" => ~Exists(cron.mid)

\* Rows belong to matches that can have them, and the requests that count are
\* the rows of undo_commands that no toggle has spent.
TablesInv ==
    \A m \in MatchIds :
        /\ \A u \in Users : <<m, u>> \in confirmations => Exists(m)
        /\ \A u \in Users : <<m, u>> \in undos => Settled(m)
        /\ asked[m] = IF Working("undoClear", m) THEN {} ELSE UndoRequestedBy(m)

\* What a card says, until the handler or the sweep that makes it untrue gets
\* to edit it or to announce the expiry.
CardInv ==
    \A m \in MatchIds :
        /\ matchCounters < m => card[m] = "none"
        /\ HasStatus(m, "PENDING") /\ card[m] # "pending" =>
              Working("authorConfirm", m) \/ Working("sendCard", m)
        /\ card[m] \in {"confirmed", "registered"} => Settled(m)
        /\ card[m] = "cancelled" => ~Exists(m)
        /\ card[m] = "pending" =>
              \/ HasStatus(m, "PENDING")
              \/ m \in expired
              \/ Working("confirmEdit", m) \/ Working("cancelEdit", m)
              \/ cron.at = "expireClear" /\ cron.mid = m

SerialInv ==
    /\ faults = 0
    /\ OneAtATime
    /\ JobsInv
    /\ CronInv
    /\ TablesInv
    /\ CardInv

-----------------------------------------------------------------------------
(* What the writes of the store do to a match *)

LEMMA UpdateStatusWrites ==
    ASSUME TypeOK, NEW k \in MatchIds, NEW s \in Statuses, Exists(k), UpdateStatus(k, s),
           NEW m \in MatchIds
    PROVE  /\ Exists(m)' <=> Exists(m)
           /\ \A t : HasStatus(m, t)' <=> IF m = k THEN t = s ELSE HasStatus(m, t)
<1>1. matches[k] \in MatchRows /\ [matches[k] EXCEPT !.status = s] \in MatchRows
  BY DEF TypeOK, StoreTypeOK, Exists, MatchRows
<1>2. matches' = [matches EXCEPT ![k] = [matches[k] EXCEPT !.status = s]]
  BY DEF UpdateStatus
<1>3. [matches[k] EXCEPT !.status = s].status = s
  BY <1>1 DEF MatchRows
<1> QED
  BY <1>1, <1>2, <1>3, StoreAssumption DEF TypeOK, StoreTypeOK, Exists, HasStatus

LEMMA DeleteMatchWrites ==
    ASSUME TypeOK, NEW k \in MatchIds, Exists(k), DeleteMatch(k), NEW m \in MatchIds
    PROVE  /\ Exists(m)' <=> m # k /\ Exists(m)
           /\ \A t : HasStatus(m, t)' <=> m # k /\ HasStatus(m, t)
           /\ \A u \in Users : /\ <<m, u>> \in confirmations' <=> m # k /\ <<m, u>> \in confirmations
                               /\ <<m, u>> \in undos' <=> m # k /\ <<m, u>> \in undos
<1>1. matches' = [matches EXCEPT ![k] = NoMatch]
  BY DEF DeleteMatch
<1>2. confirmations' = confirmations \ ({k} \X Users) /\ undos' = undos \ ({k} \X Users)
  BY DEF DeleteMatch, DeleteSucceeds
<1>3. Exists(m)' <=> m # k /\ Exists(m)
  BY <1>1 DEF TypeOK, StoreTypeOK, Exists
<1>4. \A t : HasStatus(m, t)' <=> m # k /\ HasStatus(m, t)
  BY <1>1, <1>3 DEF TypeOK, StoreTypeOK, HasStatus
<1> QED
  BY <1>2, <1>3, <1>4

LEMMA AgesWrites ==
    ASSUME TypeOK, NEW k \in MatchIds, MatchAges(k), NEW m \in MatchIds
    PROVE  /\ Exists(m)' <=> Exists(m)
           /\ \A t : HasStatus(m, t)' <=> HasStatus(m, t)
<1>1. matches[k] \in MatchRows /\ [matches[k] EXCEPT !.old = TRUE] \in MatchRows
  BY DEF TypeOK, StoreTypeOK, MatchAges, HasStatus, Exists, MatchRows
<1>2. matches' = [matches EXCEPT ![k] = [matches[k] EXCEPT !.old = TRUE]]
  BY DEF MatchAges
<1>3. [matches[k] EXCEPT !.old = TRUE].status = matches[k].status
  BY <1>1 DEF MatchRows
<1> QED
  BY <1>1, <1>2, <1>3, StoreAssumption DEF TypeOK, StoreTypeOK, Exists, HasStatus

LEMMA AllocateWrites ==
    ASSUME TypeOK, NEW row \in MatchRows, AllocateAndInsertMatch(row), NEW m \in MatchIds
    PROVE  /\ Exists(m)' <=> m = matchCounters + 1 \/ Exists(m)
           /\ \A t : HasStatus(m, t)' <=> IF m = matchCounters + 1 THEN t = row.status
                                           ELSE HasStatus(m, t)
BY StoreAssumption DEF TypeOK, StoreTypeOK, AllocateAndInsertMatch, Exists, HasStatus

LEMMA SameRows ==
    ASSUME UNCHANGED matches, NEW m
    PROVE  /\ Exists(m)' <=> Exists(m)
           /\ \A t : HasStatus(m, t)' <=> HasStatus(m, t)
BY DEF Exists, HasStatus

-----------------------------------------------------------------------------
(* Who is working *)

\* The one busy worker, before and after a step of its own.
LEMMA BusyWorker ==
    ASSUME TypeOK, SerialInv, NEW w \in Workers, ~Idle(w)
    PROVE  /\ \A step, m : Working(step, m) <=> step = job[w].at /\ m = job[w].mid
           /\ cron.at = "idle" /\ cron.todo = {}
           /\ StepInv(w)
           /\ job[w] \in Jobs
           /\ job[w].mid \in MatchIds /\ job[w].user \in Users /\ job[w].snap \in MatchRows
BY BusyJob DEF SerialInv, OneAtATime, CronInv, JobsInv, Working, At, Jobs

LEMMA WorkerMoves ==
    ASSUME TypeOK, SerialInv, NEW w \in Workers, ~Idle(w), NEW s \in Steps, Goto(w, s),
           UNCHANGED cron
    PROVE  /\ OneAtATime'
           /\ \A step, m : Working(step, m)' <=> step = s /\ m = job[w].mid
           /\ StepInv(w)' => JobsInv'
           /\ job'[w].at = s
           /\ job'[w].user = job[w].user /\ job'[w].mid = job[w].mid
           /\ job'[w].snap = job[w].snap /\ job'[w].admin = job[w].admin
<1>1. job[w] \in Jobs
  BY BusyJob
<1>2. job'[w] = [job[w] EXCEPT !.at = s] /\ \A v \in Workers : v # w => job'[v] = job[v]
  BY DEF TypeOK, Goto
<1>3. [job[w] EXCEPT !.at = s] \in Jobs
  BY <1>1 DEF Jobs
<1>4. job'[w] # NoJob
  BY <1>2, <1>3, LifecycleAssumption
<1>5. \A v \in Workers : ~Idle(v)' <=> v = w
  BY <1>2, <1>4 DEF SerialInv, OneAtATime, Idle
<1>6. /\ job'[w].at = s
      /\ job'[w].user = job[w].user /\ job'[w].mid = job[w].mid
      /\ job'[w].snap = job[w].snap /\ job'[w].admin = job[w].admin
  BY <1>1, <1>2 DEF Jobs
<1>7. OneAtATime'
  BY <1>5 DEF SerialInv, OneAtATime
<1>8. \A step, m : Working(step, m)' <=> step = s /\ m = job[w].mid
  BY <1>5, <1>6 DEF Working, At
<1>9. StepInv(w)' => JobsInv'
  BY <1>5 DEF JobsInv
<1> QED
  BY <1>6, <1>7, <1>8, <1>9

LEMMA WorkerFinishes ==
    ASSUME TypeOK, SerialInv, NEW w \in Workers, ~Idle(w), Finish(w)
    PROVE  /\ OneAtATime' /\ JobsInv'
           /\ \A step, m : ~Working(step, m)'
<1>1. \A v \in Workers : Idle(v)'
  BY DEF TypeOK, SerialInv, OneAtATime, Finish, Idle
<1> QED
  BY <1>1 DEF OneAtATime, JobsInv, Working, At

\* A handler that starts finds everyone idle.
LEMMA WorkerBegins ==
    ASSUME TypeOK, SerialInv, Serial, NEW w \in Workers, CanStart(w), UNCHANGED cron,
           NEW s \in Steps, NEW u \in Users, NEW m \in MatchIds, NEW row \in MatchRows,
           NEW admin \in BOOLEAN, Begin(w, s, u, m, row, admin)
    PROVE  /\ \A step, k : ~Working(step, k)
           /\ cron.at = "idle" /\ cron.todo = {}
           /\ OneAtATime'
           /\ \A step, k : Working(step, k)' <=> step = s /\ k = m
           /\ StepInv(w)' => JobsInv'
           /\ job'[w] = [at |-> s, user |-> u, mid |-> m, snap |-> row, admin |-> admin]
<1>1. AllIdle
  BY DEF CanStart
<1>2. job'[w] = [at |-> s, user |-> u, mid |-> m, snap |-> row, admin |-> admin]
  BY DEF TypeOK, Begin
<1>3. job'[w] # NoJob
  <2>1. job'[w] \in Jobs
    BY <1>2 DEF Jobs
  <2> QED
    BY <2>1, LifecycleAssumption
<1>4. \A v \in Workers : ~Idle(v)' <=> v = w
  BY <1>1, <1>3 DEF AllIdle, Idle, TypeOK, Begin
<1>5. OneAtATime'
  BY <1>1, <1>4 DEF OneAtATime, AllIdle
<1>6. \A step, k : Working(step, k)' <=> step = s /\ k = m
  BY <1>2, <1>4 DEF Working, At
<1>7. \A step, k : ~Working(step, k)
  BY <1>1 DEF AllIdle, Working, At
<1> QED
  BY <1>1, <1>2, <1>4, <1>5, <1>6, <1>7 DEF AllIdle, SerialInv, CronInv, JobsInv

-----------------------------------------------------------------------------
(* The steps *)

\* A step that writes no table leaves the tables' part to the workers.
LEMMA QuietTables ==
    ASSUME SerialInv, UNCHANGED <<matches, confirmations, undos, asked>>,
           \A m \in MatchIds : Working("undoClear", m)' <=> Working("undoClear", m)
    PROVE  TablesInv'
BY SameRows DEF SerialInv, TablesInv, Settled, UndoRequestedBy

\* Steps that read the tables, or only edit a card.
LEMMA QuietSteps ==
    ASSUME TypeOK, ConsentInv, SerialInv, NEW w \in Workers,
           \/ Announce(w) \/ SendCard(w) \/ ConfirmDecide(w) \/ ConfirmEdit(w)
           \/ ConfirmRemaining(w) \/ CancelEdit(w) \/ UndoList(w) \/ UndoCheck(w)
    PROVE  SerialInv'
<1> DEFINE k == job[w].mid
           at == job[w].at
<1>1. ~Idle(w)
  BY DEF Announce, SendCard, ConfirmDecide, ConfirmEdit, ConfirmRemaining, CancelEdit, UndoList,
         UndoCheck, At
<1>2. UNCHANGED <<matches, matchCounters, confirmations, undos, asked, cron, expired, faults>>
  BY DEF Announce, SendCard, ConfirmDecide, ConfirmEdit, ConfirmRemaining, CancelEdit, UndoList,
         UndoCheck, store, history
<1>3. /\ \A step, m : Working(step, m) <=> step = at /\ m = k
      /\ StepInv(w) /\ k \in MatchIds /\ k <= matchCounters
  BY <1>1, BusyWorker DEF ConsentInv, SnapshotAgrees
<1>4. CronInv'
  BY <1>2, SameRows DEF SerialInv, CronInv
<1>5. \A m \in MatchIds : /\ Exists(m)' <=> Exists(m)
                          /\ \A t : HasStatus(m, t)' <=> HasStatus(m, t)
                          /\ Settled(m)' <=> Settled(m)
                          /\ ConfirmedBy(m)' = ConfirmedBy(m)
                          /\ UndoRequestedBy(m)' = UndoRequestedBy(m)
  BY <1>2, SameRows DEF Settled, ConfirmedBy, UndoRequestedBy
<1>6. CASE Announce(w) \/ SendCard(w) \/ ConfirmEdit(w) \/ ConfirmRemaining(w) \/ CancelEdit(w)
  <2>1. Finish(w) /\ at # "undoClear"
    BY <1>6 DEF Announce, SendCard, ConfirmEdit, ConfirmRemaining, CancelEdit, At
  <2>2. OneAtATime' /\ JobsInv' /\ \A step, m : ~Working(step, m)'
    BY <1>1, <2>1, WorkerFinishes
  <2>3. TablesInv'
    BY <1>2, <1>3, <2>1, <2>2, QuietTables
  <2>4. \A m \in MatchIds : m # k => card'[m] = card[m]
    BY <1>6 DEF Announce, SendCard, ConfirmEdit, ConfirmRemaining, CancelEdit, SetCard, TypeOK
  <2>5. \/ card'[k] = "registered" /\ Settled(k)
        \/ card'[k] = "pending" /\ HasStatus(k, "PENDING")
        \/ card'[k] = "confirmed" /\ Settled(k)
        \/ card'[k] = "cancelled" /\ ~Exists(k)
    BY <1>3, <1>6 DEF Announce, SendCard, ConfirmEdit, ConfirmRemaining, CancelEdit, SetCard, TypeOK,
                      At, StepInv, PendingSteps
  <2>6. ASSUME NEW m \in MatchIds
        PROVE  /\ matchCounters' < m => card'[m] = "none"
               /\ HasStatus(m, "PENDING")' /\ card'[m] # "pending" =>
                     Working("authorConfirm", m)' \/ Working("sendCard", m)'
               /\ card'[m] \in {"confirmed", "registered"} => Settled(m)'
               /\ card'[m] = "cancelled" => ~Exists(m)'
               /\ card'[m] = "pending" =>
                     \/ HasStatus(m, "PENDING")'
                     \/ m \in expired'
                     \/ Working("confirmEdit", m)' \/ Working("cancelEdit", m)'
                     \/ cron'.at = "expireClear" /\ cron'.mid = m
    <3>1. CASE m = k
      <4>1. ~(matchCounters < k)
        BY <1>3 DEF TypeOK, StoreTypeOK, MatchIds
      <4>2. Settled(k) => ~HasStatus(k, "PENDING")
        BY DEF Settled, HasStatus
      <4>3. HasStatus(k, "PENDING") => Exists(k)
        BY DEF HasStatus
      <4> QED
        BY <1>2, <1>5, <2>5, <3>1, <4>1, <4>2, <4>3
    <3>2. CASE m # k
      BY <1>2, <1>3, <1>5, <2>4, <3>2 DEF SerialInv, CardInv
    <3> QED
      BY <3>1, <3>2
  <2>7. CardInv'
    BY <2>6 DEF CardInv
  <2> QED
    BY <1>2, <1>4, <2>2, <2>3, <2>7 DEF SerialInv
<1>7. ASSUME NEW s \in Steps, Goto(w, s), s # "undoClear", UNCHANGED card,
             at \notin {"authorConfirm", "sendCard", "confirmEdit", "cancelEdit", "undoClear"},
             StepInv(w)'
      PROVE  SerialInv'
  <2>1. /\ OneAtATime' /\ JobsInv'
        /\ \A step, m : Working(step, m)' <=> step = s /\ m = k
    BY <1>1, <1>2, <1>7, WorkerMoves
  <2>2. TablesInv'
    BY <1>2, <1>3, <1>7, <2>1, QuietTables
  <2>3. CardInv'
    BY <1>2, <1>3, <1>5, <1>7, <2>1 DEF SerialInv, CardInv
  <2> QED
    BY <1>2, <1>4, <2>1, <2>2, <2>3 DEF SerialInv
<1>8. CASE ConfirmDecide(w)
  <2>1. PICK admin \in IsChatAdmin(job[w].user) :
          Goto(w, IF admin \/ {job[w].snap.p1, job[w].snap.p2} \subseteq ConfirmedBy(k)
                  THEN "confirmApprove" ELSE "confirmRemaining")
    BY <1>8 DEF ConfirmDecide
  <2> DEFINE s == IF admin \/ {job[w].snap.p1, job[w].snap.p2} \subseteq ConfirmedBy(k)
                  THEN "confirmApprove" ELSE "confirmRemaining"
  <2>2. s \in Steps /\ s \in {"confirmApprove", "confirmRemaining"} /\ at = "confirmDecide"
    BY <1>8 DEF Steps, ConfirmDecide, At
  <2>3. HasStatus(k, "PENDING") /\ job[w].user \in ConfirmedBy(k)
        /\ (job[w].admin => job[w].user \in Admins)
    BY <1>3, <2>2 DEF StepInv, PendingSteps
  <2>4. s = "confirmApprove" => Vouched(ConfirmedBy(k), job[w].snap)
    BY <2>1, <2>3 DEF Vouched, IsChatAdmin
  <2> HIDE DEF s
  <2>5. Goto(w, s)
    BY <2>1 DEF s
  <2>6. StepInv(w)'
    BY <1>1, <1>2, <1>3, <1>5, <2>2, <2>3, <2>4, <2>5, WorkerMoves
       DEF StepInv, Vouched, PendingSteps, ToggleSteps
  <2> QED
    BY <1>7, <1>8, <2>2, <2>5, <2>6 DEF ConfirmDecide
<1>9. CASE UndoList(w)
  <2>1. PICK s \in {"undoWithdraw", "undoInsert"} : Goto(w, s)
    BY <1>9 DEF UndoList
  <2>2. s \in Steps /\ at = "undoList"
    BY <1>9 DEF Steps, UndoList, At
  <2>3. StepInv(w)'
    BY <1>1, <1>2, <1>3, <1>5, <2>1, <2>2, WorkerMoves
       DEF StepInv, PendingSteps, ToggleSteps
  <2> QED
    BY <1>7, <1>9, <2>1, <2>2, <2>3 DEF UndoList
<1>10. CASE UndoCheck(w) /\ Finish(w)
  <2>1. at = "undoCheck"
    BY <1>10 DEF UndoCheck, At
  <2>2. OneAtATime' /\ JobsInv' /\ \A step, m : ~Working(step, m)'
    BY <1>1, <1>10, WorkerFinishes
  <2>3. TablesInv'
    BY <1>2, <1>3, <2>1, <2>2, QuietTables
  <2>4. CardInv'
    BY <1>2, <1>3, <1>5, <1>10, <2>1, <2>2 DEF SerialInv, CardInv, UndoCheck
  <2> QED
    BY <1>2, <1>4, <2>2, <2>3, <2>4 DEF SerialInv
<1>11. CASE UndoCheck(w) /\ ~Finish(w)
  <2>1. Goto(w, "undoToggle") /\ {job[w].snap.p1, job[w].snap.p2} \subseteq UndoRequestedBy(k)
    BY <1>11 DEF UndoCheck
  <2>2. "undoToggle" \in Steps /\ at = "undoCheck"
    BY <1>11 DEF Steps, UndoCheck, At
  <2>3. StepInv(w)'
    BY <1>1, <1>2, <1>3, <1>5, <2>1, <2>2, WorkerMoves
       DEF StepInv, PendingSteps, ToggleSteps, Vouched
  <2> QED
    BY <1>7, <1>11, <2>1, <2>2, <2>3 DEF UndoCheck
<1> QED
  BY <1>6, <1>8, <1>9, <1>10, <1>11

\* Steps that store or remove a row of match_confirmations or undo_commands.
LEMMA RowSteps ==
    ASSUME TypeOK, ConsentInv, SerialInv, NEW w \in Workers,
           \/ AuthorConfirm(w) \/ ConfirmInsert(w) \/ UndoWithdraw(w) \/ UndoInsert(w)
           \/ UndoClear(w)
    PROVE  SerialInv'
<1> DEFINE k == job[w].mid
           at == job[w].at
           u == job[w].user
<1>1. ~Idle(w)
  BY DEF AuthorConfirm, ConfirmInsert, UndoWithdraw, UndoInsert, UndoClear, At
<1>2. UNCHANGED <<matches, matchCounters, cron, card, expired, faults>>
  BY DEF AuthorConfirm, ConfirmInsert, UndoWithdraw, UndoInsert, UndoClear, InsertConfirmation,
         DeleteUndo, InsertUndo, DeleteUndosForMatch, history
<1>3. /\ \A step, m : Working(step, m) <=> step = at /\ m = k
      /\ StepInv(w) /\ k \in MatchIds /\ u \in Users
  BY <1>1, BusyWorker
<1>4. CronInv'
  BY <1>2, SameRows DEF SerialInv, CronInv
<1>5. \A m \in MatchIds : /\ Exists(m)' <=> Exists(m)
                          /\ \A t : HasStatus(m, t)' <=> HasStatus(m, t)
                          /\ Settled(m)' <=> Settled(m)
  BY <1>2, SameRows DEF Settled
<1>6. ASSUME at \notin {"sendCard", "confirmEdit", "cancelEdit"},
             \A m \in MatchIds : Working("authorConfirm", m) => Working("sendCard", m)'
      PROVE  CardInv'
  BY <1>2, <1>3, <1>5, <1>6 DEF SerialInv, CardInv
<1>7. CASE AuthorConfirm(w) \/ ConfirmInsert(w)
  <2>1. PICK s \in {"sendCard", "confirmDecide"} :
          Goto(w, s) /\ (at = "authorConfirm" <=> s = "sendCard")
                     /\ at \in {"authorConfirm", "confirmInsert"}
    BY <1>7 DEF AuthorConfirm, ConfirmInsert, At
  <2>2. s \in Steps
    BY DEF Steps
  <2>3. /\ confirmations' = confirmations \cup {<<k, u>>}
        /\ UNCHANGED <<undos, asked>>
    BY <1>7 DEF AuthorConfirm, ConfirmInsert, InsertConfirmation, history
  <2>4. /\ OneAtATime'
        /\ \A step, m : Working(step, m)' <=> step = s /\ m = k
        /\ StepInv(w)' => JobsInv'
    BY <1>1, <1>2, <2>1, <2>2, WorkerMoves
  <2>5. HasStatus(k, "PENDING") /\ Exists(k) /\ <<k, u>> \in confirmations'
    BY <1>3, <2>1, <2>3 DEF StepInv, PendingSteps, HasStatus
  <2>6. StepInv(w)'
    BY <1>1, <1>2, <1>3, <1>5, <2>1, <2>2, <2>5, WorkerMoves
       DEF StepInv, PendingSteps, ToggleSteps, ConfirmedBy
  <2>7. TablesInv'
    <3>1. \A m \in MatchIds : UndoRequestedBy(m)' = UndoRequestedBy(m)
      BY <2>3 DEF UndoRequestedBy
    <3> QED
      BY <1>3, <1>5, <2>1, <2>3, <2>4, <2>5, <3>1 DEF SerialInv, TablesInv
  <2>8. CardInv'
    BY <1>3, <1>6, <2>1, <2>4
  <2> QED
    BY <1>2, <1>4, <2>4, <2>6, <2>7, <2>8 DEF SerialInv
<1>8. CASE UndoWithdraw(w)
  <2>1. Finish(w) /\ at = "undoWithdraw"
    BY <1>8 DEF UndoWithdraw, At
  <2>2. /\ undos' = undos \ {<<k, u>>}
        /\ asked' = [asked EXCEPT ![k] = @ \ {u}]
        /\ UNCHANGED confirmations
    BY <1>8 DEF UndoWithdraw, DeleteUndo
  <2>3. OneAtATime' /\ JobsInv' /\ \A step, m : ~Working(step, m)'
    BY <1>1, <2>1, WorkerFinishes
  <2>4. TablesInv'
    <3> SUFFICES ASSUME NEW m \in MatchIds
                 PROVE  /\ \A v \in Users : <<m, v>> \in confirmations' => Exists(m)'
                        /\ \A v \in Users : <<m, v>> \in undos' => Settled(m)'
                        /\ asked'[m] = UndoRequestedBy(m)'
      BY <2>3 DEF TablesInv
    <3>1. asked[m] = UndoRequestedBy(m)
      BY <1>3, <2>1 DEF SerialInv, TablesInv
    <3>2. asked'[m] = UndoRequestedBy(m)'
      BY <1>3, <2>2, <3>1 DEF TypeOK, UndoRequestedBy
    <3> QED
      BY <1>5, <2>2, <3>2 DEF SerialInv, TablesInv
  <2>5. CardInv'
    BY <1>3, <1>6, <2>1
  <2> QED
    BY <1>2, <1>4, <2>3, <2>4, <2>5 DEF SerialInv
<1>9. CASE UndoInsert(w)
  <2> DEFINE s == IF job[w].admin THEN "undoToggle" ELSE "undoCheck"
  <2>1. Goto(w, s) /\ at = "undoInsert" /\ s \in Steps /\ s \in {"undoToggle", "undoCheck"}
    BY <1>9 DEF UndoInsert, At, Steps
  <2>2. /\ undos' = undos \cup {<<k, u>>}
        /\ asked' = [asked EXCEPT ![k] = @ \cup {u}]
        /\ UNCHANGED confirmations
    BY <1>9 DEF UndoInsert, InsertUndo
  <2>3. <<k, u>> \in undos' /\ (s = "undoToggle" => u \in Admins)
    BY <1>3, <2>2 DEF StepInv
  <2>4. Settled(k) /\ HasStatus(k, job[w].snap.status)
    BY <1>3, <2>1 DEF StepInv, ToggleSteps
  <2> HIDE DEF s
  <2>5. /\ OneAtATime'
        /\ \A step, m : Working(step, m)' <=> step = s /\ m = k
        /\ StepInv(w)' => JobsInv'
    BY <1>1, <1>2, <2>1, WorkerMoves
  <2>6. StepInv(w)'
    BY <1>1, <1>2, <1>3, <1>5, <2>1, <2>3, <2>4, WorkerMoves
       DEF StepInv, PendingSteps, ToggleSteps, Vouched, UndoRequestedBy
  <2>7. TablesInv'
    <3> SUFFICES ASSUME NEW m \in MatchIds
                 PROVE  /\ \A v \in Users : <<m, v>> \in confirmations' => Exists(m)'
                        /\ \A v \in Users : <<m, v>> \in undos' => Settled(m)'
                        /\ asked'[m] = UndoRequestedBy(m)'
      BY <2>1, <2>5 DEF TablesInv
    <3>1. asked[m] = UndoRequestedBy(m)
      BY <1>3, <2>1 DEF SerialInv, TablesInv
    <3>2. asked'[m] = UndoRequestedBy(m)'
      BY <1>3, <2>2, <3>1 DEF TypeOK, UndoRequestedBy
    <3> QED
      BY <1>3, <1>5, <2>2, <2>4, <3>2 DEF SerialInv, TablesInv
  <2>8. CardInv'
    BY <1>3, <1>6, <2>1
  <2> QED
    BY <1>2, <1>4, <2>5, <2>6, <2>7, <2>8 DEF SerialInv
<1>10. CASE UndoClear(w)
  <2>1. Finish(w) /\ at = "undoClear"
    BY <1>10 DEF UndoClear, At
  <2>2. /\ undos' = undos \ ({k} \X Users)
        /\ UNCHANGED <<asked, confirmations>>
    BY <1>10 DEF UndoClear, DeleteUndosForMatch, history
  <2>3. OneAtATime' /\ JobsInv' /\ \A step, m : ~Working(step, m)'
    BY <1>1, <2>1, WorkerFinishes
  <2>4. TablesInv'
    <3> SUFFICES ASSUME NEW m \in MatchIds
                 PROVE  /\ \A v \in Users : <<m, v>> \in confirmations' => Exists(m)'
                        /\ \A v \in Users : <<m, v>> \in undos' => Settled(m)'
                        /\ asked'[m] = UndoRequestedBy(m)'
      BY <2>3 DEF TablesInv
    <3>1. asked[m] = IF m = k THEN {} ELSE UndoRequestedBy(m)
      BY <1>3, <2>1 DEF SerialInv, TablesInv
    <3>2. asked'[m] = UndoRequestedBy(m)'
      BY <1>3, <2>2, <3>1 DEF TypeOK, UndoRequestedBy
    <3> QED
      BY <1>5, <2>2, <3>2 DEF SerialInv, TablesInv
  <2>5. CardInv'
    BY <1>3, <1>6, <2>1
  <2> QED
    BY <1>2, <1>4, <2>3, <2>4, <2>5 DEF SerialInv
<1> QED
  BY <1>7, <1>8, <1>9, <1>10

\* Steps that write or remove the row of the match.
LEMMA StatusSteps ==
    ASSUME TypeOK, ConsentInv, SerialInv, NEW w \in Workers,
           ConfirmApprove(w) \/ CancelDelete(w) \/ UndoToggle(w)
    PROVE  SerialInv'
<1> DEFINE k == job[w].mid
           at == job[w].at
<1>1. ~Idle(w)
  BY DEF ConfirmApprove, CancelDelete, UndoToggle, At
<1>2. UNCHANGED <<matchCounters, cron, card, expired, faults>>
  BY DEF ConfirmApprove, CancelDelete, UndoToggle, UpdateStatus, DeleteMatch, history
<1>3. /\ \A step, m : Working(step, m) <=> step = at /\ m = k
      /\ StepInv(w) /\ k \in MatchIds /\ k <= matchCounters
      /\ cron.at = "idle" /\ cron.todo = {}
  BY <1>1, BusyWorker DEF ConsentInv, SnapshotAgrees
<1>4. CronInv'
  BY <1>2, <1>3 DEF CronInv
<1>5. ~(matchCounters < k)
  BY <1>3 DEF TypeOK, StoreTypeOK, MatchIds
<1>6. CASE ConfirmApprove(w)
  <2>1. Goto(w, "confirmEdit") /\ at = "confirmApprove" /\ "confirmEdit" \in Steps
    BY <1>6 DEF ConfirmApprove, At, Steps
  <2>2. HasStatus(k, "PENDING") /\ Exists(k)
    BY <1>3, <2>1 DEF StepInv, PendingSteps, HasStatus
  <2>3. \A m \in MatchIds : /\ Exists(m)' <=> Exists(m)
                            /\ \A t : HasStatus(m, t)' <=> IF m = k THEN t = "APPROVED"
                                                            ELSE HasStatus(m, t)
    BY <1>3, <1>6, <2>2, UpdateStatusWrites DEF ConfirmApprove, Statuses
  <2>4. /\ OneAtATime'
        /\ \A step, m : Working(step, m)' <=> step = "confirmEdit" /\ m = k
        /\ StepInv(w)' => JobsInv'
    BY <1>1, <1>2, <2>1, WorkerMoves
  <2>5. StepInv(w)'
    BY <1>1, <1>2, <1>3, <2>1, <2>3, WorkerMoves
       DEF StepInv, PendingSteps, ToggleSteps, Settled
  <2>6. UNCHANGED <<confirmations, undos, asked>>
    BY <1>6 DEF ConfirmApprove, UpdateStatus, history
  <2>7. \A m \in MatchIds : Settled(m) => Settled(m)'
    BY <2>3 DEF Settled
  <2>8. TablesInv'
    <3>1. \A m \in MatchIds : UndoRequestedBy(m)' = UndoRequestedBy(m)
      BY <2>6 DEF UndoRequestedBy
    <3> QED
      BY <1>3, <2>1, <2>3, <2>4, <2>6, <2>7, <3>1 DEF SerialInv, TablesInv
  <2>9. CardInv'
    BY <1>2, <1>3, <2>1, <2>3, <2>4, <2>7 DEF SerialInv, CardInv
  <2> QED
    BY <1>2, <1>4, <2>4, <2>5, <2>8, <2>9 DEF SerialInv
<1>7. CASE CancelDelete(w)
  <2>1. Goto(w, "cancelEdit") /\ at = "cancelDelete" /\ "cancelEdit" \in Steps
    BY <1>7 DEF CancelDelete, At, Steps
  <2>2. HasStatus(k, "PENDING") /\ Exists(k)
    BY <1>3, <2>1 DEF StepInv, PendingSteps, HasStatus
  <2>3. \A m \in MatchIds :
          /\ Exists(m)' <=> m # k /\ Exists(m)
          /\ \A t : HasStatus(m, t)' <=> m # k /\ HasStatus(m, t)
          /\ \A u \in Users : /\ <<m, u>> \in confirmations' <=> m # k /\ <<m, u>> \in confirmations
                              /\ <<m, u>> \in undos' <=> m # k /\ <<m, u>> \in undos
    BY <1>3, <1>7, <2>2, DeleteMatchWrites DEF CancelDelete
  <2>4. /\ OneAtATime'
        /\ \A step, m : Working(step, m)' <=> step = "cancelEdit" /\ m = k
        /\ StepInv(w)' => JobsInv'
    BY <1>1, <1>2, <2>1, WorkerMoves
  <2>5. StepInv(w)'
    BY <1>1, <1>2, <1>3, <2>1, <2>3, WorkerMoves
       DEF StepInv, PendingSteps, ToggleSteps, Settled
  <2>6. UNCHANGED asked
    BY <1>7 DEF CancelDelete
  <2>7. ~Settled(k) /\ \A m \in MatchIds : Settled(m)' <=> m # k /\ Settled(m)
    BY <2>2, <2>3 DEF Settled, HasStatus
  <2>8. TablesInv'
    <3>1. \A m \in MatchIds : UndoRequestedBy(m)' = UndoRequestedBy(m)
      BY <1>3, <2>3, <2>7 DEF SerialInv, TablesInv, UndoRequestedBy
    <3> QED
      BY <1>3, <2>1, <2>3, <2>4, <2>6, <2>7, <3>1 DEF SerialInv, TablesInv
  <2>9. CardInv'
    BY <1>2, <1>3, <2>1, <2>2, <2>3, <2>4, <2>7 DEF SerialInv, CardInv
  <2> QED
    BY <1>2, <1>4, <2>4, <2>5, <2>8, <2>9 DEF SerialInv
<1>8. CASE UndoToggle(w)
  <2> DEFINE s == Toggled(job[w].snap.status)
  <2>1. Goto(w, "undoClear") /\ at = "undoToggle" /\ "undoClear" \in Steps
    BY <1>8 DEF UndoToggle, At, Steps
  <2>2. Settled(k) /\ Exists(k) /\ s \in {"APPROVED", "UNDONE"}
    BY <1>3, <2>1 DEF StepInv, ToggleSteps, HasStatus, Settled, Toggled
  <2>3. \A m \in MatchIds : /\ Exists(m)' <=> Exists(m)
                            /\ \A t : HasStatus(m, t)' <=> IF m = k THEN t = s ELSE HasStatus(m, t)
    BY <1>3, <1>8, <2>2, UpdateStatusWrites DEF UndoToggle, Statuses
  <2> HIDE DEF s
  <2>4. /\ OneAtATime'
        /\ \A step, m : Working(step, m)' <=> step = "undoClear" /\ m = k
        /\ StepInv(w)' => JobsInv'
    BY <1>1, <1>2, <2>1, WorkerMoves
  <2>5. StepInv(w)'
    BY <1>1, <1>2, <1>3, <2>1, <2>2, <2>3, WorkerMoves
       DEF StepInv, PendingSteps, ToggleSteps, Settled
  <2>6. asked' = [asked EXCEPT ![k] = {}] /\ UNCHANGED <<confirmations, undos>>
    BY <1>8 DEF UndoToggle, UpdateStatus
  <2>7. \A m \in MatchIds : Settled(m)' <=> Settled(m)
    BY <2>2, <2>3 DEF Settled
  <2>8. TablesInv'
    <3>1. \A m \in MatchIds : UndoRequestedBy(m)' = UndoRequestedBy(m)
      BY <2>6 DEF UndoRequestedBy
    <3> QED
      BY <1>3, <2>1, <2>3, <2>4, <2>6, <2>7, <3>1 DEF SerialInv, TablesInv, TypeOK
  <2>9. CardInv'
    <3>1. \A m \in MatchIds : HasStatus(m, "PENDING")' <=> HasStatus(m, "PENDING")
      BY <2>2, <2>3 DEF Settled, HasStatus
    <3> QED
      BY <1>2, <1>3, <2>1, <2>3, <2>4, <2>7, <3>1 DEF SerialInv, CardInv
  <2> QED
    BY <1>2, <1>4, <2>4, <2>5, <2>8, <2>9 DEF SerialInv
<1> QED
  BY <1>6, <1>7, <1>8

LEMMA StartSteps ==
    ASSUME TypeOK, ConsentInv, SerialInv, Serial, NEW w \in Workers, Start(w)
    PROVE  SerialInv'
<1>1. PICK u \in Users :
        \/ \E pair \in Pairings : HandleMatch(w, u, pair)
        \/ \E m \in MatchIds :
              HandleConfirmTap(w, u, m) \/ HandleCancelTap(w, u, m) \/ HandleUndo(w, u, m)
  BY DEF Start
<1>2. ASSUME NEW pair \in Pairings, HandleMatch(w, u, pair)
      PROVE  SerialInv'
  <2>1. PICK admin \in IsChatAdmin(u) :
          LET m == matchCounters + 1
              row == [p1 |-> pair[1], p2 |-> pair[2], old |-> FALSE,
                      status |-> IF admin THEN "APPROVED" ELSE "PENDING"]
          IN  /\ AllocateAndInsertMatch(row)
              /\ Begin(w, IF admin THEN "announce" ELSE "authorConfirm", u, m, row, admin)
              /\ consent' = [consent EXCEPT ![m] = @ \cup {u}]
    BY <1>2 DEF HandleMatch
  <2> DEFINE k == matchCounters + 1
             row == [p1 |-> pair[1], p2 |-> pair[2], old |-> FALSE,
                     status |-> IF admin THEN "APPROVED" ELSE "PENDING"]
             s == IF admin THEN "announce" ELSE "authorConfirm"
  <2>2. /\ row \in MatchRows /\ admin \in BOOLEAN /\ s \in Steps
        /\ admin => u \in Admins
        /\ row.status = IF admin THEN "APPROVED" ELSE "PENDING"
    BY LifecycleAssumption DEF MatchRows, Statuses, IsChatAdmin, Steps
  <2>3. AllocateAndInsertMatch(row) /\ Begin(w, s, u, k, row, admin)
    BY <2>1
  <2>4. /\ CanStart(w)
        /\ UNCHANGED <<cron, card, expired, faults, asked>>
    BY <1>2 DEF HandleMatch
  <2> HIDE DEF row
  <2>5. /\ k \in MatchIds /\ matchCounters' = k
        /\ UNCHANGED <<confirmations, undos>>
    BY <2>2, <2>3, AllocateType DEF AllocateAndInsertMatch, TypeOK
  <2>6. \A m \in MatchIds :
          /\ Exists(m)' <=> m = k \/ Exists(m)
          /\ \A t : HasStatus(m, t)' <=> IF m = k THEN t = row.status ELSE HasStatus(m, t)
    BY <2>2, <2>3, AllocateWrites
  <2>7. matchCounters < k /\ ~Exists(k) /\ \A m \in MatchIds : k < m => matchCounters < m
    BY <2>5 DEF ConsentInv, RowsNumbered, TypeOK, StoreTypeOK, MatchIds
  <2>8. row.status = IF s = "announce" THEN "APPROVED" ELSE "PENDING"
    BY <2>2
  <2>9. s \in {"announce", "authorConfirm"}
    OBVIOUS
  <2> HIDE DEF k, s
  <2>10. /\ \A step, m : ~Working(step, m)
         /\ cron.at = "idle" /\ cron.todo = {}
         /\ OneAtATime'
         /\ \A step, m : Working(step, m)' <=> step = s /\ m = k
         /\ StepInv(w)' => JobsInv'
         /\ job'[w] = [at |-> s, user |-> u, mid |-> k, snap |-> row, admin |-> admin]
    BY <2>2, <2>3, <2>4, <2>5, WorkerBegins
  <2>11. CronInv'
    BY <2>4, <2>10 DEF CronInv
  <2>12. StepInv(w)'
    BY <2>2, <2>5, <2>6, <2>8, <2>9, <2>10 DEF StepInv, PendingSteps, ToggleSteps, Settled
  <2>13. \A m \in MatchIds : m # k => (Settled(m)' <=> Settled(m))
    BY <2>6 DEF Settled
  <2>14. ~Settled(k)
    BY <2>7 DEF Settled, HasStatus
  <2>15. TablesInv'
    <3>1. \A m \in MatchIds : UndoRequestedBy(m)' = UndoRequestedBy(m)
      BY <2>5 DEF UndoRequestedBy
    <3> QED
      BY <2>4, <2>5, <2>6, <2>7, <2>9, <2>10, <2>13, <2>14, <3>1 DEF SerialInv, TablesInv
  <2>16. CardInv'
    BY <2>4, <2>5, <2>6, <2>7, <2>8, <2>9, <2>10, <2>13 DEF SerialInv, CardInv
  <2> QED
    BY <2>4, <2>10, <2>11, <2>12, <2>15, <2>16 DEF SerialInv
<1>3. ASSUME NEW k \in MatchIds,
             HandleConfirmTap(w, u, k) \/ HandleCancelTap(w, u, k) \/ HandleUndo(w, u, k)
      PROVE  SerialInv'
  <2>1. PICK s \in {"confirmInsert", "cancelDelete", "undoList"}, admin \in BOOLEAN :
          /\ Begin(w, s, u, k, matches[k], admin)
          /\ admin => u \in Admins
          /\ s = "undoList" => Settled(k)
          /\ s # "undoList" => HasStatus(k, "PENDING")
    BY <1>3 DEF HandleConfirmTap, HandleCancelTap, HandleUndo, IsChatAdmin, Settled
  <2>2. /\ CanStart(w)
        /\ UNCHANGED <<matches, matchCounters, confirmations, undos, cron, card, expired, faults, asked>>
    BY <1>3 DEF HandleConfirmTap, HandleCancelTap, HandleUndo, store, history
  <2>3. s \in Steps /\ matches[k] \in MatchRows
    BY <2>1 DEF Steps, Settled, HasStatus, Exists, TypeOK, StoreTypeOK
  <2>4. /\ \A step, m : ~Working(step, m)
        /\ cron.at = "idle" /\ cron.todo = {}
        /\ OneAtATime'
        /\ \A step, m : Working(step, m)' <=> step = s /\ m = k
        /\ StepInv(w)' => JobsInv'
        /\ job'[w] = [at |-> s, user |-> u, mid |-> k, snap |-> matches[k], admin |-> admin]
    BY <2>1, <2>2, <2>3, WorkerBegins
  <2>5. CronInv'
    BY <2>2, <2>4 DEF CronInv
  <2>6. \A m \in MatchIds : /\ Exists(m)' <=> Exists(m)
                            /\ \A t : HasStatus(m, t)' <=> HasStatus(m, t)
                            /\ Settled(m)' <=> Settled(m)
    BY <2>2, SameRows DEF Settled
  <2>7. Settled(k) => HasStatus(k, matches[k].status)
    BY DEF Settled, HasStatus
  <2>8. StepInv(w)'
    BY <2>1, <2>4, <2>6, <2>7 DEF StepInv, PendingSteps, ToggleSteps
  <2>9. TablesInv'
    BY <2>1, <2>2, <2>4, QuietTables
  <2>10. CardInv'
    BY <2>2, <2>4, <2>6 DEF SerialInv, CardInv
  <2> QED
    BY <2>2, <2>4, <2>5, <2>8, <2>9, <2>10 DEF SerialInv
<1> QED
  BY <1>1, <1>2, <1>3

\* While the sweep runs, nobody works.
LEMMA CronAlone ==
    ASSUME SerialInv, Serial, CronStep
    PROVE  /\ \A w \in Workers : Idle(w)
           /\ \A step, m : ~Working(step, m)
           /\ UNCHANGED <<job, card, faults, matchCounters>>
           /\ OneAtATime' /\ JobsInv'
           /\ \A step, m : ~Working(step, m)'
<1>1. \A w \in Workers : Idle(w)
  BY DEF SerialInv, OneAtATime, CronStep, CronStart, CronAnnounce, CronListUndo, CronDone,
         CronExpire, CronExpireUndo, AllIdle
<1>2. UNCHANGED <<job, card, faults, matchCounters>>
  BY DEF CronStep, CronStart, CronAnnounce, CronListUndo, CronDone, CronExpire, CronExpireUndo,
         DeleteMatch, DeleteConfirmations, DeleteUndo, store
<1>3. \A w \in Workers : Idle(w)'
  BY <1>1, <1>2 DEF Idle
<1> QED
  BY <1>1, <1>2, <1>3 DEF OneAtATime, JobsInv, Working, At

LEMMA CronSteps ==
    ASSUME TypeOK, ConsentInv, SerialInv, Serial, CronStep
    PROVE  SerialInv'
<1>1. /\ \A step, m : ~Working(step, m)
      /\ UNCHANGED <<job, card, faults, matchCounters>>
      /\ OneAtATime' /\ JobsInv'
      /\ \A step, m : ~Working(step, m)'
  BY CronAlone
<1>2. CASE CronStart \/ CronListUndo \/ CronDone
  <2>1. UNCHANGED <<matches, confirmations, undos, asked, expired>>
    BY <1>2 DEF CronStart, CronListUndo, CronDone, store, history
  <2>2. \A m \in MatchIds : /\ Exists(m)' <=> Exists(m)
                            /\ \A t : HasStatus(m, t)' <=> HasStatus(m, t)
                            /\ Settled(m)' <=> Settled(m)
    BY <2>1, SameRows DEF Settled
  <2>3. /\ cron.at # "expireClear" /\ cron'.at # "expireClear"
        /\ cron'.at \in {"idle", "undo"} => cron'.todo = {}
        /\ cron'.todo \subseteq PendingExpired
    <3>1. CASE CronStart
      BY <3>1 DEF CronStart, CronIdle
    <3>2. CASE CronListUndo
      BY <3>2 DEF CronListUndo, TypeOK, Crons
    <3>3. CASE CronDone
      BY <3>3 DEF CronDone, CronIdle
    <3> QED
      BY <1>2, <3>1, <3>2, <3>3
  <2>4. CronInv'
    BY <2>2, <2>3 DEF CronInv, PendingExpired
  <2>5. TablesInv'
    BY <1>1, <2>1, QuietTables
  <2>6. CardInv'
    BY <1>1, <2>1, <2>2, <2>3 DEF SerialInv, CardInv
  <2> QED
    BY <1>1, <2>4, <2>5, <2>6 DEF SerialInv
<1>3. CASE CronAnnounce
  <2> DEFINE k == cron.mid
  <2>1. k \in MatchIds /\ ~Exists(k) /\ cron.at = "expireClear"
    BY <1>3 DEF CronAnnounce, TypeOK, SerialInv, CronInv
  <2>2. /\ UNCHANGED <<matches, undos, asked>>
        /\ confirmations' \subseteq confirmations
        /\ expired' = expired \cup {k}
        /\ cron'.at = "expire" /\ cron'.todo = cron.todo
    BY <1>3 DEF CronAnnounce, DeleteConfirmations, history, TypeOK, Crons
  <2>3. \A m \in MatchIds : /\ Exists(m)' <=> Exists(m)
                            /\ \A t : HasStatus(m, t)' <=> HasStatus(m, t)
                            /\ Settled(m)' <=> Settled(m)
                            /\ UndoRequestedBy(m)' = UndoRequestedBy(m)
    BY <2>2, SameRows DEF Settled, UndoRequestedBy
  <2> HIDE DEF k
  <2>4. CronInv'
    BY <2>2, <2>3 DEF SerialInv, CronInv, TypeOK, Crons
  <2>5. TablesInv'
    BY <1>1, <2>2, <2>3 DEF SerialInv, TablesInv
  <2>6. CardInv'
    BY <1>1, <2>2, <2>3 DEF SerialInv, CardInv, k
  <2> QED
    BY <1>1, <2>4, <2>5, <2>6 DEF SerialInv
<1>4. ASSUME NEW k \in MatchIds, CronExpire(k)
      PROVE  SerialInv'
  <2>1. k \in cron.todo /\ cron.at = "expire" /\ HasStatus(k, "PENDING") /\ Exists(k)
    BY <1>4 DEF CronExpire, SerialInv, CronInv, HasStatus
  <2>2. \A m \in MatchIds :
          /\ Exists(m)' <=> m # k /\ Exists(m)
          /\ \A t : HasStatus(m, t)' <=> m # k /\ HasStatus(m, t)
          /\ \A u \in Users : /\ <<m, u>> \in confirmations' <=> m # k /\ <<m, u>> \in confirmations
                              /\ <<m, u>> \in undos' <=> m # k /\ <<m, u>> \in undos
    BY <1>4, <2>1, DeleteMatchWrites DEF CronExpire
  <2>3. /\ UNCHANGED <<asked, expired>>
        /\ cron'.at = "expireClear" /\ cron'.mid = k /\ cron'.todo = cron.todo \ {k}
    BY <1>4, <2>1 DEF CronExpire, DeleteSucceeds, TypeOK, Crons
  <2>4. ~Settled(k) /\ \A m \in MatchIds : Settled(m)' <=> m # k /\ Settled(m)
    BY <2>1, <2>2 DEF Settled, HasStatus
  <2>5. CronInv'
    BY <2>2, <2>3 DEF SerialInv, CronInv, TypeOK, Crons
  <2>6. TablesInv'
    <3>1. \A m \in MatchIds : UndoRequestedBy(m)' = UndoRequestedBy(m)
      BY <2>2, <2>4 DEF SerialInv, TablesInv, UndoRequestedBy
    <3> QED
      BY <1>1, <2>2, <2>3, <2>4, <3>1 DEF SerialInv, TablesInv
  <2>7. CardInv'
    BY <1>1, <2>1, <2>2, <2>3, <2>4 DEF SerialInv, CardInv
  <2> QED
    BY <1>1, <2>5, <2>6, <2>7 DEF SerialInv
<1>5. ASSUME NEW k \in MatchIds, NEW v \in Users, CronExpireUndo(k, v)
      PROVE  SerialInv'
  <2>1. /\ undos' = undos \ {<<k, v>>}
        /\ asked' = [asked EXCEPT ![k] = @ \ {v}]
        /\ UNCHANGED <<matches, confirmations, expired>>
        /\ cron.at = "undo" /\ cron'.at = "undo" /\ cron'.todo = cron.todo
    BY <1>5 DEF CronExpireUndo, DeleteUndo, TypeOK, Crons
  <2>2. \A m \in MatchIds : /\ Exists(m)' <=> Exists(m)
                            /\ \A t : HasStatus(m, t)' <=> HasStatus(m, t)
                            /\ Settled(m)' <=> Settled(m)
    BY <2>1, SameRows DEF Settled
  <2>3. CronInv'
    BY <2>1 DEF SerialInv, CronInv
  <2>4. TablesInv'
    <3> SUFFICES ASSUME NEW m \in MatchIds
                 PROVE  /\ \A x \in Users : <<m, x>> \in confirmations' => Exists(m)'
                        /\ \A x \in Users : <<m, x>> \in undos' => Settled(m)'
                        /\ asked'[m] = UndoRequestedBy(m)'
      BY <1>1 DEF TablesInv
    <3>1. asked[m] = UndoRequestedBy(m)
      BY <1>1 DEF SerialInv, TablesInv
    <3>2. asked'[m] = UndoRequestedBy(m)'
      BY <2>1, <3>1 DEF TypeOK, UndoRequestedBy
    <3> QED
      BY <2>1, <2>2, <3>2 DEF SerialInv, TablesInv
  <2>5. CardInv'
    BY <1>1, <2>1, <2>2 DEF SerialInv, CardInv
  <2> QED
    BY <1>1, <2>3, <2>4, <2>5 DEF SerialInv
<1> QED
  BY <1>2, <1>3, <1>4, <1>5 DEF CronStep

\* Nothing changes but the age of rows.
LEMMA OnlyAges ==
    ASSUME TypeOK, SerialInv,
           UNCHANGED <<matchCounters, confirmations, undos, asked, job, cron, card, expired, faults>>,
           \A m \in MatchIds : /\ Exists(m)' <=> Exists(m)
                               /\ \A t : HasStatus(m, t)' <=> HasStatus(m, t)
    PROVE  SerialInv'
<1>1. \A m \in MatchIds : /\ Settled(m)' <=> Settled(m)
                          /\ UndoRequestedBy(m)' = UndoRequestedBy(m)
  BY DEF Settled, UndoRequestedBy
<1>2. \A step, m : Working(step, m)' <=> Working(step, m)
  BY DEF Working, At, Idle
<1>3. OneAtATime' /\ \A w \in Workers : Idle(w)' <=> Idle(w)
  BY DEF SerialInv, OneAtATime, Idle
<1>4. JobsInv'
  <2> SUFFICES ASSUME NEW w \in Workers, ~Idle(w)
               PROVE  StepInv(w)'
    BY <1>3 DEF JobsInv
  <2>1. StepInv(w) /\ job[w].mid \in MatchIds
    BY BusyWorker
  <2>2. /\ UndoRequestedBy(job[w].mid)' = UndoRequestedBy(job[w].mid)
        /\ ConfirmedBy(job[w].mid)' = ConfirmedBy(job[w].mid)
    BY DEF UndoRequestedBy, ConfirmedBy
  <2> QED
    BY <1>1, <2>1, <2>2 DEF StepInv, Vouched
<1>5. CronInv'
  BY DEF SerialInv, CronInv, TypeOK, Crons
<1>6. TablesInv'
  BY <1>1, <1>2 DEF SerialInv, TablesInv
<1>7. CardInv'
  BY <1>1, <1>2 DEF SerialInv, CardInv
<1> QED
  BY <1>3, <1>4, <1>5, <1>6, <1>7 DEF SerialInv

\* Time passes under the feet of handlers and sweeps, and no call fails.
LEMMA EnvironmentSteps ==
    ASSUME TypeOK, SerialInv, MaxFaults = 0, Environment
    PROVE  SerialInv'
<1>1. \/ \E m \in MatchIds : MatchTimesOut(m)
      \/ \E m \in MatchIds, u \in Users : UndoTimesOut(m, u)
  BY DEF Environment, Crash, IgnoreError, CronAbandons, Fault, SerialInv
<1>2. UNCHANGED <<matchCounters, confirmations, undos, asked, job, cron, card, expired, faults>>
  BY <1>1 DEF MatchTimesOut, UndoTimesOut, MatchAges, UndoAges, procs, history
<1>3. \A m \in MatchIds : /\ Exists(m)' <=> Exists(m)
                          /\ \A t : HasStatus(m, t)' <=> HasStatus(m, t)
  BY <1>1, AgesWrites, SameRows DEF MatchTimesOut, UndoTimesOut, UndoAges
<1> QED
  BY <1>2, <1>3, OnlyAges

LEMMA SerialInit == Init => SerialInv
<1> SUFFICES ASSUME Init PROVE SerialInv
  OBVIOUS
<1>1. \A w \in Workers : Idle(w)
  BY DEF Init, Idle
<1>2. \A m \in MatchIds : ~Exists(m) /\ \A t : ~HasStatus(m, t)
  BY DEF Init, StoreInit, Exists, HasStatus
<1>3. OneAtATime /\ JobsInv /\ \A step, m : ~Working(step, m)
  BY <1>1 DEF OneAtATime, JobsInv, Working, At
<1>4. CronInv
  BY DEF Init, CronIdle, CronInv
<1>5. TablesInv
  BY <1>3 DEF Init, StoreInit, TablesInv, UndoRequestedBy
<1>6. CardInv
  BY <1>2, <1>3 DEF Init, CardInv
<1> QED
  BY <1>3, <1>4, <1>5, <1>6 DEF Init, SerialInv

LEMMA SerialStep ==
    ASSUME TypeOK, ConsentInv, SerialInv, Serial, MaxFaults = 0, [Next]_vars
    PROVE  SerialInv'
<1>1. ASSUME NEW w \in Workers, Step(w)
      PROVE  SerialInv'
  BY <1>1, QuietSteps, RowSteps, StatusSteps DEF Step
<1>2. CASE UNCHANGED vars
  BY <1>2, SameRows, OnlyAges DEF vars, store, procs, history
<1> QED
  BY <1>1, <1>2, StartSteps, CronSteps, EnvironmentSteps DEF Next

\* Handlers that run one at a time and whose calls do not fail keep the
\* inductive invariant.
LEMMA SerialInvariant ==
    ASSUME Serial, MaxFaults = 0
    PROVE  Spec => [](TypeOK /\ ConsentInv /\ SerialInv)
<1>1. TypeOK /\ TypeOK' /\ ConsentInv /\ [Next]_vars => ConsentInv'
  BY ConsentStep
<1>2. TypeOK /\ ConsentInv /\ SerialInv /\ [Next]_vars => SerialInv'
  BY SerialStep
<1> QED
  BY <1>1, <1>2, ConsentInit, SerialInit, TypeCorrect, PTL DEF Spec

\* No confirmation or undo request is ever left behind by a match that was
\* cancelled or has expired, for any users and number of matches and with
\* either store.
THEOREM TablesWithoutOrphans ==
    ASSUME Serial, MaxFaults = 0
    PROVE  Spec => []NoOrphans
<1>1. TypeOK /\ SerialInv => NoOrphans
  BY DEF TypeOK, StoreTypeOK, SerialInv, TablesInv, NoOrphans, Settled, HasStatus
<1> QED
  BY <1>1, SerialInvariant, PTL

\* Between handlers, every card says what the database says of its match.
THEOREM TruthfulCards ==
    ASSUME Serial, MaxFaults = 0
    PROVE  Spec => []CardTruthful
<1>1. SerialInv => CardTruthful
  BY DEF SerialInv, CardInv, CardTruthful, AllIdle, Working, At, Settled
<1> QED
  BY <1>1, SerialInvariant, PTL

-----------------------------------------------------------------------------
(* The ledger *)

\* The open requests of the ledger are the requests that count.
LEMMA OpenRequests ==
    /\ TypeOK /\ SerialInv => LedgerRequests = asked
    /\ TypeOK' /\ SerialInv' => LedgerRequests' = asked'
BY DEF TypeOK, SerialInv, TablesInv, LedgerRequests, Working

\* A step that leaves the rows alone leaves the ledger's matches alone.
LEMMA SameMatches ==
    ASSUME UNCHANGED <<matches, matchCounters>>
    PROVE  LedgerStatus' = LedgerStatus /\ LedgerPlayers' = LedgerPlayers
BY DEF LedgerStatus, LedgerPlayers, Exists

\* Nor does the age of a row show in the ledger.
LEMMA AgesInLedger ==
    ASSUME TypeOK, NEW k \in MatchIds, MatchAges(k)
    PROVE  LedgerStatus' = LedgerStatus /\ LedgerPlayers' = LedgerPlayers
<1>1. matches[k] \in MatchRows /\ [matches[k] EXCEPT !.old = TRUE] \in MatchRows
  BY DEF TypeOK, StoreTypeOK, MatchAges, HasStatus, Exists, MatchRows
<1>2. /\ matches' = [matches EXCEPT ![k] = [matches[k] EXCEPT !.old = TRUE]]
      /\ matchCounters' = matchCounters
  BY DEF MatchAges
<1>3. \A m \in MatchIds :
          /\ Exists(m)' <=> Exists(m)
          /\ Exists(m) => /\ matches'[m].status = matches[m].status
                          /\ matches'[m].p1 = matches[m].p1 /\ matches'[m].p2 = matches[m].p2
  <2>1. /\ [matches[k] EXCEPT !.old = TRUE].status = matches[k].status
        /\ [matches[k] EXCEPT !.old = TRUE].p1 = matches[k].p1
        /\ [matches[k] EXCEPT !.old = TRUE].p2 = matches[k].p2
    BY <1>1 DEF MatchRows
  <2>2. \A m \in MatchIds :
            matches'[m] = IF m = k THEN [matches[k] EXCEPT !.old = TRUE] ELSE matches[m]
    BY <1>2 DEF TypeOK, StoreTypeOK
  <2> QED
    BY <1>1, <2>1, <2>2, StoreAssumption DEF Exists
<1> QED
  BY <1>2, <1>3 DEF LedgerStatus, LedgerPlayers

\* A status write changes the status of one match and nobody's players.
LEMMA UpdateStatusInLedger ==
    ASSUME TypeOK, NEW k \in MatchIds, NEW s \in Statuses, Exists(k), UpdateStatus(k, s)
    PROVE  /\ LedgerStatus' = [LedgerStatus EXCEPT ![k] = s]
           /\ LedgerPlayers' = LedgerPlayers
<1>1. matches[k] \in MatchRows /\ [matches[k] EXCEPT !.status = s] \in MatchRows
  BY DEF TypeOK, StoreTypeOK, Exists, MatchRows
<1>2. /\ matches' = [matches EXCEPT ![k] = [matches[k] EXCEPT !.status = s]]
      /\ matchCounters' = matchCounters
  BY DEF UpdateStatus
<1>3. \A m \in MatchIds :
          /\ Exists(m)' <=> Exists(m)
          /\ Exists(m) => /\ matches'[m].status = IF m = k THEN s ELSE matches[m].status
                          /\ matches'[m].p1 = matches[m].p1 /\ matches'[m].p2 = matches[m].p2
  BY <1>1, <1>2, StoreAssumption DEF TypeOK, StoreTypeOK, Exists, MatchRows
<1> QED
  BY <1>2, <1>3 DEF LedgerStatus, LedgerPlayers

\* A deleted match is dropped, with its players and confirmations.
LEMMA DeleteInLedger ==
    ASSUME TypeOK, ConsentInv, NEW k \in MatchIds, Exists(k), DeleteMatch(k)
    PROVE  /\ LedgerStatus' = [LedgerStatus EXCEPT ![k] = "dropped"]
           /\ LedgerPlayers' = [LedgerPlayers EXCEPT ![k] = {}]
           /\ [m \in MatchIds |-> ConfirmedBy(m)']
                = [[m \in MatchIds |-> ConfirmedBy(m)] EXCEPT ![k] = {}]
<1>1. matches' = [matches EXCEPT ![k] = NoMatch] /\ matchCounters' = matchCounters
  BY DEF DeleteMatch
<1>2. k <= matchCounters
  BY DEF ConsentInv, RowsNumbered
<1>3. \A m \in MatchIds : ConfirmedBy(m)' = IF m = k THEN {} ELSE ConfirmedBy(m)
  BY DeleteMatchWrites DEF ConfirmedBy
<1> QED
  BY <1>1, <1>2, <1>3 DEF LedgerStatus, LedgerPlayers, Exists, TypeOK, StoreTypeOK

\* A new row is the next free entry.
LEMMA AllocateInLedger ==
    ASSUME TypeOK, ConsentInv, NEW row \in MatchRows, AllocateAndInsertMatch(row)
    PROVE  LET k == matchCounters + 1
           IN  /\ k \in MatchIds
               /\ LedgerStatus[k] = "free"
               /\ \A m \in 1..(k - 1) : LedgerStatus[m] # "free"
               /\ LedgerStatus' = [LedgerStatus EXCEPT ![k] = row.status]
               /\ LedgerPlayers' = [LedgerPlayers EXCEPT ![k] = {row.p1, row.p2}]
<1> DEFINE k == matchCounters + 1
<1>1. /\ k \in MatchIds /\ matchCounters \in Nat /\ MaxMatches \in Nat
      /\ matches' = [matches EXCEPT ![k] = row] /\ matchCounters' = k
  BY StoreAssumption DEF AllocateAndInsertMatch, TypeOK, StoreTypeOK, MatchIds
<1>2. ~Exists(k)
  BY <1>1 DEF ConsentInv, RowsNumbered
<1>3. \A m \in 1..(k - 1) : m \in MatchIds /\ m <= matchCounters
  BY <1>1 DEF MatchIds
<1>4. \A m \in MatchIds : Exists(m) => matches[m].status # "free"
  BY DEF Exists, TypeOK, StoreTypeOK, MatchRows, Statuses
<1>5. LedgerStatus[k] = "free" /\ \A m \in 1..(k - 1) : LedgerStatus[m] # "free"
  BY <1>1, <1>2, <1>3, <1>4 DEF LedgerStatus
<1>6. \A m \in MatchIds : Exists(m)' <=> m = k \/ Exists(m)
  BY <1>1, StoreAssumption DEF Exists, TypeOK, StoreTypeOK
<1>7. \A m \in MatchIds : m # k => (m <= matchCounters' <=> m <= matchCounters)
  BY <1>1 DEF MatchIds
<1>8. \A m \in MatchIds : matches'[m] = IF m = k THEN row ELSE matches[m]
  BY <1>1 DEF TypeOK, StoreTypeOK
<1>9. LedgerStatus' = [LedgerStatus EXCEPT ![k] = row.status]
  <2>1. \A m \in MatchIds : LedgerStatus'[m] = IF m = k THEN row.status ELSE LedgerStatus[m]
    BY <1>6, <1>7, <1>8 DEF LedgerStatus
  <2> QED
    BY <1>1, <2>1 DEF LedgerStatus
<1>10. LedgerPlayers' = [LedgerPlayers EXCEPT ![k] = {row.p1, row.p2}]
  BY <1>1, <1>6, <1>8 DEF LedgerPlayers
<1> QED
  BY <1>1, <1>5, <1>9, <1>10

\* What the ledger is shown of the confirmations.
Vouchers == [m \in MatchIds |-> ConfirmedBy(m)]

LEMMA InsertInLedger ==
    ASSUME NEW k \in MatchIds, NEW u \in Users, InsertConfirmation(k, u)
    PROVE  Vouchers' = [Vouchers EXCEPT ![k] = @ \cup {u}]
<1>1. \A m \in MatchIds :
          ConfirmedBy(m)' = IF m = k THEN ConfirmedBy(m) \cup {u} ELSE ConfirmedBy(m)
  BY DEF InsertConfirmation, ConfirmedBy
<1> QED
  BY <1>1 DEF Vouchers

\* What nobody sees: the ledger stands still.
LEMMA LedgerStutter ==
    ASSUME TypeOK, TypeOK', SerialInv, SerialInv',
           LedgerStatus' = LedgerStatus, LedgerPlayers' = LedgerPlayers,
           UNCHANGED <<confirmations, asked>>
    PROVE  UNCHANGED Ledger!ledger
<1>1. LedgerRequests = asked
  BY OpenRequests
<1>2. LedgerRequests' = asked'
  BY OpenRequests
<1>3. Vouchers' = Vouchers
  BY DEF Vouchers, ConfirmedBy
<1> QED
  BY <1>1, <1>2, <1>3 DEF Ledger!ledger, Vouchers

\* The status that the ledger has for a match with a row.
LEMMA RowInLedger ==
    ASSUME NEW m \in MatchIds, NEW t, HasStatus(m, t)
    PROVE  /\ LedgerStatus[m] = t
           /\ LedgerPlayers[m] = {matches[m].p1, matches[m].p2}
BY DEF HasStatus, LedgerStatus, LedgerPlayers

\* A handler that starts registers a match, or shows nothing yet.
LEMMA StartInLedger ==
    ASSUME TypeOK, TypeOK', ConsentInv, SerialInv, SerialInv', NEW w \in Workers, Start(w)
    PROVE  [Ledger!LedgerNext]_(Ledger!ledger)
<1>1. LedgerRequests = asked
  BY OpenRequests
<1>2. LedgerRequests' = asked'
  BY OpenRequests
<1>3. ASSUME NEW u \in Users, NEW pair \in Pairings, HandleMatch(w, u, pair)
      PROVE  Ledger!LedgerNext
  <2>1. pair[1] \in Users /\ pair[2] \in Users /\ pair[1] # pair[2]
    BY <1>3, LifecycleAssumption DEF HandleMatch
  <2>2. PICK admin \in IsChatAdmin(u) :
          AllocateAndInsertMatch([p1 |-> pair[1], p2 |-> pair[2], old |-> FALSE,
                                  status |-> IF admin THEN "APPROVED" ELSE "PENDING"])
    BY <1>3 DEF HandleMatch
  <2> DEFINE k == matchCounters + 1
             row == [p1 |-> pair[1], p2 |-> pair[2], old |-> FALSE,
                     status |-> IF admin THEN "APPROVED" ELSE "PENDING"]
  <2>3. row \in MatchRows
    BY <2>1 DEF MatchRows, Statuses
  <2>4. /\ k \in MatchIds
        /\ LedgerStatus[k] = "free"
        /\ \A m \in 1..(k - 1) : LedgerStatus[m] # "free"
        /\ LedgerStatus' = [LedgerStatus EXCEPT ![k] = row.status]
        /\ LedgerPlayers' = [LedgerPlayers EXCEPT ![k] = {row.p1, row.p2}]
    BY <2>2, <2>3, AllocateInLedger
  <2>5. Vouchers' = Vouchers /\ LedgerRequests' = LedgerRequests
    BY <1>1, <1>2, <1>3, <2>2 DEF Vouchers, ConfirmedBy, AllocateAndInsertMatch, HandleMatch
  <2>6. row.status = "PENDING" \/ (u \in Admins /\ row.status = "APPROVED")
    BY <2>2 DEF IsChatAdmin
  <2>7. row.p1 = pair[1] /\ row.p2 = pair[2]
    OBVIOUS
  <2> HIDE DEF k, row
  <2>8. Ledger!Register(k, u, {pair[1], pair[2]})
    BY <2>4, <2>5, <2>6, <2>7 DEF Ledger!Register, Vouchers
  <2> QED
    BY <2>1, <2>4, <2>8 DEF Ledger!LedgerNext, Ledger!Ids, MatchIds
<1>4. ASSUME NEW u \in Users, NEW m \in MatchIds,
             HandleConfirmTap(w, u, m) \/ HandleCancelTap(w, u, m) \/ HandleUndo(w, u, m)
      PROVE  UNCHANGED Ledger!ledger
  <2>1. UNCHANGED <<matches, matchCounters, confirmations, asked>>
    BY <1>4 DEF HandleConfirmTap, HandleCancelTap, HandleUndo, store, history
  <2> QED
    BY <2>1, SameMatches, LedgerStutter
<1> QED
  BY <1>3, <1>4 DEF Start

\* The steps of a handler: one entry of the ledger each, or none.
LEMMA StepInLedger ==
    ASSUME TypeOK, TypeOK', ConsentInv, SerialInv, SerialInv', NEW w \in Workers, Step(w)
    PROVE  [Ledger!LedgerNext]_(Ledger!ledger)
<1>1. LedgerRequests = asked
  BY OpenRequests
<1>2. LedgerRequests' = asked'
  BY OpenRequests
<1>3. ~Idle(w)
  BY DEF Step, At, Announce, AuthorConfirm, SendCard, ConfirmInsert, ConfirmDecide, ConfirmApprove,
         ConfirmEdit, ConfirmRemaining, CancelDelete, CancelEdit, UndoList, UndoWithdraw,
         UndoInsert, UndoCheck, UndoToggle, UndoClear
<1>4. PICK m \in MatchIds, u \in Users, row \in MatchRows :
        m = job[w].mid /\ u = job[w].user /\ row = job[w].snap
  BY <1>3, BusyWorker
<1>5. /\ StepInv(w)
      /\ asked[m] = IF job[w].at = "undoClear" THEN {} ELSE UndoRequestedBy(m)
      /\ Exists(m) => matches[m].p1 = row.p1 /\ matches[m].p2 = row.p2
  <2>1. StepInv(w) /\ (Working("undoClear", m) <=> job[w].at = "undoClear")
    BY <1>3, <1>4, BusyWorker
  <2> QED
    BY <2>1, <1>3, <1>4 DEF SerialInv, TablesInv, ConsentInv, SnapshotAgrees, SamePlayers
<1>6. CASE AuthorConfirm(w) \/ ConfirmInsert(w)
  <2>1. HasStatus(m, "PENDING") /\ InsertConfirmation(m, u) /\ UNCHANGED asked
    BY <1>4, <1>5, <1>6 DEF AuthorConfirm, ConfirmInsert, At, StepInv, PendingSteps, history
  <2>2. LedgerStatus' = LedgerStatus /\ LedgerPlayers' = LedgerPlayers
    BY <2>1, SameMatches DEF InsertConfirmation
  <2>3. Vouchers' = [Vouchers EXCEPT ![m] = @ \cup {u}] /\ LedgerStatus[m] = "PENDING"
    BY <2>1, InsertInLedger, RowInLedger
  <2>4. Ledger!Vouch(m, u)
    BY <1>1, <1>2, <2>1, <2>2, <2>3 DEF Ledger!Vouch, Vouchers
  <2> QED
    BY <2>4 DEF Ledger!LedgerNext, Ledger!Ids, MatchIds
<1>7. CASE ConfirmApprove(w)
  <2>1. /\ HasStatus(m, "PENDING") /\ Vouched(ConfirmedBy(m), row)
        /\ UpdateStatus(m, "APPROVED") /\ UNCHANGED asked
    BY <1>4, <1>5, <1>7 DEF ConfirmApprove, At, StepInv, PendingSteps, history
  <2>2. Exists(m) /\ UNCHANGED confirmations
    BY <2>1 DEF HasStatus, UpdateStatus
  <2>3. /\ LedgerStatus' = [LedgerStatus EXCEPT ![m] = "APPROVED"]
        /\ LedgerPlayers' = LedgerPlayers
    BY <2>1, <2>2, UpdateStatusInLedger DEF Statuses
  <2>4. LedgerStatus[m] = "PENDING" /\ LedgerPlayers[m] = {row.p1, row.p2}
    BY <1>5, <2>1, <2>2, RowInLedger
  <2>5. Vouchers' = Vouchers /\ Vouchers[m] = ConfirmedBy(m)
    BY <2>2 DEF Vouchers, ConfirmedBy
  <2>6. Ledger!Approve(m)
    BY <1>1, <1>2, <2>1, <2>3, <2>4, <2>5
       DEF Ledger!Approve, Ledger!Enough, Vouched, Vouchers
  <2> QED
    BY <2>6 DEF Ledger!LedgerNext, Ledger!Ids, MatchIds
<1>8. CASE CancelDelete(w)
  <2>1. HasStatus(m, "PENDING") /\ DeleteMatch(m) /\ UNCHANGED asked
    BY <1>4, <1>5, <1>8 DEF CancelDelete, At, StepInv, PendingSteps
  <2>2. /\ LedgerStatus' = [LedgerStatus EXCEPT ![m] = "dropped"]
        /\ LedgerPlayers' = [LedgerPlayers EXCEPT ![m] = {}]
        /\ Vouchers' = [Vouchers EXCEPT ![m] = {}]
    BY <2>1, DeleteInLedger DEF HasStatus, Vouchers
  <2>3. LedgerStatus[m] = "PENDING"
    BY <2>1, RowInLedger
  <2>4. Ledger!Drop(m)
    BY <1>1, <1>2, <2>1, <2>2, <2>3 DEF Ledger!Drop, Vouchers
  <2> QED
    BY <2>4 DEF Ledger!LedgerNext, Ledger!Ids, MatchIds
<1>9. CASE UndoInsert(w)
  <2>1. /\ Settled(m) /\ UNCHANGED <<matches, matchCounters, confirmations>>
        /\ asked' = [asked EXCEPT ![m] = @ \cup {u}]
    BY <1>4, <1>5, <1>9 DEF UndoInsert, At, StepInv, ToggleSteps, InsertUndo
  <2>2. /\ LedgerStatus' = LedgerStatus /\ LedgerPlayers' = LedgerPlayers
        /\ Vouchers' = Vouchers
    BY <2>1, SameMatches DEF Vouchers, ConfirmedBy
  <2>3. LedgerStatus[m] \in {"APPROVED", "UNDONE"}
    BY <2>1, RowInLedger DEF Settled
  <2>4. Ledger!Ask(m, u)
    BY <1>1, <1>2, <2>1, <2>2, <2>3 DEF Ledger!Ask, Vouchers
  <2> QED
    BY <2>4 DEF Ledger!LedgerNext, Ledger!Ids, MatchIds
<1>10. CASE UndoWithdraw(w)
  <2>1. /\ UNCHANGED <<matches, matchCounters, confirmations>>
        /\ asked' = [asked EXCEPT ![m] = @ \ {u}]
    BY <1>4, <1>10 DEF UndoWithdraw, DeleteUndo
  <2>2. /\ LedgerStatus' = LedgerStatus /\ LedgerPlayers' = LedgerPlayers
        /\ Vouchers' = Vouchers
    BY <2>1, SameMatches DEF Vouchers, ConfirmedBy
  <2>3. Ledger!Retract(m, u)
    BY <1>1, <1>2, <2>1, <2>2 DEF Ledger!Retract, Vouchers
  <2> QED
    BY <2>3 DEF Ledger!LedgerNext, Ledger!Ids, MatchIds
<1>11. CASE UndoToggle(w)
  <2>1. /\ HasStatus(m, row.status) /\ Settled(m) /\ Vouched(UndoRequestedBy(m), row)
        /\ asked[m] = UndoRequestedBy(m)
        /\ UpdateStatus(m, Toggled(row.status))
        /\ asked' = [asked EXCEPT ![m] = {}]
    BY <1>4, <1>5, <1>11 DEF UndoToggle, At, StepInv, ToggleSteps
  <2>2. /\ Exists(m) /\ UNCHANGED confirmations
        /\ row.status \in {"APPROVED", "UNDONE"}
    BY <2>1 DEF HasStatus, UpdateStatus, Settled
  <2>3. /\ LedgerStatus' = [LedgerStatus EXCEPT ![m] = Toggled(row.status)]
        /\ LedgerPlayers' = LedgerPlayers
    BY <2>1, <2>2, UpdateStatusInLedger DEF Statuses, Toggled
  <2>4. LedgerStatus[m] = row.status /\ LedgerPlayers[m] = {row.p1, row.p2}
    BY <1>5, <2>1, <2>2, RowInLedger
  <2>5. Vouchers' = Vouchers
    BY <2>2 DEF Vouchers, ConfirmedBy
  <2>6. Ledger!Enough(LedgerRequests[m], m)
    BY <1>1, <2>1, <2>4 DEF Ledger!Enough, Vouched
  <2>7. LedgerRequests' = [LedgerRequests EXCEPT ![m] = {}]
    BY <1>1, <1>2, <2>1
  <2>8. Ledger!Toggle(m)
    BY <2>2, <2>3, <2>4, <2>5, <2>6, <2>7 DEF Ledger!Toggle, Vouchers, Toggled
  <2> QED
    BY <2>8 DEF Ledger!LedgerNext, Ledger!Ids, MatchIds
<1>12. CASE \/ Announce(w) \/ SendCard(w) \/ ConfirmDecide(w) \/ ConfirmEdit(w)
            \/ ConfirmRemaining(w) \/ CancelEdit(w) \/ UndoList(w) \/ UndoCheck(w) \/ UndoClear(w)
  <2>1. UNCHANGED <<matches, matchCounters, confirmations, asked>>
    BY <1>12 DEF Announce, SendCard, ConfirmDecide, ConfirmEdit, ConfirmRemaining, CancelEdit,
                 UndoList, UndoCheck, UndoClear, DeleteUndosForMatch, store, history
  <2> QED
    BY <2>1, SameMatches, LedgerStutter
<1> QED
  BY <1>6, <1>7, <1>8, <1>9, <1>10, <1>11, <1>12 DEF Step

\* The sweep drops matches and retracts requests.
LEMMA CronInLedger ==
    ASSUME TypeOK, TypeOK', ConsentInv, SerialInv, SerialInv', CronStep
    PROVE  [Ledger!LedgerNext]_(Ledger!ledger)
<1>1. LedgerRequests = asked
  BY OpenRequests
<1>2. LedgerRequests' = asked'
  BY OpenRequests
<1>3. ASSUME NEW m \in MatchIds, CronExpire(m)
      PROVE  Ledger!LedgerNext
  <2>1. HasStatus(m, "PENDING") /\ DeleteMatch(m) /\ UNCHANGED asked
    BY <1>3 DEF CronExpire, SerialInv, CronInv
  <2>2. /\ LedgerStatus' = [LedgerStatus EXCEPT ![m] = "dropped"]
        /\ LedgerPlayers' = [LedgerPlayers EXCEPT ![m] = {}]
        /\ Vouchers' = [Vouchers EXCEPT ![m] = {}]
    BY <2>1, DeleteInLedger DEF HasStatus, Vouchers
  <2>3. LedgerStatus[m] = "PENDING"
    BY <2>1, RowInLedger
  <2>4. Ledger!Drop(m)
    BY <1>1, <1>2, <2>1, <2>2, <2>3 DEF Ledger!Drop, Vouchers
  <2> QED
    BY <2>4 DEF Ledger!LedgerNext, Ledger!Ids, MatchIds
<1>4. ASSUME NEW m \in MatchIds, NEW u \in Users, CronExpireUndo(m, u)
      PROVE  Ledger!LedgerNext
  <2>1. /\ UNCHANGED <<matches, matchCounters, confirmations>>
        /\ asked' = [asked EXCEPT ![m] = @ \ {u}]
    BY <1>4 DEF CronExpireUndo, DeleteUndo
  <2>2. /\ LedgerStatus' = LedgerStatus /\ LedgerPlayers' = LedgerPlayers
        /\ Vouchers' = Vouchers
    BY <2>1, SameMatches DEF Vouchers, ConfirmedBy
  <2>3. Ledger!Retract(m, u)
    BY <1>1, <1>2, <2>1, <2>2 DEF Ledger!Retract, Vouchers
  <2> QED
    BY <2>3 DEF Ledger!LedgerNext, Ledger!Ids, MatchIds
<1>5. CASE CronAnnounce
  <2>1. /\ UNCHANGED <<matches, matchCounters, asked>>
        /\ confirmations' = confirmations \ ({cron.mid} \X Users)
        /\ ~Exists(cron.mid) /\ cron.mid \in MatchIds
    BY <1>5 DEF CronAnnounce, DeleteConfirmations, history, SerialInv, CronInv, TypeOK
  <2>2. \A u \in Users : <<cron.mid, u>> \notin confirmations
    BY <2>1 DEF SerialInv, TablesInv
  <2>3. UNCHANGED confirmations
    BY <2>1, <2>2 DEF TypeOK, StoreTypeOK
  <2> QED
    BY <2>1, <2>3, SameMatches, LedgerStutter
<1>6. CASE CronStart \/ CronListUndo \/ CronDone
  <2>1. UNCHANGED <<matches, matchCounters, confirmations, asked>>
    BY <1>6 DEF CronStart, CronListUndo, CronDone, store, history
  <2> QED
    BY <2>1, SameMatches, LedgerStutter
<1> QED
  BY <1>3, <1>4, <1>5, <1>6 DEF CronStep

LEMMA NextInLedger ==
    ASSUME TypeOK, TypeOK', ConsentInv, SerialInv, SerialInv', MaxFaults = 0, [Next]_vars
    PROVE  [Ledger!LedgerNext]_(Ledger!ledger)
<1>1. CASE Environment
  <2>1. UNCHANGED <<confirmations, asked>>
    BY <1>1 DEF Environment, Crash, IgnoreError, CronAbandons, MatchTimesOut, UndoTimesOut,
                MatchAges, UndoAges, store, history
  <2>2. LedgerStatus' = LedgerStatus /\ LedgerPlayers' = LedgerPlayers
    <3>1. CASE \E m \in MatchIds : MatchAges(m)
      BY <3>1, AgesInLedger
    <3>2. CASE ~ \E m \in MatchIds : MatchAges(m)
      <4>1. UNCHANGED <<matches, matchCounters>>
        BY <1>1, <3>2 DEF Environment, Crash, IgnoreError, CronAbandons, MatchTimesOut,
                          UndoTimesOut, UndoAges, store
      <4> QED
        BY <4>1, SameMatches
    <3> QED
      BY <3>1, <3>2
  <2> QED
    BY <2>1, <2>2, LedgerStutter
<1>2. CASE UNCHANGED vars
  <2>1. UNCHANGED <<matches, matchCounters, confirmations, asked>>
    BY <1>2 DEF vars, store, history
  <2> QED
    BY <2>1, SameMatches, LedgerStutter
<1> QED
  BY <1>1, <1>2, StartInLedger, StepInLedger, CronInLedger DEF Next

LEMMA InitInLedger == Init => Ledger!LedgerInit
<1> SUFFICES ASSUME Init PROVE Ledger!LedgerInit
  OBVIOUS
<1>1. \A m \in MatchIds : ~Exists(m) /\ ~(m <= matchCounters)
  BY DEF Init, StoreInit, Exists, MatchIds
<1>2. LedgerStatus = [m \in MatchIds |-> "free"] /\ LedgerPlayers = [m \in MatchIds |-> {}]
  BY <1>1 DEF LedgerStatus, LedgerPlayers
<1>3. Vouchers = [m \in MatchIds |-> {}]
  BY DEF Init, StoreInit, Vouchers, ConfirmedBy
<1>4. LedgerRequests = [m \in MatchIds |-> {}]
  BY DEF Init, StoreInit, LedgerRequests, UndoRequestedBy, At, Idle
<1> QED
  BY <1>2, <1>3, <1>4 DEF Ledger!LedgerInit, Ledger!Ids, MatchIds, Vouchers

\* Handlers that run one at a time without failing calls implement the
\* ledger, for any users, pairings and number of matches, with either store:
\* every write of a handler or of the sweep is an entry the ledger permits,
\* and everything else is invisible in it.
THEOREM LifecycleImplementsLedger ==
    ASSUME Serial, MaxFaults = 0
    PROVE  Spec => ImplementsLedger
<1>1. /\ TypeOK /\ ConsentInv /\ SerialInv
      /\ TypeOK' /\ SerialInv'
      /\ [Next]_vars
      => [Ledger!LedgerNext]_(Ledger!ledger)
  BY NextInLedger
<1> QED
  BY <1>1, InitInLedger, SerialInvariant, PTL DEF Spec, ImplementsLedger, Ledger!LedgerSpec

-----------------------------------------------------------------------------
(* What the ledger promises of one step, read back in the tables *)

\* Only a pending match loses its row: Cancel and expiry never take a match
\* out of the ratings.
THEOREM RemovedWhilePending ==
    ASSUME Serial, MaxFaults = 0
    PROVE  Spec => OnlyPendingRemoved
<1>1. ASSUME TypeOK, TypeOK', ConsentInv, SerialInv, SerialInv', [Next]_vars,
             NEW m \in MatchIds, Exists(m), ~Exists(m)'
      PROVE  HasStatus(m, "PENDING")
  <2>1. /\ LedgerStatus[m] = matches[m].status /\ matches[m].status \in Statuses
        /\ LedgerStatus'[m] \in {"dropped", "free"}
    BY <1>1 DEF LedgerStatus, TypeOK, StoreTypeOK, Exists, MatchRows
  <2>2. Ledger!LedgerNext \/ UNCHANGED LedgerStatus
    BY <1>1, NextInLedger DEF Ledger!ledger
  <2>3. LedgerStatus[m] = "PENDING"
    BY <2>1, <2>2 DEF Ledger!LedgerNext, Ledger!Register, Ledger!Vouch, Ledger!Approve,
                      Ledger!Drop, Ledger!Ask, Ledger!Retract, Ledger!Toggle, Statuses, LedgerStatus
  <2> QED
    BY <1>1, <2>1, <2>3 DEF HasStatus
<1>2. /\ TypeOK /\ ConsentInv /\ SerialInv
      /\ TypeOK' /\ SerialInv'
      /\ [Next]_vars
      => [\A m \in MatchIds : Exists(m) /\ ~Exists(m)' => HasStatus(m, "PENDING")]_vars
  BY <1>1
<1> QED
  BY <1>2, SerialInvariant, PTL DEF Spec, OnlyPendingRemoved

\* A match leaves the ratings, or comes back, only on the unspent requests of
\* an admin or of both players.
THEOREM UndoTakesTwo ==
    ASSUME Serial, MaxFaults = 0
    PROVE  Spec => TwoStepUndo
<1>1. ASSUME TypeOK, TypeOK', ConsentInv, SerialInv, SerialInv', [Next]_vars,
             NEW m \in MatchIds,
             \/ HasStatus(m, "APPROVED") /\ HasStatus(m, "UNDONE")'
             \/ HasStatus(m, "UNDONE") /\ HasStatus(m, "APPROVED")'
      PROVE  Vouched(asked[m], matches[m])
  <2>1. /\ LedgerPlayers[m] = {matches[m].p1, matches[m].p2}
        /\ \/ LedgerStatus[m] = "APPROVED" /\ LedgerStatus'[m] = "UNDONE"
           \/ LedgerStatus[m] = "UNDONE" /\ LedgerStatus'[m] = "APPROVED"
    BY <1>1 DEF HasStatus, LedgerStatus, LedgerPlayers
  <2>2. Ledger!LedgerNext \/ UNCHANGED LedgerStatus
    BY <1>1, NextInLedger DEF Ledger!ledger
  <2>3. Ledger!Toggle(m)
    <3>1. PICK k \in MatchIds :
            \/ Ledger!Approve(k) \/ Ledger!Drop(k) \/ Ledger!Toggle(k)
            \/ \E u \in Users : Ledger!Vouch(k, u) \/ Ledger!Ask(k, u) \/ Ledger!Retract(k, u)
            \/ \E u, p, q \in Users : p # q /\ Ledger!Register(k, u, {p, q})
      BY <2>1, <2>2 DEF Ledger!LedgerNext, Ledger!Ids, MatchIds
    <3>2. Ledger!Toggle(k)
      BY <2>1, <3>1 DEF Ledger!Register, Ledger!Vouch, Ledger!Approve, Ledger!Drop, Ledger!Ask,
                        Ledger!Retract, LedgerStatus
    <3>3. k = m
      BY <2>1, <3>2 DEF Ledger!Toggle, LedgerStatus
    <3> QED
      BY <3>2, <3>3
  <2>4. LedgerRequests = asked
    BY <1>1, OpenRequests
  <2> QED
    BY <2>1, <2>3, <2>4 DEF Ledger!Toggle, Ledger!Enough, Vouched
<1>2. /\ TypeOK /\ ConsentInv /\ SerialInv
      /\ TypeOK' /\ SerialInv'
      /\ [Next]_vars
      => [\A m \in MatchIds :
            \/ HasStatus(m, "APPROVED") /\ HasStatus(m, "UNDONE")'
            \/ HasStatus(m, "UNDONE") /\ HasStatus(m, "APPROVED")'
            => Vouched(asked[m], matches[m])]_vars
  BY <1>1
<1> QED
  BY <1>2, SerialInvariant, PTL DEF Spec, TwoStepUndo

=============================================================================
