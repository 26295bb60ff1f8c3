------------------------ MODULE MatchLifecycleProofs ------------------------
(***************************************************************************)
(* Proofs about MatchLifecycle for any number of users, workers, matches   *)
(* and faults, with handlers interleaved or one at a time; the second part *)
(* is about handlers and sweeps that overlap.                              *)
(***************************************************************************)
EXTENDS MatchLifecycle, TLAPS

-----------------------------------------------------------------------------
(* Type correctness *)

\* A worker's job at a step other than idle is a record of Jobs.
LEMMA BusyJob ==
    ASSUME TypeOK, NEW w \in Workers, ~Idle(w)
    PROVE  job[w] \in Jobs
BY DEF TypeOK, Idle

LEMMA GotoType ==
    ASSUME TypeOK, NEW w \in Workers, ~Idle(w), NEW step \in Steps, Goto(w, step)
    PROVE  job' \in [Workers -> Jobs \cup {NoJob}]
<1>1. job[w] \in Jobs
  BY BusyJob
<1>2. [job[w] EXCEPT !.at = step] \in Jobs
  BY <1>1 DEF Jobs
<1> QED
  BY <1>1, <1>2 DEF TypeOK, Goto

LEMMA FinishType ==
    ASSUME TypeOK, NEW w \in Workers, Finish(w)
    PROVE  job' \in [Workers -> Jobs \cup {NoJob}]
BY DEF TypeOK, Finish

LEMMA BeginType ==
    ASSUME TypeOK, NEW w \in Workers, NEW step \in Steps, NEW u \in Users,
           NEW m \in MatchIds, NEW row \in MatchRows, NEW admin \in BOOLEAN,
           Begin(w, step, u, m, row, admin)
    PROVE  job' \in [Workers -> Jobs \cup {NoJob}]
BY DEF TypeOK, Begin, Jobs

LEMMA AtBusy ==
    ASSUME NEW w, NEW step, At(w, step)
    PROVE  ~Idle(w) /\ job[w].at = step
BY DEF At

\* The writes of the store keep its types.
LEMMA UpdateStatusType ==
    ASSUME StoreTypeOK, NEW m \in MatchIds, NEW s \in Statuses, UpdateStatus(m, s)
    PROVE  StoreTypeOK'
<1>1. Exists(m) => [matches[m] EXCEPT !.status = s] \in MatchRows
  BY DEF StoreTypeOK, Exists, MatchRows
<1>2. matches' \in [MatchIds -> MatchRows \cup {NoMatch}]
  BY <1>1 DEF StoreTypeOK, UpdateStatus
<1> QED
  BY <1>2 DEF StoreTypeOK, UpdateStatus

LEMMA DeleteMatchType ==
    ASSUME StoreTypeOK, NEW m \in MatchIds, DeleteMatch(m)
    PROVE  StoreTypeOK'
BY DEF StoreTypeOK, DeleteMatch

LEMMA ConfirmationsType ==
    ASSUME StoreTypeOK, NEW m \in MatchIds, NEW u \in Users,
           InsertConfirmation(m, u) \/ DeleteConfirmations(m)
    PROVE  StoreTypeOK'
BY DEF StoreTypeOK, InsertConfirmation, DeleteConfirmations

LEMMA UndosType ==
    ASSUME StoreTypeOK, NEW m \in MatchIds, NEW u \in Users,
           InsertUndo(m, u) \/ DeleteUndo(m, u) \/ DeleteUndosForMatch(m) \/ UndoAges(m, u)
    PROVE  StoreTypeOK'
BY DEF StoreTypeOK, InsertUndo, DeleteUndo, DeleteUndosForMatch, UndoAges

LEMMA AgesType ==
    ASSUME StoreTypeOK, NEW m \in MatchIds, MatchAges(m)
    PROVE  StoreTypeOK'
<1>1. matches[m] \in MatchRows
  BY DEF StoreTypeOK, MatchAges, HasStatus, Exists
<1>2. [matches[m] EXCEPT !.old = TRUE] \in MatchRows
  BY <1>1 DEF MatchRows
<1>3. matches' \in [MatchIds -> MatchRows \cup {NoMatch}]
  BY <1>2 DEF StoreTypeOK, MatchAges
<1> QED
  BY <1>3 DEF StoreTypeOK, MatchAges

LEMMA AllocateType ==
    ASSUME StoreTypeOK, NEW row \in MatchRows, AllocateAndInsertMatch(row)
    PROVE  /\ StoreTypeOK'
           /\ matchCounters + 1 \in MatchIds
BY StoreAssumption DEF StoreTypeOK, AllocateAndInsertMatch, MatchIds

LEMMA StoreUnchanged ==
    ASSUME StoreTypeOK, UNCHANGED store
    PROVE  StoreTypeOK'
BY DEF StoreTypeOK, store

LEMMA TypeInit == Init => TypeOK
BY StoreAssumption, LifecycleAssumption
   DEF Init, StoreInit, TypeOK, StoreTypeOK, MatchIds, Crons, CronIdle, Cards

LEMMA StartType ==
    ASSUME TypeOK, NEW w \in Workers, Start(w)
    PROVE  TypeOK'
<1>1. PICK u \in Users :
        \/ \E pair \in Pairings : HandleMatch(w, u, pair)
        \/ \E m \in MatchIds :
              HandleConfirmTap(w, u, m) \/ HandleCancelTap(w, u, m) \/ HandleUndo(w, u, m)
  BY DEF Start
<1>2. ASSUME NEW pair \in Pairings, HandleMatch(w, u, pair)
      PROVE  TypeOK'
  <2>1. PICK admin \in IsChatAdmin(u) :
          LET m == matchCounters + 1
              row == [p1 |-> pair[1], p2 |-> pair[2], old |-> FALSE,
                      status |-> IF admin THEN "APPROVED" ELSE "PENDING"]
          IN  /\ AllocateAndInsertMatch(row)
              /\ Begin(w, IF admin THEN "announce" ELSE "authorConfirm", u, m, row, admin)
              /\ consent' = [consent EXCEPT ![m] = @ \cup {u}]
    BY <1>2 DEF HandleMatch
  <2> DEFINE m == matchCounters + 1
             row == [p1 |-> pair[1], p2 |-> pair[2], old |-> FALSE,
                     status |-> IF admin THEN "APPROVED" ELSE "PENDING"]
             step == IF admin THEN "announce" ELSE "authorConfirm"
  <2>2. row \in MatchRows /\ admin \in BOOLEAN /\ step \in Steps
    BY LifecycleAssumption DEF MatchRows, Statuses, IsChatAdmin, Steps
  <2>3. StoreTypeOK' /\ m \in MatchIds
    BY <2>1, <2>2, AllocateType DEF TypeOK
  <2>4. Begin(w, step, u, m, row, admin)
    BY <2>1
  <2> HIDE DEF row, step, m
  <2>5. job' \in [Workers -> Jobs \cup {NoJob}]
    BY <2>2, <2>3, <2>4, BeginType
  <2>6. consent' \in [MatchIds -> SUBSET Users]
    BY <2>1, <2>3 DEF TypeOK, m
  <2> QED
    BY <1>2, <2>3, <2>5, <2>6 DEF TypeOK, HandleMatch
<1>3. ASSUME NEW m \in MatchIds,
             HandleConfirmTap(w, u, m) \/ HandleCancelTap(w, u, m) \/ HandleUndo(w, u, m)
      PROVE  TypeOK'
  <2>1. matches[m] \in MatchRows
    BY <1>3 DEF TypeOK, StoreTypeOK, HandleConfirmTap, HandleCancelTap, HandleUndo,
                HasStatus, Exists
  <2>2. StoreTypeOK'
    BY <1>3, StoreUnchanged DEF TypeOK, HandleConfirmTap, HandleCancelTap, HandleUndo
  <2>3. PICK step \in Steps, admin \in BOOLEAN : Begin(w, step, u, m, matches[m], admin)
    BY <1>3 DEF HandleConfirmTap, HandleCancelTap, HandleUndo, Steps, IsChatAdmin
  <2>4. job' \in [Workers -> Jobs \cup {NoJob}]
    BY <2>1, <2>3, BeginType
  <2>5. consent' \in [MatchIds -> SUBSET Users]
    <3>1. \/ consent' = [consent EXCEPT ![m] = @ \cup {u}]
          \/ consent' = consent
      BY <1>3 DEF HandleConfirmTap, HandleCancelTap, HandleUndo, history
    <3> QED
      BY <3>1 DEF TypeOK
  <2>6. UNCHANGED <<cron, card, expired, faults, asked, removedBy>>
    BY <1>3 DEF HandleConfirmTap, HandleCancelTap, HandleUndo, history
  <2> QED
    BY <2>2, <2>4, <2>5, <2>6 DEF TypeOK
<1> QED
  BY <1>1, <1>2, <1>3

LEMMA StepType ==
    ASSUME TypeOK, NEW w \in Workers, Step(w)
    PROVE  TypeOK'
<1>1. job[w] \in Jobs /\ ~Idle(w)
  BY BusyJob, AtBusy
     DEF Step, Announce, AuthorConfirm, SendCard, ConfirmInsert, ConfirmDecide, ConfirmApprove,
         ConfirmEdit, ConfirmRemaining, CancelDelete, CancelEdit, UndoList, UndoWithdraw,
         UndoInsert, UndoCheck, UndoToggle, UndoClear, At
<1>2. job[w].mid \in MatchIds /\ job[w].user \in Users /\ job[w].snap \in MatchRows
  BY <1>1 DEF Jobs
<1>3. StoreTypeOK'
  <2>1. CASE \/ Announce(w) \/ SendCard(w) \/ ConfirmDecide(w) \/ ConfirmEdit(w)
             \/ ConfirmRemaining(w) \/ CancelEdit(w) \/ UndoList(w) \/ UndoCheck(w)
    BY <2>1, StoreUnchanged
       DEF TypeOK, Announce, SendCard, ConfirmDecide, ConfirmEdit, ConfirmRemaining,
           CancelEdit, UndoList, UndoCheck
  <2>2. CASE AuthorConfirm(w) \/ ConfirmInsert(w)
    BY <2>2, <1>2, ConfirmationsType DEF TypeOK, AuthorConfirm, ConfirmInsert
  <2>3. CASE ConfirmApprove(w) \/ UndoToggle(w)
    BY <2>3, <1>2, UpdateStatusType DEF TypeOK, ConfirmApprove, UndoToggle, Toggled, Statuses
  <2>4. CASE CancelDelete(w)
    BY <2>4, <1>2, DeleteMatchType DEF TypeOK, CancelDelete
  <2>5. CASE UndoWithdraw(w) \/ UndoInsert(w) \/ UndoClear(w)
    BY <2>5, <1>2, UndosType DEF TypeOK, UndoWithdraw, UndoInsert, UndoClear
  <2> QED
    BY <2>1, <2>2, <2>3, <2>4, <2>5 DEF Step
<1>4. job' \in [Workers -> Jobs \cup {NoJob}]
  <2>1. Finish(w) \/ \E step \in Steps : Goto(w, step)
    BY DEF Step, Announce, AuthorConfirm, SendCard, ConfirmInsert, ConfirmDecide, ConfirmApprove,
         ConfirmEdit, ConfirmRemaining, CancelDelete, CancelEdit, UndoList, UndoWithdraw,
         UndoInsert, UndoCheck, UndoToggle, UndoClear, Steps
  <2> QED
    BY <2>1, <1>1, GotoType, FinishType
<1>5. /\ card' \in [MatchIds -> Cards]
      /\ asked' \in [MatchIds -> SUBSET Users]
      /\ removedBy' \in [MatchIds -> {"nobody", "cancel", "cron"}]
      /\ UNCHANGED <<cron, expired, faults, consent>>
  BY <1>2 DEF TypeOK, Step, Announce, AuthorConfirm, SendCard, ConfirmInsert, ConfirmDecide,
       ConfirmApprove, ConfirmEdit, ConfirmRemaining, CancelDelete, CancelEdit, UndoList,
       UndoWithdraw, UndoInsert, UndoCheck, UndoToggle, UndoClear, SetCard, Cards, history
<1> QED
  BY <1>3, <1>4, <1>5 DEF TypeOK

LEMMA CronType ==
    ASSUME TypeOK, CronStep
    PROVE  TypeOK'
<1>1. CASE CronStart \/ CronListUndo \/ CronDone
  <2>1. StoreTypeOK'
    BY <1>1, StoreUnchanged DEF TypeOK, CronStart, CronListUndo, CronDone
  <2>2. CronIdle \in Crons
    BY StoreAssumption DEF Crons, CronIdle
  <2>3. cron' \in Crons /\ cron'.at # "expireClear"
    <3>1. CASE CronStart
      BY <3>1, <2>2 DEF CronStart, Crons, CronIdle, PendingExpired
    <3>2. CASE CronListUndo
      <4>1. oldUndos \in SUBSET (MatchIds \X Users)
        BY DEF TypeOK, StoreTypeOK
      <4> QED
        BY <3>2, <4>1 DEF TypeOK, CronListUndo, Crons
    <3>3. CASE CronDone
      BY <3>3, <2>2 DEF CronDone, CronIdle
    <3> QED
      BY <1>1, <3>1, <3>2, <3>3
  <2> QED
    BY <1>1, <2>1, <2>3 DEF TypeOK, CronStart, CronListUndo, CronDone, history
<1>2. CASE CronAnnounce
  <2>1. StoreTypeOK'
    <3>1. confirmations' \subseteq confirmations
      BY <1>2 DEF CronAnnounce, DeleteConfirmations
    <3> QED
      BY <1>2, <3>1 DEF CronAnnounce, TypeOK, StoreTypeOK, DeleteConfirmations
  <2>2. cron' \in Crons /\ cron'.at # "expireClear"
    <3>1. 0 \in 0..MaxMatches
      BY StoreAssumption
    <3> QED
      BY <1>2, <3>1 DEF TypeOK, CronAnnounce, Crons
  <2> QED
    BY <1>2, <2>1, <2>2 DEF TypeOK, CronAnnounce, history
<1>3. ASSUME NEW m \in MatchIds, CronExpire(m)
      PROVE  TypeOK'
  <2>1. StoreTypeOK'
    BY <1>3, DeleteMatchType DEF TypeOK, CronExpire
  <2>2. m \in 0..MaxMatches
    BY StoreAssumption DEF MatchIds
  <2>3. cron' \in Crons /\ (cron'.at = "expireClear" => cron'.mid \in MatchIds)
    BY <1>3, <2>2 DEF TypeOK, CronExpire, Crons
  <2> QED
    BY <1>3, <2>1, <2>3 DEF TypeOK, CronExpire
<1>4. ASSUME NEW m \in MatchIds, NEW u \in Users, CronExpireUndo(m, u)
      PROVE  TypeOK'
  <2>1. StoreTypeOK'
    BY <1>4, UndosType DEF TypeOK, CronExpireUndo
  <2>2. cron' \in Crons /\ cron'.at # "expireClear"
    BY <1>4 DEF TypeOK, CronExpireUndo, Crons
  <2> QED
    BY <1>4, <2>1, <2>2 DEF TypeOK, CronExpireUndo
<1> QED
  BY <1>1, <1>2, <1>3, <1>4 DEF CronStep

LEMMA EnvironmentType ==
    ASSUME TypeOK, Environment
    PROVE  TypeOK'
<1>1. ASSUME NEW w \in Workers, Crash(w) \/ IgnoreError(w)
      PROVE  TypeOK'
  <2>1. StoreTypeOK'
    BY <1>1, StoreUnchanged DEF TypeOK, Crash, IgnoreError
  <2>2. \A s \in DOMAIN AfterError : AfterError[s] \in Steps
    BY DEF AfterError, Steps
  <2>3. job' \in [Workers -> Jobs \cup {NoJob}]
    BY <1>1, <2>2, GotoType, FinishType DEF Crash, IgnoreError
  <2>4. faults' \in 0..MaxFaults
    BY <1>1, LifecycleAssumption DEF TypeOK, Crash, IgnoreError, Fault
  <2> QED
    BY <1>1, <2>1, <2>3, <2>4 DEF TypeOK, Crash, IgnoreError, history
<1>2. CASE CronAbandons
  <2>1. StoreTypeOK'
    BY <1>2, StoreUnchanged DEF TypeOK, CronAbandons
  <2>2. cron' \in Crons /\ cron'.at # "expireClear"
    BY <1>2, StoreAssumption DEF TypeOK, CronAbandons, Crons, CronIdle
  <2>3. faults' \in 0..MaxFaults
    BY <1>2, LifecycleAssumption DEF TypeOK, CronAbandons, Fault
  <2> QED
    BY <1>2, <2>1, <2>2, <2>3 DEF TypeOK, CronAbandons, history
<1>3. ASSUME NEW m \in MatchIds, MatchTimesOut(m)
      PROVE  TypeOK'
  BY <1>3, AgesType DEF TypeOK, MatchTimesOut, procs, history
<1>4. ASSUME NEW m \in MatchIds, NEW u \in Users, UndoTimesOut(m, u)
      PROVE  TypeOK'
  BY <1>4, UndosType DEF TypeOK, UndoTimesOut, procs, history
<1> QED
  BY <1>1, <1>2, <1>3, <1>4 DEF Environment

\* Every reachable state is well typed, whatever handlers, cron sweeps and
\* faults interleave.
THEOREM TypeCorrect == Spec => []TypeOK
<1>1. TypeOK /\ [Next]_vars => TypeOK'
  <2> SUFFICES ASSUME TypeOK, [Next]_vars
               PROVE  TypeOK'
    OBVIOUS
  <2>1. CASE Next
    BY <2>1, StartType, StepType, CronType, EnvironmentType DEF Next
  <2>2. CASE UNCHANGED vars
    BY <2>2, StoreUnchanged DEF TypeOK, vars, procs, history
  <2> QED
    BY <2>1, <2>2
<1> QED
  BY <1>1, TypeInit, PTL DEF Spec

-----------------------------------------------------------------------------
(* A match is approved only with consent *)

\* What every step leaves to a worker it does not move: consent only grows,
\* ids only grow, and a row keeps its players as long as it exists.
Frame ==
    /\ \A m \in MatchIds : consent[m] \subseteq consent'[m]
    /\ matchCounters <= matchCounters'
    /\ \A m \in MatchIds : m <= matchCounters /\ Exists(m)' =>
          Exists(m) /\ SamePlayers(matches[m]', matches[m])

LEMMA VouchedGrows ==
    ASSUME NEW S, NEW T, S \subseteq T, NEW r, NEW s, SamePlayers(r, s), Vouched(S, r)
    PROVE  Vouched(T, s)
BY DEF Vouched, SamePlayers

\* A worker whose user, match and snapshot stay keeps its part of the
\* invariant, provided its new step asks for no more than the old one.
LEMMA JobKept ==
    ASSUME TypeOK, TypeOK', Frame, NEW w \in Workers, ~Idle(w), ~Idle(w)',
           SnapshotAgrees(w), SenderVouched(w),
           job'[w].user = job[w].user, job'[w].mid = job[w].mid, job'[w].snap = job[w].snap
    PROVE  /\ SnapshotAgrees(w)'
           /\ job'[w].at = job[w].at => SenderVouched(w)'
<1>1. job[w] \in Jobs /\ job'[w] \in Jobs
  BY DEF TypeOK, Idle
<1>2. job[w].mid \in MatchIds
  BY <1>1 DEF Jobs
<1>3. SnapshotAgrees(w)'
  BY <1>2, StoreAssumption
     DEF SnapshotAgrees, Frame, SamePlayers, TypeOK, StoreTypeOK, MatchIds
<1>4. ASSUME job'[w].at = job[w].at
      PROVE  SenderVouched(w)'
  <2>1. consent[job[w].mid] \subseteq consent'[job[w].mid]
    BY <1>2 DEF Frame
  <2>2. Vouched(consent[job[w].mid], job[w].snap) => Vouched(consent'[job[w].mid], job[w].snap)
    BY <2>1 DEF Vouched
  <2> QED
    BY <1>4, <2>1, <2>2 DEF SenderVouched, Vouched
<1> QED
  BY <1>3, <1>4

\* Steps that leave the tables of matches and confirmations alone.
LEMMA TablesKept ==
    ASSUME TypeOK, TypeOK', ConsentInv, UNCHANGED <<matches, matchCounters, confirmations>>,
           \A m \in MatchIds : consent[m] \subseteq consent'[m]
    PROVE  Frame /\ ApprovalNeedsConsent' /\ RowsNumbered' /\ ConfirmationsVouched'
<1>1. Frame
  BY DEF Frame, Exists, SamePlayers, TypeOK, StoreTypeOK
<1>2. ApprovalNeedsConsent'
  BY DEF ConsentInv, ApprovalNeedsConsent, HasStatus, Exists, Vouched
<1>3. ConfirmationsVouched' /\ RowsNumbered'
  BY DEF ConsentInv, ConfirmationsVouched, RowsNumbered, Exists
<1> QED
  BY <1>1, <1>2, <1>3

JobOK(w) == ~Idle(w) => SnapshotAgrees(w) /\ SenderVouched(w)

LEMMA OthersKept ==
    ASSUME TypeOK, TypeOK', ConsentInv, Frame, NEW v \in Workers, job'[v] = job[v]
    PROVE  JobOK(v)'
<1> SUFFICES ASSUME ~Idle(v)'
             PROVE  SnapshotAgrees(v)' /\ SenderVouched(v)'
  BY DEF JobOK
<1>1. ~Idle(v) /\ SnapshotAgrees(v) /\ SenderVouched(v)
  BY DEF ConsentInv, Idle
<1> QED
  BY <1>1, JobKept

\* A worker that goes on to another step of its handler.
LEMMA MovedKept ==
    ASSUME TypeOK, TypeOK', ConsentInv, Frame, NEW w \in Workers, ~Idle(w),
           NEW step \in Steps, Goto(w, step)
    PROVE  /\ SnapshotAgrees(w)'
           /\ job'[w].at = step /\ job'[w].user = job[w].user
           /\ job'[w].mid = job[w].mid /\ job'[w].snap = job[w].snap
           /\ \A v \in Workers \ {w} : JobOK(v)'
<1>1. job[w] \in Jobs
  BY BusyJob
<1>2. job'[w] = [job[w] EXCEPT !.at = step]
  BY DEF Goto, TypeOK
<1>3. /\ job'[w].at = step /\ job'[w].user = job[w].user
      /\ job'[w].mid = job[w].mid /\ job'[w].snap = job[w].snap
      /\ job'[w] \in Jobs
  BY <1>1, <1>2 DEF Jobs
<1>4. ~Idle(w)'
  BY <1>3, LifecycleAssumption DEF Idle
<1>5. SnapshotAgrees(w)'
  BY <1>3, <1>4, JobKept DEF ConsentInv
<1>6. \A v \in Workers \ {w} : job'[v] = job[v]
  BY DEF Goto, TypeOK
<1> QED
  BY <1>3, <1>5, <1>6, OthersKept

LEMMA FinishedKept ==
    ASSUME TypeOK, TypeOK', ConsentInv, Frame, NEW w \in Workers, Finish(w)
    PROVE  \A v \in Workers : JobOK(v)'
<1>1. job'[w] = NoJob /\ \A v \in Workers \ {w} : job'[v] = job[v]
  BY DEF Finish, TypeOK
<1>2. JobOK(w)'
  BY <1>1 DEF JobOK, Idle
<1> QED
  BY <1>1, <1>2, OthersKept

LEMMA BegunKept ==
    ASSUME TypeOK, TypeOK', ConsentInv, Frame, NEW w \in Workers, NEW step \in Steps,
           NEW u \in Users, NEW m \in MatchIds, NEW row \in MatchRows, NEW admin \in BOOLEAN,
           Begin(w, step, u, m, row, admin), matches'[m] = row, m <= matchCounters',
           step \in {"authorConfirm", "confirmInsert"} => u \in consent'[m],
           step = "undoList" => Vouched(consent'[m], row),
           step \in {"announce", "authorConfirm", "confirmInsert", "cancelDelete", "undoList"}
    PROVE  \A v \in Workers : JobOK(v)'
<1>1. /\ job'[w] = [at |-> step, user |-> u, mid |-> m, snap |-> row, admin |-> admin]
      /\ \A v \in Workers \ {w} : job'[v] = job[v]
  BY DEF Begin, TypeOK
<1>2. SnapshotAgrees(w)'
  BY <1>1 DEF SnapshotAgrees, SamePlayers
<1>3. SenderVouched(w)'
  BY <1>1 DEF SenderVouched
<1> QED
  BY <1>1, <1>2, <1>3, OthersKept DEF JobOK

LEMMA StartConsent ==
    ASSUME TypeOK, TypeOK', ConsentInv, NEW w \in Workers, Start(w)
    PROVE  ConsentInv'
<1>1. PICK u \in Users :
        \/ \E pair \in Pairings : HandleMatch(w, u, pair)
        \/ \E m \in MatchIds :
              HandleConfirmTap(w, u, m) \/ HandleCancelTap(w, u, m) \/ HandleUndo(w, u, m)
  BY DEF Start
<1>2. ASSUME NEW pair \in Pairings, HandleMatch(w, u, pair)
      PROVE  ConsentInv'
  <2> DEFINE m == matchCounters + 1
             row(a) == [p1 |-> pair[1], p2 |-> pair[2], old |-> FALSE,
                        status |-> IF a THEN "APPROVED" ELSE "PENDING"]
             step(a) == IF a THEN "announce" ELSE "authorConfirm"
  <2>1. PICK admin \in IsChatAdmin(u) :
          /\ AllocateAndInsertMatch(row(admin))
          /\ Begin(w, step(admin), u, m, row(admin), admin)
          /\ consent' = [consent EXCEPT ![m] = @ \cup {u}]
    BY <1>2 DEF HandleMatch
  <2>2. /\ row(admin) \in MatchRows /\ admin \in BOOLEAN
        /\ step(admin) \in {"announce", "authorConfirm"}
        /\ row(admin).status = "APPROVED" => u \in Admins
    BY LifecycleAssumption DEF MatchRows, Statuses, IsChatAdmin
  <2>3. m \in MatchIds /\ matchCounters \in Nat
    BY <2>1, <2>2, AllocateType DEF TypeOK, StoreTypeOK
  <2> HIDE DEF row, step
  <2>4. /\ matches' = [matches EXCEPT ![m] = row(admin)]
        /\ matchCounters' = m
        /\ confirmations' = confirmations
    BY <2>1 DEF AllocateAndInsertMatch
  <2>5. /\ matches'[m] = row(admin)
        /\ \A k \in MatchIds : k # m => matches'[k] = matches[k]
    BY <2>3, <2>4 DEF TypeOK, StoreTypeOK
  <2>6. /\ u \in consent'[m]
        /\ \A k \in MatchIds : consent[k] \subseteq consent'[k]
    BY <2>1, <2>3 DEF TypeOK
  <2>7. m \in Nat /\ m > matchCounters /\ \A k \in MatchIds : k <= matchCounters => k # m
    BY <2>3 DEF MatchIds
  <2> HIDE DEF m
  <2>8. Frame
    BY <2>3, <2>4, <2>5, <2>6, <2>7 DEF Frame, Exists, SamePlayers
  <2>9. ApprovalNeedsConsent'
    <3> SUFFICES ASSUME NEW k \in MatchIds,
                        HasStatus(k, "APPROVED")' \/ HasStatus(k, "UNDONE")'
                 PROVE  Vouched(consent'[k], matches'[k])
      BY DEF ApprovalNeedsConsent
    <3>1. CASE k = m
      <4>1. row(admin).status = "APPROVED"
        BY <3>1, <2>5, <2>2 DEF HasStatus, Exists, row
      <4> QED
        BY <4>1, <3>1, <2>2, <2>6 DEF Vouched
    <3>2. CASE k # m
      BY <3>2, <2>5, <2>6 DEF ConsentInv, ApprovalNeedsConsent, HasStatus, Exists, Vouched
    <3> QED
      BY <3>1, <3>2
  <2>10. ConfirmationsVouched' /\ RowsNumbered'
    <3>1. ConfirmationsVouched'
      BY <2>4, <2>6 DEF ConsentInv, ConfirmationsVouched
    <3>2. \A k \in MatchIds : k <= matchCounters => k <= m
      BY <2>3, <2>7 DEF MatchIds
    <3>3. RowsNumbered'
      BY <2>4, <2>5, <2>7, <3>2 DEF ConsentInv, RowsNumbered, Exists
    <3> QED
      BY <3>1, <3>3
  <2>11. step(admin) \in Steps
    BY <2>2 DEF Steps
  <2>12. \A v \in Workers : JobOK(v)'
    BY <2>1, <2>2, <2>3, <2>4, <2>5, <2>6, <2>7, <2>8, <2>11, BegunKept
  <2> QED
    BY <2>9, <2>10, <2>12 DEF ConsentInv, JobOK
<1>3. ASSUME NEW m \in MatchIds,
             HandleConfirmTap(w, u, m) \/ HandleCancelTap(w, u, m) \/ HandleUndo(w, u, m)
      PROVE  ConsentInv'
  <2>1. Exists(m) /\ matches[m] \in MatchRows
    BY <1>3 DEF HandleConfirmTap, HandleCancelTap, HandleUndo, HasStatus, Exists, TypeOK, StoreTypeOK
  <2>2. \A k \in MatchIds : consent[k] \subseteq consent'[k]
    BY <1>3 DEF HandleConfirmTap, HandleCancelTap, HandleUndo, TypeOK, history
  <2>3. UNCHANGED <<matches, matchCounters, confirmations>>
    BY <1>3 DEF HandleConfirmTap, HandleCancelTap, HandleUndo, store
  <2>4. Frame /\ ApprovalNeedsConsent' /\ RowsNumbered' /\ ConfirmationsVouched'
    BY <2>2, <2>3, TablesKept
  <2>5. m <= matchCounters' /\ matches'[m] = matches[m]
    BY <2>1, <2>3 DEF ConsentInv, RowsNumbered
  <2>6. CASE HandleConfirmTap(w, u, m)
    <3>1. u \in consent'[m] /\ Begin(w, "confirmInsert", u, m, matches[m], FALSE)
      BY <2>6 DEF HandleConfirmTap, TypeOK
    <3>2. \A v \in Workers : JobOK(v)'
      BY <2>1, <2>4, <2>5, <3>1, BegunKept DEF Steps
    <3> QED
      BY <2>4, <3>2 DEF ConsentInv, JobOK
  <2>7. CASE HandleCancelTap(w, u, m)
    <3>1. Begin(w, "cancelDelete", u, m, matches[m], FALSE)
      BY <2>7 DEF HandleCancelTap
    <3>2. \A v \in Workers : JobOK(v)'
      BY <2>1, <2>4, <2>5, <3>1, BegunKept DEF Steps
    <3> QED
      BY <2>4, <3>2 DEF ConsentInv, JobOK
  <2>8. CASE HandleUndo(w, u, m)
    <3>1. PICK admin \in BOOLEAN : Begin(w, "undoList", u, m, matches[m], admin)
      BY <2>8 DEF HandleUndo, IsChatAdmin
    <3>2. Vouched(consent'[m], matches[m])
      BY <2>8, <2>2 DEF HandleUndo, ConsentInv, ApprovalNeedsConsent, Vouched
    <3>3. \A v \in Workers : JobOK(v)'
      BY <2>1, <2>4, <2>5, <3>1, <3>2, BegunKept DEF Steps
    <3> QED
      BY <2>4, <3>3 DEF ConsentInv, JobOK
  <2> QED
    BY <1>3, <2>6, <2>7, <2>8
<1> QED
  BY <1>1, <1>2, <1>3

\* Steps of a handler that write neither matches nor confirmations.
LEMMA QuietStepConsent ==
    ASSUME TypeOK, TypeOK', ConsentInv, NEW w \in Workers,
           \/ Announce(w) \/ SendCard(w) \/ ConfirmEdit(w) \/ ConfirmRemaining(w)
           \/ CancelEdit(w) \/ UndoList(w) \/ UndoWithdraw(w) \/ UndoInsert(w)
           \/ UndoCheck(w) \/ UndoClear(w)
    PROVE  ConsentInv'
<1>1. Frame /\ ApprovalNeedsConsent' /\ RowsNumbered' /\ ConfirmationsVouched'
  <2>1. UNCHANGED <<matches, matchCounters, confirmations, consent>>
    BY DEF Announce, SendCard, ConfirmEdit, ConfirmRemaining, CancelEdit, UndoList,
           UndoWithdraw, UndoInsert, UndoCheck, UndoClear, DeleteUndo, InsertUndo,
           DeleteUndosForMatch, store, history
  <2> QED
    BY <2>1, TablesKept
<1>2. CASE Finish(w)
  BY <1>1, <1>2, FinishedKept DEF ConsentInv, JobOK
<1>3. CASE ~Finish(w)
  <2>1. PICK step \in {"undoWithdraw", "undoInsert", "undoCheck", "undoToggle"} :
          /\ Goto(w, step)
          /\ ~Idle(w)
          /\ job[w].at \in {"undoList", "undoInsert", "undoCheck"}
    BY <1>3, Zenon DEF Announce, SendCard, ConfirmEdit, ConfirmRemaining, CancelEdit, UndoList,
           UndoWithdraw, UndoInsert, UndoCheck, UndoClear, At
  <2>2. step \in Steps
    BY DEF Steps
  <2>3. /\ SnapshotAgrees(w)'
        /\ job'[w].at = step /\ job'[w].user = job[w].user
        /\ job'[w].mid = job[w].mid /\ job'[w].snap = job[w].snap
        /\ \A v \in Workers \ {w} : JobOK(v)'
    BY <1>1, <2>1, <2>2, MovedKept
  <2>4. Vouched(consent[job[w].mid], job[w].snap)
    BY <2>1 DEF ConsentInv, SenderVouched
  <2>5. job[w].mid \in MatchIds
    BY <2>1, BusyJob DEF Jobs
  <2>6. SenderVouched(w)'
    BY <1>1, <2>3, <2>4, <2>5 DEF SenderVouched, Vouched, Frame
  <2> QED
    BY <1>1, <2>3, <2>6 DEF ConsentInv, JobOK
<1> QED
  BY <1>2, <1>3

\* A confirmation is stored for a sender who vouched.
LEMMA InsertConsent ==
    ASSUME TypeOK, TypeOK', ConsentInv, NEW w \in Workers,
           AuthorConfirm(w) \/ ConfirmInsert(w)
    PROVE  ConsentInv'
<1>1. PICK step \in {"sendCard", "confirmDecide"} :
        /\ Goto(w, step) /\ ~Idle(w)
        /\ job[w].at \in {"authorConfirm", "confirmInsert"}
        /\ InsertConfirmation(job[w].mid, job[w].user)
        /\ consent' = consent
  BY Zenon DEF AuthorConfirm, ConfirmInsert, At, history
<1>2. job[w].mid \in MatchIds /\ job[w].user \in Users /\ step \in Steps
  BY <1>1, BusyJob DEF Jobs, Steps
<1>3. job[w].user \in consent[job[w].mid]
  BY <1>1 DEF ConsentInv, SenderVouched
<1>4. UNCHANGED <<matches, matchCounters>>
  BY <1>1 DEF InsertConfirmation
<1>5. Frame
  BY <1>1, <1>4 DEF Frame, Exists, SamePlayers, TypeOK, StoreTypeOK
<1>6. ApprovalNeedsConsent' /\ RowsNumbered'
  BY <1>1, <1>4 DEF ConsentInv, ApprovalNeedsConsent, RowsNumbered, HasStatus, Exists, Vouched
<1>7. ConfirmationsVouched'
  BY <1>1, <1>3 DEF ConsentInv, ConfirmationsVouched, InsertConfirmation
<1>8. /\ SnapshotAgrees(w)'
      /\ job'[w].at = step /\ job'[w].user = job[w].user
      /\ job'[w].mid = job[w].mid /\ job'[w].snap = job[w].snap
      /\ \A v \in Workers \ {w} : JobOK(v)'
  BY <1>1, <1>2, <1>5, MovedKept
<1>9. SenderVouched(w)'
  BY <1>1, <1>3, <1>8 DEF SenderVouched
<1> QED
  BY <1>6, <1>7, <1>8, <1>9 DEF ConsentInv, JobOK

\* A tap goes on to approve the match only with an admin's or both players'
\* word for it.
LEMMA DecideConsent ==
    ASSUME TypeOK, TypeOK', ConsentInv, NEW w \in Workers, ConfirmDecide(w)
    PROVE  ConsentInv'
<1> DEFINE j == job[w]
<1>1. PICK admin \in IsChatAdmin(j.user) :
        Goto(w, IF admin \/ {j.snap.p1, j.snap.p2} \subseteq ConfirmedBy(j.mid)
                THEN "confirmApprove" ELSE "confirmRemaining")
  BY DEF ConfirmDecide
<1>2. ~Idle(w) /\ j.at = "confirmDecide"
  BY DEF ConfirmDecide, At
<1>3. j.mid \in MatchIds /\ j.user \in Users /\ j.snap \in MatchRows
  BY <1>2, BusyJob DEF Jobs
<1>4. j.user \in consent[j.mid]
  BY <1>2 DEF ConsentInv, SenderVouched
<1>5. ConfirmedBy(j.mid) \subseteq consent[j.mid]
  BY <1>3 DEF ConsentInv, ConfirmationsVouched, ConfirmedBy
<1>6. admin \/ {j.snap.p1, j.snap.p2} \subseteq ConfirmedBy(j.mid)
      => Vouched(consent[j.mid], j.snap)
  BY <1>4, <1>5, LifecycleAssumption DEF Vouched, IsChatAdmin
<1>7. UNCHANGED <<matches, matchCounters, confirmations, consent>>
  BY DEF ConfirmDecide, store, history
<1>8. Frame /\ ApprovalNeedsConsent' /\ RowsNumbered' /\ ConfirmationsVouched'
  BY <1>7, TablesKept
<1>9. PICK step \in {"confirmApprove", "confirmRemaining"} :
        /\ Goto(w, step) /\ step \in Steps
        /\ step = "confirmApprove" => Vouched(consent[j.mid], j.snap)
  BY <1>1, <1>6 DEF Steps
<1>10. /\ SnapshotAgrees(w)'
       /\ job'[w].at = step /\ job'[w].user = job[w].user
       /\ job'[w].mid = job[w].mid /\ job'[w].snap = job[w].snap
       /\ \A v \in Workers \ {w} : JobOK(v)'
  BY <1>2, <1>8, <1>9, MovedKept
<1>11. SenderVouched(w)'
  BY <1>7, <1>9, <1>10 DEF SenderVouched, Vouched
<1> QED
  BY <1>8, <1>10, <1>11 DEF ConsentInv, JobOK

\* APPROVED and UNDONE are only ever written by a handler whose snapshot is
\* vouched for, and the row it hits has the snapshot's players.
LEMMA WriteStatusConsent ==
    ASSUME TypeOK, TypeOK', ConsentInv, NEW w \in Workers, ConfirmApprove(w) \/ UndoToggle(w)
    PROVE  ConsentInv'
<1> DEFINE j == job[w]
<1>1. PICK step \in {"confirmEdit", "undoClear"}, s \in Statuses :
        /\ Goto(w, step) /\ UpdateStatus(j.mid, s)
  BY DEF ConfirmApprove, UndoToggle, Toggled, Statuses
<1>2. /\ ~Idle(w) /\ j.at \in {"confirmApprove", "undoToggle"}
      /\ consent' = consent
  BY DEF ConfirmApprove, UndoToggle, At, history
<1>3. j.mid \in MatchIds /\ step \in Steps
  BY <1>2, BusyJob DEF Jobs, Steps
<1>4. Vouched(consent[j.mid], j.snap) /\ SnapshotAgrees(w)
  BY <1>2 DEF ConsentInv, SenderVouched
<1>5. UNCHANGED <<matchCounters, confirmations>>
  BY <1>1 DEF UpdateStatus
<1>6. \A m \in MatchIds : Exists(m) => matches[m] \in MatchRows
  BY DEF TypeOK, StoreTypeOK, Exists
<1>7. /\ \A m \in MatchIds : m # j.mid => matches'[m] = matches[m]
      /\ ~Exists(j.mid) => matches'[j.mid] = matches[j.mid]
      /\ Exists(j.mid) => matches'[j.mid] = [matches[j.mid] EXCEPT !.status = s]
  BY <1>1, <1>3 DEF UpdateStatus, TypeOK, StoreTypeOK
<1>8. \A m \in MatchIds : Exists(m)' => Exists(m) /\ SamePlayers(matches[m]', matches[m])
  BY <1>6, <1>7 DEF Exists, SamePlayers, MatchRows
<1>9. Frame
  BY <1>2, <1>5, <1>8 DEF Frame, TypeOK, StoreTypeOK
<1>10. RowsNumbered' /\ ConfirmationsVouched'
  BY <1>2, <1>5, <1>8 DEF ConsentInv, RowsNumbered, ConfirmationsVouched
<1>11. ApprovalNeedsConsent'
  <2> SUFFICES ASSUME NEW m \in MatchIds, HasStatus(m, "APPROVED")' \/ HasStatus(m, "UNDONE")'
               PROVE  Vouched(consent[m], matches'[m])
    BY <1>2 DEF ApprovalNeedsConsent
  <2>1. CASE m = j.mid
    BY <2>1, <1>4, <1>8 DEF HasStatus, SnapshotAgrees, SamePlayers, Vouched
  <2>2. CASE m # j.mid
    BY <2>2, <1>7 DEF ConsentInv, ApprovalNeedsConsent, HasStatus, Exists
  <2> QED
    BY <2>1, <2>2
<1>12. /\ SnapshotAgrees(w)'
       /\ job'[w].at = step
       /\ \A v \in Workers \ {w} : JobOK(v)'
  BY <1>1, <1>2, <1>3, <1>9, MovedKept
<1>13. SenderVouched(w)'
  BY <1>12 DEF SenderVouched
<1> QED
  BY <1>10, <1>11, <1>12, <1>13 DEF ConsentInv, JobOK

\* Removing a match.
LEMMA DeleteTables ==
    ASSUME TypeOK, TypeOK', ConsentInv, NEW m \in MatchIds, DeleteMatch(m), UNCHANGED consent
    PROVE  Frame /\ ApprovalNeedsConsent' /\ RowsNumbered' /\ ConfirmationsVouched'
<1>1. /\ UNCHANGED matchCounters
      /\ confirmations' \subseteq confirmations
      /\ matches'[m] = NoMatch
      /\ \A k \in MatchIds : k # m => matches'[k] = matches[k]
  BY DEF DeleteMatch, TypeOK, StoreTypeOK
<1>2. Frame
  BY <1>1 DEF Frame, Exists, SamePlayers, TypeOK, StoreTypeOK
<1>3. ApprovalNeedsConsent' /\ RowsNumbered'
  BY <1>1 DEF ConsentInv, ApprovalNeedsConsent, RowsNumbered, HasStatus, Exists
<1>4. ConfirmationsVouched'
  BY <1>1 DEF ConsentInv, ConfirmationsVouched
<1> QED
  BY <1>2, <1>3, <1>4

LEMMA CancelDeleteConsent ==
    ASSUME TypeOK, TypeOK', ConsentInv, NEW w \in Workers, CancelDelete(w)
    PROVE  ConsentInv'
<1>1. ~Idle(w) /\ Goto(w, "cancelEdit") /\ DeleteMatch(job[w].mid) /\ consent' = consent
  BY DEF CancelDelete, At
<1>2. job[w].mid \in MatchIds /\ "cancelEdit" \in Steps
  BY <1>1, BusyJob DEF Jobs, Steps
<1>3. Frame /\ ApprovalNeedsConsent' /\ RowsNumbered' /\ ConfirmationsVouched'
  BY <1>1, <1>2, DeleteTables
<1>4. /\ SnapshotAgrees(w)'
      /\ job'[w].at = "cancelEdit"
      /\ \A v \in Workers \ {w} : JobOK(v)'
  BY <1>1, <1>2, <1>3, MovedKept
<1>5. SenderVouched(w)'
  BY <1>4 DEF SenderVouched
<1> QED
  BY <1>3, <1>4, <1>5 DEF ConsentInv, JobOK

LEMMA CronConsent ==
    ASSUME TypeOK, TypeOK', ConsentInv, CronStep
    PROVE  ConsentInv'
<1>1. UNCHANGED <<job, consent>>
  BY DEF CronStep, CronStart, CronAnnounce, CronListUndo, CronDone, CronExpire, CronExpireUndo, history
<1>2. Frame /\ ApprovalNeedsConsent' /\ RowsNumbered' /\ ConfirmationsVouched'
  <2>1. CASE CronStart \/ CronListUndo \/ CronDone \/ \E m \in MatchIds, u \in Users : CronExpireUndo(m, u)
    <3>1. UNCHANGED <<matches, matchCounters, confirmations>>
      BY <2>1 DEF CronStart, CronListUndo, CronDone, CronExpireUndo, DeleteUndo, store
    <3> QED
      BY <1>1, <3>1, TablesKept
  <2>2. CASE CronAnnounce
    <3>1. UNCHANGED <<matches, matchCounters>> /\ confirmations' \subseteq confirmations
      BY <2>2 DEF CronAnnounce, DeleteConfirmations
    <3>2. Frame
      BY <1>1, <3>1 DEF Frame, Exists, SamePlayers, TypeOK, StoreTypeOK
    <3>3. ApprovalNeedsConsent' /\ RowsNumbered'
      BY <1>1, <3>1 DEF ConsentInv, ApprovalNeedsConsent, RowsNumbered, HasStatus, Exists
    <3>4. ConfirmationsVouched'
      BY <1>1, <3>1 DEF ConsentInv, ConfirmationsVouched
    <3> QED
      BY <3>2, <3>3, <3>4
  <2>3. CASE \E m \in MatchIds : CronExpire(m)
    BY <2>3, <1>1, DeleteTables DEF CronExpire
  <2> QED
    BY <2>1, <2>2, <2>3 DEF CronStep
<1>3. \A v \in Workers : JobOK(v)'
  BY <1>1, <1>2, OthersKept
<1> QED
  BY <1>2, <1>3 DEF ConsentInv, JobOK

\* Neither a crash, nor a dropped error, nor time passing makes consent up.
LEMMA EnvironmentConsent ==
    ASSUME TypeOK, TypeOK', ConsentInv, Environment
    PROVE  ConsentInv'
<1>1. ASSUME NEW w \in Workers, Crash(w)
      PROVE  ConsentInv'
  <2>1. UNCHANGED <<matches, matchCounters, confirmations, consent>>
    BY <1>1 DEF Crash, store, history
  <2>2. Frame /\ ApprovalNeedsConsent' /\ RowsNumbered' /\ ConfirmationsVouched'
    BY <2>1, TablesKept
  <2> QED
    BY <1>1, <2>2, FinishedKept DEF Crash, ConsentInv, JobOK
<1>2. ASSUME NEW w \in Workers, IgnoreError(w)
      PROVE  ConsentInv'
  <2>1. UNCHANGED <<matches, matchCounters, confirmations, consent>>
    BY <1>2 DEF IgnoreError, store, history
  <2>2. Frame /\ ApprovalNeedsConsent' /\ RowsNumbered' /\ ConfirmationsVouched'
    BY <2>1, TablesKept
  <2>3. PICK step \in Steps :
          /\ Goto(w, step) /\ ~Idle(w)
          /\ step = "confirmDecide" => job[w].at = "confirmInsert"
          /\ step = "undoInsert" => job[w].at = "undoList"
          /\ step \in {"sendCard", "confirmDecide", "confirmRemaining", "confirmEdit", "undoInsert"}
    BY <1>2 DEF IgnoreError, AfterError, Steps
  <2>4. /\ SnapshotAgrees(w)'
        /\ job'[w].at = step /\ job'[w].user = job[w].user
        /\ job'[w].mid = job[w].mid /\ job'[w].snap = job[w].snap
        /\ \A v \in Workers \ {w} : JobOK(v)'
    BY <2>2, <2>3, MovedKept
  <2>5. SenderVouched(w)
    BY <2>3 DEF ConsentInv
  <2>6. SenderVouched(w)'
    BY <2>1, <2>3, <2>4, <2>5 DEF SenderVouched, Vouched
  <2> QED
    BY <2>2, <2>4, <2>6 DEF ConsentInv, JobOK
<1>3. CASE CronAbandons \/ \E m \in MatchIds, u \in Users : UndoTimesOut(m, u)
  <2>1. UNCHANGED <<matches, matchCounters, confirmations, consent, job>>
    BY <1>3 DEF CronAbandons, UndoTimesOut, UndoAges, store, history, procs
  <2>2. Frame /\ ApprovalNeedsConsent' /\ RowsNumbered' /\ ConfirmationsVouched'
    BY <2>1, TablesKept
  <2> QED
    BY <2>1, <2>2, OthersKept DEF ConsentInv, JobOK
<1>4. ASSUME NEW m \in MatchIds, MatchTimesOut(m)
      PROVE  ConsentInv'
  <2>1. UNCHANGED <<matchCounters, confirmations, consent, job>>
    BY <1>4 DEF MatchTimesOut, MatchAges, history, procs
  <2>2. /\ \A k \in MatchIds : k # m => matches'[k] = matches[k]
        /\ matches'[m] = [matches[m] EXCEPT !.old = TRUE]
        /\ matches[m] \in MatchRows /\ Exists(m) /\ matches[m].status = "PENDING"
    BY <1>4 DEF MatchTimesOut, MatchAges, HasStatus, Exists, TypeOK, StoreTypeOK
  <2>3. SamePlayers(matches'[m], matches[m]) /\ matches'[m].status = "PENDING"
    BY <2>2 DEF MatchRows, SamePlayers
  <2>4. Frame
    <3>1. \A k \in MatchIds : Exists(k)' => Exists(k) /\ SamePlayers(matches[k]', matches[k])
      <4> SUFFICES ASSUME NEW k \in MatchIds, Exists(k)'
                   PROVE  Exists(k) /\ SamePlayers(matches'[k], matches[k])
        OBVIOUS
      <4>1. CASE k = m
        BY <4>1, <2>2, <2>3
      <4>2. CASE k # m
        <5>1. matches'[k] = matches[k]
          BY <4>2, <2>2
        <5> QED
          BY <5>1 DEF Exists, SamePlayers
      <4> QED
        BY <4>1, <4>2
    <3> QED
      BY <2>1, <3>1 DEF Frame, TypeOK, StoreTypeOK
  <2>5. ApprovalNeedsConsent'
    BY <2>1, <2>2, <2>3 DEF ConsentInv, ApprovalNeedsConsent, HasStatus, Exists
  <2>6. RowsNumbered' /\ ConfirmationsVouched'
    BY <2>1, <2>2 DEF ConsentInv, RowsNumbered, ConfirmationsVouched, Exists
  <2> QED
    BY <2>1, <2>4, <2>5, <2>6, OthersKept DEF ConsentInv, JobOK
<1> QED
  BY <1>1, <1>2, <1>3, <1>4 DEF Environment

LEMMA ConsentStep ==
    ASSUME TypeOK, TypeOK', ConsentInv, [Next]_vars
    PROVE  ConsentInv'
<1>1. ASSUME NEW w \in Workers, Step(w)
      PROVE  ConsentInv'
  BY <1>1, QuietStepConsent, InsertConsent, DecideConsent, WriteStatusConsent,
     CancelDeleteConsent DEF Step
<1>2. CASE UNCHANGED vars
  <2>1. UNCHANGED <<matches, matchCounters, confirmations, consent, job>>
    BY <1>2 DEF vars, store, procs, history
  <2>2. Frame /\ ApprovalNeedsConsent' /\ RowsNumbered' /\ ConfirmationsVouched'
    BY <2>1, TablesKept
  <2> QED
    BY <2>1, <2>2, OthersKept DEF ConsentInv, JobOK
<1> QED
  BY <1>1, <1>2, StartConsent, CronConsent, EnvironmentConsent DEF Next

LEMMA ConsentInit == Init => ConsentInv
BY DEF Init, StoreInit, ConsentInv, ApprovalNeedsConsent, RowsNumbered, ConfirmationsVouched,
       HasStatus, Exists, Idle

\* A match counts towards the ratings only if an admin or both players vouched
\* for it, for any users, workers, matches and number of failures, whether
\* the handlers interleave or not.
THEOREM ApprovalConsent == Spec => []ApprovalNeedsConsent
<1>1. TypeOK /\ TypeOK' /\ ConsentInv /\ [Next]_vars => ConsentInv'
  BY ConsentStep
<1>2. ConsentInv => ApprovalNeedsConsent
  BY DEF ConsentInv
<1> QED
  BY <1>1, <1>2, ConsentInit, TypeCorrect, PTL DEF Spec

-----------------------------------------------------------------------------
(* A match id names one match for ever *)

\* NeverRevived, as a relation between two states, for one match.
NotRevived(m) ==
    /\ m <= matchCounters /\ ~Exists(m) => ~Exists(m)'
    /\ HasStatus(m, "PENDING")' => HasStatus(m, "PENDING") \/ m > matchCounters

\* A status write finds no row where there is none, and never writes PENDING.
LEMMA UpdateStatusRevives ==
    ASSUME StoreTypeOK, NEW k \in MatchIds, NEW s \in Statuses, s # "PENDING",
           UpdateStatus(k, s), NEW m \in MatchIds
    PROVE  NotRevived(m)
<1>1. Exists(m) => matches[m] \in MatchRows
  BY DEF StoreTypeOK, Exists
<1>2. CASE m = k /\ Exists(k)
  <2>1. matches'[m] = [matches[m] EXCEPT !.status = s]
    BY <1>2 DEF UpdateStatus, StoreTypeOK
  <2>2. matches'[m].status = s
    BY <1>1, <1>2, <2>1 DEF MatchRows
  <2> QED
    BY <1>2, <2>2 DEF NotRevived, HasStatus
<1>3. CASE ~(m = k /\ Exists(k))
  <2>1. matches'[m] = matches[m]
    BY <1>3 DEF UpdateStatus, StoreTypeOK
  <2> QED
    BY <2>1 DEF NotRevived, HasStatus, Exists
<1> QED
  BY <1>2, <1>3

LEMMA SameRowRevives ==
    ASSUME NEW m \in MatchIds, matches'[m] = matches[m]
    PROVE  NotRevived(m)
BY DEF NotRevived, HasStatus, Exists

LEMMA DeleteRevives ==
    ASSUME StoreTypeOK, NEW k \in MatchIds, DeleteMatch(k), NEW m \in MatchIds
    PROVE  NotRevived(m)
BY DEF DeleteMatch, StoreTypeOK, NotRevived, HasStatus, Exists

LEMMA RevivalStep ==
    ASSUME TypeOK, [Next]_vars, NEW m \in MatchIds
    PROVE  NotRevived(m)
<1>1. ASSUME NEW w \in Workers, Start(w)
      PROVE  NotRevived(m)
  <2>1. ASSUME NEW u \in Users, NEW pair \in Pairings, HandleMatch(w, u, pair)
        PROVE  NotRevived(m)
    <3>1. PICK row : AllocateAndInsertMatch(row)
      BY <2>1 DEF HandleMatch
    <3>2. matchCounters \in Nat /\ m \in Nat
      BY DEF TypeOK, StoreTypeOK, MatchIds
    <3>3. CASE m = matchCounters + 1
      BY <3>2, <3>3 DEF NotRevived
    <3>4. CASE m # matchCounters + 1
      BY <3>1, <3>4, SameRowRevives DEF AllocateAndInsertMatch, TypeOK, StoreTypeOK
    <3> QED
      BY <3>3, <3>4
  <2>2. ASSUME NEW u \in Users, NEW k \in MatchIds,
               HandleConfirmTap(w, u, k) \/ HandleCancelTap(w, u, k) \/ HandleUndo(w, u, k)
        PROVE  NotRevived(m)
    BY <2>2, SameRowRevives DEF HandleConfirmTap, HandleCancelTap, HandleUndo, store
  <2> QED
    BY <1>1, <2>1, <2>2 DEF Start
<1>2. ASSUME NEW w \in Workers, Step(w)
      PROVE  NotRevived(m)
  <2>1. CASE ConfirmApprove(w) \/ UndoToggle(w)
    <3>1. job[w].mid \in MatchIds
      BY <2>1, BusyJob DEF ConfirmApprove, UndoToggle, At, Jobs
    <3>2. PICK s \in Statuses : s # "PENDING" /\ UpdateStatus(job[w].mid, s)
      BY <2>1 DEF ConfirmApprove, UndoToggle, Toggled, Statuses
    <3> QED
      BY <3>1, <3>2, UpdateStatusRevives DEF TypeOK
  <2>2. CASE CancelDelete(w)
    <3>1. job[w].mid \in MatchIds
      BY <2>2, BusyJob DEF CancelDelete, At, Jobs
    <3> QED
      BY <2>2, <3>1, DeleteRevives DEF CancelDelete, TypeOK
  <2>3. CASE ~(ConfirmApprove(w) \/ UndoToggle(w) \/ CancelDelete(w))
    <3>1. UNCHANGED matches
      BY <1>2, <2>3
         DEF Step, Announce, AuthorConfirm, SendCard, ConfirmInsert, ConfirmDecide, ConfirmEdit,
             ConfirmRemaining, CancelEdit, UndoList, UndoWithdraw, UndoInsert, UndoCheck,
             UndoClear, InsertConfirmation, DeleteUndo, InsertUndo, DeleteUndosForMatch, store
    <3> QED
      BY <3>1, SameRowRevives
  <2> QED
    BY <2>1, <2>2, <2>3
<1>3. CASE CronStep
  <2>1. CASE \E k \in MatchIds : CronExpire(k)
    BY <2>1, DeleteRevives DEF CronExpire, TypeOK
  <2>2. CASE ~ \E k \in MatchIds : CronExpire(k)
    <3>1. UNCHANGED matches
      BY <1>3, <2>2 DEF CronStep, CronStart, CronAnnounce, CronListUndo, CronDone, CronExpireUndo,
                        DeleteConfirmations, DeleteUndo, store
    <3> QED
      BY <3>1, SameRowRevives
  <2> QED
    BY <2>1, <2>2
<1>4. CASE Environment
  <2>1. ASSUME NEW k \in MatchIds, MatchTimesOut(k)
        PROVE  NotRevived(m)
    <3>1. Exists(k) /\ HasStatus(k, "PENDING") /\ matches' = [matches EXCEPT ![k].old = TRUE]
      BY <2>1 DEF MatchTimesOut, MatchAges, HasStatus
    <3>2. CASE m = k
      BY <3>1, <3>2 DEF NotRevived
    <3>3. CASE m # k
      BY <3>1, <3>3, SameRowRevives DEF TypeOK, StoreTypeOK
    <3> QED
      BY <3>2, <3>3
  <2>2. CASE ~ \E k \in MatchIds : MatchTimesOut(k)
    <3>1. UNCHANGED matches
      BY <1>4, <2>2 DEF Environment, Crash, IgnoreError, CronAbandons, UndoTimesOut, UndoAges, store
    <3> QED
      BY <3>1, SameRowRevives
  <2> QED
    BY <1>4, <2>1, <2>2
<1>5. CASE UNCHANGED vars
  BY <1>5, SameRowRevives DEF vars, store
<1> QED
  BY <1>1, <1>2, <1>3, <1>4, <1>5 DEF Next

\* Whatever interleaves or fails, a removed match never comes back, an id is
\* never used again and a settled match never becomes pending again.
THEOREM NoRevival == Spec => NeverRevived
<1>1. TypeOK /\ [Next]_vars => [\A m \in MatchIds : NotRevived(m)]_vars
  BY RevivalStep
<1> QED
  BY <1>1, TypeCorrect, PTL DEF Spec, NeverRevived, NotRevived

-----------------------------------------------------------------------------
(* Handlers that overlap: no match is left pending with both confirmations, *)
(* and an expiry notice is never about a match that somebody else removed.  *)
(* The inductive invariants.                                                *)

\* What the cron function has removed stays removed, so that what it is about
\* to announce is still true when it does.
ExpiryInv ==
    /\ ExpiryNoticeTruthful
    /\ cron.at = "expireClear" => removedBy[cron.mid] = "cron"
    /\ \A m \in MatchIds : removedBy[m] = "cron" => m <= matchCounters /\ ~Exists(m)

\* Until the author's confirmation is stored there is no card to tap and
\* nothing to undo, so nobody else works on the match.
AuthorAlone(w) ==
    LET m == job[w].mid
    IN  /\ card[m] = "none"
        /\ ConfirmedBy(m) = {}
        /\ ~HasStatus(m, "APPROVED") /\ ~HasStatus(m, "UNDONE")
        /\ \A v \in Workers : ~Idle(v) /\ v # w => job[v].mid # m

TwoPlayers == \A m \in MatchIds : Exists(m) => matches[m].p1 # matches[m].p2

Unborn ==
    \A m \in MatchIds : matchCounters < m => ConfirmedBy(m) = {} /\ card[m] = "none"

RaceInv ==
    /\ TwoPlayers
    /\ Unborn
    /\ \A w \in Workers : At(w, "authorConfirm") => AuthorAlone(w)
    /\ NoLostConfirmation

-----------------------------------------------------------------------------
(* Expiry notices *)

\* A removed match stays removed.
LEMMA StaysRemoved ==
    ASSUME TypeOK, TypeOK', [Next]_vars, NEW m \in MatchIds, m <= matchCounters, ~Exists(m)
    PROVE  m <= matchCounters' /\ ~Exists(m)'
<1>1. ~Exists(m)'
  BY RevivalStep DEF NotRevived
<1>2. matchCounters' = matchCounters \/ matchCounters' = matchCounters + 1
  <2>1. ASSUME NEW w \in Workers, Start(w)
        PROVE  matchCounters' = matchCounters \/ matchCounters' = matchCounters + 1
    BY <2>1 DEF Start, HandleMatch, HandleConfirmTap, HandleCancelTap, HandleUndo,
                AllocateAndInsertMatch, store
  <2>2. ASSUME NEW w \in Workers, Step(w)
        PROVE  UNCHANGED matchCounters
    BY <2>2 DEF Step, Announce, AuthorConfirm, SendCard, ConfirmInsert, ConfirmDecide,
                ConfirmApprove, ConfirmEdit, ConfirmRemaining, CancelDelete, CancelEdit, UndoList,
                UndoWithdraw, UndoInsert, UndoCheck, UndoToggle, UndoClear, InsertConfirmation,
                UpdateStatus, DeleteMatch, DeleteUndo, InsertUndo, DeleteUndosForMatch, store
  <2>3. CASE CronStep
    BY <2>3 DEF CronStep, CronStart, CronExpire, CronAnnounce, CronListUndo, CronExpireUndo,
                CronDone, DeleteMatch, DeleteConfirmations, DeleteUndo, store
  <2>4. CASE Environment
    BY <2>4 DEF Environment, Crash, IgnoreError, CronAbandons, MatchTimesOut, UndoTimesOut,
                MatchAges, UndoAges, store
  <2>5. CASE UNCHANGED vars
    BY <2>5 DEF vars, store
  <2> QED
    BY <2>1, <2>2, <2>3, <2>4, <2>5 DEF Next
<1> QED
  BY <1>1, <1>2 DEF TypeOK, StoreTypeOK, MatchIds

LEMMA ExpiryStep ==
    ASSUME TypeOK, TypeOK', ConsentInv, ExpiryInv, Backend = "mem", [Next]_vars
    PROVE  ExpiryInv'
<1>1. \A m \in MatchIds : m <= matchCounters /\ ~Exists(m) => m <= matchCounters' /\ ~Exists(m)'
  BY StaysRemoved
<1>2. ASSUME NEW w \in Workers, CancelDelete(w)
      PROVE  ExpiryInv'
  <2>1. PICK k \in MatchIds : k = job[w].mid
    BY <1>2, BusyJob DEF CancelDelete, At, Jobs
  <2>2. /\ UNCHANGED <<cron, expired>>
        /\ removedBy' = IF Exists(k) THEN [removedBy EXCEPT ![k] = "cancel"] ELSE removedBy
    BY <1>2, <2>1 DEF CancelDelete
  <2>3. \A m \in MatchIds : removedBy[m] = "cron" <=> removedBy'[m] = "cron"
    BY <2>2 DEF ExpiryInv, TypeOK
  <2>4. ExpiryNoticeTruthful'
    BY <2>2, <2>3 DEF ExpiryInv, ExpiryNoticeTruthful, TypeOK
  <2> QED
    BY <1>1, <2>2, <2>3, <2>4 DEF ExpiryInv, TypeOK
<1>3. ASSUME NEW k \in MatchIds, CronExpire(k)
      PROVE  ExpiryInv'
  <2>1. /\ UNCHANGED expired
        /\ removedBy' = IF Exists(k) THEN [removedBy EXCEPT ![k] = "cron"] ELSE removedBy
        /\ ~Exists(k) => cron'.at = cron.at
        /\ Exists(k) => cron'.mid = k
    BY <1>3 DEF CronExpire, DeleteSucceeds, TypeOK, Crons
  <2>2. (k <= matchCounters' /\ ~Exists(k)') \/ ~Exists(k)
    BY <1>3 DEF CronExpire, DeleteMatch, Exists, TypeOK, StoreTypeOK, ConsentInv, RowsNumbered
  <2>3. \A m \in MatchIds : removedBy'[m] = "cron" <=> removedBy[m] = "cron" \/ (m = k /\ Exists(k))
    BY <2>1 DEF TypeOK
  <2>4. ExpiryNoticeTruthful'
    BY <2>1, <2>3 DEF ExpiryInv, ExpiryNoticeTruthful, TypeOK
  <2>5. cron'.at = "expireClear" => Exists(k)
    BY <1>3, <2>1 DEF CronExpire
  <2> QED
    BY <1>1, <2>1, <2>2, <2>3, <2>4, <2>5 DEF ExpiryInv
<1>4. CASE CronAnnounce
  <2>1. /\ expired' = expired \cup {cron.mid} /\ removedBy[cron.mid] = "cron"
        /\ cron'.at # "expireClear" /\ removedBy' = removedBy
    BY <1>4 DEF CronAnnounce, ExpiryInv, history, TypeOK, Crons
  <2> QED
    BY <1>1, <2>1 DEF ExpiryInv, ExpiryNoticeTruthful
<1>5. CASE /\ UNCHANGED <<expired, removedBy>>
           /\ cron' = cron \/ cron'.at # "expireClear"
  <2>1. ExpiryNoticeTruthful'
    BY <1>5 DEF ExpiryInv, ExpiryNoticeTruthful
  <2> QED
    BY <1>1, <1>5, <2>1 DEF ExpiryInv
<1>6. ASSUME NEW w \in Workers, Start(w) \/ (Step(w) /\ ~CancelDelete(w))
      PROVE  UNCHANGED <<cron, expired, removedBy>>
  BY <1>6 DEF Start, HandleMatch, HandleConfirmTap, HandleCancelTap, HandleUndo,
              Step, Announce, AuthorConfirm, SendCard, ConfirmInsert, ConfirmDecide, ConfirmApprove,
              ConfirmEdit, ConfirmRemaining, CancelEdit, UndoList, UndoWithdraw, UndoInsert,
              UndoCheck, UndoToggle, UndoClear, history
<1>7. ASSUME CronStep, ~CronAnnounce, ~ \E k \in MatchIds : CronExpire(k)
      PROVE  UNCHANGED <<expired, removedBy>> /\ (cron' = cron \/ cron'.at # "expireClear")
  <2>1. CASE CronStart \/ CronListUndo \/ CronDone
    <3>1. UNCHANGED <<expired, removedBy>>
      BY <2>1 DEF CronStart, CronListUndo, CronDone, history
    <3>2. CASE CronStart
      BY <3>1, <3>2 DEF CronStart, CronIdle
    <3>3. CASE CronListUndo
      BY <3>1, <3>3 DEF CronListUndo, TypeOK, Crons
    <3>4. CASE CronDone
      BY <3>1, <3>4 DEF CronDone, CronIdle
    <3> QED
      BY <2>1, <3>2, <3>3, <3>4
  <2>2. ASSUME NEW m \in MatchIds, NEW u \in Users, CronExpireUndo(m, u)
        PROVE  UNCHANGED <<expired, removedBy>> /\ cron'.at # "expireClear"
    BY <2>2 DEF CronExpireUndo, TypeOK, Crons
  <2> QED
    BY <1>7, <2>1, <2>2 DEF CronStep
<1>8. ASSUME Environment
      PROVE  UNCHANGED <<expired, removedBy>> /\ (cron' = cron \/ cron'.at # "expireClear")
  BY <1>8 DEF Environment, Crash, IgnoreError, CronAbandons, MatchTimesOut, UndoTimesOut,
              CronIdle, procs, history, TypeOK, Crons
<1>9. CASE UNCHANGED vars
  BY <1>5, <1>9 DEF vars, procs, history
<1> QED
  BY <1>2, <1>3, <1>4, <1>5, <1>6, <1>7, <1>8, <1>9 DEF Next

\* The expired matches that the group is told about are the ones the cron
\* function removed, whatever interleaves and fails, provided the store
\* reports a missing row as memstore does.
THEOREM TruthfulExpiryNotices ==
    ASSUME Backend = "mem"
    PROVE  Spec => []ExpiryNoticeTruthful
<1>1. TypeOK /\ TypeOK' /\ ConsentInv /\ [Next]_vars => ConsentInv'
  BY ConsentStep
<1>2. TypeOK /\ TypeOK' /\ ConsentInv /\ ExpiryInv /\ [Next]_vars => ExpiryInv'
  BY ExpiryStep
<1>3. Init => ExpiryInv
  BY DEF Init, CronIdle, ExpiryInv, ExpiryNoticeTruthful
<1>4. ExpiryInv => ExpiryNoticeTruthful
  BY DEF ExpiryInv
<1> QED
  BY <1>1, <1>2, <1>3, <1>4, ConsentInit, TypeCorrect, PTL DEF Spec

-----------------------------------------------------------------------------
(* Confirmations *)

\* The match awaits nobody any more, and a tap is on its way to say so.
Complete(m) == HasStatus(m, "PENDING") /\ {matches[m].p1, matches[m].p2} \subseteq ConfirmedBy(m)

Deciding(m) ==
    \E w \in Workers : (At(w, "confirmDecide") \/ At(w, "confirmApprove")) /\ job[w].mid = m

LEMMA NothingLost == NoLostConfirmation <=> \A m \in MatchIds : Complete(m) => Deciding(m)
BY DEF NoLostConfirmation, Complete, Deciding

\* A step of a handler touches its own match only, so it is enough to look
\* at that one.
LEMMA LocalStep ==
    ASSUME TypeOK, ConsentInv, RaceInv, NEW w \in Workers, ~Idle(w),
           NEW k \in MatchIds, k = job[w].mid,
           \A v \in Workers : v # w => job'[v] = job[v],
           ~Idle(w)' => job'[w].mid = k /\ job'[w].at # "authorConfirm",
           UNCHANGED matchCounters,
           \A m \in MatchIds : m # k => /\ matches'[m] = matches[m] /\ card'[m] = card[m]
                                        /\ ConfirmedBy(m)' = ConfirmedBy(m),
           Exists(k)' => Exists(k) /\ SamePlayers(matches'[k], matches[k]),
           Complete(k)' => Deciding(k)'
    PROVE  RaceInv'
<1>1. TwoPlayers'
  BY DEF RaceInv, TwoPlayers, SamePlayers, Exists
<1>2. Unborn'
  <2>1. k <= matchCounters
    BY DEF ConsentInv, SnapshotAgrees
  <2> QED
    BY <2>1 DEF RaceInv, Unborn, MatchIds, TypeOK, StoreTypeOK
<1>3. ASSUME NEW v \in Workers, At(v, "authorConfirm")'
      PROVE  AuthorAlone(v)'
  <2>1. v # w /\ job'[v] = job[v] /\ At(v, "authorConfirm")
    BY <1>3 DEF At, Idle
  <2>2. AuthorAlone(v) /\ job[v].mid \in MatchIds
    BY <2>1, BusyJob DEF RaceInv, At, Jobs
  <2>3. PICK m \in MatchIds : m = job[v].mid /\ m # k
    BY <2>1, <2>2 DEF AuthorAlone
  <2>4. card'[m] = "none" /\ ConfirmedBy(m)' = {} /\ matches'[m] = matches[m]
    BY <2>2, <2>3 DEF AuthorAlone
  <2>5. ~HasStatus(m, "APPROVED")' /\ ~HasStatus(m, "UNDONE")'
    BY <2>2, <2>3, <2>4 DEF AuthorAlone, HasStatus, Exists
  <2>6. \A x \in Workers : ~Idle(x)' /\ x # v => job'[x].mid # m
    BY <2>2, <2>3 DEF AuthorAlone, Idle
  <2>7. job'[v].mid = m
    BY <2>1, <2>3
  <2> QED
    BY <2>4, <2>5, <2>6, <2>7 DEF AuthorAlone, ConfirmedBy, HasStatus, Exists
<1>4. ASSUME NEW m \in MatchIds, Complete(m)'
      PROVE  Deciding(m)'
  <2>1. CASE m = k
    BY <1>4, <2>1
  <2>2. CASE m # k
    <3>1. Complete(m)
      BY <1>4, <2>2 DEF Complete, HasStatus, Exists
    <3>2. PICK v \in Workers : (At(v, "confirmDecide") \/ At(v, "confirmApprove")) /\ job[v].mid = m
      BY <3>1, NothingLost DEF RaceInv, Deciding
    <3>3. job'[v] = job[v]
      BY <2>2, <3>2
    <3> QED
      BY <3>2, <3>3 DEF Deciding, At, Idle
  <2> QED
    BY <2>1, <2>2
<1>5. NoLostConfirmation'
  BY <1>4 DEF NoLostConfirmation, Complete, Deciding
<1> QED
  BY <1>1, <1>2, <1>3, <1>5 DEF RaceInv

\* Rows that age or go, and confirmations that go, ask nothing of anybody.
LEMMA RowsGo ==
    ASSUME TypeOK, RaceInv, UNCHANGED <<job, card, matchCounters>>,
           \A m \in MatchIds : Exists(m)' => /\ Exists(m) /\ SamePlayers(matches'[m], matches[m])
                                             /\ matches'[m].status = matches[m].status,
           confirmations' \subseteq confirmations
    PROVE  RaceInv'
<1>1. \A m \in MatchIds : /\ ConfirmedBy(m)' \subseteq ConfirmedBy(m)
                          /\ \A t : HasStatus(m, t)' => HasStatus(m, t)
  BY DEF ConfirmedBy, HasStatus
<1>2. TwoPlayers'
  BY DEF RaceInv, TwoPlayers, SamePlayers
<1>3. Unborn'
  BY <1>1 DEF RaceInv, Unborn
<1>4. ASSUME NEW v \in Workers, At(v, "authorConfirm")'
      PROVE  AuthorAlone(v)'
  <2>1. At(v, "authorConfirm") /\ AuthorAlone(v)
    BY <1>4 DEF RaceInv, At, Idle
  <2>2. PICK m \in MatchIds : m = job[v].mid
    BY <2>1, BusyJob DEF At, Jobs
  <2>3. card'[m] = "none" /\ ConfirmedBy(m)' = {}
    BY <1>1, <2>1, <2>2 DEF AuthorAlone
  <2>4. ~HasStatus(m, "APPROVED")' /\ ~HasStatus(m, "UNDONE")'
    BY <1>1, <2>1, <2>2 DEF AuthorAlone
  <2>5. \A x \in Workers : ~Idle(x)' /\ x # v => job'[x].mid # m
    BY <2>1, <2>2 DEF AuthorAlone, Idle
  <2> QED
    BY <2>2, <2>3, <2>4, <2>5 DEF AuthorAlone, ConfirmedBy, HasStatus, Exists
<1>5. ASSUME NEW m \in MatchIds, Complete(m)'
      PROVE  Deciding(m)'
  <2>1. Complete(m)
    BY <1>1, <1>5 DEF Complete, HasStatus, SamePlayers
  <2>2. Deciding(m)
    BY <2>1, NothingLost DEF RaceInv
  <2> QED
    BY <2>2 DEF Deciding, At, Idle
<1>6. NoLostConfirmation'
  BY <1>5 DEF NoLostConfirmation, Complete, Deciding
<1> QED
  BY <1>2, <1>3, <1>4, <1>6 DEF RaceInv

LEMMA StepRaces ==
    ASSUME TypeOK, ConsentInv, RaceInv, NEW w \in Workers, Step(w)
    PROVE  RaceInv'
<1>1. ~Idle(w)
  BY DEF Step, At, Announce, AuthorConfirm, SendCard, ConfirmInsert, ConfirmDecide, ConfirmApprove,
         ConfirmEdit, ConfirmRemaining, CancelDelete, CancelEdit, UndoList, UndoWithdraw,
         UndoInsert, UndoCheck, UndoToggle, UndoClear
<1>2. PICK k \in MatchIds, u \in Users, row \in MatchRows :
        k = job[w].mid /\ u = job[w].user /\ row = job[w].snap
  BY <1>1, BusyJob DEF Jobs
<1>3. Exists(k) => matches[k].p1 = row.p1 /\ matches[k].p2 = row.p2
  BY <1>1, <1>2 DEF ConsentInv, SnapshotAgrees, SamePlayers
\* The worker goes on with its match, or is done.
<1>4. ASSUME NEW s \in Steps, Goto(w, s), s # "authorConfirm"
      PROVE  /\ \A v \in Workers : v # w => job'[v] = job[v]
             /\ ~Idle(w)' => job'[w].mid = k /\ job'[w].at # "authorConfirm"
             /\ At(w, s)' /\ job'[w].mid = k
  <2>1. job[w] \in Jobs
    BY <1>1, BusyJob
  <2>2. job'[w] = [job[w] EXCEPT !.at = s] /\ \A v \in Workers : v # w => job'[v] = job[v]
    BY <1>4 DEF TypeOK, Goto
  <2>3. job'[w].at = s /\ job'[w].mid = k /\ job'[w] \in Jobs
    BY <1>2, <2>1, <2>2 DEF Jobs
  <2>4. ~Idle(w)'
    BY <2>3, LifecycleAssumption DEF Idle
  <2> QED
    BY <1>4, <2>2, <2>3, <2>4 DEF At
<1>5. ASSUME Finish(w)
      PROVE  /\ \A v \in Workers : v # w => job'[v] = job[v]
             /\ Idle(w)'
  BY <1>5 DEF TypeOK, Finish, Idle
\* Steps that leave the rows and the confirmations alone.
<1>6. ASSUME UNCHANGED <<matches, matchCounters, confirmations>>,
             \A m \in MatchIds : m # k => card'[m] = card[m],
             Finish(w) \/ \E s \in Steps : s # "authorConfirm" /\ Goto(w, s),
             Complete(k) => Deciding(k)'
      PROVE  RaceInv'
  <2>1. \A m \in MatchIds : m # k => /\ matches'[m] = matches[m] /\ card'[m] = card[m]
                                     /\ ConfirmedBy(m)' = ConfirmedBy(m)
    BY <1>6 DEF ConfirmedBy
  <2>2. Exists(k)' => Exists(k) /\ SamePlayers(matches'[k], matches[k])
    BY <1>6 DEF Exists, SamePlayers
  <2>3. Complete(k)' <=> Complete(k)
    BY <1>6 DEF Complete, HasStatus, Exists, ConfirmedBy
  <2>4. /\ \A v \in Workers : v # w => job'[v] = job[v]
        /\ ~Idle(w)' => job'[w].mid = k /\ job'[w].at # "authorConfirm"
    BY <1>4, <1>5, <1>6
  <2> QED
    BY <1>1, <1>2, <1>6, <2>1, <2>2, <2>3, <2>4, LocalStep
<1>7. ASSUME job[w].at \notin {"confirmDecide", "confirmApprove"},
             \A v \in Workers : v # w => job'[v] = job[v]
      PROVE  Complete(k) => Deciding(k)'
  <2>1. Complete(k) => Deciding(k)
    BY NothingLost DEF RaceInv
  <2> QED
    BY <1>7, <2>1 DEF Deciding, At, Idle
<1>8. CASE Announce(w) \/ SendCard(w) \/ ConfirmEdit(w) \/ ConfirmRemaining(w) \/ CancelEdit(w)
  <2>1. /\ UNCHANGED <<matches, matchCounters, confirmations>> /\ Finish(w)
        /\ job[w].at \notin {"confirmDecide", "confirmApprove"}
        /\ \E text : SetCard(k, text)
    BY <1>2, <1>8 DEF Announce, SendCard, ConfirmEdit, ConfirmRemaining, CancelEdit, At, store
  <2>2. \A m \in MatchIds : m # k => card'[m] = card[m]
    BY <2>1 DEF SetCard, TypeOK
  <2> QED
    BY <1>5, <1>6, <1>7, <2>1, <2>2
<1>9. CASE \/ UndoList(w) \/ UndoWithdraw(w) \/ UndoInsert(w) \/ UndoCheck(w) \/ UndoClear(w)
  <2>1. /\ UNCHANGED <<matches, matchCounters, confirmations, card>>
        /\ job[w].at \notin {"confirmDecide", "confirmApprove"}
    BY <1>9 DEF UndoList, UndoWithdraw, UndoInsert, UndoCheck, UndoClear, At, store,
                DeleteUndo, InsertUndo, DeleteUndosForMatch
  <2>2. Finish(w) \/ \E s \in Steps : s # "authorConfirm" /\ Goto(w, s)
    BY <1>9 DEF UndoList, UndoWithdraw, UndoInsert, UndoCheck, UndoClear, Steps
  <2>3. \A v \in Workers : v # w => job'[v] = job[v]
    BY <1>4, <1>5, <2>2
  <2> QED
    BY <1>6, <1>7, <2>1, <2>2, <2>3
<1>10. CASE ConfirmDecide(w)
  <2>1. /\ UNCHANGED <<matches, matchCounters, confirmations, card>>
        /\ \/ Goto(w, "confirmApprove")
           \/ Goto(w, "confirmRemaining") /\ ~({row.p1, row.p2} \subseteq ConfirmedBy(k))
    BY <1>2, <1>10 DEF ConfirmDecide, store
  <2>2. "confirmApprove" \in Steps /\ "confirmRemaining" \in Steps
    BY DEF Steps
  <2>3. Complete(k) => Deciding(k)'
    BY <1>3, <1>4, <2>1, <2>2 DEF Complete, HasStatus, Deciding
  <2> QED
    BY <1>6, <2>1, <2>2, <2>3
<1>11. CASE ConfirmApprove(w) \/ UndoToggle(w)
  <2>1. PICK t \in {"APPROVED", "UNDONE"} : UpdateStatus(k, t)
    BY <1>2, <1>11 DEF ConfirmApprove, UndoToggle, Toggled
  <2>2. UNCHANGED <<matchCounters, confirmations, card>>
    BY <1>11, <2>1 DEF ConfirmApprove, UndoToggle, UpdateStatus
  <2>3. PICK s \in Steps : s # "authorConfirm" /\ Goto(w, s)
    BY <1>11 DEF ConfirmApprove, UndoToggle, Steps
  <2>4. Exists(k) => matches[k] \in MatchRows
    BY DEF TypeOK, StoreTypeOK, Exists
  <2>5. /\ \A m \in MatchIds : m # k => matches'[m] = matches[m]
        /\ matches'[k] = IF Exists(k) THEN [matches[k] EXCEPT !.status = t] ELSE matches[k]
    BY <2>1 DEF UpdateStatus, TypeOK, StoreTypeOK
  <2>6. /\ Exists(k)' => Exists(k) /\ SamePlayers(matches'[k], matches[k])
        /\ ~HasStatus(k, "PENDING")'
    BY <2>4, <2>5 DEF Exists, HasStatus, SamePlayers, MatchRows
  <2>7. \A m \in MatchIds : ConfirmedBy(m)' = ConfirmedBy(m)
    BY <2>2 DEF ConfirmedBy
  <2>8. ~Complete(k)'
    BY <2>6 DEF Complete
  <2> QED
    BY <1>1, <1>2, <1>4, <2>2, <2>3, <2>5, <2>6, <2>7, <2>8, LocalStep
<1>12. CASE CancelDelete(w)
  <2>1. DeleteMatch(k) /\ UNCHANGED card /\ Goto(w, "cancelEdit") /\ "cancelEdit" \in Steps
    BY <1>2, <1>12 DEF CancelDelete, Steps
  <2>2. /\ \A m \in MatchIds : m # k => matches'[m] = matches[m]
        /\ ~Exists(k)' /\ UNCHANGED matchCounters
    BY <2>1 DEF DeleteMatch, Exists, TypeOK, StoreTypeOK
  <2>3. \A m \in MatchIds : m # k => ConfirmedBy(m)' = ConfirmedBy(m)
    BY <2>1 DEF DeleteMatch, ConfirmedBy
  <2>4. ~Complete(k)'
    BY <2>2 DEF Complete, HasStatus
  <2> QED
    BY <1>1, <1>2, <1>4, <2>1, <2>2, <2>3, <2>4, LocalStep
<1>13. CASE AuthorConfirm(w) \/ ConfirmInsert(w)
  <2>1. InsertConfirmation(k, u) /\ UNCHANGED <<card, matches, matchCounters>>
    BY <1>2, <1>13 DEF AuthorConfirm, ConfirmInsert, InsertConfirmation
  <2>2. PICK s \in {"sendCard", "confirmDecide"} :
          /\ Goto(w, s)
          /\ s = "sendCard" => At(w, "authorConfirm")
    BY <1>13 DEF AuthorConfirm, ConfirmInsert
  <2>3. s \in Steps /\ s # "authorConfirm"
    BY DEF Steps
  <2>4. \A m \in MatchIds : m # k => ConfirmedBy(m)' = ConfirmedBy(m)
    BY <2>1 DEF InsertConfirmation, ConfirmedBy
  <2>5. ConfirmedBy(k)' = ConfirmedBy(k) \cup {u}
    BY <2>1 DEF InsertConfirmation, ConfirmedBy
  <2>6. CASE s = "sendCard"
    <3>1. ConfirmedBy(k)' = {u}
      BY <1>2, <2>2, <2>5, <2>6 DEF RaceInv, AuthorAlone
    <3>2. Exists(k)' => matches'[k].p1 # matches'[k].p2
      BY <2>1 DEF RaceInv, TwoPlayers, Exists
    <3>3. ~Complete(k)'
      BY <3>1, <3>2 DEF Complete, HasStatus
    <3> QED
      BY <1>1, <1>2, <1>4, <2>1, <2>2, <2>3, <2>4, <3>3, LocalStep DEF Exists, SamePlayers
  <2>7. CASE s = "confirmDecide"
    <3>1. Deciding(k)'
      BY <1>4, <2>2, <2>3, <2>7 DEF Deciding
    <3> QED
      BY <1>1, <1>2, <1>4, <2>1, <2>2, <2>3, <2>4, <3>1, LocalStep DEF Exists, SamePlayers
  <2> QED
    BY <2>2, <2>6, <2>7
<1> QED
  BY <1>8, <1>9, <1>10, <1>11, <1>12, <1>13 DEF Step

\* A handler that starts: a new match, of which nobody knows, or a tap or
\* /undo that needs a card or a settled match.
LEMMA StartRaces ==
    ASSUME TypeOK, ConsentInv, RaceInv, NEW w \in Workers, Start(w)
    PROVE  RaceInv'
<1>1. Idle(w) /\ UNCHANGED <<card, confirmations>>
  BY DEF Start, HandleMatch, HandleConfirmTap, HandleCancelTap, HandleUndo, CanStart,
         AllocateAndInsertMatch, store
<1>2. \A m \in MatchIds : ConfirmedBy(m)' = ConfirmedBy(m)
  BY <1>1 DEF ConfirmedBy
\* The workers that are busy keep their jobs.
<1>3. ASSUME NEW s \in Steps, NEW u \in Users, NEW k \in MatchIds, NEW row \in MatchRows,
             NEW admin \in BOOLEAN, Begin(w, s, u, k, row, admin)
      PROVE  /\ \A v \in Workers : v # w => job'[v] = job[v]
             /\ job'[w].at = s /\ job'[w].mid = k
             /\ \A m : Deciding(m) => Deciding(m)'
  <2>1. /\ \A v \in Workers : v # w => job'[v] = job[v]
        /\ job'[w].at = s /\ job'[w].mid = k
    BY <1>3 DEF TypeOK, Begin
  <2> QED
    BY <1>1, <2>1 DEF Deciding, At, Idle
<1>4. ASSUME NEW u \in Users, NEW pair \in Pairings, HandleMatch(w, u, pair)
      PROVE  RaceInv'
  <2>0. PICK k : k = matchCounters + 1
    OBVIOUS
  <2>1. pair[1] \in Users /\ pair[2] \in Users /\ pair[1] # pair[2]
    BY <1>4, LifecycleAssumption DEF HandleMatch
  <2>2. PICK admin \in BOOLEAN, row \in MatchRows :
          /\ row = [p1 |-> pair[1], p2 |-> pair[2], old |-> FALSE,
                    status |-> IF admin THEN "APPROVED" ELSE "PENDING"]
          /\ AllocateAndInsertMatch(row)
          /\ Begin(w, IF admin THEN "announce" ELSE "authorConfirm", u, k, row, admin)
    BY <1>4, <2>0, <2>1 DEF HandleMatch, IsChatAdmin, MatchRows, Statuses
  <2>3. /\ row \in MatchRows /\ row.p1 # row.p2
        /\ row.status = IF admin THEN "APPROVED" ELSE "PENDING"
    BY <2>1, <2>2 DEF MatchRows, Statuses
  <2>4. /\ k \in MatchIds /\ matchCounters \in Nat /\ matchCounters' = k
        /\ matches'[k] = row /\ \A m \in MatchIds : m # k => matches'[m] = matches[m]
    BY <2>0, <2>2, StoreAssumption DEF AllocateAndInsertMatch, TypeOK, StoreTypeOK, MatchIds
  <2>5. \A v \in Workers : ~Idle(v) => job[v].mid # k
    BY <2>0, <2>4, BusyJob DEF ConsentInv, SnapshotAgrees, Jobs, MatchIds
  <2>6. ConfirmedBy(k) = {} /\ card[k] = "none"
    BY <2>0, <2>4 DEF RaceInv, Unborn
  <2>7. (IF admin THEN "announce" ELSE "authorConfirm") \in Steps
    BY DEF Steps
  <2>8. /\ \A v \in Workers : v # w => job'[v] = job[v]
        /\ job'[w].at = (IF admin THEN "announce" ELSE "authorConfirm") /\ job'[w].mid = k
        /\ \A m : Deciding(m) => Deciding(m)'
    BY <1>3, <2>2, <2>3, <2>4, <2>7
  <2>9. TwoPlayers'
    BY <2>3, <2>4 DEF RaceInv, TwoPlayers, Exists
  <2>10. Unborn'
    <3>1. \A m \in MatchIds : k < m => matchCounters < m
      BY <2>0, <2>4 DEF MatchIds
    <3> QED
      BY <1>1, <1>2, <2>4, <3>1 DEF RaceInv, Unborn
  <2>11. ASSUME NEW v \in Workers, At(v, "authorConfirm")'
         PROVE  AuthorAlone(v)'
    <3>1. CASE v = w
      <4>1. row.status = "PENDING"
        <5>1. CASE admin
          BY <2>8, <2>11, <3>1, <5>1 DEF At
        <5>2. CASE ~admin
          BY <2>3, <5>2
        <5> QED
          BY <5>1, <5>2
      <4>2. ~HasStatus(k, "APPROVED")' /\ ~HasStatus(k, "UNDONE")'
        BY <2>4, <4>1 DEF HasStatus
      <4>3. card'[k] = "none" /\ ConfirmedBy(k)' = {}
        BY <1>1, <1>2, <2>4, <2>6
      <4>4. \A x \in Workers : ~Idle(x)' /\ x # w => job'[x].mid # k
        BY <2>5, <2>8 DEF Idle
      <4> QED
        BY <2>8, <3>1, <4>2, <4>3, <4>4 DEF AuthorAlone, ConfirmedBy, HasStatus, Exists
    <3>2. CASE v # w
      <4>1. At(v, "authorConfirm") /\ job'[v] = job[v] /\ AuthorAlone(v)
        BY <2>8, <2>11, <3>2 DEF RaceInv, At, Idle
      <4>2. PICK m \in MatchIds : m = job[v].mid /\ m # k
        BY <2>5, <4>1, BusyJob DEF At, Jobs
      <4>3. card'[m] = "none" /\ ConfirmedBy(m)' = {} /\ matches'[m] = matches[m]
        BY <1>1, <1>2, <2>4, <4>1, <4>2 DEF AuthorAlone
      <4>4. ~HasStatus(m, "APPROVED")' /\ ~HasStatus(m, "UNDONE")'
        BY <4>1, <4>2, <4>3 DEF AuthorAlone, HasStatus, Exists
      <4>5. \A x \in Workers : ~Idle(x)' /\ x # v => job'[x].mid # m
        BY <2>8, <4>1, <4>2 DEF AuthorAlone, Idle
      <4> QED
        BY <4>1, <4>2, <4>3, <4>4, <4>5 DEF AuthorAlone, ConfirmedBy, HasStatus, Exists
    <3> QED
      BY <3>1, <3>2
  <2>12. ASSUME NEW m \in MatchIds, Complete(m)'
         PROVE  Deciding(m)'
    <3>1. m # k
      BY <1>2, <2>6, <2>4, <2>12 DEF Complete
    <3>2. Complete(m)
      BY <1>2, <2>4, <2>12, <3>1 DEF Complete, HasStatus, Exists
    <3> QED
      BY <2>8, <3>2, NothingLost DEF RaceInv
  <2>13. NoLostConfirmation'
    BY <2>12 DEF NoLostConfirmation, Complete, Deciding
  <2> QED
    BY <2>9, <2>10, <2>11, <2>13 DEF RaceInv
<1>5. ASSUME NEW u \in Users, NEW k \in MatchIds,
             HandleConfirmTap(w, u, k) \/ HandleCancelTap(w, u, k) \/ HandleUndo(w, u, k)
      PROVE  RaceInv'
  <2>1. /\ UNCHANGED <<matches, matchCounters>>
        /\ Tappable(k) \/ HasStatus(k, "APPROVED") \/ HasStatus(k, "UNDONE")
        /\ Exists(k)
    BY <1>5 DEF HandleConfirmTap, HandleCancelTap, HandleUndo, HasStatus, store
  <2>2. PICK s \in Steps, admin \in BOOLEAN :
          s # "authorConfirm" /\ Begin(w, s, u, k, matches[k], admin)
    BY <1>5 DEF HandleConfirmTap, HandleCancelTap, HandleUndo, Steps, IsChatAdmin
  <2>3. matches[k] \in MatchRows
    BY <2>1 DEF TypeOK, StoreTypeOK, Exists
  <2>4. /\ \A v \in Workers : v # w => job'[v] = job[v]
        /\ job'[w].at = s /\ job'[w].mid = k
        /\ \A m : Deciding(m) => Deciding(m)'
    BY <1>3, <2>2, <2>3
  <2>5. TwoPlayers' /\ Unborn'
    BY <1>1, <1>2, <2>1 DEF RaceInv, TwoPlayers, Unborn, Exists
  <2>6. ASSUME NEW v \in Workers, At(v, "authorConfirm")'
        PROVE  AuthorAlone(v)'
    <3>1. v # w /\ job'[v] = job[v] /\ At(v, "authorConfirm") /\ AuthorAlone(v)
      BY <2>2, <2>4, <2>6 DEF RaceInv, At, Idle
    <3>2. PICK m \in MatchIds : m = job[v].mid
      BY <3>1, BusyJob DEF At, Jobs
    <3>3. m # k
      BY <2>1, <3>1, <3>2 DEF AuthorAlone, Tappable
    <3>4. card'[m] = "none" /\ ConfirmedBy(m)' = {}
      BY <1>1, <1>2, <3>1, <3>2 DEF AuthorAlone
    <3>5. ~HasStatus(m, "APPROVED")' /\ ~HasStatus(m, "UNDONE")'
      BY <2>1, <3>1, <3>2 DEF AuthorAlone, HasStatus, Exists
    <3>6. \A x \in Workers : ~Idle(x)' /\ x # v => job'[x].mid # m
      BY <2>4, <3>1, <3>2, <3>3 DEF AuthorAlone, Idle
    <3> QED
      BY <3>1, <3>2, <3>4, <3>5, <3>6 DEF AuthorAlone, ConfirmedBy, HasStatus, Exists
  <2>7. ASSUME NEW m \in MatchIds, Complete(m)'
        PROVE  Deciding(m)'
    <3>1. Complete(m)
      BY <1>2, <2>1, <2>7 DEF Complete, HasStatus, Exists
    <3> QED
      BY <2>4, <3>1, NothingLost DEF RaceInv
  <2>8. NoLostConfirmation'
    BY <2>7 DEF NoLostConfirmation, Complete, Deciding
  <2> QED
    BY <2>5, <2>6, <2>8 DEF RaceInv
<1> QED
  BY <1>4, <1>5 DEF Start

LEMMA RaceStep ==
    ASSUME TypeOK, ConsentInv, RaceInv, MaxFaults = 0, [Next]_vars
    PROVE  RaceInv'
<1>1. CASE CronStep
  <2>1. UNCHANGED <<job, card, matchCounters>> /\ confirmations' \subseteq confirmations
    BY <1>1 DEF CronStep, CronStart, CronExpire, CronAnnounce, CronListUndo, CronExpireUndo,
                CronDone, DeleteMatch, DeleteConfirmations, DeleteUndo, store
  <2>2. \A m \in MatchIds : matches'[m] = matches[m] \/ ~Exists(m)'
    BY <1>1 DEF CronStep, CronStart, CronExpire, CronAnnounce, CronListUndo, CronExpireUndo,
                CronDone, DeleteMatch, DeleteConfirmations, DeleteUndo, store, Exists,
                TypeOK, StoreTypeOK
  <2> QED
    BY <2>1, <2>2, RowsGo DEF Exists, SamePlayers
<1>2. CASE Environment
  <2>1. \/ \E m \in MatchIds : MatchTimesOut(m)
        \/ \E m \in MatchIds, u \in Users : UndoTimesOut(m, u)
    BY <1>2 DEF Environment, Crash, IgnoreError, CronAbandons, Fault, TypeOK
  <2>2. ASSUME NEW k \in MatchIds, MatchTimesOut(k)
        PROVE  RaceInv'
    <3>1. /\ matches[k] \in MatchRows /\ Exists(k)
          /\ \A m \in MatchIds : m # k => matches'[m] = matches[m]
          /\ matches'[k] = [matches[k] EXCEPT !.old = TRUE]
      BY <2>2 DEF MatchTimesOut, MatchAges, HasStatus, Exists, TypeOK, StoreTypeOK
    <3>2. SamePlayers(matches'[k], matches[k]) /\ matches'[k].status = matches[k].status
      BY <3>1 DEF MatchRows, SamePlayers
    <3>3. UNCHANGED <<job, card, matchCounters, confirmations>>
      BY <2>2 DEF MatchTimesOut, MatchAges, procs
    <3>4. \A m \in MatchIds : Exists(m)' =>
              /\ Exists(m) /\ SamePlayers(matches'[m], matches[m])
              /\ matches'[m].status = matches[m].status
      BY <3>1, <3>2 DEF Exists, SamePlayers
    <3> QED
      BY <3>3, <3>4, RowsGo
  <2>3. ASSUME NEW m \in MatchIds, NEW u \in Users, UndoTimesOut(m, u)
        PROVE  RaceInv'
    <3>1. UNCHANGED <<matches, job, card, matchCounters, confirmations>>
      BY <2>3 DEF UndoTimesOut, UndoAges, procs
    <3> QED
      BY <3>1, RowsGo DEF Exists, SamePlayers
  <2> QED
    BY <2>1, <2>2, <2>3
<1>3. CASE UNCHANGED vars
  <2>1. UNCHANGED <<matches, job, card, matchCounters, confirmations>>
    BY <1>3 DEF vars, procs, store
  <2> QED
    BY <2>1, RowsGo DEF Exists, SamePlayers
<1> QED
  BY <1>1, <1>2, <1>3, StartRaces, StepRaces DEF Next

LEMMA RaceInit == Init => RaceInv
BY DEF Init, StoreInit, RaceInv, TwoPlayers, Unborn, NoLostConfirmation, Exists, HasStatus,
       ConfirmedBy, At, Idle

\* However the taps of the players and admins interleave with each other and
\* with sweeps, a match that has both confirmations is approved or about to
\* be, for any users, workers and matches, as long as no call fails.
THEOREM ConfirmationsNotLost ==
    ASSUME MaxFaults = 0
    PROVE  Spec => []NoLostConfirmation
<1>1. TypeOK /\ TypeOK' /\ ConsentInv /\ [Next]_vars => ConsentInv'
  BY ConsentStep
<1>2. TypeOK /\ ConsentInv /\ RaceInv /\ [Next]_vars => RaceInv'
  BY RaceStep
<1>3. RaceInv => NoLostConfirmation
  BY DEF RaceInv
<1> QED
  BY <1>1, <1>2, <1>3, ConsentInit, RaceInit, TypeCorrect, PTL DEF Spec

=============================================================================
