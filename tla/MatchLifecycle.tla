--------------------------- MODULE MatchLifecycle ---------------------------
(***************************************************************************)
(* The life of a match in one group: /match registers it, the buttons of   *)
(* its card confirm or cancel it, the cron function expires it, /undo      *)
(* takes it out of the ratings and back in.                                *)
(*                                                                         *)
(* Every Telegram update is handled by an invocation of its own (a         *)
(* worker), and the cron function is one more process.  They share only    *)
(* the database.  A handler is cut into steps at its calls to the store    *)
(* and to Telegram, so the handlers interleave exactly where the code      *)
(* lets them; a row a handler has read stays in its job as a snapshot.     *)
(*                                                                         *)
(* Telegram itself is external: IsChatAdmin is answered from Admins, an    *)
(* unreachable Telegram counts as "not an admin" (isChatAdmin drops the    *)
(* error), and a tap may arrive late or twice, on any card whose keyboard  *)
(* was once shown.                                                         *)
(***************************************************************************)
EXTENDS MatchStore

CONSTANTS
    Workers,    \* concurrent invocations of the webhook function
    Admins,     \* the Telegram admins of the chat
    Pairings,   \* the pairs of players that /match messages name
    Serial,     \* TRUE: a handler runs alone, as in the tests of the repository
    MaxFaults,  \* bound: how many calls fail and how many processes die
    NoJob       \* an idle worker

VARIABLES
    job,        \* what each worker is doing
    cron,       \* what the cron function is doing
    card,       \* the text shown by the message that carries the match
    expired,    \* the matches announced as expired
    faults,     \* how many faults have happened
    consent,    \* history: who vouched for the match, by an accepted /match or Confirm
    asked,      \* history: whose /undo is neither used up nor withdrawn nor expired
    removedBy   \* history: which handler removed the row

procs == <<job, cron>>
history == <<consent, asked, removedBy>>
vars == <<store, procs, card, expired, faults, history>>

Steps == {"announce", "authorConfirm", "sendCard",
          "confirmInsert", "confirmDecide", "confirmApprove", "confirmEdit", "confirmRemaining",
          "cancelDelete", "cancelEdit",
          "undoList", "undoWithdraw", "undoInsert", "undoCheck", "undoToggle", "undoClear"}

\* An invocation under way: the next step, the sender, the match, the row as
\* it was read (or inserted), and handleUndo's isAdmin.
Jobs == [at : Steps, user : Users, mid : MatchIds, snap : MatchRows, admin : BOOLEAN]

Crons == [at : {"idle", "expire", "expireClear", "undo"},
          todo : SUBSET MatchIds,
          mid : 0..MaxMatches,
          todoUndo : SUBSET (MatchIds \X Users)]

CronIdle == [at |-> "idle", todo |-> {}, mid |-> 0, todoUndo |-> {}]

Cards == {"none", "registered", "pending", "confirmed", "cancelled"}

ASSUME LifecycleAssumption ==
    /\ Admins \subseteq Users
    /\ Pairings \subseteq Users \X Users
    /\ Serial \in BOOLEAN
    /\ MaxFaults \in Nat
    /\ NoJob \notin Jobs

TypeOK ==
    /\ StoreTypeOK
    /\ job \in [Workers -> Jobs \cup {NoJob}]
    /\ cron \in Crons
    /\ cron.at = "expireClear" => cron.mid \in MatchIds
    /\ card \in [MatchIds -> Cards]
    /\ expired \subseteq MatchIds
    /\ faults \in 0..MaxFaults
    /\ consent \in [MatchIds -> SUBSET Users]
    /\ asked \in [MatchIds -> SUBSET Users]
    /\ removedBy \in [MatchIds -> {"nobody", "cancel", "cron"}]

Init ==
    /\ StoreInit
    /\ job = [w \in Workers |-> NoJob]
    /\ cron = CronIdle
    /\ card = [m \in MatchIds |-> "none"]
    /\ expired = {}
    /\ faults = 0
    /\ consent = [m \in MatchIds |-> {}]
    /\ asked = [m \in MatchIds |-> {}]
    /\ removedBy = [m \in MatchIds |-> "nobody"]

-----------------------------------------------------------------------------
(* Helpers *)

Idle(w) == job[w] = NoJob

AllIdle == (\A w \in Workers : Idle(w)) /\ cron.at = "idle"

\* A new update reaches worker w.
CanStart(w) == Idle(w) /\ (Serial => AllIdle)

At(w, step) == ~Idle(w) /\ job[w].at = step

Goto(w, step) == job' = [job EXCEPT ![w].at = step]

Finish(w) == job' = [job EXCEPT ![w] = NoJob]

\* The answers isChatAdmin can give about u.
IsChatAdmin(u) == IF u \in Admins THEN BOOLEAN ELSE {FALSE}

IsPlayer(u, row) == u = row.p1 \/ u = row.p2

\* The row's own players, or an admin, may act on a match.
Authorized(u, row, admin) == IsPlayer(u, row) \/ admin

Begin(w, step, u, m, row, admin) ==
    job' = [job EXCEPT ![w] = [at |-> step, user |-> u, mid |-> m, snap |-> row, admin |-> admin]]

\* The keyboard of match m has been on screen.
Tappable(m) == card[m] \in {"pending", "confirmed", "cancelled"}

SetCard(m, text) == card' = [card EXCEPT ![m] = text]

-----------------------------------------------------------------------------
(* /match *)

\* An accepted /match by u: the row is allocated with the status that
\* isAdmin decides.
HandleMatch(w, u, pair) ==
    /\ CanStart(w)
    /\ pair[1] # pair[2]
    /\ \E admin \in IsChatAdmin(u) :
          LET m == matchCounters + 1
              row == [p1 |-> pair[1], p2 |-> pair[2], old |-> FALSE,
                      status |-> IF admin THEN "APPROVED" ELSE "PENDING"]
          IN  /\ AllocateAndInsertMatch(row)
              /\ Begin(w, IF admin THEN "announce" ELSE "authorConfirm", u, m, row, admin)
              /\ consent' = [consent EXCEPT ![m] = @ \cup {u}]
    /\ UNCHANGED <<cron, card, expired, faults, asked, removedBy>>

\* Admin: the announcement carries no keyboard.
Announce(w) ==
    /\ At(w, "announce")
    /\ SetCard(job[w].mid, "registered")
    /\ Finish(w)
    /\ UNCHANGED <<store, cron, expired, faults, history>>

\* Anyone else: the author's own confirmation is recorded up front.
AuthorConfirm(w) ==
    /\ At(w, "authorConfirm")
    /\ InsertConfirmation(job[w].mid, job[w].user)
    /\ Goto(w, "sendCard")
    /\ UNCHANGED <<cron, card, expired, faults, history>>

SendCard(w) ==
    /\ At(w, "sendCard")
    /\ SetCard(job[w].mid, "pending")
    /\ Finish(w)
    /\ UNCHANGED <<store, cron, expired, faults, history>>

-----------------------------------------------------------------------------
(* The Confirm button *)

\* The tap is accepted when the row read here is PENDING and the tapper is a
\* player or an admin; any other tap is only acknowledged.
HandleConfirmTap(w, u, m) ==
    /\ CanStart(w)
    /\ Tappable(m)
    /\ HasStatus(m, "PENDING")
    /\ \E admin \in IsChatAdmin(u) : Authorized(u, matches[m], admin)
    /\ Begin(w, "confirmInsert", u, m, matches[m], FALSE)
    /\ consent' = [consent EXCEPT ![m] = @ \cup {u}]
    /\ UNCHANGED <<store, cron, card, expired, faults, asked, removedBy>>

ConfirmInsert(w) ==
    /\ At(w, "confirmInsert")
    /\ InsertConfirmation(job[w].mid, job[w].user)
    /\ Goto(w, "confirmDecide")
    /\ UNCHANGED <<cron, card, expired, faults, history>>

\* Mutation: one player's confirmation is enough.
ConfirmDecideEither(w) ==
    /\ At(w, "confirmDecide")
    /\ LET j == job[w]
           enough == {j.snap.p1, j.snap.p2} \cap ConfirmedBy(j.mid) # {}
       IN  Goto(w, IF enough THEN "confirmApprove" ELSE "confirmRemaining")
    /\ UNCHANGED <<store, cron, card, expired, faults, history>>

\* Mutation: the confirmations are listed before the tap's own is inserted.
ConfirmDecideEarly(w) ==
    /\ At(w, "confirmDecide")
    /\ \E admin \in IsChatAdmin(job[w].user) :
          LET j == job[w]
              enough == admin \/ {j.snap.p1, j.snap.p2} \subseteq ConfirmedBy(j.mid) \ {j.user}
          IN  Goto(w, IF enough THEN "confirmApprove" ELSE "confirmRemaining")
    /\ UNCHANGED <<store, cron, card, expired, faults, history>>

\* isChatAdmin is asked again; without an admin, the list must hold both
\* players of the snapshot.
ConfirmDecide(w) ==
    /\ At(w, "confirmDecide")
    /\ \E admin \in IsChatAdmin(job[w].user) :
          LET j == job[w]
              enough == admin \/ {j.snap.p1, j.snap.p2} \subseteq ConfirmedBy(j.mid)
          IN  Goto(w, IF enough THEN "confirmApprove" ELSE "confirmRemaining")
    /\ UNCHANGED <<store, cron, card, expired, faults, history>>

\* The status read at the tap is not looked at again.
ConfirmApprove(w) ==
    /\ At(w, "confirmApprove")
    /\ UpdateStatus(job[w].mid, "APPROVED")
    /\ Goto(w, "confirmEdit")
    /\ UNCHANGED <<cron, card, expired, faults, history>>

ConfirmEdit(w) ==
    /\ At(w, "confirmEdit")
    /\ SetCard(job[w].mid, "confirmed")
    /\ Finish(w)
    /\ UNCHANGED <<store, cron, expired, faults, history>>

\* The card is put back as it was when it was tapped, minus one button.
ConfirmRemaining(w) ==
    /\ At(w, "confirmRemaining")
    /\ SetCard(job[w].mid, "pending")
    /\ Finish(w)
    /\ UNCHANGED <<store, cron, expired, faults, history>>

-----------------------------------------------------------------------------
(* The Cancel button *)

\* Mutation: Cancel without the status check.
HandleCancelTapAnyStatus(w, u, m) ==
    /\ CanStart(w)
    /\ Tappable(m)
    /\ Exists(m)
    /\ \E admin \in IsChatAdmin(u) : Authorized(u, matches[m], admin)
    /\ Begin(w, "cancelDelete", u, m, matches[m], FALSE)
    /\ UNCHANGED <<store, cron, card, expired, faults, history>>

HandleCancelTap(w, u, m) ==
    /\ CanStart(w)
    /\ Tappable(m)
    /\ HasStatus(m, "PENDING")
    /\ \E admin \in IsChatAdmin(u) : Authorized(u, matches[m], admin)
    /\ Begin(w, "cancelDelete", u, m, matches[m], FALSE)
    /\ UNCHANGED <<store, cron, card, expired, faults, history>>

\* ErrNotFound is let through: the card is edited either way.
CancelDelete(w) ==
    /\ At(w, "cancelDelete")
    /\ DeleteMatch(job[w].mid)
    /\ removedBy' = IF Exists(job[w].mid) THEN [removedBy EXCEPT ![job[w].mid] = "cancel"]
                                          ELSE removedBy
    /\ Goto(w, "cancelEdit")
    /\ UNCHANGED <<cron, card, expired, faults, consent, asked>>

\* Mutation: the card is not edited.
CancelWithoutEdit(w) ==
    /\ At(w, "cancelEdit")
    /\ Finish(w)
    /\ UNCHANGED <<store, cron, card, expired, faults, history>>

CancelEdit(w) ==
    /\ At(w, "cancelEdit")
    /\ SetCard(job[w].mid, "cancelled")
    /\ Finish(w)
    /\ UNCHANGED <<store, cron, expired, faults, history>>

-----------------------------------------------------------------------------
(* /undo *)

\* Mutation: /undo without the status check.
HandleUndoAnyStatus(w, u, m) ==
    /\ CanStart(w)
    /\ Exists(m)
    /\ \E admin \in IsChatAdmin(u) :
          /\ Authorized(u, matches[m], admin)
          /\ Begin(w, "undoList", u, m, matches[m], admin)
    /\ UNCHANGED <<store, cron, card, expired, faults, history>>

\* isAdmin is asked once, before the status check, and kept.
HandleUndo(w, u, m) ==
    /\ CanStart(w)
    /\ HasStatus(m, "APPROVED") \/ HasStatus(m, "UNDONE")
    /\ \E admin \in IsChatAdmin(u) :
          /\ Authorized(u, matches[m], admin)
          /\ Begin(w, "undoList", u, m, matches[m], admin)
    /\ UNCHANGED <<store, cron, card, expired, faults, history>>

\* A player who already asked is withdrawing the request.
UndoList(w) ==
    /\ At(w, "undoList")
    /\ LET j == job[w]
           own == j.user \in UndoRequestedBy(j.mid) /\ ~j.admin
       IN  Goto(w, IF own THEN "undoWithdraw" ELSE "undoInsert")
    /\ UNCHANGED <<store, cron, card, expired, faults, history>>

UndoWithdraw(w) ==
    /\ At(w, "undoWithdraw")
    /\ DeleteUndo(job[w].mid, job[w].user)
    /\ asked' = [asked EXCEPT ![job[w].mid] = @ \ {job[w].user}]
    /\ Finish(w)
    /\ UNCHANGED <<cron, card, expired, faults, consent, removedBy>>

UndoInsert(w) ==
    /\ At(w, "undoInsert")
    /\ InsertUndo(job[w].mid, job[w].user)
    /\ asked' = [asked EXCEPT ![job[w].mid] = @ \cup {job[w].user}]
    /\ Goto(w, IF job[w].admin THEN "undoToggle" ELSE "undoCheck")
    /\ UNCHANGED <<cron, card, expired, faults, consent, removedBy>>

\* Both players of the snapshot must have a row; otherwise the request waits.
UndoCheck(w) ==
    /\ At(w, "undoCheck")
    /\ LET j == job[w]
       IN  IF {j.snap.p1, j.snap.p2} \subseteq UndoRequestedBy(j.mid)
           THEN Goto(w, "undoToggle")
           ELSE Finish(w)
    /\ UNCHANGED <<store, cron, card, expired, faults, history>>

\* The new status is computed from the snapshot, not from the row.
Toggled(status) == IF status = "APPROVED" THEN "UNDONE" ELSE "APPROVED"

UndoToggle(w) ==
    /\ At(w, "undoToggle")
    /\ UpdateStatus(job[w].mid, Toggled(job[w].snap.status))
    /\ asked' = [asked EXCEPT ![job[w].mid] = {}]
    /\ Goto(w, "undoClear")
    /\ UNCHANGED <<cron, card, expired, faults, consent, removedBy>>

\* Mutation: the requests that led to the change stay.
UndoWithoutClear(w) ==
    /\ At(w, "undoClear")
    /\ Finish(w)
    /\ UNCHANGED <<store, cron, card, expired, faults, history>>

UndoClear(w) ==
    /\ At(w, "undoClear")
    /\ DeleteUndosForMatch(job[w].mid)
    /\ Finish(w)
    /\ UNCHANGED <<cron, card, expired, faults, history>>

-----------------------------------------------------------------------------
(* The cron function: cleanExpiredMatches, then cleanExpiredUndo *)

CronStart ==
    /\ cron.at = "idle"
    /\ Serial => AllIdle
    /\ cron' = [CronIdle EXCEPT !.at = "expire", !.todo = PendingExpired]
    /\ UNCHANGED <<store, job, card, expired, faults, history>>

\* Mutation: ErrNotFound is ignored.
CronExpireAnyway(m) ==
    /\ cron.at = "expire"
    /\ m \in cron.todo
    /\ DeleteMatch(m)
    /\ removedBy' = IF Exists(m) THEN [removedBy EXCEPT ![m] = "cron"] ELSE removedBy
    /\ cron' = [cron EXCEPT !.at = "expireClear", !.mid = m, !.todo = @ \ {m}]
    /\ UNCHANGED <<job, card, expired, faults, consent, asked>>

\* One row of the list.  ErrNotFound means someone else was faster.
CronExpire(m) ==
    /\ cron.at = "expire"
    /\ m \in cron.todo
    /\ DeleteMatch(m)
    /\ removedBy' = IF Exists(m) THEN [removedBy EXCEPT ![m] = "cron"] ELSE removedBy
    /\ cron' = IF DeleteSucceeds(m)
               THEN [cron EXCEPT !.at = "expireClear", !.mid = m, !.todo = @ \ {m}]
               ELSE [cron EXCEPT !.todo = @ \ {m}]
    /\ UNCHANGED <<job, card, expired, faults, consent, asked>>

\* The confirmations go once more, and the group is told.
CronAnnounce ==
    /\ cron.at = "expireClear"
    /\ DeleteConfirmations(cron.mid)
    /\ expired' = expired \cup {cron.mid}
    /\ cron' = [cron EXCEPT !.at = "expire", !.mid = 0]
    /\ UNCHANGED <<job, card, faults, history>>

CronListUndo ==
    /\ cron.at = "expire"
    /\ cron.todo = {}
    /\ cron' = [cron EXCEPT !.at = "undo", !.todoUndo = oldUndos]
    /\ UNCHANGED <<store, job, card, expired, faults, history>>

\* The row goes even when it was renewed since it was listed.
CronExpireUndo(m, u) ==
    /\ cron.at = "undo"
    /\ <<m, u>> \in cron.todoUndo
    /\ DeleteUndo(m, u)
    /\ asked' = [asked EXCEPT ![m] = @ \ {u}]
    /\ cron' = [cron EXCEPT !.todoUndo = @ \ {<<m, u>>}]
    /\ UNCHANGED <<job, card, expired, faults, consent, removedBy>>

CronDone ==
    /\ cron.at = "undo"
    /\ cron.todoUndo = {}
    /\ cron' = CronIdle
    /\ UNCHANGED <<store, job, card, expired, faults, history>>

-----------------------------------------------------------------------------
(* Faults *)

Fault == faults < MaxFaults /\ faults' = faults + 1

\* The container dies, or the call at this step fails and the handler returns
\* the error: nothing after it runs, nothing before it is taken back.
Crash(w) ==
    /\ Fault
    /\ ~Idle(w)
    /\ Finish(w)
    /\ UNCHANGED <<store, cron, card, expired, history>>

\* Where a handler goes when it drops the error of the call at a step: a
\* lost Insert or UpdateStatus, a list that comes back empty.
AfterError == [authorConfirm |-> "sendCard",
               confirmInsert |-> "confirmDecide",
               confirmDecide |-> "confirmRemaining",
               confirmApprove |-> "confirmEdit",
               undoList |-> "undoInsert"]

IgnoreError(w) ==
    /\ Fault
    /\ ~Idle(w)
    /\ job[w].at \in DOMAIN AfterError
    /\ Goto(w, AfterError[job[w].at])
    /\ UNCHANGED <<store, cron, card, expired, history>>

\* cleanExpiredMatches returns early and PeriodicJob goes on with the undo
\* requests, or the whole invocation ends.
CronAbandons ==
    /\ Fault
    /\ cron.at # "idle"
    /\ \/ cron' = CronIdle
       \/ cron.at = "expire" /\ cron' = [cron EXCEPT !.todo = {}]
    /\ UNCHANGED <<store, job, card, expired, history>>

-----------------------------------------------------------------------------
(* Time *)

MatchTimesOut(m) ==
    MatchAges(m) /\ UNCHANGED <<procs, card, expired, faults, history>>

UndoTimesOut(m, u) ==
    UndoAges(m, u) /\ UNCHANGED <<procs, card, expired, faults, history>>

-----------------------------------------------------------------------------
(* Specification *)

\* The next step of the handler that worker w is running.
Step(w) ==
    \/ Announce(w) \/ AuthorConfirm(w) \/ SendCard(w)
    \/ ConfirmInsert(w) \/ ConfirmDecide(w) \/ ConfirmApprove(w)
    \/ ConfirmEdit(w) \/ ConfirmRemaining(w)
    \/ CancelDelete(w) \/ CancelEdit(w)
    \/ UndoList(w) \/ UndoWithdraw(w) \/ UndoInsert(w)
    \/ UndoCheck(w) \/ UndoToggle(w) \/ UndoClear(w)

Start(w) ==
    \E u \in Users :
        \/ \E pair \in Pairings : HandleMatch(w, u, pair)
        \/ \E m \in MatchIds :
              HandleConfirmTap(w, u, m) \/ HandleCancelTap(w, u, m) \/ HandleUndo(w, u, m)

CronStep ==
    \/ CronStart \/ CronAnnounce \/ CronListUndo \/ CronDone
    \/ \E m \in MatchIds : CronExpire(m)
    \/ \E m \in MatchIds, u \in Users : CronExpireUndo(m, u)

Environment ==
    \/ \E w \in Workers : Crash(w) \/ IgnoreError(w)
    \/ CronAbandons
    \/ \E m \in MatchIds : MatchTimesOut(m)
    \/ \E m \in MatchIds, u \in Users : UndoTimesOut(m, u)

Next ==
    \/ \E w \in Workers : Start(w) \/ Step(w)
    \/ CronStep
    \/ Environment

Spec == Init /\ [][Next]_vars

\* A handler that was not killed runs on; the cron trigger keeps firing and
\* its sweep runs on; the confirmation timeout of a match passes.
Fairness ==
    /\ \A w \in Workers : WF_vars(Step(w))
    /\ WF_vars(CronStep)
    /\ \A m \in MatchIds : WF_vars(MatchTimesOut(m))

FairSpec == Spec /\ Fairness

-----------------------------------------------------------------------------
(* Properties of every interleaving *)

\* S is enough to settle the match of a row: an admin, or both players.
Vouched(S, row) == S \cap Admins # {} \/ {row.p1, row.p2} \subseteq S

\* No match counts, or ever counted, towards the ratings unless an admin or
\* both of its players vouched for it by an accepted /match or Confirm tap
\* (handleMatch, handleConfirmTap), whatever interleaves, fails or dies.
ApprovalNeedsConsent ==
    \A m \in MatchIds :
        HasStatus(m, "APPROVED") \/ HasStatus(m, "UNDONE") => Vouched(consent[m], matches[m])

\* What makes ApprovalNeedsConsent inductive: whoever has a confirmation row
\* has vouched; the snapshot a handler works from is of the match that still
\* has the id; a handler on its way to store a confirmation has its sender's
\* word, and one on its way to write APPROVED or UNDONE has enough of them.
ConfirmationsVouched ==
    \A m \in MatchIds, u \in Users : <<m, u>> \in confirmations => u \in consent[m]

SamePlayers(r, s) == r.p1 = s.p1 /\ r.p2 = s.p2

SnapshotAgrees(w) ==
    /\ job[w].mid <= matchCounters
    /\ Exists(job[w].mid) => SamePlayers(matches[job[w].mid], job[w].snap)

SenderVouched(w) ==
    /\ job[w].at \in {"authorConfirm", "confirmInsert", "confirmDecide"} =>
          job[w].user \in consent[job[w].mid]
    /\ job[w].at \in {"confirmApprove", "undoList", "undoInsert", "undoCheck", "undoToggle"} =>
          Vouched(consent[job[w].mid], job[w].snap)

RowsNumbered == \A m \in MatchIds : Exists(m) => m <= matchCounters

ConsentInv ==
    /\ ApprovalNeedsConsent
    /\ RowsNumbered
    /\ ConfirmationsVouched
    /\ \A w \in Workers : ~Idle(w) => SnapshotAgrees(w) /\ SenderVouched(w)

\* The two players' Confirm taps may run concurrently: once both
\* confirmations are stored, some tap is on its way to approve the match, so
\* no match is left PENDING with both confirmations (handleConfirmTap inserts
\* before it lists).
NoLostConfirmation ==
    \A m \in MatchIds :
        HasStatus(m, "PENDING") /\ {matches[m].p1, matches[m].p2} \subseteq ConfirmedBy(m)
        => \E w \in Workers :
              /\ At(w, "confirmDecide") \/ At(w, "confirmApprove")
              /\ job[w].mid = m

\* An id names one match for ever and a settled match does not become pending
\* again: a removed row never comes back (a late UpdateStatus of a stale tap
\* or toggle, a reused id), and only a new id starts as PENDING.
NeverRevived ==
    [][\A m \in MatchIds :
          /\ m <= matchCounters /\ ~Exists(m) => ~Exists(m)'
          /\ HasStatus(m, "PENDING")' => HasStatus(m, "PENDING") \/ m > matchCounters]_vars

\* "Match expired" is only announced for a match that the cron function
\* removed, not for one that a Cancel tap removed first (cleanExpiredMatches
\* skips a row that someone else deleted).
ExpiryNoticeTruthful == \A m \in expired : removedBy[m] = "cron"

\* Every pending match is settled sooner or later: approved, cancelled, or
\* expired by the cron function, even if invocations die on the way.
EveryMatchSettles ==
    \A m \in MatchIds : HasStatus(m, "PENDING") ~> ~HasStatus(m, "PENDING")

-----------------------------------------------------------------------------
(* Properties of handlers that run one at a time *)

\* Cancel and expiry only remove matches nobody has approved yet: a match
\* that counts towards the ratings is undone, never deleted
\* (handleCancelTap's status check, ListPendingExpired's filter).
OnlyPendingRemoved ==
    [][\A m \in MatchIds : Exists(m) /\ ~Exists(m)' => HasStatus(m, "PENDING")]_vars

\* No confirmation or undo request outlives its match: Delete takes them
\* along and no handler stores one for a match that is gone.
NoOrphans == \A p \in confirmations \cup undos : Exists(p[1])

\* A match goes out of or back into the ratings only when an admin, or both
\* players, have asked for that very change: requests that were withdrawn,
\* have expired or were spent on an earlier change do not count
\* (handleUndo, toggleMatchAndAnnounce).
TwoStepUndo ==
    [][\A m \in MatchIds :
          \/ HasStatus(m, "APPROVED") /\ HasStatus(m, "UNDONE")'
          \/ HasStatus(m, "UNDONE") /\ HasStatus(m, "APPROVED")'
          => Vouched(asked[m], matches[m])]_vars

\* Once the handlers are done, the message in the matches topic says what the
\* database says: "confirmed" and "registered" cards belong to matches in the
\* ratings (or undone since), a cancelled one to no match, and a pending card
\* to a pending match or to one announced as expired.
CardTruthful ==
    AllIdle => \A m \in MatchIds :
        /\ HasStatus(m, "PENDING") => card[m] = "pending"
        /\ card[m] \in {"confirmed", "registered"} =>
              HasStatus(m, "APPROVED") \/ HasStatus(m, "UNDONE")
        /\ card[m] = "cancelled" => ~Exists(m)
        /\ card[m] = "pending" => HasStatus(m, "PENDING") \/ m \in expired

-----------------------------------------------------------------------------
(* The ledger that the handlers implement when they run one at a time *)

\* The status a match has in the ledger; an id below the counter without a
\* row was dropped.
LedgerStatus ==
    [m \in MatchIds |-> IF Exists(m) THEN matches[m].status
                        ELSE IF m <= matchCounters THEN "dropped" ELSE "free"]

\* The players of each match; a dropped one has none left.
LedgerPlayers ==
    [m \in MatchIds |-> IF Exists(m) THEN {matches[m].p1, matches[m].p2} ELSE {}]

\* From the UpdateStatus of a toggle on, the rows that are about to be deleted
\* no longer count.
LedgerRequests ==
    [m \in MatchIds |->
        IF \E w \in Workers : At(w, "undoClear") /\ job[w].mid = m
        THEN {} ELSE UndoRequestedBy(m)]

Ledger == INSTANCE MatchLedger WITH
    status <- LedgerStatus, players <- LedgerPlayers,
    vouchers <- [m \in MatchIds |-> ConfirmedBy(m)], requests <- LedgerRequests

\* Handlers that run one at a time, without failing calls, implement the
\* ledger: between its steps each handler leaves the tables in a state the
\* ledger allows, and each change it makes is one the ledger permits.
ImplementsLedger == Ledger!LedgerSpec

=============================================================================
