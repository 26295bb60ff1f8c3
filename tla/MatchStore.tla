----------------------------- MODULE MatchStore -----------------------------
(***************************************************************************)
(* The tables behind /match and /undo, for one group: matches,             *)
(* match_counters, match_confirmations and undo_commands, and the          *)
(* repository calls on them.  Every call is one atomic step: memstore      *)
(* holds its mutex for the whole call, ydbstore runs it in one             *)
(* serializable transaction.                                               *)
(*                                                                         *)
(* Data is reduced to what the handlers branch on.  Scores, PlayedAt and   *)
(* RegisteredBy (it only picks who an expiry notice mentions) are dropped. *)
(* A time stamp becomes a flag: CreatedAt and RequestedAt are only ever    *)
(* compared with a deadline, and once a row is past its deadline it stays  *)
(* past it.                                                                *)
(***************************************************************************)
EXTENDS Naturals

CONSTANTS
    Users,        \* Telegram users that talk to the bot in the group
    MaxMatches,   \* bound: how many matches the group ever registers
    Backend,      \* which store.Store is wired in: "mem" or "ydb"
    NoMatch       \* what Get answers when there is no row

VARIABLES
    matches,        \* matches table, indexed by match_id
    matchCounters,  \* last match_id handed out
    confirmations,  \* match_confirmations: pairs <<match_id, telegram_id>>
    undos,          \* undo_commands: pairs <<match_id, telegram_id>>
    oldUndos        \* the rows of undos requested more than 24 hours ago

store == <<matches, matchCounters, confirmations, undos, oldUndos>>

MatchIds == 1..MaxMatches

Statuses == {"PENDING", "APPROVED", "UNDONE"}

\* A matches row.  "old" says that CreatedAt is further back than the group's
\* ConfirmationTimeout.
MatchRows == [p1 : Users, p2 : Users, status : Statuses, old : BOOLEAN]

ASSUME StoreAssumption ==
    /\ MaxMatches \in Nat
    /\ Backend \in {"mem", "ydb"}
    /\ NoMatch \notin MatchRows

StoreTypeOK ==
    /\ matches \in [MatchIds -> MatchRows \cup {NoMatch}]
    /\ matchCounters \in 0..MaxMatches
    /\ confirmations \subseteq MatchIds \X Users
    /\ undos \subseteq MatchIds \X Users
    /\ oldUndos \subseteq undos

StoreInit ==
    /\ matches = [m \in MatchIds |-> NoMatch]
    /\ matchCounters = 0
    /\ confirmations = {}
    /\ undos = {}
    /\ oldUndos = {}

Exists(m) == matches[m] # NoMatch

HasStatus(m, s) == Exists(m) /\ matches[m].status = s

-----------------------------------------------------------------------------
(* Reads *)

\* Confirmations().ListForMatch, as the set of telegram ids it lists.
ConfirmedBy(m) == {u \in Users : <<m, u>> \in confirmations}

\* UndoCommands().ListForMatch.
UndoRequestedBy(m) == {u \in Users : <<m, u>> \in undos}

\* Mutation: the list forgets matches that one player has confirmed.
PendingExpiredUntouched ==
    {m \in MatchIds : HasStatus(m, "PENDING") /\ matches[m].old /\ ConfirmedBy(m) = {}}

\* Matches().ListPendingExpired.
PendingExpired == {m \in MatchIds : HasStatus(m, "PENDING") /\ matches[m].old}

-----------------------------------------------------------------------------
(* Writes.  Each leaves the tables it does not mention alone.              *)

\* Mutation: the counter is advanced twice per match.
AllocateSkippingIds(row) ==
    /\ matchCounters < MaxMatches
    /\ matchCounters' = matchCounters + 2
    /\ matches' = [matches EXCEPT ![matchCounters + 1] = row]
    /\ UNCHANGED <<confirmations, undos, oldUndos>>

AllocateAndInsertMatch(row) ==
    /\ matchCounters < MaxMatches
    /\ matchCounters' = matchCounters + 1
    /\ matches' = [matches EXCEPT ![matchCounters + 1] = row]
    /\ UNCHANGED <<confirmations, undos, oldUndos>>

\* Mutation: an UPSERT where the code has an UPDATE.
UpsertStatus(m, s) ==
    /\ matches' = [matches EXCEPT ![m] = IF Exists(m) THEN [@ EXCEPT !.status = s]
                                         ELSE CHOOSE row \in MatchRows : row.status = s]
    /\ UNCHANGED <<matchCounters, confirmations, undos, oldUndos>>

\* A missing row is left missing: memstore answers ErrNotFound, which every
\* caller ignores, and the YDB UPDATE then touches no row.
UpdateStatus(m, s) ==
    /\ matches' = IF Exists(m) THEN [matches EXCEPT ![m].status = s] ELSE matches
    /\ UNCHANGED <<matchCounters, confirmations, undos, oldUndos>>

\* Whether Delete reports success.  memstore answers ErrNotFound for a missing
\* row; the YDB DELETE succeeds whether or not a row was there.
DeleteSucceeds(m) == Backend = "ydb" \/ Exists(m)

\* Mutation: only the match row is deleted.
DeleteMatchRow(m) ==
    /\ matches' = [matches EXCEPT ![m] = NoMatch]
    /\ UNCHANGED <<matchCounters, confirmations, undos, oldUndos>>

\* Delete takes the confirmations and undo rows with it.  memstore returns
\* before it reaches them when the match row is missing.
DeleteMatch(m) ==
    LET gone == IF DeleteSucceeds(m) THEN {m} \X Users ELSE {}
    IN  /\ matches' = [matches EXCEPT ![m] = NoMatch]
        /\ confirmations' = confirmations \ gone
        /\ undos' = undos \ gone
        /\ oldUndos' = oldUndos \ gone
        /\ UNCHANGED matchCounters

InsertConfirmation(m, u) ==
    /\ confirmations' = confirmations \cup {<<m, u>>}
    /\ UNCHANGED <<matches, matchCounters, undos, oldUndos>>

DeleteConfirmations(m) ==
    /\ confirmations' = confirmations \ ({m} \X Users)
    /\ UNCHANGED <<matches, matchCounters, undos, oldUndos>>

\* An upsert: a row that is already there gets a new RequestedAt.
InsertUndo(m, u) ==
    /\ undos' = undos \cup {<<m, u>>}
    /\ oldUndos' = oldUndos \ {<<m, u>>}
    /\ UNCHANGED <<matches, matchCounters, confirmations>>

DeleteUndo(m, u) ==
    /\ undos' = undos \ {<<m, u>>}
    /\ oldUndos' = oldUndos \ {<<m, u>>}
    /\ UNCHANGED <<matches, matchCounters, confirmations>>

DeleteUndosForMatch(m) ==
    /\ undos' = undos \ ({m} \X Users)
    /\ oldUndos' = oldUndos \ ({m} \X Users)
    /\ UNCHANGED <<matches, matchCounters, confirmations>>

-----------------------------------------------------------------------------
(* Time *)

\* The group's ConfirmationTimeout has passed since the match was created.
MatchAges(m) ==
    /\ HasStatus(m, "PENDING")
    /\ ~matches[m].old
    /\ matches' = [matches EXCEPT ![m].old = TRUE]
    /\ UNCHANGED <<matchCounters, confirmations, undos, oldUndos>>

\* 24 hours have passed since the undo request.
UndoAges(m, u) ==
    /\ <<m, u>> \in undos \ oldUndos
    /\ oldUndos' = oldUndos \cup {<<m, u>>}
    /\ UNCHANGED <<matches, matchCounters, confirmations, undos>>

=============================================================================
