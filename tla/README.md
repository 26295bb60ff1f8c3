# TLA+ models of the table-tennis bot

The bot (Go, `src/pkg`) keeps the table-tennis matches of Telegram groups:
players register matches with `/match`, confirm or cancel them with buttons,
undo them with `/undo`, and a topic of the group shows the ratings. It runs as
two cloud functions, a webhook that is invoked once per Telegram update (in
several warm containers, several invocations at a time) and a cron function.
They share a YDB database; the tests use an in-memory store instead.

## 1. Inventory

| Component | Source | State it keeps | Operations | What makes it correct |
|---|---|---|---|---|
| Match store | `store/store.go`, `store/memstore`, `store/ydbstore`, `models` | tables `matches`, `match_counters`, `match_confirmations`, `undo_commands` (and participants, groups, accounts, settings, nicknames) | allocate+insert, get, update status, delete, list; insert, delete and list of confirmations and undo requests | one call is one transaction; ids are never reused; deleting a match deletes what hangs on it |
| Match life cycle | `handlers/match.go`, `handlers/undo.go` | none of its own: rows read early and used late, the text of the match's message | `/match`, Confirm, Cancel, `/undo` | no match counts without the word of an admin or both players; approved matches are undone, not deleted; the message says what the table says |
| Cron function | `handlers/periodic.go` | lists read early and used late | expire matches, expire undo requests, probe accounts | pending matches are settled in the end; only those; notices are true |
| Interactive `/match` | `handlers/match_interactive.go` | a draft per prompt: in a map per container, in the message's text, and on the heap of a running handler | open, nav, opponent, score, back, cancel, confirm; lazy eviction | what was on screen gets registered, once; fast clicks lose nothing; every tap is answered |
| Stats topic | `handlers/rankings.go` | ids of three messages in the group row; detached goroutines | refresh, upsert a message, clean up | each message is its own kind's, in the topic that is set; missed refreshes heal |
| Group configuration | `handlers/group.go` | group row: topics, timeout | register, set topics, membership changes | no lost update of the row |
| Dispatch | `handlers/handlers.go`, `start.go`, `whoami.go`, `errs.go` | sender's participant row | routing, litter deletion in the stats topic | each update reaches one handler |
| S21 accounts | `login.go`, `logout.go`, `migrate.go`, `periodic.go`, `s21/` | encrypted accounts per admin, their validity | login, logout, probe, migrate | logged out stays logged out; rejected credentials leave after their deadline |
| Nickname cache | `identity/` and `lookupS21Nickname` | LRU with time to live per container, durable rows | get, put, evict | bounded size; bounded staleness; map and list in step |
| Participants | `refresh.go`, `dm.go`, store | usernames per telegram id | upsert, resolve, refresh | a name resolves to its present bearer |
| Ratings | `rating/`, `computeRatingsFor` | none: computed anew from the matches at every refresh | ELO, Glicko-2, ordering, periods | the record is the history; periods follow the calendar; a change of the past moves only later games |
| Validation, notifications, Telegram adapter, cryptography | `validation/`, `notify/`, `messenger/`, `crypto/` | none | parsing, sending | |

Components interact through the database rows, through the text and keyboard
of messages that users see (a tap sends the text it was made on back to the
bot), and, inside one container, through the draft map and the nickname cache.
The hard behaviours are: invocations that interleave between two store calls;
values read before a call and used after it; invocations that die, or calls
that fail, between two writes; the two stores' different answers; taps that
arrive late, twice or in another container; the lazy eviction of drafts;
time-outs that race with taps; rows written back whole from an old copy; and
detached refreshes that overlap, die or lose a message. `PROJECT.json` lists each as a hazard at its line.

## 2. Modules

| Module | Models | Notes |
|---|---|---|
| `MatchStore` | the four match tables and the store calls on them, both backends | operators only; every call one atomic step |
| `MatchLifecycle` | `/match`, Confirm, Cancel, `/undo`, expiry by cron, over `MatchStore` | one action per stretch of a handler between two calls |
| `MatchLedger` | what the bot promises about matches | abstract; `MatchLifecycle` instantiates it |
| `InteractiveMatch` | one interactive prompt | drafts, mutexes, containers, message text |
| `StatsTopic` | the group's row, its commands, the three maintained messages | the row is read and written whole |
| `NickCache` | `S21NickCache` and `lookupS21Nickname` | LRU, durable table, identity service |
| `S21Accounts` | `/login`, `/logout`, probe, `withIdentity`, migration | rows copied before a network call, written after it |
| `EngineLoops` | the loops of both rating engines, one step per iteration | the formulas are parameters |
| `Ratings` | `computeRatingsFor`, with the engines as folds, on top of `EngineLoops` | the formulas are terms |
| `Participants` | usernames of a group and the refresh job | Telegram renames at any time |
| `MatchLifecycleProofs`, `MatchSerialProofs` | theorems about `MatchLifecycle` | the second builds on the lemmas of the first |
| `InteractiveMatchProofs`, `StatsTopicProofs`, `NickCacheProofs`, `S21AccountsProofs`, `ParticipantsProofs`, `EngineLoopsProofs` | theorems about the module they are named after | checked by TLAPS |
| `MC...` | instances for TLC | one `.cfg` per run |

The modules split the database by table: no row is written by two of them, so
they compose by running side by side. What one needs of another is an input:
`StatsTopic` counts results instead of computing ratings, `Ratings` takes a
nickname to be found or not at any time, `MatchLifecycle` starts from resolved
players.

### MatchStore

`matches[m]` is a row (players, status, and `old`: past the group's
`ConfirmationTimeout`) or `NoMatch`; `confirmations`, `undos` and `oldUndos`
are sets of `<<match, user>>`. memstore works under a mutex and ydbstore in one
serializable transaction, so a call is a step. `Backend` selects the one place
where the stores differ for the handlers: `DeleteSucceeds`, since memstore
answers `ErrNotFound` for a missing row and a YDB `DELETE` does not.

### MatchLifecycle

A worker's `job` holds the step it is at, the sender, the match, and the row
as it was read. `HandleMatch`, `HandleConfirmTap`, `HandleCancelTap` and
`HandleUndo` start a job and do the first read or write; each following action
is one call of the handler together with the code up to the next call:

- `/match`: `HandleMatch`, then `Announce` for an admin, or `AuthorConfirm` and
  `SendCard`;
- Confirm: `HandleConfirmTap`, `ConfirmInsert`, `ConfirmDecide`, then
  `ConfirmApprove` and `ConfirmEdit`, or `ConfirmRemaining`;
- Cancel: `HandleCancelTap`, `CancelDelete`, `CancelEdit`;
- `/undo`: `HandleUndo`, `UndoList`, `UndoWithdraw` or `UndoInsert`,
  `UndoCheck`, `UndoToggle`, `UndoClear`;
- cron: `CronStart`, `CronExpire`, `CronAnnounce` per row, then `CronListUndo`,
  `CronExpireUndo` per row, `CronDone`.

`Crash`, `IgnoreError` and `CronAbandons` are the failures: the process ends or
the handler returns an error, or goes on after a call whose error the code
drops (`AfterError` lists where). `isChatAdmin` turns an error into "no", so it
may say no of an admin at any time. A tap is possible on every card whose
keyboard was ever shown, for as long as one likes.

`consent`, `asked` and `removedBy` are history variables: who vouched for a
match, whose undo request is open, who removed a row. `/match` refusals (wrong
topic, bad score, unknown name) change nothing and are not modelled.

### InteractiveMatch

The state is the message's `text` (its header record, or how it was closed),
the `heap` of draft objects with their mutexes `mu`, the map entry `drafts[c]`
of each container, and a job per worker: load, lock, act, edit, and fail when a
call goes wrong. A tap carries `seen`, the text it was made on, because
Telegram sends the message along with the callback. `LoadOrRestoreDraft` is
`loadOrRestoreDraft` with its lazy GC; `LockDraft` is `d.mu.Lock()`; the
`Dispatch...` actions are the branches of `dispatchTap` up to the edit;
`EditAndAck` the edit; `TapFails`, `SummaryLost` and `FailTapGracefully` the
error paths. Addresses nobody refers to are reset to a fresh draft, which is
Go's garbage collector and keeps the state space small. A match that comes out
of the prompt is only recorded (`registered`); from there on its life is that
of `MatchLifecycle`.

### StatsTopic

`row` is the group's row: the two topics, the id of the old single rankings
message and the ids of the three. `posts` are the bot's messages in the group,
with their topic and how many `results` their text counts. An update is
`Receive`d unless it is litter in the stats topic, reads the row (`ReadRow`),
and does the command: `BotRegisterGroup`, `SetMatchesTopic`, `SetStatsTopic`
(which resets the ids and refreshes) or `CountResult`, the approval, undo or
restoration of a match, with its detached refresh on the copy read before. A
refresh reads the matches for each of its texts (`Render`, three times), removes
the old message (`SweepOrphans`), edits or posts the three in turn
(`UpsertByEdit`, `UpsertBySend`) and writes its copy back if an id changed
(`SaveRow`). `EditFails`, `SendFails` (perhaps after Telegram has posted),
`Abandon` (store error, 25 s timeout, frozen container) and `DeletedByHand` are
the faults; so are two reads whose error does not end the job. `RegisterUnread`:
`/bot_register_group` takes any error for "not linked" and goes on to write an
empty row (`group.go:28`). `Receive`: the litter rule lets a command in the stats
topic through when it cannot read the row (`handlers.go:338`). What the bot says
of the topics is history: `told` is what it last reported, `behind` which reports
came after a job read its copy, `upset` which topics such a copy has overwritten
since. The bit `clean` of a job says that nothing else ran and nothing
failed since it began.

### NickCache

Of each container the map `entries` and the list `lru`; the table `durable`;
the identity service as a list of `changes` per user, so that a nickname is the
number of changes before it. `Hit`, `Promote`, `Expire` and `Put` are the
methods of `S21NickCache`, each under its mutex and so atomic. A lookup is
`LookupHit`, or `LookupMiss` followed by `DurableServes`, or by `DurableMisses`,
`Fetch`, `PutLocal` and `WriteDurable`; any of these may fail where the code
goes on or gives up. Time is in days and stamps are kept as ages, up to the
first one past its time-to-live.

### S21Accounts

A row is the password it holds and for how many days it has been marked as
rejected. `AllRows` is the list that the probe and `PickHealthy` copy first;
their loops then work on the copies. The verdict of S21 compares the copy's
password with the one in force, which the owner may `Rotate`. `ApplyAuthResult`,
`PickHealthy` and `ValidateAndStore` belong to the shared `s21account` package
outside the repository: they are modelled from the decisions the code takes
from them and marked external. The history variable `stale` has, for each
worker, the users whose rows somebody else wrote since its job read them
(`Holds`); it starts empty with every job, so that a copy which was overtaken
excuses the one job that holds it, once.

### EngineLoops

`given` and `days` are the arguments of an engine; `validateAndSort` or
`Refuse` comes first, then `EloMatch` per match, the two nested loops of `groupByPeriod` (`Advance` closes a period, `Place` puts
a match into the open one, `CloseLast`), and per period the loops of
`glicko2Engine.Compute`: `Collect` the opponents, take the `Snapshot`, `Update`
the participants in the arbitrary order of a Go map, `Inflate` the deviation of
the others, `MetaUpdate` per match. A period is a slice `from..to` of the sorted
matches. Both engines run one after the other on one input, so that their
records can be compared; in the code each sorts for itself, with the same
result. Lengths of periods wrap around as a `time.Duration` does. `rated` is a
history variable, the ratings after each period. Points and best ratings are
left out.

### Ratings

From the group's rows to the ratings: `ListByGroup`, the filter of
`computeRatingsFor` (`Counts`, `input`), and both engines as folds over the list,
with periods by division. A rating is the term of the formula applications that
produced it, so two ratings are equal exactly when the formulas were given the
same values in the same order. The module extends `EngineLoops`, so a run can
compare what the loops return for a list with what the folds return for the same
list or for one from which something is missing.

### Participants

`current` is Telegram's assignment of usernames, `rows` the table. What an
update says of a user was true when it was made; `UpsertSeen` stores it whenever
it is served (`upsertSenderParticipant`, `dispatchChatMember`, and
`handleForwardedAdd` with one group). A prompt keeps the name until it is
tapped. The refresh lists (`List`), asks (`Ask`) and writes (`Save`) one user
after the other, or skips a user whose call fails.

## 3. Runs

Every run takes less than two minutes with two TLC workers.

| Run | Instance | Shows |
|---|---|---|
| `match_serial` | handlers one at a time, 3 users, 2 matches, an admin who also plays, memstore | `NoOrphans`, `CardTruthful`, `OnlyPendingRemoved`, `TwoStepUndo`, and the refinement `ImplementsLedger` |
| `match_races` | 2 invocations and cron interleaving, 1 match, 3 users | `TypeOK`, `ApprovalNeedsConsent`, `NoLostConfirmation`, `ExpiryNoticeTruthful`, `NeverRevived` |
| `match_settles` | 1 invocation and cron, YDB, one failure | `EveryMatchSettles` under fairness |
| `prompt_serial` | 1 tap at a time, 2 opponents, scores 0 and 1, evictions and restarts | `TypeOK`, `HeaderMirrorsDraft`, `RegisteredAsShown`, `OneMatchPerPrompt` |
| `prompt_taps` | 2 taps at a time, one failing call | `FastClicksSerialize`, `MutexHeldByWorkingTap`, and `TapsAnswered` under fairness |
| `stats_topic` | 2 jobs at a time, 2 topics, 3 events, one fault; a new group and one the old bot served | `TypeOK`, `NamesOwnMessages`, `ReportedTopicsKept`, `SelfHeals` |
| `nick_cache` | 3 users for 2 places, 2 lookups at a time, both times-to-live one day | `TypeOK`, `StaleBound`, `DurableNeverBehind`, `MapAndListAgree`, `LeastRecentlyUsedGoes` |
| `accounts` | 1 user with or without a legacy row, 2 invocations, a deadline of 2 days | `TypeOK`, `AutoLogoutJust`, `CredsNeverGoBack`, and `InvalidCredsLeave` under fairness |
| `ratings` | every list of up to 3 matches among 3 players, wins and draws, period settings 0 and 2 | `TypeOK`, `EnginesKeepRecord`, `GroupsByCalendar`, `RatedPerPeriod`, `EveryStepDescends`, `EffectsFlowForward` |
| `participants` | 2 users, 1 username, 2 refreshes, 2 updates or prompts under way, 2 renames or failed edits | `TypeOK`, `RefreshRepairs`, and `NamesSettle` under fairness |
| `expiry_deletes_approved`, `logout_undone` | | where the code does not do what it says (section 5) |

What the less obvious properties say:

- `SelfHeals`: the comment at `detachedRefreshStatsTopic` promises that missed
  refreshes "self-heal on the next event". Whatever state overlaps, failures and
  deleted messages have left, a refresh that then runs alone ends with three
  live messages that count every result. `NamesOwnMessages` is what makes this
  safe, and holds without any condition.
- `StaleBound`: a container shows a nickname up to the *sum* of both
  times-to-live after it changed (37 days, not the 30 of the comment at
  `s21NickDurableTTL`), and never longer. The history of a nickname is what the
  property compares with, not the time stamps the cache keeps.
- `DurableNeverBehind`: when an entry leaves a container, the table does not
  bring an older nickname back. It fails if two lookups of one user overlap or a
  write is lost, which the property excludes; `StaleBound` holds even then.
- `AutoLogoutJust` and `InvalidCredsLeave` are the two sides of the deadline:
  nobody is logged out whose credentials work or were not marked for long
  enough, and rejected credentials do not stay, though identity calls,
  migrations and logins write the same rows.
- `GroupsByCalendar` compares the loops of `groupByPeriod` with the period that a
  division gives a match.
- `EffectsFlowForward`: a match that begins or ceases to count moves the rating
  of its own players and of whoever later plays someone already reached, and of
  nobody else. For Glicko-2 it needs periods of one day, the default: longer
  periods are counted from the day of the first match, so undoing that match
  moves the boundaries, and with them the ratings, of people it has nothing to
  do with. With nothing missing it says that loops and folds agree.
- `EnginesKeepRecord` says in closed form what the engines accumulate: games,
  wins and losses are numbers of matches, the streak is the wins after the last
  loss less the losses after the last win. One engine keeps its record match by
  match, the other in closures run at the end of each period, and they agree.
- `RatedPerPeriod`: the order in which Go walks the map of participants has no
  influence on a rating; everybody meets their opponents as they were before the
  period.
- `EveryStepDescends` is the safety form of "the engines end": each iteration
  lowers a tuple of natural numbers. The loop it is about is the one that opens
  periods until a match falls into one, which would never end with a length of
  zero, and so rests on `NewGlicko2`'s lower limit.
- `RefreshRepairs` and `NamesSettle`: one undisturbed refresh repairs every row,
  so that `@name` finds its bearer only; and in the end, after late updates and
  old prompts, all rows are right.

Bounds. `MaxMatches`: matches share nothing but the counter; two are needed to
see ids and rows kept apart, one is enough for races on a match. Two workers
and the cron function are the smallest instance in which two players and the
sweep race for one row; three users are two players and a third party with
admin rights. `MaxFaults` is per run. `MaxRegistered` caps the history of
registered matches. Scores 0 and 1 give a tie, a winner and a changed mind.
`prompt_taps` sets `MaxRegistered` to 0, since no property of it looks at the
history, and uses a few buttons only (one opponent, scores 0 and 1 to 0,
Confirm, Cancel), enough to take each branch of `dispatchTap` that treats the
mutex or an error differently, and leaves evictions out. `DraftIds` has two
addresses: when a tap needs a new draft the map is empty and at most the other
worker holds one.
In `stats_topic` three events are two that overlap and spoil something and one
that heals it; two topics are enough to move the stats topic and to swap the
two. In `nick_cache` three users for two places make every insertion evict; one
of them changes the nickname, the others fill the cache. A time-to-live of one
day has a fresh, a last and a late day. In `accounts` rows of different users
are independent but for the order of a loop. In `ratings` three matches among
three players give a chain (a change reaches a third player through a second),
a bystander, a streak broken and a boundary; the times 1, 2 and 5 with days of
two ticks lie on three days, so that a period without games occurs, and periods
of two days hold one playing day or two. The four pairings let each player be
first and second; the first match is of `ann` and `bob`, which is a matter of
naming. Two lists, of a match against oneself, are refused. One match and one
player are left out at a time. `MaxDuration` is 7 ticks, above the longest
setting.
In `participants` one name that two users hand over is the conflict; two
incidents are a name dropped and taken.
Workers run the same code, and addresses, opponents and cache users
carry no order, so the symmetry sets of the runs are sound; no liveness run
uses one.

Deadlock is not checked for the prompt, a closed prompt is the end of it, and
for the stats topic, whose events are bounded. The other systems always have a
step.

Fairness. A Go handler that was not killed runs on (`WF` of a worker's next
step). The cron trigger fires again and again and a sweep runs on, and the
confirmation timeout of a match passes (`WF`). Go's mutex hands itself over to
a waiter in the end (`SF` of `LockDraft`; its starvation mode guarantees it).
`PeriodicJob` probes all accounts and refreshes all usernames at every run, so
both are started for ever; days pass (`SF` of `Tick`, `ProbeAllAccounts`,
`List`). S21, Telegram and the store may fail any number of times, but not
always: a user who is reached by probe or refresh again and again is answered
for and written some time (`SF` of the steps of the probe, and of `Ask` and
`Save`). No fairness is assumed of users, and only bounded numbers of failures
elsewhere.

## 4. Proofs

`MatchLifecycleProofs` proves, for every set of users, workers and admins and
every bound:

- `TypeCorrect`: `Spec => []TypeOK`.
- `ApprovalConsent`: `Spec => []ApprovalNeedsConsent`. An approved or undone
  match has the word of an admin or of both players, whatever interleaves or
  fails. The property is not inductive: a handler that is about to write
  `APPROVED` acts on a row and a list it read some steps ago. `ConsentInv` adds
  that every stored confirmation is backed by consent; that the players in a
  handler's snapshot are those of the row, if there still is one; that ids in
  use are below the counter, so an id is never handed out again under a handler
  that still works on it; and that a handler on its way to store a confirmation
  or to write a status already has the consent it needs. Consent only grows, so
  no step of another process takes that away.
- `NoRevival`: `Spec => NeverRevived`. A removed match never comes back and a
  settled one is never pending again.

`MatchSerialProofs` assumes that handlers and sweeps run one at a time
(`Serial`) and that no call fails (`MaxFaults = 0`), the conditions of run
`match_serial`; section 5 says what happens without them. From one inductive
invariant, `SerialInv`, follow:

- `TablesWithoutOrphans` (`NoOrphans`), `TruthfulCards` (`CardTruthful`),
  `RemovedWhilePending` (`OnlyPendingRemoved`), `UndoTakesTwo` (`TwoStepUndo`);
- `LifecycleImplementsLedger`: `Spec => ImplementsLedger`, the refinement of
  `MatchLedger`. Initial states map to initial states, and every step of a
  handler, of the sweep or of the environment maps to one step of the ledger or
  to a stutter.

`SerialInv` says what a handler may rely on between two of its calls: at each
step the match it works on still has the status it read (`StepInv`), the
matches the sweep has yet to delete are still pending (`CronInv`), rows of the
side tables belong to matches that can have them, with the requests that count
being those no toggle has spent (`TablesInv`), and a card is wrong only while
the handler that made it so has yet to edit it (`CardInv`).

The second part of `MatchLifecycleProofs` is about handlers that overlap:

- `ConfirmationsNotLost` (`NoLostConfirmation`, no failing call). Two players may
  confirm at the same time. `RaceInv` adds that until the author's own
  confirmation is stored nobody else works on the match: its card is sent later,
  and there is nothing to undo.
- `TruthfulExpiryNotices` (`ExpiryNoticeTruthful`, `Backend = "mem"`, with
  failures and crashes). `ExpiryInv` adds that what cron removed stays removed,
  by `NoRevival`'s argument. On YDB the property is false (section 5).

`InteractiveMatchProofs`:

- `PromptTypes` (`TypeOK`) and `TapsSerialized` (`FastClicksSerialize`), with no
  assumption: taps overlap and fail, containers come and go. `ClicksInv` says
  that the mutex of a draft belongs to the tap between its lock and its end
  (`MutexInv`), that nothing gets past loading before the opener has stored its
  draft, and that from then on all taps work on that one draft and the message
  shows it unless a tap is about to.
- `MutexesHeld` (`MutexHeldByWorkingTap`), with no assumption either. `OwnerInv`
  is the other direction of `MutexInv`: a mutex that is held is that of a tap
  between lock and end. It is the safety half of `TapsAnswered`: whoever waits
  for a draft waits for a tap that waits for nothing.
- `OneMatch` (`OneMatchPerPrompt`) when taps are served one by one
  (`Overlap = "none"`) and calls succeed, in any number of containers: once a
  match is registered, the buttons are gone or the tap that registered it is
  about to remove them (`RegisteredOnce`).
- `MirrorKept` (`HeaderMirrorsDraft`) and `ConfirmedAsShown`
  (`RegisteredAsShown`) with one container besides, the conditions of run
  `prompt_serial`. `MirrorInv` follows a tap from the header it was made on,
  through the draft it loads or restores, to the header it writes.

`StatsTopicProofs` proves, for every set of workers and topics and every bound:

- `OwnMessagesOnly`: `Spec => []NamesOwnMessages`. The ids in the group's row are
  those of messages of their own kind in the row's own stats topic. It is not
  inductive, because a refresh writes back a copy of the row that it was handed
  earlier. `Inv` adds that the copy of every job names its own messages too,
  against its own stats topic; that a job has a row from the step on which it
  needs one, and one text per message before it posts the first; and the types
  this needs. The argument is that Telegram never moves a message to another
  topic or kind (`Kept`), so a copy that was right stays right however stale it
  is, and that `/set_stats_topic` is the only step that changes a copy's topic,
  and it clears the ids.
- `RefreshesHeal`: `Spec => SelfHeals`. `HealInv` says that a refresh which is
  still undisturbed is the only job, that its copy is the row or is to be saved,
  that its texts count every result, and that the messages it is done with are
  there and show them.
- `TopicsStayAsReported`: `Spec => []ReportedTopicsKept`, with overlapping jobs
  and failing calls. `ToldInv` says of every copy under way what the property
  says of the row: it has the topics last reported, except those reported since
  it was read (`behind`) and those overwritten (`upset`). A write makes its
  reports news to all other copies, so none of them can pass for up to date.
- `StatsTopicTypes`: `Spec => []TypeOK`. The bounds in it are not inductive: a
  job that posts does not know what the others are going to. `BoundInv` keeps
  the account: the pairs of a job and a message it may still post (`Owed`) and
  the messages there are make at most three per update served and the one of the
  older bot, and the same for results. Only `Receive` adds to what is owed; a
  post takes away its pair. It also says that a refresh is under way only for a
  copy with a stats topic, so no message goes to topic 0.

`NickCacheProofs` proves, for any number of users, containers, lookups and
entries and any time-to-lives:

- `StalenessBounded`: `Spec => []StaleBound`, whatever races or fails. `StaleInv`
  is sharper than the property: a row is at most as stale as it is old, an entry
  at most as stale as its age plus `DurableTTL`, and a lookup that has an answer
  has one that was true today. A day ages entries and changes alike; a copied
  row trades its age for the second term.
- `TableNotBehind`: `Spec => []DurableNeverBehind`. `BehindInv` adds that lookups
  under way are of different users, that no entry of any container is newer than
  what a lookup is about to write, and that an entry newer than its row belongs
  to a lookup that is about to write the row.

Neither depends on which entry a full cache gives up, so these two invariants
leave the list out. The next three are about the list:

- `NickCacheTypes` (`TypeOK`), `MapMatchesList` (`MapAndListAgree`) and
  `EvictsLeastRecent` (`LeastRecentlyUsedGoes`) from `ListInv`: in every
  container the list holds the users of the map, each once, they have all been
  used, and one that comes before another was used later (`InStep`). `Get` and
  `Put` move a user to the front of both the list and the history of uses, `Get`
  takes an expired one out of list and map, and `Put` into a full cache drops
  the last of the list, which by `InStep` is the one used longest ago. The size
  is bounded because a list without repetitions is a bijection onto its elements
  (`CountElements`).

`S21AccountsProofs` proves `AccountTypes` (`TypeOK`), `RemovalsJust`
(`AutoLogoutJust`) and `CredsRenewed` (`CredsNeverGoBack`) from `AccountsInv`. It
says what a job relies on when it writes a row nobody else wrote since
(`HeldOK`): a listed row is still the one it read, a password that S21 accepted
at `/login` is not older than the stored one, and a user about to be migrated
still has no row. It adds that no stored password is newer than the one in
force, and that one which S21 rejected is older, so that it never becomes right
again.

`ParticipantsProofs` proves `ParticipantTypes` (`TypeOK`) and `RefreshesRepair`
(`RefreshRepairs`) from `RefreshInv`: of an undisturbed refresh, the copies it
has yet to look at are those in the table, the rows it is done with are right,
and the answer it is about to write is still true.

`EngineLoopsProofs` proves, for every list of matches, every length of the day
and of the period that fits a `time.Duration`, and whatever the rating formulas
compute:

- `TypeCorrect` (`TypeOK`), `RecordsHold` (`EnginesKeepRecord`), `CalendarHolds`
  (`GroupsByCalendar`), `RatingsHold` (`RatedPerPeriod`), and `EnginesEnd`
  (`EveryStepDescends`).

All follow from `IInv` (theorem `Inductive`). `OrderInv`: the sorted matches are
valid and in order. `LoopInv`: where each index stands while its loop runs.
`GroupInv`: a closed period, and the open one, is the n-th window of its length
counted from the first midnight and holds the matches in it, none left out;
the calendar's division comes in only at the end, in `CalendarHolds`. `EloInv`
and `MetaInv`: an entry is the record of exactly the matches counted so far,
which for Glicko-2 are two numbers, since players are created while a period is
collected and get their record when it ends. What makes this inductive is what
one more match does to the counts of `IsRecord`. `RateInv` follows a rating
through the parts of a period: before the updates everybody is as after the last
period (`IdleInv`), what a participant noted of an opponent is that (`MetInv`),
and during the updates those who had theirs have the new rating and the others
the old (`UpdateInv`, `AfterInv`). `EnginesEnd` needs besides that the running
period starts no later than the next match, so that the distance to the last
match is a natural number, and that the participants are finitely many
(`FiniteInv`).

The inductive invariants were model-checked on the instances of the runs before
they were proved. The proofs rest on the assumptions named in the modules: the
bounds are natural numbers, admins are users, pairings name users, and the model
values for "no row" and "no job" are not rows or jobs, users or workers; days
have a positive length, and the lengths of periods fit a `time.Duration`.

Only model-checked:

- liveness (`EveryMatchSettles`, `TapsAnswered`, `InvalidCredsLeave`,
  `NamesSettle`): fairness and `ENABLED` are out of the prover's reach;
- `EffectsFlowForward`, which compares two computations, one of them by folds
  over lists: what a fold computes for every input takes an induction over data.

## 5. Where the code departs from what it says

| Run | What happens |
|---|---|
| `expiry_deletes_approved` | The cron function lists an expired pending match, a player confirms it, and the sweep deletes the approved match. |
| `logout_undone` | A user whose credentials came from the legacy table logs out; the next cold start finds no row, takes the user for not yet mirrored and stores the legacy credentials again. |

Known limits, which the conditions of the properties above leave room for and
the models reproduce when a constant or a condition is changed:

- With overlapping handlers a topic command or a refresh writes back an old
  copy of the group's row, and a setting that was reported as set is lost until
  it is set again (`ReportedTopicsKept` without `~upset[s]`; `group.go:70`,
  `rankings.go:190`).
- One failing read during a `/bot_register_group` in a linked group replaces its
  row by an empty one, with no overlap at all: both topics and the message ids
  are gone (`group.go:28-46`). The reply is that of a new link, which
  asks for both topics, so `ReportedTopicsKept` counts it as reported.
- Switching the stats topic away and back leaves six messages in it, since the
  ids are reset and the old messages stay; so do two first refreshes that
  overlap (the comment at `rankings.go:141` says "exactly THREE").
- Two fast Confirm taps on a prompt register the match twice: the second goes on
  with a draft that was dropped while it waited (`OneMatchPerPrompt` with
  `Overlap = "taps"` and `MaxRegistered = 2`).
- When the acknowledgement after a registration fails, the prompt says "failed,
  run /match again" (`SummaryLost`).
- A tap faster than `storeDraft` has its draft replaced by the fresh one
  (`HeaderMirrorsDraft` with `Overlap = "all"`).
- With two containers, `HeaderMirrorsDraft` and `RegisteredAsShown` fail: a warm
  container goes on from its own draft after another one has served later taps.
  And a tap made before a prompt was given up puts the picker back.
- On YDB a match cancelled after cron listed it is announced as expired
  (`ExpiryNoticeTruthful` with `Backend = "ydb"`).
- When an invocation ends between the status write and the clearing of the undo
  requests, one player alone can toggle the match again (`TwoStepUndo` with
  `MaxFaults = 1`).
- A probe, an identity call or a `/login` that read a row or a password before a
  `/logout` or a newer `/login` stores it after it (`LogoutSticks`;
  `CredsNeverGoBack` and `AutoLogoutJust` without `u \notin stale[w]`).
- `renderCombinedStats` reads the matches and nicknames again for each engine
  (`rankings.go:218-222`); `Ratings` gives both engines one list, so a change
  between the two reads is not seen.
- The comment at `handlers.go:52` says that `/refresh_usernames` re-busts the
  nickname cache; the command touches participants only. The comment at
  `handlers.go:119` says a nickname change shows "on the next operation"; the
  caches in front of `withIdentity` keep it for up to 37 days.
- `groupByPeriod` multiplies the setting by 24 hours in a `time.Duration`. A
  setting above 106751 days, which no command makes and only an edit of the
  table could, wraps around; a length that comes out negative makes its inner
  loop run for ever (`glicko2.go:277`). `EngineAssumption` leaves it out.
- memstore finds usernames whatever their case, YDB only as they are stored.

## 6. Not modelled, and what is left

Not modelled: validation (stateless), notifications (best effort, no state),
cryptography, test doubles, the HTTP side of the Telegram and S21 clients, texts
and layout. The floating-point formulas of the engines are uninterpreted: TLC
has no reals, and their convergence loop is numerical. Routing in `dispatch` has
no state of its own. The YDB SDK's retry of a commit whose answer was lost is
outside the repository; `AllocateAndInsertMatch` is one step, and its fallback to
id 1 when the counter cannot be read (`ydbstore.go:112-118`) is left out.
`applyMeta` of `EngineLoops` stands for `applyMeta` (`elo.go:65`) and
`applyG2Meta` (`glicko2.go:157`), which are the same code at this commit.
Telegram's "message is not modified", when the selected cell is tapped again, is
one of the failures that `TapFails` stands for.

Left to do: the composition of `InteractiveMatch` with `MatchLifecycle` through
`registerInteractiveMatch`.
