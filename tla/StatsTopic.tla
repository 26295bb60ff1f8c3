----------------------------- MODULE StatsTopic -----------------------------
(***************************************************************************)
(* The group's row, the commands that configure it, and the three messages *)
(* the bot keeps up to date in the stats topic.                            *)
(*                                                                         *)
(* The row is read and written whole.  A topic command reads it, changes a *)
(* field and writes it back; a refresh works on the copy its handler read, *)
(* posts or edits the messages, and writes that copy back if it posted.    *)
(* After a match result the refresh is detached: it goes on while later    *)
(* updates are served, and may die with its container.                     *)
(*                                                                         *)
(* The ratings a message shows are abstracted to the number of results     *)
(* they count (module Ratings computes them).  Campus, timeout and labels   *)
(* of the row are dropped.                                                 *)
(***************************************************************************)
EXTENDS Naturals, Sequences

CONSTANTS
    Workers,    \* concurrent invocations and detached refreshes
    Topics,     \* forum topics, numbered from 1; 0 is unset
    MaxEvents,  \* bound: commands and results served
    MaxFaults,  \* bound: failing calls, killed refreshes, messages deleted by hand
    NoRow,      \* the group is not linked
    NoJob       \* an idle worker

VARIABLES
    row,      \* the group's row
    posts,    \* the bot's messages in the group; a message id is an index
    results,  \* how many match results the ratings count
    job,      \* what each worker is doing
    events,
    faults,
    told,     \* history: what the bot last reported of each topic (0: to be set)
    behind,   \* history: the topics reported since each worker read its copy
    upset     \* history: topics overwritten, since the last report, by a copy behind it

history == <<told, behind, upset>>

vars == <<row, posts, results, job, events, faults, history>>

\* In the order in which they are rendered and posted.
Kinds == <<"elo", "glicko", "stats">>

KindSet == {"elo", "glicko", "stats"}

\* The two topics of the row that an admin sets.
Settings == {"matches", "stats"}

MaxPosts == 1 + 3 * MaxEvents

\* "legacy" is the message of the single-engine bot that a refresh removes.
Posts == [topic : Topics, kind : KindSet \cup {"legacy"}, shows : 0..MaxEvents, live : BOOLEAN]

Rows == [matches : Topics \cup {0}, stats : Topics \cup {0}, legacy : Nat,
         ids : [KindSet -> Nat]]

NewRow == [matches |-> 0, stats |-> 0, legacy |-> 0, ids |-> [k \in KindSet |-> 0]]

Commands == {"register", "matches", "stats", "result"}

\* "clean": nothing else ran, and no call failed, since the job began.
Jobs == [at : {"read", "write", "render", "sweep", "post", "save"}, cmd : Commands,
         topic : Topics, g : Rows \cup {NoRow}, texts : Seq(0..MaxEvents), sent : 0..3,
         dirty : BOOLEAN, clean : BOOLEAN]

ASSUME StatsTopicAssumption ==
    /\ Topics \subseteq Nat \ {0}
    /\ MaxEvents \in Nat
    /\ MaxFaults \in Nat
    /\ NoRow \notin Rows
    /\ NoJob \notin Jobs

TypeOK ==
    /\ row \in Rows \cup {NoRow}
    /\ posts \in Seq(Posts)
    /\ Len(posts) <= MaxPosts
    /\ results \in 0..MaxEvents
    /\ job \in [Workers -> Jobs \cup {NoJob}]
    /\ events \in 0..MaxEvents
    /\ faults \in 0..MaxFaults
    /\ told \in [Settings -> Topics \cup {0}]
    /\ behind \in [Workers -> SUBSET Settings]
    /\ upset \in [Settings -> BOOLEAN]

\* A group nobody has linked, or one that an older version of the bot served:
\* it has one rankings message and none of the three.
Init ==
    /\ \/ row = NoRow /\ posts = <<>>
       \/ \E t, u \in Topics :
             /\ t # u
             /\ row = [NewRow EXCEPT !.matches = t, !.stats = u, !.legacy = 1]
             /\ posts = <<[topic |-> u, kind |-> "legacy", shows |-> 0, live |-> TRUE]>>
    /\ results = 0
    /\ job = [w \in Workers |-> NoJob]
    /\ events = 0
    /\ faults = 0
    /\ told = [s \in Settings |-> IF row = NoRow THEN 0 ELSE row[s]]
    /\ behind = [w \in Workers |-> {}]
    /\ upset = [s \in Settings |-> FALSE]

FullyConfigured(g) == g # NoRow /\ g.matches # 0 /\ g.stats # 0

Busy(w) == job[w] # NoJob

At(w, step) == Busy(w) /\ job[w].at = step

Finish(w) == job' = [job EXCEPT ![w] = NoJob]

\* Jobs that are under way when something disturbs them.
Disturbed == [w \in Workers |-> IF Busy(w) THEN [job[w] EXCEPT !.clean = FALSE] ELSE NoJob]

Fault == faults < MaxFaults /\ faults' = faults + 1

\* Worker w writes its copy g with Groups().Upsert, all columns of it, and
\* reports the topics in S to the chat: for the others S is news.
Upsert(w, g, S) ==
    /\ row' = g
    /\ told' = [s \in Settings |-> IF s \in S THEN g[s] ELSE told[s]]
    /\ upset' = [s \in Settings |-> s \notin S /\ (upset[s] \/ s \in behind[w])]
    /\ behind' = [v \in Workers |-> IF v # w /\ Busy(v) THEN behind[v] \cup S ELSE {}]

-----------------------------------------------------------------------------
(* Telegram *)

SendMessage(k, topic, text) ==
    posts' = Append(posts, [topic |-> topic, kind |-> k, shows |-> text, live |-> TRUE])

Found(id) == id \in DOMAIN posts /\ posts[id].live

EditMessage(id, text) == posts' = [posts EXCEPT ![id].shows = text]

DeleteMessage(id) == posts' = [posts EXCEPT ![id].live = FALSE]

-----------------------------------------------------------------------------
(* Commands and results *)

\* deleteStatsTopicLitter: whatever is written in the stats topic is deleted
\* and not looked at, commands included.
Litter(t) == row # NoRow /\ row.stats # 0 /\ row.stats = t

\* A chat admin sends a command in topic t, or a tap or command of a player
\* changes what the ratings count.  When the row cannot be read, what is
\* written in the stats topic is served like anything else.
Receive(w, cmd, t) ==
    /\ ~Busy(w)
    /\ events < MaxEvents
    /\ events' = events + 1
    /\ IF Litter(t) THEN Fault ELSE UNCHANGED faults
    /\ cmd = "result" => row # NoRow
    /\ LET alone == \A v \in Workers : ~Busy(v)
       IN  job' = [Disturbed EXCEPT ![w] =
                        [at |-> "read", cmd |-> cmd, topic |-> t, g |-> NoRow, texts |-> <<>>,
                         sent |-> 0, dirty |-> FALSE, clean |-> alone]]
    /\ UNCHANGED <<row, posts, results, history>>

\* Groups().Get.  The topic commands end here in a group that is not linked.
ReadRow(w) ==
    /\ At(w, "read")
    /\ job' = [job EXCEPT ![w] = IF row = NoRow /\ job[w].cmd # "register" THEN NoJob
                                 ELSE [job[w] EXCEPT !.at = "write", !.g = row]]
    /\ behind' = [behind EXCEPT ![w] = {}]
    /\ UNCHANGED <<row, posts, results, events, faults, told, upset>>

\* Mutation: a group that was found is linked afresh and told that it is
\* already linked.
RegisterAfresh(w) ==
    /\ At(w, "write")
    /\ job[w].cmd = "register"
    /\ Upsert(w, NewRow, IF job[w].g = NoRow THEN Settings ELSE {})
    /\ Finish(w)
    /\ UNCHANGED <<posts, results, events, faults>>

\* handleBotRegisterGroup.  A row that was found is written back with its
\* campus stamped, and the reply is "already linked".  Otherwise a new row is
\* written and the reply asks the admin to set both topics.
BotRegisterGroup(w) ==
    /\ At(w, "write")
    /\ job[w].cmd = "register"
    /\ IF job[w].g = NoRow THEN Upsert(w, NewRow, Settings) ELSE Upsert(w, job[w].g, {})
    /\ Finish(w)
    /\ UNCHANGED <<posts, results, events, faults>>

SetMatchesTopic(w) ==
    /\ At(w, "write")
    /\ job[w].cmd = "matches"
    /\ Upsert(w, [job[w].g EXCEPT !.matches = job[w].topic], {"matches"})
    /\ Finish(w)
    /\ UNCHANGED <<posts, results, events, faults>>

\* The next step of a handler whose copy of the row is g: refreshStatsTopic
\* does nothing in a group that lacks a topic.
Refresh(w, g) ==
    job' = [job EXCEPT ![w] = IF FullyConfigured(g)
                              THEN [job[w] EXCEPT !.at = "render", !.g = g] ELSE NoJob]

\* Mutation: the message ids of the old topic are kept.
SetStatsTopicKeepingIds(w) ==
    /\ At(w, "write")
    /\ job[w].cmd = "stats"
    /\ Upsert(w, [job[w].g EXCEPT !.stats = job[w].topic], {"stats"})
    /\ Refresh(w, row')
    /\ UNCHANGED <<posts, results, events, faults>>

SetStatsTopic(w) ==
    /\ At(w, "write")
    /\ job[w].cmd = "stats"
    /\ Upsert(w, [job[w].g EXCEPT !.stats = job[w].topic, !.ids = NewRow.ids], {"stats"})
    /\ Refresh(w, row')
    /\ UNCHANGED <<posts, results, events, faults>>

\* A match is approved, undone or restored; the refresh is detached and gets
\* the row the handler read before.
CountResult(w) ==
    /\ At(w, "write")
    /\ job[w].cmd = "result"
    /\ results' = results + 1
    /\ Refresh(w, job[w].g)
    /\ UNCHANGED <<row, posts, events, faults, history>>

-----------------------------------------------------------------------------
(* refreshStatsTopic *)

\* Each of the three texts reads the matches again, the last one twice: what
\* counts is the later read.
Render(w) ==
    /\ At(w, "render")
    /\ LET texts == Append(job[w].texts, results)
       IN  job' = [job EXCEPT ![w] = [job[w] EXCEPT
                        !.texts = texts, !.at = IF Len(texts) = 3 THEN "sweep" ELSE "render"]]
    /\ UNCHANGED <<row, posts, results, events, faults, history>>

\* The legacy message is deleted, and forgotten whether or not Telegram did so.
SweepOrphans(w) ==
    /\ At(w, "sweep")
    /\ LET orphan == job[w].g.legacy
       IN  /\ (orphan # 0 /\ DeleteMessage(orphan)) \/ UNCHANGED posts
           /\ job' = [job EXCEPT ![w] = [job[w] EXCEPT
                        !.at = "post", !.g = [job[w].g EXCEPT !.legacy = 0],
                        !.dirty = (orphan # 0)]]
    /\ UNCHANGED <<row, results, events, faults, history>>

\* The message whose turn it is, its id in the job's copy, and its text.
Turn(w) == Kinds[job[w].sent + 1]
StoredId(w) == job[w].g.ids[Turn(w)]
Text(w) == job[w].texts[job[w].sent + 1]

\* Mutation: the id is not noted and the turn not over.
PostedAgain(w, id) == [job[w] EXCEPT !.dirty = TRUE]

\* The turn is over; id is the message's id from now on.
Posted(w, id) ==
    LET j == job[w]
    IN  [j EXCEPT !.sent = j.sent + 1, !.g.ids[Turn(w)] = id,
                  !.dirty = (j.dirty \/ id # StoredId(w)),
                  !.at = IF j.sent = 2 THEN "save" ELSE "post"]

UpsertByEdit(w) ==
    /\ At(w, "post")
    /\ Found(StoredId(w))
    /\ EditMessage(StoredId(w), Text(w))
    /\ job' = [job EXCEPT ![w] = Posted(w, StoredId(w))]
    /\ UNCHANGED <<row, results, events, faults, history>>

\* Mutation: a new message is posted only when none is on record.
SendOnlyIfNone(w) ==
    /\ At(w, "post")
    /\ ~Found(StoredId(w))
    /\ IF StoredId(w) # 0
       THEN job' = [job EXCEPT ![w] = Posted(w, StoredId(w))] /\ UNCHANGED posts
       ELSE /\ SendMessage(Turn(w), job[w].g.stats, Text(w))
            /\ job' = [job EXCEPT ![w] = Posted(w, Len(posts) + 1)]
    /\ UNCHANGED <<row, results, events, faults, history>>

\* No message on record, or Telegram answers that it is gone.
UpsertBySend(w) ==
    /\ At(w, "post")
    /\ ~Found(StoredId(w))
    /\ SendMessage(Turn(w), job[w].g.stats, Text(w))
    /\ job' = [job EXCEPT ![w] = Posted(w, Len(posts) + 1)]
    /\ UNCHANGED <<row, results, events, faults, history>>

\* The whole copy is written back, topics included.
SaveRow(w) ==
    /\ At(w, "save")
    /\ IF job[w].dirty THEN Upsert(w, job[w].g, {}) ELSE UNCHANGED <<row, history>>
    /\ Finish(w)
    /\ UNCHANGED <<posts, results, events, faults>>

-----------------------------------------------------------------------------
(* Faults *)

\* An edit fails for another reason: the message keeps its text.
EditFails(w) ==
    /\ Fault
    /\ At(w, "post")
    /\ Found(StoredId(w))
    /\ job' = [Disturbed EXCEPT ![w] = [Posted(w, StoredId(w)) EXCEPT !.clean = FALSE]]
    /\ UNCHANGED <<row, posts, results, events, history>>

\* A send fails, perhaps after Telegram has posted the message: the refresh
\* gives up and the ids it already has are not saved.
SendFails(w) ==
    /\ Fault
    /\ At(w, "post")
    /\ ~Found(StoredId(w))
    /\ SendMessage(Turn(w), job[w].g.stats, Text(w)) \/ UNCHANGED posts
    /\ job' = [Disturbed EXCEPT ![w] = NoJob]
    /\ UNCHANGED <<row, results, events, history>>

\* The read of /bot_register_group fails: any error counts as "not linked",
\* and a new row will be written, over that of a linked group too.
RegisterUnread(w) ==
    /\ Fault
    /\ At(w, "read")
    /\ job[w].cmd = "register"
    /\ job' = [Disturbed EXCEPT ![w] = [job[w] EXCEPT !.at = "write", !.clean = FALSE]]
    /\ UNCHANGED <<row, posts, results, events, history>>

\* Any other store call of the job fails or takes over 25 s, or the container
\* goes away: the rest of the job does not happen.
Abandon(w) ==
    /\ Fault
    /\ Busy(w)
    /\ job' = [Disturbed EXCEPT ![w] = NoJob]
    /\ UNCHANGED <<row, posts, results, events, history>>

\* Someone deletes a message of the bot by hand.
DeletedByHand(id) ==
    /\ Fault
    /\ Found(id)
    /\ DeleteMessage(id)
    /\ job' = Disturbed
    /\ UNCHANGED <<row, results, events, history>>

-----------------------------------------------------------------------------
(* Specification *)

Step(w) ==
    \/ ReadRow(w) \/ BotRegisterGroup(w) \/ SetMatchesTopic(w) \/ SetStatsTopic(w)
    \/ CountResult(w) \/ Render(w) \/ SweepOrphans(w) \/ UpsertByEdit(w) \/ UpsertBySend(w)
    \/ SaveRow(w)

Next ==
    \/ \E w \in Workers :
          \/ \E cmd \in Commands, t \in Topics : Receive(w, cmd, t)
          \/ Step(w)
          \/ EditFails(w) \/ SendFails(w) \/ RegisterUnread(w) \/ Abandon(w)
    \/ \E id \in DOMAIN posts : DeletedByHand(id)

Spec == Init /\ [][Next]_vars

-----------------------------------------------------------------------------
(* Properties *)

\* The ids in a copy g of the row are those of messages of their own kind, in
\* the stats topic that the copy names.
OwnMessages(g, ps) ==
    g # NoRow =>
        \A k \in KindSet : g.ids[k] # 0 =>
            /\ g.ids[k] \in DOMAIN ps
            /\ ps[g.ids[k]].kind = k
            /\ ps[g.ids[k]].topic = g.stats

\* Whatever overlaps or fails, an id in the row is that of a message of its own
\* kind in the row's own stats topic: no refresh ever writes one table over
\* another, or updates a topic that is no longer the stats topic.
NamesOwnMessages == OwnMessages(row, posts)

\* The three messages on record are there and count every result.
StatsCurrent ==
    \A k \in KindSet : Found(row.ids[k]) /\ posts[row.ids[k]].shows = results

\* Missed, overtaken, failed and duplicated refreshes, deleted messages and
\* lost ids all heal "on the next event": a refresh that runs undisturbed
\* leaves the three messages in place and up to date
\* (detachedRefreshStatsTopic).
SelfHeals ==
    [][\A w \in Workers :
          job[w] # NoJob /\ job[w].clean /\ SaveRow(w) => StatsCurrent']_vars

\* What the bot last said of a topic is what the row holds: where
\* /set_..._topic put it, or nothing after a /bot_register_group that linked
\* the group afresh (its read may have failed, then the group loses both topics
\* and is told to set them).  Refreshes, failures, lost containers and
\* /bot_register_group in a linked group never undo it; the one thing that does
\* is a job that read the row before the report and writes its copy back after.
ReportedTopicsKept ==
    row # NoRow => \A s \in Settings : ~upset[s] => row[s] = told[s]

=============================================================================
