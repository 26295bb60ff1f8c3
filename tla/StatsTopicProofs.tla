-------------------------- MODULE StatsTopicProofs --------------------------
(***************************************************************************)
(* Proofs about the group's row and its three messages, for any number of  *)
(* overlapping jobs, topics, events and faults: the row only names its own *)
(* messages, an undisturbed refresh repairs them, a topic stays as it was  *)
(* reported unless an older copy of the row is written over it, and the    *)
(* messages are bounded by the updates served.                             *)
(***************************************************************************)
EXTENDS StatsTopic, SequenceTheorems, FiniteSetTheorems, TLAPS

-----------------------------------------------------------------------------
(* The inductive invariant *)

\* The types of messages and jobs without their bounds.
AnyPost == [topic : Topics \cup {0}, kind : KindSet \cup {"legacy"}, shows : Nat, live : BOOLEAN]

AnyJob == [at : {"read", "write", "render", "sweep", "post", "save"}, cmd : Commands,
           topic : Topics, g : Rows \cup {NoRow}, texts : Seq(Nat), sent : 0..3,
           dirty : BOOLEAN, clean : BOOLEAN]

\* What a job has at each step: a row to work on from the moment it needs one,
\* and one text per message once all are rendered.
InStep(j) ==
    /\ j.at \in {"render", "sweep", "post", "save"} => j.g \in Rows
    /\ j.at = "write" /\ j.cmd \in {"matches", "stats"} => j.g \in Rows
    /\ j.at \in {"sweep", "post"} => Len(j.texts) = 3
    /\ j.at = "render" => Len(j.texts) <= 2
    /\ j.at = "post" => j.sent <= 2
    /\ j.at \notin {"post", "save"} => j.sent = 0
    /\ j.at \in {"read", "write"} => j.texts = <<>>

GoodJob(j, ps) == j \in AnyJob /\ InStep(j) /\ OwnMessages(j.g, ps)

\* A refresh writes its copy back, so the copies must be right as well.
GoodJobs(f, ps) ==
    /\ f \in [Workers -> AnyJob \cup {NoJob}]
    /\ \A w \in Workers : f[w] # NoJob => GoodJob(f[w], ps)

Inv ==
    /\ row \in Rows \cup {NoRow}
    /\ posts \in Seq(AnyPost)
    /\ results \in Nat
    /\ NamesOwnMessages
    /\ GoodJobs(job, posts)

\* Messages are never moved to another topic or turned into another kind.
Kept(ps, qs) ==
    \A i \in DOMAIN ps :
        i \in DOMAIN qs /\ qs[i].kind = ps[i].kind /\ qs[i].topic = ps[i].topic

-----------------------------------------------------------------------------
(* Lemmas *)

LEMMA OwnKept ==
    ASSUME NEW g, NEW ps, NEW qs, OwnMessages(g, ps), Kept(ps, qs)
    PROVE  OwnMessages(g, qs)
BY DEF OwnMessages, Kept

LEMMA JobsKept ==
    ASSUME NEW f, NEW ps, NEW qs, GoodJobs(f, ps), Kept(ps, qs)
    PROVE  GoodJobs(f, qs)
BY OwnKept DEF GoodJobs, GoodJob

LEMMA JobsUpdated ==
    ASSUME NEW f, NEW ps, GoodJobs(f, ps), NEW w \in Workers,
           NEW j, j = NoJob \/ GoodJob(j, ps)
    PROVE  GoodJobs([f EXCEPT ![w] = j], ps)
BY DEF GoodJobs, GoodJob

LEMMA JobDisturbed ==
    ASSUME NEW ps, NEW j, GoodJob(j, ps)
    PROVE  GoodJob([j EXCEPT !.clean = FALSE], ps)
<1>1. [j EXCEPT !.clean = FALSE] \in AnyJob
  BY DEF GoodJob, AnyJob
<1>2. [j EXCEPT !.clean = FALSE].g = j.g
  BY DEF GoodJob, AnyJob
<1>3. InStep([j EXCEPT !.clean = FALSE])
  BY DEF GoodJob, AnyJob, InStep
<1> QED
  BY <1>1, <1>2, <1>3 DEF GoodJob

LEMMA JobsDisturbed ==
    ASSUME NEW ps, GoodJobs(job, ps)
    PROVE  GoodJobs(Disturbed, ps)
<1>1. \A w \in Workers : Disturbed[w] # NoJob => GoodJob(Disturbed[w], ps)
  BY JobDisturbed DEF Disturbed, Busy, GoodJobs
<1>2. \A w \in Workers : Disturbed[w] \in AnyJob \cup {NoJob}
  BY <1>1 DEF GoodJob
<1> QED
  BY <1>1, <1>2 DEF GoodJobs, Disturbed

\* Telegram's answers to the three calls.
LEMMA SendKeeps ==
    ASSUME posts \in Seq(AnyPost), NEW k \in KindSet, NEW t \in Topics \cup {0}, NEW n \in Nat,
           SendMessage(k, t, n)
    PROVE  /\ posts' \in Seq(AnyPost)
           /\ Kept(posts, posts')
           /\ Len(posts) + 1 \in DOMAIN posts'
           /\ posts'[Len(posts) + 1].kind = k
           /\ posts'[Len(posts) + 1].topic = t
<1> DEFINE e == [topic |-> t, kind |-> k, shows |-> n, live |-> TRUE]
<1>1. e \in AnyPost
  BY DEF AnyPost
<1>2. posts' = Append(posts, e)
  BY DEF SendMessage
<1>3. e.kind = k /\ e.topic = t
  OBVIOUS
<1> HIDE DEF e
<1> QED
  BY <1>1, <1>2, <1>3 DEF Kept

LEMMA EditKeeps ==
    ASSUME posts \in Seq(AnyPost), NEW id, Found(id), NEW n \in Nat, EditMessage(id, n)
    PROVE  posts' \in Seq(AnyPost) /\ Kept(posts, posts')
<1>1. id \in 1..Len(posts) /\ posts[id] \in AnyPost
  BY DEF Found
<1>2. [posts[id] EXCEPT !.shows = n] \in AnyPost
  BY <1>1 DEF AnyPost
<1>3. posts' = [posts EXCEPT ![id] = [posts[id] EXCEPT !.shows = n]]
  BY DEF EditMessage
<1>4. posts' \in Seq(AnyPost)
  BY <1>1, <1>2, <1>3, ExceptSeq
<1>5. \A i \in DOMAIN posts : posts[i] \in AnyPost
  OBVIOUS
<1>6. Kept(posts, posts')
  BY <1>3, <1>5 DEF Kept, AnyPost
<1> QED
  BY <1>4, <1>6

LEMMA DeleteKeeps ==
    ASSUME posts \in Seq(AnyPost), NEW id, DeleteMessage(id)
    PROVE  posts' \in Seq(AnyPost) /\ Kept(posts, posts')
<1>1. CASE id \in 1..Len(posts)
  <2>1. posts[id] \in AnyPost
    BY <1>1
  <2>2. [posts[id] EXCEPT !.live = FALSE] \in AnyPost
    BY <2>1 DEF AnyPost
  <2>3. posts' = [posts EXCEPT ![id] = [posts[id] EXCEPT !.live = FALSE]]
    BY DEF DeleteMessage
  <2>4. posts' \in Seq(AnyPost)
    BY <1>1, <2>2, <2>3, ExceptSeq
  <2>5. \A i \in DOMAIN posts : posts[i] \in AnyPost
    OBVIOUS
  <2>6. Kept(posts, posts')
    BY <2>3, <2>5 DEF Kept, AnyPost
  <2> QED
    BY <2>4, <2>6
<1>2. CASE id \notin 1..Len(posts)
  <2>1. DOMAIN posts = 1..Len(posts) /\ posts = [i \in 1..Len(posts) |-> posts[i]]
    OBVIOUS
  <2>2. posts' = posts
    BY <1>2, <2>1 DEF DeleteMessage
  <2> QED
    BY <2>2 DEF Kept
<1> QED
  BY <1>1, <1>2

LEMMA BusyJob ==
    ASSUME Inv, NEW w \in Workers, Busy(w)
    PROVE  GoodJob(job[w], posts)
BY DEF Inv, GoodJobs, Busy

LEMMA FinishGood ==
    ASSUME Inv, NEW w \in Workers, Finish(w)
    PROVE  GoodJobs(job', posts)
BY JobsUpdated DEF Inv, Finish

\* A job goes on with the same row and texts, at a step that needs no more.
LEMMA RefreshGood ==
    ASSUME Inv, NEW w \in Workers, At(w, "write"), NEW g, g \in Rows \cup {NoRow},
           OwnMessages(g, posts), Refresh(w, g)
    PROVE  GoodJobs(job', posts)
<1> DEFINE j == [job[w] EXCEPT !.at = "render", !.g = g]
<1>1. GoodJob(job[w], posts)
  BY BusyJob DEF At
<1>2. ASSUME FullyConfigured(g)
      PROVE  GoodJob(j, posts)
  <2>1. g \in Rows
    BY <1>2 DEF FullyConfigured
  <2>2. j \in AnyJob /\ j.g = g
    BY <1>1 DEF GoodJob, AnyJob
  <2>3. job[w].texts = <<>> /\ job[w].sent = 0
    BY <1>1 DEF GoodJob, InStep, At
  <2>4. InStep(j)
    BY <1>1, <2>1, <2>3 DEF GoodJob, InStep, AnyJob
  <2> QED
    BY <2>2, <2>4 DEF GoodJob
<1>3. job' = [job EXCEPT ![w] = IF FullyConfigured(g) THEN j ELSE NoJob]
  BY DEF Refresh
<1> HIDE DEF j
<1> QED
  BY <1>2, <1>3, JobsUpdated DEF Inv

\* The end of a turn, with the id of a message that is there.
LEMMA PostedGood ==
    ASSUME Inv, NEW w \in Workers, At(w, "post"), NEW id \in Nat, NEW ps,
           Kept(posts, ps),
           id # 0 => /\ id \in DOMAIN ps
                     /\ ps[id].kind = Turn(w)
                     /\ ps[id].topic = job[w].g.stats
    PROVE  GoodJob(Posted(w, id), ps)
<1> DEFINE j == job[w]
           h == [j.g EXCEPT !.ids[Turn(w)] = id]
<1>1. j \in AnyJob /\ InStep(j) /\ OwnMessages(j.g, posts)
  BY BusyJob DEF At, GoodJob
<1>2. j.g \in Rows /\ j.sent \in 0..2 /\ Len(j.texts) = 3
  BY <1>1 DEF InStep, AnyJob, At
<1>3. Turn(w) \in KindSet
  BY <1>2 DEF Turn, Kinds, KindSet
<1>4. h \in Rows /\ h.stats = j.g.stats
  BY <1>2 DEF Rows
<1>5. \A k \in KindSet : h.ids[k] = IF k = Turn(w) THEN id ELSE j.g.ids[k]
  BY <1>2, <1>3 DEF Rows
<1>6. OwnMessages(j.g, ps)
  BY <1>1, OwnKept
<1>7. OwnMessages(h, ps)
  BY <1>2, <1>3, <1>4, <1>5, <1>6, StatsTopicAssumption DEF OwnMessages
<1>8. /\ Posted(w, id) \in AnyJob
      /\ Posted(w, id).g = h
      /\ Posted(w, id).at = IF j.sent = 2 THEN "save" ELSE "post"
      /\ Posted(w, id).sent = j.sent + 1
      /\ Posted(w, id).texts = j.texts
  <2> DEFINE d == j.dirty \/ id # StoredId(w)
             a == IF j.sent = 2 THEN "save" ELSE "post"
  <2>1. d \in BOOLEAN /\ a \in {"save", "post"} /\ j.sent + 1 \in 0..3
    BY <1>2
  <2>2. Posted(w, id) = [j EXCEPT !.sent = j.sent + 1, !.g = h, !.dirty = d, !.at = a]
    BY <1>1 DEF AnyJob, Posted
  <2> HIDE DEF d, a, h
  <2> QED
    BY <1>1, <1>4, <2>1, <2>2 DEF AnyJob, a
<1>9. InStep(Posted(w, id))
  BY <1>2, <1>4, <1>8 DEF InStep
<1> QED
  BY <1>7, <1>8, <1>9 DEF GoodJob

-----------------------------------------------------------------------------
(* The steps *)

LEMMA CommandSteps ==
    ASSUME Inv, NEW w \in Workers,
           \/ \E cmd \in Commands, t \in Topics : Receive(w, cmd, t)
           \/ ReadRow(w) \/ BotRegisterGroup(w) \/ SetMatchesTopic(w) \/ SetStatsTopic(w)
           \/ CountResult(w)
    PROVE  Inv'
<1>1. ASSUME NEW cmd \in Commands, NEW t \in Topics, Receive(w, cmd, t)
      PROVE  Inv'
  <2> DEFINE alone == \A v \in Workers : ~Busy(v)
             j == [at |-> "read", cmd |-> cmd, topic |-> t, g |-> NoRow, texts |-> <<>>,
                   sent |-> 0, dirty |-> FALSE, clean |-> alone]
  <2>1. GoodJob(j, posts)
    <3>1. alone \in BOOLEAN
      BY Zenon
    <3> HIDE DEF alone
    <3> QED
      BY <3>1 DEF GoodJob, AnyJob, InStep, OwnMessages
  <2>2. job' = [Disturbed EXCEPT ![w] = j] /\ UNCHANGED <<row, posts, results>>
    BY <1>1 DEF Receive
  <2> HIDE DEF j
  <2>3. GoodJobs(job', posts)
    BY <2>1, <2>2, JobsDisturbed, JobsUpdated DEF Inv
  <2> QED
    BY <2>2, <2>3 DEF Inv, NamesOwnMessages
<1>2. CASE ReadRow(w)
  <2> DEFINE j == [job[w] EXCEPT !.at = "write", !.g = row]
             ends == row = NoRow /\ job[w].cmd # "register"
  <2>1. GoodJob(job[w], posts)
    BY <1>2, BusyJob DEF ReadRow, At
  <2>2. ASSUME ~ends
        PROVE  GoodJob(j, posts)
    <3>1. j \in AnyJob /\ j.g = row
      BY <2>1 DEF GoodJob, AnyJob, Inv
    <3>2. job[w].texts = <<>> /\ job[w].sent = 0
      BY <1>2, <2>1 DEF GoodJob, InStep, ReadRow, At
    <3>3. j.cmd \in {"matches", "stats"} => row \in Rows
      BY <2>1, <2>2 DEF Inv, GoodJob, AnyJob
    <3>4. InStep(j)
      BY <2>1, <3>1, <3>2, <3>3 DEF GoodJob, InStep, AnyJob
    <3> QED
      BY <3>1, <3>4 DEF GoodJob, Inv, NamesOwnMessages
  <2>3. job' = [job EXCEPT ![w] = IF ends THEN NoJob ELSE j] /\ UNCHANGED <<row, posts, results>>
    BY <1>2 DEF ReadRow
  <2> HIDE DEF j, ends
  <2>4. GoodJobs(job', posts)
    BY <2>2, <2>3, JobsUpdated DEF Inv
  <2> QED
    BY <2>3, <2>4 DEF Inv, NamesOwnMessages
<1>3. CASE BotRegisterGroup(w)
  <2>1. GoodJob(job[w], posts)
    BY <1>3, BusyJob DEF BotRegisterGroup, At
  <2>2. NewRow \in Rows /\ OwnMessages(NewRow, posts)
    BY DEF NewRow, Rows, OwnMessages
  <2>3. row' \in Rows \cup {NoRow} /\ OwnMessages(row', posts)
    BY <1>3, <2>1, <2>2 DEF BotRegisterGroup, Upsert, GoodJob, AnyJob
  <2>4. GoodJobs(job', posts)
    BY <1>3, FinishGood DEF BotRegisterGroup
  <2> QED
    BY <1>3, <2>3, <2>4 DEF BotRegisterGroup, Inv, NamesOwnMessages
<1>4. CASE SetMatchesTopic(w)
  <2> DEFINE g == job[w].g
  <2>1. g \in Rows /\ OwnMessages(g, posts) /\ job[w].topic \in Topics
    BY <1>4, BusyJob DEF SetMatchesTopic, At, GoodJob, InStep, AnyJob
  <2>2. row' = [g EXCEPT !.matches = job[w].topic]
    BY <1>4 DEF SetMatchesTopic, Upsert
  <2>3. row' \in Rows /\ row'.ids = g.ids /\ row'.stats = g.stats
    BY <2>1, <2>2 DEF Rows
  <2>4. OwnMessages(row', posts)
    BY <2>1, <2>3, StatsTopicAssumption DEF OwnMessages
  <2>5. GoodJobs(job', posts)
    BY <1>4, FinishGood DEF SetMatchesTopic
  <2> QED
    BY <1>4, <2>3, <2>4, <2>5 DEF SetMatchesTopic, Inv, NamesOwnMessages
<1>5. CASE SetStatsTopic(w)
  <2> DEFINE g == job[w].g
  <2>1. g \in Rows /\ job[w].topic \in Topics
    BY <1>5, BusyJob DEF SetStatsTopic, At, GoodJob, InStep, AnyJob
  <2>2. row' = [g EXCEPT !.stats = job[w].topic, !.ids = NewRow.ids]
    BY <1>5 DEF SetStatsTopic, Upsert
  <2>3. NewRow.ids \in [KindSet -> Nat] /\ \A k \in KindSet : NewRow.ids[k] = 0
    BY DEF NewRow
  <2>4. row' \in Rows /\ row'.ids = NewRow.ids
    BY <2>1, <2>2, <2>3 DEF Rows
  <2>5. OwnMessages(row', posts)
    BY <2>3, <2>4 DEF OwnMessages
  <2>6. At(w, "write") /\ Refresh(w, row') /\ UNCHANGED <<posts, results>>
    BY <1>5 DEF SetStatsTopic
  <2>7. GoodJobs(job', posts)
    BY <2>4, <2>5, <2>6, RefreshGood
  <2> QED
    BY <2>4, <2>5, <2>6, <2>7 DEF Inv, NamesOwnMessages
<1>6. CASE CountResult(w)
  <2>1. GoodJob(job[w], posts)
    BY <1>6, BusyJob DEF CountResult, At
  <2>2. job[w].g \in Rows \cup {NoRow} /\ OwnMessages(job[w].g, posts)
    BY <2>1 DEF GoodJob, AnyJob
  <2>3. GoodJobs(job', posts)
    BY <1>6, <2>2, RefreshGood DEF CountResult
  <2> QED
    BY <1>6, <2>3 DEF CountResult, Inv, NamesOwnMessages
<1> QED
  BY <1>1, <1>2, <1>3, <1>4, <1>5, <1>6

\* What a job that posts a message works on.
LEMMA PostingJob ==
    ASSUME Inv, NEW w \in Workers, At(w, "post")
    PROVE  /\ job[w].g \in Rows /\ OwnMessages(job[w].g, posts)
           /\ Turn(w) \in KindSet
           /\ Text(w) \in Nat
           /\ StoredId(w) \in Nat
           /\ StoredId(w) # 0 => /\ StoredId(w) \in DOMAIN posts
                                 /\ posts[StoredId(w)].kind = Turn(w)
                                 /\ posts[StoredId(w)].topic = job[w].g.stats
<1>1. job[w] \in AnyJob /\ InStep(job[w]) /\ OwnMessages(job[w].g, posts)
  BY BusyJob DEF At, GoodJob
<1>2. job[w].g \in Rows /\ job[w].sent \in 0..2 /\ Len(job[w].texts) = 3
  BY <1>1 DEF InStep, AnyJob, At
<1>3. Turn(w) \in KindSet
  BY <1>2 DEF Turn, Kinds, KindSet
<1>4. Text(w) \in Nat
  BY <1>1, <1>2 DEF Text, AnyJob
<1>5. StoredId(w) \in Nat
  BY <1>2, <1>3 DEF StoredId, Rows
<1>6. StoredId(w) # 0 => /\ StoredId(w) \in DOMAIN posts
                         /\ posts[StoredId(w)].kind = Turn(w)
                         /\ posts[StoredId(w)].topic = job[w].g.stats
  BY <1>1, <1>2, <1>3, StatsTopicAssumption DEF OwnMessages, StoredId
<1> QED
  BY <1>1, <1>2, <1>3, <1>4, <1>5, <1>6

\* A turn that posts a message.
LEMMA TurnSends ==
    ASSUME Inv, NEW w \in Workers, At(w, "post"),
           SendMessage(Turn(w), job[w].g.stats, Text(w))
    PROVE  /\ posts' \in Seq(AnyPost)
           /\ Kept(posts, posts')
           /\ GoodJob(Posted(w, Len(posts) + 1), posts')
<1>1. job[w].g.stats \in Topics \cup {0}
  BY PostingJob DEF Rows
<1>2. posts \in Seq(AnyPost) /\ Len(posts) + 1 \in Nat
  BY DEF Inv
<1>3. Turn(w) \in KindSet /\ Text(w) \in Nat
  BY PostingJob
<1>4. /\ posts' \in Seq(AnyPost)
      /\ Kept(posts, posts')
      /\ Len(posts) + 1 \in DOMAIN posts'
      /\ posts'[Len(posts) + 1].kind = Turn(w)
      /\ posts'[Len(posts) + 1].topic = job[w].g.stats
  BY <1>1, <1>2, <1>3, SendKeeps
<1> QED
  BY <1>2, <1>4, PostedGood

LEMMA RefreshSteps ==
    ASSUME Inv, NEW w \in Workers,
           Render(w) \/ SweepOrphans(w) \/ UpsertByEdit(w) \/ UpsertBySend(w) \/ SaveRow(w)
    PROVE  Inv'
<1>1. CASE Render(w)
  <2> DEFINE texts == Append(job[w].texts, results)
             at == IF Len(texts) = 3 THEN "sweep" ELSE "render"
             j == [job[w] EXCEPT !.texts = texts, !.at = at]
  <2>1. job[w] \in AnyJob /\ InStep(job[w]) /\ OwnMessages(job[w].g, posts)
    BY <1>1, BusyJob DEF Render, At, GoodJob
  <2>2. job[w].g \in Rows /\ Len(job[w].texts) <= 2 /\ job[w].sent = 0
    BY <1>1, <2>1 DEF Render, At, InStep
  <2>3. texts \in Seq(Nat) /\ Len(texts) <= 3
    BY <2>1, <2>2 DEF Inv, AnyJob
  <2>4. \/ at = "sweep" /\ Len(texts) = 3
        \/ at = "render" /\ Len(texts) <= 2
    <3>1. \A n \in Nat : n <= 3 => n = 3 \/ (n # 3 /\ n <= 2)
      OBVIOUS
    <3>2. Len(texts) \in Nat
      BY <2>3, LenProperties
    <3>3. Len(texts) = 3 \/ (Len(texts) # 3 /\ Len(texts) <= 2)
      BY <2>3, <3>1, <3>2, Zenon
    <3> QED
      BY <3>3, Zenon
  <2>5. job' = [job EXCEPT ![w] = j] /\ UNCHANGED <<row, posts, results>>
    BY <1>1 DEF Render, Inv, GoodJobs
  <2> HIDE DEF texts, at
  <2>6. j \in AnyJob /\ j.g = job[w].g /\ j.texts = texts /\ j.at = at /\ j.sent = job[w].sent
    BY <2>1, <2>3, <2>4 DEF AnyJob
  <2> HIDE DEF j
  <2>7. GoodJob(j, posts)
    BY <2>1, <2>2, <2>4, <2>6 DEF GoodJob, InStep
  <2>8. GoodJobs(job', posts)
    BY <2>5, <2>7, JobsUpdated DEF Inv
  <2> QED
    BY <2>5, <2>8 DEF Inv, NamesOwnMessages
<1>2. CASE SweepOrphans(w)
  <2> DEFINE d == job[w].g.legacy # 0
             h == [job[w].g EXCEPT !.legacy = 0]
             j == [job[w] EXCEPT !.at = "post", !.g = h, !.dirty = d]
  <2>1. job[w] \in AnyJob /\ InStep(job[w]) /\ OwnMessages(job[w].g, posts)
    BY <1>2, BusyJob DEF SweepOrphans, At, GoodJob
  <2>2. job[w].g \in Rows /\ Len(job[w].texts) = 3 /\ job[w].sent = 0
    BY <1>2, <2>1 DEF SweepOrphans, At, InStep
  <2>3. posts' \in Seq(AnyPost) /\ Kept(posts, posts')
    BY <1>2, DeleteKeeps DEF SweepOrphans, Inv, Kept
  <2>4. h \in Rows /\ h.ids = job[w].g.ids /\ h.stats = job[w].g.stats
    BY <2>2 DEF Rows
  <2>5. OwnMessages(h, posts')
    <3> HIDE DEF h
    <3>1. OwnMessages(job[w].g, posts')
      BY <2>1, <2>3, OwnKept
    <3> QED
      BY <2>2, <2>4, <3>1, StatsTopicAssumption DEF OwnMessages
  <2>6. job' = [job EXCEPT ![w] = j] /\ UNCHANGED <<row, results>>
    BY <1>2, <2>1, <2>2 DEF SweepOrphans, Inv, GoodJobs, AnyJob
  <2>7. d \in BOOLEAN
    OBVIOUS
  <2> HIDE DEF d, h
  <2>8. j \in AnyJob /\ j.g = h /\ j.at = "post" /\ j.texts = job[w].texts /\ j.sent = job[w].sent
    BY <2>1, <2>4, <2>7 DEF AnyJob
  <2> HIDE DEF j
  <2>9. GoodJob(j, posts')
    BY <2>2, <2>4, <2>5, <2>8 DEF GoodJob, InStep
  <2>10. GoodJobs(job', posts')
    BY <2>3, <2>6, <2>9, JobsKept, JobsUpdated DEF Inv
  <2> QED
    BY <2>3, <2>6, <2>10, OwnKept DEF Inv, NamesOwnMessages
<1>3. CASE UpsertByEdit(w)
  <2>1. At(w, "post") /\ Found(StoredId(w)) /\ EditMessage(StoredId(w), Text(w))
    BY <1>3 DEF UpsertByEdit
  <2>2. posts' \in Seq(AnyPost) /\ Kept(posts, posts')
    BY <2>1, PostingJob, EditKeeps DEF Inv
  <2>3. GoodJob(Posted(w, StoredId(w)), posts')
    BY <2>1, <2>2, PostingJob, PostedGood DEF Kept
  <2>4. GoodJobs(job', posts')
    BY <1>3, <2>2, <2>3, JobsKept, JobsUpdated DEF Inv, UpsertByEdit
  <2> QED
    BY <1>3, <2>2, <2>4, OwnKept DEF UpsertByEdit, Inv, NamesOwnMessages
<1>4. CASE UpsertBySend(w)
  <2>1. /\ posts' \in Seq(AnyPost) /\ Kept(posts, posts')
        /\ GoodJob(Posted(w, Len(posts) + 1), posts')
    BY <1>4, TurnSends DEF UpsertBySend
  <2>2. GoodJobs(job', posts')
    BY <1>4, <2>1, JobsKept, JobsUpdated DEF Inv, UpsertBySend
  <2> QED
    BY <1>4, <2>1, <2>2, OwnKept DEF UpsertBySend, Inv, NamesOwnMessages
<1>5. CASE SaveRow(w)
  <2>1. job[w].g \in Rows /\ OwnMessages(job[w].g, posts)
    BY <1>5, BusyJob DEF SaveRow, At, GoodJob, InStep
  <2>2. row' \in Rows \cup {NoRow} /\ OwnMessages(row', posts)
    BY <1>5, <2>1 DEF SaveRow, Upsert, Inv, NamesOwnMessages
  <2>3. GoodJobs(job', posts)
    BY <1>5, FinishGood DEF SaveRow
  <2> QED
    BY <1>5, <2>2, <2>3 DEF SaveRow, Inv, NamesOwnMessages
<1> QED
  BY <1>1, <1>2, <1>3, <1>4, <1>5

\* A failing call ends its own turn or its own job, and no message changes its
\* topic or its kind.
LEMMA FaultSteps ==
    ASSUME Inv, NEW w \in Workers, EditFails(w) \/ SendFails(w) \/ RegisterUnread(w) \/ Abandon(w)
    PROVE  Inv'
<1>1. CASE EditFails(w)
  <2> DEFINE j == [Posted(w, StoredId(w)) EXCEPT !.clean = FALSE]
  <2>1. At(w, "post")
    BY <1>1 DEF EditFails
  <2>2. GoodJob(Posted(w, StoredId(w)), posts)
    BY <2>1, PostingJob, PostedGood DEF Kept
  <2>3. GoodJob(j, posts)
    BY <2>2, JobDisturbed
  <2>4. job' = [Disturbed EXCEPT ![w] = j] /\ UNCHANGED <<row, posts, results>>
    BY <1>1 DEF EditFails
  <2> HIDE DEF j
  <2>5. GoodJobs(job', posts)
    BY <2>3, <2>4, JobsDisturbed, JobsUpdated DEF Inv
  <2> QED
    BY <2>4, <2>5 DEF Inv, NamesOwnMessages
<1>2. CASE SendFails(w)
  <2>1. At(w, "post") /\ job' = [Disturbed EXCEPT ![w] = NoJob] /\ UNCHANGED <<row, results>>
    BY <1>2 DEF SendFails
  <2>2. posts' \in Seq(AnyPost) /\ Kept(posts, posts')
    <3>1. CASE SendMessage(Turn(w), job[w].g.stats, Text(w))
      BY <2>1, <3>1, TurnSends
    <3>2. CASE UNCHANGED posts
      BY <3>2 DEF Inv, Kept
    <3> QED
      BY <1>2, <3>1, <3>2 DEF SendFails
  <2>3. GoodJobs(job, posts')
    BY <2>2, JobsKept DEF Inv
  <2>4. GoodJobs(job', posts')
    BY <2>1, <2>3, JobsDisturbed, JobsUpdated
  <2> QED
    BY <2>1, <2>2, <2>4, OwnKept DEF Inv, NamesOwnMessages
<1>3. CASE Abandon(w)
  <2>1. job' = [Disturbed EXCEPT ![w] = NoJob] /\ UNCHANGED <<row, posts, results>>
    BY <1>3 DEF Abandon
  <2>2. GoodJobs(job', posts)
    BY <2>1, JobsDisturbed, JobsUpdated DEF Inv
  <2> QED
    BY <2>1, <2>2 DEF Inv, NamesOwnMessages
<1>4. CASE RegisterUnread(w)
  <2> DEFINE j == [job[w] EXCEPT !.at = "write", !.clean = FALSE]
  <2>1. GoodJob(job[w], posts) /\ job[w].at = "read" /\ job[w].cmd = "register"
    BY <1>4, BusyJob DEF RegisterUnread, At
  <2>2. j \in AnyJob /\ j.g = job[w].g
    BY <2>1 DEF GoodJob, AnyJob
  <2>3. InStep(j)
    BY <2>1 DEF GoodJob, AnyJob, InStep
  <2>4. GoodJob(j, posts)
    BY <2>1, <2>2, <2>3 DEF GoodJob
  <2>5. job' = [Disturbed EXCEPT ![w] = j] /\ UNCHANGED <<row, posts, results>>
    BY <1>4 DEF RegisterUnread
  <2> HIDE DEF j
  <2>6. GoodJobs(job', posts)
    BY <2>4, <2>5, JobsDisturbed, JobsUpdated DEF Inv
  <2> QED
    BY <2>5, <2>6 DEF Inv, NamesOwnMessages
<1> QED
  BY <1>1, <1>2, <1>3, <1>4

LEMMA HandSteps ==
    ASSUME Inv, NEW id, DeletedByHand(id)
    PROVE  Inv'
<1>1. job' = Disturbed /\ UNCHANGED <<row, results>>
  BY DEF DeletedByHand
<1>2. posts' \in Seq(AnyPost) /\ Kept(posts, posts')
  BY DeleteKeeps DEF DeletedByHand, Inv
<1>3. GoodJobs(job', posts')
  BY <1>1, <1>2, JobsKept, JobsDisturbed DEF Inv
<1> QED
  BY <1>1, <1>2, <1>3, OwnKept DEF Inv, NamesOwnMessages

-----------------------------------------------------------------------------
(* The theorem *)

LEMMA InitInv == Init => Inv
<1> SUFFICES ASSUME Init PROVE Inv
  OBVIOUS
<1>1. results \in Nat /\ GoodJobs(job, posts)
  BY DEF Init, GoodJobs
<1>2. CASE row = NoRow /\ posts = <<>>
  BY <1>1, <1>2 DEF Inv, NamesOwnMessages, OwnMessages
<1>3. ASSUME NEW t \in Topics, NEW u \in Topics,
             row = [NewRow EXCEPT !.matches = t, !.stats = u, !.legacy = 1],
             posts = <<[topic |-> u, kind |-> "legacy", shows |-> 0, live |-> TRUE]>>
      PROVE  Inv
  <2>1. NewRow \in Rows /\ \A k \in KindSet : NewRow.ids[k] = 0
    BY DEF NewRow, Rows
  <2>2. row \in Rows /\ row.ids = NewRow.ids
    BY <1>3, <2>1 DEF Rows
  <2>3. posts \in Seq(AnyPost)
    BY <1>3 DEF AnyPost
  <2>4. NamesOwnMessages
    BY <2>1, <2>2 DEF NamesOwnMessages, OwnMessages
  <2> QED
    BY <1>1, <2>2, <2>3, <2>4 DEF Inv
<1> QED
  BY <1>2, <1>3 DEF Init

LEMMA NextInv == Inv /\ [Next]_vars => Inv'
<1> SUFFICES ASSUME Inv, [Next]_vars PROVE Inv'
  OBVIOUS
<1>1. ASSUME NEW w \in Workers, Step(w)
      PROVE  Inv'
  BY <1>1, CommandSteps, RefreshSteps DEF Step
<1>2. ASSUME NEW w \in Workers, NEW cmd \in Commands, NEW t \in Topics, Receive(w, cmd, t)
      PROVE  Inv'
  BY <1>2, CommandSteps
<1>3. ASSUME NEW w \in Workers,
             EditFails(w) \/ SendFails(w) \/ RegisterUnread(w) \/ Abandon(w)
      PROVE  Inv'
  BY <1>3, FaultSteps
<1>4. CASE UNCHANGED vars
  BY <1>4 DEF vars, Inv, NamesOwnMessages
<1> QED
  BY <1>1, <1>2, <1>3, <1>4, HandSteps DEF Next

\* For any number of overlapping commands and detached refreshes, and any
\* number of failing calls, killed refreshes and deleted messages, the row
\* that refreshStatsTopic and the topic commands write names only messages of
\* its own stats topic, each of its own kind.
THEOREM OwnMessagesOnly == Spec => []NamesOwnMessages
<1>1. Inv => NamesOwnMessages
  BY DEF Inv
<1> QED
  BY <1>1, InitInv, NextInv, PTL DEF Spec

-----------------------------------------------------------------------------
(* What a step does to its job *)

LEMMA Replaced ==
    ASSUME Inv, NEW w \in Workers, NEW j, job' = [job EXCEPT ![w] = j]
    PROVE  job'[w] = j /\ \A v \in Workers : v # w => job'[v] = job[v]
BY DEF Inv, GoodJobs

LEMMA PostedFields ==
    ASSUME Inv, NEW w \in Workers, At(w, "post"), NEW id
    PROVE  /\ Posted(w, id).g = [job[w].g EXCEPT !.ids[Turn(w)] = id]
           /\ Posted(w, id).sent = job[w].sent + 1
           /\ Posted(w, id).texts = job[w].texts
           /\ Posted(w, id).clean = job[w].clean
           /\ Posted(w, id).dirty <=> (job[w].dirty \/ id # StoredId(w))
           /\ Posted(w, id).at = IF job[w].sent = 2 THEN "save" ELSE "post"
<1>1. PICK j \in AnyJob : j = job[w]
  BY BusyJob DEF At, GoodJob
<1> DEFINE d == j.dirty \/ id # StoredId(w)
           a == IF j.sent = 2 THEN "save" ELSE "post"
           h == [j.g EXCEPT !.ids[Turn(w)] = id]
<1>2. Posted(w, id) = [j EXCEPT !.sent = j.sent + 1, !.g = h, !.dirty = d, !.at = a]
  BY <1>1 DEF AnyJob, Posted
<1> HIDE DEF d, a, h
<1>3. /\ Posted(w, id).g = h /\ Posted(w, id).sent = j.sent + 1 /\ Posted(w, id).texts = j.texts
      /\ Posted(w, id).clean = j.clean /\ Posted(w, id).dirty = d /\ Posted(w, id).at = a
  BY <1>2 DEF AnyJob
<1> QED
  BY <1>1, <1>3 DEF d, a, h

\* A turn changes one id of the copy.
LEMMA TurnRow ==
    ASSUME Inv, NEW w \in Workers, At(w, "post"), NEW id \in Nat,
           NEW g, g = [job[w].g EXCEPT !.ids[Turn(w)] = id]
    PROVE  /\ g \in Rows /\ g.matches = job[w].g.matches /\ g.stats = job[w].g.stats
           /\ \A k \in KindSet : g.ids[k] = IF k = Turn(w) THEN id ELSE job[w].g.ids[k]
           /\ id = StoredId(w) => g = job[w].g
<1>1. PICK h \in Rows : h = job[w].g
  BY PostingJob
<1>2. Turn(w) \in KindSet
  BY PostingJob
<1>3. g = [h EXCEPT !.ids = [h.ids EXCEPT ![Turn(w)] = id]]
  BY <1>1
<1>4. h.ids \in [KindSet -> Nat]
  BY DEF Rows
<1>5. PICK ids \in [KindSet -> Nat] : ids = [h.ids EXCEPT ![Turn(w)] = id]
  BY <1>2, <1>4
<1>6. /\ \A k \in KindSet : ids[k] = IF k = Turn(w) THEN id ELSE h.ids[k]
      /\ id = h.ids[Turn(w)] => ids = h.ids
  BY <1>2, <1>4, <1>5
<1>7. g \in Rows /\ g.matches = h.matches /\ g.stats = h.stats /\ g.ids = ids
  BY <1>3, <1>5 DEF Rows
<1>8. ids = h.ids => g = h
  BY <1>3, <1>5 DEF Rows
<1> QED
  BY <1>1, <1>6, <1>7, <1>8 DEF StoredId

\* The copy of a handler that goes on to refresh.
LEMMA RefreshFields ==
    ASSUME Inv, NEW w \in Workers, At(w, "write"), NEW g, Refresh(w, g)
    PROVE  /\ \A v \in Workers : v # w => job'[v] = job[v]
           /\ Busy(w)' => /\ job'[w].at = "render" /\ job'[w].g = g /\ g # NoRow
                          /\ job'[w].texts = <<>> /\ job'[w].sent = 0
                          /\ job'[w].clean = job[w].clean
<1>1. job[w] \in AnyJob /\ job[w].texts = <<>> /\ job[w].sent = 0
  BY BusyJob DEF At, GoodJob, InStep
<1>2. CASE FullyConfigured(g)
  <2>1. job' = [job EXCEPT ![w] = [job[w] EXCEPT !.at = "render", !.g = g]] /\ g # NoRow
    BY <1>2 DEF Refresh, FullyConfigured
  <2>2. /\ job'[w] = [job[w] EXCEPT !.at = "render", !.g = g]
        /\ \A v \in Workers : v # w => job'[v] = job[v]
    BY <2>1, Replaced
  <2>3. job'[w].at = "render" /\ job'[w].g = g
    BY <1>1, <2>2 DEF AnyJob
  <2>4. /\ job'[w].texts = job[w].texts /\ job'[w].sent = job[w].sent
        /\ job'[w].clean = job[w].clean
    BY <1>1, <2>2 DEF AnyJob
  <2> QED
    BY <1>1, <2>1, <2>2, <2>3, <2>4
<1>3. CASE ~FullyConfigured(g)
  <2>1. job' = [job EXCEPT ![w] = NoJob]
    BY <1>3 DEF Refresh
  <2>2. job'[w] = NoJob /\ \A v \in Workers : v # w => job'[v] = job[v]
    BY <2>1, Replaced
  <2> QED
    BY <2>2 DEF Busy
<1> QED
  BY <1>2, <1>3

\* A refresh goes on to its next step.
LEMMA ReadFields ==
    ASSUME Inv, NEW w \in Workers, ReadRow(w)
    PROVE  /\ \A v \in Workers : v # w => job'[v] = job[v]
           /\ Busy(w)' => /\ job'[w].at = "write" /\ job'[w].g = row
                          /\ job'[w].texts = <<>> /\ job'[w].clean = job[w].clean
<1>1. job[w] \in AnyJob /\ job[w].texts = <<>>
  BY BusyJob DEF ReadRow, At, GoodJob, InStep
<1>2. PICK j \in {NoJob, [job[w] EXCEPT !.at = "write", !.g = row]} : job' = [job EXCEPT ![w] = j]
  BY DEF ReadRow
<1>3. job'[w] = j /\ \A v \in Workers : v # w => job'[v] = job[v]
  BY <1>2, Replaced
<1> QED
  BY <1>1, <1>3 DEF AnyJob, Busy

LEMMA RenderFields ==
    ASSUME Inv, NEW w \in Workers, Render(w)
    PROVE  /\ \A v \in Workers : v # w => job'[v] = job[v]
           /\ job'[w].at \in {"render", "sweep"} /\ job'[w].g = job[w].g
           /\ job'[w].texts = Append(job[w].texts, results)
           /\ job'[w].clean = job[w].clean
<1>1. job[w] \in AnyJob
  BY BusyJob DEF Render, At, GoodJob
<1> DEFINE texts == Append(job[w].texts, results)
<1>2. PICK at \in {"render", "sweep"} :
          job' = [job EXCEPT ![w] = [job[w] EXCEPT !.texts = texts, !.at = at]]
  <2>1. CASE Len(texts) = 3
    BY <2>1 DEF Render
  <2>2. CASE Len(texts) # 3
    BY <2>2 DEF Render
  <2> QED
    BY <2>1, <2>2
<1> HIDE DEF texts
<1>3. /\ job'[w] = [job[w] EXCEPT !.texts = texts, !.at = at]
      /\ \A v \in Workers : v # w => job'[v] = job[v]
  BY <1>2, Replaced
<1> QED
  BY <1>1, <1>3 DEF AnyJob, texts

LEMMA SweepFields ==
    ASSUME Inv, NEW w \in Workers, SweepOrphans(w)
    PROVE  /\ \A v \in Workers : v # w => job'[v] = job[v]
           /\ job'[w].at = "post" /\ job'[w].g \in Rows
           /\ job'[w].g.matches = job[w].g.matches /\ job'[w].g.stats = job[w].g.stats
           /\ ~job'[w].dirty => job'[w].g = job[w].g
           /\ job'[w].texts = job[w].texts /\ job'[w].sent = 0
           /\ job'[w].clean = job[w].clean
<1>1. job[w] \in AnyJob /\ job[w].g \in Rows /\ job[w].sent = 0
  BY BusyJob DEF SweepOrphans, At, GoodJob, InStep
<1>2. PICK h \in Rows : h = [job[w].g EXCEPT !.legacy = 0]
  BY <1>1 DEF Rows
<1>3. /\ h.matches = job[w].g.matches /\ h.stats = job[w].g.stats
      /\ job[w].g.legacy = 0 => h = job[w].g
  BY <1>1, <1>2 DEF Rows
<1>4. PICK d \in BOOLEAN : d = (job[w].g.legacy # 0)
  OBVIOUS
<1>5. job' = [job EXCEPT ![w] = [job[w] EXCEPT !.at = "post", !.g = h, !.dirty = d]]
  BY <1>2, <1>4 DEF SweepOrphans
<1>6. /\ job'[w] = [job[w] EXCEPT !.at = "post", !.g = h, !.dirty = d]
      /\ \A v \in Workers : v # w => job'[v] = job[v]
  BY <1>5, Replaced
<1> QED
  BY <1>1, <1>3, <1>4, <1>6 DEF AnyJob

-----------------------------------------------------------------------------
(* An undisturbed refresh *)

\* No other job is under way.
Sole(w) == \A v \in Workers : Busy(v) => v = w

\* The message is there and counts every result.
Shown(id) == Found(id) /\ posts[id].shows = results

\* The job's copy is the row, unless it is to be saved; the texts it has are up
\* to date, and so are the messages it is done with.
Current(w) ==
    /\ job[w].at \in {"write", "render", "sweep"} => row = job[w].g
    /\ job[w].at \in {"post", "save"} /\ ~job[w].dirty => row = job[w].g
    /\ \A i \in 1..Len(job[w].texts) : job[w].texts[i] = results
    /\ job[w].at \in {"post", "save"} => \A i \in 1..job[w].sent : Shown(job[w].g.ids[Kinds[i]])
    /\ job[w].at = "save" => job[w].sent = 3

HealInv == \A w \in Workers : Busy(w) /\ job[w].clean => Sole(w) /\ Current(w)

\* A step of one job, which is clean afterwards only if it was before.
LEMMA HealKept ==
    ASSUME HealInv, NEW w \in Workers, Busy(w), \A v \in Workers : v # w => job'[v] = job[v],
           Busy(w)' /\ job'[w].clean => job[w].clean /\ Current(w)'
    PROVE  HealInv'
<1> SUFFICES ASSUME NEW v \in Workers, Busy(v)', job'[v].clean
             PROVE  Sole(v)' /\ Current(v)'
  BY DEF HealInv
<1>1. v = w
  <2> SUFFICES ASSUME v # w
               PROVE  FALSE
    OBVIOUS
  <2>1. Busy(v) /\ job[v].clean
    BY DEF Busy
  <2> QED
    BY <2>1 DEF HealInv, Sole
<1>2. Sole(w)
  BY <1>1 DEF HealInv
<1>3. Sole(w)'
  BY <1>2 DEF Sole, Busy
<1> QED
  BY <1>1, <1>3

LEMMA HealFinish ==
    ASSUME Inv, HealInv, NEW w \in Workers, Busy(w), Finish(w)
    PROVE  HealInv'
<1>1. job'[w] = NoJob /\ \A v \in Workers : v # w => job'[v] = job[v]
  BY Replaced DEF Finish
<1>2. ~Busy(w)'
  BY <1>1 DEF Busy
<1> QED
  BY <1>1, <1>2, HealKept

\* A step that disturbs every job under way.
LEMMA DisturbedJobs ==
    ASSUME Inv
    PROVE  \A v \in Workers : /\ Disturbed[v] # NoJob => ~Disturbed[v].clean
                              /\ job[v] = NoJob => Disturbed[v] = NoJob
<1> SUFFICES ASSUME NEW v \in Workers
             PROVE  /\ Disturbed[v] # NoJob => ~Disturbed[v].clean
                    /\ job[v] = NoJob => Disturbed[v] = NoJob
  OBVIOUS
<1>1. CASE job[v] = NoJob
  BY <1>1 DEF Disturbed, Busy
<1>2. CASE job[v] # NoJob
  <2>1. Disturbed[v] = [job[v] EXCEPT !.clean = FALSE]
    BY <1>2 DEF Disturbed, Busy
  <2>2. job[v] \in AnyJob
    BY <1>2, BusyJob DEF Busy, GoodJob
  <2>3. ~[job[v] EXCEPT !.clean = FALSE].clean
    BY <2>2 DEF AnyJob
  <2> QED
    BY <1>2, <2>1, <2>3
<1> QED
  BY <1>1, <1>2

\* The jobs after such a step, which may also end a job or a turn.
LEMMA DisturbedReplaced ==
    ASSUME Inv, NEW w \in Workers, NEW j, job' = [Disturbed EXCEPT ![w] = j]
    PROVE  /\ job'[w] = j
           /\ \A v \in Workers : v # w => /\ Busy(v)' => ~job'[v].clean
                                          /\ ~Busy(v) => ~Busy(v)'
<1>1. job'[w] = j /\ \A v \in Workers : v # w => job'[v] = Disturbed[v]
  BY DEF Disturbed
<1> QED
  BY <1>1, DisturbedJobs DEF Busy

LEMMA HealReceive ==
    ASSUME Inv, HealInv, NEW w \in Workers, NEW cmd \in Commands, NEW t \in Topics,
           Receive(w, cmd, t)
    PROVE  HealInv'
<1> DEFINE alone == \A v \in Workers : ~Busy(v)
           j == [at |-> "read", cmd |-> cmd, topic |-> t, g |-> NoRow, texts |-> <<>>,
                 sent |-> 0, dirty |-> FALSE, clean |-> alone]
<1>1. job' = [Disturbed EXCEPT ![w] = j]
  BY DEF Receive
<1>2. j.at = "read" /\ j.texts = <<>> /\ j.clean = alone
  OBVIOUS
<1> HIDE DEF j
<1>3. /\ job'[w] = j
      /\ \A v \in Workers : v # w => /\ Busy(v)' => ~job'[v].clean
                                     /\ ~Busy(v) => ~Busy(v)'
  BY <1>1, DisturbedReplaced
<1>4. Current(w)'
  BY <1>2, <1>3 DEF Current
<1>5. j.clean => Sole(w)'
  BY <1>2, <1>3 DEF Sole
<1> QED
  BY <1>3, <1>4, <1>5 DEF HealInv

LEMMA HealFaults ==
    ASSUME Inv, HealInv,
           \/ \E w \in Workers :
                 EditFails(w) \/ SendFails(w) \/ RegisterUnread(w) \/ Abandon(w)
           \/ \E id \in DOMAIN posts : DeletedByHand(id)
    PROVE  HealInv'
<1>1. ASSUME NEW w \in Workers, EditFails(w)
      PROVE  HealInv'
  <2> DEFINE j == [Posted(w, StoredId(w)) EXCEPT !.clean = FALSE]
  <2>1. At(w, "post") /\ job' = [Disturbed EXCEPT ![w] = j]
    BY <1>1 DEF EditFails
  <2>2. Posted(w, StoredId(w)) \in AnyJob
    BY <2>1, PostingJob, PostedGood DEF Kept, GoodJob
  <2>3. ~j.clean
    BY <2>2 DEF AnyJob
  <2> HIDE DEF j
  <2>4. /\ job'[w] = j
        /\ \A v \in Workers : v # w => (Busy(v)' => ~job'[v].clean)
    BY <2>1, DisturbedReplaced
  <2> QED
    BY <2>3, <2>4 DEF HealInv
<1>2. ASSUME NEW w \in Workers, SendFails(w) \/ Abandon(w)
      PROVE  HealInv'
  <2>1. job' = [Disturbed EXCEPT ![w] = NoJob]
    BY <1>2 DEF SendFails, Abandon
  <2>2. /\ job'[w] = NoJob
        /\ \A v \in Workers : v # w => (Busy(v)' => ~job'[v].clean)
    BY <2>1, DisturbedReplaced
  <2> QED
    BY <2>2 DEF HealInv, Busy
<1>3. ASSUME NEW id \in DOMAIN posts, DeletedByHand(id)
      PROVE  HealInv'
  <2>1. job' = Disturbed
    BY <1>3 DEF DeletedByHand
  <2> QED
    BY <2>1, DisturbedJobs DEF HealInv, Busy
<1>4. ASSUME NEW w \in Workers, RegisterUnread(w)
      PROVE  HealInv'
  <2> DEFINE j == [job[w] EXCEPT !.at = "write", !.clean = FALSE]
  <2>1. Busy(w) /\ job' = [Disturbed EXCEPT ![w] = j]
    BY <1>4 DEF RegisterUnread, At
  <2>2. ~j.clean
    BY <2>1, BusyJob DEF GoodJob, AnyJob
  <2> HIDE DEF j
  <2>3. /\ job'[w] = j
        /\ \A v \in Workers : v # w => (Busy(v)' => ~job'[v].clean)
    BY <2>1, DisturbedReplaced
  <2> QED
    BY <2>2, <2>3 DEF HealInv
<1> QED
  BY <1>1, <1>2, <1>3, <1>4

\* The handlers up to the refresh.
LEMMA HealCommands ==
    ASSUME Inv, HealInv, NEW w \in Workers,
           \/ ReadRow(w) \/ BotRegisterGroup(w) \/ SetMatchesTopic(w) \/ SetStatsTopic(w)
           \/ CountResult(w)
    PROVE  HealInv'
<1>1. CASE ReadRow(w)
  <2>1. Busy(w) /\ UNCHANGED <<row, results>>
    BY <1>1 DEF ReadRow, At
  <2>2. /\ \A v \in Workers : v # w => job'[v] = job[v]
        /\ Busy(w)' => /\ job'[w].at = "write" /\ job'[w].g = row
                       /\ job'[w].texts = <<>> /\ job'[w].clean = job[w].clean
    BY <1>1, ReadFields
  <2>3. Busy(w)' => Current(w)'
    BY <2>1, <2>2 DEF Current
  <2> QED
    BY <2>1, <2>2, <2>3, HealKept
<1>2. CASE BotRegisterGroup(w) \/ SetMatchesTopic(w)
  BY <1>2, HealFinish DEF BotRegisterGroup, SetMatchesTopic, At
<1>3. CASE SetStatsTopic(w) \/ CountResult(w)
  <2>1. At(w, "write") /\ Busy(w)
    BY <1>3 DEF SetStatsTopic, CountResult, At
  <2>2. PICK g : /\ Refresh(w, g)
                 /\ \/ g = row'
                    \/ g = job[w].g /\ UNCHANGED row
    <3>1. CASE SetStatsTopic(w)
      BY <3>1 DEF SetStatsTopic
    <3>2. CASE CountResult(w)
      BY <3>2 DEF CountResult
    <3> QED
      BY <1>3, <3>1, <3>2
  <2>3. /\ \A v \in Workers : v # w => job'[v] = job[v]
        /\ Busy(w)' => /\ job'[w].at = "render" /\ job'[w].g = g
                       /\ job'[w].texts = <<>> /\ job'[w].clean = job[w].clean
    BY <2>1, <2>2, RefreshFields
  <2>4. ASSUME Busy(w)', job'[w].clean
        PROVE  Current(w)'
    <3>1. row = job[w].g
      BY <2>1, <2>3, <2>4 DEF HealInv, Current, At
    <3>2. row' = g
      BY <2>2, <3>1
    <3> QED
      BY <2>3, <2>4, <3>2 DEF Current
  <2> QED
    BY <2>1, <2>3, <2>4, HealKept
<1> QED
  BY <1>1, <1>2, <1>3

LEMMA HealPrepares ==
    ASSUME Inv, HealInv, NEW w \in Workers, Render(w) \/ SweepOrphans(w)
    PROVE  HealInv'
<1>1. Busy(w) /\ job[w].at \in {"render", "sweep"} /\ UNCHANGED <<row, results>>
  BY DEF Render, SweepOrphans, At
<1>2. job[w] \in AnyJob
  BY <1>1, BusyJob DEF GoodJob
<1>3. CASE Render(w)
  <2>1. /\ \A v \in Workers : v # w => job'[v] = job[v]
        /\ job'[w].at \in {"render", "sweep"} /\ job'[w].g = job[w].g
        /\ job'[w].texts = Append(job[w].texts, results)
        /\ job'[w].clean = job[w].clean
    BY <1>3, RenderFields
  <2>2. ASSUME job[w].clean
        PROVE  Current(w)'
    <3>1. row = job[w].g /\ \A i \in 1..Len(job[w].texts) : job[w].texts[i] = results
      BY <1>1, <2>2 DEF HealInv, Current
    <3>2. PICK s \in Seq(Nat) : s = job[w].texts
      BY <1>2 DEF AnyJob
    <3>3. \A i \in 1..Len(Append(s, results)) : Append(s, results)[i] = results
      BY <3>1, <3>2
    <3> QED
      BY <1>1, <2>1, <3>1, <3>2, <3>3 DEF Current
  <2> QED
    BY <1>1, <2>1, <2>2, HealKept
<1>4. CASE SweepOrphans(w)
  <2>1. /\ \A v \in Workers : v # w => job'[v] = job[v]
        /\ job'[w].at = "post" /\ (~job'[w].dirty => job'[w].g = job[w].g)
        /\ job'[w].texts = job[w].texts /\ job'[w].sent = 0
        /\ job'[w].clean = job[w].clean
    BY <1>4, SweepFields
  <2>2. ASSUME job[w].clean
        PROVE  Current(w)'
    <3>1. row = job[w].g /\ \A i \in 1..Len(job[w].texts) : job[w].texts[i] = results
      BY <1>1, <2>2 DEF HealInv, Current
    <3> QED
      BY <1>1, <2>1, <3>1 DEF Current
  <2> QED
    BY <1>1, <2>1, <2>2, HealKept
<1> QED
  BY <1>3, <1>4

\* A turn leaves the message of its kind in place and up to date, and those of
\* the turns before.
LEMMA HealTurn ==
    ASSUME Inv, HealInv, NEW w \in Workers, UpsertByEdit(w) \/ UpsertBySend(w)
    PROVE  HealInv'
<1>1. At(w, "post") /\ Busy(w) /\ UNCHANGED <<row, results>>
  BY DEF UpsertByEdit, UpsertBySend, At
<1>2. /\ Turn(w) \in KindSet /\ Text(w) \in Nat /\ StoredId(w) \in Nat
      /\ job[w].g \in Rows /\ job[w].g.stats \in Topics \cup {0}
  BY <1>1, PostingJob DEF Rows
<1>3. posts \in Seq(AnyPost) /\ Len(posts) + 1 \in Nat /\ results \in Nat
  BY DEF Inv
<1>4. job[w] \in AnyJob /\ job[w].sent \in 0..2 /\ Len(job[w].texts) = 3
  BY <1>1, BusyJob DEF At, GoodJob, InStep, AnyJob
<1>5. PICK id \in Nat : /\ job' = [job EXCEPT ![w] = Posted(w, id)]
                        /\ \/ /\ id = StoredId(w) /\ Found(id) /\ EditMessage(id, Text(w))
                           \/ id = Len(posts) + 1 /\ SendMessage(Turn(w), job[w].g.stats, Text(w))
  BY <1>2, <1>3 DEF UpsertByEdit, UpsertBySend
<1>6. /\ job'[w] = Posted(w, id) /\ \A v \in Workers : v # w => job'[v] = job[v]
  BY <1>5, Replaced
<1>7. PICK g : g = [job[w].g EXCEPT !.ids[Turn(w)] = id]
  OBVIOUS
<1>8. /\ job'[w].g = g /\ job'[w].sent = job[w].sent + 1 /\ job'[w].texts = job[w].texts
      /\ job'[w].clean = job[w].clean
      /\ job'[w].dirty <=> (job[w].dirty \/ id # StoredId(w))
      /\ job'[w].at = IF job[w].sent = 2 THEN "save" ELSE "post"
  <2>1. /\ Posted(w, id).g = g /\ Posted(w, id).sent = job[w].sent + 1
        /\ Posted(w, id).texts = job[w].texts /\ Posted(w, id).clean = job[w].clean
        /\ Posted(w, id).dirty <=> (job[w].dirty \/ id # StoredId(w))
        /\ Posted(w, id).at = IF job[w].sent = 2 THEN "save" ELSE "post"
    BY <1>1, <1>7, PostedFields, Zenon
  <2> QED
    BY <1>6, <2>1, Zenon
<1>9. /\ \A k \in KindSet : g.ids[k] = IF k = Turn(w) THEN id ELSE job[w].g.ids[k]
      /\ id = StoredId(w) => g = job[w].g
  BY <1>1, <1>7, TurnRow
<1>10. ASSUME job[w].clean
       PROVE  Current(w)'
  <2>1. /\ ~job[w].dirty => row = job[w].g
        /\ \A i \in 1..Len(job[w].texts) : job[w].texts[i] = results
        /\ \A i \in 1..job[w].sent : Shown(job[w].g.ids[Kinds[i]])
    BY <1>1, <1>10 DEF HealInv, Current, At
  <2>2. Text(w) = results
    BY <1>4, <2>1 DEF Text
  <2>3. Shown(id)' /\ \A x : Shown(x) => Shown(x)'
    <3>1. CASE Found(id) /\ EditMessage(id, Text(w))
      <4>1. posts' = [posts EXCEPT ![id] = [posts[id] EXCEPT !.shows = results]]
        BY <2>2, <3>1 DEF EditMessage
      <4>2. id \in DOMAIN posts /\ posts[id].live /\ posts[id] \in AnyPost
        BY <1>3, <3>1 DEF Found
      <4>3. /\ posts'[id] = [posts[id] EXCEPT !.shows = results]
            /\ DOMAIN posts' = DOMAIN posts
            /\ \A x \in DOMAIN posts : x # id => posts'[x] = posts[x]
        BY <4>1, <4>2
      <4>4. posts'[id].shows = results /\ posts'[id].live
        BY <4>2, <4>3 DEF AnyPost
      <4> QED
        BY <1>1, <4>2, <4>3, <4>4 DEF Shown, Found
    <3>2. CASE id = Len(posts) + 1 /\ SendMessage(Turn(w), job[w].g.stats, Text(w))
      <4> DEFINE e == [topic |-> job[w].g.stats, kind |-> Turn(w), shows |-> results, live |-> TRUE]
      <4>1. posts' = Append(posts, e)
        BY <2>2, <3>2 DEF SendMessage
      <4>2. e.shows = results /\ e.live = TRUE /\ e \in AnyPost
        BY <1>2, <1>3 DEF AnyPost
      <4> HIDE DEF e
      <4>3. /\ DOMAIN posts = 1..Len(posts) /\ DOMAIN posts' = 1..(Len(posts) + 1)
            /\ posts'[Len(posts) + 1] = e
            /\ \A x \in 1..Len(posts) : posts'[x] = posts[x]
        BY <1>3, <4>1, <4>2
      <4>4. \A x \in 1..Len(posts) : x \in 1..(Len(posts) + 1)
        BY <1>3
      <4> QED
        BY <1>1, <1>3, <3>2, <4>2, <4>3, <4>4 DEF Shown, Found
    <3> QED
      BY <1>5, <3>1, <3>2
  <2>4. ASSUME NEW i \in 1..(job[w].sent + 1)
        PROVE  Shown(g.ids[Kinds[i]])'
    <3>1. Kinds[i] \in KindSet
      BY <1>4 DEF Kinds, KindSet
    <3>2. CASE Kinds[i] = Turn(w)
      <4>1. PICK x : x = g.ids[Kinds[i]]
        OBVIOUS
      <4>2. x = id
        BY <1>9, <3>1, <3>2, <4>1
      <4> QED
        BY <2>3, <4>1, <4>2
    <3>3. CASE Kinds[i] # Turn(w)
      <4>1. i \in 1..job[w].sent
        BY <1>4, <3>3 DEF Turn
      <4>2. PICK x : x = job[w].g.ids[Kinds[i]]
        OBVIOUS
      <4>3. Shown(x)'
        BY <2>1, <2>3, <4>1, <4>2
      <4> QED
        BY <1>9, <3>1, <3>3, <4>2, <4>3
    <3> QED
      BY <3>2, <3>3
  <2>5. job'[w].dirty \/ row' = job'[w].g
    BY <1>1, <1>8, <1>9, <2>1
  <2>6. job'[w].at = "save" => job'[w].sent = 3
    BY <1>4, <1>8
  <2>7. /\ job'[w].at \in {"post", "save"}
        /\ \A i \in 1..job'[w].sent : Shown(g.ids[Kinds[i]])'
    BY <1>8, <2>4
  <2>8. \A i \in 1..job'[w].sent : Shown(job[w].g.ids[Kinds[i]])'
    BY <1>8, <2>7 DEF Shown, Found
  <2>9. \A i \in 1..Len(job'[w].texts) : job'[w].texts[i] = results'
    BY <1>1, <1>8, <2>1
  <2> QED
    BY <2>5, <2>6, <2>7, <2>8, <2>9 DEF Current
<1> QED
  BY <1>1, <1>6, <1>8, <1>10, HealKept

LEMMA HealInit == Init => HealInv
BY DEF Init, HealInv, Busy

LEMMA HealStep == Inv /\ HealInv /\ [Next]_vars => HealInv'
<1> SUFFICES ASSUME Inv, HealInv, [Next]_vars
             PROVE  HealInv'
  OBVIOUS
<1>1. ASSUME NEW w \in Workers, Step(w)
      PROVE  HealInv'
  <2>1. CASE SaveRow(w)
    BY <2>1, HealFinish DEF SaveRow, At
  <2> QED
    BY <1>1, <2>1, HealCommands, HealPrepares, HealTurn DEF Step
<1>2. CASE UNCHANGED vars
  BY <1>2 DEF vars, HealInv, Busy, Sole, Current, Shown, Found
<1> QED
  BY <1>1, <1>2, HealReceive, HealFaults DEF Next

\* A refresh that runs undisturbed leaves the three messages in place and up to
\* date, whatever was missed, overtaken, deleted or lost before it, with any
\* number of overlapping jobs, events and faults in its past.
THEOREM RefreshesHeal == Spec => SelfHeals
<1>1. Inv /\ HealInv /\ [Next]_vars =>
        [\A w \in Workers :
            job[w] # NoJob /\ job[w].clean /\ SaveRow(w) => StatsCurrent']_vars
  <2> SUFFICES ASSUME Inv, HealInv, NEW w \in Workers, job[w] # NoJob, job[w].clean, SaveRow(w)
               PROVE  StatsCurrent'
    OBVIOUS
  <2>1. Current(w) /\ job[w].at = "save" /\ UNCHANGED <<posts, results>>
    BY DEF HealInv, Busy, SaveRow, At
  <2>2. row' = job[w].g
    BY <2>1 DEF Current, SaveRow, Upsert
  <2>3. \A i \in 1..3 : Shown(job[w].g.ids[Kinds[i]])
    BY <2>1 DEF Current
  <2>4. ASSUME NEW k \in KindSet
        PROVE  Shown(job[w].g.ids[k])
    <3>1. PICK i \in 1..3 : Kinds[i] = k
      <4>1. Kinds[1] = "elo" /\ Kinds[2] = "glicko" /\ Kinds[3] = "stats"
        BY DEF Kinds
      <4> QED
        BY <4>1 DEF KindSet
    <3> QED
      BY <2>3, <3>1
  <2> QED
    BY <2>1, <2>2, <2>4 DEF StatsCurrent, Shown, Found
<1> QED
  BY <1>1, InitInv, NextInv, HealInit, HealStep, PTL DEF Spec, SelfHeals

-----------------------------------------------------------------------------
(* What was reported of the topics *)

\* A copy g of the row has the topics of report t, except those in b, which
\* were reported since it was read, and those in u.
Agrees(g, b, t, u) ==
    g # NoRow => /\ "matches" \notin b /\ ~u["matches"] => g.matches = t["matches"]
                 /\ "stats" \notin b /\ ~u["stats"] => g.stats = t["stats"]

HistoryTyped ==
    /\ told \in [Settings -> Topics \cup {0}]
    /\ behind \in [Workers -> SUBSET Settings]
    /\ upset \in [Settings -> BOOLEAN]

\* Jobs write their copies back, so the copies must agree as well, as far as
\* they are not behind.
ToldInv ==
    /\ HistoryTyped
    /\ Agrees(row, {}, told, upset)
    /\ \A w \in Workers : Busy(w) => Agrees(job[w].g, behind[w], told, upset)

\* A copy h that agrees when g does.
SameTopics(h, g) ==
    h = NoRow \/ (g # NoRow /\ h.matches = g.matches /\ h.stats = g.stats)

\* A step that neither writes the row nor reads it.
LEMMA ToldQuiet ==
    ASSUME ToldInv, UNCHANGED row, UNCHANGED history,
           \A v \in Workers : Busy(v)' => \/ job'[v].g = NoRow
                                          \/ Busy(v) /\ SameTopics(job'[v].g, job[v].g)
    PROVE  ToldInv'
<1>1. UNCHANGED <<told, behind, upset>>
  BY DEF history
<1>2. HistoryTyped' /\ Agrees(row, {}, told, upset)'
  BY <1>1 DEF ToldInv, HistoryTyped, Agrees
<1>3. ASSUME NEW v \in Workers, Busy(v)'
      PROVE  Agrees(job'[v].g, behind[v], told, upset)
  BY <1>3 DEF ToldInv, Agrees, SameTopics
<1>4. \A v \in Workers : Busy(v)' => Agrees(job[v].g, behind[v], told, upset)'
  BY <1>1, <1>3 DEF Agrees
<1> QED
  BY <1>2, <1>4 DEF ToldInv

\* A write of the row: what it reports is news to the other copies, and what it
\* does not report agrees unless the copy was behind.
LEMMA ToldWrite ==
    ASSUME ToldInv, NEW w \in Workers, NEW g \in Rows, NEW S \in SUBSET Settings,
           Upsert(w, g, S),
           "matches" \notin S /\ "matches" \notin behind[w] /\ ~upset["matches"]
                => g.matches = told["matches"],
           "stats" \notin S /\ "stats" \notin behind[w] /\ ~upset["stats"]
                => g.stats = told["stats"],
           \A v \in Workers : v # w => job'[v] = job[v],
           Busy(w)' => job'[w].g = g
    PROVE  ToldInv'
<1>1. /\ row' = g
      /\ told' = [s \in Settings |-> IF s \in S THEN g[s] ELSE told[s]]
      /\ upset' = [s \in Settings |-> s \notin S /\ (upset[s] \/ s \in behind[w])]
      /\ behind' = [v \in Workers |-> IF v # w /\ Busy(v) THEN behind[v] \cup S ELSE {}]
  BY DEF Upsert
<1>2. g.matches \in Topics \cup {0} /\ g.stats \in Topics \cup {0}
  BY DEF Rows
<1>3. /\ told'["matches"] = IF "matches" \in S THEN g.matches ELSE told["matches"]
      /\ told'["stats"] = IF "stats" \in S THEN g.stats ELSE told["stats"]
  BY <1>1 DEF Settings
<1>4. /\ upset'["matches"] <=> "matches" \notin S /\ (upset["matches"] \/ "matches" \in behind[w])
      /\ upset'["stats"] <=> "stats" \notin S /\ (upset["stats"] \/ "stats" \in behind[w])
  BY <1>1 DEF Settings
<1>5. HistoryTyped'
  <2>1. told' \in [Settings -> Topics \cup {0}]
    <3>1. told["matches"] \in Topics \cup {0} /\ told["stats"] \in Topics \cup {0}
      BY DEF ToldInv, HistoryTyped, Settings
    <3>2. told'["matches"] \in Topics \cup {0} /\ told'["stats"] \in Topics \cup {0}
      BY <1>2, <1>3, <3>1
    <3>3. told' = [s \in Settings |-> told'[s]]
      BY <1>1
    <3> QED
      BY <3>2, <3>3 DEF Settings
  <2>2. upset' \in [Settings -> BOOLEAN]
    BY <1>1, Zenon
  <2>3. behind' \in [Workers -> SUBSET Settings]
    BY <1>1 DEF ToldInv, HistoryTyped
  <2> QED
    BY <2>1, <2>2, <2>3 DEF HistoryTyped
<1>6. Agrees(g, {}, told', upset')
  BY <1>3, <1>4 DEF Agrees
<1>7. Agrees(row, {}, told, upset)'
  BY <1>1, <1>6 DEF Agrees
<1>8. ASSUME NEW v \in Workers, Busy(v)'
      PROVE  Agrees(job'[v].g, behind'[v], told', upset')
  <2>1. CASE v = w
    <3>1. behind'[v] = {}
      BY <1>1, <2>1
    <3> QED
      BY <1>6, <1>8, <2>1, <3>1
  <2>2. CASE v # w
    <3>1. job'[v] = job[v] /\ Busy(v)
      BY <1>8, <2>2 DEF Busy
    <3>2. behind'[v] = behind[v] \cup S
      BY <1>1, <2>2, <3>1
    <3>3. Agrees(job[v].g, behind[v], told, upset)
      BY <3>1 DEF ToldInv
    <3>4. Agrees(job[v].g, behind[v] \cup S, told', upset')
      BY <1>3, <1>4, <3>3 DEF Agrees
    <3> QED
      BY <3>1, <3>2, <3>4
  <2> QED
    BY <2>1, <2>2
<1> QED
  BY <1>5, <1>7, <1>8 DEF ToldInv

LEMMA ToldCommands ==
    ASSUME Inv, ToldInv, NEW w \in Workers,
           \/ ReadRow(w) \/ BotRegisterGroup(w) \/ SetMatchesTopic(w) \/ SetStatsTopic(w)
           \/ CountResult(w)
    PROVE  ToldInv'
<1>0. Busy(w) /\ GoodJob(job[w], posts) /\ Agrees(job[w].g, behind[w], told, upset)
  BY BusyJob DEF ReadRow, BotRegisterGroup, SetMatchesTopic, SetStatsTopic, CountResult, At,
                 ToldInv
<1>1. CASE ReadRow(w)
  <2>1. /\ \A v \in Workers : v # w => job'[v] = job[v]
        /\ Busy(w)' => job'[w].g = row
    BY <1>1, ReadFields
  <2>2. UNCHANGED <<row, told, upset>> /\ behind' = [behind EXCEPT ![w] = {}]
    BY <1>1 DEF ReadRow
  <2>3. HistoryTyped' /\ behind'[w] = {} /\ \A v \in Workers : v # w => behind'[v] = behind[v]
    BY <2>2 DEF ToldInv, HistoryTyped
  <2>4. Agrees(row, {}, told, upset)'
    BY <2>2 DEF ToldInv, Agrees
  <2>5. ASSUME NEW v \in Workers, Busy(v)'
        PROVE  Agrees(job[v].g, behind[v], told, upset)'
    <3>1. CASE v = w
      <4>1. job'[v].g = row /\ behind'[v] = {}
        BY <2>1, <2>3, <2>5, <3>1
      <4> QED
        BY <2>2, <2>4, <4>1 DEF Agrees
    <3>2. CASE v # w
      <4>1. job'[v] = job[v] /\ behind'[v] = behind[v] /\ Busy(v)
        BY <2>1, <2>3, <2>5, <3>2 DEF Busy
      <4> QED
        BY <2>2, <4>1 DEF ToldInv, Agrees
    <3> QED
      BY <3>1, <3>2
  <2> QED
    BY <2>3, <2>4, <2>5 DEF ToldInv
<1>2. CASE BotRegisterGroup(w)
  <2>1. job'[w] = NoJob /\ \A v \in Workers : v # w => job'[v] = job[v]
    BY <1>2, Replaced DEF BotRegisterGroup, Finish
  <2>2. CASE job[w].g = NoRow
    <3>1. NewRow \in Rows /\ Upsert(w, NewRow, Settings)
      BY <1>2, <2>2 DEF BotRegisterGroup, NewRow, Rows
    <3> QED
      BY <2>1, <3>1, ToldWrite DEF Busy, Settings
  <2>3. CASE job[w].g # NoRow
    <3>1. job[w].g \in Rows /\ Upsert(w, job[w].g, {})
      BY <1>0, <1>2, <2>3 DEF BotRegisterGroup, GoodJob, AnyJob
    <3> QED
      BY <1>0, <2>1, <2>3, <3>1, ToldWrite DEF Busy, Agrees
  <2> QED
    BY <2>2, <2>3
<1>3. CASE SetMatchesTopic(w)
  <2>1. job'[w] = NoJob /\ \A v \in Workers : v # w => job'[v] = job[v]
    BY <1>3, Replaced DEF SetMatchesTopic, Finish
  <2>2. job[w].g \in Rows /\ job[w].g # NoRow /\ job[w].topic \in Topics
    BY <1>0, <1>3, StatsTopicAssumption DEF SetMatchesTopic, At, GoodJob, InStep, AnyJob
  <2>3. PICK g : g = [job[w].g EXCEPT !.matches = job[w].topic]
    OBVIOUS
  <2>4. g \in Rows /\ g.stats = job[w].g.stats
    BY <2>2, <2>3 DEF Rows
  <2>5. Upsert(w, g, {"matches"})
    BY <1>3, <2>3 DEF SetMatchesTopic
  <2> QED
    BY <1>0, <2>1, <2>2, <2>4, <2>5, ToldWrite DEF Busy, Agrees, Settings
<1>4. CASE SetStatsTopic(w)
  <2>1. At(w, "write") /\ Refresh(w, row')
    BY <1>4 DEF SetStatsTopic
  <2>2. PICK g : g = [job[w].g EXCEPT !.stats = job[w].topic, !.ids = NewRow.ids]
    OBVIOUS
  <2>3. Upsert(w, g, {"stats"})
    BY <1>4, <2>2 DEF SetStatsTopic
  <2>4. row' = g
    BY <2>3 DEF Upsert
  <2>5. /\ \A v \in Workers : v # w => job'[v] = job[v]
        /\ Busy(w)' => job'[w].g = g
    BY <2>1, <2>4, RefreshFields
  <2>6. job[w].g \in Rows /\ job[w].g # NoRow /\ job[w].topic \in Topics
    BY <1>0, <1>4, StatsTopicAssumption DEF SetStatsTopic, At, GoodJob, InStep, AnyJob
  <2>7. NewRow.ids \in [KindSet -> Nat]
    BY DEF NewRow
  <2>8. g \in Rows /\ g.matches = job[w].g.matches
    BY <2>2, <2>6, <2>7 DEF Rows
  <2> QED
    BY <1>0, <2>3, <2>5, <2>6, <2>8, ToldWrite DEF Agrees, Settings
<1>5. CASE CountResult(w)
  <2>1. At(w, "write") /\ Refresh(w, job[w].g) /\ UNCHANGED row /\ UNCHANGED history
    BY <1>5 DEF CountResult
  <2>2. PICK g : g = job[w].g
    OBVIOUS
  <2>3. /\ \A v \in Workers : v # w => job'[v] = job[v]
        /\ Busy(w)' => job'[w].g = g
    BY <2>1, <2>2, RefreshFields
  <2> QED
    BY <1>0, <2>1, <2>2, <2>3, ToldQuiet DEF Busy, SameTopics
<1> QED
  BY <1>1, <1>2, <1>3, <1>4, <1>5

LEMMA ToldRefresh ==
    ASSUME Inv, ToldInv, NEW w \in Workers,
           Render(w) \/ SweepOrphans(w) \/ UpsertByEdit(w) \/ UpsertBySend(w) \/ SaveRow(w)
    PROVE  ToldInv'
<1>0. /\ Busy(w) /\ GoodJob(job[w], posts)
      /\ job[w].at \in {"render", "sweep", "post", "save"}
  BY BusyJob DEF Render, SweepOrphans, UpsertByEdit, UpsertBySend, SaveRow, At
<1>1. job[w].g \in Rows /\ job[w].g # NoRow
  BY <1>0, StatsTopicAssumption DEF GoodJob, InStep
<1>2. Agrees(job[w].g, behind[w], told, upset)
  BY <1>0 DEF ToldInv
<1>3. CASE SaveRow(w)
  <2>1. job'[w] = NoJob /\ \A v \in Workers : v # w => job'[v] = job[v]
    BY <1>3, Replaced DEF SaveRow, Finish
  <2>2. CASE job[w].dirty
    <3>1. Upsert(w, job[w].g, {})
      BY <1>3, <2>2 DEF SaveRow
    <3> QED
      BY <1>1, <1>2, <2>1, <3>1, ToldWrite DEF Busy, Agrees
  <2>3. CASE ~job[w].dirty
    <3>1. UNCHANGED row /\ UNCHANGED history
      BY <1>3, <2>3 DEF SaveRow
    <3> QED
      BY <2>1, <3>1, ToldQuiet DEF Busy, SameTopics
  <2> QED
    BY <2>2, <2>3
<1>4. CASE ~SaveRow(w)
  <2>1. UNCHANGED row /\ UNCHANGED history
    BY <1>4 DEF Render, SweepOrphans, UpsertByEdit, UpsertBySend
  <2>2. /\ \A v \in Workers : v # w => job'[v] = job[v]
        /\ job'[w].g.matches = job[w].g.matches /\ job'[w].g.stats = job[w].g.stats
    <3>1. CASE Render(w)
      BY <1>1, <3>1, RenderFields
    <3>2. CASE SweepOrphans(w)
      BY <3>2, SweepFields
    <3>3. CASE UpsertByEdit(w) \/ UpsertBySend(w)
      <4>1. At(w, "post") /\ StoredId(w) \in Nat /\ Len(posts) + 1 \in Nat
        BY <3>3, PostingJob DEF UpsertByEdit, UpsertBySend, Inv
      <4>2. PICK id \in Nat : job' = [job EXCEPT ![w] = Posted(w, id)]
        BY <3>3, <4>1 DEF UpsertByEdit, UpsertBySend
      <4>3. job'[w] = Posted(w, id) /\ \A v \in Workers : v # w => job'[v] = job[v]
        BY <4>2, Replaced
      <4>4. PICK g : g = [job[w].g EXCEPT !.ids[Turn(w)] = id]
        OBVIOUS
      <4>5. Posted(w, id).g = g
        BY <4>1, <4>4, PostedFields, Zenon
      <4>6. g.matches = job[w].g.matches /\ g.stats = job[w].g.stats
        BY <4>1, <4>4, TurnRow
      <4> QED
        BY <4>3, <4>5, <4>6
    <3> QED
      BY <1>4, <3>1, <3>2, <3>3
  <2> QED
    BY <1>0, <1>1, <2>1, <2>2, ToldQuiet DEF Busy, SameTopics
<1> QED
  BY <1>3, <1>4

\* Disturbing a job leaves its copy of the row alone.
LEMMA DisturbedCopies ==
    ASSUME Inv, NEW v \in Workers, Disturbed[v] # NoJob
    PROVE  Busy(v) /\ Disturbed[v].g = job[v].g
<1>1. Busy(v)
  BY DEF Disturbed
<1>2. job[v] \in AnyJob
  BY <1>1, BusyJob DEF GoodJob
<1>3. Disturbed[v] = [job[v] EXCEPT !.clean = FALSE]
  BY <1>1 DEF Disturbed
<1> QED
  BY <1>1, <1>2, <1>3 DEF AnyJob

\* A step that disturbs the jobs and gives worker w a job with no copy of the
\* row, or with the topics of the copy it had.
LEMMA ToldDisturbed ==
    ASSUME Inv, ToldInv, NEW w \in Workers, NEW j, job' = [Disturbed EXCEPT ![w] = j],
           UNCHANGED row, UNCHANGED history,
           j # NoJob => j.g = NoRow \/ (Busy(w) /\ SameTopics(j.g, job[w].g))
    PROVE  ToldInv'
<1>1. job'[w] = j /\ \A v \in Workers : v # w => job'[v] = Disturbed[v]
  BY DEF Disturbed
<1>2. ASSUME NEW v \in Workers, Busy(v)'
      PROVE  job'[v].g = NoRow \/ (Busy(v) /\ SameTopics(job'[v].g, job[v].g))
  BY <1>1, <1>2, DisturbedCopies DEF Busy, SameTopics
<1> QED
  BY <1>2, ToldQuiet

LEMMA ToldReceive ==
    ASSUME Inv, ToldInv, NEW w \in Workers, NEW cmd \in Commands, NEW t \in Topics,
           Receive(w, cmd, t)
    PROVE  ToldInv'
<1> DEFINE alone == \A v \in Workers : ~Busy(v)
           j == [at |-> "read", cmd |-> cmd, topic |-> t, g |-> NoRow, texts |-> <<>>,
                 sent |-> 0, dirty |-> FALSE, clean |-> alone]
<1>1. job' = [Disturbed EXCEPT ![w] = j] /\ UNCHANGED row /\ UNCHANGED history
  BY DEF Receive
<1>2. j.g = NoRow
  OBVIOUS
<1> HIDE DEF j
<1> QED
  BY <1>1, <1>2, ToldDisturbed

LEMMA ToldFaults ==
    ASSUME Inv, ToldInv,
           \/ \E w \in Workers :
                 EditFails(w) \/ SendFails(w) \/ RegisterUnread(w) \/ Abandon(w)
           \/ \E id \in DOMAIN posts : DeletedByHand(id)
    PROVE  ToldInv'
<1>1. ASSUME NEW w \in Workers, EditFails(w)
      PROVE  ToldInv'
  <2> DEFINE p == Posted(w, StoredId(w))
             j == [p EXCEPT !.clean = FALSE]
  <2>1. /\ At(w, "post") /\ Busy(w) /\ job' = [Disturbed EXCEPT ![w] = j]
        /\ UNCHANGED row /\ UNCHANGED history /\ StoredId(w) \in Nat
    BY <1>1, PostingJob DEF EditFails, At
  <2>2. p \in AnyJob
    BY <2>1, PostingJob, PostedGood DEF Kept, GoodJob
  <2>3. PICK g : g = [job[w].g EXCEPT !.ids[Turn(w)] = StoredId(w)]
    OBVIOUS
  <2>4. p.g = g
    BY <2>1, <2>3, PostedFields, Zenon
  <2>5. g = job[w].g
    BY <2>1, <2>3, TurnRow
  <2> HIDE DEF p
  <2>6. j.g = job[w].g
    BY <2>2, <2>4, <2>5 DEF AnyJob
  <2> HIDE DEF j
  <2> QED
    BY <2>1, <2>6, ToldDisturbed DEF SameTopics
<1>2. ASSUME NEW w \in Workers, SendFails(w) \/ Abandon(w)
      PROVE  ToldInv'
  <2>1. job' = [Disturbed EXCEPT ![w] = NoJob] /\ UNCHANGED row /\ UNCHANGED history
    BY <1>2 DEF SendFails, Abandon
  <2> QED
    BY <2>1, ToldDisturbed
<1>3. ASSUME NEW w \in Workers, RegisterUnread(w)
      PROVE  ToldInv'
  <2> DEFINE j == [job[w] EXCEPT !.at = "write", !.clean = FALSE]
  <2>1. /\ Busy(w) /\ job' = [Disturbed EXCEPT ![w] = j]
        /\ UNCHANGED row /\ UNCHANGED history
    BY <1>3 DEF RegisterUnread, At
  <2>2. j.g = job[w].g
    BY <2>1, BusyJob DEF GoodJob, AnyJob
  <2> HIDE DEF j
  <2> QED
    BY <2>1, <2>2, ToldDisturbed DEF SameTopics
<1>4. ASSUME NEW id \in DOMAIN posts, DeletedByHand(id)
      PROVE  ToldInv'
  <2>1. job' = Disturbed /\ UNCHANGED row /\ UNCHANGED history
    BY <1>4 DEF DeletedByHand
  <2>2. ASSUME NEW v \in Workers, Busy(v)'
        PROVE  Busy(v) /\ SameTopics(job'[v].g, job[v].g)
    BY <2>1, <2>2, DisturbedCopies DEF Busy, SameTopics
  <2> QED
    BY <2>1, <2>2, ToldQuiet
<1> QED
  BY <1>1, <1>2, <1>3, <1>4

LEMMA ToldInit == Init => ToldInv
<1> SUFFICES ASSUME Init
             PROVE  ToldInv
  OBVIOUS
<1>1. /\ told = [s \in Settings |-> IF row = NoRow THEN 0 ELSE row[s]]
      /\ behind = [w \in Workers |-> {}] /\ upset = [s \in Settings |-> FALSE]
      /\ \A w \in Workers : ~Busy(w)
  BY DEF Init, Busy
<1>2. CASE row = NoRow
  BY <1>1, <1>2 DEF ToldInv, HistoryTyped, Agrees
<1>3. CASE row # NoRow
  <2>1. PICK t \in Topics, u \in Topics :
            row = [NewRow EXCEPT !.matches = t, !.stats = u, !.legacy = 1]
    BY <1>3 DEF Init
  <2>2. row.matches \in Topics /\ row.stats \in Topics
    BY <2>1 DEF NewRow
  <2>3. told["matches"] = row.matches /\ told["stats"] = row.stats
    BY <1>1, <1>3 DEF Settings
  <2>4. told \in [Settings -> Topics \cup {0}]
    BY <1>1, <2>2, <2>3 DEF Settings
  <2> QED
    BY <1>1, <2>3, <2>4 DEF ToldInv, HistoryTyped, Agrees
<1> QED
  BY <1>2, <1>3

LEMMA ToldStep == Inv /\ ToldInv /\ [Next]_vars => ToldInv'
<1> SUFFICES ASSUME Inv, ToldInv, [Next]_vars
             PROVE  ToldInv'
  OBVIOUS
<1>1. ASSUME NEW w \in Workers, Step(w)
      PROVE  ToldInv'
  BY <1>1, ToldCommands, ToldRefresh DEF Step
<1>2. CASE UNCHANGED vars
  BY <1>2, ToldQuiet DEF vars, Busy, SameTopics
<1> QED
  BY <1>1, <1>2, ToldReceive, ToldFaults DEF Next

\* With any number of overlapping commands and refreshes and any number of
\* failing calls, the row holds what the bot last reported of each topic,
\* unless a job that read the row before that report wrote its copy back after
\* it; the next report of the topic puts that right.
THEOREM TopicsStayAsReported == Spec => []ReportedTopicsKept
<1>1. ToldInv => ReportedTopicsKept
  <2> SUFFICES ASSUME ToldInv, row # NoRow
               PROVE  \A s \in Settings : ~upset[s] => row[s] = told[s]
    BY DEF ReportedTopicsKept
  <2>1. /\ ~upset["matches"] => row.matches = told["matches"]
        /\ ~upset["stats"] => row.stats = told["stats"]
    BY DEF ToldInv, Agrees
  <2> QED
    BY <2>1 DEF Settings
<1> QED
  BY <1>1, InitInv, NextInv, ToldInit, ToldStep, PTL DEF Spec

-----------------------------------------------------------------------------
(* Bounds *)

Early(j) == j.at \in {"read", "write"}

\* What the jobs f may still post: a job posts three messages at most.
Owed(f) == {p \in Workers \X (0..2) : f[p[1]] # NoJob /\ p[2] >= f[p[1]].sent}

\* The jobs that may still count a result.
Pending(f) == {w \in Workers : f[w] # NoJob /\ f[w].cmd = "result" /\ Early(f[w])}

\* A job renders no more results than n, and only for a group with a stats topic.
Renders(j, n) ==
    /\ \A i \in 1..Len(j.texts) : j.texts[i] <= n
    /\ ~Early(j) => j.g.stats # 0

Shows(p, n) == p.topic \in Topics /\ p.shows <= n

\* TypeOK bounds the messages and the results by the events served.  No single
\* step knows that a job has something left to post: the account of what all
\* jobs still owe does.
BoundInv ==
    /\ events \in 0..MaxEvents
    /\ faults \in 0..MaxFaults
    /\ IsFiniteSet(Owed(job))
    /\ Len(posts) + Cardinality(Owed(job)) <= 1 + 3 * events
    /\ IsFiniteSet(Pending(job))
    /\ results + Cardinality(Pending(job)) <= events
    /\ \A i \in 1..Len(posts) : Shows(posts[i], results)
    /\ \A w \in Workers : job[w] # NoJob => Renders(job[w], results)

\* A job k that continues j owes no more than j and renders no more than n.
Advances(j, k, n) ==
    /\ j # NoJob
    /\ k.cmd = j.cmd
    /\ k.sent >= j.sent
    /\ Early(k) => Early(j)
    /\ Renders(k, n)

Continues(j, k, n) == k # NoJob => Advances(j, k, n)

LEMMA ContinuesSame ==
    ASSUME BoundInv, Inv, NEW v \in Workers
    PROVE  Continues(job[v], job[v], results)
<1>1. job[v] # NoJob => job[v].sent \in Int
  BY DEF Inv, GoodJobs, AnyJob
<1> QED
  BY <1>1 DEF BoundInv, Continues, Advances

LEMMA AdvancesDisturbed ==
    ASSUME NEW j, j \in AnyJob, NEW i, NEW n, Advances(i, j, n)
    PROVE  Advances(i, [j EXCEPT !.clean = FALSE], n)
<1> DEFINE k == [j EXCEPT !.clean = FALSE]
<1>1. k.at = j.at /\ k.cmd = j.cmd /\ k.sent = j.sent /\ k.texts = j.texts /\ k.g = j.g
  BY DEF AnyJob
<1> HIDE DEF k
<1>2. Advances(i, k, n)
  BY <1>1 DEF Advances, Renders, Early
<1> QED
  BY <1>2 DEF k

LEMMA ContinuesAllDisturbed ==
    ASSUME BoundInv, Inv, NEW v \in Workers
    PROVE  Continues(job[v], Disturbed[v], results)
<1>1. CASE job[v] = NoJob
  BY <1>1 DEF Disturbed, Busy, Continues
<1>2. CASE job[v] # NoJob
  <2>1. job[v] \in AnyJob
    BY <1>2 DEF Inv, GoodJobs
  <2>2. Disturbed[v] = [job[v] EXCEPT !.clean = FALSE]
    BY <1>2 DEF Disturbed, Busy
  <2> QED
    BY <1>2, <2>1, <2>2, ContinuesSame, AdvancesDisturbed DEF Continues
<1> QED
  BY <1>1, <1>2

\* Jobs that continue owe no more than before.
LEMMA OwesLess ==
    ASSUME Inv, Inv', \A v \in Workers : Continues(job[v], job'[v], results')
    PROVE  /\ Owed(job') \subseteq Owed(job)
           /\ Pending(job') \subseteq Pending(job)
           /\ \A w \in Workers : job'[w] # NoJob => Renders(job'[w], results')
<1>1. \A v \in Workers : /\ job[v] # NoJob => job[v].sent \in 0..3
                         /\ job'[v] # NoJob => job'[v].sent \in 0..3
  BY DEF Inv, GoodJobs, AnyJob
<1>2. Owed(job') \subseteq Owed(job)
  <2> SUFFICES ASSUME NEW v \in Workers, NEW i \in 0..2, job'[v] # NoJob, i >= job'[v].sent
               PROVE  job[v] # NoJob /\ i >= job[v].sent
    BY DEF Owed
  <2> QED
    BY <1>1 DEF Continues, Advances
<1> QED
  BY <1>2 DEF Continues, Advances, Pending

LEMMA FewerFinite ==
    ASSUME NEW S, IsFiniteSet(S), NEW T, T \subseteq S
    PROVE  /\ IsFiniteSet(T) /\ Cardinality(T) <= Cardinality(S)
           /\ Cardinality(T) \in Nat /\ Cardinality(S) \in Nat
           /\ \A x \in S : x \notin T => Cardinality(T) + 1 <= Cardinality(S)
<1>1. IsFiniteSet(T) /\ Cardinality(T) <= Cardinality(S)
  BY FS_Subset
<1>2. Cardinality(T) \in Nat /\ Cardinality(S) \in Nat
  BY <1>1, FS_CardinalityType
<1>3. ASSUME NEW x \in S, x \notin T
      PROVE  Cardinality(T) + 1 <= Cardinality(S)
  <2>1. IsFiniteSet(T \cup {x}) /\ Cardinality(T \cup {x}) = Cardinality(T) + 1
    BY <1>1, <1>3, FS_AddElement
  <2>2. T \cup {x} \in SUBSET S
    BY <1>3
  <2>3. Cardinality(T \cup {x}) <= Cardinality(S)
    BY <2>2, FS_Subset
  <2> QED
    BY <2>1, <2>3
<1> QED
  BY <1>1, <1>2, <1>3

LEMMA OneMore ==
    ASSUME NEW S, IsFiniteSet(S), NEW x, NEW T, T = S \cup {x}
    PROVE  IsFiniteSet(T) /\ Cardinality(T) \in Nat /\ Cardinality(T) <= Cardinality(S) + 1
<1>1. Cardinality(S) \in Nat
  BY FS_CardinalityType
<1>2. CASE x \in S
  <2>1. T = S
    BY <1>2
  <2> QED
    BY <1>1, <2>1
<1>3. CASE x \notin S
  <2>1. IsFiniteSet(T) /\ Cardinality(T) = Cardinality(S) + 1
    BY <1>3, FS_AddElement
  <2> QED
    BY <1>1, <2>1
<1> QED
  BY <1>2, <1>3

\* The account after a step of jobs that go on: a message posted, or a result
\* counted, is one that was owed.
LEMMA AccountKept ==
    ASSUME Inv, Inv', BoundInv, \A v \in Workers : Continues(job[v], job'[v], results'),
           events' = events, faults' \in 0..MaxFaults,
           \A i \in 1..Len(posts') : Shows(posts'[i], results'),
           \/ Len(posts') = Len(posts)
           \/ /\ Len(posts') = Len(posts) + 1
              /\ \E p \in Owed(job) : p \notin Owed(job'),
           \/ results' = results
           \/ /\ results' = results + 1
              /\ \E w \in Pending(job) : w \notin Pending(job')
    PROVE  BoundInv'
<1>1. /\ Owed(job') \subseteq Owed(job) /\ Pending(job') \subseteq Pending(job)
      /\ \A w \in Workers : job'[w] # NoJob => Renders(job'[w], results')
  BY OwesLess
<1>2. IsFiniteSet(Owed(job)) /\ IsFiniteSet(Pending(job))
  BY DEF BoundInv
<1>3. /\ IsFiniteSet(Owed(job')) /\ Cardinality(Owed(job')) <= Cardinality(Owed(job))
      /\ Cardinality(Owed(job')) \in Nat /\ Cardinality(Owed(job)) \in Nat
      /\ \A x \in Owed(job) : x \notin Owed(job')
            => Cardinality(Owed(job')) + 1 <= Cardinality(Owed(job))
  BY <1>1, <1>2, FewerFinite
<1>4. /\ IsFiniteSet(Pending(job')) /\ Cardinality(Pending(job')) <= Cardinality(Pending(job))
      /\ Cardinality(Pending(job')) \in Nat /\ Cardinality(Pending(job)) \in Nat
      /\ \A x \in Pending(job) : x \notin Pending(job')
            => Cardinality(Pending(job')) + 1 <= Cardinality(Pending(job))
  BY <1>1, <1>2, FewerFinite
<1>5. events \in Nat /\ results \in Nat /\ Len(posts) \in Nat
  BY StatsTopicAssumption DEF BoundInv, Inv
<1>6. Len(posts) + Cardinality(Owed(job)) <= 1 + 3 * events
  BY DEF BoundInv
<1>7. Len(posts') + Cardinality(Owed(job')) <= 1 + 3 * events
  <2>1. CASE Len(posts') = Len(posts)
    BY <1>3, <1>5, <1>6, <2>1
  <2>2. CASE /\ Len(posts') = Len(posts) + 1
             /\ \E p \in Owed(job) : p \notin Owed(job')
    <3>1. Cardinality(Owed(job')) + 1 <= Cardinality(Owed(job))
      BY <1>3, <2>2
    <3> QED
      BY <1>3, <1>5, <1>6, <2>2, <3>1
  <2> QED
    BY <2>1, <2>2
<1>8. results' + Cardinality(Pending(job')) <= events
  <2>1. results + Cardinality(Pending(job)) <= events
    BY DEF BoundInv
  <2>2. CASE results' = results
    BY <1>4, <1>5, <2>1, <2>2
  <2>3. CASE results' = results + 1 /\ \E w \in Pending(job) : w \notin Pending(job')
    <3>1. Cardinality(Pending(job')) + 1 <= Cardinality(Pending(job))
      BY <1>4, <2>3
    <3> QED
      BY <1>4, <1>5, <2>1, <2>3, <3>1
  <2> QED
    BY <2>2, <2>3
<1> QED
  BY <1>1, <1>3, <1>4, <1>7, <1>8 DEF BoundInv

\* A step of one job.
LEMMA OneContinues ==
    ASSUME Inv, BoundInv, results' \in {results, results + 1}, NEW w \in Workers,
           \A v \in Workers : v # w => job'[v] = job[v],
           Continues(job[w], job'[w], results')
    PROVE  \A v \in Workers : Continues(job[v], job'[v], results')
<1> SUFFICES ASSUME NEW v \in Workers, v # w
             PROVE  Continues(job[v], job[v], results')
  OBVIOUS
<1>1. Continues(job[v], job[v], results)
  BY ContinuesSame
<1>2. job[v] # NoJob => job[v].texts \in Seq(Nat)
  BY DEF Inv, GoodJobs, AnyJob
<1> QED
  BY <1>1, <1>2 DEF Continues, Advances, Renders, Inv

\* What the messages show while the results grow.
LEMMA ShowsMore ==
    ASSUME Inv, BoundInv, results' \in {results, results + 1}
    PROVE  \A i \in 1..Len(posts) : Shows(posts[i], results')
<1>1. \A i \in 1..Len(posts) : posts[i] \in AnyPost /\ Shows(posts[i], results)
  BY DEF Inv, BoundInv
<1> QED
  BY <1>1 DEF AnyPost, Shows, Inv

LEMMA SameLen ==
    ASSUME NEW S, NEW s \in Seq(S), NEW t \in Seq(S), DOMAIN t = DOMAIN s
    PROVE  Len(t) = Len(s)
<1>1. Len(s) \in Nat /\ Len(t) \in Nat /\ 1..Len(s) = 1..Len(t)
  OBVIOUS
<1>2. \A m, n \in Nat : 1..m = 1..n => m = n
  <2> SUFFICES ASSUME NEW m \in Nat, NEW n \in Nat, 1..m = 1..n, m # n
               PROVE  FALSE
    OBVIOUS
  <2>1. m \in 1..m => m \in 1..n
    OBVIOUS
  <2>2. n \in 1..n => n \in 1..m
    OBVIOUS
  <2> QED
    BY <2>1, <2>2
<1> QED
  BY <1>1, <1>2

LEMMA Retyped ==
    ASSUME NEW S, NEW T, NEW s \in Seq(S), \A i \in 1..Len(s) : s[i] \in T
    PROVE  s \in Seq(T)
OBVIOUS

LEMMA OneChanged ==
    ASSUME NEW S, NEW s \in Seq(S), NEW id \in 1..Len(s), NEW e, NEW t, t = [s EXCEPT ![id] = e]
    PROVE  \A i \in 1..Len(s) : t[i] = IF i = id THEN e ELSE s[i]
OBVIOUS

LEMMA ShowsDeleted ==
    ASSUME Inv, BoundInv, NEW id, DeleteMessage(id)
    PROVE  Len(posts') = Len(posts) /\ \A i \in 1..Len(posts') : Shows(posts'[i], results)
<1>1. \A i \in 1..Len(posts) : posts[i] \in AnyPost /\ Shows(posts[i], results)
  BY DEF Inv, BoundInv
<1>2. posts' = [posts EXCEPT ![id] = [posts[id] EXCEPT !.live = FALSE]] /\ posts \in Seq(AnyPost)
  BY DEF DeleteMessage, Inv
<1>3. Len(posts') = Len(posts)
  <2>1. posts' \in Seq(AnyPost) /\ DOMAIN posts' = DOMAIN posts
    BY <1>2, DeleteKeeps
  <2> QED
    BY <1>2, <2>1, SameLen
<1>4. CASE id \in 1..Len(posts)
  <2>1. PICK p \in AnyPost : p = posts[id]
    BY <1>1, <1>4
  <2>2. PICK e \in AnyPost : e = [p EXCEPT !.live = FALSE]
    BY DEF AnyPost
  <2>3. e.topic = p.topic /\ e.shows = p.shows
    BY <2>2 DEF AnyPost
  <2>4. posts' = [posts EXCEPT ![id] = e]
    BY <1>2, <2>1, <2>2
  <2>5. \A i \in 1..Len(posts) : posts'[i] = IF i = id THEN e ELSE posts[i]
    <3>1. posts \in Seq(AnyPost)
      BY <1>2
    <3>2. \A q : q = [posts EXCEPT ![id] = e]
              => \A i \in 1..Len(posts) : q[i] = IF i = id THEN e ELSE posts[i]
      BY <1>4, <3>1, OneChanged
    <3> QED
      BY <2>4, <3>2, Zenon
  <2>6. \A i \in 1..Len(posts) : Shows(posts'[i], results)
    BY <1>1, <1>4, <2>1, <2>3, <2>5 DEF Shows
  <2> QED
    BY <1>3, <2>6
<1>5. CASE id \notin 1..Len(posts)
  <2>1. DOMAIN posts = 1..Len(posts) /\ posts = [i \in 1..Len(posts) |-> posts[i]]
    BY <1>2
  <2>2. posts' = posts
    BY <1>2, <1>5, <2>1
  <2> QED
    BY <1>1, <2>2
<1> QED
  BY <1>4, <1>5

LEMMA ShowsEdited ==
    ASSUME Inv, BoundInv, NEW id, Found(id), NEW n \in Nat, n <= results, EditMessage(id, n)
    PROVE  Len(posts') = Len(posts) /\ \A i \in 1..Len(posts') : Shows(posts'[i], results)
<1>1. \A i \in 1..Len(posts) : posts[i] \in AnyPost /\ Shows(posts[i], results)
  BY DEF Inv, BoundInv
<1>2. posts' = [posts EXCEPT ![id].shows = n] /\ posts \in Seq(AnyPost)
  BY DEF EditMessage, Inv
<1>3. Len(posts') = Len(posts)
  <2>1. posts' \in Seq(AnyPost) /\ DOMAIN posts' = DOMAIN posts
    BY <1>2, EditKeeps
  <2> QED
    BY <1>2, <2>1, SameLen
<1>4. \A i \in 1..Len(posts) :
         posts'[i] = IF i = id THEN [posts[i] EXCEPT !.shows = n] ELSE posts[i]
  BY <1>2
<1>5. \A i \in 1..Len(posts) : Shows(posts'[i], results)
  BY <1>1, <1>4 DEF AnyPost, Shows
<1> QED
  BY <1>3, <1>5

\* A refresh at its turn has a text that counts no more than there is, a topic
\* to post it in, and a message to post.
LEMMA TurnOwed ==
    ASSUME Inv, BoundInv, NEW w \in Workers, At(w, "post")
    PROVE  /\ Text(w) \in Nat /\ Text(w) <= results /\ job[w].g.stats \in Topics
           /\ <<w, job[w].sent>> \in Owed(job)
           /\ Renders(job[w], results)
<1>1. job[w] \in AnyJob /\ InStep(job[w]) /\ Renders(job[w], results)
  BY BusyJob DEF At, GoodJob, BoundInv, Busy
<1>2. job[w].at = "post" /\ job[w] # NoJob
  BY DEF At, Busy
<1>3. job[w].g \in Rows /\ job[w].sent \in 0..2 /\ Len(job[w].texts) = 3
  BY <1>1, <1>2 DEF InStep, AnyJob
<1>4. job[w].sent + 1 \in 1..Len(job[w].texts)
  BY <1>3
<1>5. Text(w) <= results
  BY <1>1, <1>4 DEF Renders, Text
<1>6. job[w].g.stats \in Topics
  BY <1>1, <1>2, <1>3 DEF Renders, Early, Rows
<1>7. <<w, job[w].sent>> \in Owed(job)
  BY <1>2, <1>3 DEF Owed
<1> QED
  BY <1>1, <1>5, <1>6, <1>7, PostingJob

LEMMA ShowsSent ==
    ASSUME Inv, BoundInv, NEW w \in Workers, At(w, "post"),
           SendMessage(Turn(w), job[w].g.stats, Text(w))
    PROVE  Len(posts') = Len(posts) + 1 /\ \A i \in 1..Len(posts') : Shows(posts'[i], results)
<1> DEFINE e == [topic |-> job[w].g.stats, kind |-> Turn(w), shows |-> Text(w), live |-> TRUE]
<1>1. posts \in Seq(AnyPost) /\ \A i \in 1..Len(posts) : Shows(posts[i], results)
  BY DEF Inv, BoundInv
<1>2. Shows(e, results) /\ e \in AnyPost
  BY TurnOwed, PostingJob DEF Shows, AnyPost
<1>3. posts' = Append(posts, e)
  BY DEF SendMessage
<1> HIDE DEF e
<1>4. /\ Len(posts') = Len(posts) + 1 /\ posts'[Len(posts) + 1] = e
      /\ \A i \in 1..Len(posts) : posts'[i] = posts[i]
  BY <1>1, <1>2, <1>3
<1>5. \A i \in 1..(Len(posts) + 1) : i \in 1..Len(posts) \/ i = Len(posts) + 1
  BY <1>1
<1> QED
  BY <1>1, <1>2, <1>4, <1>5

\* The turn over, its message is no longer owed.
LEMMA PostedAdvances ==
    ASSUME Inv, BoundInv, NEW w \in Workers, At(w, "post"), NEW id \in Nat
    PROVE  Advances(job[w], Posted(w, id), results) /\ Posted(w, id).sent > job[w].sent
<1>1. /\ Posted(w, id).g = [job[w].g EXCEPT !.ids[Turn(w)] = id]
      /\ Posted(w, id).sent = job[w].sent + 1
      /\ Posted(w, id).texts = job[w].texts
      /\ Posted(w, id).at \in {"save", "post"}
  BY PostedFields
<1>2. Posted(w, id).g.stats = job[w].g.stats
  BY <1>1, TurnRow
<1>3. job[w] \in AnyJob /\ job[w].at = "post" /\ job[w] # NoJob /\ job[w].sent \in 0..3
  BY BusyJob DEF At, GoodJob, Busy, AnyJob
<1>4. Posted(w, id).cmd = job[w].cmd
  <2> DEFINE d == job[w].dirty \/ id # StoredId(w)
             a == IF job[w].sent = 2 THEN "save" ELSE "post"
             h == [job[w].g EXCEPT !.ids[Turn(w)] = id]
  <2>1. Posted(w, id) = [job[w] EXCEPT !.sent = job[w].sent + 1, !.g = h, !.dirty = d, !.at = a]
    BY <1>3 DEF AnyJob, Posted
  <2> HIDE DEF d, a, h
  <2> QED
    BY <1>3, <2>1 DEF AnyJob
<1>5. Renders(Posted(w, id), results)
  BY <1>1, <1>2, <1>3, TurnOwed DEF Renders, Early
<1> QED
  BY <1>1, <1>3, <1>4, <1>5 DEF Advances, Early

LEMMA NotOwed ==
    ASSUME NEW w \in Workers, NEW f, NEW n \in 0..2,
           f[w] = NoJob \/ (f[w].sent \in 0..3 /\ f[w].sent > n)
    PROVE  <<w, n>> \notin Owed(f)
BY DEF Owed

\* The handlers up to the refresh.
LEMMA BoundCommands ==
    ASSUME Inv, Inv', BoundInv, NEW w \in Workers,
           \/ ReadRow(w) \/ BotRegisterGroup(w) \/ SetMatchesTopic(w)
           \/ SetStatsTopic(w) \/ CountResult(w)
    PROVE  BoundInv'
<1>1. At(w, "read") \/ At(w, "write")
  BY DEF ReadRow, BotRegisterGroup, SetMatchesTopic, SetStatsTopic, CountResult
<1>2. job[w] \in AnyJob /\ job[w].texts = <<>> /\ job[w].sent = 0 /\ job[w] # NoJob /\ Early(job[w])
  BY <1>1, BusyJob DEF At, GoodJob, InStep, Busy, Early
<1>3. events' = events /\ faults' = faults /\ posts' = posts /\ results' \in {results, results + 1}
  BY DEF ReadRow, BotRegisterGroup, SetMatchesTopic, SetStatsTopic, CountResult
<1>4. faults' \in 0..MaxFaults /\ \A i \in 1..Len(posts') : Shows(posts'[i], results')
  BY <1>3, ShowsMore DEF BoundInv
<1>5. ASSUME NEW g, At(w, "write"), Refresh(w, g)
      PROVE  /\ \A v \in Workers : Continues(job[v], job'[v], results')
             /\ w \notin Pending(job')
  <2>1. job' = [job EXCEPT ![w] = IF FullyConfigured(g)
                                  THEN [job[w] EXCEPT !.at = "render", !.g = g] ELSE NoJob]
    BY <1>5 DEF Refresh
  <2>2. CASE FullyConfigured(g)
    <3>1. /\ job'[w] = [job[w] EXCEPT !.at = "render", !.g = g]
          /\ \A v \in Workers : v # w => job'[v] = job[v]
      BY <2>1, <2>2, Replaced
    <3>2. /\ job'[w].at = "render" /\ job'[w].g = g /\ job'[w].texts = <<>>
          /\ job'[w].sent = 0 /\ job'[w].cmd = job[w].cmd
      BY <1>2, <3>1 DEF AnyJob
    <3>3. Continues(job[w], job'[w], results')
      BY <1>2, <2>2, <3>2 DEF Continues, Advances, Renders, Early, FullyConfigured
    <3>4. w \notin Pending(job')
      BY <3>2 DEF Pending, Early
    <3> QED
      BY <1>3, <3>1, <3>3, <3>4, OneContinues
  <2>3. CASE ~FullyConfigured(g)
    <3>1. job'[w] = NoJob /\ \A v \in Workers : v # w => job'[v] = job[v]
      BY <2>1, <2>3, Replaced
    <3>2. Continues(job[w], job'[w], results') /\ w \notin Pending(job')
      BY <3>1 DEF Continues, Advances, Pending
    <3> QED
      BY <1>3, <3>1, <3>2, OneContinues
  <2> QED
    BY <2>2, <2>3
<1>6. CASE ReadRow(w)
  <2>1. PICK j \in {NoJob, [job[w] EXCEPT !.at = "write", !.g = row]} : job' = [job EXCEPT ![w] = j]
    BY <1>6 DEF ReadRow
  <2>2. job'[w] = j /\ \A v \in Workers : v # w => job'[v] = job[v]
    BY <2>1, Replaced
  <2>3. j = NoJob \/ (/\ j.at = "write" /\ j.texts = <<>> /\ j.sent = 0 /\ j.cmd = job[w].cmd)
    BY <1>2 DEF AnyJob
  <2>4. Continues(job[w], job'[w], results')
    BY <1>2, <2>2, <2>3 DEF Continues, Advances, Renders, Early
  <2>5. results' = results
    BY <1>6 DEF ReadRow
  <2> QED
    BY <1>3, <1>4, <2>2, <2>4, <2>5, OneContinues, AccountKept
<1>7. CASE BotRegisterGroup(w) \/ SetMatchesTopic(w)
  <2>1. Finish(w) /\ results' = results
    BY <1>7 DEF BotRegisterGroup, SetMatchesTopic
  <2>2. job'[w] = NoJob /\ \A v \in Workers : v # w => job'[v] = job[v]
    BY <2>1, Replaced DEF Finish
  <2>3. Continues(job[w], job'[w], results')
    BY <2>2 DEF Continues, Advances
  <2> QED
    BY <1>3, <1>4, <2>1, <2>2, <2>3, OneContinues, AccountKept
<1>8. CASE SetStatsTopic(w)
  <2>1. At(w, "write") /\ Refresh(w, row') /\ results' = results
    BY <1>8 DEF SetStatsTopic
  <2>2. \A v \in Workers : Continues(job[v], job'[v], results')
    BY <1>5, <2>1
  <2> QED
    BY <1>3, <1>4, <2>1, <2>2, AccountKept
<1>9. CASE CountResult(w)
  <2>1. At(w, "write") /\ Refresh(w, job[w].g) /\ results' = results + 1 /\ job[w].cmd = "result"
    BY <1>9 DEF CountResult
  <2>2. (\A v \in Workers : Continues(job[v], job'[v], results')) /\ w \notin Pending(job')
    BY <1>5, <2>1
  <2>3. w \in Pending(job)
    BY <1>2, <2>1 DEF Pending
  <2> QED
    BY <1>3, <1>4, <2>1, <2>2, <2>3, AccountKept
<1> QED
  BY <1>6, <1>7, <1>8, <1>9

\* refreshStatsTopic.
LEMMA BoundRefresh ==
    ASSUME Inv, Inv', BoundInv, NEW w \in Workers,
           Render(w) \/ SweepOrphans(w) \/ UpsertByEdit(w) \/ UpsertBySend(w) \/ SaveRow(w)
    PROVE  BoundInv'
<1>1. events' = events /\ faults' = faults /\ results' = results
  BY DEF Render, SweepOrphans, UpsertByEdit, UpsertBySend, SaveRow
<1>2. faults' \in 0..MaxFaults /\ \A i \in 1..Len(posts) : Shows(posts[i], results')
  BY <1>1, ShowsMore DEF BoundInv
<1>3. job[w] \in AnyJob /\ job[w] # NoJob /\ InStep(job[w]) /\ Renders(job[w], results)
  BY BusyJob DEF Render, SweepOrphans, UpsertByEdit, UpsertBySend, SaveRow, At, GoodJob, Busy, BoundInv
<1>4. ASSUME NEW j, job' = [job EXCEPT ![w] = j], Continues(job[w], j, results)
      PROVE  job'[w] = j /\ \A v \in Workers : Continues(job[v], job'[v], results')
  BY <1>1, <1>4, Replaced, OneContinues
<1>5. CASE Render(w)
  <2> DEFINE texts == Append(job[w].texts, results)
  <2>1. PICK at \in {"render", "sweep"} :
            job' = [job EXCEPT ![w] = [job[w] EXCEPT !.texts = texts, !.at = at]]
    <3>1. CASE Len(texts) = 3
      BY <1>5, <3>1 DEF Render
    <3>2. CASE Len(texts) # 3
      BY <1>5, <3>2 DEF Render
    <3> QED
      BY <3>1, <3>2
  <2>2. texts \in Seq(Nat) /\ \A i \in 1..Len(texts) : texts[i] <= results
    <3>1. job[w].texts \in Seq(Nat) /\ results \in Nat
      BY <1>3 DEF AnyJob, Inv
    <3>2. /\ Len(texts) = Len(job[w].texts) + 1 /\ texts[Len(job[w].texts) + 1] = results
          /\ \A i \in 1..Len(job[w].texts) : texts[i] = job[w].texts[i]
      BY <3>1
    <3>3. \A i \in 1..Len(texts) : i \in 1..Len(job[w].texts) \/ i = Len(job[w].texts) + 1
      BY <3>1, <3>2
    <3> QED
      BY <1>3, <3>1, <3>2, <3>3 DEF Renders
  <2>3. job[w].at = "render"
    BY <1>5 DEF Render, At
  <2> HIDE DEF texts
  <2> DEFINE j == [job[w] EXCEPT !.texts = texts, !.at = at]
  <2>4. j.texts = texts /\ j.at = at /\ j.g = job[w].g /\ j.sent = job[w].sent /\ j.cmd = job[w].cmd
    BY <1>3, <2>2 DEF AnyJob
  <2>5. job[w].sent \in 0..3
    BY <1>3 DEF AnyJob
  <2> HIDE DEF j
  <2>6. Continues(job[w], j, results)
    BY <1>3, <2>2, <2>3, <2>4, <2>5 DEF Continues, Advances, Renders, Early
  <2>7. posts' = posts /\ job' = [job EXCEPT ![w] = j]
    BY <1>5, <2>1 DEF Render, j
  <2> QED
    BY <1>1, <1>2, <1>4, <2>6, <2>7, AccountKept
<1>6. CASE SweepOrphans(w)
  <2> DEFINE d == job[w].g.legacy # 0
             h == [job[w].g EXCEPT !.legacy = 0]
             j == [job[w] EXCEPT !.at = "post", !.g = h, !.dirty = d]
  <2>1. job[w].at = "sweep" /\ job' = [job EXCEPT ![w] = j]
    BY <1>6 DEF SweepOrphans, At
  <2>2. job[w].g \in Rows /\ job[w].sent \in 0..3
    BY <1>3, <2>1 DEF InStep, AnyJob
  <2>3. h.stats = job[w].g.stats
    BY <2>2 DEF Rows
  <2> HIDE DEF d, h
  <2>4. j.at = "post" /\ j.g = h /\ j.texts = job[w].texts /\ j.sent = job[w].sent /\ j.cmd = job[w].cmd
    BY <1>3 DEF AnyJob
  <2> HIDE DEF j
  <2>5. Continues(job[w], j, results)
    BY <1>3, <2>1, <2>2, <2>3, <2>4 DEF Continues, Advances, Renders, Early
  <2>6. Len(posts') = Len(posts) /\ \A i \in 1..Len(posts') : Shows(posts'[i], results')
    BY <1>1, <1>2, <1>6, ShowsDeleted DEF SweepOrphans
  <2> QED
    BY <1>1, <1>2, <1>4, <2>1, <2>5, <2>6, AccountKept
<1>7. CASE UpsertByEdit(w)
  <2>1. /\ At(w, "post") /\ Found(StoredId(w)) /\ EditMessage(StoredId(w), Text(w))
        /\ job' = [job EXCEPT ![w] = Posted(w, StoredId(w))]
    BY <1>7 DEF UpsertByEdit
  <2>2. Continues(job[w], Posted(w, StoredId(w)), results)
    BY <2>1, PostingJob, PostedAdvances DEF Continues
  <2>3. Len(posts') = Len(posts) /\ \A i \in 1..Len(posts') : Shows(posts'[i], results')
    BY <1>1, <2>1, TurnOwed, ShowsEdited
  <2> QED
    BY <1>1, <1>2, <1>4, <2>1, <2>2, <2>3, AccountKept
<1>8. CASE UpsertBySend(w)
  <2>1. /\ At(w, "post") /\ SendMessage(Turn(w), job[w].g.stats, Text(w))
        /\ job' = [job EXCEPT ![w] = Posted(w, Len(posts) + 1)]
    BY <1>8 DEF UpsertBySend
  <2>2. Len(posts) + 1 \in Nat
    BY DEF Inv
  <2>3. /\ Continues(job[w], Posted(w, Len(posts) + 1), results)
        /\ Posted(w, Len(posts) + 1).sent > job[w].sent
    BY <2>1, <2>2, PostedAdvances DEF Continues
  <2>4. Len(posts') = Len(posts) + 1 /\ \A i \in 1..Len(posts') : Shows(posts'[i], results')
    BY <1>1, <2>1, ShowsSent
  <2>5. job'[w] = Posted(w, Len(posts) + 1) /\ \A v \in Workers : Continues(job[v], job'[v], results')
    BY <1>4, <2>1, <2>3
  <2>6. job[w].sent \in 0..2
    BY <1>3, <2>1 DEF InStep, AnyJob, At
  <2>7. job'[w] = NoJob \/ job'[w].sent \in 0..3
    BY DEF Inv, GoodJobs, AnyJob
  <2>8. <<w, job[w].sent>> \in Owed(job) /\ <<w, job[w].sent>> \notin Owed(job')
    BY <2>1, <2>3, <2>5, <2>6, <2>7, TurnOwed, NotOwed
  <2> QED
    BY <1>1, <1>2, <2>4, <2>5, <2>8, AccountKept
<1>9. CASE SaveRow(w)
  <2>1. job' = [job EXCEPT ![w] = NoJob] /\ posts' = posts
    BY <1>9 DEF SaveRow, Finish
  <2>2. Continues(job[w], NoJob, results)
    BY DEF Continues, Advances
  <2> QED
    BY <1>1, <1>2, <1>4, <2>1, <2>2, AccountKept
<1> QED
  BY <1>5, <1>6, <1>7, <1>8, <1>9

\* Failing calls, killed refreshes and messages deleted by hand.
LEMMA BoundFaults ==
    ASSUME Inv, Inv', BoundInv,
           \/ \E w \in Workers :
                 EditFails(w) \/ SendFails(w) \/ RegisterUnread(w) \/ Abandon(w)
           \/ \E id \in DOMAIN posts : DeletedByHand(id)
    PROVE  BoundInv'
<1>1. events' = events /\ results' = results /\ Fault
  BY DEF EditFails, SendFails, RegisterUnread, Abandon, DeletedByHand
<1>2. faults' \in 0..MaxFaults
  BY <1>1, StatsTopicAssumption DEF Fault, BoundInv
<1>3. \A i \in 1..Len(posts) : Shows(posts[i], results')
  BY <1>1, ShowsMore
<1>4. ASSUME NEW w \in Workers, NEW j, job' = [Disturbed EXCEPT ![w] = j], Continues(job[w], j, results)
      PROVE  job'[w] = j /\ \A v \in Workers : Continues(job[v], job'[v], results')
  <2>1. job'[w] = j /\ \A v \in Workers : v # w => job'[v] = Disturbed[v]
    BY <1>4 DEF Disturbed
  <2> QED
    BY <1>1, <1>4, <2>1, ContinuesAllDisturbed
<1>5. ASSUME NEW w \in Workers, EditFails(w)
      PROVE  BoundInv'
  <2> DEFINE j == [Posted(w, StoredId(w)) EXCEPT !.clean = FALSE]
  <2>1. At(w, "post") /\ job' = [Disturbed EXCEPT ![w] = j] /\ posts' = posts
    BY <1>5 DEF EditFails
  <2>2. GoodJob(Posted(w, StoredId(w)), posts)
    BY <2>1, PostingJob, PostedGood DEF Kept
  <2>3. Advances(job[w], Posted(w, StoredId(w)), results)
    BY <2>1, PostingJob, PostedAdvances
  <2>4. Posted(w, StoredId(w)) \in AnyJob
    BY <2>2 DEF GoodJob
  <2>5. Continues(job[w], j, results)
    BY <2>3, <2>4, AdvancesDisturbed DEF Continues
  <2> HIDE DEF j
  <2> QED
    BY <1>1, <1>2, <1>3, <1>4, <2>1, <2>5, AccountKept
<1>6. ASSUME NEW w \in Workers, SendFails(w) \/ Abandon(w)
      PROVE  BoundInv'
  <2>1. job' = [Disturbed EXCEPT ![w] = NoJob]
    BY <1>6 DEF SendFails, Abandon
  <2>2. job'[w] = NoJob /\ \A v \in Workers : Continues(job[v], job'[v], results')
    BY <1>4, <2>1 DEF Continues, Advances
  <2>3. CASE UNCHANGED posts
    BY <1>1, <1>2, <1>3, <2>2, <2>3, AccountKept
  <2>4. CASE At(w, "post") /\ SendMessage(Turn(w), job[w].g.stats, Text(w))
    <3>1. Len(posts') = Len(posts) + 1 /\ \A i \in 1..Len(posts') : Shows(posts'[i], results')
      BY <1>1, <2>4, ShowsSent
    <3>2. job[w].sent \in 0..2
      BY <2>4, BusyJob DEF At, GoodJob, InStep, AnyJob
    <3>3. <<w, job[w].sent>> \in Owed(job) /\ <<w, job[w].sent>> \notin Owed(job')
      BY <2>2, <2>4, <3>2, TurnOwed, NotOwed
    <3> QED
      BY <1>1, <1>2, <2>2, <3>1, <3>3, AccountKept
  <2> QED
    BY <1>6, <2>3, <2>4 DEF SendFails, Abandon
<1>7. ASSUME NEW id \in DOMAIN posts, DeletedByHand(id)
      PROVE  BoundInv'
  <2>1. job' = Disturbed /\ DeleteMessage(id)
    BY <1>7 DEF DeletedByHand
  <2>2. \A v \in Workers : Continues(job[v], job'[v], results')
    BY <1>1, <2>1, ContinuesAllDisturbed
  <2>3. Len(posts') = Len(posts) /\ \A i \in 1..Len(posts') : Shows(posts'[i], results')
    BY <1>1, <2>1, ShowsDeleted
  <2> QED
    BY <1>1, <1>2, <2>2, <2>3, AccountKept
<1>8. ASSUME NEW w \in Workers, RegisterUnread(w)
      PROVE  BoundInv'
  <2> DEFINE j == [job[w] EXCEPT !.at = "write", !.clean = FALSE]
  <2>1. /\ At(w, "read") /\ posts' = posts /\ job' = [Disturbed EXCEPT ![w] = j]
    BY <1>8 DEF RegisterUnread
  <2>2. job[w] \in AnyJob /\ job[w].texts = <<>> /\ job[w].sent = 0 /\ job[w] # NoJob /\ Early(job[w])
    BY <2>1, BusyJob DEF At, GoodJob, InStep, Busy, Early
  <2>3. j.at = "write" /\ j.texts = <<>> /\ j.sent = 0 /\ j.cmd = job[w].cmd
    BY <2>2 DEF AnyJob
  <2> HIDE DEF j
  <2>4. Continues(job[w], j, results)
    BY <2>2, <2>3 DEF Continues, Advances, Renders, Early
  <2> QED
    BY <1>1, <1>2, <1>3, <1>4, <2>1, <2>4, AccountKept
<1> QED
  BY <1>5, <1>6, <1>7, <1>8

\* An update served is three messages and one result more that may be owed.
LEMMA BoundReceive ==
    ASSUME Inv, Inv', BoundInv, NEW w \in Workers, NEW cmd \in Commands, NEW t \in Topics,
           Receive(w, cmd, t)
    PROVE  BoundInv'
<1> DEFINE alone == \A v \in Workers : ~Busy(v)
           j == [at |-> "read", cmd |-> cmd, topic |-> t, g |-> NoRow, texts |-> <<>>,
                 sent |-> 0, dirty |-> FALSE, clean |-> alone]
           three == {<<w, 0>>, <<w, 1>>, <<w, 2>>}
<1>1. job' = [Disturbed EXCEPT ![w] = j] /\ UNCHANGED <<posts, results>>
  BY DEF Receive
<1>2. events < MaxEvents /\ events' = events + 1
  BY DEF Receive
<1>3. j.at = "read" /\ j.texts = <<>>
  OBVIOUS
<1> HIDE DEF j
<1>4. job'[w] = j /\ \A v \in Workers : v # w => job'[v] = Disturbed[v]
  BY <1>1 DEF Disturbed
<1>5. \A v \in Workers : v # w => Continues(job[v], job'[v], results)
  BY <1>4, ContinuesAllDisturbed
<1>6. \A v \in Workers : job'[v] # NoJob => Renders(job'[v], results)
  <2>1. Renders(j, results)
    BY <1>3 DEF Renders, Early
  <2> QED
    BY <1>4, <1>5, <2>1 DEF Continues, Advances
<1>7. \A v \in Workers : /\ job[v] # NoJob => job[v].sent \in 0..3
                         /\ job'[v] # NoJob => job'[v].sent \in 0..3
  BY DEF Inv, GoodJobs, AnyJob
<1>8. Owed(job') \subseteq Owed(job) \cup three
  <2> SUFFICES ASSUME NEW v \in Workers, NEW i \in 0..2, job'[v] # NoJob, i >= job'[v].sent,
                      v # w
               PROVE  job[v] # NoJob /\ i >= job[v].sent
    BY DEF Owed
  <2> QED
    BY <1>5, <1>7 DEF Continues, Advances
<1>9. Pending(job') \subseteq Pending(job) \cup {w}
  BY <1>5 DEF Continues, Advances, Pending
<1>10. IsFiniteSet(Owed(job')) /\ Cardinality(Owed(job')) <= Cardinality(Owed(job)) + 3
  <2>1. IsFiniteSet(Owed(job)) /\ Cardinality(Owed(job)) \in Nat
    BY FS_CardinalityType DEF BoundInv
  <2>2. PICK A : A = Owed(job) \cup {<<w, 0>>}
    OBVIOUS
  <2>3. PICK B : B = A \cup {<<w, 1>>}
    OBVIOUS
  <2>4. Owed(job) \cup three = B \cup {<<w, 2>>}
    BY <2>2, <2>3
  <2>5. /\ IsFiniteSet(A) /\ Cardinality(A) \in Nat
        /\ Cardinality(A) <= Cardinality(Owed(job)) + 1
    BY <2>1, <2>2, OneMore
  <2> HIDE DEF three
  <2>6. /\ IsFiniteSet(Owed(job) \cup three)
        /\ Cardinality(Owed(job) \cup three) <= Cardinality(Owed(job)) + 3
        /\ Cardinality(Owed(job) \cup three) \in Nat
    <3>1. IsFiniteSet(B) /\ Cardinality(B) \in Nat /\ Cardinality(B) <= Cardinality(A) + 1
      BY <2>3, <2>5, OneMore
    <3>2. PICK C : C = Owed(job) \cup three
      OBVIOUS
    <3>3. IsFiniteSet(C) /\ Cardinality(C) \in Nat /\ Cardinality(C) <= Cardinality(B) + 1
      BY <2>4, <3>1, <3>2, OneMore
    <3>4. Cardinality(C) <= Cardinality(Owed(job)) + 3
      BY <2>1, <2>5, <3>1, <3>3
    <3> QED
      BY <3>2, <3>3, <3>4
  <2>7. /\ IsFiniteSet(Owed(job')) /\ Cardinality(Owed(job')) \in Nat
        /\ Cardinality(Owed(job')) <= Cardinality(Owed(job) \cup three)
    BY <1>8, <2>6, FewerFinite
  <2> QED
    BY <2>1, <2>6, <2>7
<1>11. IsFiniteSet(Pending(job')) /\ Cardinality(Pending(job')) <= Cardinality(Pending(job)) + 1
  <2>1. IsFiniteSet(Pending(job)) /\ Cardinality(Pending(job)) \in Nat
    BY FS_CardinalityType DEF BoundInv
  <2>2. /\ IsFiniteSet(Pending(job) \cup {w})
        /\ Cardinality(Pending(job) \cup {w}) <= Cardinality(Pending(job)) + 1
        /\ Cardinality(Pending(job) \cup {w}) \in Nat
    BY <2>1, OneMore
  <2>3. /\ IsFiniteSet(Pending(job')) /\ Cardinality(Pending(job')) \in Nat
        /\ Cardinality(Pending(job')) <= Cardinality(Pending(job) \cup {w})
    BY <1>9, <2>2, FewerFinite
  <2> QED
    BY <2>1, <2>2, <2>3
<1>12. /\ Cardinality(Owed(job)) \in Nat /\ Cardinality(Owed(job')) \in Nat
       /\ Cardinality(Pending(job)) \in Nat /\ Cardinality(Pending(job')) \in Nat
       /\ Len(posts) \in Nat /\ results \in Nat /\ events \in Nat
  BY <1>10, <1>11, FS_CardinalityType, StatsTopicAssumption DEF BoundInv, Inv
<1>13. Len(posts) + Cardinality(Owed(job')) <= 1 + 3 * (events + 1)
  <2>1. Len(posts) + Cardinality(Owed(job)) <= 1 + 3 * events
    BY DEF BoundInv
  <2> QED
    BY <1>10, <1>12, <2>1
<1>14. results + Cardinality(Pending(job')) <= events + 1
  <2>1. results + Cardinality(Pending(job)) <= events
    BY DEF BoundInv
  <2> QED
    BY <1>11, <1>12, <2>1
<1>15. events' \in 0..MaxEvents
  BY <1>2, <1>12, StatsTopicAssumption
<1>16. faults' \in 0..MaxFaults
  BY StatsTopicAssumption DEF Receive, Fault, BoundInv
<1> QED
  BY <1>1, <1>2, <1>6, <1>10, <1>11, <1>13, <1>14, <1>15, <1>16 DEF BoundInv

LEMMA BoundInit == Init => BoundInv
<1> SUFFICES ASSUME Init PROVE BoundInv
  OBVIOUS
<1>1. \A w \in Workers : job[w] = NoJob
  BY DEF Init
<1>2. Owed(job) = {} /\ Pending(job) = {}
  BY <1>1 DEF Owed, Pending
<1>3. /\ IsFiniteSet(Owed(job)) /\ Cardinality(Owed(job)) = 0
      /\ IsFiniteSet(Pending(job)) /\ Cardinality(Pending(job)) = 0
  BY <1>2, FS_EmptySet
<1>4. events = 0 /\ faults = 0 /\ results = 0
  BY DEF Init
<1>5. events \in 0..MaxEvents /\ faults \in 0..MaxFaults
  BY <1>4, StatsTopicAssumption
<1>6. Len(posts) <= 1 /\ Len(posts) \in Nat /\ \A i \in 1..Len(posts) : Shows(posts[i], results)
  <2>1. CASE posts = <<>>
    BY <2>1
  <2>2. ASSUME NEW u \in Topics,
               posts = <<[topic |-> u, kind |-> "legacy", shows |-> 0, live |-> TRUE]>>
        PROVE  Len(posts) <= 1 /\ Len(posts) \in Nat /\ \A i \in 1..Len(posts) : Shows(posts[i], results)
    BY <1>4, <2>2 DEF Shows
  <2> QED
    BY <2>1, <2>2 DEF Init
<1>7. Len(posts) + 0 <= 1 + 3 * events /\ results + 0 <= events
  BY <1>4, <1>6
<1> QED
  BY <1>1, <1>3, <1>5, <1>6, <1>7 DEF BoundInv

LEMMA BoundStep == Inv /\ BoundInv /\ [Next]_vars => BoundInv'
<1> SUFFICES ASSUME Inv, BoundInv, [Next]_vars
             PROVE  BoundInv'
  OBVIOUS
<1>1. Inv'
  BY NextInv
<1>2. ASSUME NEW w \in Workers, Step(w)
      PROVE  BoundInv'
  BY <1>1, <1>2, BoundCommands, BoundRefresh DEF Step
<1>3. CASE UNCHANGED vars
  BY <1>3 DEF vars, BoundInv
<1> QED
  BY <1>1, <1>2, <1>3, BoundReceive, BoundFaults DEF Next

\* Every reachable state is well typed: whatever overlaps or fails, the group
\* gets at most three messages per update served, on top of the one an older
\* bot left, each of them in a real topic and counting results that happened.
THEOREM StatsTopicTypes == Spec => []TypeOK
<1>1. Inv /\ BoundInv /\ ToldInv => TypeOK
  <2> SUFFICES ASSUME Inv, BoundInv, ToldInv
               PROVE  TypeOK
    OBVIOUS
  <2>1. /\ Cardinality(Owed(job)) \in Nat /\ Cardinality(Pending(job)) \in Nat
        /\ Len(posts) \in Nat /\ results \in Nat /\ events \in 0..MaxEvents
    BY FS_CardinalityType DEF BoundInv, Inv
  <2>2. Len(posts) <= MaxPosts
    <3>1. Len(posts) + Cardinality(Owed(job)) <= 1 + 3 * events
      BY DEF BoundInv
    <3> QED
      BY <2>1, <3>1, StatsTopicAssumption DEF MaxPosts
  <2>3. results \in 0..MaxEvents
    <3>1. results + Cardinality(Pending(job)) <= events
      BY DEF BoundInv
    <3> QED
      BY <2>1, <3>1, StatsTopicAssumption
  <2>4. posts \in Seq(Posts)
    <3>1. \A i \in 1..Len(posts) : posts[i] \in AnyPost /\ Shows(posts[i], results)
      BY DEF Inv, BoundInv
    <3>2. \A i \in 1..Len(posts) : posts[i] \in Posts
      BY <2>3, <3>1, StatsTopicAssumption DEF Shows, AnyPost, Posts
    <3> QED
      BY <3>2, Retyped DEF Inv
  <2>5. ASSUME NEW w \in Workers, job[w] # NoJob
        PROVE  job[w] \in Jobs
    <3>1. job[w] \in AnyJob /\ Renders(job[w], results)
      BY <2>5 DEF Inv, GoodJobs, BoundInv
    <3>2. job[w].texts \in Seq(Nat)
      BY <3>1 DEF AnyJob
    <3>3. \A i \in 1..Len(job[w].texts) : job[w].texts[i] \in 0..MaxEvents
      BY <2>3, <3>1, <3>2, StatsTopicAssumption DEF Renders
    <3>4. job[w].texts \in Seq(0..MaxEvents)
      BY <3>2, <3>3, Retyped
    <3> QED
      BY <3>1, <3>4 DEF AnyJob, Jobs
  <2>6. job \in [Workers -> Jobs \cup {NoJob}]
    BY <2>5 DEF Inv, GoodJobs
  <2> QED
    BY <2>2, <2>3, <2>4, <2>6 DEF TypeOK, Inv, BoundInv, ToldInv, HistoryTyped
<1> QED
  BY <1>1, InitInv, NextInv, BoundInit, BoundStep, ToldInit, ToldStep, PTL DEF Spec

=============================================================================
