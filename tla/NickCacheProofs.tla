-------------------------- MODULE NickCacheProofs ---------------------------
(***************************************************************************)
(* Proofs about the nickname lookup, for any number of users, containers,  *)
(* concurrent lookups and cached entries, and any time-to-lives: how stale *)
(* a nickname can be, that the shared table is not behind the caches, and  *)
(* that the map and the list of a cache stay in step.  The first two do    *)
(* not depend on which entry a full cache gives up, so that their          *)
(* invariants say nothing of the list.                                     *)
(***************************************************************************)
EXTENDS NickCache, SequenceTheorems, FiniteSetTheorems, TLAPS

Caches == UNION {[T -> Entries] : T \in SUBSET Tids}

CacheTypes ==
    /\ entries \in [Containers -> Caches]
    /\ durable \in [Tids -> Entries \cup {None}]
    /\ changes \in [Tids -> Seq(0..BothOld)]
    /\ \A t \in Tids : Len(changes[t]) <= MaxChanges
    /\ job \in [Workers -> Jobs \cup {None}]
    /\ disturbed \in BOOLEAN

\* A row is at most as stale as it is old.
RowFresh(t) ==
    durable[t] # None =>
        /\ durable[t].nick <= Nickname(t)
        /\ durable[t].age <= DurableTTL => CurrentWithin(t, durable[t].nick, durable[t].age)

\* An entry may come from a row that was about to run out.
EntryFresh(c, t) ==
    t \in Cached(c) =>
        /\ entries[c][t].nick <= Nickname(t)
        /\ entries[c][t].age <= LocalTTL =>
              CurrentWithin(t, entries[c][t].nick, entries[c][t].age + DurableTTL)

\* Lookup w has the service's answer.
Answered(w) == At(w, "put") \/ At(w, "write")

\* It was true today.
AnswerFresh(w) ==
    Answered(w) =>
        /\ job[w].nick <= Nickname(job[w].tid)
        /\ CurrentWithin(job[w].tid, job[w].nick, 0)

StaleInv ==
    /\ CacheTypes
    /\ \A t \in Tids : RowFresh(t)
    /\ \A c \in Containers, t \in Tids : EntryFresh(c, t)
    /\ \A w \in Workers : AnswerFresh(w)

\* Lookups under way are of different users.
Apart ==
    \A v, w \in Workers :
        job[v] # None /\ job[w] # None /\ job[v].tid = job[w].tid => v = w

\* An entry that is newer than its row is that of a lookup about to write it.
NotBehind(c, t) ==
    t \in Cached(c) /\ durable[t] # None =>
        \/ entries[c][t].nick <= durable[t].nick
        \/ \E w \in Workers : At(w, "write") /\ job[w].tid = t

\* What a lookup is about to write is no older than what any container has.
AnswerNewest(w, c) ==
    Answered(w) /\ job[w].tid \in Cached(c) => entries[c][job[w].tid].nick <= job[w].nick

Ahead ==
    /\ Apart
    /\ \A c \in Containers, t \in Tids : NotBehind(c, t)
    /\ \A w \in Workers, c \in Containers : AnswerNewest(w, c)

BehindInv == StaleInv /\ (~disturbed => Ahead)

-----------------------------------------------------------------------------
(* The operators *)

LEMMA Bounds ==
    /\ LocalTTL \in Nat /\ DurableTTL \in Nat /\ MaxChanges \in Nat /\ MaxEntries \in Nat \ {0}
    /\ LocalOld = LocalTTL + 1 /\ DurableOld = DurableTTL + 1
    /\ BothOld \in Nat /\ BothOld = LocalTTL + DurableTTL + 1
BY NickCacheAssumption DEF LocalOld, DurableOld, BothOld

LEMMA CachesFacts ==
    /\ \A f \in Caches : DOMAIN f \subseteq Tids /\ f \in [DOMAIN f -> Entries]
    /\ \A T \in SUBSET Tids : \A f \in [T -> Entries] : f \in Caches
    /\ <<>> \in Caches
<1>1. \A T \in SUBSET Tids : \A f \in [T -> Entries] : f \in Caches
  BY DEF Caches
<1>2. <<>> \in [{} -> Entries]
  OBVIOUS
<1> QED
  BY <1>1, <1>2 DEF Caches

LEMMA NewType ==
    ASSUME NEW nick \in 0..MaxChanges
    PROVE  New(nick) \in Entries /\ New(nick).nick = nick /\ New(nick).age = 0
BY Bounds DEF New, Entries

LEMMA JobFacts ==
    ASSUME CacheTypes, NEW w \in Workers, job[w] # None
    PROVE  /\ job[w] \in Jobs
           /\ job[w].on \in Containers /\ job[w].tid \in Tids /\ job[w].nick \in 0..MaxChanges
<1>1. job[w] \in Jobs
  BY DEF CacheTypes
<1> QED
  BY <1>1 DEF Jobs

LEMMA EntryType ==
    ASSUME CacheTypes, NEW c \in Containers, NEW t \in Cached(c)
    PROVE  t \in Tids /\ entries[c][t] \in Entries
<1>1. entries[c] \in Caches
  BY DEF CacheTypes
<1> QED
  BY <1>1, CachesFacts DEF Cached

LEMMA NicknameType ==
    ASSUME CacheTypes, NEW t \in Tids
    PROVE  changes[t] \in Seq(0..BothOld) /\ Nickname(t) \in 0..MaxChanges
<1>1. changes[t] \in Seq(0..BothOld) /\ Len(changes[t]) <= MaxChanges
  BY DEF CacheTypes
<1>2. Len(changes[t]) \in Nat
  BY <1>1
<1> QED
  BY <1>1, <1>2, Bounds DEF Nickname

\* Every cache keeps or loses what it had.
Shrink ==
    /\ entries' \in [Containers -> Caches]
    /\ \A c \in Containers : \A t \in DOMAIN entries'[c] :
          t \in Cached(c) /\ entries'[c][t] = entries[c][t]

LEMMA SameShrinks ==
    ASSUME CacheTypes, UNCHANGED entries
    PROVE  Shrink
BY DEF CacheTypes, Shrink, Cached

LEMMA ExpireShrinks ==
    ASSUME CacheTypes, NEW c \in Containers, NEW t, Expire(c, t)
    PROVE  Shrink
<1> DEFINE left == Restricted(entries[c], Tids \ {t})
<1>1. entries[c] \in Caches /\ DOMAIN entries[c] \subseteq Tids /\ entries[c] \in [DOMAIN entries[c] -> Entries]
  BY CachesFacts DEF CacheTypes
<1>2. /\ DOMAIN left = DOMAIN entries[c] \cap (Tids \ {t})
      /\ \A u \in DOMAIN left : left[u] = entries[c][u]
  BY DEF Restricted
<1>3. left \in [DOMAIN left -> Entries]
  BY <1>1 DEF Restricted
<1>4. left \in Caches
  BY <1>1, <1>2, <1>3, CachesFacts
<1>5. entries' = [entries EXCEPT ![c] = left]
  BY DEF Expire
<1> HIDE DEF left
<1>6. entries' \in [Containers -> Caches]
  BY <1>4, <1>5 DEF CacheTypes
<1>7. ASSUME NEW d \in Containers, NEW u \in DOMAIN entries'[d]
      PROVE  u \in Cached(d) /\ entries'[d][u] = entries[d][u]
  <2>1. CASE d = c
    <3>1. entries'[d] = left
      BY <1>5, <2>1 DEF CacheTypes
    <3> QED
      BY <3>1, <2>1, <1>2 DEF Cached
  <2>2. CASE d # c
    <3>1. entries'[d] = entries[d]
      BY <1>5, <2>2 DEF CacheTypes
    <3> QED
      BY <3>1 DEF Cached
  <2> QED
    BY <2>1, <2>2
<1> QED
  BY <1>6, <1>7 DEF Shrink

\* Put fills in one user of one container; others may go.
PutEffect(c, t, nick) ==
    /\ entries' \in [Containers -> Caches]
    /\ \A d \in Containers : \A u \in DOMAIN entries'[d] :
          \/ d = c /\ u = t /\ entries'[d][u] = New(nick)
          \/ (d # c \/ u # t) /\ u \in Cached(d) /\ entries'[d][u] = entries[d][u]

LEMMA PutFacts ==
    ASSUME CacheTypes, NEW c \in Containers, NEW t \in Tids, NEW nick \in 0..MaxChanges,
           Put(c, t, nick)
    PROVE  PutEffect(c, t, nick)
<1> DEFINE all == [u \in Cached(c) \cup {t} |-> IF u = t THEN New(nick) ELSE entries[c][u]]
<1>1. entries[c] \in Caches /\ DOMAIN entries[c] \subseteq Tids /\ entries[c] \in [DOMAIN entries[c] -> Entries]
  BY CachesFacts DEF CacheTypes
<1>2. /\ DOMAIN all = Cached(c) \cup {t}
      /\ \A u \in DOMAIN all : all[u] = IF u = t THEN New(nick) ELSE entries[c][u]
  OBVIOUS
<1>3. all \in [DOMAIN all -> Entries] /\ DOMAIN all \subseteq Tids
  BY <1>1, NewType DEF Cached
<1>4. PICK S : entries' = [entries EXCEPT ![c] = Restricted(all, S)]
  BY DEF Put
<1> HIDE DEF all
<1> DEFINE left == Restricted(all, S)
<1>5. /\ DOMAIN left \subseteq DOMAIN all
      /\ \A u \in DOMAIN left : left[u] = all[u]
      /\ left \in [DOMAIN left -> Entries]
  BY <1>3 DEF Restricted
<1>6. left \in Caches
  BY <1>3, <1>5, CachesFacts
<1>7. entries' = [entries EXCEPT ![c] = left]
  BY <1>4
<1> HIDE DEF left
<1>8. entries' \in [Containers -> Caches]
  BY <1>6, <1>7 DEF CacheTypes
<1>9. ASSUME NEW d \in Containers, NEW u \in DOMAIN entries'[d]
      PROVE  \/ d = c /\ u = t /\ entries'[d][u] = New(nick)
             \/ (d # c \/ u # t) /\ u \in Cached(d) /\ entries'[d][u] = entries[d][u]
  <2>1. CASE d = c
    <3>1. entries'[d] = left
      BY <1>7, <2>1 DEF CacheTypes
    <3>2. u \in DOMAIN all /\ entries'[d][u] = all[u]
      BY <3>1, <1>5
    <3>3. (u = t \/ u \in Cached(d)) /\ entries'[d][u] = IF u = t THEN New(nick) ELSE entries[d][u]
      BY <3>2, <1>2, <2>1
    <3> QED
      BY <3>3, <2>1
  <2>2. CASE d # c
    <3>1. entries'[d] = entries[d]
      BY <1>7, <2>2 DEF CacheTypes
    <3> QED
      BY <3>1, <2>2 DEF Cached
  <2> QED
    BY <2>1, <2>2
<1> QED
  BY <1>8, <1>9 DEF PutEffect

-----------------------------------------------------------------------------
(* The identity service and the days *)

LEMMA ElementType ==
    ASSUME NEW S, NEW seq \in Seq(S), NEW i \in 1..Len(seq)
    PROVE  seq[i] \in S
OBVIOUS

LEMMA SequenceOf ==
    ASSUME NEW S, NEW n \in Nat, NEW f \in [1..n -> S]
    PROVE  f \in Seq(S) /\ Len(f) = n
OBVIOUS

LEMMA LaterIsFine ==
    ASSUME CacheTypes, NEW t \in Tids, NEW n \in 0..MaxChanges, n <= Nickname(t),
           NEW a \in Nat, NEW b \in Nat, a <= b, CurrentWithin(t, n, a)
    PROVE  CurrentWithin(t, n, b)
<1>1. CASE n = Nickname(t)
  BY <1>1 DEF CurrentWithin
<1>2. CASE n # Nickname(t)
  <2>1. changes[t] \in Seq(0..BothOld) /\ n < Len(changes[t]) /\ n + 1 \in 1..Len(changes[t])
    BY <1>2, NicknameType, Bounds DEF Nickname
  <2>2. changes[t][n + 1] \in 0..BothOld
    BY <2>1, ElementType
  <2>3. changes[t][n + 1] <= a
    BY <1>2 DEF CurrentWithin
  <2> QED
    BY <2>2, <2>3, Bounds DEF CurrentWithin
<1> QED
  BY <1>1, <1>2

LEMMA CurrentNow ==
    ASSUME NEW t, NEW a
    PROVE  CurrentWithin(t, Nickname(t), a)
BY DEF CurrentWithin

\* A new nickname makes the last one out of date as of now.
LEMMA RenameFacts ==
    ASSUME CacheTypes, NEW t \in Tids, ProvideNickname(t)
    PROVE  /\ changes' \in [Tids -> Seq(0..BothOld)]
           /\ \A u \in Tids : Len(changes'[u]) <= MaxChanges
           /\ \A u \in Tids, n \in 0..MaxChanges : n <= Nickname(u) => n <= Nickname(u)'
           /\ \A u \in Tids, n \in 0..MaxChanges, a \in Nat :
                 n <= Nickname(u) /\ CurrentWithin(u, n, a) => CurrentWithin(u, n, a)'
<1> DEFINE more == Append(changes[t], 0)
<1>1. changes[t] \in Seq(0..BothOld) /\ Len(changes[t]) \in Nat /\ Len(changes[t]) < MaxChanges
  BY NicknameType DEF ProvideNickname
<1>2. 0 \in 0..BothOld
  BY Bounds
<1>3. /\ more \in Seq(0..BothOld) /\ Len(more) = Len(changes[t]) + 1
      /\ \A i \in 1..Len(changes[t]) : more[i] = changes[t][i]
      /\ more[Len(changes[t]) + 1] = 0
  BY <1>1, <1>2
<1>4. changes' = [changes EXCEPT ![t] = more]
  BY DEF ProvideNickname
<1> HIDE DEF more
<1>5. changes' \in [Tids -> Seq(0..BothOld)]
  BY <1>3, <1>4 DEF CacheTypes
<1>6. changes'[t] = more /\ \A u \in Tids \ {t} : changes'[u] = changes[u]
  BY <1>4 DEF CacheTypes
<1>7. \A u \in Tids : Len(changes'[u]) <= MaxChanges
  <2> TAKE u \in Tids
  <2>1. CASE u = t
    BY <2>1, <1>1, <1>3, <1>6, Bounds
  <2>2. CASE u # t
    BY <2>2, <1>6 DEF CacheTypes
  <2> QED
    BY <2>1, <2>2
<1>8. ASSUME NEW u \in Tids, NEW n \in 0..MaxChanges, n <= Nickname(u)
      PROVE  n <= Nickname(u)' /\ \A a \in Nat : CurrentWithin(u, n, a) => CurrentWithin(u, n, a)'
  <2>1. CASE u = t
    <3>1. n <= Len(changes[t]) /\ n \in Nat
      BY <2>1, <1>8, Bounds DEF Nickname
    <3>2. n <= Nickname(u)'
      BY <3>1, <2>1, <1>1, <1>3, <1>6 DEF Nickname
    <3>3. ASSUME NEW a \in Nat, CurrentWithin(u, n, a)
          PROVE  changes'[u][n + 1] <= a
      <4>1. CASE n = Len(changes[t])
        BY <4>1, <2>1, <1>3, <1>6
      <4>2. CASE n # Len(changes[t])
        <5>1. n + 1 \in 1..Len(changes[t])
          BY <3>1, <4>2, <1>1
        <5>2. changes'[u][n + 1] = changes[u][n + 1]
          BY <5>1, <2>1, <1>3, <1>6
        <5> QED
          BY <5>2, <4>2, <3>3, <2>1 DEF CurrentWithin, Nickname
      <4> QED
        BY <4>1, <4>2
    <3> QED
      BY <3>2, <3>3 DEF CurrentWithin
  <2>2. CASE u # t
    <3>1. changes'[u] = changes[u]
      BY <2>2, <1>6
    <3> QED
      BY <3>1, <1>8 DEF CurrentWithin, Nickname
  <2> QED
    BY <2>1, <2>2
<1> QED
  BY <1>5, <1>7, <1>8

\* A day passes: what was current within a is now current within a + 1.
LEMMA DayOfNicknames ==
    ASSUME CacheTypes, Tick
    PROVE  /\ changes' \in [Tids -> Seq(0..BothOld)]
           /\ \A u \in Tids : Len(changes'[u]) <= MaxChanges
           /\ \A u \in Tids : Nickname(u)' = Nickname(u)
           /\ \A u \in Tids, n \in 0..MaxChanges, a \in Nat :
                 n <= Nickname(u) /\ CurrentWithin(u, n, a) => CurrentWithin(u, n, a + 1)'
<1> DEFINE Older(age, cap) == IF age < cap THEN age + 1 ELSE cap
           aged(u) == [i \in DOMAIN changes[u] |-> Older(changes[u][i], BothOld)]
<1>1. changes' = [u \in Tids |-> aged(u)]
  BY DEF Tick
<1>2. ASSUME NEW u \in Tids
      PROVE  /\ aged(u) \in Seq(0..BothOld) /\ Len(aged(u)) = Len(changes[u])
             /\ \A i \in 1..Len(changes[u]) : aged(u)[i] <= changes[u][i] + 1
  <2>1. changes[u] \in Seq(0..BothOld) /\ Len(changes[u]) \in Nat
    BY <1>2, NicknameType
  <2>2. DOMAIN changes[u] = 1..Len(changes[u])
    BY <2>1
  <2>3. \A i \in 1..Len(changes[u]) :
          /\ changes[u][i] \in 0..BothOld
          /\ Older(changes[u][i], BothOld) \in 0..BothOld
          /\ Older(changes[u][i], BothOld) <= changes[u][i] + 1
    BY <2>1, Bounds
  <2>4. aged(u) = [i \in 1..Len(changes[u]) |-> Older(changes[u][i], BothOld)]
    BY <2>2
  <2> HIDE DEF Older, aged
  <2>5. aged(u) \in [1..Len(changes[u]) -> 0..BothOld]
    BY <2>3, <2>4
  <2>6. aged(u) \in Seq(0..BothOld) /\ Len(aged(u)) = Len(changes[u])
    BY <2>1, <2>5, SequenceOf
  <2> QED
    BY <2>3, <2>4, <2>6
<1> HIDE DEF aged
<1>3. changes' \in [Tids -> Seq(0..BothOld)] /\ \A u \in Tids : changes'[u] = aged(u)
  BY <1>1, <1>2
<1>4. \A u \in Tids : Nickname(u)' = Nickname(u) /\ Len(changes'[u]) <= MaxChanges
  BY <1>2, <1>3 DEF Nickname, CacheTypes
<1>5. ASSUME NEW u \in Tids, NEW n \in 0..MaxChanges, NEW a \in Nat,
             n <= Nickname(u), CurrentWithin(u, n, a)
      PROVE  CurrentWithin(u, n, a + 1)'
  <2>1. CASE n = Nickname(u)
    <3>1. n = Nickname(u)'
      BY <2>1, <1>4
    <3> QED
      BY <3>1 DEF CurrentWithin
  <2>2. CASE n # Nickname(u)
    <3>1. changes[u] \in Seq(0..BothOld) /\ n + 1 \in 1..Len(changes[u])
      BY <2>2, <1>5, NicknameType, Bounds DEF Nickname
    <3>2. changes[u][n + 1] \in Nat /\ changes[u][n + 1] <= a
      BY <3>1, <2>2, <1>5, Bounds DEF CurrentWithin
    <3>3. aged(u)[n + 1] <= changes[u][n + 1] + 1 /\ aged(u)[n + 1] \in Nat
      BY <1>2, <3>1, Bounds
    <3>4. changes'[u][n + 1] <= a + 1
      BY <3>2, <3>3, <1>3
    <3> QED
      BY <3>4 DEF CurrentWithin
  <2> QED
    BY <2>1, <2>2
<1> QED
  BY <1>3, <1>4, <1>5

\* Rows and entries keep their nicknames; those still of use are a day older.
LEMMA DayOfCopies ==
    ASSUME CacheTypes, Tick
    PROVE  /\ entries' \in [Containers -> Caches]
           /\ \A c \in Containers : \A t \in DOMAIN entries'[c] :
                 /\ t \in Cached(c) /\ entries'[c][t].nick = entries[c][t].nick
                 /\ entries'[c][t].age <= LocalTTL =>
                       entries[c][t].age < LocalTTL /\ entries'[c][t].age = entries[c][t].age + 1
           /\ durable' \in [Tids -> Entries \cup {None}]
           /\ \A t \in Tids : durable'[t] # None =>
                 /\ durable[t] # None /\ durable'[t].nick = durable[t].nick
                 /\ durable'[t].age <= DurableTTL =>
                       durable[t].age < DurableTTL /\ durable'[t].age = durable[t].age + 1
           /\ \A t \in Tids : durable[t] # None => durable'[t] # None
<1> DEFINE Older(age, cap) == IF age < cap THEN age + 1 ELSE cap
           Aged(e, cap) == [e EXCEPT !.age = Older(@, cap)]
<1>1. ASSUME NEW e \in Entries, NEW cap \in 1..BothOld
      PROVE  /\ Aged(e, cap) \in Entries /\ Aged(e, cap).nick = e.nick
             /\ Aged(e, cap).age < cap => e.age < cap - 1 /\ Aged(e, cap).age = e.age + 1
  <2>1. e.age \in 0..BothOld /\ e.nick \in 0..MaxChanges
    BY DEF Entries
  <2>2. Older(e.age, cap) \in 0..BothOld
    BY <2>1, Bounds
  <2>3. Aged(e, cap) = [nick |-> e.nick, age |-> Older(e.age, cap)]
    BY DEF Entries
  <2>4. Aged(e, cap) \in Entries
    BY <2>1, <2>2, <2>3 DEF Entries
  <2>5. Aged(e, cap).nick = e.nick /\ Aged(e, cap).age = Older(e.age, cap)
    BY <2>3
  <2>6. Older(e.age, cap) < cap => e.age < cap - 1 /\ Older(e.age, cap) = e.age + 1
    BY <2>1, Bounds
  <2> QED
    BY <2>4, <2>5, <2>6
<1>2. /\ entries' = [c \in Containers |-> [t \in Cached(c) |-> Aged(entries[c][t], LocalOld)]]
      /\ durable' = [t \in Tids |-> IF durable[t] = None THEN None ELSE Aged(durable[t], DurableOld)]
  BY DEF Tick
<1>3. LocalOld \in 1..BothOld /\ DurableOld \in 1..BothOld
  BY Bounds
<1> HIDE DEF Aged, Older
<1>4. ASSUME NEW c \in Containers
      PROVE  /\ entries'[c] \in Caches
             /\ DOMAIN entries'[c] = Cached(c)
             /\ \A t \in Cached(c) : entries'[c][t] = Aged(entries[c][t], LocalOld)
  <2>1. entries'[c] = [t \in Cached(c) |-> Aged(entries[c][t], LocalOld)]
    BY <1>2
  <2>2. Cached(c) \in SUBSET Tids /\ \A t \in Cached(c) : Aged(entries[c][t], LocalOld) \in Entries
    BY <1>1, <1>3, EntryType
  <2>3. entries'[c] \in [Cached(c) -> Entries]
    BY <2>1, <2>2
  <2>4. entries'[c] \in Caches
    BY <2>2, <2>3, CachesFacts
  <2> QED
    BY <2>1, <2>4
<1>5. entries' \in [Containers -> Caches]
  BY <1>2, <1>4
<1>6. ASSUME NEW c \in Containers, NEW t \in DOMAIN entries'[c]
      PROVE  /\ t \in Cached(c) /\ entries'[c][t].nick = entries[c][t].nick
             /\ entries'[c][t].age <= LocalTTL =>
                   entries[c][t].age < LocalTTL /\ entries'[c][t].age = entries[c][t].age + 1
  <2>1. t \in Cached(c) /\ entries'[c][t] = Aged(entries[c][t], LocalOld)
    BY <1>4
  <2>2. entries[c][t] \in Entries /\ entries'[c][t] \in Entries
    BY <2>1, EntryType, <1>1, <1>3
  <2>3. entries'[c][t].age \in Nat /\ entries[c][t].age \in Nat
    BY <2>2, Bounds DEF Entries
  <2>4. /\ entries'[c][t].nick = entries[c][t].nick
        /\ entries'[c][t].age < LocalOld =>
              entries[c][t].age < LocalOld - 1 /\ entries'[c][t].age = entries[c][t].age + 1
    BY <2>1, <2>2, <1>1, <1>3
  <2> QED
    BY <2>1, <2>3, <2>4, Bounds
<1>7. ASSUME NEW t \in Tids
      PROVE  /\ durable[t] = None => durable'[t] = None
             /\ durable[t] # None =>
                  /\ durable[t] \in Entries /\ durable'[t] \in Entries
                  /\ durable'[t] = Aged(durable[t], DurableOld)
  BY <1>1, <1>2, <1>3 DEF CacheTypes
<1>8. durable' \in [Tids -> Entries \cup {None}]
  BY <1>2, <1>7
<1>9. ASSUME NEW t \in Tids, durable[t] # None
      PROVE  /\ durable'[t] # None /\ durable'[t].nick = durable[t].nick
             /\ durable'[t].age <= DurableTTL =>
                   durable[t].age < DurableTTL /\ durable'[t].age = durable[t].age + 1
  <2>1. durable[t] \in Entries /\ durable'[t] \in Entries /\ durable'[t] = Aged(durable[t], DurableOld)
    BY <1>7, <1>9
  <2>2. durable'[t] # None
    BY <2>1, NickCacheAssumption
  <2>3. durable'[t].age \in Nat /\ durable[t].age \in Nat
    BY <2>1, Bounds DEF Entries
  <2>4. /\ durable'[t].nick = durable[t].nick
        /\ durable'[t].age < DurableOld =>
              durable[t].age < DurableOld - 1 /\ durable'[t].age = durable[t].age + 1
    BY <2>1, <1>1, <1>3
  <2> QED
    BY <2>2, <2>3, <2>4, Bounds
<1> QED
  BY <1>5, <1>6, <1>7, <1>8, <1>9

-----------------------------------------------------------------------------
(* Steps of a lookup *)

\* A lookup moves on and keeps its container and user.
LEMMA GotoIs ==
    ASSUME CacheTypes, NEW w \in Workers, job[w] # None,
           NEW step \in {"durable", "fetch", "put", "write"}, Goto(w, step)
    PROVE  /\ job' \in [Workers -> Jobs \cup {None}]
           /\ job'[w] # None /\ job'[w].at = step /\ job'[w].nick = job[w].nick
           /\ job'[w].on = job[w].on /\ job'[w].tid = job[w].tid
           /\ \A v \in Workers \ {w} : job'[v] = job[v]
<1>1. PICK j \in Jobs : j = job[w]
  BY JobFacts
<1> DEFINE k == [j EXCEPT !.at = step]
<1>2. k \in Jobs /\ k.at = step /\ k.nick = j.nick /\ k.on = j.on /\ k.tid = j.tid
  BY DEF Jobs
<1>3. job' = [job EXCEPT ![w] = k]
  BY <1>1 DEF Goto
<1> HIDE DEF k
<1>4. job' \in [Workers -> Jobs \cup {None}] /\ job'[w] = k /\ \A v \in Workers \ {w} : job'[v] = job[v]
  BY <1>2, <1>3 DEF CacheTypes
<1>5. k # None
  BY <1>2, NickCacheAssumption
<1> QED
  BY <1>1, <1>2, <1>4, <1>5

LEMMA FetchIs ==
    ASSUME CacheTypes, NEW w \in Workers, Fetch(w)
    PROVE  /\ job' \in [Workers -> Jobs \cup {None}]
           /\ job'[w] # None /\ job'[w].at = "put" /\ job'[w].nick = Nickname(job[w].tid)
           /\ job'[w].on = job[w].on /\ job'[w].tid = job[w].tid
           /\ \A v \in Workers \ {w} : job'[v] = job[v]
<1>1. PICK j \in Jobs : j = job[w]
  BY JobFacts DEF Fetch, At
<1>2. PICK n \in 0..MaxChanges : n = Nickname(j.tid)
  BY <1>1, NicknameType DEF Jobs
<1> DEFINE k == [j EXCEPT !.at = "put", !.nick = n]
<1>3. k \in Jobs /\ k.at = "put" /\ k.nick = n /\ k.on = j.on /\ k.tid = j.tid
  BY DEF Jobs
<1>4. job' = [job EXCEPT ![w] = k]
  BY <1>1, <1>2 DEF Fetch
<1> HIDE DEF k
<1>5. job' \in [Workers -> Jobs \cup {None}] /\ job'[w] = k /\ \A v \in Workers \ {w} : job'[v] = job[v]
  BY <1>3, <1>4 DEF CacheTypes
<1>6. k # None
  BY <1>3, NickCacheAssumption
<1> QED
  BY <1>1, <1>2, <1>3, <1>5, <1>6

LEMMA FinishIs ==
    ASSUME CacheTypes, NEW w \in Workers, Finish(w)
    PROVE  /\ job' \in [Workers -> Jobs \cup {None}] /\ job'[w] = None
           /\ \A v \in Workers \ {w} : job'[v] = job[v]
BY DEF CacheTypes, Finish

LEMMA StartIs ==
    ASSUME CacheTypes, NEW w \in Workers, NEW c \in Containers, NEW t \in Tids, LookupMiss(w, c, t)
    PROVE  /\ job' \in [Workers -> Jobs \cup {None}]
           /\ job'[w] # None /\ job'[w].at = "durable" /\ job'[w].tid = t
           /\ \A v \in Workers \ {w} : job'[v] = job[v]
<1> DEFINE k == [at |-> "durable", on |-> c, tid |-> t, nick |-> 0]
<1>1. k \in Jobs /\ k.at = "durable" /\ k.tid = t
  BY Bounds DEF Jobs
<1>2. job' = [job EXCEPT ![w] = k]
  BY DEF LookupMiss
<1> HIDE DEF k
<1>3. k # None
  BY <1>1, NickCacheAssumption
<1> QED
  BY <1>1, <1>2, <1>3 DEF CacheTypes

\* A recycled container takes its lookups with it.
LEMMA RecycleIs ==
    ASSUME CacheTypes, NEW c \in Containers, Recycle(c)
    PROVE  /\ job' \in [Workers -> Jobs \cup {None}]
           /\ \A w \in Workers : job'[w] # None => job'[w] = job[w]
           /\ \A w \in Workers : job[w] # None /\ job[w].on # c => job'[w] = job[w]
           /\ Shrink
<1>1. \A w \in Workers : job'[w] = IF job[w] # None /\ job[w].on = c THEN None ELSE job[w]
  BY DEF Recycle
<1>2. job' \in [Workers -> Jobs \cup {None}]
  BY DEF Recycle, CacheTypes
<1>3. entries' = [entries EXCEPT ![c] = <<>>]
  BY DEF Recycle
<1>4. entries' \in [Containers -> Caches] /\ entries'[c] = <<>>
      /\ \A d \in Containers \ {c} : entries'[d] = entries[d]
  BY <1>3, CachesFacts DEF CacheTypes
<1>5. DOMAIN <<>> = {}
  OBVIOUS
<1>6. Shrink
  BY <1>4, <1>5 DEF Shrink, Cached
<1> QED
  BY <1>1, <1>2, <1>6

LEMMA UpsertIs ==
    ASSUME CacheTypes, NEW t \in Tids, NEW nick \in 0..MaxChanges, UpsertRow(t, nick)
    PROVE  /\ durable' \in [Tids -> Entries \cup {None}]
           /\ durable'[t] # None /\ durable'[t].nick = nick /\ durable'[t].age = 0
           /\ \A u \in Tids \ {t} : durable'[u] = durable[u]
<1>1. PICK e \in Entries : e = New(nick) /\ e.nick = nick /\ e.age = 0
  BY NewType
<1>2. durable' = [durable EXCEPT ![t] = e]
  BY <1>1 DEF UpsertRow
<1> QED
  BY <1>1, <1>2, NickCacheAssumption DEF CacheTypes

\* DurableServes and PutLocal fill in the user they look up.
LEMMA ServesIs ==
    ASSUME CacheTypes, NEW w \in Workers, DurableServes(w)
    PROVE  /\ job[w] # None /\ job[w].at = "durable"
           /\ job[w].tid \in Tids /\ job[w].on \in Containers
           /\ durable[job[w].tid] # None /\ durable[job[w].tid].age <= DurableTTL
           /\ durable[job[w].tid].nick \in 0..MaxChanges
           /\ durable[job[w].tid].age \in Nat
           /\ PutEffect(job[w].on, job[w].tid, durable[job[w].tid].nick)
<1>1. job[w] # None /\ job[w].at = "durable" /\ job[w].tid \in Tids /\ job[w].on \in Containers
  BY JobFacts DEF DurableServes, At
<1>2. PICK t \in Tids, c \in Containers : t = job[w].tid /\ c = job[w].on
  BY <1>1
<1>3. durable[t] # None /\ durable[t].age <= DurableTTL /\ durable[t] \in Entries
  BY <1>2 DEF DurableServes, DurableHit, CacheTypes
<1>4. PICK n \in 0..MaxChanges : n = durable[t].nick
  BY <1>3 DEF Entries
<1>5. durable[t].age \in Nat
  BY <1>3, Bounds DEF Entries
<1>6. Put(c, t, n)
  BY <1>2, <1>4 DEF DurableServes
<1>7. PutEffect(c, t, n)
  BY <1>6, PutFacts
<1> QED
  BY <1>1, <1>2, <1>3, <1>4, <1>5, <1>7

LEMMA PutLocalIs ==
    ASSUME CacheTypes, NEW w \in Workers, PutLocal(w)
    PROVE  /\ job[w] # None /\ job[w].at = "put"
           /\ job[w].tid \in Tids /\ job[w].on \in Containers /\ job[w].nick \in 0..MaxChanges
           /\ PutEffect(job[w].on, job[w].tid, job[w].nick)
<1>1. /\ job[w] # None /\ job[w].at = "put" /\ job[w].tid \in Tids
      /\ job[w].on \in Containers /\ job[w].nick \in 0..MaxChanges
  BY JobFacts DEF PutLocal, At
<1>2. PICK t \in Tids, c \in Containers, n \in 0..MaxChanges :
         t = job[w].tid /\ c = job[w].on /\ n = job[w].nick
  BY <1>1
<1>3. Put(c, t, n)
  BY <1>2 DEF PutLocal
<1>4. PutEffect(c, t, n)
  BY <1>3, PutFacts
<1> QED
  BY <1>1, <1>2, <1>4

-----------------------------------------------------------------------------
(* How stale a nickname can be *)

LEMMA TypesKept ==
    ASSUME CacheTypes, Next
    PROVE  CacheTypes'
<1>1. ASSUME NEW c \in Containers, NEW t \in Tids, LookupHit(c, t)
      PROVE  CacheTypes'
  BY <1>1 DEF LookupHit, Promote, CacheTypes
<1>2. ASSUME NEW w \in Workers, NEW c \in Containers, NEW t \in Tids, LookupMiss(w, c, t)
      PROVE  CacheTypes'
  <2>1. Shrink
    BY <1>2, ExpireShrinks DEF LookupMiss
  <2>2. job' \in [Workers -> Jobs \cup {None}]
    BY <1>2, StartIs
  <2>3. durable' = durable /\ changes' = changes /\ disturbed' \in BOOLEAN
    BY <1>2 DEF LookupMiss
  <2> QED
    BY <2>1, <2>2, <2>3 DEF Shrink, CacheTypes
<1>3. ASSUME NEW w \in Workers, DurableServes(w)
      PROVE  CacheTypes'
  <2>1. entries' \in [Containers -> Caches]
    BY <1>3, ServesIs DEF PutEffect
  <2>2. job' \in [Workers -> Jobs \cup {None}]
    BY <1>3, FinishIs DEF DurableServes
  <2> QED
    BY <1>3, <2>1, <2>2 DEF DurableServes, CacheTypes
<1>4. ASSUME NEW w \in Workers, DurableMisses(w)
      PROVE  CacheTypes'
  <2>1. job' \in [Workers -> Jobs \cup {None}]
    BY <1>4, GotoIs DEF DurableMisses, At
  <2> QED
    BY <1>4, <2>1 DEF DurableMisses, CacheTypes
<1>5. ASSUME NEW w \in Workers, Fetch(w)
      PROVE  CacheTypes'
  <2>1. job' \in [Workers -> Jobs \cup {None}]
    BY <1>5, FetchIs
  <2> QED
    BY <1>5, <2>1 DEF Fetch, CacheTypes
<1>6. ASSUME NEW w \in Workers, FetchFails(w)
      PROVE  CacheTypes'
  <2>1. job' \in [Workers -> Jobs \cup {None}]
    BY <1>6, FinishIs DEF FetchFails
  <2> QED
    BY <1>6, <2>1 DEF FetchFails, CacheTypes
<1>7. ASSUME NEW w \in Workers, PutLocal(w)
      PROVE  CacheTypes'
  <2>1. entries' \in [Containers -> Caches]
    BY <1>7, PutLocalIs DEF PutEffect
  <2>2. job' \in [Workers -> Jobs \cup {None}]
    BY <1>7, GotoIs DEF PutLocal, At
  <2> QED
    BY <1>7, <2>1, <2>2 DEF PutLocal, CacheTypes
<1>8. ASSUME NEW w \in Workers, WriteDurable(w)
      PROVE  CacheTypes'
  <2>1. job' \in [Workers -> Jobs \cup {None}]
    BY <1>8, FinishIs DEF WriteDurable
  <2>2. durable' \in [Tids -> Entries \cup {None}]
    BY <1>8, JobFacts, UpsertIs DEF WriteDurable, At
  <2> QED
    BY <1>8, <2>1, <2>2 DEF WriteDurable, CacheTypes
<1>9. ASSUME NEW w \in Workers, WriteDurableFails(w)
      PROVE  CacheTypes'
  <2>1. job' \in [Workers -> Jobs \cup {None}]
    BY <1>9, FinishIs DEF WriteDurableFails
  <2> QED
    BY <1>9, <2>1 DEF WriteDurableFails, CacheTypes
<1>10. ASSUME NEW t \in Tids, ProvideNickname(t)
       PROVE  CacheTypes'
  <2>1. UNCHANGED <<entries, durable, job, disturbed>>
    BY <1>10 DEF ProvideNickname
  <2> QED
    BY <1>10, <2>1, RenameFacts DEF CacheTypes
<1>11. ASSUME NEW t \in Tids, LookupElsewhere(t)
       PROVE  CacheTypes'
  <2>1. durable' \in [Tids -> Entries \cup {None}]
    BY <1>11, NicknameType, UpsertIs DEF LookupElsewhere
  <2>2. disturbed' \in BOOLEAN
    BY <1>11 DEF LookupElsewhere
  <2> QED
    BY <1>11, <2>1, <2>2 DEF LookupElsewhere, CacheTypes
<1>12. ASSUME NEW c \in Containers, Recycle(c)
       PROVE  CacheTypes'
  <2>1. disturbed' \in BOOLEAN
    BY <1>12 DEF Recycle
  <2> QED
    BY <1>12, <2>1, RecycleIs DEF Recycle, Shrink, CacheTypes
<1>13. ASSUME Tick
       PROVE  CacheTypes'
  <2>1. UNCHANGED <<job, disturbed>>
    BY <1>13 DEF Tick
  <2> QED
    BY <1>13, <2>1, DayOfNicknames, DayOfCopies DEF CacheTypes
<1> QED
  BY <1>1, <1>2, <1>3, <1>4, <1>5, <1>6, <1>7, <1>8, <1>9, <1>10, <1>11, <1>12, <1>13,
     NickCacheAssumption DEF Next

LEMMA RowsKept ==
    ASSUME StaleInv, UNCHANGED <<durable, changes>>
    PROVE  \A t \in Tids : RowFresh(t)'
BY DEF StaleInv, RowFresh, CurrentWithin, Nickname

LEMMA EntriesKept ==
    ASSUME StaleInv, UNCHANGED changes, Shrink
    PROVE  \A c \in Containers, t \in Tids : EntryFresh(c, t)'
<1> SUFFICES ASSUME NEW c \in Containers, NEW t \in Tids, t \in DOMAIN entries'[c]
             PROVE  EntryFresh(c, t)'
  BY DEF EntryFresh, Cached
<1>1. t \in Cached(c) /\ entries'[c][t] = entries[c][t]
  BY DEF Shrink
<1>2. EntryFresh(c, t)
  BY DEF StaleInv
<1> QED
  BY <1>1, <1>2 DEF EntryFresh, CurrentWithin, Nickname, Cached

LEMMA EntriesPut ==
    ASSUME StaleInv, UNCHANGED changes, NEW c \in Containers, NEW t \in Tids,
           NEW nick \in 0..MaxChanges, PutEffect(c, t, nick), nick <= Nickname(t),
           CurrentWithin(t, nick, DurableTTL)
    PROVE  \A d \in Containers, u \in Tids : EntryFresh(d, u)'
<1> SUFFICES ASSUME NEW d \in Containers, NEW u \in Tids, u \in DOMAIN entries'[d]
             PROVE  EntryFresh(d, u)'
  BY DEF EntryFresh, Cached
<1>1. CASE d = c /\ u = t /\ entries'[d][u] = New(nick)
  <2>1. entries'[d][u].nick = nick /\ entries'[d][u].age = 0
    BY <1>1, NewType
  <2>2. 0 + DurableTTL = DurableTTL
    BY Bounds
  <2> QED
    BY <1>1, <2>1, <2>2 DEF EntryFresh, CurrentWithin, Nickname, Cached
<1>2. CASE u \in Cached(d) /\ entries'[d][u] = entries[d][u]
  <2>1. EntryFresh(d, u)
    BY DEF StaleInv
  <2> QED
    BY <1>2, <2>1 DEF EntryFresh, CurrentWithin, Nickname, Cached
<1> QED
  BY <1>1, <1>2 DEF PutEffect

LEMMA AnswerKept ==
    ASSUME StaleInv, UNCHANGED changes, NEW w \in Workers, job'[w] = job[w]
    PROVE  AnswerFresh(w)'
<1>1. AnswerFresh(w)
  BY DEF StaleInv
<1> QED
  BY <1>1 DEF AnswerFresh, Answered, At, CurrentWithin, Nickname

\* A lookup without an answer.
LEMMA NoAnswer ==
    ASSUME NEW w, job'[w] = None \/ job'[w].at \in {"durable", "fetch"}
    PROVE  AnswerFresh(w)'
BY DEF AnswerFresh, Answered, At

LEMMA RowWritten ==
    ASSUME StaleInv, UNCHANGED changes, NEW t \in Tids, NEW nick \in 0..MaxChanges,
           UpsertRow(t, nick), nick <= Nickname(t), CurrentWithin(t, nick, 0)
    PROVE  \A u \in Tids : RowFresh(u)'
<1> SUFFICES ASSUME NEW u \in Tids
             PROVE  RowFresh(u)'
  OBVIOUS
<1>1. CacheTypes
  BY DEF StaleInv
<1>2. CASE u = t
  <2>1. durable'[u].nick = nick /\ durable'[u].age = 0
    BY <1>1, <1>2, UpsertIs
  <2> QED
    BY <1>2, <2>1 DEF RowFresh, CurrentWithin, Nickname
<1>3. CASE u # t
  <2>1. durable'[u] = durable[u]
    BY <1>1, <1>3, UpsertIs
  <2>2. RowFresh(u)
    BY DEF StaleInv
  <2> QED
    BY <2>1, <2>2 DEF RowFresh, CurrentWithin, Nickname
<1> QED
  BY <1>2, <1>3

LEMMA StaleInit ==
    ASSUME Init
    PROVE  StaleInv
<1>1. entries \in [Containers -> Caches]
  BY CachesFacts DEF Init
<1>2. /\ <<>> \in Seq(0..BothOld) /\ Len(<<>>) = 0 /\ DOMAIN <<>> = {}
  OBVIOUS
<1>3. CacheTypes
  <2>1. changes \in [Tids -> Seq(0..BothOld)] /\ \A t \in Tids : Len(changes[t]) <= MaxChanges
    BY <1>2, Bounds DEF Init
  <2>2. durable \in [Tids -> Entries \cup {None}] /\ job \in [Workers -> Jobs \cup {None}]
    BY DEF Init
  <2>3. disturbed \in BOOLEAN
    BY DEF Init
  <2> QED
    BY <1>1, <2>1, <2>2, <2>3 DEF CacheTypes
<1>4. \A t \in Tids : RowFresh(t)
  BY DEF Init, RowFresh
<1>5. \A c \in Containers, t \in Tids : EntryFresh(c, t)
  BY <1>2 DEF Init, EntryFresh, Cached
<1>6. \A w \in Workers : AnswerFresh(w)
  BY DEF Init, AnswerFresh, Answered, At
<1> QED
  BY <1>3, <1>4, <1>5, <1>6 DEF StaleInv

LEMMA StaleKept ==
    ASSUME StaleInv, Next
    PROVE  StaleInv'
<1> USE DEF StaleInv
<1>0. CacheTypes'
  BY TypesKept
<1>1. ASSUME NEW c \in Containers, NEW t \in Tids, LookupHit(c, t)
      PROVE  StaleInv'
  <2>1. UNCHANGED <<entries, durable, changes, job>>
    BY <1>1 DEF LookupHit, Promote
  <2>2. \A d \in Containers, u \in Tids : EntryFresh(d, u)'
    BY <2>1, SameShrinks, EntriesKept
  <2>3. \A w \in Workers : AnswerFresh(w)'
    BY <2>1, AnswerKept
  <2> QED
    BY <1>0, <2>1, <2>2, <2>3, RowsKept
<1>2. ASSUME NEW w \in Workers, NEW c \in Containers, NEW t \in Tids, LookupMiss(w, c, t)
      PROVE  StaleInv'
  <2>1. UNCHANGED <<durable, changes>> /\ Shrink
    BY <1>2, ExpireShrinks DEF LookupMiss
  <2>2. \A v \in Workers : AnswerFresh(v)'
    BY <1>2, <2>1, StartIs, AnswerKept, NoAnswer
  <2> QED
    BY <1>0, <2>1, <2>2, RowsKept, EntriesKept
<1>3. ASSUME NEW w \in Workers, DurableServes(w)
      PROVE  StaleInv'
  <2>1. UNCHANGED <<durable, changes>>
    BY <1>3 DEF DurableServes
  <2>2. PICK t \in Tids, c \in Containers : t = job[w].tid /\ c = job[w].on
    BY <1>3, ServesIs
  <2>3. /\ durable[t] # None /\ durable[t].age <= DurableTTL /\ durable[t].age \in Nat
        /\ durable[t].nick \in 0..MaxChanges /\ PutEffect(c, t, durable[t].nick)
    BY <1>3, <2>2, ServesIs
  <2>4. RowFresh(t)
    OBVIOUS
  <2>5. durable[t].nick <= Nickname(t) /\ CurrentWithin(t, durable[t].nick, durable[t].age)
    BY <2>3, <2>4 DEF RowFresh
  <2>6. CurrentWithin(t, durable[t].nick, DurableTTL)
    BY <2>3, <2>5, LaterIsFine, Bounds
  <2>7. \A d \in Containers, u \in Tids : EntryFresh(d, u)'
    BY <2>1, <2>3, <2>5, <2>6, EntriesPut
  <2>8. \A v \in Workers : AnswerFresh(v)'
    BY <1>3, <2>1, FinishIs, AnswerKept, NoAnswer DEF DurableServes
  <2> QED
    BY <1>0, <2>1, <2>7, <2>8, RowsKept
<1>4. ASSUME NEW w \in Workers, DurableMisses(w)
      PROVE  StaleInv'
  <2>1. UNCHANGED <<entries, durable, changes>>
    BY <1>4 DEF DurableMisses
  <2>2. \A v \in Workers : AnswerFresh(v)'
    BY <1>4, <2>1, GotoIs, AnswerKept, NoAnswer DEF DurableMisses, At
  <2> QED
    BY <1>0, <2>1, <2>2, RowsKept, SameShrinks, EntriesKept
<1>5. ASSUME NEW w \in Workers, Fetch(w)
      PROVE  StaleInv'
  <2>1. UNCHANGED <<entries, durable, changes>>
    BY <1>5 DEF Fetch
  <2>2. PICK t \in Tids : t = job[w].tid
    BY <1>5, JobFacts DEF Fetch, At
  <2>3. job'[w].tid = t /\ job'[w].nick = Len(changes'[t])
    BY <1>5, <2>1, <2>2, FetchIs DEF Nickname
  <2>4. Len(changes'[t]) \in 0..MaxChanges
    BY <2>1, NicknameType DEF Nickname
  <2>5. AnswerFresh(w)'
    BY <2>3, <2>4, Bounds DEF AnswerFresh, CurrentWithin, Nickname
  <2>6. \A v \in Workers \ {w} : AnswerFresh(v)'
    BY <1>5, <2>1, FetchIs, AnswerKept
  <2> QED
    BY <1>0, <2>1, <2>5, <2>6, RowsKept, SameShrinks, EntriesKept
<1>6. ASSUME NEW w \in Workers, FetchFails(w) \/ WriteDurableFails(w)
      PROVE  StaleInv'
  <2>1. UNCHANGED <<entries, durable, changes>> /\ Finish(w)
    BY <1>6 DEF FetchFails, WriteDurableFails
  <2>2. \A v \in Workers : AnswerFresh(v)'
    BY <2>1, FinishIs, AnswerKept, NoAnswer
  <2> QED
    BY <1>0, <2>1, <2>2, RowsKept, SameShrinks, EntriesKept
<1>7. ASSUME NEW w \in Workers, PutLocal(w)
      PROVE  StaleInv'
  <2>1. UNCHANGED <<durable, changes>> /\ Goto(w, "write")
    BY <1>7 DEF PutLocal
  <2>2. PICK t \in Tids, c \in Containers, n \in 0..MaxChanges :
           t = job[w].tid /\ c = job[w].on /\ n = job[w].nick
    BY <1>7, PutLocalIs
  <2>3. PutEffect(c, t, n) /\ job[w] # None /\ Answered(w)
    BY <1>7, <2>2, PutLocalIs DEF Answered, At
  <2>4. n <= Nickname(t) /\ CurrentWithin(t, n, 0)
    BY <2>2, <2>3 DEF AnswerFresh
  <2>5. CurrentWithin(t, n, DurableTTL)
    BY <2>4, LaterIsFine, Bounds
  <2>6. \A d \in Containers, u \in Tids : EntryFresh(d, u)'
    BY <2>1, <2>3, <2>4, <2>5, EntriesPut
  <2>7. job'[w].tid = t /\ job'[w].nick = n /\ \A v \in Workers \ {w} : job'[v] = job[v]
    BY <2>1, <2>2, <2>3, GotoIs
  <2>8. AnswerFresh(w)'
    BY <2>1, <2>4, <2>7 DEF AnswerFresh, CurrentWithin, Nickname
  <2>9. \A v \in Workers \ {w} : AnswerFresh(v)'
    BY <2>1, <2>7, AnswerKept
  <2> QED
    BY <1>0, <2>1, <2>6, <2>8, <2>9, RowsKept
<1>8. ASSUME NEW w \in Workers, WriteDurable(w)
      PROVE  StaleInv'
  <2>1. UNCHANGED <<entries, changes>> /\ Finish(w)
    BY <1>8 DEF WriteDurable
  <2>2. PICK t \in Tids, n \in 0..MaxChanges : t = job[w].tid /\ n = job[w].nick
    BY <1>8, JobFacts DEF WriteDurable, At
  <2>3. UpsertRow(t, n) /\ Answered(w)
    BY <1>8, <2>2 DEF WriteDurable, Answered
  <2>4. n <= Nickname(t) /\ CurrentWithin(t, n, 0)
    BY <2>2, <2>3 DEF AnswerFresh
  <2>5. \A u \in Tids : RowFresh(u)'
    BY <2>1, <2>3, <2>4, RowWritten
  <2>6. \A v \in Workers : AnswerFresh(v)'
    BY <2>1, FinishIs, AnswerKept, NoAnswer
  <2> QED
    BY <1>0, <2>1, <2>5, <2>6, SameShrinks, EntriesKept
<1>9. ASSUME NEW t \in Tids, ProvideNickname(t)
      PROVE  StaleInv'
  <2>1. UNCHANGED <<entries, durable, job>>
    BY <1>9 DEF ProvideNickname
  <2>2. ASSUME NEW u \in Tids, NEW n \in 0..MaxChanges, n <= Nickname(u)
        PROVE  /\ n <= Len(changes'[u])
               /\ \A a \in Nat : CurrentWithin(u, n, a) => n = Len(changes'[u]) \/ changes'[u][n + 1] <= a
    BY <1>9, <2>2, RenameFacts DEF Nickname, CurrentWithin
  <2>3. ASSUME NEW u \in Tids
        PROVE  RowFresh(u)'
    <3> SUFFICES ASSUME durable[u] # None
                 PROVE  RowFresh(u)'
      BY <2>1 DEF RowFresh
    <3>1. durable[u].nick \in 0..MaxChanges /\ durable[u].age \in Nat
      BY Bounds DEF CacheTypes, Entries
    <3>2. RowFresh(u)
      OBVIOUS
    <3> QED
      BY <2>1, <2>2, <3>1, <3>2 DEF RowFresh, CurrentWithin, Nickname
  <2>4. ASSUME NEW c \in Containers, NEW u \in Tids
        PROVE  EntryFresh(c, u)'
    <3> SUFFICES ASSUME u \in Cached(c)
                 PROVE  EntryFresh(c, u)'
      BY <2>1 DEF EntryFresh, Cached
    <3>1. entries[c][u].nick \in 0..MaxChanges /\ entries[c][u].age + DurableTTL \in Nat
      BY EntryType, Bounds DEF Entries
    <3>2. EntryFresh(c, u)
      OBVIOUS
    <3> QED
      BY <2>1, <2>2, <3>1, <3>2 DEF EntryFresh, CurrentWithin, Nickname, Cached
  <2>5. ASSUME NEW w \in Workers
        PROVE  AnswerFresh(w)'
    <3> SUFFICES ASSUME Answered(w)
                 PROVE  AnswerFresh(w)'
      BY <2>1 DEF AnswerFresh, Answered, At
    <3>1. job[w].nick \in 0..MaxChanges /\ job[w].tid \in Tids
      BY JobFacts DEF Answered, At
    <3>2. AnswerFresh(w)
      OBVIOUS
    <3> QED
      BY <2>1, <2>2, <3>1, <3>2 DEF AnswerFresh, CurrentWithin, Nickname
  <2> QED
    BY <1>0, <2>3, <2>4, <2>5
<1>10. ASSUME NEW t \in Tids, LookupElsewhere(t)
       PROVE  StaleInv'
  <2>1. UNCHANGED <<entries, changes, job>>
    BY <1>10 DEF LookupElsewhere
  <2>2. PICK n \in 0..MaxChanges : n = Nickname(t)
    BY NicknameType
  <2>3. UpsertRow(t, n) /\ n <= Nickname(t) /\ CurrentWithin(t, n, 0)
    BY <1>10, <2>2, Bounds DEF LookupElsewhere, CurrentWithin
  <2>4. \A u \in Tids : RowFresh(u)'
    BY <2>1, <2>3, RowWritten
  <2> QED
    BY <1>0, <2>1, <2>4, AnswerKept, SameShrinks, EntriesKept
<1>11. ASSUME NEW c \in Containers, Recycle(c)
       PROVE  StaleInv'
  <2>1. UNCHANGED <<durable, changes>>
    BY <1>11 DEF Recycle
  <2>2. \A v \in Workers : AnswerFresh(v)'
    BY <1>11, <2>1, RecycleIs, AnswerKept, NoAnswer
  <2> QED
    BY <1>0, <1>11, <2>1, <2>2, RecycleIs, RowsKept, EntriesKept
<1>12. ASSUME Tick
       PROVE  StaleInv'
  <2>1. ASSUME NEW u \in Tids, NEW n \in 0..MaxChanges, n <= Nickname(u)
        PROVE  /\ n <= Len(changes'[u])
               /\ \A a \in Nat : CurrentWithin(u, n, a) => n = Len(changes'[u]) \/ changes'[u][n + 1] <= a + 1
    BY <1>12, <2>1, DayOfNicknames DEF Nickname, CurrentWithin
  <2>2. ASSUME NEW u \in Tids
        PROVE  RowFresh(u)'
    <3> SUFFICES ASSUME durable'[u] # None
                 PROVE  RowFresh(u)'
      BY DEF RowFresh
    <3>1. /\ durable[u] # None /\ durable'[u].nick = durable[u].nick
          /\ durable'[u].age <= DurableTTL =>
                durable[u].age < DurableTTL /\ durable'[u].age = durable[u].age + 1
      BY <1>12, DayOfCopies
    <3>2. durable[u].nick \in 0..MaxChanges /\ durable[u].age \in Nat
      BY <3>1, Bounds DEF CacheTypes, Entries
    <3>3. RowFresh(u)
      OBVIOUS
    <3>4. durable[u].nick <= Nickname(u)
      BY <3>1, <3>3 DEF RowFresh
    <3>5. durable'[u].nick <= Len(changes'[u])
      BY <2>1, <3>1, <3>2, <3>4
    <3>6. ASSUME durable'[u].age <= DurableTTL
          PROVE  durable'[u].nick = Len(changes'[u]) \/ changes'[u][durable'[u].nick + 1] <= durable'[u].age
      <4>1. CurrentWithin(u, durable[u].nick, durable[u].age)
        BY <3>1, <3>2, <3>3, <3>6, Bounds DEF RowFresh
      <4> QED
        BY <2>1, <3>1, <3>2, <3>4, <3>6, <4>1
    <3> QED
      BY <3>5, <3>6 DEF RowFresh, CurrentWithin, Nickname
  <2>3. ASSUME NEW c \in Containers, NEW u \in Tids
        PROVE  EntryFresh(c, u)'
    <3> SUFFICES ASSUME u \in DOMAIN entries'[c]
                 PROVE  EntryFresh(c, u)'
      BY DEF EntryFresh, Cached
    <3>1. /\ u \in Cached(c) /\ entries'[c][u].nick = entries[c][u].nick
          /\ entries'[c][u].age <= LocalTTL =>
                entries[c][u].age < LocalTTL /\ entries'[c][u].age = entries[c][u].age + 1
      BY <1>12, DayOfCopies
    <3>2. entries[c][u].nick \in 0..MaxChanges /\ entries[c][u].age \in Nat
      BY <3>1, EntryType, Bounds DEF Entries
    <3>3. EntryFresh(c, u)
      OBVIOUS
    <3>4. entries[c][u].nick <= Nickname(u)
      BY <3>1, <3>3 DEF EntryFresh
    <3>5. entries'[c][u].nick <= Len(changes'[u])
      BY <2>1, <3>1, <3>2, <3>4
    <3>6. ASSUME entries'[c][u].age <= LocalTTL
          PROVE  \/ entries'[c][u].nick = Len(changes'[u])
                 \/ changes'[u][entries'[c][u].nick + 1] <= entries'[c][u].age + DurableTTL
      <4>1. CurrentWithin(u, entries[c][u].nick, entries[c][u].age + DurableTTL)
        BY <3>1, <3>2, <3>3, <3>6, Bounds DEF EntryFresh
      <4>2. PICK a \in Nat : a = entries[c][u].age + DurableTTL
        BY <3>2, Bounds
      <4>3. a + 1 = entries'[c][u].age + DurableTTL
        BY <3>1, <3>2, <3>6, <4>2, Bounds
      <4>4. CurrentWithin(u, entries[c][u].nick, a)
        BY <4>1, <4>2
      <4> QED
        BY <2>1, <3>1, <3>2, <3>4, <4>3, <4>4
    <3> QED
      BY <3>5, <3>6 DEF EntryFresh, CurrentWithin, Nickname
  <2>4. \A w \in Workers : AnswerFresh(w)'
    BY <1>12, NoAnswer DEF Tick
  <2> QED
    BY <1>0, <2>2, <2>3, <2>4
<1> QED
  BY <1>1, <1>2, <1>3, <1>4, <1>5, <1>6, <1>7, <1>8, <1>9, <1>10, <1>11, <1>12,
     NickCacheAssumption DEF Next

LEMMA StaleBoundFollows ==
    ASSUME StaleInv
    PROVE  StaleBound
<1> SUFFICES ASSUME NEW t \in Tids
             PROVE  /\ \A c \in Containers :
                          Hit(c, t) => CurrentWithin(t, entries[c][t].nick, LocalTTL + DurableTTL)
                    /\ DurableHit(t) => CurrentWithin(t, durable[t].nick, DurableTTL)
  BY DEF StaleBound
<1>1. ASSUME NEW c \in Containers, Hit(c, t)
      PROVE  CurrentWithin(t, entries[c][t].nick, LocalTTL + DurableTTL)
  <2>1. t \in Cached(c) /\ entries[c][t].age <= LocalTTL
    BY <1>1 DEF Hit
  <2>2. entries[c][t].nick \in 0..MaxChanges /\ entries[c][t].age \in Nat
    BY <2>1, EntryType, Bounds DEF StaleInv, Entries
  <2>3. /\ entries[c][t].nick <= Nickname(t)
        /\ CurrentWithin(t, entries[c][t].nick, entries[c][t].age + DurableTTL)
    BY <2>1 DEF StaleInv, EntryFresh
  <2>4. /\ entries[c][t].age + DurableTTL \in Nat /\ LocalTTL + DurableTTL \in Nat
        /\ entries[c][t].age + DurableTTL <= LocalTTL + DurableTTL
    BY <2>1, <2>2, Bounds
  <2> QED
    BY <2>2, <2>3, <2>4, LaterIsFine DEF StaleInv
<1>2. ASSUME DurableHit(t)
      PROVE  CurrentWithin(t, durable[t].nick, DurableTTL)
  <2>1. durable[t] # None /\ durable[t].age <= DurableTTL
    BY <1>2 DEF DurableHit
  <2>2. durable[t].nick \in 0..MaxChanges /\ durable[t].age \in Nat
    BY <2>1, Bounds DEF StaleInv, CacheTypes, Entries
  <2>3. durable[t].nick <= Nickname(t) /\ CurrentWithin(t, durable[t].nick, durable[t].age)
    BY <2>1 DEF StaleInv, RowFresh
  <2> QED
    BY <2>1, <2>2, <2>3, LaterIsFine, Bounds DEF StaleInv
<1> QED
  BY <1>1, <1>2

LEMMA StaleStutters ==
    ASSUME StaleInv, UNCHANGED vars
    PROVE  StaleInv'
<1>1. UNCHANGED <<entries, durable, changes, job, disturbed>>
  BY DEF vars
<1>2. CacheTypes'
  BY <1>1 DEF StaleInv, CacheTypes
<1>3. \A c \in Containers, t \in Tids : EntryFresh(c, t)'
  BY <1>1, SameShrinks, EntriesKept DEF StaleInv
<1>4. \A w \in Workers : AnswerFresh(w)'
  BY <1>1, AnswerKept
<1> QED
  BY <1>1, <1>2, <1>3, <1>4, RowsKept DEF StaleInv

\* Whatever races, failures and restarts happen, lookupS21Nickname answers from
\* a container's cache with a nickname that was the user's at most the sum of
\* the two time-to-lives ago, and from the table with one that was at most
\* s21NickDurableTTL ago.
THEOREM StalenessBounded == Spec => []StaleBound
<1>1. Init => StaleInv
  BY StaleInit
<1>2. StaleInv /\ [Next]_vars => StaleInv'
  BY StaleKept, StaleStutters
<1>3. StaleInv => StaleBound
  BY StaleBoundFollows
<1> QED
  BY <1>1, <1>2, <1>3, PTL DEF Spec

-----------------------------------------------------------------------------
(* The table and the caches *)

LEMMA ApartKept ==
    ASSUME Apart, \A v \in Workers : job'[v] # None => job[v] # None /\ job'[v].tid = job[v].tid
    PROVE  Apart'
BY DEF Apart

LEMMA NotBehindKept ==
    ASSUME Ahead, Shrink, UNCHANGED durable,
           \A v \in Workers : At(v, "write") => job'[v] = job[v]
    PROVE  \A c \in Containers, t \in Tids : NotBehind(c, t)'
<1> SUFFICES ASSUME NEW c \in Containers, NEW t \in Tids, t \in DOMAIN entries'[c], durable[t] # None
             PROVE  NotBehind(c, t)'
  BY DEF NotBehind, Cached
<1>1. t \in Cached(c) /\ entries'[c][t] = entries[c][t]
  BY DEF Shrink
<1>2. \/ entries[c][t].nick <= durable[t].nick
      \/ \E w \in Workers : At(w, "write") /\ job[w].tid = t
  BY <1>1 DEF Ahead, NotBehind
<1>3. CASE entries[c][t].nick <= durable[t].nick
  BY <1>1, <1>3 DEF NotBehind
<1>4. CASE \E w \in Workers : At(w, "write") /\ job[w].tid = t
  <2>1. PICK w \in Workers : At(w, "write") /\ job[w].tid = t
    BY <1>4
  <2>2. At(w, "write")' /\ job'[w].tid = t
    BY <2>1 DEF At
  <2> QED
    BY <2>2 DEF NotBehind
<1> QED
  BY <1>2, <1>3, <1>4

LEMMA NewestKept ==
    ASSUME Ahead, Shrink, NEW w \in Workers,
           \/ job'[w] = job[w]
           \/ job'[w] = None
           \/ job'[w].at \in {"durable", "fetch"}
    PROVE  \A c \in Containers : AnswerNewest(w, c)'
<1> SUFFICES ASSUME NEW c \in Containers, Answered(w)', job'[w].tid \in DOMAIN entries'[c]
             PROVE  entries'[c][job'[w].tid].nick <= job'[w].nick
  BY DEF AnswerNewest, Cached
<1>1. job'[w] = job[w]
  BY DEF Answered, At
<1>2. Answered(w)
  BY <1>1 DEF Answered, At
<1>3. AnswerNewest(w, c)
  BY DEF Ahead
<1>4. job[w].tid \in Cached(c) /\ entries'[c][job[w].tid] = entries[c][job[w].tid]
  BY <1>1 DEF Shrink
<1> QED
  BY <1>1, <1>2, <1>3, <1>4 DEF AnswerNewest

\* Put leaves the lookups of other users as they were.
LEMMA NewestBeside ==
    ASSUME Ahead, NEW c \in Containers, NEW t \in Tids, NEW nick, PutEffect(c, t, nick),
           NEW v \in Workers, job'[v] = job[v], job[v] # None => job[v].tid # t
    PROVE  \A d \in Containers : AnswerNewest(v, d)'
<1> SUFFICES ASSUME NEW d \in Containers, Answered(v)', job'[v].tid \in DOMAIN entries'[d]
             PROVE  entries'[d][job'[v].tid].nick <= job'[v].nick
  BY DEF AnswerNewest, Cached
<1>1. Answered(v) /\ job[v] # None
  BY DEF Answered, At
<1>2. AnswerNewest(v, d)
  BY DEF Ahead
<1>3. job[v].tid \in Cached(d) /\ entries'[d][job[v].tid] = entries[d][job[v].tid]
  BY <1>1 DEF PutEffect
<1> QED
  BY <1>1, <1>2, <1>3 DEF AnswerNewest

\* What Put leaves is not behind, if what it adds is not.
LEMMA NotBehindPut ==
    ASSUME Ahead, UNCHANGED durable,
           NEW c \in Containers, NEW t \in Tids, NEW nick \in 0..MaxChanges, PutEffect(c, t, nick),
           \A v \in Workers : At(v, "write") => job'[v] = job[v],
           \/ durable[t] # None => nick <= durable[t].nick
           \/ \E w \in Workers : At(w, "write")' /\ job'[w].tid = t
    PROVE  \A d \in Containers, u \in Tids : NotBehind(d, u)'
<1> SUFFICES ASSUME NEW d \in Containers, NEW u \in Tids, u \in DOMAIN entries'[d], durable[u] # None
             PROVE  NotBehind(d, u)'
  BY DEF NotBehind, Cached
<1>1. CASE d = c /\ u = t /\ entries'[d][u] = New(nick)
  <2>1. entries'[d][u].nick = nick
    BY <1>1, NewType
  <2> QED
    BY <1>1, <2>1 DEF NotBehind
<1>2. CASE u \in Cached(d) /\ entries'[d][u] = entries[d][u]
  <2>1. \/ entries[d][u].nick <= durable[u].nick
        \/ \E w \in Workers : At(w, "write") /\ job[w].tid = u
    BY <1>2 DEF Ahead, NotBehind
  <2>2. CASE entries[d][u].nick <= durable[u].nick
    BY <1>2, <2>2 DEF NotBehind
  <2>3. CASE \E w \in Workers : At(w, "write") /\ job[w].tid = u
    <3>1. PICK w \in Workers : At(w, "write") /\ job[w].tid = u
      BY <2>3
    <3>2. At(w, "write")' /\ job'[w].tid = u
      BY <3>1 DEF At
    <3> QED
      BY <3>2 DEF NotBehind
  <2> QED
    BY <2>1, <2>2, <2>3
<1> QED
  BY <1>1, <1>2 DEF PutEffect

\* A row with the newest nickname is ahead of every entry of the user.
LEMMA NotBehindWritten ==
    ASSUME CacheTypes, Ahead, UNCHANGED entries,
           NEW t \in Tids, NEW nick \in 0..MaxChanges, UpsertRow(t, nick),
           \A c \in Containers : t \in Cached(c) => entries[c][t].nick <= nick,
           \A v \in Workers : At(v, "write") /\ job[v].tid # t => job'[v] = job[v]
    PROVE  \A d \in Containers, u \in Tids : NotBehind(d, u)'
<1> SUFFICES ASSUME NEW d \in Containers, NEW u \in Tids, u \in Cached(d), durable'[u] # None
             PROVE  NotBehind(d, u)'
  BY DEF NotBehind, Cached
<1>1. CASE u = t
  <2>1. durable'[u].nick = nick
    BY <1>1, UpsertIs
  <2> QED
    BY <1>1, <2>1 DEF NotBehind
<1>2. CASE u # t
  <2>1. durable'[u] = durable[u]
    BY <1>2, UpsertIs
  <2>2. \/ entries[d][u].nick <= durable[u].nick
        \/ \E w \in Workers : At(w, "write") /\ job[w].tid = u
    BY <2>1 DEF Ahead, NotBehind
  <2>3. CASE entries[d][u].nick <= durable[u].nick
    BY <2>1, <2>3 DEF NotBehind
  <2>4. CASE \E w \in Workers : At(w, "write") /\ job[w].tid = u
    <3>1. PICK w \in Workers : At(w, "write") /\ job[w].tid = u
      BY <2>4
    <3>2. At(w, "write")' /\ job'[w].tid = u
      BY <1>2, <3>1 DEF At
    <3> QED
      BY <3>2 DEF NotBehind
  <2> QED
    BY <2>2, <2>3, <2>4
<1> QED
  BY <1>1, <1>2

\* No entry is newer than the service's answer.
LEMMA EntriesBelow ==
    ASSUME StaleInv, NEW t \in Tids
    PROVE  \A c \in Containers : t \in Cached(c) => entries[c][t].nick <= Nickname(t)
BY DEF StaleInv, EntryFresh

LEMMA AheadKept ==
    ASSUME StaleInv, Ahead, Next, ~disturbed'
    PROVE  Ahead'
<1>0. CacheTypes
  BY DEF StaleInv
<1>1. ASSUME NEW c \in Containers, NEW t \in Tids, LookupHit(c, t)
      PROVE  Ahead'
  <2>1. UNCHANGED <<entries, durable, job>>
    BY <1>1 DEF LookupHit, Promote
  <2>2. Shrink
    BY <1>0, <2>1, SameShrinks
  <2>3. Apart'
    BY <2>1, ApartKept DEF Ahead
  <2> QED
    BY <2>1, <2>2, <2>3, NotBehindKept, NewestKept DEF Ahead
<1>2. ASSUME NEW w \in Workers, NEW c \in Containers, NEW t \in Tids, LookupMiss(w, c, t)
      PROVE  Ahead'
  <2>1. UNCHANGED durable /\ Shrink /\ job[w] = None
    BY <1>0, <1>2, ExpireShrinks DEF LookupMiss
  <2>2. job'[w].at = "durable" /\ job'[w].tid = t /\ \A v \in Workers \ {w} : job'[v] = job[v]
    BY <1>0, <1>2, StartIs
  <2>3. \A v \in Workers : job[v] # None => job[v].tid # t
    BY <1>2 DEF LookupMiss
  <2>4. Apart'
    BY <2>1, <2>2, <2>3 DEF Ahead, Apart
  <2>5. \A d \in Containers, u \in Tids : NotBehind(d, u)'
    BY <2>1, <2>2, NotBehindKept DEF At
  <2>6. \A v \in Workers : \A d \in Containers : AnswerNewest(v, d)'
    BY <2>1, <2>2, NewestKept
  <2> QED
    BY <2>4, <2>5, <2>6 DEF Ahead
<1>3. ASSUME NEW w \in Workers, DurableServes(w)
      PROVE  Ahead'
  <2>1. UNCHANGED durable /\ job[w] # None /\ job[w].at = "durable"
    BY <1>0, <1>3, ServesIs DEF DurableServes
  <2>2. job'[w] = None /\ \A v \in Workers \ {w} : job'[v] = job[v]
    BY <1>0, <1>3, FinishIs DEF DurableServes
  <2>3. PICK t \in Tids, c \in Containers, n \in 0..MaxChanges :
           t = job[w].tid /\ c = job[w].on /\ n = durable[t].nick
    BY <1>0, <1>3, ServesIs
  <2>4. PutEffect(c, t, n)
    BY <1>0, <1>3, <2>3, ServesIs
  <2>5. Apart'
    BY <2>2, ApartKept DEF Ahead
  <2>6. n <= durable[t].nick
    BY <2>3, Bounds
  <2>7. \A d \in Containers, u \in Tids : NotBehind(d, u)'
    BY <2>1, <2>2, <2>4, <2>6, NotBehindPut DEF At
  <2>8. \A v \in Workers \ {w} : \A d \in Containers : AnswerNewest(v, d)'
    BY <2>1, <2>2, <2>3, <2>4, NewestBeside DEF Ahead, Apart
  <2>9. \A d \in Containers : AnswerNewest(w, d)'
    BY <2>2 DEF AnswerNewest, Answered, At
  <2> QED
    BY <2>5, <2>7, <2>8, <2>9 DEF Ahead
<1>4. ASSUME NEW w \in Workers, DurableMisses(w)
      PROVE  Ahead'
  <2>1. UNCHANGED <<entries, durable>> /\ job[w] # None /\ job[w].at = "durable" /\ Goto(w, "fetch")
    BY <1>4 DEF DurableMisses, At
  <2>2. job'[w].at = "fetch" /\ job'[w].tid = job[w].tid /\ \A v \in Workers \ {w} : job'[v] = job[v]
    BY <1>0, <2>1, GotoIs
  <2>3. Shrink
    BY <1>0, <2>1, SameShrinks
  <2>4. Apart'
    BY <2>1, <2>2, ApartKept DEF Ahead
  <2>5. \A d \in Containers, u \in Tids : NotBehind(d, u)'
    BY <2>1, <2>2, <2>3, NotBehindKept DEF At
  <2>6. \A v \in Workers : \A d \in Containers : AnswerNewest(v, d)'
    BY <2>2, <2>3, NewestKept
  <2> QED
    BY <2>4, <2>5, <2>6 DEF Ahead
<1>5. ASSUME NEW w \in Workers, Fetch(w)
      PROVE  Ahead'
  <2>1. UNCHANGED <<entries, durable>> /\ job[w] # None /\ job[w].at = "fetch"
    BY <1>5 DEF Fetch, At
  <2>2. PICK t \in Tids : t = job[w].tid
    BY <1>0, <2>1, JobFacts
  <2>3. job'[w].tid = t /\ job'[w].nick = Nickname(t) /\ \A v \in Workers \ {w} : job'[v] = job[v]
    BY <1>0, <1>5, <2>2, FetchIs
  <2>4. Shrink
    BY <1>0, <2>1, SameShrinks
  <2>5. Apart'
    BY <2>1, <2>2, <2>3, ApartKept DEF Ahead
  <2>6. \A d \in Containers, u \in Tids : NotBehind(d, u)'
    BY <2>1, <2>3, <2>4, NotBehindKept DEF At
  <2>7. \A v \in Workers \ {w} : \A d \in Containers : AnswerNewest(v, d)'
    BY <2>3, <2>4, NewestKept
  <2>8. \A d \in Containers : AnswerNewest(w, d)'
    BY <2>1, <2>3, EntriesBelow DEF AnswerNewest, Cached
  <2> QED
    BY <2>5, <2>6, <2>7, <2>8 DEF Ahead
<1>6. ASSUME NEW w \in Workers, FetchFails(w)
      PROVE  Ahead'
  <2>1. UNCHANGED <<entries, durable>> /\ job[w].at = "fetch" /\ Finish(w)
    BY <1>6 DEF FetchFails, At
  <2>2. job'[w] = None /\ \A v \in Workers \ {w} : job'[v] = job[v]
    BY <1>0, <2>1, FinishIs
  <2>3. Shrink
    BY <1>0, <2>1, SameShrinks
  <2>4. Apart'
    BY <2>2, ApartKept DEF Ahead
  <2>5. \A d \in Containers, u \in Tids : NotBehind(d, u)'
    BY <2>1, <2>2, <2>3, NotBehindKept DEF At
  <2>6. \A v \in Workers : \A d \in Containers : AnswerNewest(v, d)'
    BY <2>2, <2>3, NewestKept
  <2> QED
    BY <2>4, <2>5, <2>6 DEF Ahead
<1>7. ASSUME NEW w \in Workers, PutLocal(w)
      PROVE  Ahead'
  <2>1. UNCHANGED durable /\ job[w] # None /\ job[w].at = "put" /\ Goto(w, "write")
    BY <1>0, <1>7, PutLocalIs DEF PutLocal
  <2>2. PICK t \in Tids, c \in Containers, n \in 0..MaxChanges :
           t = job[w].tid /\ c = job[w].on /\ n = job[w].nick
    BY <1>0, <1>7, PutLocalIs
  <2>3. PutEffect(c, t, n)
    BY <1>0, <1>7, <2>2, PutLocalIs
  <2>4. /\ job'[w] # None /\ job'[w].at = "write" /\ job'[w].tid = t /\ job'[w].nick = n
        /\ \A v \in Workers \ {w} : job'[v] = job[v]
    BY <1>0, <2>1, <2>2, GotoIs
  <2>5. Apart'
    BY <2>1, <2>2, <2>4, ApartKept DEF Ahead
  <2>6. \E v \in Workers : At(v, "write")' /\ job'[v].tid = t
    BY <2>4 DEF At
  <2>7. \A v \in Workers : At(v, "write") => job'[v] = job[v]
    BY <2>1, <2>4 DEF At
  <2>8. \A d \in Containers, u \in Tids : NotBehind(d, u)'
    BY <2>1, <2>3, <2>6, <2>7, NotBehindPut
  <2>9. \A v \in Workers \ {w} : \A d \in Containers : AnswerNewest(v, d)'
    BY <2>1, <2>2, <2>3, <2>4, NewestBeside DEF Ahead, Apart
  <2>10. ASSUME NEW d \in Containers, t \in DOMAIN entries'[d]
         PROVE  entries'[d][t].nick <= n
    <3>1. CASE entries'[d][t] = New(n)
      BY <3>1, NewType, Bounds
    <3>2. CASE t \in Cached(d) /\ entries'[d][t] = entries[d][t]
      <4>1. AnswerNewest(w, d) /\ Answered(w)
        BY <2>1 DEF Ahead, Answered, At
      <4> QED
        BY <2>2, <3>2, <4>1 DEF AnswerNewest
    <3> QED
      BY <2>3, <2>10, <3>1, <3>2 DEF PutEffect
  <2>11. \A d \in Containers : AnswerNewest(w, d)'
    BY <2>4, <2>10 DEF AnswerNewest, Cached
  <2> QED
    BY <2>5, <2>8, <2>9, <2>11 DEF Ahead
<1>8. ASSUME NEW w \in Workers, WriteDurable(w)
      PROVE  Ahead'
  <2>1. UNCHANGED entries /\ job[w] # None /\ job[w].at = "write" /\ Finish(w)
    BY <1>8 DEF WriteDurable, At
  <2>2. PICK t \in Tids, n \in 0..MaxChanges : t = job[w].tid /\ n = job[w].nick
    BY <1>0, <2>1, JobFacts
  <2>3. UpsertRow(t, n)
    BY <1>8, <2>2 DEF WriteDurable
  <2>4. job'[w] = None /\ \A v \in Workers \ {w} : job'[v] = job[v]
    BY <1>0, <2>1, FinishIs
  <2>5. Shrink
    BY <1>0, <2>1, SameShrinks
  <2>6. Apart'
    BY <2>4, ApartKept DEF Ahead
  <2>7. \A c \in Containers : t \in Cached(c) => entries[c][t].nick <= n
    BY <2>1, <2>2 DEF Ahead, AnswerNewest, Answered, At
  <2>8. \A v \in Workers : At(v, "write") /\ job[v].tid # t => job'[v] = job[v]
    BY <2>2, <2>4
  <2>9. \A d \in Containers, u \in Tids : NotBehind(d, u)'
    BY <1>0, <2>1, <2>3, <2>7, <2>8, NotBehindWritten
  <2>10. \A v \in Workers : \A d \in Containers : AnswerNewest(v, d)'
    BY <2>4, <2>5, NewestKept
  <2> QED
    BY <2>6, <2>9, <2>10 DEF Ahead
<1>9. ASSUME NEW w \in Workers, WriteDurableFails(w)
      PROVE  FALSE
  BY <1>9 DEF WriteDurableFails
<1>10. ASSUME NEW t \in Tids, ProvideNickname(t)
       PROVE  Ahead'
  <2>1. UNCHANGED <<entries, durable, job>>
    BY <1>10 DEF ProvideNickname
  <2>2. Shrink
    BY <1>0, <2>1, SameShrinks
  <2>3. Apart'
    BY <2>1, ApartKept DEF Ahead
  <2> QED
    BY <2>1, <2>2, <2>3, NotBehindKept, NewestKept DEF Ahead
<1>11. ASSUME NEW t \in Tids, LookupElsewhere(t)
       PROVE  Ahead'
  <2>1. UNCHANGED <<entries, job>>
    BY <1>11 DEF LookupElsewhere
  <2>2. PICK n \in 0..MaxChanges : n = Nickname(t)
    BY <1>0, NicknameType
  <2>3. UpsertRow(t, n)
    BY <1>11, <2>2 DEF LookupElsewhere
  <2>4. \A c \in Containers : t \in Cached(c) => entries[c][t].nick <= n
    BY <2>2, EntriesBelow
  <2>5. \A d \in Containers, u \in Tids : NotBehind(d, u)'
    BY <1>0, <2>1, <2>3, <2>4, NotBehindWritten
  <2>6. Shrink
    BY <1>0, <2>1, SameShrinks
  <2>7. Apart'
    BY <2>1, ApartKept DEF Ahead
  <2> QED
    BY <2>1, <2>5, <2>6, <2>7, NewestKept DEF Ahead
<1>12. ASSUME NEW c \in Containers, Recycle(c)
       PROVE  Ahead'
  <2>1. UNCHANGED durable /\ Shrink /\ \A w \in Workers : job'[w] # None => job'[w] = job[w]
    BY <1>0, <1>12, RecycleIs DEF Recycle
  <2>2. \A w \in Workers : At(w, "write") => job[w].on # c
    BY <1>12 DEF Recycle
  <2>3. \A w \in Workers : At(w, "write") => job'[w] = job[w]
    BY <1>0, <1>12, <2>2, RecycleIs DEF At
  <2>4. Apart'
    BY <2>1, ApartKept DEF Ahead
  <2>5. \A v \in Workers : \A d \in Containers : AnswerNewest(v, d)'
    BY <2>1, NewestKept
  <2> QED
    BY <2>1, <2>3, <2>4, <2>5, NotBehindKept DEF Ahead
<1>13. ASSUME Tick
       PROVE  Ahead'
  <2>1. \A w \in Workers : job[w] = None /\ job'[w] = None
    BY <1>13 DEF Tick
  <2>2. Apart'
    BY <2>1 DEF Apart
  <2>3. \A w \in Workers, c \in Containers : AnswerNewest(w, c)'
    BY <2>1 DEF AnswerNewest, Answered, At
  <2>4. ASSUME NEW c \in Containers, NEW t \in Tids, t \in DOMAIN entries'[c], durable'[t] # None
        PROVE  NotBehind(c, t)'
    <3>1. t \in Cached(c) /\ entries'[c][t].nick = entries[c][t].nick
      BY <1>0, <1>13, <2>4, DayOfCopies
    <3>2. durable[t] # None /\ durable'[t].nick = durable[t].nick
      BY <1>0, <1>13, <2>4, DayOfCopies
    <3>3. entries[c][t].nick <= durable[t].nick
      BY <2>1, <3>1, <3>2 DEF Ahead, NotBehind, At
    <3> QED
      BY <3>1, <3>2, <3>3 DEF NotBehind
  <2>5. \A c \in Containers, t \in Tids : NotBehind(c, t)'
    BY <2>4 DEF NotBehind, Cached
  <2> QED
    BY <2>2, <2>3, <2>5 DEF Ahead
<1> QED
  BY <1>1, <1>2, <1>3, <1>4, <1>5, <1>6, <1>7, <1>8, <1>9, <1>10, <1>11, <1>12, <1>13,
     NickCacheAssumption DEF Next

LEMMA AheadStutters ==
    ASSUME StaleInv, Ahead, UNCHANGED vars
    PROVE  Ahead'
<1>1. UNCHANGED <<entries, durable, job>>
  BY DEF vars
<1>2. Shrink
  BY <1>1, SameShrinks DEF StaleInv
<1>3. Apart'
  BY <1>1, ApartKept DEF Ahead
<1> QED
  BY <1>1, <1>2, <1>3, NotBehindKept, NewestKept DEF Ahead

LEMMA DisturbedForGood ==
    ASSUME Next, disturbed
    PROVE  disturbed'
BY DEF Next, LookupHit, LookupMiss, DurableServes, DurableMisses, Fetch, FetchFails, PutLocal,
       WriteDurable, WriteDurableFails, ProvideNickname, LookupElsewhere, Recycle, Tick

\* Put before upsert: between the two the table may lack what a container has,
\* and only then.  As long as no two lookups of a user overlap and no write is
\* lost, whatever leaves a container's cache comes back from the table no older.
THEOREM TableNotBehind == Spec => []DurableNeverBehind
<1>1. Init => BehindInv
  <2> SUFFICES ASSUME Init
               PROVE  StaleInv /\ Ahead
    BY DEF BehindInv
  <2>1. StaleInv
    BY StaleInit
  <2>2. \A w \in Workers : job[w] = None
    BY DEF Init
  <2>3. \A t \in Tids : durable[t] = None
    BY DEF Init
  <2>4. Ahead
    BY <2>2, <2>3 DEF Ahead, Apart, NotBehind, AnswerNewest, Answered, At
  <2> QED
    BY <2>1, <2>4
<1>2. BehindInv /\ [Next]_vars => BehindInv'
  <2> SUFFICES ASSUME BehindInv, [Next]_vars
               PROVE  BehindInv'
    OBVIOUS
  <2>1. StaleInv'
    BY StaleKept, StaleStutters DEF BehindInv
  <2>2. CASE Next
    <3>1. ASSUME ~disturbed'
          PROVE  Ahead'
      <4>1. ~disturbed
        BY <2>2, <3>1, DisturbedForGood
      <4> QED
        BY <2>2, <3>1, <4>1, AheadKept DEF BehindInv
    <3> QED
      BY <2>1, <3>1 DEF BehindInv
  <2>3. CASE UNCHANGED vars
    <3>1. disturbed' = disturbed
      BY <2>3 DEF vars
    <3> QED
      BY <2>1, <2>3, <3>1, AheadStutters DEF BehindInv
  <2> QED
    BY <2>2, <2>3
<1>3. BehindInv => DurableNeverBehind
  <2> SUFFICES ASSUME Ahead, NEW c \in Containers, NEW t \in Tids, Hit(c, t), DurableHit(t)
               PROVE  \/ entries[c][t].nick <= durable[t].nick
                      \/ \E w \in Workers : At(w, "write") /\ job[w].tid = t
    BY DEF BehindInv, DurableNeverBehind
  <2>1. NotBehind(c, t)
    BY DEF Ahead
  <2> QED
    BY <2>1 DEF NotBehind, Hit, DurableHit
<1> QED
  BY <1>1, <1>2, <1>3, PTL DEF Spec

-----------------------------------------------------------------------------
(* Lists *)

\* The list without its last element.
LEMMA FrontFacts ==
    ASSUME NEW S, NEW seq \in Seq(S), Distinct(seq), Len(seq) > 0,
           NEW front, front = SubSeq(seq, 1, Len(seq) - 1)
    PROVE  /\ front \in Seq(S) /\ Len(front) = Len(seq) - 1 /\ Distinct(front)
           /\ Elements(front) = Elements(seq) \ {seq[Len(seq)]}
           /\ \A t, u : Before(front, t, u) => Before(seq, t, u)
           /\ \A t \in Elements(front) : Before(seq, t, seq[Len(seq)])
<1>1. Len(seq) \in Nat /\ Len(seq) - 1 \in Nat
  OBVIOUS
<1>2. \A i \in 1..(Len(seq) - 1) : seq[i] \in S
  BY ElementType
<1>3. PICK n \in Nat : n = Len(seq) - 1
  BY <1>1
<1>4. front \in Seq(S) /\ Len(front) = Len(seq) - 1
  <2>1. 1 \in Int /\ n \in Int /\ \A i \in 1..n : seq[i] \in S
    BY <1>2, <1>3
  <2>2. SubSeq(seq, 1, n) \in Seq(S) /\ Len(SubSeq(seq, 1, n)) = IF 1 <= n THEN n - 1 + 1 ELSE 0
    BY ONLY <2>1, SubSeqProperties
  <2>3. Len(SubSeq(seq, 1, n)) = n
    BY <2>2
  <2> QED
    BY <1>3, <2>2, <2>3
<1>5. \A i \in 1..(Len(seq) - 1) : front[i] = seq[i]
  <2>1. n - 1 + 1 = n /\ \A i \in 1..n : 1 + i - 1 = i /\ seq[i] \in S
    BY <1>2, <1>3
  <2>2. \A i \in 1..(n - 1 + 1) : SubSeq(seq, 1, n)[i] = seq[1 + i - 1]
    BY <2>1, SubSeqProperties
  <2> QED
    BY <1>3, <2>1, <2>2
<1>6. Distinct(front)
  BY <1>1, <1>4, <1>5 DEF Distinct
<1>7. Elements(front) = Elements(seq) \ {seq[Len(seq)]}
  <2>1. ASSUME NEW t \in Elements(front)
        PROVE  t \in Elements(seq) /\ t # seq[Len(seq)] /\ Before(seq, t, seq[Len(seq)])
    <3>1. PICK i \in 1..(Len(seq) - 1) : t = seq[i]
      BY <1>4, <1>5 DEF Elements
    <3> QED
      BY <1>1, <3>1 DEF Elements, Distinct, Before
  <2>2. ASSUME NEW t \in Elements(seq), t # seq[Len(seq)]
        PROVE  t \in Elements(front)
    <3>1. PICK i \in 1..Len(seq) : t = seq[i]
      BY DEF Elements
    <3>2. i \in 1..(Len(seq) - 1)
      BY <1>1, <2>2, <3>1
    <3> QED
      BY <1>4, <1>5, <3>1, <3>2 DEF Elements
  <2> QED
    BY <2>1, <2>2
<1>8. \A t, u : Before(front, t, u) => Before(seq, t, u)
  BY <1>1, <1>4, <1>5 DEF Before
<1>9. \A t \in Elements(front) : Before(seq, t, seq[Len(seq)])
  <2> TAKE t \in Elements(front)
  <2>1. PICK i \in 1..(Len(seq) - 1) : t = seq[i]
    BY <1>4, <1>5 DEF Elements
  <2> QED
    BY <1>1, <2>1 DEF Before
<1> QED
  BY <1>4, <1>6, <1>7, <1>8, <1>9

\* Remove of an element.
Removed(S, seq, t, left) ==
    /\ left \in Seq(S) /\ Distinct(left)
    /\ Len(left) <= Len(seq)
    /\ t \in Elements(seq) => Len(left) = Len(seq) - 1
    /\ Elements(left) = Elements(seq) \ {t}
    /\ \A u, v : Before(left, u, v) <=> Before(seq, u, v) /\ u # t /\ v # t

LEMMA WithoutFacts ==
    ASSUME NEW S, NEW seq \in Seq(S), Distinct(seq), NEW t, NEW left, left = Without(seq, t)
    PROVE  Removed(S, seq, t, left)
<1>0. Len(seq) \in Nat
  OBVIOUS
<1>1. CASE t \notin Elements(seq)
  <2>1. left = seq
    BY <1>1 DEF Without, Elements
  <2>2. \A u, v : Before(seq, u, v) => u \in Elements(seq) /\ v \in Elements(seq)
    BY DEF Before, Elements
  <2> QED
    BY <1>0, <1>1, <2>1, <2>2 DEF Removed
<1>2. CASE t \in Elements(seq)
  <2>0. \E i \in 1..Len(seq) : seq[i] = t
    BY <1>2 DEF Elements
  <2>1. PICK i \in 1..Len(seq) : i = CHOOSE k \in 1..Len(seq) : seq[k] = t
    BY <2>0
  <2>2. seq[i] = t
    BY <2>0, <2>1
  <2>3. left = [j \in 1..(Len(seq) - 1) |-> IF j < i THEN seq[j] ELSE seq[j + 1]]
    BY <2>0, <2>1 DEF Without
  <2>4. Len(seq) - 1 \in Nat
    BY <1>0, <2>1
  <2>5. \A j \in 1..(Len(seq) - 1) : /\ (IF j < i THEN seq[j] ELSE seq[j + 1]) \in S
    BY <1>0, ElementType
  <2>6. left \in [1..(Len(seq) - 1) -> S]
    BY <2>3, <2>5
  <2>7. left \in Seq(S) /\ Len(left) = Len(seq) - 1
    BY <2>4, <2>6, SequenceOf
  \* Where the elements come from, and where they go.
  <2>8. \A j \in 1..(Len(seq) - 1) :
           /\ j < i => left[j] = seq[j]
           /\ ~(j < i) => left[j] = seq[j + 1]
    BY <2>3
  <2> DEFINE From(j) == IF j < i THEN j ELSE j + 1
             To(k) == IF k < i THEN k ELSE k - 1
  <2>9. \A j \in 1..(Len(seq) - 1) :
           From(j) \in 1..Len(seq) /\ From(j) # i /\ left[j] = seq[From(j)]
    BY <1>0, <2>8
  <2>10. \A j, k \in 1..(Len(seq) - 1) : (j < k => From(j) < From(k)) /\ (From(j) = From(k) => j = k)
    BY <1>0
  <2>11. \A k \in 1..Len(seq) : k # i =>
            To(k) \in 1..(Len(seq) - 1) /\ left[To(k)] = seq[k]
    BY <1>0, <2>8
  <2>12. \A k, l \in 1..Len(seq) : k # i /\ l # i /\ k < l => To(k) < To(l)
    BY <1>0
  <2> HIDE DEF From, To
  <2>13. \A k \in 1..Len(seq) : seq[k] = t <=> k = i
    BY <2>2 DEF Distinct
  <2>14. Distinct(left)
    BY <2>7, <2>9, <2>10 DEF Distinct
  <2>15. ASSUME NEW u
         PROVE  u \in Elements(left) <=> u \in Elements(seq) /\ u # t
    <3>1. ASSUME u \in Elements(left)
          PROVE  u \in Elements(seq) /\ u # t
      <4>1. PICK j \in 1..(Len(seq) - 1) : left[j] = u
        BY <2>7, <3>1 DEF Elements
      <4> QED
        BY <2>9, <2>13, <4>1 DEF Elements
    <3>2. ASSUME u \in Elements(seq), u # t
          PROVE  u \in Elements(left)
      <4>1. PICK k \in 1..Len(seq) : seq[k] = u
        BY <3>2 DEF Elements
      <4> QED
        BY <2>2, <2>7, <2>11, <3>2, <4>1 DEF Elements
    <3> QED
      BY <3>1, <3>2
  <2>16. ASSUME NEW u, NEW v, Before(left, u, v)
         PROVE  Before(seq, u, v) /\ u # t /\ v # t
    <3>1. PICK j, k \in 1..(Len(seq) - 1) : j < k /\ left[j] = u /\ left[k] = v
      BY <2>7, <2>16 DEF Before
    <3>2. From(j) < From(k) /\ seq[From(j)] = u /\ seq[From(k)] = v
      BY <2>9, <2>10, <3>1
    <3> QED
      BY <2>9, <2>13, <3>1, <3>2 DEF Before
  <2>17. ASSUME NEW u, NEW v, Before(seq, u, v), u # t, v # t
         PROVE  Before(left, u, v)
    <3>1. PICK k, l \in 1..Len(seq) : k < l /\ seq[k] = u /\ seq[l] = v
      BY <2>17 DEF Before
    <3>2. k # i /\ l # i
      BY <2>2, <2>17, <3>1
    <3>3. To(k) < To(l) /\ left[To(k)] = u /\ left[To(l)] = v
      BY <2>11, <2>12, <3>1, <3>2
    <3> QED
      BY <2>7, <2>11, <3>2, <3>3 DEF Before
  <2>18. Elements(left) = Elements(seq) \ {t}
    BY <2>15
  <2> QED
    BY <1>0, <2>7, <2>14, <2>16, <2>17, <2>18 DEF Removed
<1> QED
  BY <1>1, <1>2

\* MoveToFront and PushFront.
AtFront(S, seq, t, list) ==
    /\ list \in Seq(S) /\ Distinct(list) /\ Len(list) > 0
    /\ Len(list) <= Len(seq) + 1
    /\ t \in Elements(seq) => Len(list) = Len(seq)
    /\ Elements(list) = Elements(seq) \cup {t}
    /\ \A u, v : Before(list, u, v) <=>
          \/ u = t /\ v \in Elements(seq) \ {t}
          \/ u # t /\ v # t /\ Before(seq, u, v)

LEMMA ToFrontFacts ==
    ASSUME NEW S, NEW seq \in Seq(S), Distinct(seq), NEW t \in S, NEW list, list = ToFront(seq, t)
    PROVE  AtFront(S, seq, t, list)
<1>1. PICK left : left = Without(seq, t)
  OBVIOUS
<1>2. /\ left \in Seq(S) /\ Distinct(left) /\ Len(left) <= Len(seq)
      /\ t \in Elements(seq) => Len(left) = Len(seq) - 1
      /\ Elements(left) = Elements(seq) \ {t}
      /\ \A u, v : Before(left, u, v) <=> Before(seq, u, v) /\ u # t /\ v # t
  <2>1. Removed(S, seq, t, left)
    BY <1>1, WithoutFacts
  <2> QED
    BY <2>1 DEF Removed
<1>3. list = <<t>> \o left
  BY <1>1 DEF ToFront
<1>4. /\ list \in Seq(S) /\ Len(list) = Len(left) + 1 /\ list[1] = t
      /\ \A i \in 1..Len(left) : list[i + 1] = left[i]
  BY <1>2, <1>3
<1>5. Len(left) \in Nat /\ Len(seq) \in Nat
  BY <1>2
<1>6. \A i \in 1..Len(list) : i # 1 => i - 1 \in 1..Len(left) /\ list[i] = left[i - 1]
  <2> SUFFICES ASSUME NEW i \in 1..Len(list), i # 1
               PROVE  i - 1 \in 1..Len(left) /\ list[i] = left[i - 1]
    OBVIOUS
  <2>1. PICK j \in 1..Len(left) : i = j + 1 /\ i - 1 = j
    <3>1. i \in Int /\ 1 < i /\ i <= Len(left) + 1
      BY <1>4, <1>5
    <3>2. i - 1 \in 1..Len(left) /\ i = (i - 1) + 1
      BY <1>5, <3>1
    <3> QED
      BY <3>2
  <2>2. list[j + 1] = left[j]
    BY <1>4
  <2> QED
    BY <2>1, <2>2
<1>7. \A i \in 1..Len(left) : i + 1 \in 1..Len(list) /\ i + 1 # 1 /\ list[i + 1] = left[i] /\ left[i] # t
  <2> SUFFICES ASSUME NEW i \in 1..Len(left)
               PROVE  i + 1 \in 1..Len(list) /\ i + 1 # 1 /\ list[i + 1] = left[i] /\ left[i] # t
    OBVIOUS
  <2>1. i + 1 \in 1..Len(list) /\ i + 1 # 1
    BY <1>4, <1>5
  <2>2. list[i + 1] = left[i]
    BY <1>4
  <2>3. left[i] \in Elements(left)
    BY DEF Elements
  <2>4. left[i] # t
    BY <1>2, <2>3
  <2> QED
    BY <2>1, <2>2, <2>4
<1>8. Distinct(list)
  <2> SUFFICES ASSUME NEW i \in 1..Len(list), NEW j \in 1..Len(list), list[i] = list[j]
               PROVE  i = j
    BY DEF Distinct
  <2>1. CASE i = 1 \/ j = 1
    BY <1>4, <1>6, <1>7, <2>1
  <2>2. CASE i # 1 /\ j # 1
    <3>1. i - 1 = j - 1
      BY <1>2, <1>6, <2>2 DEF Distinct
    <3> QED
      BY <1>4, <1>5, <3>1
  <2> QED
    BY <2>1, <2>2
<1>9. Elements(list) = Elements(left) \cup {t}
  <2>1. ASSUME NEW u \in Elements(list)
        PROVE  u \in Elements(left) \cup {t}
    <3>1. PICK i \in 1..Len(list) : list[i] = u
      BY DEF Elements
    <3> QED
      BY <1>4, <1>6, <3>1 DEF Elements
  <2>2. ASSUME NEW u \in Elements(left)
        PROVE  u \in Elements(list)
    <3>1. PICK i \in 1..Len(left) : left[i] = u
      BY DEF Elements
    <3> QED
      BY <1>7, <3>1 DEF Elements
  <2>3. t \in Elements(list)
    BY <1>4, <1>5 DEF Elements
  <2> QED
    BY <2>1, <2>2, <2>3
<1>10. ASSUME NEW u, NEW v
       PROVE  Before(list, u, v) <=> (u = t /\ v \in Elements(left)) \/ Before(left, u, v)
  <2>1. ASSUME Before(list, u, v)
        PROVE  (u = t /\ v \in Elements(left)) \/ Before(left, u, v)
    <3>1. PICK i, j \in 1..Len(list) : i < j /\ list[i] = u /\ list[j] = v
      BY <2>1 DEF Before
    <3>2. j # 1
      BY <1>4, <1>5, <3>1
    <3>3. j - 1 \in 1..Len(left) /\ left[j - 1] = v
      BY <1>6, <3>1, <3>2
    <3>4. CASE i = 1
      BY <1>4, <3>1, <3>3, <3>4 DEF Elements
    <3>5. CASE i # 1
      <4>1. i - 1 \in 1..Len(left) /\ left[i - 1] = u /\ i - 1 < j - 1
        BY <1>4, <1>5, <1>6, <3>1, <3>5
      <4> QED
        BY <3>3, <4>1 DEF Before
    <3> QED
      BY <3>4, <3>5
  <2>2. ASSUME u = t, v \in Elements(left)
        PROVE  Before(list, u, v)
    <3>1. PICK j \in 1..Len(left) : left[j] = v
      BY <2>2 DEF Elements
    <3>2. 1 \in 1..Len(list) /\ 1 < j + 1
      BY <1>4, <1>5, <3>1
    <3> QED
      BY <1>4, <1>7, <2>2, <3>1, <3>2 DEF Before
  <2>3. ASSUME Before(left, u, v)
        PROVE  Before(list, u, v)
    <3>1. PICK i, j \in 1..Len(left) : i < j /\ left[i] = u /\ left[j] = v
      BY <2>3 DEF Before
    <3>2. i + 1 < j + 1
      BY <1>5, <3>1
    <3> QED
      BY <1>7, <3>1, <3>2 DEF Before
  <2> QED
    BY <2>1, <2>2, <2>3
<1>11. \A u, v : Before(list, u, v) <=>
          \/ u = t /\ v \in Elements(seq) \ {t}
          \/ u # t /\ v # t /\ Before(seq, u, v)
  BY <1>2, <1>10
<1>12. Elements(list) = Elements(seq) \cup {t}
  BY <1>2, <1>9
<1>13. /\ Len(list) > 0 /\ Len(list) <= Len(seq) + 1
       /\ t \in Elements(seq) => Len(list) = Len(seq)
  BY <1>2, <1>4, <1>5
<1> QED
  BY <1>4, <1>8, <1>11, <1>12, <1>13 DEF AtFront

\* A list without repetitions is as long as the set of its elements.
LEMMA CountElements ==
    ASSUME NEW S, NEW seq \in Seq(S), Distinct(seq)
    PROVE  Cardinality(Elements(seq)) = Len(seq)
<1>1. Len(seq) \in Nat
  OBVIOUS
<1>2. seq \in [1..Len(seq) -> Elements(seq)]
  BY DEF Elements
<1>3. seq \in Bijection(1..Len(seq), Elements(seq))
  <2>1. seq \in Injection(1..Len(seq), Elements(seq))
    BY <1>2 DEF Injection, IsInjective, Distinct
  <2>2. seq \in Surjection(1..Len(seq), Elements(seq))
    BY <1>2 DEF Surjection, Elements
  <2> QED
    BY <2>1, <2>2 DEF Bijection
<1> QED
  BY <1>1, <1>3, FS_CountingElements DEF ExistsBijection

-----------------------------------------------------------------------------
(* The map and the list of a cache *)

\* Map f and list are in step, and list is in the order of used.
InStep(f, list, used) ==
    /\ list \in Seq(Tids) /\ Distinct(list)
    /\ used \in Seq(Tids) /\ Distinct(used)
    /\ Elements(list) = DOMAIN f
    /\ Len(list) <= MaxEntries
    /\ Elements(list) \subseteq Elements(used)
    /\ \A t, u \in Tids : Before(list, t, u) => Before(used, t, u)

ListInv ==
    /\ CacheTypes
    /\ lru \in [Containers -> Seq(Tids)]
    /\ uses \in [Containers -> Seq(Tids)]
    /\ \A c \in Containers : InStep(entries[c], lru[c], uses[c])

\* list1 and used1 are list and used with t at the front, still in one order.
Promoted(f, list, t, list1, used1) ==
    /\ list1 \in Seq(Tids) /\ Distinct(list1)
    /\ used1 \in Seq(Tids) /\ Distinct(used1)
    /\ Len(list1) > 0 /\ Len(list1) <= Len(list) + 1
    /\ t \in DOMAIN f => Len(list1) = Len(list)
    /\ Elements(list1) = DOMAIN f \cup {t}
    /\ Elements(list1) \subseteq Elements(used1)
    /\ \A u, v \in Tids : Before(list1, u, v) => Before(used1, u, v)

LEMMA OrderToFront ==
    ASSUME NEW f, NEW list, NEW used, InStep(f, list, used), NEW t \in Tids,
           NEW list1, list1 = ToFront(list, t), NEW used1, used1 = ToFront(used, t)
    PROVE  Promoted(f, list, t, list1, used1)
<1>1. /\ list \in Seq(Tids) /\ Distinct(list) /\ used \in Seq(Tids) /\ Distinct(used)
      /\ Elements(list) = DOMAIN f /\ Elements(list) \subseteq Elements(used)
      /\ \A u, v \in Tids : Before(list, u, v) => Before(used, u, v)
  BY DEF InStep
<1>2. AtFront(Tids, list, t, list1) /\ AtFront(Tids, used, t, used1)
  BY <1>1, ToFrontFacts
<1>3. Elements(list1) = Elements(list) \cup {t} /\ Elements(used1) = Elements(used) \cup {t}
  BY <1>2 DEF AtFront
<1>4. Elements(list1) \subseteq Elements(used1)
  BY <1>1, <1>3
<1>5. \A u, v \in Tids : Before(list1, u, v) => Before(used1, u, v)
  BY <1>1, <1>2 DEF AtFront
<1>6. /\ list1 \in Seq(Tids) /\ Distinct(list1) /\ Len(list1) > 0
      /\ Len(list1) <= Len(list) + 1 /\ (t \in Elements(list) => Len(list1) = Len(list))
  BY <1>2 DEF AtFront
<1>7. used1 \in Seq(Tids) /\ Distinct(used1)
  BY <1>2 DEF AtFront
<1>8. Elements(list1) = DOMAIN f \cup {t}
  BY <1>1, <1>3
<1> QED
  BY <1>1, <1>4, <1>5, <1>6, <1>7, <1>8 DEF Promoted

LEMMA PromoteInStep ==
    ASSUME NEW f, NEW list, NEW used, InStep(f, list, used), NEW t \in Tids, t \in DOMAIN f
    PROVE  InStep(f, ToFront(list, t), ToFront(used, t))
<1>1. PICK list1, used1 : list1 = ToFront(list, t) /\ used1 = ToFront(used, t)
  OBVIOUS
<1>2. /\ list1 \in Seq(Tids) /\ Distinct(list1) /\ used1 \in Seq(Tids) /\ Distinct(used1)
      /\ Len(list1) = Len(list) /\ Elements(list1) = DOMAIN f \cup {t}
      /\ Elements(list1) \subseteq Elements(used1)
      /\ \A u, v \in Tids : Before(list1, u, v) => Before(used1, u, v)
  <2>1. Promoted(f, list, t, list1, used1)
    BY <1>1, OrderToFront
  <2> QED
    BY <2>1 DEF Promoted
<1>3. Len(list) <= MaxEntries
  BY DEF InStep
<1>4. Elements(list1) = DOMAIN f
  BY <1>2
<1> QED
  BY <1>1, <1>2, <1>3, <1>4 DEF InStep

LEMMA ExpireInStep ==
    ASSUME NEW f, NEW list, NEW used, InStep(f, list, used), NEW t,
           NEW g, DOMAIN g = DOMAIN f \ {t}
    PROVE  InStep(g, Without(list, t), used)
<1>1. PICK left : left = Without(list, t)
  OBVIOUS
<1>2. /\ list \in Seq(Tids) /\ Distinct(list) /\ used \in Seq(Tids) /\ Distinct(used)
      /\ Elements(list) = DOMAIN f /\ Elements(list) \subseteq Elements(used)
      /\ Len(list) <= MaxEntries
      /\ \A u, v \in Tids : Before(list, u, v) => Before(used, u, v)
  BY DEF InStep
<1>3. /\ left \in Seq(Tids) /\ Distinct(left) /\ Len(left) <= Len(list)
      /\ Elements(left) = Elements(list) \ {t}
      /\ \A u, v : Before(left, u, v) <=> Before(list, u, v) /\ u # t /\ v # t
  <2>1. Removed(Tids, list, t, left)
    BY <1>1, <1>2, WithoutFacts
  <2> QED
    BY <2>1 DEF Removed
<1>4. Len(left) <= MaxEntries
  BY <1>2, <1>3, Bounds
<1>5. Elements(left) = DOMAIN g /\ Elements(left) \subseteq Elements(used)
  BY <1>2, <1>3
<1>6. \A u, v \in Tids : Before(left, u, v) => Before(used, u, v)
  BY <1>2, <1>3
<1> QED
  BY <1>1, <1>2, <1>3, <1>4, <1>5, <1>6 DEF InStep

\* A full cache gives up the back of its list, which was used before the rest.
LEMMA PutInStep ==
    ASSUME ListInv, NEW c \in Containers, NEW t \in Tids, NEW nick \in 0..MaxChanges,
           Put(c, t, nick)
    PROVE  /\ lru' \in [Containers -> Seq(Tids)] /\ uses' \in [Containers -> Seq(Tids)]
           /\ \A d \in Containers \ {c} :
                 entries'[d] = entries[d] /\ lru'[d] = lru[d] /\ uses'[d] = uses[d]
           /\ InStep(entries'[c], lru'[c], uses'[c])
           /\ \A s \in Cached(c) : s \notin DOMAIN entries'[c] =>
                 \A v \in DOMAIN entries'[c] : Before(uses'[c], v, s)
<1> DEFINE all == [u \in Cached(c) \cup {t} |-> IF u = t THEN New(nick) ELSE entries[c][u]]
<1>1. PICK list, used : list = ToFront(lru[c], t) /\ used = ToFront(uses[c], t)
  OBVIOUS
<1>2. PICK full \in BOOLEAN : full <=> (Cardinality(DOMAIN all) > MaxEntries)
  OBVIOUS
<1>3. PICK kept, gone : /\ kept = IF full THEN SubSeq(list, 1, Len(list) - 1) ELSE list
                        /\ gone = IF full THEN {list[Len(list)]} ELSE {}
  OBVIOUS
<1>4. PICK map : map = Restricted(all, Tids \ gone)
  OBVIOUS
<1>5. /\ lru' = [lru EXCEPT ![c] = kept]
      /\ entries' = [entries EXCEPT ![c] = map]
      /\ uses' = [uses EXCEPT ![c] = used]
  BY <1>1, <1>2, <1>3, <1>4 DEF Put
<1>6. DOMAIN all = Cached(c) \cup {t} /\ Cached(c) \subseteq Tids
  BY EntryType DEF ListInv
<1>7. DOMAIN map = (Cached(c) \cup {t}) \ gone
  BY <1>4, <1>6 DEF Restricted
<1> HIDE DEF all
<1>8. InStep(entries[c], lru[c], uses[c]) /\ Cached(c) = DOMAIN entries[c]
  BY DEF ListInv, Cached
<1>9. /\ list \in Seq(Tids) /\ Distinct(list) /\ used \in Seq(Tids) /\ Distinct(used)
      /\ Len(list) > 0 /\ Len(list) <= Len(lru[c]) + 1
      /\ Elements(list) = Cached(c) \cup {t}
      /\ Elements(list) \subseteq Elements(used)
      /\ \A u, v \in Tids : Before(list, u, v) => Before(used, u, v)
  <2>1. Promoted(entries[c], lru[c], t, list, used)
    BY <1>1, <1>8, OrderToFront
  <2> QED
    BY <1>8, <2>1 DEF Promoted
<1>10. Len(list) \in Nat /\ Len(lru[c]) \in Nat /\ Len(lru[c]) <= MaxEntries
  BY <1>8, <1>9 DEF InStep
<1>11. Cardinality(DOMAIN all) = Len(list)
  <2>1. Cardinality(Elements(list)) = Len(list)
    BY <1>9, CountElements
  <2>2. DOMAIN all = Elements(list)
    BY <1>6, <1>9
  <2> QED
    BY <2>1, <2>2
<1>12. /\ InStep(map, kept, used)
       /\ \A s \in Cached(c) : s \notin DOMAIN map => \A v \in DOMAIN map : Before(used, v, s)
  <2>1. CASE ~full
    <3>1. kept = list /\ DOMAIN map = Elements(list) /\ Cached(c) \subseteq DOMAIN map
      BY <1>3, <1>7, <1>9, <2>1
    <3>2. Len(list) <= MaxEntries
      BY <1>2, <1>10, <1>11, <2>1, Bounds
    <3> QED
      BY <1>9, <3>1, <3>2 DEF InStep
  <2>2. CASE full
    <3>1. kept = SubSeq(list, 1, Len(list) - 1) /\ DOMAIN map = Elements(list) \ {list[Len(list)]}
      BY <1>3, <1>7, <1>9, <2>2
    <3>2. /\ kept \in Seq(Tids) /\ Len(kept) = Len(list) - 1 /\ Distinct(kept)
          /\ Elements(kept) = Elements(list) \ {list[Len(list)]}
          /\ \A u, v : Before(kept, u, v) => Before(list, u, v)
          /\ \A u \in Elements(kept) : Before(list, u, list[Len(list)])
      BY <1>9, <3>1, FrontFacts
    <3>3. Len(kept) <= MaxEntries
      BY <1>9, <1>10, <3>2, Bounds
    <3>4. Elements(kept) \subseteq Elements(used) /\ Elements(kept) = DOMAIN map
      BY <1>9, <3>1, <3>2
    <3>5. \A u, v \in Tids : Before(kept, u, v) => Before(used, u, v)
      BY <1>9, <3>2
    <3>6. InStep(map, kept, used)
      BY <1>9, <3>2, <3>3, <3>4, <3>5 DEF InStep
    <3>7. ASSUME NEW s \in Cached(c), s \notin DOMAIN map, NEW v \in DOMAIN map
          PROVE  Before(used, v, s)
      <4>1. s = list[Len(list)] /\ s \in Tids /\ v \in Tids
        BY <1>6, <1>7, <1>9, <3>1, <3>7
      <4>2. Before(list, v, s)
        BY <3>1, <3>2, <4>1
      <4> QED
        BY <1>9, <4>1, <4>2
    <3> QED
      BY <3>6, <3>7
  <2> QED
    BY <2>1, <2>2
<1>13. kept \in Seq(Tids)
  BY <1>12 DEF InStep
<1>14. lru' \in [Containers -> Seq(Tids)] /\ uses' \in [Containers -> Seq(Tids)]
  BY <1>5, <1>9, <1>13 DEF ListInv
<1>15. entries'[c] = map /\ lru'[c] = kept /\ uses'[c] = used
  BY <1>5 DEF ListInv, CacheTypes
<1>16. \A d \in Containers \ {c} :
          entries'[d] = entries[d] /\ lru'[d] = lru[d] /\ uses'[d] = uses[d]
  BY <1>5 DEF ListInv, CacheTypes
<1> QED
  BY <1>12, <1>14, <1>15, <1>16

LEMMA ListSame ==
    ASSUME ListInv, CacheTypes', UNCHANGED <<entries, lru, uses>>
    PROVE  ListInv'
BY DEF ListInv

\* One container's cache changes.
LEMMA ListAt ==
    ASSUME ListInv, CacheTypes', NEW c \in Containers,
           lru' \in [Containers -> Seq(Tids)], uses' \in [Containers -> Seq(Tids)],
           \A d \in Containers \ {c} :
              entries'[d] = entries[d] /\ lru'[d] = lru[d] /\ uses'[d] = uses[d],
           InStep(entries'[c], lru'[c], uses'[c])
    PROVE  ListInv'
<1>1. ASSUME NEW d \in Containers
      PROVE  InStep(entries'[d], lru'[d], uses'[d])
  <2>1. CASE d = c
    BY <2>1
  <2>2. CASE d # c
    <3>1. entries'[d] = entries[d] /\ lru'[d] = lru[d] /\ uses'[d] = uses[d]
      BY <2>2
    <3> QED
      BY <3>1 DEF ListInv
  <2> QED
    BY <2>1, <2>2
<1> QED
  BY <1>1 DEF ListInv

LEMMA EmptyInStep == InStep(<<>>, <<>>, <<>>)
<1>1. <<>> \in Seq(Tids) /\ Len(<<>>) = 0 /\ DOMAIN <<>> = {}
  OBVIOUS
<1>2. Distinct(<<>>) /\ Elements(<<>>) = {}
  BY <1>1 DEF Distinct, Elements
<1>3. \A t, u \in Tids : ~Before(<<>>, t, u)
  BY <1>1 DEF Before
<1> QED
  BY <1>1, <1>2, <1>3, Bounds DEF InStep

LEMMA ListKept ==
    ASSUME ListInv, Next
    PROVE  ListInv'
<1>0. CacheTypes /\ CacheTypes'
  BY TypesKept DEF ListInv
<1>1. ASSUME NEW c \in Containers, NEW t \in Tids, LookupHit(c, t)
      PROVE  ListInv'
  <2>1. /\ lru' = [lru EXCEPT ![c] = ToFront(lru[c], t)]
        /\ uses' = [uses EXCEPT ![c] = ToFront(uses[c], t)]
        /\ entries' = entries /\ t \in DOMAIN entries[c]
    BY <1>1 DEF LookupHit, Promote, Hit, Cached
  <2>2. InStep(entries[c], ToFront(lru[c], t), ToFront(uses[c], t))
    BY <2>1, PromoteInStep DEF ListInv
  <2>3. PICK list, used : list = ToFront(lru[c], t) /\ used = ToFront(uses[c], t)
    OBVIOUS
  <2>4. list \in Seq(Tids) /\ used \in Seq(Tids)
    BY <2>2, <2>3 DEF InStep
  <2>5. lru' = [lru EXCEPT ![c] = list] /\ uses' = [uses EXCEPT ![c] = used]
    BY <2>1, <2>3
  <2>6. /\ lru' \in [Containers -> Seq(Tids)] /\ uses' \in [Containers -> Seq(Tids)]
        /\ lru'[c] = list /\ uses'[c] = used
        /\ \A d \in Containers \ {c} : lru'[d] = lru[d] /\ uses'[d] = uses[d]
    BY <2>4, <2>5 DEF ListInv
  <2> QED
    BY <1>0, <2>1, <2>2, <2>3, <2>6, ListAt
<1>2. ASSUME NEW w \in Workers, NEW c \in Containers, NEW t \in Tids, LookupMiss(w, c, t)
      PROVE  ListInv'
  <2>1. PICK left, map : left = Without(lru[c], t) /\ map = Restricted(entries[c], Tids \ {t})
    OBVIOUS
  <2>2. /\ lru' = [lru EXCEPT ![c] = left] /\ entries' = [entries EXCEPT ![c] = map]
        /\ uses' = uses
    BY <1>2, <2>1 DEF LookupMiss, Expire
  <2>3. DOMAIN map = DOMAIN entries[c] \ {t}
    BY <1>0, <2>1, EntryType DEF Restricted, Cached
  <2>4. InStep(map, left, uses[c])
    BY <2>1, <2>3, ExpireInStep DEF ListInv
  <2>5. left \in Seq(Tids)
    BY <2>4 DEF InStep
  <2>6. /\ lru' \in [Containers -> Seq(Tids)] /\ uses' \in [Containers -> Seq(Tids)]
        /\ lru'[c] = left /\ entries'[c] = map
        /\ \A d \in Containers \ {c} : lru'[d] = lru[d] /\ entries'[d] = entries[d]
    BY <2>2, <2>5 DEF ListInv, CacheTypes
  <2> QED
    BY <1>0, <2>2, <2>4, <2>6, ListAt
<1>3. ASSUME NEW w \in Workers, DurableServes(w) \/ PutLocal(w)
      PROVE  ListInv'
  <2>1. PICK c \in Containers, t \in Tids, n \in 0..MaxChanges : Put(c, t, n)
    BY <1>0, <1>3, ServesIs, PutLocalIs DEF DurableServes, PutLocal
  <2> QED
    BY <1>0, <2>1, PutInStep, ListAt
<1>4. ASSUME NEW w \in Workers, \/ DurableMisses(w) \/ Fetch(w) \/ FetchFails(w)
                                \/ WriteDurable(w) \/ WriteDurableFails(w)
      PROVE  ListInv'
  <2>1. UNCHANGED <<entries, lru, uses>>
    BY <1>4 DEF DurableMisses, Fetch, FetchFails, WriteDurable, WriteDurableFails
  <2> QED
    BY <1>0, <2>1, ListSame
<1>5. ASSUME NEW t \in Tids, ProvideNickname(t) \/ LookupElsewhere(t)
      PROVE  ListInv'
  <2>1. UNCHANGED <<entries, lru, uses>>
    BY <1>5 DEF ProvideNickname, LookupElsewhere
  <2> QED
    BY <1>0, <2>1, ListSame
<1>6. ASSUME NEW c \in Containers, Recycle(c)
      PROVE  ListInv'
  <2>1. /\ entries' = [entries EXCEPT ![c] = <<>>]
        /\ lru' = [lru EXCEPT ![c] = <<>>] /\ uses' = [uses EXCEPT ![c] = <<>>]
    BY <1>6 DEF Recycle
  <2>2. /\ lru' \in [Containers -> Seq(Tids)] /\ uses' \in [Containers -> Seq(Tids)]
        /\ entries'[c] = <<>> /\ lru'[c] = <<>> /\ uses'[c] = <<>>
        /\ \A d \in Containers \ {c} :
              entries'[d] = entries[d] /\ lru'[d] = lru[d] /\ uses'[d] = uses[d]
    BY <2>1 DEF ListInv, CacheTypes
  <2> QED
    BY <1>0, <2>2, EmptyInStep, ListAt
<1>7. ASSUME Tick
      PROVE  ListInv'
  <2>1. UNCHANGED <<lru, uses>>
    BY <1>7 DEF Tick
  <2>2. \A c \in Containers : DOMAIN entries'[c] = DOMAIN entries[c]
    BY <1>7 DEF Tick, Cached
  <2>3. ASSUME NEW c \in Containers
        PROVE  InStep(entries'[c], lru'[c], uses'[c])
    <3>1. InStep(entries[c], lru[c], uses[c])
      BY DEF ListInv
    <3> QED
      BY <2>1, <2>2, <3>1 DEF InStep
  <2> QED
    BY <1>0, <2>1, <2>3 DEF ListInv
<1> QED
  BY <1>1, <1>2, <1>3, <1>4, <1>5, <1>6, <1>7, NickCacheAssumption DEF Next

LEMMA ListInit ==
    ASSUME Init
    PROVE  ListInv
<1>1. CacheTypes
  BY StaleInit DEF StaleInv
<1>2. lru \in [Containers -> Seq(Tids)] /\ uses \in [Containers -> Seq(Tids)]
  BY DEF Init
<1>3. \A c \in Containers : entries[c] = <<>> /\ lru[c] = <<>> /\ uses[c] = <<>>
  BY DEF Init
<1> QED
  BY <1>1, <1>2, <1>3, EmptyInStep DEF ListInv

LEMMA ListInvariant == Spec => []ListInv
<1>1. ListInv /\ [Next]_vars => ListInv'
  <2> SUFFICES ASSUME ListInv, UNCHANGED vars
               PROVE  ListInv'
    BY ListKept
  <2>1. UNCHANGED <<entries, lru, durable, changes, job, uses, disturbed>>
    BY DEF vars
  <2>2. CacheTypes'
    BY <2>1 DEF ListInv, CacheTypes
  <2> QED
    BY <2>1, <2>2, ListSame
<1> QED
  BY <1>1, ListInit, PTL DEF Spec

\* Every reachable state of lookupS21Nickname's caches is well typed.
THEOREM NickCacheTypes == Spec => []TypeOK
<1>1. ListInv => TypeOK
  BY DEF ListInv, CacheTypes, TypeOK, Caches
<1> QED
  BY <1>1, ListInvariant, PTL

\* Get, Put and evictLocked keep the map and the list of an S21NickCache in
\* step, within maxEntries and in the order of use.
THEOREM MapMatchesList == Spec => []MapAndListAgree
<1>1. ListInv => MapAndListAgree
  BY DEF ListInv, InStep, MapAndListAgree, Cached
<1> QED
  BY <1>1, ListInvariant, PTL

\* Put evicts the user whose last use is the oldest, and nothing else removes
\* an entry that is still fresh from a container that stays up.
THEOREM EvictsLeastRecent == Spec => LeastRecentlyUsedGoes
<1>1. ASSUME ListInv, [Next]_vars, NEW c \in Containers, NEW t \in Tids,
             Hit(c, t), t \notin DOMAIN entries'[c], uses'[c] # <<>>, NEW u \in DOMAIN entries'[c]
      PROVE  Before(uses'[c], u, t)
  <2>0. CacheTypes /\ t \in DOMAIN entries[c]
    BY <1>1 DEF ListInv, Hit, Cached
  <2>1. ASSUME NEW d \in Containers, NEW s \in Tids, NEW n \in 0..MaxChanges, Put(d, s, n)
        PROVE  Before(uses'[c], u, t)
    <3>1. d = c
      BY <1>1, <2>0, <2>1, PutInStep
    <3> QED
      BY <1>1, <2>0, <2>1, <3>1, PutInStep DEF Cached
  <2>2. ASSUME NEW w \in Workers, DurableServes(w) \/ PutLocal(w)
        PROVE  Before(uses'[c], u, t)
    <3>1. PICK d \in Containers, s \in Tids, n \in 0..MaxChanges : Put(d, s, n)
      BY <2>0, <2>2, ServesIs, PutLocalIs DEF DurableServes, PutLocal
    <3> QED
      BY <2>1, <3>1
  <2>3. ASSUME UNCHANGED entries
        PROVE  FALSE
    BY <1>1, <2>0, <2>3
  <2>4. ASSUME NEW w \in Workers, NEW d \in Containers, NEW s \in Tids, LookupMiss(w, d, s)
        PROVE  FALSE
    <3>1. ~Hit(d, s) /\ entries' = [entries EXCEPT ![d] = Restricted(entries[d], Tids \ {s})]
      BY <2>4 DEF LookupMiss, Expire
    <3>2. d = c
      BY <1>1, <2>0, <3>1 DEF CacheTypes
    <3>3. entries'[c] = Restricted(entries[c], Tids \ {s})
      <4>1. PICK map : map = Restricted(entries[d], Tids \ {s})
        OBVIOUS
      <4>2. entries' = [entries EXCEPT ![d] = map]
        BY <3>1, <4>1
      <4>3. entries'[d] = map
        BY <2>0, <4>2 DEF CacheTypes
      <4> QED
        BY <3>2, <4>1, <4>3
    <3>4. t = s
      BY <1>1, <2>0, <3>3 DEF Restricted
    <3> QED
      BY <1>1, <3>1, <3>2, <3>4
  <2>5. ASSUME NEW d \in Containers, Recycle(d)
        PROVE  FALSE
    <3>1. entries' = [entries EXCEPT ![d] = <<>>] /\ uses' = [uses EXCEPT ![d] = <<>>]
      BY <2>5 DEF Recycle
    <3>2. d = c
      BY <1>1, <2>0, <3>1 DEF CacheTypes
    <3> QED
      BY <1>1, <3>1, <3>2 DEF ListInv
  <2>6. ASSUME Tick
        PROVE  FALSE
    BY <1>1, <2>0, <2>6 DEF Tick, Cached
  <2>7. CASE UNCHANGED vars
    BY <2>3, <2>7 DEF vars
  <2>8. CASE Next
    <3>1. ASSUME NEW d \in Containers, NEW s \in Tids, LookupHit(d, s)
          PROVE  FALSE
      BY <2>3, <3>1 DEF LookupHit, Promote
    <3>2. ASSUME NEW w \in Workers, \/ DurableMisses(w) \/ Fetch(w) \/ FetchFails(w)
                                    \/ WriteDurable(w) \/ WriteDurableFails(w)
          PROVE  FALSE
      BY <2>3, <3>2 DEF DurableMisses, Fetch, FetchFails, WriteDurable, WriteDurableFails
    <3>3. ASSUME NEW s \in Tids, ProvideNickname(s) \/ LookupElsewhere(s)
          PROVE  FALSE
      BY <2>3, <3>3 DEF ProvideNickname, LookupElsewhere
    <3> QED
      BY <2>2, <2>4, <2>5, <2>6, <2>8, <3>1, <3>2, <3>3, NickCacheAssumption DEF Next
  <2> QED
    BY <1>1, <2>7, <2>8
<1>2. ListInv /\ [Next]_vars =>
        [\A c \in Containers, t \in Tids :
            Hit(c, t) /\ t \notin DOMAIN entries'[c] /\ uses'[c] # <<>> =>
                \A u \in DOMAIN entries'[c] : Before(uses'[c], u, t)]_vars
  BY <1>1
<1> QED
  BY <1>2, ListInvariant, PTL DEF Spec, LeastRecentlyUsedGoes

=============================================================================
