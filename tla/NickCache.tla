----------------------------- MODULE NickCache ------------------------------
(***************************************************************************)
(* lookupS21Nickname: the S21 nickname of a Telegram user, through three   *)
(* layers.  Each container has an S21NickCache, a map and a list in order  *)
(* of use, both guarded by one mutex; behind it lie a table of the store   *)
(* that all containers share, and the identity service.                    *)
(*                                                                         *)
(* A nickname is the number of times it has been changed; "no nickname"    *)
(* is one of the values a user may have, and is cached like the others.    *)
(* Time is counted in units of the time-to-lives, days, and so stands      *)
(* still while a lookup is under way.  A time stamp is kept as the age it  *)
(* gives now, up to the first age that is too old to matter.               *)
(***************************************************************************)
EXTENDS Integers, Sequences, FiniteSets

CONSTANTS
    Tids,        \* Telegram users
    Renamers,    \* those who change their S21 nickname; the others only fill the cache
    Containers,  \* the warm containers that are followed
    Workers,     \* concurrent lookups
    MaxEntries,  \* maxEntries
    LocalTTL,    \* s21NickCacheTTL
    DurableTTL,  \* s21NickDurableTTL
    MaxChanges,  \* bound: how often a user changes the nickname
    None         \* no row, no lookup

VARIABLES
    entries,    \* of each container: what it has cached of some users
    lru,        \* of each container: those users, most recently used first
    durable,    \* the rows of s21_nick_cache
    changes,    \* the identity service: how long ago each user changed the nickname
    job,        \* the lookups under way
    uses,       \* history: the order in which a container last used each user
    disturbed   \* history: two lookups of a user overlapped, or a write was lost

vars == <<entries, lru, durable, changes, job, uses, disturbed>>

\* The ages at which a container's entry, a row of the table, and the two
\* together are past their time.
LocalOld == LocalTTL + 1
DurableOld == DurableTTL + 1
BothOld == LocalTTL + DurableTTL + 1

Entries == [nick : 0..MaxChanges, age : 0..BothOld]

Jobs == [at : {"durable", "fetch", "put", "write"}, on : Containers, tid : Tids,
         nick : 0..MaxChanges]

ASSUME NickCacheAssumption ==
    /\ Renamers \subseteq Tids
    /\ MaxEntries \in Nat \ {0}
    /\ {LocalTTL, DurableTTL, MaxChanges} \subseteq Nat
    /\ None \notin Entries \cup Jobs

TypeOK ==
    /\ \A c \in Containers : entries[c] \in UNION {[T -> Entries] : T \in SUBSET Tids}
    /\ lru \in [Containers -> Seq(Tids)]
    /\ durable \in [Tids -> Entries \cup {None}]
    /\ changes \in [Tids -> Seq(0..BothOld)]
    /\ job \in [Workers -> Jobs \cup {None}]
    /\ uses \in [Containers -> Seq(Tids)]
    /\ disturbed \in BOOLEAN

Init ==
    /\ entries = [c \in Containers |-> <<>>]
    /\ lru = [c \in Containers |-> <<>>]
    /\ durable = [t \in Tids |-> None]
    /\ changes = [t \in Tids |-> <<>>]
    /\ job = [w \in Workers |-> None]
    /\ uses = [c \in Containers |-> <<>>]
    /\ disturbed = FALSE

-----------------------------------------------------------------------------
(* S21NickCache *)

\* The list without the element of user t, if it has one.
Without(seq, t) ==
    IF \E i \in 1..Len(seq) : seq[i] = t
    THEN LET i == CHOOSE i \in 1..Len(seq) : seq[i] = t
         IN  [j \in 1..(Len(seq) - 1) |-> IF j < i THEN seq[j] ELSE seq[j + 1]]
    ELSE seq

ToFront(seq, t) == <<t>> \o Without(seq, t)

Restricted(f, T) == [t \in DOMAIN f \cap T |-> f[t]]

Cached(c) == DOMAIN entries[c]

\* Mutation: an entry without a time stamp, as old as can be.
NewUnstamped(nick) == [nick |-> nick, age |-> BothOld + 1]

New(nick) == [nick |-> nick, age |-> 0]

\* Get finds the user, and the entry is no older than its time-to-live.
Hit(c, t) == t \in Cached(c) /\ entries[c][t].age <= LocalTTL

\* Get on a hit.
Promote(c, t) ==
    /\ lru' = [lru EXCEPT ![c] = ToFront(@, t)]
    /\ uses' = [uses EXCEPT ![c] = ToFront(@, t)]
    /\ UNCHANGED entries

\* Mutation: an expired entry leaves the map and stays in the list.
ExpireMapOnly(c, t) ==
    /\ entries' = [entries EXCEPT ![c] = Restricted(@, Tids \ {t})]
    /\ UNCHANGED <<lru, uses>>

\* Get on a miss; an expired entry is removed.
Expire(c, t) ==
    /\ entries' = [entries EXCEPT ![c] = Restricted(@, Tids \ {t})]
    /\ lru' = [lru EXCEPT ![c] = Without(@, t)]
    /\ UNCHANGED uses

\* Mutation: room is made at the front of the list.
PutEvictingFront(c, t, nick) ==
    LET all == [u \in Cached(c) \cup {t} |->
                  IF u = t THEN New(nick) ELSE entries[c][u]]
        list == Without(lru[c], t)
        full == Cardinality(DOMAIN all) > MaxEntries
    IN  /\ lru' = [lru EXCEPT ![c] = <<t>> \o (IF full THEN Tail(list) ELSE list)]
        /\ entries' = [entries EXCEPT ![c] =
                         Restricted(all, Tids \ (IF full THEN {list[1]} ELSE {}))]
        /\ uses' = [uses EXCEPT ![c] = ToFront(@, t)]

\* Put and evictLocked.  The entry is new; at most one goes.
Put(c, t, nick) ==
    LET all == [u \in Cached(c) \cup {t} |->
                  IF u = t THEN New(nick) ELSE entries[c][u]]
        list == ToFront(lru[c], t)
        full == Cardinality(DOMAIN all) > MaxEntries
        last == Len(list)
    IN  /\ lru' = [lru EXCEPT ![c] = IF full THEN SubSeq(list, 1, last - 1) ELSE list]
        /\ entries' = [entries EXCEPT ![c] =
                         Restricted(all, Tids \ (IF full THEN {list[last]} ELSE {}))]
        /\ uses' = [uses EXCEPT ![c] = ToFront(@, t)]

-----------------------------------------------------------------------------
(* lookupS21Nickname *)

\* Mutation: the durable row is used whatever its age.
DurableHitForever(t) == durable[t] # None

\* The row is there and fresh.
DurableHit(t) == durable[t] # None /\ durable[t].age <= DurableTTL

\* The row is written, with the current time.
UpsertRow(t, nick) == durable' = [durable EXCEPT ![t] = New(nick)]

\* What the identity service answers.
Nickname(t) == Len(changes[t])

At(w, step) == job[w] # None /\ job[w].at = step

Goto(w, step) == job' = [job EXCEPT ![w].at = step]

Finish(w) == job' = [job EXCEPT ![w] = None]

LookupHit(c, t) ==
    /\ Hit(c, t)
    /\ Promote(c, t)
    /\ UNCHANGED <<durable, changes, job, disturbed>>

LookupMiss(w, c, t) ==
    /\ job[w] = None
    /\ ~Hit(c, t)
    /\ Expire(c, t)
    /\ job' = [job EXCEPT ![w] = [at |-> "durable", on |-> c, tid |-> t, nick |-> 0]]
    /\ disturbed' = (disturbed \/ \E v \in Workers : job[v] # None /\ job[v].tid = t)
    /\ UNCHANGED <<durable, changes>>

\* A fresh row is copied to the container, where its time starts anew.
DurableServes(w) ==
    /\ At(w, "durable")
    /\ DurableHit(job[w].tid)
    /\ Put(job[w].on, job[w].tid, durable[job[w].tid].nick)
    /\ Finish(w)
    /\ UNCHANGED <<durable, changes, disturbed>>

\* No row, a row past its time, or the read fails.
DurableMisses(w) ==
    /\ At(w, "durable")
    /\ Goto(w, "fetch")
    /\ UNCHANGED <<entries, lru, durable, changes, uses, disturbed>>

\* The identity service answers.
Fetch(w) ==
    /\ At(w, "fetch")
    /\ job' = [job EXCEPT ![w].at = "put", ![w].nick = Nickname(job[w].tid)]
    /\ UNCHANGED <<entries, lru, durable, changes, uses, disturbed>>

\* It does not, or no account is healthy: nothing is cached.
FetchFails(w) ==
    /\ At(w, "fetch")
    /\ Finish(w)
    /\ UNCHANGED <<entries, lru, durable, changes, uses, disturbed>>

PutLocal(w) ==
    /\ At(w, "put")
    /\ Put(job[w].on, job[w].tid, job[w].nick)
    /\ Goto(w, "write")
    /\ UNCHANGED <<durable, changes, disturbed>>

\* Mutation: only the container's cache is filled.
SkipDurable(w) ==
    /\ At(w, "write")
    /\ Finish(w)
    /\ UNCHANGED <<entries, lru, durable, changes, uses, disturbed>>

WriteDurable(w) ==
    /\ At(w, "write")
    /\ UpsertRow(job[w].tid, job[w].nick)
    /\ Finish(w)
    /\ UNCHANGED <<entries, lru, changes, uses, disturbed>>

WriteDurableFails(w) ==
    /\ At(w, "write")
    /\ Finish(w)
    /\ disturbed' = TRUE
    /\ UNCHANGED <<entries, lru, durable, changes, uses>>

-----------------------------------------------------------------------------
(* Environment *)

\* /provide_nickname in the identity bot.
ProvideNickname(t) ==
    /\ Len(changes[t]) < MaxChanges
    /\ changes' = [changes EXCEPT ![t] = Append(@, 0)]
    /\ UNCHANGED <<entries, lru, durable, job, uses, disturbed>>

\* A lookup in a container that is not followed here runs from a miss in its
\* own cache to the write of the row.
LookupElsewhere(t) ==
    /\ UpsertRow(t, Nickname(t))
    /\ disturbed' = (disturbed \/ \E w \in Workers : job[w] # None /\ job[w].tid = t)
    /\ UNCHANGED <<entries, lru, changes, job, uses>>

\* The platform recycles a container, with the lookups it runs.
Recycle(c) ==
    /\ entries' = [entries EXCEPT ![c] = <<>>]
    /\ lru' = [lru EXCEPT ![c] = <<>>]
    /\ uses' = [uses EXCEPT ![c] = <<>>]
    /\ job' = [w \in Workers |-> IF job[w] # None /\ job[w].on = c THEN None ELSE job[w]]
    /\ disturbed' = (disturbed \/ \E w \in Workers : At(w, "write") /\ job[w].on = c)
    /\ UNCHANGED <<durable, changes>>

\* A day passes.
Tick ==
    LET Older(age, cap) == IF age < cap THEN age + 1 ELSE cap
    IN  /\ \A w \in Workers : job[w] = None
        /\ entries' = [c \in Containers |-> [t \in Cached(c) |->
                         [entries[c][t] EXCEPT !.age = Older(@, LocalOld)]]]
        /\ durable' = [t \in Tids |-> IF durable[t] = None THEN None
                         ELSE [durable[t] EXCEPT !.age = Older(@, DurableOld)]]
        /\ changes' = [t \in Tids |-> [i \in DOMAIN changes[t] |->
                         Older(changes[t][i], BothOld)]]
        /\ UNCHANGED <<lru, job, uses, disturbed>>

Next ==
    \/ \E c \in Containers, t \in Tids :
          LookupHit(c, t) \/ \E w \in Workers : LookupMiss(w, c, t)
    \/ \E w \in Workers :
          \/ DurableServes(w) \/ DurableMisses(w) \/ Fetch(w) \/ FetchFails(w)
          \/ PutLocal(w) \/ WriteDurable(w) \/ WriteDurableFails(w)
    \/ \E t \in Renamers : ProvideNickname(t) \/ LookupElsewhere(t)
    \/ \E c \in Containers : Recycle(c)
    \/ Tick

Spec == Init /\ [][Next]_vars

-----------------------------------------------------------------------------
(* Properties *)

\* Nickname n of user t was the current one at most that long ago.
CurrentWithin(t, n, age) == n = Nickname(t) \/ changes[t][n + 1] <= age

\* A container shows a nickname at most LocalTTL + DurableTTL after it was
\* changed: the two times add up when a row is copied in its last hour, and
\* neither races nor failures add more.  A row is served for DurableTTL.
StaleBound ==
    \A t \in Tids :
        /\ \A c \in Containers :
              Hit(c, t) => CurrentWithin(t, entries[c][t].nick, LocalTTL + DurableTTL)
        /\ DurableHit(t) => CurrentWithin(t, durable[t].nick, DurableTTL)

\* The durable table is never behind a container's cache, unless lookups of the
\* same user overlapped or a write was lost: when an entry expires, is evicted
\* or goes with its container, no older nickname comes back.
DurableNeverBehind ==
    ~disturbed =>
        \A c \in Containers, t \in Tids :
            Hit(c, t) /\ DurableHit(t) =>
                \/ entries[c][t].nick <= durable[t].nick
                \/ \E w \in Workers : At(w, "write") /\ job[w].tid = t

Distinct(seq) == \A i, j \in 1..Len(seq) : seq[i] = seq[j] => i = j

Elements(seq) == {seq[i] : i \in 1..Len(seq)}

Before(seq, t, u) == \E i, j \in 1..Len(seq) : i < j /\ seq[i] = t /\ seq[j] = u

\* The map and the list of a cache hold the same users, at most MaxEntries and
\* each once, and the list has them in the order of their last use.
MapAndListAgree ==
    \A c \in Containers :
        /\ Distinct(lru[c])
        /\ Elements(lru[c]) = Cached(c)
        /\ Len(lru[c]) <= MaxEntries
        /\ \A t, u \in Tids : Before(lru[c], t, u) => Before(uses[c], t, u)

\* An entry that is still fresh leaves a container that stays up only when all
\* the users it keeps were used later.
LeastRecentlyUsedGoes ==
    [][\A c \in Containers, t \in Tids :
          Hit(c, t) /\ t \notin DOMAIN entries'[c] /\ uses'[c] # <<>> =>
              \A u \in DOMAIN entries'[c] : Before(uses'[c], u, t)]_vars

=============================================================================
