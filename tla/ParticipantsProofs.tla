------------------------ MODULE ParticipantsProofs --------------------------
(***************************************************************************)
(* Proofs about the usernames of a group's participants, for any number of *)
(* users, names and concurrent refreshes.                                  *)
(***************************************************************************)
EXTENDS Participants, TLAPS

\* What an undisturbed refresh knows: the copies it has yet to look at are
\* those in the table, the rows it is done with are right, and the answer it
\* is about to write is still true.
CalmOK(w) ==
    /\ \A u \in Users : IF u \in DOMAIN job[w].todo THEN rows[u] = job[w].todo[u] ELSE Right(u)
    /\ job[w].user # None => job[w].answer = current[job[w].user]

RefreshInv ==
    /\ TypeOK
    /\ \A w \in Workers : job[w] # None /\ job[w].calm => CalmOK(w)

-----------------------------------------------------------------------------
(* Jobs *)

Todos == UNION {[U -> AnyName] : U \in SUBSET Users}

LEMMA TodoType ==
    /\ \A f \in Todos : DOMAIN f \subseteq Users /\ f \in [DOMAIN f -> AnyName]
    /\ \A U \in SUBSET Users : \A f \in [U -> AnyName] : f \in Todos
BY DEF Todos

LEMMA JobFacts ==
    ASSUME TypeOK, NEW w \in Workers, job[w] # None
    PROVE  /\ job[w] \in Jobs
           /\ job[w].todo \in Todos /\ DOMAIN job[w].todo \subseteq Users
           /\ job[w].user \in Users \cup {None} /\ job[w].answer \in AnyName
           /\ job[w].calm \in BOOLEAN
<1>1. job[w] \in Jobs
  BY DEF TypeOK
<1>2. /\ job[w].todo \in Todos /\ job[w].user \in Users \cup {None}
      /\ job[w].answer \in AnyName /\ job[w].calm \in BOOLEAN
  BY <1>1 DEF Jobs, Todos
<1> QED
  BY <1>1, <1>2, TodoType

\* A pending user has a listed row.
LEMMA PendingFacts ==
    ASSUME TypeOK, NEW w \in Workers, NEW u \in Pending(w)
    PROVE  job[w] # None /\ u \in DOMAIN job[w].todo /\ u \in Users
<1>1. job[w] # None /\ u \in DOMAIN job[w].todo
  BY DEF Pending
<1> QED
  BY <1>1, JobFacts

LEMMA WithoutFacts ==
    ASSUME NEW j \in Jobs, NEW u
    PROVE  /\ Without(j, u) \in Jobs
           /\ DOMAIN Without(j, u).todo = DOMAIN j.todo \ {u}
           /\ \A v \in DOMAIN j.todo \ {u} : Without(j, u).todo[v] = j.todo[v]
           /\ Without(j, u).user = None /\ Without(j, u).calm = j.calm
<1> DEFINE left == [v \in DOMAIN j.todo \ {u} |-> j.todo[v]]
<1>1. j.todo \in Todos
  BY DEF Jobs, Todos
<1>2. DOMAIN j.todo \subseteq Users /\ j.todo \in [DOMAIN j.todo -> AnyName]
  BY <1>1, TodoType
<1>3. left \in Todos /\ DOMAIN left = DOMAIN j.todo \ {u} /\ \A v \in DOMAIN left : left[v] = j.todo[v]
  BY <1>2, TodoType
<1>4. Without(j, u) = [j EXCEPT !.todo = left, !.user = None, !.answer = NoName]
  BY DEF Without
<1> HIDE DEF left
<1>5. NoName \in AnyName
  BY DEF AnyName
<1>6. Without(j, u) \in Jobs
  BY <1>3, <1>4, <1>5 DEF Jobs, Todos
<1>7. Without(j, u).todo = left /\ Without(j, u).user = None /\ Without(j, u).calm = j.calm
  BY <1>4 DEF Jobs
<1> QED
  BY <1>3, <1>6, <1>7

\* Those that are told are no longer calm, the others as they were.
LEMMA DisturbFacts ==
    ASSUME TypeOK, NEW S
    PROVE  /\ Disturb(S) \in [Workers -> Jobs \cup {None}]
           /\ \A w \in Workers : w \in S => Disturb(S)[w] = job[w]
           /\ \A w \in Workers : w \notin S /\ Disturb(S)[w] # None => ~Disturb(S)[w].calm
<1>1. ASSUME NEW w \in Workers
      PROVE  /\ Disturb(S)[w] \in Jobs \cup {None}
             /\ w \in S => Disturb(S)[w] = job[w]
             /\ w \notin S /\ Disturb(S)[w] # None => ~Disturb(S)[w].calm
  <2>1. CASE w \in S \/ job[w] = None
    BY <2>1 DEF Disturb, TypeOK
  <2>2. CASE w \notin S /\ job[w] # None
    <3>1. job[w] \in Jobs
      BY <2>2, JobFacts
    <3>2. Disturb(S)[w] = [job[w] EXCEPT !.calm = FALSE]
      BY <2>2 DEF Disturb
    <3> QED
      BY <2>2, <3>1, <3>2 DEF Jobs
  <2> QED
    BY <2>1, <2>2
<1> QED
  BY <1>1 DEF Disturb

-----------------------------------------------------------------------------
(* Steps *)

\* A step that disturbs every refresh.
LEMMA DisturbedInv ==
    ASSUME RefreshInv, job' = Disturb({}),
           rows' \in [Users -> AnyName \cup {None}], current' \in [Users -> AnyName],
           \A u, v \in Users : current'[u] = current'[v] /\ current'[u] # NoName => u = v,
           incidents' \in 0..MaxIncidents, updates' \subseteq Seen, prompts' \subseteq Seen
    PROVE  RefreshInv'
<1>1. TypeOK
  BY DEF RefreshInv
<1>2. /\ job' \in [Workers -> Jobs \cup {None}]
      /\ \A w \in Workers : job'[w] # None => ~job'[w].calm
  BY <1>1, DisturbFacts
<1>3. TypeOK'
  BY <1>2 DEF TypeOK
<1> QED
  BY <1>2, <1>3 DEF RefreshInv

LEMMA TelegramInv ==
    ASSUME RefreshInv, NEW u \in Users, Rename(u) \/ Appear(u)
    PROVE  RefreshInv'
<1>0. TypeOK
  BY DEF RefreshInv
<1>1. CASE Rename(u)
  <2>1. PICK n \in AnyName : /\ n = NoName \/ \A v \in Users : current[v] # n
                             /\ current' = [current EXCEPT ![u] = n]
    BY <1>1 DEF Rename
  <2>2. /\ current' \in [Users -> AnyName] /\ current'[u] = n
        /\ \A v \in Users : v # u => current'[v] = current[v]
    BY <1>0, <2>1 DEF TypeOK
  <2>3. ASSUME NEW x \in Users, NEW y \in Users, current'[x] = current'[y], current'[x] # NoName
        PROVE  x = y
    <3>1. CASE x # u /\ y # u
      BY <1>0, <2>2, <2>3, <3>1 DEF TypeOK
    <3>2. CASE x = u \/ y = u
      BY <2>1, <2>2, <2>3, <3>2
    <3> QED
      BY <3>1, <3>2
  <2>4. incidents' \in 0..MaxIncidents
    BY <1>0, <1>1, ParticipantsAssumption DEF Rename, TypeOK
  <2> QED
    BY <1>0, <1>1, <2>2, <2>3, <2>4, DisturbedInv DEF Rename, TypeOK
<1>2. CASE Appear(u)
  <2>1. [user |-> u, name |-> current[u]] \in Seen
    BY <1>0 DEF TypeOK, Seen
  <2>2. TypeOK'
    BY <1>0, <1>2, <2>1 DEF Appear, TypeOK
  <2> QED
    BY <1>2, <2>2 DEF Appear, RefreshInv, CalmOK, Right
<1> QED
  BY <1>1, <1>2

LEMMA UpdateInv ==
    ASSUME RefreshInv, NEW m \in updates \cup prompts,
           UpsertSeen(m) \/ handleForwardedAdd(m) \/ handleAddParticipantTap(m) \/ TapEditFails(m)
    PROVE  RefreshInv'
<1>0. TypeOK
  BY DEF RefreshInv
<1>1. m \in Seen /\ m.user \in Users /\ m.name \in AnyName
  BY <1>0 DEF TypeOK, Seen
<1>2. CASE handleForwardedAdd(m)
  <2>1. TypeOK'
    BY <1>0, <1>1, <1>2 DEF handleForwardedAdd, TypeOK
  <2> QED
    BY <1>2, <2>1 DEF handleForwardedAdd, RefreshInv, CalmOK, Right
<1>3. CASE ~handleForwardedAdd(m)
  <2>1. Upsert(m.user, m.name) /\ job' = Disturb({}) /\ UNCHANGED current
    BY <1>3 DEF UpsertSeen, handleAddParticipantTap, TapEditFails
  <2>2. rows' \in [Users -> AnyName \cup {None}]
    BY <1>0, <1>1, <2>1 DEF Upsert, TypeOK
  <2>3. incidents' \in 0..MaxIncidents
    BY <1>0, <1>3, ParticipantsAssumption
       DEF UpsertSeen, handleAddParticipantTap, TapEditFails, TypeOK
  <2>4. updates' \subseteq Seen /\ prompts' \subseteq Seen
    BY <1>0, <1>3 DEF UpsertSeen, handleAddParticipantTap, TapEditFails, TypeOK
  <2> QED
    BY <1>0, <2>1, <2>2, <2>3, <2>4, DisturbedInv DEF TypeOK
<1> QED
  BY <1>2, <1>3

\* A refresh moves on without writing.
LEMMA MovedInv ==
    ASSUME RefreshInv, NEW w \in Workers, NEW j \in Jobs \cup {None},
           job' = [job EXCEPT ![w] = j],
           j # None /\ j.calm => CalmOK(w)',
           UNCHANGED <<rows, current, incidents, updates, prompts>>
    PROVE  RefreshInv'
<1>1. /\ job' \in [Workers -> Jobs \cup {None}] /\ job'[w] = j
      /\ \A v \in Workers : v # w => job'[v] = job[v]
  BY DEF RefreshInv, TypeOK
<1>2. TypeOK'
  BY <1>1 DEF RefreshInv, TypeOK
<1>3. ASSUME NEW v \in Workers, job'[v] # None, job'[v].calm
      PROVE  CalmOK(v)'
  <2>1. CASE v = w
    BY <1>1, <1>3, <2>1
  <2>2. CASE v # w
    BY <1>1, <1>3, <2>2 DEF RefreshInv, CalmOK, Right
  <2> QED
    BY <2>1, <2>2
<1> QED
  BY <1>2, <1>3 DEF RefreshInv

LEMMA ListInv ==
    ASSUME RefreshInv, NEW w \in Workers, List(w)
    PROVE  RefreshInv'
<1> DEFINE j == [todo |-> ListByGroup, user |-> None, answer |-> NoName, calm |-> TRUE]
           listed == {v \in Users : rows[v] # None}
<1>1. /\ ListByGroup \in [listed -> AnyName] /\ listed \subseteq Users /\ DOMAIN ListByGroup = listed
      /\ \A u \in listed : ListByGroup[u] = rows[u]
  BY DEF ListByGroup, RefreshInv, TypeOK
<1>2. ListByGroup \in Todos
  BY <1>1, TodoType
<1>3. NoName \in AnyName
  BY DEF AnyName
<1>4. j \in Jobs /\ j.todo = ListByGroup /\ j.user = None
  BY <1>2, <1>3 DEF Jobs, Todos
<1>5. job' = [job EXCEPT ![w] = j] /\ UNCHANGED <<rows, current, incidents, updates, prompts>>
  BY DEF List
<1> HIDE DEF j
<1>6. job'[w] = j
  BY <1>5 DEF RefreshInv, TypeOK
<1>7. CalmOK(w)'
  BY <1>1, <1>4, <1>5, <1>6 DEF CalmOK, Right
<1> QED
  BY <1>4, <1>5, <1>7, MovedInv

LEMMA AskInv ==
    ASSUME RefreshInv, NEW w \in Workers, NEW u \in Users, Ask(w, u)
    PROVE  RefreshInv'
<1>0. TypeOK
  BY DEF RefreshInv
<1>1. job[w] # None /\ u \in DOMAIN job[w].todo
  BY <1>0, PendingFacts DEF Ask
<1>2. PICK j \in Jobs : j = job[w]
  BY <1>0, <1>1, JobFacts
<1>3. UNCHANGED <<rows, current, incidents, updates, prompts>>
  BY DEF Ask
<1>4. CASE current[u] = j.todo[u]
  <2>1. job' = [job EXCEPT ![w] = Without(j, u)]
    BY <1>0, <1>2, <1>4 DEF Ask, TypeOK
  <2>2. PICK k \in Jobs : k = Without(j, u)
    BY WithoutFacts
  <2>3. /\ DOMAIN k.todo = DOMAIN j.todo \ {u}
        /\ \A v \in DOMAIN j.todo \ {u} : k.todo[v] = j.todo[v]
        /\ k.user = None /\ k.calm = j.calm
    BY <2>2, WithoutFacts
  <2>4. job'[w] = k
    BY <1>0, <2>1, <2>2 DEF TypeOK
  <2>5. k.calm => CalmOK(w)'
    <3> SUFFICES ASSUME k.calm
                 PROVE  CalmOK(w)'
      OBVIOUS
    <3>1. CalmOK(w)
      BY <1>1, <1>2, <2>3 DEF RefreshInv
    <3>2. \A v \in Users : IF v \in DOMAIN j.todo THEN rows[v] = j.todo[v] ELSE Right(v)
      BY <1>2, <3>1 DEF CalmOK
    <3>3. Right(u)
      BY <1>1, <1>2, <1>4, <3>2 DEF Right
    <3>4. \A v \in Users : IF v \in DOMAIN k.todo THEN rows[v] = k.todo[v] ELSE Right(v)
      BY <2>3, <3>2, <3>3
    <3> QED
      BY <1>3, <2>3, <2>4, <3>4 DEF CalmOK, Right
  <2> QED
    BY <1>3, <2>1, <2>2, <2>5, MovedInv
<1>5. CASE current[u] # j.todo[u]
  <2>1. job' = [job EXCEPT ![w] = [j EXCEPT !.user = u, !.answer = current[u]]]
    BY <1>0, <1>2, <1>5 DEF Ask, TypeOK
  <2>2. current[u] \in AnyName
    BY <1>0 DEF TypeOK
  <2>3. PICK k \in Jobs : k = [j EXCEPT !.user = u, !.answer = current[u]]
    BY <2>2 DEF Jobs
  <2>4. k.todo = j.todo /\ k.user = u /\ k.answer = current[u] /\ k.calm = j.calm
    BY <2>3 DEF Jobs
  <2>5. job'[w] = k
    BY <1>0, <2>1, <2>3 DEF TypeOK
  <2>6. k.calm => CalmOK(w)'
    BY <1>1, <1>2, <1>3, <2>4, <2>5 DEF RefreshInv, CalmOK, Right
  <2> QED
    BY <1>3, <2>1, <2>3, <2>6, MovedInv
<1> QED
  BY <1>4, <1>5

\* The row that is written is right, and every other refresh is told.
LEMMA SaveInv ==
    ASSUME RefreshInv, NEW w \in Workers, NEW u \in Users, Save(w, u)
    PROVE  RefreshInv'
<1>0. TypeOK
  BY DEF RefreshInv
<1>1. job[w] # None /\ u \in DOMAIN job[w].todo /\ job[w].user = u
  BY <1>0, PendingFacts DEF Save
<1>2. PICK j \in Jobs : j = job[w]
  BY <1>0, <1>1, JobFacts
<1>3. /\ UNCHANGED <<current, incidents, updates, prompts>>
      /\ rows' = [rows EXCEPT ![u] = j.answer]
      /\ job' = [Disturb({w}) EXCEPT ![w] = Without(Disturb({w})[w], u)]
  BY <1>2 DEF Save, Upsert, Disturb
<1>4. /\ Disturb({w}) \in [Workers -> Jobs \cup {None}] /\ Disturb({w})[w] = j
      /\ \A v \in Workers : v # w /\ Disturb({w})[v] # None => ~Disturb({w})[v].calm
  BY <1>0, <1>2, DisturbFacts
<1>5. PICK k \in Jobs : k = Without(j, u)
  BY WithoutFacts
<1>6. /\ DOMAIN k.todo = DOMAIN j.todo \ {u}
      /\ \A v \in DOMAIN j.todo \ {u} : k.todo[v] = j.todo[v]
      /\ k.user = None /\ k.calm = j.calm
  BY <1>5, WithoutFacts
<1>7. /\ job' \in [Workers -> Jobs \cup {None}] /\ job'[w] = k
      /\ \A v \in Workers : v # w /\ job'[v] # None => ~job'[v].calm
  BY <1>3, <1>4, <1>5
<1>8. /\ rows' \in [Users -> AnyName \cup {None}] /\ rows'[u] = j.answer
      /\ \A v \in Users : v # u => rows'[v] = rows[v]
  BY <1>0, <1>2, <1>3 DEF TypeOK, Jobs
<1>9. TypeOK'
  BY <1>0, <1>3, <1>7, <1>8 DEF TypeOK
<1>10. k.calm => CalmOK(w)'
  <2> SUFFICES ASSUME k.calm
               PROVE  CalmOK(w)'
    OBVIOUS
  <2>1. CalmOK(w)
    BY <1>1, <1>2, <1>6 DEF RefreshInv
  <2>2. /\ \A v \in Users : IF v \in DOMAIN j.todo THEN rows[v] = j.todo[v] ELSE Right(v)
        /\ j.answer = current[u]
    BY <1>1, <1>2, <2>1, ParticipantsAssumption DEF CalmOK
  <2>3. \A v \in Users : IF v \in DOMAIN k.todo THEN rows'[v] = k.todo[v] ELSE Right(v)'
    BY <1>3, <1>6, <1>8, <2>2 DEF Right
  <2> QED
    BY <1>6, <1>7, <2>3 DEF CalmOK
<1> QED
  BY <1>7, <1>9, <1>10 DEF RefreshInv

LEMMA EndInv ==
    ASSUME RefreshInv, NEW w \in Workers,
           Return(w) \/ Kill(w) \/ \E u \in Users : Skip(w, u)
    PROVE  RefreshInv'
<1>0. TypeOK
  BY DEF RefreshInv
<1>1. CASE Return(w) \/ Kill(w)
  BY <1>1, MovedInv DEF Return, Kill
<1>2. ASSUME NEW u \in Users, Skip(w, u)
      PROVE  RefreshInv'
  <2>1. job[w] # None
    BY <1>0, <1>2, PendingFacts DEF Skip
  <2>2. PICK j \in Jobs : j = job[w]
    BY <1>0, <2>1, JobFacts
  <2>3. PICK k \in Jobs : k = Without(j, u)
    BY WithoutFacts
  <2>4. job' = [job EXCEPT ![w] = [k EXCEPT !.calm = FALSE]]
    BY <1>0, <1>2, <2>2, <2>3 DEF Skip, TypeOK
  <2>5. [k EXCEPT !.calm = FALSE] \in Jobs /\ ~[k EXCEPT !.calm = FALSE].calm
    BY DEF Jobs
  <2> QED
    BY <1>2, <2>4, <2>5, MovedInv DEF Skip
<1> QED
  BY <1>1, <1>2

-----------------------------------------------------------------------------
(* Theorems *)

LEMMA RefreshInit == Init => RefreshInv
BY ParticipantsAssumption DEF Init, RefreshInv, TypeOK

LEMMA RefreshStep == RefreshInv /\ [Next]_vars => RefreshInv'
<1> SUFFICES ASSUME RefreshInv, [Next]_vars
             PROVE  RefreshInv'
  OBVIOUS
<1>1. ASSUME NEW w \in Workers, Refresh(w)
      PROVE  RefreshInv'
  BY <1>1, ListInv, AskInv, SaveInv, EndInv DEF Refresh
<1>2. CASE UNCHANGED vars
  <2>1. TypeOK'
    BY <1>2 DEF RefreshInv, TypeOK, vars
  <2> QED
    BY <1>2, <2>1 DEF RefreshInv, CalmOK, Right, vars
<1> QED
  BY <1>1, <1>2, TelegramInv, UpdateInv DEF Next

\* Rows, updates, prompts and refreshes keep their types, and no two users ever
\* have one username at Telegram.
THEOREM ParticipantTypes == Spec => []TypeOK
<1>1. RefreshInv => TypeOK
  BY DEF RefreshInv
<1> QED
  BY <1>1, RefreshInit, RefreshStep, PTL DEF Spec

\* However many refreshes, late updates and old prompts write the same rows, a
\* refresh that was not disturbed ends with every participant stored under the
\* username they have.
THEOREM RefreshesRepair == Spec => []RefreshRepairs
<1>1. RefreshInv => RefreshRepairs
  <2> SUFFICES ASSUME RefreshInv, NEW w \in Workers, job[w] # None, job[w].calm, Pending(w) = {}
               PROVE  /\ \A u \in Users : Right(u)
                      /\ \A n \in Names : GetByUsername(n) \subseteq {u \in Users : current[u] = n}
    BY DEF RefreshRepairs
  <2>1. \A u \in Users : Right(u)
    BY DEF RefreshInv, CalmOK, Pending
  <2>2. None \notin Names
    BY ParticipantsAssumption DEF AnyName
  <2> QED
    BY <2>1, <2>2 DEF Right, GetByUsername
<1> QED
  BY <1>1, RefreshInit, RefreshStep, PTL DEF Spec

=============================================================================
