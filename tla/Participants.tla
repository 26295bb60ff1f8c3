---------------------------- MODULE Participants ----------------------------
(***************************************************************************)
(* The participants of a group: for each Telegram user seen there, the     *)
(* @username under which /match finds them.  A row is written from what an *)
(* update says of its sender, a member or a forwarded author, which was    *)
(* true when the update was made; from the text of an old "Add to which    *)
(* group?" prompt; and by the refresh job, which asks Telegram about each  *)
(* participant it has listed.  Telegram gives a username to one user at a  *)
(* time, and users change, swap and drop them.                             *)
(*                                                                         *)
(* The group is registered throughout.  The workers are instances of the   *)
(* function that run refreshGroupUsernames, from the cron job or from      *)
(* /refresh_usernames.                                                     *)
(***************************************************************************)
EXTENDS Integers, FiniteSets

CONSTANTS
    Users,
    Names,        \* @usernames
    NoName,       \* the empty username
    Workers,
    Cron,         \* the worker that the timer starts again and again
    MaxIncidents, \* bound: changes of usernames, and failed edits of prompts
    MaxInFlight,  \* bound: updates and prompts under way
    None          \* no row, no job

VARIABLES
    rows,      \* table participants: the stored username
    current,   \* Telegram: the username of each user
    incidents, \* how many there were
    updates,   \* updates on their way: whom they speak of, and under which name
    prompts,   \* "Add to which group?" prompts with live buttons
    job        \* the refreshes

vars == <<rows, current, incidents, updates, prompts, job>>

AnyName == Names \cup {NoName}

Seen == [user : Users, name : AnyName]

\* A refresh: the rows it listed and has yet to look at, the user it asked
\* about with the answer, and whether nothing else has happened meanwhile.
Jobs == [todo : UNION {[U -> AnyName] : U \in SUBSET Users},
         user : Users \cup {None}, answer : AnyName, calm : BOOLEAN]

ASSUME ParticipantsAssumption ==
    /\ NoName \notin Names
    /\ Cron \in Workers
    /\ {MaxIncidents, MaxInFlight} \subseteq Nat
    /\ None \notin AnyName \cup Users \cup Jobs

\* The types of the state; and no two users have a username at once.
TypeOK ==
    /\ rows \in [Users -> AnyName \cup {None}]
    /\ current \in [Users -> AnyName]
    /\ incidents \in 0..MaxIncidents
    /\ updates \subseteq Seen
    /\ prompts \subseteq Seen
    /\ job \in [Workers -> Jobs \cup {None}]
    /\ \A u, v \in Users : current[u] = current[v] /\ current[u] # NoName => u = v

Init ==
    /\ rows = [u \in Users |-> None]
    /\ current \in {f \in [Users -> AnyName] :
                        \A u, v \in Users : f[u] = f[v] => u = v \/ f[u] = NoName}
    /\ incidents = 0
    /\ updates = {}
    /\ prompts = {}
    /\ job = [w \in Workers |-> None]

\* The refreshes other than those of S are told that something has happened.
Disturb(S) == [w \in Workers |-> IF w \in S \/ job[w] = None THEN job[w]
                                 ELSE [job[w] EXCEPT !.calm = FALSE]]

-----------------------------------------------------------------------------
(* Telegram. *)

\* A user takes a free username, or drops the one they have.
Rename(u) ==
    /\ incidents < MaxIncidents
    /\ \E n \in AnyName \ {current[u]} :
          /\ n = NoName \/ \A v \in Users : current[v] # n
          /\ current' = [current EXCEPT ![u] = n]
    /\ incidents' = incidents + 1
    /\ job' = Disturb({})
    /\ UNCHANGED <<rows, updates, prompts>>

\* The user writes, joins, or has a message forwarded to the bot.
Appear(u) ==
    /\ Cardinality(updates) + Cardinality(prompts) < MaxInFlight
    /\ updates' = updates \cup {[user |-> u, name |-> current[u]]}
    /\ UNCHANGED <<rows, current, incidents, prompts, job>>

-----------------------------------------------------------------------------
(* The handlers of updates; several are served at once, in any order. *)

\* Participants().Upsert and ListByGroup.
Upsert(u, name) == rows' = [rows EXCEPT ![u] = name]
ListByGroup == [u \in {v \in Users : rows[v] # None} |-> rows[u]]

\* upsertSenderParticipant, dispatchChatMember, and handleForwardedAdd for an
\* admin of one group.
UpsertSeen(m) ==
    /\ m \in updates
    /\ updates' = updates \ {m}
    /\ Upsert(m.user, m.name)
    /\ job' = Disturb({})
    /\ UNCHANGED <<current, incidents, prompts>>

\* handleForwardedAdd for an admin of several groups.
handleForwardedAdd(m) ==
    /\ m \in updates
    /\ updates' = updates \ {m}
    /\ prompts' = prompts \cup {m}
    /\ UNCHANGED <<rows, current, incidents, job>>

\* Mutation: the buttons always stay.
TapKeepingButtons(m) ==
    /\ m \in prompts
    /\ Upsert(m.user, m.name)
    /\ job' = Disturb({})
    /\ UNCHANGED <<current, incidents, updates, prompts>>

\* The tap reads the username back from the prompt's text, and replaces the
\* buttons.
handleAddParticipantTap(m) ==
    /\ m \in prompts
    /\ prompts' = prompts \ {m}
    /\ Upsert(m.user, m.name)
    /\ job' = Disturb({})
    /\ UNCHANGED <<current, incidents, updates>>

\* The same, but the buttons are not replaced: the edit fails, or the function
\* ends before it.
TapEditFails(m) ==
    /\ m \in prompts
    /\ incidents < MaxIncidents
    /\ incidents' = incidents + 1
    /\ Upsert(m.user, m.name)
    /\ job' = Disturb({})
    /\ UNCHANGED <<current, updates, prompts>>

\* resolveMatchToken: whom @name may turn out to be.
GetByUsername(name) == {u \in Users : rows[u] = name}

-----------------------------------------------------------------------------
(* refreshGroupUsernames. *)

\* Mutation: users whose row is another group's are listed too.
ListEverywhere(w) ==
    /\ job[w] = None
    /\ job' = [job EXCEPT ![w] =
                  [todo |-> rows, user |-> None, answer |-> NoName, calm |-> TRUE]]
    /\ UNCHANGED <<rows, current, incidents, updates, prompts>>

\* The refresh works on the copies it lists first.
List(w) ==
    /\ job[w] = None
    /\ job' = [job EXCEPT ![w] =
                  [todo |-> ListByGroup, user |-> None, answer |-> NoName, calm |-> TRUE]]
    /\ UNCHANGED <<rows, current, incidents, updates, prompts>>

Pending(w) == IF job[w] = None THEN {} ELSE DOMAIN job[w].todo

Without(j, u) == [j EXCEPT !.todo = [v \in DOMAIN j.todo \ {u} |-> j.todo[v]], !.user = None,
                           !.answer = NoName]

\* Mutation: an answer without a username is taken for no answer.
AskUnlessNameless(w, u) ==
    /\ u \in Pending(w) /\ job[w].user = None
    /\ job' = [job EXCEPT ![w] =
                  IF current[u] \in {@.todo[u], NoName} THEN Without(@, u)
                  ELSE [@ EXCEPT !.user = u, !.answer = current[u]]]
    /\ UNCHANGED <<rows, current, incidents, updates, prompts>>

\* ResolveChatMemberUsername; an answer equal to the listed copy ends the turn.
Ask(w, u) ==
    /\ u \in Pending(w) /\ job[w].user = None
    /\ job' = [job EXCEPT ![w] =
                  IF current[u] = @.todo[u] THEN Without(@, u)
                  ELSE [@ EXCEPT !.user = u, !.answer = current[u]]]
    /\ UNCHANGED <<rows, current, incidents, updates, prompts>>

\* The row is written whatever it holds by now.
Save(w, u) ==
    /\ u \in Pending(w) /\ job[w].user = u
    /\ Upsert(u, job[w].answer)
    /\ job' = [Disturb({w}) EXCEPT ![w] = Without(@, u)]
    /\ UNCHANGED <<current, incidents, updates, prompts>>

\* Telegram or the store fails, and the loop goes on with the next row.
Skip(w, u) ==
    /\ u \in Pending(w) /\ job[w].user \in {None, u}
    /\ job' = [job EXCEPT ![w] = [Without(@, u) EXCEPT !.calm = FALSE]]
    /\ UNCHANGED <<rows, current, incidents, updates, prompts>>

Return(w) ==
    /\ job[w] # None /\ Pending(w) = {}
    /\ job' = [job EXCEPT ![w] = None]
    /\ UNCHANGED <<rows, current, incidents, updates, prompts>>

\* The function's time is up.
Kill(w) ==
    /\ Pending(w) # {}
    /\ job' = [job EXCEPT ![w] = None]
    /\ UNCHANGED <<rows, current, incidents, updates, prompts>>

Refresh(w) ==
    \/ List(w)
    \/ \E u \in Users : Ask(w, u) \/ Save(w, u) \/ Skip(w, u)
    \/ Return(w)
    \/ Kill(w)

Next ==
    \/ \E u \in Users : Rename(u) \/ Appear(u)
    \/ \E m \in updates : UpsertSeen(m) \/ handleForwardedAdd(m)
    \/ \E m \in prompts : handleAddParticipantTap(m) \/ TapEditFails(m)
    \/ \E w \in Workers : Refresh(w)

Spec == Init /\ [][Next]_vars

\* The timer keeps starting the refresh, and of each user whom it gets to ask
\* about again and again some question is answered and some write succeeds.
FairSpec ==
    /\ Spec
    /\ WF_vars(List(Cron)) /\ WF_vars(Refresh(Cron))
    /\ \A u \in Users : SF_vars(Ask(Cron, u)) /\ SF_vars(Save(Cron, u))

-----------------------------------------------------------------------------
(* Properties. *)

Right(u) == rows[u] \in {None, current[u]}

\* What /refresh_usernames promises: a refresh that is not disturbed (nobody is
\* renamed, no other row is written, no call fails) ends with every participant
\* stored under the username they have, so that @name finds its bearer only,
\* whoever had it before.
RefreshRepairs ==
    \A w \in Workers :
        job[w] # None /\ job[w].calm /\ Pending(w) = {} =>
            /\ \A u \in Users : Right(u)
            /\ \A n \in Names : GetByUsername(n) \subseteq {u \in Users : current[u] = n}

\* Once usernames stop changing, late updates, old prompts and overlapping
\* refreshes can undo a repair only so often: in the end every row is right.
NamesSettle == <>[](\A u \in Users : Right(u))

=============================================================================
