---------------------------- MODULE EngineLoops -----------------------------
(***************************************************************************)
(* The loops of eloEngine.Compute, groupByPeriod and glicko2Engine.Compute *)
(* as a state machine, one step per iteration.  Module Ratings gives the   *)
(* same algorithms as folds and says which matches they are given; here    *)
(* every intermediate state of the loops is visible, so that what they     *)
(* compute can be stated as an invariant.                                  *)
(*                                                                         *)
(* The floating-point formulas are parameters: what holds here holds       *)
(* whatever they compute.  Points and best ratings are left out.           *)
(***************************************************************************)
EXTENDS Integers, Sequences, FiniteSets

CONSTANTS
    Players,                \* Telegram users
    Inputs,                 \* the lists of matches an engine may be given
    PeriodDays,             \* the arguments of NewGlicko2: the setting or its default
    DayLength,              \* ticks of a day
    MaxDuration,            \* ticks of the longest time.Duration, 292 years
    KThreshold,             \* ELOKThreshold
    DefaultRating,          \* the value, to each engine its own, of a new player
    EloFormula(_, _, _, _), \* own + k * (s - expected(own, opp))
    GlickoFormula(_, _),    \* glicko2Update
    Inflated(_)             \* its step 6 alone

VARIABLES
    given,      \* the argument of Compute
    days,       \* the argument of NewGlicko2
    pc,         \* the loop that is running
    sorted,     \* the matches in the order of play
    i,          \* the match at which the running loop stands
    elo,        \* pr, of the ELO engine
    periods,    \* the rating periods; each is a slice sorted[from..to]
    cur,        \* the period that groupByPeriod is filling
    q,          \* the period at which Glicko-2 stands
    players,    \* the players Glicko-2 has met
    opps,       \* participants: whom each player met in the period, by match
    pre,        \* the players before the updates of the period
    todo,       \* the participants whose update is outstanding
    rated       \* history: the ratings after each period

groupVars == <<periods, cur>>
periodVars == <<opps, pre, todo>>
glickoVars == <<q, players, periodVars, rated>>
vars == <<given, days, pc, sorted, i, elo, groupVars, glickoVars>>

Matches == [p1 : Players, p2 : Players, s1 : Int, s2 : Int, at : Nat]

ASSUME EngineAssumption ==
    /\ Inputs \subseteq Seq(Matches)
    /\ PeriodDays \subseteq Int
    /\ DayLength \in Nat \ {0}
    /\ KThreshold \in Nat
    /\ MaxDuration \in Nat
    /\ \A d \in PeriodDays \cup {1} : d * DayLength <= MaxDuration

-----------------------------------------------------------------------------
(* The operations on a player's entry. *)

Plays(p, m) == p \in {m.p1, m.p2}
Opponent(p, m) == IF p = m.p1 THEN m.p2 ELSE m.p1
For(p, m) == IF p = m.p1 THEN m.s1 ELSE m.s2
Against(p, m) == IF p = m.p1 THEN m.s2 ELSE m.s1

\* The score of a game in half points.
Outcome(p, m) == CASE For(p, m) > Against(p, m) -> 2
                   [] For(p, m) < Against(p, m) -> 0
                   [] OTHER -> 1

Metas == [games : Nat, wins : Nat, losses : Nat, streak : Int, last : Nat]
NewMeta == [games |-> 0, wins |-> 0, losses |-> 0, streak |-> 0, last |-> 0]

\* Mutation: a win after losses goes on counting from below zero.
applyMetaNoReset(r, p, m) ==
    LET s == Outcome(p, m)
    IN  [games |-> r.games + 1,
         wins |-> r.wins + (IF s = 2 THEN 1 ELSE 0),
         losses |-> r.losses + (IF s = 0 THEN 1 ELSE 0),
         streak |-> r.streak + s - 1,
         last |-> m.at]

\* applyMeta and applyG2Meta.
applyMeta(r, p, m) ==
    LET s == Outcome(p, m)
    IN  [games |-> r.games + 1,
         wins |-> r.wins + (IF s = 2 THEN 1 ELSE 0),
         losses |-> r.losses + (IF s = 0 THEN 1 ELSE 0),
         streak |-> CASE s = 2 -> IF r.streak >= 0 THEN r.streak + 1 ELSE 1
                      [] s = 0 -> IF r.streak <= 0 THEN r.streak - 1 ELSE -1
                      [] OTHER -> r.streak,
         last |-> m.at]

Entry(rating, meta) == [rating |-> rating, meta |-> meta]
NewPlayer == Entry(DefaultRating, NewMeta)
get(pr, p) == IF p \in DOMAIN pr THEN pr[p] ELSE NewPlayer

eloK(games) == IF games < KThreshold THEN 32 ELSE 16

-----------------------------------------------------------------------------
(* The matches in order. *)

Valid(m) == m.p1 # m.p2 /\ m.s1 >= 0 /\ m.s2 >= 0

\* order lists the indices of s by time of play, ties as they are in s.
StableOrder(order, s) ==
    \A a, b \in DOMAIN s :
        a < b => \/ s[order[a]].at < s[order[b]].at
                 \/ s[order[a]].at = s[order[b]].at /\ order[a] < order[b]

\* validateAndSort fails, and Compute with it.
Refuse ==
    /\ pc = "sort"
    /\ \E k \in DOMAIN given : ~Valid(given[k])
    /\ pc' = "failed"
    /\ UNCHANGED <<given, days, sorted, i, elo, groupVars, glickoVars>>

validateAndSort ==
    /\ pc = "sort"
    /\ \A k \in DOMAIN given : Valid(given[k])
    /\ \E order \in [DOMAIN given -> DOMAIN given] :
          /\ StableOrder(order, given)
          /\ sorted' = [k \in DOMAIN given |-> given[order[k]]]
    /\ pc' = "elo"
    /\ UNCHANGED <<given, days, i, elo, groupVars, glickoVars>>

-----------------------------------------------------------------------------
(* ELO. *)

\* Mutation: the second player meets the first one's new rating.
EloMatchInPlace ==
    /\ pc = "elo" /\ i <= Len(sorted)
    /\ LET m == sorted[i]
           Updated(p, opp) ==
               LET r == get(elo, p)
               IN  Entry(EloFormula(r.rating, opp, eloK(r.meta.games), Outcome(p, m)),
                         applyMeta(r.meta, p, m))
           first == Updated(m.p1, get(elo, m.p2).rating)
       IN  elo' = [p \in DOMAIN elo \cup {m.p1, m.p2} |->
                      CASE p = m.p1 -> first
                        [] p = m.p2 -> Updated(p, first.rating)
                        [] OTHER -> elo[p]]
    /\ i' = i + 1
    /\ UNCHANGED <<given, days, pc, sorted, groupVars, glickoVars>>

EloMatch ==
    /\ pc = "elo" /\ i <= Len(sorted)
    /\ LET m == sorted[i]
           Updated(p) ==
               LET r == get(elo, p)
               IN  Entry(EloFormula(r.rating, get(elo, Opponent(p, m)).rating,
                                    eloK(r.meta.games), Outcome(p, m)),
                         applyMeta(r.meta, p, m))
       IN  elo' = [p \in DOMAIN elo \cup {m.p1, m.p2} |->
                      IF Plays(p, m) THEN Updated(p) ELSE elo[p]]
    /\ i' = i + 1
    /\ UNCHANGED <<given, days, pc, sorted, groupVars, glickoVars>>

-----------------------------------------------------------------------------
(* groupByPeriod. *)

\* Mutation: midnight of a place whose day begins earlier.
StartOfDayElsewhere(t) == t - (t % DayLength) - 1

StartOfDay(t) == t - (t % DayLength)

NewGlicko2(d) == IF d < 1 THEN 1 ELSE d

\* A time.Duration wraps around.
Duration(x) == ((x + MaxDuration + 1) % (2 * (MaxDuration + 1))) - (MaxDuration + 1)

\* Mutation: the length of a period is used as it is set.
durUnchecked == Duration(days * DayLength)

dur == Duration(NewGlicko2(days) * DayLength)

EloDone ==
    /\ pc = "elo" /\ i > Len(sorted)
    /\ IF sorted = <<>>
       THEN pc' = "period" /\ UNCHANGED cur
       ELSE pc' = "group" /\ cur' = [start |-> StartOfDay(sorted[1].at), from |-> 1, to |-> 0]
    /\ i' = 1
    /\ UNCHANGED <<given, days, sorted, elo, periods, glickoVars>>

\* Mutation: a match at the end of a period is put into it.
pastPeriodLate(m) == m.at > cur.start + dur

pastPeriod(m) == m.at >= cur.start + dur

\* The inner loop: the period is closed and the next one opened.
Advance ==
    /\ pc = "group" /\ i <= Len(sorted)
    /\ pastPeriod(sorted[i])
    /\ periods' = Append(periods, cur)
    /\ cur' = [start |-> cur.start + dur, from |-> i, to |-> i - 1]
    /\ UNCHANGED <<given, days, pc, sorted, i, elo, glickoVars>>

Place ==
    /\ pc = "group" /\ i <= Len(sorted)
    /\ ~pastPeriod(sorted[i])
    /\ cur' = [cur EXCEPT !.to = i]
    /\ i' = i + 1
    /\ UNCHANGED <<given, days, pc, sorted, elo, periods, glickoVars>>

CloseLast ==
    /\ pc = "group" /\ i > Len(sorted)
    /\ periods' = Append(periods, cur)
    /\ pc' = "period"
    /\ UNCHANGED <<given, days, sorted, i, elo, cur, glickoVars>>

-----------------------------------------------------------------------------
(* Glicko-2: the loop over the periods. *)

BeginPeriod ==
    /\ pc = "period" /\ q <= Len(periods)
    /\ opps' = <<>>
    /\ i' = periods[q].from
    /\ pc' = "collect"
    /\ UNCHANGED <<given, days, sorted, elo, groupVars, q, players, pre, todo, rated>>

\* A match of the period: its players are created if they are new, and each
\* notes the other's values.
Collect ==
    /\ pc = "collect" /\ i <= periods[q].to
    /\ LET m == sorted[i]
           Met(p) == <<get(players, Opponent(p, m)).rating, Outcome(p, m)>>
           Before(p) == IF p \in DOMAIN opps THEN DOMAIN opps[p] ELSE {}
       IN  /\ players' = [p \in DOMAIN players \cup {m.p1, m.p2} |-> get(players, p)]
           /\ opps' = [p \in DOMAIN opps \cup {m.p1, m.p2} |->
                          IF Plays(p, m)
                          THEN [k \in Before(p) \cup {i} |-> IF k = i THEN Met(p) ELSE opps[p][k]]
                          ELSE opps[p]]
    /\ i' = i + 1
    /\ UNCHANGED <<given, days, pc, sorted, elo, groupVars, q, pre, todo, rated>>

Snapshot ==
    /\ pc = "collect" /\ i > periods[q].to
    /\ pre' = players
    /\ todo' = DOMAIN opps
    /\ pc' = "update"
    /\ UNCHANGED <<given, days, sorted, i, elo, groupVars, q, players, opps, rated>>

\* Mutation: an update reads the opponents' values when it is made.
UpdateFromCurrent(p) ==
    /\ pc = "update" /\ p \in todo
    /\ LET now == [k \in DOMAIN opps[p] |->
                      <<players[Opponent(p, sorted[k])].rating, opps[p][k][2]>>]
       IN  players' = [id \in DOMAIN players |->
                          IF id = p THEN Entry(GlickoFormula(pre[p].rating, now), players[p].meta)
                          ELSE players[id]]
    /\ todo' = todo \ {p}
    /\ UNCHANGED <<given, days, pc, sorted, i, elo, groupVars, q, opps, pre, rated>>

\* The participants are updated in the order in which Go walks the map: any.
Update(p) ==
    /\ pc = "update" /\ p \in todo
    /\ players' = [id \in DOMAIN players |->
                      IF id = p
                      THEN Entry(GlickoFormula(pre[p].rating, opps[p]), players[p].meta)
                      ELSE players[id]]
    /\ todo' = todo \ {p}
    /\ UNCHANGED <<given, days, pc, sorted, i, elo, groupVars, q, opps, pre, rated>>

\* The deviation of everyone who did not play grows.
Inflate ==
    /\ pc = "update" /\ todo = {}
    /\ players' = [p \in DOMAIN players |->
                      IF p \in DOMAIN opps THEN players[p]
                      ELSE Entry(Inflated(players[p].rating), players[p].meta)]
    /\ i' = periods[q].from
    /\ pc' = "meta"
    /\ UNCHANGED <<given, days, sorted, elo, groupVars, q, periodVars, rated>>

\* A closure of metaUpdates.
MetaUpdate ==
    /\ pc = "meta" /\ i <= periods[q].to
    /\ LET m == sorted[i]
       IN  players' = [p \in DOMAIN players |->
                          IF Plays(p, m)
                          THEN Entry(players[p].rating, applyMeta(players[p].meta, p, m))
                          ELSE players[p]]
    /\ i' = i + 1
    /\ UNCHANGED <<given, days, pc, sorted, elo, groupVars, q, periodVars, rated>>

EndPeriod ==
    /\ pc = "meta" /\ i > periods[q].to
    /\ rated' = [n \in 1..q |-> IF n = q THEN [p \in DOMAIN players |-> players[p].rating]
                                 ELSE rated[n]]
    /\ q' = q + 1
    /\ pc' = "period"
    /\ UNCHANGED <<given, days, sorted, i, elo, groupVars, players, periodVars>>

Return ==
    /\ pc = "period" /\ q > Len(periods)
    /\ pc' = "done"
    /\ UNCHANGED <<given, days, sorted, i, elo, groupVars, glickoVars>>

Returned == pc \in {"done", "failed"} /\ UNCHANGED vars

-----------------------------------------------------------------------------
Init ==
    /\ given \in Inputs
    /\ days \in PeriodDays
    /\ pc = "sort"
    /\ sorted = <<>>
    /\ i = 1
    /\ elo = <<>>
    /\ periods = <<>>
    /\ cur = [start |-> 0, from |-> 1, to |-> 0]
    /\ q = 1
    /\ players = <<>>
    /\ opps = <<>>
    /\ pre = <<>>
    /\ todo = {}
    /\ rated = <<>>

Next ==
    \/ Refuse \/ validateAndSort
    \/ EloMatch \/ EloDone
    \/ Advance \/ Place \/ CloseLast
    \/ BeginPeriod \/ Collect \/ Snapshot
    \/ \E p \in Players : Update(p)
    \/ Inflate \/ MetaUpdate \/ EndPeriod
    \/ Return \/ Returned

Spec == Init /\ [][Next]_vars

-----------------------------------------------------------------------------
(* Properties. *)

Periods == [start : Nat, from : Nat, to : Nat]

\* The types of the loops' variables.  A rating may be anything.
TypeOK ==
    /\ given \in Inputs /\ days \in PeriodDays
    /\ pc \in {"sort", "failed", "elo", "group", "period", "collect", "update", "meta", "done"}
    /\ sorted \in Seq(Matches)
    /\ {i, q} \subseteq Nat \ {0}
    /\ periods \in Seq(Periods) /\ cur \in Periods
    /\ \A pr \in {elo, players} : /\ DOMAIN pr \subseteq Players
                                  /\ \A p \in DOMAIN pr : pr[p].meta \in Metas
    /\ todo \subseteq DOMAIN opps /\ DOMAIN opps \subseteq DOMAIN players

\* The games of p among the first n, those it won and those it lost.
Games(p, n) == {k \in 1..n : Plays(p, sorted[k])}
Won(p, n) == {k \in Games(p, n) : Outcome(p, sorted[k]) = 2}
Lost(p, n) == {k \in Games(p, n) : Outcome(p, sorted[k]) = 0}

\* The members of S after all of T.
After(S, T) == {k \in S : \A l \in T : l < k}

\* r is the record of the games of p among the first n: a streak counts the
\* wins since the last loss, or below zero the losses since the last win.
IsRecord(r, p, n) ==
    /\ r.games = Cardinality(Games(p, n))
    /\ r.wins = Cardinality(Won(p, n))
    /\ r.losses = Cardinality(Lost(p, n))
    /\ r.streak = Cardinality(After(Won(p, n), Lost(p, n)))
                  - Cardinality(After(Lost(p, n), Won(p, n)))
    /\ Games(p, n) # {} => \E k \in Games(p, n) : /\ \A l \in Games(p, n) : l <= k
                                                  /\ r.last = sorted[k].at

\* How many matches the ELO loop has counted.
Counted == IF pc = "elo" THEN i - 1 ELSE Len(sorted)

\* The combined message shows one engine's record beside both ratings, so the
\* engines must tell the same story, although one keeps its record per match and
\* the other per period (applyMeta, applyG2Meta): those who played, and of each
\* the games, wins, losses, streak and last game.
EnginesKeepRecord ==
    /\ DOMAIN elo = {p \in Players : Games(p, Counted) # {}}
    /\ \A p \in DOMAIN elo : IsRecord(elo[p].meta, p, Counted)
    /\ pc = "done" => /\ DOMAIN players = DOMAIN elo
                      /\ \A p \in DOMAIN elo : players[p].meta = elo[p].meta

Day(t) == t \div DayLength

\* The period of the k-th match by the calendar: periods are counted in whole
\* days from the day of the first match.
Turn(k) == 1 + (Day(sorted[k].at) - Day(sorted[1].at)) \div NewGlicko2(days)

\* groupByPeriod: every match is in the period the calendar gives it, a match
\* at a boundary in the later one; the periods follow one another without gap
\* or overlap, those without a match included, and none lies beyond the last
\* match.
GroupsByCalendar ==
    /\ \A n \in DOMAIN periods :
          /\ periods[n].from = IF n = 1 THEN 1 ELSE periods[n - 1].to + 1
          /\ \A k \in periods[n].from .. periods[n].to : k \in DOMAIN sorted /\ Turn(k) = n
          /\ n <= Turn(Len(sorted))
    /\ pc \in {"period", "collect", "update", "meta", "done"} /\ sorted # <<>> =>
          periods[Len(periods)].to = Len(sorted)

\* The rating of p before the n-th period.
RatingBefore(n, p) ==
    IF n > 1 /\ p \in DOMAIN rated[n - 1] THEN rated[n - 1][p] ELSE DefaultRating

\* What p met in the n-th period, everyone as they were before it.
MetIn(n, p) ==
    [k \in {k \in periods[n].from .. periods[n].to : Plays(p, sorted[k])} |->
        <<RatingBefore(n, Opponent(p, sorted[k])), Outcome(p, sorted[k])>>]

\* The comment on the snapshot in glicko2Engine.Compute: "opponents see the
\* pre-period rating during their own update".  In whatever order the map of
\* the participants is walked, a period gives everyone the same rating: one
\* update against all whom they met, as these were before the period, or the
\* growth of the deviation for whoever has played before and not in it.
RatedPerPeriod ==
    /\ \A n \in DOMAIN rated :
          /\ DOMAIN rated[n] = {p \in Players : Games(p, periods[n].to) # {}}
          /\ \A p \in DOMAIN rated[n] :
                rated[n][p] = IF DOMAIN MetIn(n, p) = {}
                              THEN Inflated(RatingBefore(n, p))
                              ELSE GlickoFormula(RatingBefore(n, p), MetIn(n, p))
    /\ pc = "done" => /\ DOMAIN rated = DOMAIN periods
                      /\ \A p \in DOMAIN players :
                            players[p].rating = RatingBefore(Len(periods) + 1, p)

\* What is left to do: the stages, the rounds of the running stage, the parts
\* of a round and the iterations of a part.
Measure ==
    CASE pc = "sort" -> <<4, 0, 0, 0>>
      [] pc = "elo" -> <<3, 0, 0, Len(sorted) + 1 - i>>
      [] pc = "group" -> <<2, Len(sorted) + 1 - i, 0, sorted[Len(sorted)].at - cur.start>>
      [] pc = "period" -> <<1, Len(periods) + 1 - q, 3, 0>>
      [] pc = "collect" -> <<1, Len(periods) + 1 - q, 2, periods[q].to + 1 - i>>
      [] pc = "update" -> <<1, Len(periods) + 1 - q, 1, Cardinality(todo)>>
      [] pc = "meta" -> <<1, Len(periods) + 1 - q, 0, periods[q].to + 1 - i>>
      [] OTHER -> <<0, 0, 0, 0>>

Descends ==
    /\ Measure' \in Nat \X Nat \X Nat \X Nat
    /\ \E d \in 1..4 : /\ Measure'[d] < Measure[d]
                       /\ \A e \in 1..(d - 1) : Measure'[e] = Measure[e]

\* Every loop ends, the one that opens periods until a match falls into one
\* included, with every setting that fits a time.Duration (EngineAssumption),
\* zero and negative ones too: each step lowers a tuple of natural numbers in
\* the lexicographic order.
EveryStepDescends == [][Descends]_vars

=============================================================================
