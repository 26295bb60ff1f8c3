-------------------------- MODULE EngineLoopsProofs -------------------------
(***************************************************************************)
(* Proofs about EngineLoops for any players, matches, scores and times,    *)
(* any length of the rating period that fits a time.Duration, and any      *)
(* rating formulas: what the loops compute, and that they end.             *)
(***************************************************************************)
EXTENDS EngineLoops, FiniteSetTheorems, TLAPS

-----------------------------------------------------------------------------
(* The record of a player.  GamesIn, WonIn, LostIn and RecordIn are Games,  *)
(* Won, Lost and IsRecord of a given list of matches.                       *)

GamesIn(s, p, n) == {k \in 1..n : Plays(p, s[k])}
WonIn(s, p, n) == {k \in GamesIn(s, p, n) : Outcome(p, s[k]) = 2}
LostIn(s, p, n) == {k \in GamesIn(s, p, n) : Outcome(p, s[k]) = 0}

RecordIn(s, r, p, n) ==
    /\ r.games = Cardinality(GamesIn(s, p, n))
    /\ r.wins = Cardinality(WonIn(s, p, n))
    /\ r.losses = Cardinality(LostIn(s, p, n))
    /\ r.streak = Cardinality(After(WonIn(s, p, n), LostIn(s, p, n)))
                  - Cardinality(After(LostIn(s, p, n), WonIn(s, p, n)))
    /\ GamesIn(s, p, n) # {} => \E k \in GamesIn(s, p, n) : /\ \A l \in GamesIn(s, p, n) : l <= k
                                                            /\ r.last = s[k].at

\* A set of matches among the first n is finite.
LEMMA UpToFinite ==
    ASSUME NEW n \in Nat, NEW S \in SUBSET (1..n)
    PROVE  IsFiniteSet(S) /\ Cardinality(S) \in Nat
  <1>1. IsFiniteSet(1..n)
    BY FS_Interval
  <1>2. IsFiniteSet(S)
    BY <1>1, FS_Subset
  <1> QED
    BY <1>2, FS_CardinalityType

\* The next match is a new member.
LEMMA UpToAdd ==
    ASSUME NEW n \in Nat, NEW S \in SUBSET (1..n)
    PROVE  Cardinality(S \cup {n + 1}) = Cardinality(S) + 1
  <1>1. IsFiniteSet(S)
    BY UpToFinite
  <1>2. n + 1 \notin S
    OBVIOUS
  <1> QED
    BY <1>1, <1>2, FS_AddElement

\* The outcome of a game is one of three.
LEMMA OutcomeType ==
    ASSUME NEW p, NEW m
    PROVE  Outcome(p, m) \in {0, 1, 2}
  BY DEF Outcome

\* Of the runs of wins and of losses one is empty.
LEMMA OneRun ==
    ASSUME NEW n \in Nat, NEW W \in SUBSET (1..n), NEW L \in SUBSET (1..n)
    PROVE  After(W, L) = {} \/ After(L, W) = {}
  <1>1. SUFFICES ASSUME NEW w \in After(W, L), NEW l \in After(L, W)
                 PROVE  FALSE
    BY Zenon
  <1>2. w \in W /\ l \in L /\ w \in Int /\ l \in Int
    BY DEF After
  <1>3. l < w /\ w < l
    BY <1>2 DEF After
  <1> QED
    BY <1>2, <1>3

\* The next match prolongs the run of its kind.
LEMMA RunGrows ==
    ASSUME NEW n \in Nat, NEW W \in SUBSET (1..n), NEW L \in SUBSET (1..n)
    PROVE  /\ After(W \cup {n + 1}, L) = After(W, L) \cup {n + 1}
           /\ After(L, W \cup {n + 1}) = {}
           /\ After(W, L) \in SUBSET (1..n)
  <1>1. \A l \in L : l < n + 1
    OBVIOUS
  <1>2. \A l \in L : ~(n + 1 < l)
    OBVIOUS
  <1>3. After(L, W \cup {n + 1}) = {}
    BY <1>2 DEF After
  <1>4. After(W \cup {n + 1}, L) = After(W, L) \cup {n + 1}
    BY <1>1 DEF After
  <1> QED
    BY <1>3, <1>4 DEF After

\* The signed length of the runs.
Run(W, L) == Cardinality(After(W, L)) - Cardinality(After(L, W))

\* A win after a run of wins makes it longer; after a run of losses it is the
\* first of a new one.  Exchanging the arguments gives the same of a loss.
LEMMA RunStep ==
    ASSUME NEW n \in Nat, NEW W \in SUBSET (1..n), NEW L \in SUBSET (1..n)
    PROVE  /\ Run(W, L) \in Int /\ Run(L, W) = 0 - Run(W, L)
           /\ Run(W \cup {n + 1}, L) = IF Run(W, L) >= 0 THEN Run(W, L) + 1 ELSE 1
           /\ Run(L, W \cup {n + 1}) = IF Run(L, W) <= 0 THEN Run(L, W) - 1 ELSE 0 - 1
  <1> DEFINE a == After(W, L)
             b == After(L, W)
  <1>1. a \in SUBSET (1..n) /\ b \in SUBSET (1..n)
    BY DEF After
  <1>2. Cardinality(a) \in Nat /\ Cardinality(b) \in Nat
    BY <1>1, UpToFinite
  <1>3. Cardinality(a) = 0 \/ Cardinality(b) = 0
    <2>1. a = {} \/ b = {}
      BY OneRun
    <2>2. Cardinality({}) = 0
      BY FS_EmptySet
    <2> QED
      BY <2>1, <2>2
  <1>4. Cardinality(After(W \cup {n + 1}, L)) = Cardinality(a) + 1
    <2>1. After(W \cup {n + 1}, L) = a \cup {n + 1}
      BY RunGrows
    <2>2. Cardinality(a \cup {n + 1}) = Cardinality(a) + 1
      BY <1>1, UpToAdd
    <2> QED
      BY <2>1, <2>2
  <1>5. Cardinality(After(L, W \cup {n + 1})) = 0
    <2>1. After(L, W \cup {n + 1}) = {}
      BY RunGrows
    <2>2. Cardinality({}) = 0
      BY FS_EmptySet
    <2> QED
      BY <2>1, <2>2
  <1>6. /\ Run(W, L) = Cardinality(a) - Cardinality(b)
        /\ Run(L, W) = Cardinality(b) - Cardinality(a)
        /\ Run(W \cup {n + 1}, L) = (Cardinality(a) + 1) - 0
        /\ Run(L, W \cup {n + 1}) = 0 - (Cardinality(a) + 1)
    BY <1>4, <1>5, Zenon DEF Run
  <1> HIDE DEF a, b
  <1> QED
    BY <1>2, <1>3, <1>6

\* The games, wins and losses are among the first n matches.
LEMMA GamesUpTo ==
    ASSUME NEW s, NEW p, NEW n \in Nat
    PROVE  /\ GamesIn(s, p, n) \in SUBSET (1..n)
           /\ WonIn(s, p, n) \in SUBSET (1..n)
           /\ LostIn(s, p, n) \in SUBSET (1..n)
  BY DEF GamesIn, WonIn, LostIn

\* What the next match adds to them.
LEMMA GamesGrow ==
    ASSUME NEW s, NEW p, NEW n \in Nat
    PROVE  LET m == s[n + 1]
           IN  /\ GamesIn(s, p, n + 1) = IF Plays(p, m) THEN GamesIn(s, p, n) \cup {n + 1}
                                         ELSE GamesIn(s, p, n)
               /\ WonIn(s, p, n + 1) = IF Plays(p, m) /\ Outcome(p, m) = 2
                                       THEN WonIn(s, p, n) \cup {n + 1} ELSE WonIn(s, p, n)
               /\ LostIn(s, p, n + 1) = IF Plays(p, m) /\ Outcome(p, m) = 0
                                        THEN LostIn(s, p, n) \cup {n + 1} ELSE LostIn(s, p, n)
  <1>1. 1..(n + 1) = 1..n \cup {n + 1}
    OBVIOUS
  <1>2. GamesIn(s, p, n + 1) = IF Plays(p, s[n + 1]) THEN GamesIn(s, p, n) \cup {n + 1}
                               ELSE GamesIn(s, p, n)
    BY <1>1, Zenon DEF GamesIn
  <1> QED
    BY <1>2 DEF WonIn, LostIn

\* A record stays what it is while the player does not play.
LEMMA RecordSkip ==
    ASSUME NEW s, NEW p, NEW n \in Nat, NEW r,
           RecordIn(s, r, p, n), ~Plays(p, s[n + 1])
    PROVE  RecordIn(s, r, p, n + 1)
  <1>1. /\ GamesIn(s, p, n + 1) = GamesIn(s, p, n)
        /\ WonIn(s, p, n + 1) = WonIn(s, p, n)
        /\ LostIn(s, p, n + 1) = LostIn(s, p, n)
    BY GamesGrow, Zenon
  <1> QED
    BY <1>1, Zenon DEF RecordIn

\* A player who has not played has the empty record.
LEMMA RecordNew ==
    ASSUME NEW s, NEW p, NEW n \in Nat, GamesIn(s, p, n) = {}
    PROVE  RecordIn(s, NewMeta, p, n)
  <1>1. WonIn(s, p, n) = {} /\ LostIn(s, p, n) = {}
    BY DEF WonIn, LostIn
  <1>2. After({}, {}) = {}
    BY DEF After
  <1>3. Cardinality({}) = 0
    BY FS_EmptySet
  <1> QED
    BY <1>1, <1>2, <1>3 DEF RecordIn, NewMeta

\* applyMeta yields a record of the same type.
LEMMA MetaType ==
    ASSUME NEW r \in Metas, NEW p, NEW m \in Matches
    PROVE  applyMeta(r, p, m) \in Metas
  <1>1. Outcome(p, m) \in {0, 1, 2}
    BY OutcomeType
  <1>2. m.at \in Nat
    BY DEF Matches
  <1> QED
    BY <1>1, <1>2 DEF applyMeta, Metas

\* applyMeta turns the record of the first n matches into that of one more.
LEMMA RecordStep ==
    ASSUME NEW s, NEW p, NEW n \in Nat, NEW r \in Metas,
           RecordIn(s, r, p, n), Plays(p, s[n + 1])
    PROVE  RecordIn(s, applyMeta(r, p, s[n + 1]), p, n + 1)
  <1> DEFINE m == s[n + 1]
             G == GamesIn(s, p, n)
             W == WonIn(s, p, n)
             L == LostIn(s, p, n)
             t == applyMeta(r, p, m)
             G1 == GamesIn(s, p, n + 1)
             W1 == WonIn(s, p, n + 1)
             L1 == LostIn(s, p, n + 1)
  <1>1. G \in SUBSET (1..n) /\ W \in SUBSET (1..n) /\ L \in SUBSET (1..n)
    BY GamesUpTo
  <1>2. /\ G1 = G \cup {n + 1}
        /\ W1 = IF Outcome(p, m) = 2 THEN W \cup {n + 1} ELSE W
        /\ L1 = IF Outcome(p, m) = 0 THEN L \cup {n + 1} ELSE L
    BY GamesGrow, Zenon
  <1>3. /\ Cardinality(G) \in Nat /\ Cardinality(W) \in Nat /\ Cardinality(L) \in Nat
        /\ Cardinality(G \cup {n + 1}) = Cardinality(G) + 1
        /\ Cardinality(W \cup {n + 1}) = Cardinality(W) + 1
        /\ Cardinality(L \cup {n + 1}) = Cardinality(L) + 1
    BY <1>1, UpToFinite, UpToAdd
  <1>4. /\ r.games = Cardinality(G) /\ r.wins = Cardinality(W)
        /\ r.losses = Cardinality(L) /\ r.streak = Run(W, L)
    BY Zenon DEF RecordIn, Run
  <1>5. Outcome(p, m) \in {0, 1, 2}
    BY OutcomeType
  <1>6. /\ Run(W, L) \in Int /\ Run(L, W) = 0 - Run(W, L)
        /\ Run(W \cup {n + 1}, L) = IF Run(W, L) >= 0 THEN Run(W, L) + 1 ELSE 1
    BY <1>1, RunStep
  <1>7. Run(W, L \cup {n + 1}) = IF Run(W, L) <= 0 THEN Run(W, L) - 1 ELSE 0 - 1
    BY <1>1, RunStep
  <1>8. /\ t.games = r.games + 1
        /\ t.wins = r.wins + (IF Outcome(p, m) = 2 THEN 1 ELSE 0)
        /\ t.losses = r.losses + (IF Outcome(p, m) = 0 THEN 1 ELSE 0)
        /\ t.streak = CASE Outcome(p, m) = 2 -> IF r.streak >= 0 THEN r.streak + 1 ELSE 1
                        [] Outcome(p, m) = 0 -> IF r.streak <= 0 THEN r.streak - 1 ELSE -1
                        [] OTHER -> r.streak
        /\ t.last = m.at
    BY DEF applyMeta
  <1>9. s[n + 1].at = m.at /\ \A l \in G \cup {n + 1} : l <= n + 1
    BY <1>1
  <1> HIDE DEF m, G, W, L, t, G1, W1, L1
  <1>10. Run(W1, L1) = t.streak
    <2>1. CASE Outcome(p, m) = 2
      BY <2>1, <1>2, <1>4, <1>6, <1>8
    <2>2. CASE Outcome(p, m) = 0
      BY <2>2, <1>2, <1>4, <1>6, <1>7, <1>8
    <2>3. CASE Outcome(p, m) = 1
      BY <2>3, <1>2, <1>4, <1>8
    <2> QED
      BY <2>1, <2>2, <2>3, <1>5
  <1>11. /\ t.games = Cardinality(G1)
         /\ t.wins = Cardinality(W1)
         /\ t.losses = Cardinality(L1)
    BY <1>2, <1>3, <1>4, <1>5, <1>8
  <1>12. \E k \in G1 : (\A l \in G1 : l <= k) /\ t.last = s[k].at
    BY <1>2, <1>8, <1>9
  <1> QED
    BY <1>10, <1>11, <1>12, Zenon DEF RecordIn, Run, m, t, G1, W1, L1

-----------------------------------------------------------------------------
(* The inductive invariant. *)

Grouped == {"period", "collect", "update", "meta", "done"}
InPeriod == {"collect", "update", "meta"}

\* The matches before the n-th of the periods P.
Earlier(P, n) == IF n = 1 THEN 0 ELSE P[n - 1].to

\* RatingBefore and MetIn, of given ratings and matches.
BeforeIn(R, n, p) == IF n > 1 /\ p \in DOMAIN R[n - 1] THEN R[n - 1][p] ELSE DefaultRating
GamesFrom(s, p, a, b) == {k \in a..b : Plays(p, s[k])}
MetFrom(s, R, n, p, a, b) ==
    [k \in GamesFrom(s, p, a, b) |->
        <<BeforeIn(R, n, Opponent(p, s[k])), Outcome(p, s[k])>>]

\* The matches are valid and in the order of play.
OrderInv ==
    /\ \A k \in DOMAIN sorted : Valid(sorted[k])
    /\ \A k, l \in DOMAIN sorted : k <= l => sorted[k].at <= sorted[l].at

\* Where each loop stands.
LoopInv ==
    /\ pc \in {"sort", "failed"} => sorted = <<>> /\ i = 1
    /\ pc \in {"elo", "group"} => i <= Len(sorted) + 1
    /\ pc \in {"sort", "failed", "elo"} => periods = <<>>
    /\ pc \notin Grouped => q = 1 /\ players = <<>> /\ opps = <<>>
    /\ DOMAIN rated = 1..(q - 1)
    /\ pc \in Grouped => q <= Len(periods) + 1
    /\ pc \in InPeriod => q <= Len(periods)
    /\ pc = "done" => q = Len(periods) + 1
    /\ pc # "update" => todo = {}
    /\ pc \in {"collect", "meta"} => periods[q].from <= i /\ i <= periods[q].to + 1

\* P is the n-th window of d ticks and holds the matches of s that lie in it.
Window(s, d, P, n) ==
    /\ s # <<>>
    /\ P.start = StartOfDay(s[1].at) + (n - 1) * d
    /\ P.start <= s[Len(s)].at
    /\ 1 <= P.from /\ P.from <= P.to + 1 /\ P.to <= Len(s)
    /\ \A k \in P.from .. P.to : P.start <= s[k].at /\ s[k].at < P.start + d

GroupInv ==
    /\ \A n \in DOMAIN periods : /\ Window(sorted, dur, periods[n], n)
                                 /\ periods[n].from = Earlier(periods, n) + 1
    /\ pc = "group" => /\ sorted # <<>>
                       /\ Window(sorted, dur, cur, Len(periods) + 1)
                       /\ cur.from = Earlier(periods, Len(periods) + 1) + 1
                       /\ cur.to = i - 1
                       /\ i <= Len(sorted) => cur.start <= sorted[i].at
    /\ pc \in Grouped => Earlier(periods, Len(periods) + 1) = Len(sorted)

EloInv ==
    /\ DOMAIN elo = {p \in Players : GamesIn(sorted, p, Counted) # {}}
    /\ \A p \in DOMAIN elo : RecordIn(sorted, elo[p].meta, p, Counted)

\* The matches whose players Glicko-2 has met, and those on record.
Noted == CASE pc = "collect" -> i - 1
           [] pc \in {"update", "meta"} -> periods[q].to
           [] OTHER -> Earlier(periods, q)
Recorded == IF pc = "meta" THEN i - 1 ELSE Earlier(periods, q)

MetaInv ==
    /\ DOMAIN players = {p \in Players : GamesIn(sorted, p, Noted) # {}}
    /\ \A p \in DOMAIN players : RecordIn(sorted, players[p].meta, p, Recorded)

\* The n-th of the ratings R is what the n-th of the periods P of s makes of the
\* one before it.
RatedRight(s, P, R, n) ==
    /\ DOMAIN R[n] = {p \in Players : GamesIn(s, p, P[n].to) # {}}
    /\ \A p \in DOMAIN R[n] :
          R[n][p] = IF GamesFrom(s, p, P[n].from, P[n].to) = {}
                    THEN Inflated(BeforeIn(R, n, p))
                    ELSE GlickoFormula(BeforeIn(R, n, p),
                                       MetFrom(s, R, n, p, P[n].from, P[n].to))

PastInv == \A n \in DOMAIN rated : RatedRight(sorted, periods, rated, n)

\* Outside the updates everyone has the rating from before the period.
IdleInv ==
    pc \in {"period", "collect", "done"} =>
        \A p \in DOMAIN players : players[p].rating = BeforeIn(rated, q, p)

\* The participants have met the players of the matches collected so far.
Collected == IF pc = "collect" THEN i - 1 ELSE periods[q].to
MetInv ==
    pc \in InPeriod =>
        /\ DOMAIN opps = {p \in Players : GamesFrom(sorted, p, periods[q].from, Collected) # {}}
        /\ \A p \in DOMAIN opps :
              opps[p] = MetFrom(sorted, rated, q, p, periods[q].from, Collected)

\* During the updates, and after them.
UpdateInv ==
    pc = "update" =>
        /\ DOMAIN pre = DOMAIN players
        /\ \A p \in DOMAIN pre : pre[p].rating = BeforeIn(rated, q, p)
        /\ \A p \in DOMAIN players :
              players[p].rating = IF p \in DOMAIN opps \ todo
                                  THEN GlickoFormula(BeforeIn(rated, q, p), opps[p])
                                  ELSE BeforeIn(rated, q, p)
AfterInv ==
    pc = "meta" =>
        \A p \in DOMAIN players :
            players[p].rating = IF p \in DOMAIN opps
                                THEN GlickoFormula(BeforeIn(rated, q, p), opps[p])
                                ELSE Inflated(BeforeIn(rated, q, p))

RateInv == PastInv /\ IdleInv /\ MetInv /\ UpdateInv /\ AfterInv

FiniteInv == IsFiniteSet(DOMAIN opps)

IInv == TypeOK /\ OrderInv /\ LoopInv /\ GroupInv /\ EloInv /\ MetaInv /\ RateInv /\ FiniteInv

-----------------------------------------------------------------------------
(* Types. *)

\* A length that fits a time.Duration is kept.
LEMMA DurationFits ==
    ASSUME NEW x \in Nat, x <= MaxDuration
    PROVE  Duration(x) = x
  <1>1. PICK m \in Nat : m = MaxDuration + 1
    BY EngineAssumption
  <1>2. PICK y \in Nat : y = x + m /\ y < 2 * m
    BY <1>1, EngineAssumption
  <1>3. y % (2 * m) = y
    BY <1>2
  <1>4. x + MaxDuration + 1 = y /\ 2 * (MaxDuration + 1) = 2 * m
    BY <1>1, <1>2, EngineAssumption
  <1> QED
    BY <1>1, <1>2, <1>3, <1>4 DEF Duration

\* A period lasts at least a tick.
LEMMA DurType ==
    ASSUME TypeOK
    PROVE  /\ NewGlicko2(days) \in Nat \ {0} /\ dur = NewGlicko2(days) * DayLength
           /\ dur \in Nat /\ dur >= 1
  <1>1. NewGlicko2(days) \in Nat /\ NewGlicko2(days) >= 1
    BY EngineAssumption DEF TypeOK, NewGlicko2
  <1>2. DayLength \in Nat /\ DayLength >= 1
    BY EngineAssumption
  <1>3. \A a, b \in Nat : a >= 1 /\ b >= 1 => a * b \in Nat /\ a * b >= 1
    OBVIOUS
  <1>4. NewGlicko2(days) * DayLength <= MaxDuration
    <2>1. NewGlicko2(days) \in PeriodDays \cup {1}
      BY DEF TypeOK, NewGlicko2
    <2> QED
      BY <2>1, EngineAssumption
  <1>5. PICK x \in Nat : x = NewGlicko2(days) * DayLength /\ x >= 1
    BY <1>1, <1>2, <1>3
  <1>6. dur = x
    BY <1>4, <1>5, DurationFits DEF dur
  <1> QED
    BY <1>1, <1>5, <1>6

\* Midnight is not after the match.
LEMMA StartType ==
    ASSUME NEW t \in Nat
    PROVE  StartOfDay(t) \in Nat /\ StartOfDay(t) <= t /\ t < StartOfDay(t) + DayLength
  <1>1. t % DayLength \in 0..(DayLength - 1)
    BY EngineAssumption
  <1>2. t % DayLength <= t
    BY EngineAssumption
  <1> QED
    BY <1>1, <1>2, EngineAssumption DEF StartOfDay

\* The entry of a player has a record, a new one's included.
LEMMA GetType ==
    ASSUME NEW pr, NEW p, \A r \in DOMAIN pr : pr[r].meta \in Metas
    PROVE  get(pr, p).meta \in Metas
  <1>1. NewPlayer.meta \in Metas
    BY DEF NewPlayer, Entry, NewMeta, Metas
  <1> QED
    BY <1>1 DEF get

\* The fields of an entry.
LEMMA EntryFields ==
    ASSUME NEW r, NEW m
    PROVE  Entry(r, m).rating = r /\ Entry(r, m).meta = m
  BY DEF Entry

\* The match at which a loop stands.
LEMMA MatchType ==
    ASSUME TypeOK, NEW k \in 1..Len(sorted)
    PROVE  /\ sorted[k] \in Matches
           /\ sorted[k].p1 \in Players /\ sorted[k].p2 \in Players /\ sorted[k].at \in Nat
  <1>1. sorted \in Seq(Matches)
    BY DEF TypeOK
  <1>2. sorted[k] \in Matches
    BY <1>1
  <1> QED
    BY <1>2 DEF Matches

\* The period at which Glicko-2 stands.
LEMMA PeriodType ==
    ASSUME TypeOK, NEW n \in 1..Len(periods)
    PROVE  /\ periods[n].start \in Nat /\ periods[n].from \in Nat /\ periods[n].to \in Nat
  <1>1. periods \in Seq(Periods)
    BY DEF TypeOK
  <1>2. periods[n] \in Periods
    BY <1>1
  <1> QED
    BY <1>2 DEF Periods

\* The n-th period is a slice of the matches, right behind the one before it.
LEMMA PeriodSlice ==
    ASSUME TypeOK, GroupInv, NEW n \in 1..Len(periods)
    PROVE  /\ periods[n].start \in Nat /\ periods[n].from \in Nat /\ periods[n].to \in Nat
           /\ 1 <= periods[n].from /\ periods[n].from <= periods[n].to + 1
           /\ periods[n].to <= Len(sorted)
           /\ Earlier(periods, n) \in Nat /\ periods[n].from = Earlier(periods, n) + 1
  <1>1. periods[n].start \in Nat /\ periods[n].from \in Nat /\ periods[n].to \in Nat
    BY PeriodType
  <1>2. n \in DOMAIN periods
    BY DEF TypeOK
  <1>3. Earlier(periods, n) \in Nat
    <2>1. CASE n = 1
      BY <2>1 DEF Earlier
    <2>2. CASE n # 1
      <3>1. n - 1 \in 1..Len(periods)
        BY <2>2 DEF TypeOK
      <3> QED
        BY <2>2, <3>1, PeriodType DEF Earlier
    <2> QED
      BY <2>1, <2>2
  <1> QED
    BY <1>1, <1>2, <1>3 DEF GroupInv, Window

TypesOfPlayers == /\ DOMAIN players \subseteq Players
                  /\ \A p \in DOMAIN players : players[p].meta \in Metas
TypesOfElo == /\ DOMAIN elo \subseteq Players
              /\ \A p \in DOMAIN elo : elo[p].meta \in Metas
TypesOfRest ==
    /\ given \in Inputs /\ days \in PeriodDays
    /\ pc \in {"sort", "failed", "elo", "group", "period", "collect", "update", "meta", "done"}
    /\ sorted \in Seq(Matches)
    /\ {i, q} \subseteq Nat \ {0}
    /\ periods \in Seq(Periods) /\ cur \in Periods
    /\ todo \subseteq DOMAIN opps /\ DOMAIN opps \subseteq DOMAIN players

\* TypeOK in three parts.
LEMMA TypeParts == TypeOK <=> TypesOfRest /\ TypesOfElo /\ TypesOfPlayers
  BY DEF TypeOK, TypesOfRest, TypesOfElo, TypesOfPlayers

\* Every step of the sorting and of the ELO loop keeps the types.
LEMMA TypeStepElo ==
    ASSUME TypeOK, Refuse \/ validateAndSort \/ EloMatch \/ EloDone
    PROVE  TypesOfRest' /\ TypesOfElo' /\ TypesOfPlayers'
  <1>1. CASE Refuse
    BY <1>1 DEF Refuse, TypeOK, TypesOfRest, TypesOfElo, TypesOfPlayers, glickoVars, groupVars,
                periodVars
  <1>2. CASE validateAndSort
    <2>1. given \in Seq(Matches)
      BY EngineAssumption DEF TypeOK
    <2>2. PICK order \in [DOMAIN given -> DOMAIN given] :
              sorted' = [k \in DOMAIN given |-> given[order[k]]]
      BY <1>2 DEF validateAndSort
    <2>3. sorted' \in Seq(Matches)
      BY <2>1, <2>2
    <2> QED
      BY <1>2, <2>3 DEF validateAndSort, TypeOK, TypesOfRest, TypesOfElo, TypesOfPlayers,
                        glickoVars, groupVars, periodVars
  <1>3. CASE EloMatch
    <2> DEFINE m == sorted[i]
    <2>1. i \in 1..Len(sorted)
      BY <1>3 DEF EloMatch, TypeOK
    <2>2. m \in Matches /\ m.p1 \in Players /\ m.p2 \in Players
      BY <2>1, MatchType
    <2>3. \A p : get(elo, p).meta \in Metas
      BY GetType DEF TypeOK
    <2>4. \A p : applyMeta(get(elo, p).meta, p, m) \in Metas
      BY <2>2, <2>3, MetaType
    <2>5. /\ DOMAIN elo' = DOMAIN elo \cup {m.p1, m.p2}
          /\ \A p \in DOMAIN elo' :
                elo'[p].meta = IF Plays(p, m) THEN applyMeta(get(elo, p).meta, p, m)
                               ELSE elo[p].meta
      BY <1>3, EntryFields DEF EloMatch
    <2>6. \A p \in DOMAIN elo' : ~Plays(p, m) => p \in DOMAIN elo
      BY <2>5 DEF Plays
    <2>7. TypesOfElo'
      BY <2>2, <2>4, <2>5, <2>6 DEF TypesOfElo, TypeOK
    <2> QED
      BY <1>3, <2>7 DEF EloMatch, TypeOK, TypesOfRest, TypesOfPlayers, glickoVars, groupVars,
                        periodVars
  <1>4. CASE EloDone
    <2>1. cur' \in Periods
      <3>1. CASE sorted = <<>>
        BY <1>4, <3>1 DEF EloDone, TypeOK
      <3>2. CASE sorted # <<>>
        <4>1. 1 \in 1..Len(sorted)
          BY <3>2 DEF TypeOK
        <4>2. StartOfDay(sorted[1].at) \in Nat
          BY <4>1, MatchType, StartType
        <4> QED
          BY <1>4, <3>2, <4>2 DEF EloDone, Periods
      <3> QED
        BY <3>1, <3>2
    <2>2. pc' \in {"group", "period"}
      BY <1>4 DEF EloDone
    <2> QED
      BY <1>4, <2>1, <2>2 DEF EloDone, TypeOK, TypesOfRest, TypesOfElo, TypesOfPlayers,
                              glickoVars, periodVars
  <1> QED
    BY <1>1, <1>2, <1>3, <1>4

\* So does every step of groupByPeriod.
LEMMA TypeStepGroup ==
    ASSUME TypeOK, Advance \/ Place \/ CloseLast
    PROVE  TypesOfRest' /\ TypesOfElo' /\ TypesOfPlayers'
  <1>1. TypesOfElo' /\ TypesOfPlayers'
    BY DEF Advance, Place, CloseLast, TypesOfElo, TypesOfPlayers, TypeOK, glickoVars
  <1>2. CASE Advance
    <2>1. cur' \in Periods
      BY <1>2, DurType DEF Advance, TypeOK, Periods
    <2>2. periods' \in Seq(Periods)
      BY <1>2 DEF Advance, TypeOK
    <2> QED
      BY <1>1, <1>2, <2>1, <2>2 DEF Advance, TypeOK, TypesOfRest, glickoVars, periodVars
  <1>3. CASE Place
    <2>1. cur' \in Periods
      BY <1>3 DEF Place, TypeOK, Periods
    <2> QED
      BY <1>1, <1>3, <2>1 DEF Place, TypeOK, TypesOfRest, glickoVars, periodVars
  <1>4. CASE CloseLast
    BY <1>1, <1>4 DEF CloseLast, TypeOK, TypesOfRest, glickoVars, periodVars
  <1> QED
    BY <1>2, <1>3, <1>4

\* So does every step of the loop over the periods.
LEMMA TypeStepPeriod ==
    ASSUME TypeOK, LoopInv, GroupInv,
           \/ BeginPeriod \/ Collect \/ Snapshot
           \/ \E p \in Players : Update(p)
           \/ Inflate \/ MetaUpdate \/ EndPeriod \/ Return
    PROVE  TypesOfRest' /\ TypesOfElo' /\ TypesOfPlayers'
  <1>1. TypesOfElo'
    BY DEF BeginPeriod, Collect, Snapshot, Update, Inflate, MetaUpdate, EndPeriod, Return,
           TypesOfElo, TypeOK
  <1>2. CASE BeginPeriod
    <2>1. q \in 1..Len(periods)
      BY <1>2 DEF BeginPeriod, TypeOK
    <2>2. periods[q].from \in Nat /\ 1 <= periods[q].from
      BY <2>1, PeriodSlice
    <2>3. todo = {}
      BY <1>2 DEF BeginPeriod, LoopInv
    <2> QED
      BY <1>1, <1>2, <2>2, <2>3 DEF BeginPeriod, TypeOK, TypesOfRest, TypesOfPlayers, groupVars
  <1>3. CASE Collect
    <2> DEFINE m == sorted[i]
    <2>1. i \in 1..Len(sorted)
      <3>1. q \in 1..Len(periods)
        BY <1>3 DEF Collect, LoopInv, InPeriod, TypeOK
      <3>2. periods[q].to \in Nat /\ periods[q].to <= Len(sorted)
        BY <3>1, PeriodSlice
      <3> QED
        BY <1>3, <3>2 DEF Collect, TypeOK
    <2>2. m.p1 \in Players /\ m.p2 \in Players
      BY <2>1, MatchType
    <2>3. \A p : get(players, p).meta \in Metas
      BY GetType DEF TypeOK
    <2>4. players' = [p \in DOMAIN players \cup {m.p1, m.p2} |-> get(players, p)]
      BY <1>3 DEF Collect
    <2>5. TypesOfPlayers'
      BY <2>2, <2>3, <2>4 DEF TypesOfPlayers, TypeOK
    <2>6. DOMAIN opps' = DOMAIN opps \cup {m.p1, m.p2}
      BY <1>3 DEF Collect
    <2> QED
      BY <1>1, <1>3, <2>4, <2>5, <2>6 DEF Collect, TypeOK, TypesOfRest, groupVars
  <1>4. CASE Snapshot
    BY <1>1, <1>4 DEF Snapshot, TypeOK, TypesOfRest, TypesOfPlayers, groupVars
  <1>5. ASSUME NEW p \in Players, Update(p)
        PROVE  TypesOfRest' /\ TypesOfElo' /\ TypesOfPlayers'
    <2>1. /\ DOMAIN players' = DOMAIN players
          /\ \A r \in DOMAIN players : players'[r].meta = players[r].meta
      BY <1>5, EntryFields DEF Update
    <2>2. TypesOfPlayers'
      BY <2>1 DEF TypesOfPlayers, TypeOK
    <2> QED
      BY <1>1, <1>5, <2>1, <2>2 DEF Update, TypeOK, TypesOfRest, groupVars
  <1>6. CASE Inflate
    <2>1. /\ DOMAIN players' = DOMAIN players
          /\ \A r \in DOMAIN players : players'[r].meta = players[r].meta
      BY <1>6, EntryFields DEF Inflate
    <2>2. TypesOfPlayers'
      BY <2>1 DEF TypesOfPlayers, TypeOK
    <2>3. q \in 1..Len(periods)
      BY <1>6 DEF Inflate, LoopInv, InPeriod, TypeOK
    <2>4. periods[q].from \in Nat /\ 1 <= periods[q].from
      BY <2>3, PeriodSlice
    <2> QED
      BY <1>1, <1>6, <2>1, <2>2, <2>4 DEF Inflate, TypeOK, TypesOfRest, groupVars, periodVars
  <1>7. CASE MetaUpdate
    <2> DEFINE m == sorted[i]
    <2>1. i \in 1..Len(sorted)
      <3>1. q \in 1..Len(periods)
        BY <1>7 DEF MetaUpdate, LoopInv, InPeriod, TypeOK
      <3>2. periods[q].to \in Nat /\ periods[q].to <= Len(sorted)
        BY <3>1, PeriodSlice
      <3> QED
        BY <1>7, <3>2 DEF MetaUpdate, TypeOK
    <2>2. m \in Matches
      BY <2>1, MatchType
    <2>3. \A p \in DOMAIN players : applyMeta(players[p].meta, p, m) \in Metas
      BY <2>2, MetaType DEF TypeOK
    <2>4. /\ DOMAIN players' = DOMAIN players
          /\ \A p \in DOMAIN players :
                players'[p].meta = IF Plays(p, m) THEN applyMeta(players[p].meta, p, m)
                                   ELSE players[p].meta
      BY <1>7, EntryFields DEF MetaUpdate
    <2>5. TypesOfPlayers'
      BY <2>3, <2>4 DEF TypesOfPlayers, TypeOK
    <2> QED
      BY <1>1, <1>7, <2>4, <2>5 DEF MetaUpdate, TypeOK, TypesOfRest, groupVars, periodVars
  <1>8. CASE EndPeriod
    BY <1>1, <1>8 DEF EndPeriod, TypeOK, TypesOfRest, TypesOfPlayers, groupVars, periodVars
  <1>9. CASE Return
    BY <1>1, <1>9 DEF Return, TypeOK, TypesOfRest, TypesOfPlayers, groupVars, glickoVars, periodVars
  <1> QED
    BY <1>2, <1>3, <1>4, <1>5, <1>6, <1>7, <1>8, <1>9

\* Every step keeps the types.
LEMMA TypeStep ==
    ASSUME TypeOK, LoopInv, GroupInv, [Next]_vars
    PROVE  TypeOK'
  <1>1. SUFFICES TypesOfRest' /\ TypesOfElo' /\ TypesOfPlayers'
    BY DEF TypeOK, TypesOfRest, TypesOfElo, TypesOfPlayers
  <1>2. CASE Returned \/ UNCHANGED vars
    BY <1>2 DEF Returned, TypeOK, TypesOfRest, TypesOfElo, TypesOfPlayers, vars, groupVars,
                glickoVars, periodVars
  <1> QED
    BY <1>1, <1>2, TypeStepElo, TypeStepGroup, TypeStepPeriod DEF Next

-----------------------------------------------------------------------------
(* The order of play and the control of the loops. *)

\* The matches stay in order once they are sorted.
LEMMA OrderStep ==
    ASSUME TypeOK, OrderInv, [Next]_vars
    PROVE  OrderInv'
  <1>1. CASE validateAndSort
    <2>1. given \in Seq(Matches)
      BY EngineAssumption DEF TypeOK
    <2>2. PICK order \in [DOMAIN given -> DOMAIN given] :
              StableOrder(order, given) /\ sorted' = [k \in DOMAIN given |-> given[order[k]]]
      BY <1>1 DEF validateAndSort
    <2>3. \A k \in DOMAIN given : Valid(given[k]) /\ given[k].at \in Nat
      <3>1. \A k \in DOMAIN given : given[k] \in Matches
        BY <2>1
      <3>2. \A k \in DOMAIN given : given[k].at \in Nat
        BY <3>1 DEF Matches
      <3> QED
        BY <1>1, <3>2 DEF validateAndSort
    <2>4. \A k, l \in DOMAIN given : k < l => given[order[k]].at <= given[order[l]].at
      BY <2>2, <2>3 DEF StableOrder
    <2>5. DOMAIN given \subseteq Nat
      BY <2>1
    <2>6. ASSUME NEW k \in DOMAIN given, NEW l \in DOMAIN given, k <= l
          PROVE  given[order[k]].at <= given[order[l]].at
      <3>1. CASE k = l
        BY <2>2, <2>3, <3>1
      <3>2. CASE k < l
        BY <2>4, <3>2
      <3> QED
        BY <2>5, <2>6, <3>1, <3>2
    <2>7. /\ DOMAIN sorted' = DOMAIN given
          /\ \A k \in DOMAIN given : sorted'[k] = given[order[k]] /\ order[k] \in DOMAIN given
      BY <2>2
    <2> QED
      BY <2>3, <2>6, <2>7 DEF OrderInv
  <1>2. CASE sorted' = sorted
    BY <1>2 DEF OrderInv
  <1>3. validateAndSort \/ sorted' = sorted
    BY DEF Next, Refuse, EloMatch, EloDone, Advance, Place, CloseLast, BeginPeriod, Collect,
           Snapshot, Update, Inflate, MetaUpdate, EndPeriod, Return, Returned, vars
  <1> QED
    BY <1>1, <1>2, <1>3

\* Every loop stands where it may.
LEMMA LoopStep ==
    ASSUME TypeOK, LoopInv, GroupInv, [Next]_vars
    PROVE  LoopInv'
  <1> USE DEF LoopInv, Grouped, InPeriod
  <1>1. CASE Refuse
    BY <1>1 DEF Refuse, groupVars, glickoVars, periodVars
  <1>2. CASE validateAndSort
    BY <1>2, TypeStep DEF validateAndSort, TypeOK, groupVars, glickoVars, periodVars
  <1>3. CASE EloMatch
    BY <1>3 DEF EloMatch, TypeOK, groupVars, glickoVars, periodVars
  <1>4. CASE EloDone
    BY <1>4 DEF EloDone, TypeOK, groupVars, glickoVars, periodVars
  <1>5. CASE Advance
    BY <1>5 DEF Advance, TypeOK, groupVars, glickoVars, periodVars
  <1>6. CASE Place
    BY <1>6 DEF Place, TypeOK, groupVars, glickoVars, periodVars
  <1>7. CASE CloseLast
    BY <1>7 DEF CloseLast, TypeOK, groupVars, glickoVars, periodVars
  <1>8. CASE BeginPeriod
    <2>1. q \in 1..Len(periods)
      BY <1>8 DEF BeginPeriod, TypeOK
    <2>2. /\ periods[q].from \in Nat /\ periods[q].to \in Nat
          /\ periods[q].from <= periods[q].to + 1
      BY <2>1, PeriodSlice
    <2> QED
      BY <1>8, <2>1, <2>2 DEF BeginPeriod, TypeOK, groupVars, glickoVars, periodVars
  <1>9. CASE Collect
    <2>1. q \in 1..Len(periods)
      BY <1>9 DEF Collect, TypeOK
    <2>2. periods[q].from \in Nat /\ periods[q].to \in Nat
      BY <2>1, PeriodSlice
    <2> QED
      BY <1>9, <2>1, <2>2 DEF Collect, TypeOK, groupVars, glickoVars, periodVars
  <1>10. CASE Snapshot
    BY <1>10 DEF Snapshot, TypeOK, groupVars, glickoVars, periodVars
  <1>11. ASSUME NEW p \in Players, Update(p)
         PROVE  LoopInv'
    BY <1>11 DEF Update, TypeOK, groupVars, glickoVars, periodVars
  <1>12. CASE Inflate
    <2>1. q \in 1..Len(periods)
      BY <1>12 DEF Inflate, TypeOK
    <2>2. /\ periods[q].from \in Nat /\ periods[q].to \in Nat
          /\ periods[q].from <= periods[q].to + 1
      BY <2>1, PeriodSlice
    <2> QED
      BY <1>12, <2>1, <2>2 DEF Inflate, TypeOK, groupVars, glickoVars, periodVars
  <1>13. CASE MetaUpdate
    <2>1. q \in 1..Len(periods)
      BY <1>13 DEF MetaUpdate, TypeOK
    <2>2. periods[q].from \in Nat /\ periods[q].to \in Nat
      BY <2>1, PeriodSlice
    <2> QED
      BY <1>13, <2>1, <2>2 DEF MetaUpdate, TypeOK, groupVars, glickoVars, periodVars
  <1>14. CASE EndPeriod
    BY <1>14 DEF EndPeriod, TypeOK, groupVars, glickoVars, periodVars
  <1>15. CASE Return
    BY <1>15 DEF Return, TypeOK, groupVars, glickoVars, periodVars
  <1>16. CASE Returned \/ UNCHANGED vars
    BY <1>16 DEF Returned, vars, groupVars, glickoVars, periodVars
  <1> QED
    BY <1>1, <1>2, <1>3, <1>4, <1>5, <1>6, <1>7, <1>8, <1>9, <1>10, <1>11, <1>12, <1>13, <1>14,
       <1>15, <1>16 DEF Next

\* A period has finitely many participants.
LEMMA FiniteStep ==
    ASSUME FiniteInv, [Next]_vars
    PROVE  FiniteInv'
  <1>1. CASE BeginPeriod
    BY <1>1, FS_EmptySet DEF BeginPeriod, FiniteInv
  <1>2. CASE Collect
    <2>1. DOMAIN opps' = DOMAIN opps \cup {sorted[i].p1, sorted[i].p2}
      BY <1>2 DEF Collect
    <2>2. IsFiniteSet({sorted[i].p1, sorted[i].p2})
      <3>1. IsFiniteSet({sorted[i].p1}) /\ IsFiniteSet({sorted[i].p2})
        BY FS_Singleton
      <3>2. IsFiniteSet({sorted[i].p1} \cup {sorted[i].p2})
        BY <3>1, FS_Union
      <3>3. {sorted[i].p1, sorted[i].p2} = {sorted[i].p1} \cup {sorted[i].p2}
        OBVIOUS
      <3> QED
        BY <3>2, <3>3
    <2> QED
      BY <2>1, <2>2, FS_Union DEF FiniteInv
  <1>3. BeginPeriod \/ Collect \/ opps' = opps
    BY DEF Next, Refuse, validateAndSort, EloMatch, EloDone, Advance, Place, CloseLast, Snapshot,
           Update, Inflate, MetaUpdate, EndPeriod, Return, Returned, vars, glickoVars, periodVars
  <1> QED
    BY <1>1, <1>2, <1>3 DEF FiniteInv

-----------------------------------------------------------------------------
(* The rating periods. *)

\* The first period begins at midnight before the first match.
LEMMA FirstWindow ==
    ASSUME TypeOK, OrderInv, sorted # <<>>
    PROVE  LET P == [start |-> StartOfDay(sorted[1].at), from |-> 1, to |-> 0]
           IN  Window(sorted, dur, P, 1) /\ P.start <= sorted[1].at
  <1>1. Len(sorted) \in Nat /\ Len(sorted) >= 1 /\ DOMAIN sorted = 1..Len(sorted)
    BY DEF TypeOK
  <1>2. sorted[1].at \in Nat /\ sorted[Len(sorted)].at \in Nat
    BY <1>1, MatchType
  <1>3. StartOfDay(sorted[1].at) \in Nat /\ StartOfDay(sorted[1].at) <= sorted[1].at
    BY <1>2, StartType
  <1>4. sorted[1].at <= sorted[Len(sorted)].at
    BY <1>1 DEF OrderInv
  <1>5. dur \in Nat
    BY DurType
  <1> QED
    BY <1>1, <1>2, <1>3, <1>4, <1>5 DEF Window

\* The window after the n-th begins where the n-th ends.
LEMMA NextStart ==
    ASSUME NEW a \in Nat, NEW n \in Nat, NEW d \in Nat
    PROVE  (a + (n - 1) * d) + d = a + ((n + 1) - 1) * d
  OBVIOUS

\* What Append does to the windows.
LEMMA AppendPeriod ==
    ASSUME TypeOK, NEW P
    PROVE  LET Q == Append(periods, P)
           IN  /\ DOMAIN Q = 1..(Len(periods) + 1) /\ Len(Q) = Len(periods) + 1
               /\ \A n \in DOMAIN periods : Q[n] = periods[n]
               /\ Q[Len(periods) + 1] = P
               /\ \A n \in 1..(Len(periods) + 1) : Earlier(Q, n) = Earlier(periods, n)
               /\ Earlier(Q, Len(periods) + 2) = P.to
  <1>1. periods \in Seq(Periods) /\ Len(periods) \in Nat /\ DOMAIN periods = 1..Len(periods)
    BY DEF TypeOK
  <1> DEFINE Q == Append(periods, P)
  <1>2. /\ DOMAIN Q = 1..(Len(periods) + 1) /\ Len(Q) = Len(periods) + 1
        /\ \A n \in DOMAIN periods : Q[n] = periods[n]
        /\ Q[Len(periods) + 1] = P
    <2>1. periods \in Seq(Periods \cup {P}) /\ P \in Periods \cup {P}
      BY <1>1
    <2> QED
      BY <1>1, <2>1
  <1> HIDE DEF Q
  <1>3. ASSUME NEW n \in 1..(Len(periods) + 1)
        PROVE  Earlier(Q, n) = Earlier(periods, n)
    <2>1. CASE n = 1
      BY <2>1 DEF Earlier
    <2>2. CASE n # 1
      <3>1. n - 1 \in DOMAIN periods
        BY <1>1, <2>2
      <3> QED
        BY <1>2, <2>2, <3>1 DEF Earlier
    <2> QED
      BY <2>1, <2>2
  <1>4. Earlier(Q, Len(periods) + 2) = P.to
    BY <1>1, <1>2 DEF Earlier
  <1> QED
    BY <1>2, <1>3, <1>4 DEF Q

\* Closing a period that is a window keeps the list one of windows.
LEMMA ClosePeriod ==
    ASSUME TypeOK, GroupInv, pc = "group", periods' = Append(periods, cur),
           sorted' = sorted, days' = days
    PROVE  /\ \A n \in DOMAIN periods' : /\ Window(sorted', dur', periods'[n], n)
                                         /\ periods'[n].from = Earlier(periods', n) + 1
           /\ Len(periods') = Len(periods) + 1
           /\ Earlier(periods', Len(periods) + 2) = cur.to
  <1>1. dur' = dur
    BY DEF dur
  <1>2. /\ DOMAIN periods' = 1..(Len(periods) + 1) /\ Len(periods') = Len(periods) + 1
        /\ \A n \in DOMAIN periods : periods'[n] = periods[n]
        /\ periods'[Len(periods) + 1] = cur
        /\ \A n \in 1..(Len(periods) + 1) : Earlier(periods', n) = Earlier(periods, n)
        /\ Earlier(periods', Len(periods) + 2) = cur.to
    BY AppendPeriod
  <1>3. ASSUME NEW n \in 1..(Len(periods) + 1)
        PROVE  /\ Window(sorted, dur, periods'[n], n)
               /\ periods'[n].from = Earlier(periods', n) + 1
    <2>1. CASE n = Len(periods) + 1
      BY <1>2, <2>1, Zenon DEF GroupInv
    <2>2. CASE n \in DOMAIN periods
      BY <1>2, <1>3, <2>2, Zenon DEF GroupInv
    <2>3. n = Len(periods) + 1 \/ n \in DOMAIN periods
      BY DEF TypeOK
    <2> QED
      BY <2>1, <2>2, <2>3
  <1> QED
    BY <1>1, <1>2, <1>3

\* Every step keeps the periods windows of the calendar.
LEMMA GroupStep ==
    ASSUME TypeOK, OrderInv, LoopInv, GroupInv, [Next]_vars
    PROVE  GroupInv'
  <1>0. days' = days /\ dur' = dur
    BY DEF Next, Refuse, validateAndSort, EloMatch, EloDone, Advance, Place, CloseLast,
           BeginPeriod, Collect, Snapshot, Update, Inflate, MetaUpdate, EndPeriod, Return,
           Returned, vars, dur
  <1>1. CASE Refuse \/ validateAndSort \/ EloMatch
    <2>1. periods' = <<>> /\ pc' \in {"failed", "elo"}
      BY <1>1 DEF Refuse, validateAndSort, EloMatch, LoopInv, groupVars
    <2> QED
      BY <2>1 DEF GroupInv, Grouped
  <1>2. CASE EloDone
    <2>1. periods' = <<>> /\ periods = <<>> /\ i' = 1 /\ sorted' = sorted
      BY <1>2 DEF EloDone, LoopInv
    <2>2. Len(<<>>) = 0 /\ DOMAIN <<>> = {}
      OBVIOUS
    <2>3. CASE sorted = <<>>
      <3>1. pc' = "period"
        BY <1>2, <2>3 DEF EloDone
      <3>2. Earlier(periods', Len(periods') + 1) = 0 /\ Len(sorted') = 0
        BY <2>1, <2>2, <2>3 DEF Earlier
      <3> QED
        BY <2>1, <2>2, <3>1, <3>2 DEF GroupInv
    <2>4. CASE sorted # <<>>
      <3>1. pc' = "group" /\ cur' = [start |-> StartOfDay(sorted[1].at), from |-> 1, to |-> 0]
        BY <1>2, <2>4 DEF EloDone
      <3>2. Window(sorted, dur, cur', 1) /\ cur'.start <= sorted[1].at
        BY <2>4, <3>1, FirstWindow
      <3>3. cur'.from = 1 /\ cur'.to = 0
        BY <3>1
      <3>4. Earlier(periods', 1) = 0
        BY DEF Earlier
      <3>5. Len(periods') + 1 = 1
        BY <2>1, <2>2
      <3> QED
        BY <1>0, <2>1, <2>2, <2>4, <3>1, <3>2, <3>3, <3>4, <3>5 DEF GroupInv, Grouped
    <2> QED
      BY <2>3, <2>4
  <1>3. CASE Advance
    <2>1. /\ periods' = Append(periods, cur) /\ sorted' = sorted /\ i' = i /\ pc' = "group"
          /\ pc = "group" /\ i \in 1..Len(sorted)
          /\ cur' = [start |-> cur.start + dur, from |-> i, to |-> i - 1]
          /\ sorted[i].at >= cur.start + dur
      BY <1>3 DEF Advance, pastPeriod, TypeOK
    <2>2. /\ \A n \in DOMAIN periods' : /\ Window(sorted', dur', periods'[n], n)
                                        /\ periods'[n].from = Earlier(periods', n) + 1
          /\ Len(periods') = Len(periods) + 1
          /\ Earlier(periods', Len(periods) + 2) = cur.to
      BY <1>0, <2>1, ClosePeriod
    <2>3. /\ cur.start = StartOfDay(sorted[1].at) + ((Len(periods) + 1) - 1) * dur
          /\ cur.to = i - 1 /\ sorted # <<>>
      BY <2>1 DEF GroupInv, Window
    <2>4. /\ Len(sorted) \in Nat /\ Len(periods) \in Nat /\ i \in Nat /\ cur.start \in Nat
          /\ DOMAIN sorted = 1..Len(sorted)
      BY <2>1 DEF TypeOK, Periods
    <2>5. dur \in Nat /\ sorted[1].at \in Nat /\ sorted[i].at \in Nat
          /\ sorted[Len(sorted)].at \in Nat
      BY <2>1, <2>4, DurType, MatchType
    <2>6. sorted[i].at <= sorted[Len(sorted)].at
      BY <2>1, <2>4 DEF OrderInv
    <2>7. cur'.start = StartOfDay(sorted[1].at) + ((Len(periods) + 2) - 1) * dur
      <3>1. StartOfDay(sorted[1].at) \in Nat
        BY <2>5, StartType
      <3>2. cur'.start = cur.start + dur
        BY <2>1
      <3> QED
        BY <2>3, <2>4, <2>5, <3>1, <3>2, NextStart
    <2>8. cur'.from = i /\ cur'.to = i - 1 /\ cur'.start = cur.start + dur
      BY <2>1
    <2>9. Window(sorted, dur, cur', Len(periods) + 2)
      <3>1. cur'.start <= sorted[Len(sorted)].at
        BY <2>1, <2>4, <2>5, <2>6, <2>8
      <3>2. 1 <= cur'.from /\ cur'.from <= cur'.to + 1 /\ cur'.to <= Len(sorted)
        BY <2>1, <2>4, <2>8
      <3>3. \A k \in cur'.from .. cur'.to : FALSE
        BY <2>4, <2>8
      <3> QED
        BY <2>3, <2>7, <3>1, <3>2, <3>3, Zenon DEF Window
    <2>10. cur'.from = Earlier(periods', Len(periods) + 2) + 1
      BY <2>2, <2>3, <2>4, <2>8
    <2>11. Len(periods') + 1 = Len(periods) + 2
      BY <2>2, <2>4
    <2> QED
      BY <1>0, <2>1, <2>2, <2>3, <2>8, <2>9, <2>10, <2>11 DEF GroupInv, Grouped
  <1>4. CASE Place
    <2>1. /\ periods' = periods /\ sorted' = sorted /\ i' = i + 1 /\ pc' = "group"
          /\ pc = "group" /\ i \in 1..Len(sorted) /\ sorted # <<>>
          /\ cur' = [cur EXCEPT !.to = i]
          /\ ~(sorted[i].at >= cur.start + dur)
      BY <1>4 DEF Place, pastPeriod, TypeOK, GroupInv
    <2>2. /\ Window(sorted, dur, cur, Len(periods) + 1)
          /\ cur.from = Earlier(periods, Len(periods) + 1) + 1
          /\ cur.to = i - 1 /\ cur.start <= sorted[i].at
      BY <2>1 DEF GroupInv
    <2>3. /\ Len(sorted) \in Nat /\ Len(periods) \in Nat /\ i \in Nat /\ cur.start \in Nat
          /\ cur.from \in Nat /\ DOMAIN sorted = 1..Len(sorted)
      BY <2>1 DEF TypeOK, Periods
    <2>4. dur \in Nat /\ sorted[i].at \in Nat
      BY <2>1, DurType, MatchType
    <2>5. cur'.from = cur.from /\ cur'.to = i /\ cur'.start = cur.start
      BY <2>1 DEF TypeOK, Periods
    <2>6. Window(sorted, dur, cur', Len(periods) + 1)
      <3>1. /\ cur.start = StartOfDay(sorted[1].at) + ((Len(periods) + 1) - 1) * dur
            /\ cur.start <= sorted[Len(sorted)].at
            /\ 1 <= cur.from /\ cur.from <= cur.to + 1
            /\ \A k \in cur.from .. cur.to :
                  cur.start <= sorted[k].at /\ sorted[k].at < cur.start + dur
        BY <2>2, Zenon DEF Window
      <3>2. 1 <= cur'.from /\ cur'.from <= cur'.to + 1 /\ cur'.to <= Len(sorted)
        BY <2>1, <2>2, <2>3, <2>5, <3>1
      <3>3. sorted[i].at < cur.start + dur
        BY <2>1, <2>3, <2>4
      <3>4. \A k \in cur'.from .. cur'.to : k = i \/ k \in cur.from .. cur.to
        BY <2>2, <2>3, <2>5
      <3>5. \A k \in cur'.from .. cur'.to :
                cur'.start <= sorted[k].at /\ sorted[k].at < cur'.start + dur
        BY <2>2, <2>5, <3>1, <3>3, <3>4, Zenon
      <3> QED
        BY <2>1, <2>5, <3>1, <3>2, <3>5, Zenon DEF Window
    <2>7. i + 1 <= Len(sorted) => cur.start <= sorted[i + 1].at
      <3>1. SUFFICES ASSUME i + 1 <= Len(sorted)
                     PROVE  cur.start <= sorted[i + 1].at
        OBVIOUS
      <3>2. sorted[i].at <= sorted[i + 1].at /\ sorted[i + 1].at \in Nat
        BY <2>1, <2>3, <3>1, MatchType DEF OrderInv
      <3> QED
        BY <2>2, <2>3, <2>4, <3>2
    <2> QED
      BY <1>0, <2>1, <2>2, <2>3, <2>5, <2>6, <2>7 DEF GroupInv, Grouped
  <1>5. CASE CloseLast
    <2>1. /\ periods' = Append(periods, cur) /\ sorted' = sorted /\ pc' = "period"
          /\ pc = "group" /\ i > Len(sorted)
      BY <1>5 DEF CloseLast
    <2>2. /\ \A n \in DOMAIN periods' : /\ Window(sorted', dur', periods'[n], n)
                                        /\ periods'[n].from = Earlier(periods', n) + 1
          /\ Len(periods') = Len(periods) + 1
          /\ Earlier(periods', Len(periods) + 2) = cur.to
      BY <1>0, <2>1, ClosePeriod
    <2>3. cur.to = Len(sorted)
      BY <2>1 DEF GroupInv, LoopInv, TypeOK
    <2>4. Len(periods') + 1 = Len(periods) + 2
      BY <2>2 DEF TypeOK
    <2> QED
      BY <2>1, <2>2, <2>3, <2>4 DEF GroupInv
  <1>6. CASE /\ sorted' = sorted /\ periods' = periods
             /\ pc \in Grouped \cup {"failed"} /\ pc' \in Grouped \cup {"failed"}
             /\ pc = "failed" <=> pc' = "failed"
    BY <1>0, <1>6 DEF GroupInv, Grouped
  <1>7. CASE UNCHANGED vars
    BY <1>0, <1>7 DEF GroupInv, vars, groupVars
  <1>8. ASSUME BeginPeriod \/ Collect \/ Snapshot \/ (\E p \in Players : Update(p)) \/ Inflate
               \/ MetaUpdate \/ EndPeriod \/ Return \/ Returned
        PROVE  /\ sorted' = sorted /\ periods' = periods
               /\ pc \in Grouped \cup {"failed"} /\ pc' \in Grouped \cup {"failed"}
               /\ pc = "failed" <=> pc' = "failed"
    BY <1>8 DEF BeginPeriod, Collect, Snapshot, Update, Inflate, MetaUpdate, EndPeriod, Return,
                Returned, vars, groupVars, Grouped
  <1> QED
    BY <1>1, <1>2, <1>3, <1>4, <1>5, <1>6, <1>7, <1>8 DEF Next

-----------------------------------------------------------------------------
(* The records. *)

\* Nobody has played before the first match, and fewer matches hold no more
\* games of a player.
LEMMA NoGames ==
    ASSUME NEW s, NEW p
    PROVE  GamesIn(s, p, 0) = {}
  BY DEF GamesIn

LEMMA FewerGames ==
    ASSUME NEW s, NEW p, NEW n \in Int, NEW m \in Int, n <= m, GamesIn(s, p, m) = {}
    PROVE  GamesIn(s, p, n) = {}
  BY DEF GamesIn

\* Those who have played after a match are those who had, and its players.
LEMMA PlayersGrow ==
    ASSUME NEW s, NEW n \in Nat, s[n + 1].p1 \in Players, s[n + 1].p2 \in Players
    PROVE  {p \in Players : GamesIn(s, p, n + 1) # {}}
           = {p \in Players : GamesIn(s, p, n) # {}} \cup {s[n + 1].p1, s[n + 1].p2}
  <1>1. \A p : GamesIn(s, p, n + 1) = IF Plays(p, s[n + 1]) THEN GamesIn(s, p, n) \cup {n + 1}
                                      ELSE GamesIn(s, p, n)
    BY GamesGrow
  <1>2. \A p : GamesIn(s, p, n + 1) # {} <=> Plays(p, s[n + 1]) \/ GamesIn(s, p, n) # {}
    BY <1>1
  <1> QED
    BY <1>2 DEF Plays

\* The ELO engine's records are those of the matches it has counted.
LEMMA EloStep ==
    ASSUME TypeOK, LoopInv, EloInv, [Next]_vars
    PROVE  EloInv'
  <1>1. CASE Refuse \/ validateAndSort
    <2>1. elo' = elo /\ i = 1 /\ i' = 1 /\ sorted = <<>> /\ pc = "sort"
          /\ pc' \in {"failed", "elo"} /\ (pc' = "failed" => sorted' = sorted)
      BY <1>1 DEF Refuse, validateAndSort, LoopInv
    <2>2. Counted = 0 /\ Counted' = 0
      BY <2>1 DEF Counted
    <2>3. DOMAIN elo = {}
      BY <2>2, NoGames DEF EloInv
    <2> QED
      BY <2>1, <2>2, <2>3, NoGames DEF EloInv
  <1>2. CASE EloMatch
    <2> DEFINE m == sorted[i]
               n == i - 1
    <2>1. /\ pc = "elo" /\ pc' = "elo" /\ sorted' = sorted /\ i \in 1..Len(sorted)
          /\ i \in Nat /\ i' = i + 1
      BY <1>2 DEF EloMatch, TypeOK
    <2>2. n \in Nat /\ n + 1 = i /\ Counted = n /\ Counted' = n + 1
      BY <2>1 DEF Counted
    <2>3. m.p1 \in Players /\ m.p2 \in Players
      BY <2>1, MatchType
    <2>4. /\ DOMAIN elo' = DOMAIN elo \cup {m.p1, m.p2}
          /\ \A p \in DOMAIN elo' :
                elo'[p].meta = IF Plays(p, m) THEN applyMeta(get(elo, p).meta, p, m)
                               ELSE elo[p].meta
      BY <1>2, EntryFields DEF EloMatch
    <2> HIDE DEF n
    <2>5. DOMAIN elo' = {p \in Players : GamesIn(sorted, p, n + 1) # {}}
      <3>1. {p \in Players : GamesIn(sorted, p, n + 1) # {}}
            = {p \in Players : GamesIn(sorted, p, n) # {}} \cup {m.p1, m.p2}
        BY <2>2, <2>3, PlayersGrow
      <3> QED
        BY <2>2, <2>4, <3>1 DEF EloInv
    <2>6. ASSUME NEW p \in DOMAIN elo'
          PROVE  RecordIn(sorted, elo'[p].meta, p, n + 1)
      <3>1. CASE ~Plays(p, m)
        <4>1. p \in DOMAIN elo /\ elo'[p].meta = elo[p].meta
          BY <2>4, <3>1 DEF Plays
        <4>2. RecordIn(sorted, elo[p].meta, p, n)
          BY <2>2, <4>1 DEF EloInv
        <4> QED
          BY <2>2, <3>1, <4>1, <4>2, RecordSkip
      <3>2. CASE Plays(p, m)
        <4>1. elo'[p].meta = applyMeta(get(elo, p).meta, p, m)
          BY <2>4, <3>2
        <4>2. get(elo, p).meta \in Metas
          BY GetType DEF TypeOK
        <4>3. RecordIn(sorted, get(elo, p).meta, p, n)
          <5>1. CASE p \in DOMAIN elo
            BY <2>2, <5>1 DEF EloInv, get
          <5>2. CASE p \notin DOMAIN elo
            <6>1. p \in Players
              BY <2>3, <3>2 DEF Plays
            <6>2. GamesIn(sorted, p, n) = {}
              BY <2>2, <5>2, <6>1 DEF EloInv
            <6>3. get(elo, p).meta = NewMeta
              BY <5>2, EntryFields DEF get, NewPlayer
            <6> QED
              BY <2>2, <6>2, <6>3, RecordNew
          <5> QED
            BY <5>1, <5>2
        <4> QED
          BY <2>2, <3>2, <4>1, <4>2, <4>3, RecordStep
      <3> QED
        BY <3>1, <3>2
    <2> QED
      BY <2>1, <2>2, <2>5, <2>6 DEF EloInv
  <1>3. CASE EloDone
    <2>1. elo' = elo /\ sorted' = sorted /\ pc = "elo" /\ pc' # "elo" /\ i = Len(sorted) + 1
      BY <1>3 DEF EloDone, LoopInv, TypeOK
    <2>2. Counted' = Counted
      BY <2>1 DEF Counted, TypeOK
    <2> QED
      BY <2>1, <2>2 DEF EloInv
  <1>4. CASE UNCHANGED vars
    BY <1>4 DEF EloInv, vars, Counted
  <1>5. ASSUME \/ Advance \/ Place \/ CloseLast \/ BeginPeriod \/ Collect \/ Snapshot
               \/ \E p \in Players : Update(p)
               \/ Inflate \/ MetaUpdate \/ EndPeriod \/ Return \/ Returned
        PROVE  EloInv'
    <2>1. elo' = elo /\ sorted' = sorted /\ pc # "elo" /\ pc' # "elo"
      BY <1>5 DEF Advance, Place, CloseLast, BeginPeriod, Collect, Snapshot, Update, Inflate,
                  MetaUpdate, EndPeriod, Return, Returned, vars
    <2> QED
      BY <2>1 DEF EloInv, Counted
  <1> QED
    BY <1>1, <1>2, <1>3, <1>4, <1>5 DEF Next

\* Before the first period Glicko-2 knows nobody.
LEMMA MetaStart ==
    ASSUME pc' \notin InPeriod, q' = 1, players' = <<>>
    PROVE  MetaInv'
  <1>1. Noted' = 0
    BY DEF Noted, Earlier, InPeriod
  <1>2. DOMAIN players' = {}
    OBVIOUS
  <1> QED
    BY <1>1, <1>2, NoGames DEF MetaInv

\* Glicko-2's records are those of the matches whose closures have run.
LEMMA MetaStep ==
    ASSUME TypeOK, LoopInv, GroupInv, MetaInv, [Next]_vars
    PROVE  MetaInv'
  <1>1. CASE Refuse \/ validateAndSort \/ EloMatch \/ EloDone \/ Advance \/ Place \/ CloseLast
    <2>1. pc' \notin InPeriod /\ q' = 1 /\ players' = <<>>
      BY <1>1 DEF Refuse, validateAndSort, EloMatch, EloDone, Advance, Place, CloseLast, LoopInv,
                  InPeriod, Grouped, glickoVars
    <2> QED
      BY <2>1, MetaStart
  <1>2. CASE UNCHANGED vars
    BY <1>2 DEF MetaInv, vars, groupVars, glickoVars, Noted, Recorded
  <1>3. CASE Return \/ Returned
    <2>1. /\ pc \in {"period", "done", "failed"} /\ pc' \in {"period", "done", "failed"}
          /\ UNCHANGED <<sorted, periods, q, players>>
      BY <1>3 DEF Return, Returned, vars, groupVars, glickoVars
    <2>2. Noted' = Noted /\ Recorded' = Recorded
      BY <2>1 DEF Noted, Recorded
    <2> QED
      BY <2>1, <2>2 DEF MetaInv
  <1>4. CASE BeginPeriod
    <2>1. /\ pc = "period" /\ pc' = "collect" /\ q \in 1..Len(periods)
          /\ UNCHANGED <<sorted, periods, q, players>> /\ i' = periods[q].from
      BY <1>4 DEF BeginPeriod, groupVars, TypeOK
    <2>2. periods[q].from \in Nat /\ periods[q].from = Earlier(periods, q) + 1
      BY <2>1, PeriodSlice
    <2>3. Earlier(periods, q) \in Int
      BY <2>1, PeriodSlice
    <2>4. Noted' = Noted /\ Recorded' = Recorded
      BY <2>1, <2>2, <2>3 DEF Noted, Recorded
    <2> QED
      BY <2>1, <2>4 DEF MetaInv
  <1>5. CASE Collect
    <2> DEFINE m == sorted[i]
               n == i - 1
               e == Earlier(periods, q)
    <2>1. /\ pc = "collect" /\ pc' = "collect" /\ q \in 1..Len(periods) /\ i <= periods[q].to
          /\ UNCHANGED <<sorted, periods, q>> /\ i' = i + 1 /\ i \in Nat \ {0}
          /\ players' = [p \in DOMAIN players \cup {m.p1, m.p2} |-> get(players, p)]
          /\ periods[q].from <= i
      BY <1>5 DEF Collect, groupVars, LoopInv, InPeriod, TypeOK
    <2>2. /\ periods[q].from \in Nat /\ periods[q].to \in Nat /\ periods[q].to <= Len(sorted)
          /\ periods[q].from = e + 1
      BY <2>1, PeriodSlice
    <2>3. i \in 1..Len(sorted) /\ m.p1 \in Players /\ m.p2 \in Players
      <3>1. i \in 1..Len(sorted)
        BY <2>1, <2>2 DEF TypeOK
      <3> QED
        BY <3>1, MatchType
    <2>4. n \in Nat /\ n + 1 = i /\ Noted = n /\ Noted' = n + 1
      BY <2>1 DEF Noted
    <2>5. Recorded = e /\ Recorded' = e
      BY <2>1 DEF Recorded
    <2>6. e \in Nat
      BY <2>1, PeriodSlice
    <2> HIDE DEF n, e
    <2>7. e <= n /\ e \in Nat
      BY <2>1, <2>2, <2>4, <2>6 DEF TypeOK
    <2>8. DOMAIN players' = {p \in Players : GamesIn(sorted, p, n + 1) # {}}
      <3>1. {p \in Players : GamesIn(sorted, p, n + 1) # {}}
            = {p \in Players : GamesIn(sorted, p, n) # {}} \cup {m.p1, m.p2}
        BY <2>3, <2>4, PlayersGrow
      <3> QED
        BY <2>1, <2>4, <3>1 DEF MetaInv
    <2>9. ASSUME NEW p \in DOMAIN players'
          PROVE  RecordIn(sorted, players'[p].meta, p, e)
      <3>1. CASE p \in DOMAIN players
        BY <2>1, <2>5, <3>1 DEF MetaInv, get
      <3>2. CASE p \notin DOMAIN players
        <4>1. p \in Players /\ players'[p].meta = NewMeta
          BY <2>1, <2>3, <2>9, <3>2, EntryFields DEF get, NewPlayer
        <4>2. GamesIn(sorted, p, n) = {}
          BY <2>4, <3>2, <4>1 DEF MetaInv
        <4>3. GamesIn(sorted, p, e) = {}
          BY <2>4, <2>7, <4>2, FewerGames
        <4> QED
          BY <2>7, <4>1, <4>3, RecordNew
      <3> QED
        BY <3>1, <3>2
    <2> QED
      BY <2>1, <2>4, <2>5, <2>8, <2>9 DEF MetaInv
  <1>6. CASE Snapshot
    <2>1. /\ pc = "collect" /\ pc' = "update" /\ q \in 1..Len(periods)
          /\ UNCHANGED <<sorted, periods, q, players>> /\ i > periods[q].to
          /\ i <= periods[q].to + 1
      BY <1>6 DEF Snapshot, groupVars, LoopInv, InPeriod, TypeOK
    <2>2. periods[q].to \in Nat /\ i \in Nat
      BY <2>1, PeriodSlice DEF TypeOK
    <2>3. Noted' = Noted /\ Recorded' = Recorded
      BY <2>1, <2>2 DEF Noted, Recorded
    <2> QED
      BY <2>1, <2>3 DEF MetaInv
  <1>7. ASSUME NEW p \in Players, Update(p)
        PROVE  MetaInv'
    <2>1. /\ pc = "update" /\ pc' = "update" /\ UNCHANGED <<sorted, periods, q>>
          /\ DOMAIN players' = DOMAIN players
          /\ \A r \in DOMAIN players : players'[r].meta = players[r].meta
      BY <1>7, EntryFields DEF Update, groupVars
    <2>2. Noted' = Noted /\ Recorded' = Recorded
      BY <2>1 DEF Noted, Recorded
    <2> QED
      BY <2>1, <2>2 DEF MetaInv
  <1>8. CASE Inflate
    <2>1. /\ pc = "update" /\ pc' = "meta" /\ UNCHANGED <<sorted, periods, q>>
          /\ DOMAIN players' = DOMAIN players /\ i' = periods[q].from /\ q \in 1..Len(periods)
          /\ \A r \in DOMAIN players : players'[r].meta = players[r].meta
      BY <1>8, EntryFields DEF Inflate, groupVars, LoopInv, InPeriod, TypeOK
    <2>2. periods[q].from \in Nat /\ periods[q].from = Earlier(periods, q) + 1
      BY <2>1, PeriodSlice
    <2>3. Earlier(periods, q) \in Int
      BY <2>1, PeriodSlice
    <2>4. Noted' = Noted /\ Recorded' = Recorded
      BY <2>1, <2>2, <2>3 DEF Noted, Recorded
    <2> QED
      BY <2>1, <2>4 DEF MetaInv
  <1>9. CASE MetaUpdate
    <2> DEFINE m == sorted[i]
               n == i - 1
    <2>1. /\ pc = "meta" /\ pc' = "meta" /\ UNCHANGED <<sorted, periods, q>>
          /\ DOMAIN players' = DOMAIN players /\ i' = i + 1 /\ i \in Nat \ {0}
          /\ \A p \in DOMAIN players :
                players'[p].meta = IF Plays(p, m) THEN applyMeta(players[p].meta, p, m)
                                   ELSE players[p].meta
      BY <1>9, EntryFields DEF MetaUpdate, groupVars, TypeOK
    <2>2. n \in Nat /\ n + 1 = i /\ Recorded = n /\ Recorded' = n + 1 /\ Noted' = Noted
      BY <2>1 DEF Recorded, Noted
    <2> HIDE DEF n
    <2>3. ASSUME NEW p \in DOMAIN players
          PROVE  RecordIn(sorted, players'[p].meta, p, n + 1)
      <3>1. RecordIn(sorted, players[p].meta, p, n) /\ players[p].meta \in Metas
        BY <2>2 DEF MetaInv, TypeOK
      <3>2. CASE Plays(p, m)
        BY <2>1, <2>2, <3>1, <3>2, RecordStep
      <3>3. CASE ~Plays(p, m)
        BY <2>1, <2>2, <3>1, <3>3, RecordSkip
      <3> QED
        BY <3>2, <3>3
    <2> QED
      BY <2>1, <2>2, <2>3 DEF MetaInv
  <1>10. CASE EndPeriod
    <2>1. /\ pc = "meta" /\ pc' = "period" /\ UNCHANGED <<sorted, periods, players>>
          /\ q' = q + 1 /\ q \in 1..Len(periods) /\ i > periods[q].to /\ i <= periods[q].to + 1
      BY <1>10 DEF EndPeriod, groupVars, LoopInv, InPeriod, TypeOK
    <2>2. periods[q].to \in Nat /\ i \in Nat
      BY <2>1, PeriodSlice DEF TypeOK
    <2>3. Earlier(periods, q + 1) = periods[q].to
      BY <2>1 DEF Earlier
    <2>4. Noted' = Noted /\ Recorded' = Recorded
      BY <2>1, <2>2, <2>3 DEF Noted, Recorded
    <2> QED
      BY <2>1, <2>4 DEF MetaInv
  <1> QED
    BY <1>1, <1>2, <1>3, <1>4, <1>5, <1>6, <1>7, <1>8, <1>9, <1>10 DEF Next

-----------------------------------------------------------------------------
(* The ratings of Glicko-2. *)

\* Whoever Glicko-2 has not met has no rating from an earlier period.
LEMMA Newcomer ==
    ASSUME TypeOK, LoopInv, GroupInv, MetaInv, PastInv, pc = "collect",
           NEW p \in Players, p \notin DOMAIN players
    PROVE  BeforeIn(rated, q, p) = DefaultRating
  <1>1. /\ q \in 1..Len(periods) /\ i \in Nat \ {0} /\ DOMAIN rated = 1..(q - 1)
        /\ periods[q].from <= i
    BY DEF LoopInv, InPeriod, TypeOK
  <1>2. GamesIn(sorted, p, i - 1) = {}
    BY DEF MetaInv, Noted
  <1>3. CASE q = 1
    BY <1>3 DEF BeforeIn
  <1>4. CASE q > 1
    <2>1. q - 1 \in 1..Len(periods) /\ q - 1 \in DOMAIN rated
      BY <1>1, <1>4
    <2>2. Earlier(periods, q) = periods[q - 1].to
      BY <1>4 DEF Earlier
    <2>3. periods[q - 1].to \in Nat /\ periods[q - 1].to <= i - 1
      BY <1>1, <2>1, <2>2, PeriodSlice
    <2>4. GamesIn(sorted, p, periods[q - 1].to) = {}
      BY <1>1, <1>2, <2>3, FewerGames
    <2>5. p \notin DOMAIN rated[q - 1]
      BY <2>1, <2>4 DEF PastInv, RatedRight
    <2> QED
      BY <2>5 DEF BeforeIn
  <1> QED
    BY <1>1, <1>3, <1>4

\* While a period is collected, the entry of a player holds the rating from
\* before it, a new one's included.
LEMMA GetBefore ==
    ASSUME TypeOK, LoopInv, GroupInv, MetaInv, PastInv, IdleInv, pc = "collect",
           NEW p \in Players
    PROVE  get(players, p).rating = BeforeIn(rated, q, p)
  <1>1. CASE p \in DOMAIN players
    BY <1>1 DEF IdleInv, get
  <1>2. CASE p \notin DOMAIN players
    BY <1>2, Newcomer, EntryFields DEF get, NewPlayer
  <1> QED
    BY <1>1, <1>2

\* What the next match adds to a player's games of the period.
LEMMA FromGrows ==
    ASSUME NEW s, NEW p, NEW a \in Nat, NEW n \in Nat \ {0}, a <= n
    PROVE  GamesFrom(s, p, a, n) = IF Plays(p, s[n]) THEN GamesFrom(s, p, a, n - 1) \cup {n}
                                   ELSE GamesFrom(s, p, a, n - 1)
  <1>1. a..n = a..(n - 1) \cup {n}
    OBVIOUS
  <1> QED
    BY <1>1, Zenon DEF GamesFrom

\* Nothing is collected at first.
LEMMA FromNone ==
    ASSUME NEW s, NEW p, NEW a \in Nat
    PROVE  GamesFrom(s, p, a, a - 1) = {}
  BY DEF GamesFrom

\* The steps before the first period.
LEMMA RateStart ==
    ASSUME TypeOK, LoopInv,
           Refuse \/ validateAndSort \/ EloMatch \/ EloDone \/ Advance \/ Place \/ CloseLast
    PROVE  RateInv'
  <1>1. /\ pc' \notin InPeriod /\ q' = 1 /\ players' = <<>> /\ rated' = rated
        /\ DOMAIN rated = 1..(q - 1) /\ q = 1
    BY DEF Refuse, validateAndSort, EloMatch, EloDone, Advance, Place, CloseLast, LoopInv,
           InPeriod, Grouped, glickoVars
  <1>2. DOMAIN rated' = {} /\ DOMAIN players' = {}
    BY <1>1
  <1>3. pc' # "update" /\ pc' # "meta"
    BY <1>1 DEF InPeriod
  <1> QED
    BY <1>1, <1>2, <1>3 DEF RateInv, PastInv, IdleInv, MetInv, UpdateInv, AfterInv

\* A match of the period is collected.
LEMMA RateCollect ==
    ASSUME TypeOK, LoopInv, GroupInv, MetaInv, RateInv, Collect
    PROVE  RateInv'
  <1> DEFINE m == sorted[i]
             a == periods[q].from
             D == DOMAIN opps
             B(p) == IF p \in D THEN DOMAIN opps[p] ELSE {}
             E(p) == <<get(players, Opponent(p, m)).rating, Outcome(p, m)>>
  <1>1. /\ pc = "collect" /\ pc' = "collect" /\ q \in 1..Len(periods) /\ i <= periods[q].to
        /\ UNCHANGED <<sorted, periods, q, rated>> /\ i' = i + 1 /\ i \in Nat \ {0}
        /\ players' = [p \in DOMAIN players \cup {m.p1, m.p2} |-> get(players, p)]
        /\ a <= i
    BY DEF Collect, groupVars, LoopInv, InPeriod, TypeOK
  <1>2. opps' = [p \in D \cup {m.p1, m.p2} |->
                    IF Plays(p, m) THEN [k \in B(p) \cup {i} |-> IF k = i THEN E(p) ELSE opps[p][k]]
                    ELSE opps[p]]
    BY DEF Collect
  <1>3. /\ a \in Nat /\ periods[q].to \in Nat /\ periods[q].to <= Len(sorted)
    BY <1>1, PeriodSlice
  <1>4. m.p1 \in Players /\ m.p2 \in Players
    <2>1. i \in 1..Len(sorted)
      BY <1>1, <1>3 DEF TypeOK
    <2> QED
      BY <2>1, MatchType
  <1>5. PastInv' /\ UpdateInv' /\ AfterInv'
    BY <1>1 DEF RateInv, PastInv, UpdateInv, AfterInv
  <1>6. IdleInv'
    <2>1. ASSUME NEW p \in DOMAIN players'
          PROVE  players'[p].rating = BeforeIn(rated, q, p)
      <3>1. p \in Players /\ players'[p] = get(players, p)
        BY <1>1, <1>4 DEF TypeOK
      <3> QED
        BY <1>1, <3>1, GetBefore DEF RateInv
    <2> QED
      BY <1>1, <2>1 DEF IdleInv
  <1>7. /\ D = {p \in Players : GamesFrom(sorted, p, a, i - 1) # {}}
        /\ \A p \in D : opps[p] = MetFrom(sorted, rated, q, p, a, i - 1)
    BY <1>1 DEF RateInv, MetInv, Collected, InPeriod
  <1>8. \A p : GamesFrom(sorted, p, a, i)
               = IF Plays(p, m) THEN GamesFrom(sorted, p, a, i - 1) \cup {i}
                 ELSE GamesFrom(sorted, p, a, i - 1)
    BY <1>1, <1>3, FromGrows
  <1>9. \A p \in {m.p1, m.p2} :
            E(p) = <<BeforeIn(rated, q, Opponent(p, m)), Outcome(p, m)>>
    <2>1. \A p \in {m.p1, m.p2} : Opponent(p, m) \in Players
      BY <1>4 DEF Opponent
    <2> QED
      BY <1>1, <2>1, GetBefore DEF RateInv
  <1>10. \A p \in Players : B(p) = GamesFrom(sorted, p, a, i - 1)
    <2>1. \A p \in D : DOMAIN opps[p] = GamesFrom(sorted, p, a, i - 1)
      BY <1>7 DEF MetFrom
    <2> QED
      BY <1>7, <2>1
  <1> HIDE DEF m, a, D, B, E
  <1>11. DOMAIN opps' = {p \in Players : GamesFrom(sorted, p, a, i) # {}}
    <2>1. DOMAIN opps' = D \cup {m.p1, m.p2}
      BY <1>2
    <2>2. \A p \in Players : GamesFrom(sorted, p, a, i) # {} <=> p \in D \/ p \in {m.p1, m.p2}
      BY <1>7, <1>8 DEF Plays
    <2> QED
      BY <1>4, <1>7, <2>1, <2>2
  <1>12. ASSUME NEW p \in DOMAIN opps'
         PROVE  opps'[p] = MetFrom(sorted, rated, q, p, a, i)
    <2>1. p \in Players /\ p \in D \cup {m.p1, m.p2}
      BY <1>2, <1>11
    <2>2. CASE ~Plays(p, m)
      <3>1. p \in D /\ opps'[p] = opps[p]
        BY <1>2, <2>1, <2>2 DEF Plays
      <3>2. GamesFrom(sorted, p, a, i) = GamesFrom(sorted, p, a, i - 1)
        BY <1>8, <2>2
      <3> QED
        BY <1>7, <3>1, <3>2 DEF MetFrom
    <2>3. CASE Plays(p, m)
      <3>1. opps'[p] = [k \in GamesFrom(sorted, p, a, i) |-> IF k = i THEN E(p) ELSE opps[p][k]]
        <4>1. B(p) \cup {i} = GamesFrom(sorted, p, a, i)
          BY <1>8, <1>10, <2>1, <2>3
        <4> QED
          BY <1>2, <2>1, <2>3, <4>1
      <3>2. ASSUME NEW k \in GamesFrom(sorted, p, a, i)
            PROVE  (IF k = i THEN E(p) ELSE opps[p][k])
                   = <<BeforeIn(rated, q, Opponent(p, sorted[k])), Outcome(p, sorted[k])>>
        <4>1. CASE k = i
          BY <1>9, <2>3, <4>1 DEF Plays, m
        <4>2. CASE k # i
          <5>1. k \in GamesFrom(sorted, p, a, i - 1)
            BY <1>8, <3>2, <4>2
          <5>2. p \in D
            BY <1>7, <2>1, <5>1
          <5>3. opps[p] = MetFrom(sorted, rated, q, p, a, i - 1)
            BY <1>7, <5>2
          <5> QED
            BY <4>2, <5>1, <5>3 DEF MetFrom
        <4> QED
          BY <4>1, <4>2
      <3> QED
        BY <3>1, <3>2 DEF MetFrom
    <2> QED
      BY <2>2, <2>3
  <1>13. MetInv'
    <2>1. Collected' = i
      BY <1>1 DEF Collected
    <2> QED
      BY <1>1, <1>11, <1>12, <2>1 DEF MetInv, a
  <1> QED
    BY <1>5, <1>6, <1>13 DEF RateInv

\* A period ends: its ratings become the last of the history.
LEMMA RateEnd ==
    ASSUME TypeOK, LoopInv, GroupInv, MetaInv, RateInv, EndPeriod
    PROVE  RateInv'
  <1>1. /\ pc = "meta" /\ pc' = "period" /\ UNCHANGED <<sorted, periods, players, opps>>
        /\ q' = q + 1 /\ q \in 1..Len(periods) /\ q \in Nat \ {0} /\ DOMAIN rated = 1..(q - 1)
        /\ rated' = [n \in 1..q |-> IF n = q THEN [p \in DOMAIN players |-> players[p].rating]
                                    ELSE rated[n]]
    BY DEF EndPeriod, groupVars, periodVars, LoopInv, InPeriod, TypeOK
  <1>2. /\ DOMAIN rated' = 1..q /\ \A n \in 1..(q - 1) : rated'[n] = rated[n]
        /\ rated'[q] = [p \in DOMAIN players |-> players[p].rating]
    BY <1>1
  <1>3. \A n \in 1..q : \A p : BeforeIn(rated', n, p) = BeforeIn(rated, n, p)
    <2>1. SUFFICES ASSUME NEW n \in 1..q, NEW p
                   PROVE  BeforeIn(rated', n, p) = BeforeIn(rated, n, p)
      OBVIOUS
    <2>2. n > 1 => rated'[n - 1] = rated[n - 1]
      BY <1>1, <1>2
    <2> QED
      BY <2>2 DEF BeforeIn
  <1>4. \A n \in 1..q : \A p, b, c :
            MetFrom(sorted, rated', n, p, b, c) = MetFrom(sorted, rated, n, p, b, c)
    BY <1>3 DEF MetFrom
  <1>5. ASSUME NEW n \in 1..(q - 1)
        PROVE  RatedRight(sorted, periods, rated', n)
    <2>1. RatedRight(sorted, periods, rated, n)
      BY <1>1 DEF RateInv, PastInv
    <2>2. rated'[n] = rated[n] /\ n \in 1..q
      BY <1>1, <1>2
    <2> QED
      BY <1>3, <1>4, <2>1, <2>2 DEF RatedRight
  <1>6. RatedRight(sorted, periods, rated', q)
    <2>1. DOMAIN rated'[q] = DOMAIN players
      BY <1>2
    <2>2. DOMAIN players = {p \in Players : GamesIn(sorted, p, periods[q].to) # {}}
      BY <1>1 DEF MetaInv, Noted
    <2>3. ASSUME NEW p \in DOMAIN players
          PROVE  rated'[q][p] = IF GamesFrom(sorted, p, periods[q].from, periods[q].to) = {}
                                THEN Inflated(BeforeIn(rated, q, p))
                                ELSE GlickoFormula(BeforeIn(rated, q, p),
                                         MetFrom(sorted, rated, q, p, periods[q].from, periods[q].to))
      <3>1. rated'[q][p] = players[p].rating
        BY <1>2
      <3>2. players[p].rating = IF p \in DOMAIN opps
                                THEN GlickoFormula(BeforeIn(rated, q, p), opps[p])
                                ELSE Inflated(BeforeIn(rated, q, p))
        BY <1>1 DEF RateInv, AfterInv
      <3>3. p \in Players
        BY <2>2
      <3>4. p \in DOMAIN opps <=> GamesFrom(sorted, p, periods[q].from, periods[q].to) # {}
        BY <1>1, <3>3 DEF RateInv, MetInv, Collected, InPeriod
      <3>5. p \in DOMAIN opps =>
                opps[p] = MetFrom(sorted, rated, q, p, periods[q].from, periods[q].to)
        BY <1>1 DEF RateInv, MetInv, Collected, InPeriod
      <3> QED
        BY <3>1, <3>2, <3>4, <3>5
    <2>4. q \in 1..q
      BY <1>1
    <2> QED
      BY <1>3, <1>4, <2>1, <2>2, <2>3, <2>4 DEF RatedRight
  <1>7. PastInv'
    <2>1. \A n \in 1..q : n \in 1..(q - 1) \/ n = q
      BY <1>1
    <2> QED
      BY <1>1, <1>2, <1>5, <1>6, <2>1 DEF PastInv
  <1>8. IdleInv'
    <2>1. ASSUME NEW p \in DOMAIN players
          PROVE  players[p].rating = BeforeIn(rated', q + 1, p)
      <3>1. q + 1 > 1 /\ (q + 1) - 1 = q
        BY <1>1
      <3> QED
        BY <1>2, <3>1 DEF BeforeIn
    <2> QED
      BY <1>1, <2>1 DEF IdleInv
  <1> QED
    BY <1>1, <1>7, <1>8 DEF RateInv, MetInv, UpdateInv, AfterInv, InPeriod

\* Every step keeps the ratings those of the periods.
LEMMA RateStep ==
    ASSUME TypeOK, LoopInv, GroupInv, MetaInv, RateInv, [Next]_vars
    PROVE  RateInv'
  <1>1. CASE UNCHANGED vars
    BY <1>1 DEF RateInv, PastInv, IdleInv, MetInv, UpdateInv, AfterInv, Collected, vars, groupVars,
                glickoVars, periodVars
  <1>2. CASE Return \/ Returned
    <2>1. /\ pc \in {"period", "done", "failed"} /\ pc' \in {"period", "done", "failed"}
          /\ pc = "failed" <=> pc' = "failed"
          /\ UNCHANGED <<sorted, periods, q, players, rated>>
      BY <1>2 DEF Return, Returned, vars, groupVars, glickoVars
    <2> QED
      BY <2>1 DEF RateInv, PastInv, IdleInv, MetInv, UpdateInv, AfterInv, InPeriod
  <1>3. CASE BeginPeriod
    <2>1. /\ pc = "period" /\ pc' = "collect" /\ q \in 1..Len(periods) /\ opps' = <<>>
          /\ UNCHANGED <<sorted, periods, q, players, rated>> /\ i' = periods[q].from
      BY <1>3 DEF BeginPeriod, groupVars, TypeOK
    <2>2. periods[q].from \in Nat
      BY <2>1, PeriodSlice
    <2>3. Collected' = periods[q].from - 1
      BY <2>1 DEF Collected
    <2>4. \A p : GamesFrom(sorted, p, periods[q].from, periods[q].from - 1) = {}
      BY <2>2, FromNone
    <2>5. MetInv'
      BY <2>1, <2>3, <2>4 DEF MetInv
    <2> QED
      BY <2>1, <2>5 DEF RateInv, PastInv, IdleInv, UpdateInv, AfterInv
  <1>4. CASE Snapshot
    <2>1. /\ pc = "collect" /\ pc' = "update" /\ q \in 1..Len(periods)
          /\ UNCHANGED <<sorted, periods, q, players, opps, rated>> /\ i > periods[q].to
          /\ i <= periods[q].to + 1 /\ pre' = players /\ todo' = DOMAIN opps
      BY <1>4 DEF Snapshot, groupVars, LoopInv, InPeriod, TypeOK
    <2>2. periods[q].to \in Nat /\ i \in Nat
      BY <2>1, PeriodSlice DEF TypeOK
    <2>3. Collected' = Collected
      BY <2>1, <2>2 DEF Collected
    <2>4. MetInv'
      BY <2>1, <2>3 DEF RateInv, MetInv, InPeriod
    <2>5. UpdateInv'
      BY <2>1 DEF RateInv, IdleInv, UpdateInv
    <2> QED
      BY <2>1, <2>4, <2>5 DEF RateInv, PastInv, IdleInv, AfterInv
  <1>5. ASSUME NEW p \in Players, Update(p)
        PROVE  RateInv'
    <2>1. /\ pc = "update" /\ pc' = "update" /\ UNCHANGED <<sorted, periods, q, opps, pre, rated>>
          /\ DOMAIN players' = DOMAIN players /\ todo' = todo \ {p} /\ p \in todo
          /\ players'[p].rating = GlickoFormula(pre[p].rating, opps[p])
          /\ \A r \in DOMAIN players \ {p} : players'[r] = players[r]
      BY <1>5, EntryFields DEF Update, groupVars, TypeOK
    <2>2. p \in DOMAIN opps /\ p \in DOMAIN players
      BY <2>1 DEF TypeOK
    <2>3. UpdateInv'
      BY <2>1, <2>2 DEF RateInv, UpdateInv
    <2>4. MetInv'
      BY <2>1 DEF RateInv, MetInv, Collected
    <2> QED
      BY <2>1, <2>3, <2>4 DEF RateInv, PastInv, IdleInv, AfterInv
  <1>6. CASE Inflate
    <2>1. /\ pc = "update" /\ pc' = "meta" /\ UNCHANGED <<sorted, periods, q, opps, rated>>
          /\ DOMAIN players' = DOMAIN players /\ todo = {}
          /\ \A p \in DOMAIN players :
                players'[p].rating = IF p \in DOMAIN opps THEN players[p].rating
                                     ELSE Inflated(players[p].rating)
      BY <1>6, EntryFields DEF Inflate, groupVars, periodVars
    <2>2. AfterInv'
      BY <2>1 DEF RateInv, UpdateInv, AfterInv
    <2>3. MetInv'
      BY <2>1 DEF RateInv, MetInv, Collected, InPeriod
    <2> QED
      BY <2>1, <2>2, <2>3 DEF RateInv, PastInv, IdleInv, UpdateInv
  <1>7. CASE MetaUpdate
    <2>1. /\ pc = "meta" /\ pc' = "meta" /\ UNCHANGED <<sorted, periods, q, opps, rated>>
          /\ DOMAIN players' = DOMAIN players
          /\ \A p \in DOMAIN players : players'[p].rating = players[p].rating
      BY <1>7, EntryFields DEF MetaUpdate, groupVars, periodVars
    <2>2. MetInv'
      BY <2>1 DEF RateInv, MetInv, Collected
    <2> QED
      BY <2>1, <2>2 DEF RateInv, PastInv, IdleInv, UpdateInv, AfterInv
  <1> QED
    BY <1>1, <1>2, <1>3, <1>4, <1>5, <1>6, <1>7, RateStart, RateCollect, RateEnd DEF Next

-----------------------------------------------------------------------------
(* The theorems. *)

\* The invariant holds at first.
LEMMA InitInv ==
    ASSUME Init
    PROVE  IInv
  <1>1. TypeOK
    BY DEF Init, TypeOK, Periods
  <1>2. OrderInv /\ LoopInv
    BY DEF Init, OrderInv, LoopInv, Grouped, InPeriod
  <1>3. GroupInv
    BY DEF Init, GroupInv, Grouped
  <1>4. Counted = 0 /\ Noted = 0
    BY DEF Init, Counted, Noted, Earlier
  <1>5. DOMAIN elo = {} /\ DOMAIN players = {} /\ DOMAIN rated = {} /\ DOMAIN opps = {}
    BY DEF Init
  <1>6. EloInv /\ MetaInv
    BY <1>4, <1>5, NoGames DEF EloInv, MetaInv
  <1>7. RateInv
    BY <1>5 DEF Init, RateInv, PastInv, IdleInv, MetInv, UpdateInv, AfterInv, InPeriod
  <1>8. FiniteInv
    BY <1>5, FS_EmptySet DEF FiniteInv
  <1> QED
    BY <1>1, <1>2, <1>3, <1>6, <1>7, <1>8 DEF IInv

\* The loops keep the invariant.
THEOREM Inductive == Spec => []IInv
  <1>1. Init => IInv
    BY InitInv
  <1>2. IInv /\ [Next]_vars => IInv'
    BY TypeStep, OrderStep, LoopStep, GroupStep, EloStep, MetaStep, RateStep, FiniteStep DEF IInv
  <1> QED
    BY <1>1, <1>2, PTL DEF Spec

\* The variables of both engines keep their types.
THEOREM TypeCorrect == Spec => []TypeOK
  <1>1. IInv => TypeOK
    BY DEF IInv
  <1> QED
    BY <1>1, Inductive, PTL

\* Two records of the same games are the same, if there are any.
LEMMA RecordUnique ==
    ASSUME NEW s, NEW p, NEW n \in Nat, NEW r \in Metas, NEW t \in Metas,
           RecordIn(s, r, p, n), RecordIn(s, t, p, n), GamesIn(s, p, n) # {}
    PROVE  r = t
  <1>1. GamesIn(s, p, n) \in SUBSET (1..n)
    BY GamesUpTo
  <1>2. PICK k \in GamesIn(s, p, n) : (\A l \in GamesIn(s, p, n) : l <= k) /\ r.last = s[k].at
    BY DEF RecordIn
  <1>3. r.last = t.last
    <2>1. PICK j \in GamesIn(s, p, n) : (\A l \in GamesIn(s, p, n) : l <= j) /\ t.last = s[j].at
      BY DEF RecordIn
    <2>2. j <= k /\ k <= j /\ j \in Int /\ k \in Int
      BY <1>1, <1>2, <2>1
    <2>3. j = k
      BY <2>2
    <2> QED
      BY <1>2, <2>1, <2>3
  <1>4. /\ r.games = t.games /\ r.wins = t.wins /\ r.losses = t.losses /\ r.streak = t.streak
    BY Zenon DEF RecordIn
  <1> QED
    BY <1>3, <1>4 DEF Metas

\* The records of both engines are those of the history, and agree in the end.
THEOREM RecordsHold == Spec => []EnginesKeepRecord
  <1>1. IInv => EnginesKeepRecord
    <2> SUFFICES ASSUME IInv
                 PROVE  EnginesKeepRecord
      OBVIOUS
    <2>1. \A p, n : GamesIn(sorted, p, n) = Games(p, n)
      BY DEF GamesIn, Games
    <2>2. \A r, p, n : RecordIn(sorted, r, p, n) = IsRecord(r, p, n)
      BY DEF RecordIn, IsRecord, GamesIn, Games, WonIn, Won, LostIn, Lost
    <2>3. /\ DOMAIN elo = {p \in Players : Games(p, Counted) # {}}
          /\ \A p \in DOMAIN elo : IsRecord(elo[p].meta, p, Counted)
      BY <2>1, <2>2 DEF IInv, EloInv
    <2>4. ASSUME pc = "done"
          PROVE  /\ DOMAIN players = DOMAIN elo
                 /\ \A p \in DOMAIN elo : players[p].meta = elo[p].meta
      <3>1. q = Len(periods) + 1 /\ Earlier(periods, q) = Len(sorted)
        BY <2>4 DEF IInv, LoopInv, GroupInv, Grouped
      <3>2. Noted = Len(sorted) /\ Recorded = Len(sorted) /\ Counted = Len(sorted)
        BY <2>4, <3>1 DEF Noted, Recorded, Counted
      <3>3. DOMAIN players = DOMAIN elo
        BY <3>2 DEF IInv, EloInv, MetaInv
      <3>4. ASSUME NEW p \in DOMAIN elo
            PROVE  players[p].meta = elo[p].meta
        <4>1. GamesIn(sorted, p, Len(sorted)) # {} /\ Len(sorted) \in Nat
          BY <3>2 DEF IInv, EloInv, TypeOK
        <4>2. /\ RecordIn(sorted, elo[p].meta, p, Len(sorted)) /\ elo[p].meta \in Metas
              /\ RecordIn(sorted, players[p].meta, p, Len(sorted)) /\ players[p].meta \in Metas
          BY <3>2, <3>3 DEF IInv, EloInv, MetaInv, TypeOK
        <4> QED
          BY <4>1, <4>2, RecordUnique
      <3> QED
        BY <3>3, <3>4
    <2> QED
      BY <2>3, <2>4 DEF EnginesKeepRecord
  <1> QED
    BY <1>1, Inductive, PTL

\* The ratings after each period are those the period makes of the ones before
\* it, in whatever order its participants are updated.
THEOREM RatingsHold == Spec => []RatedPerPeriod
  <1>1. IInv => RatedPerPeriod
    <2> SUFFICES ASSUME IInv
                 PROVE  RatedPerPeriod
      OBVIOUS
    <2>1. \A n, p : BeforeIn(rated, n, p) = RatingBefore(n, p)
      BY DEF BeforeIn, RatingBefore
    <2>2. \A n, p : MetFrom(sorted, rated, n, p, periods[n].from, periods[n].to) = MetIn(n, p)
      BY <2>1 DEF MetFrom, MetIn, GamesFrom
    <2>3. \A n, p : DOMAIN MetIn(n, p) = GamesFrom(sorted, p, periods[n].from, periods[n].to)
      BY DEF MetIn, GamesFrom
    <2>4. \A p, n : GamesIn(sorted, p, n) = Games(p, n)
      BY DEF GamesIn, Games
    <2>5. ASSUME NEW n \in DOMAIN rated
          PROVE  /\ DOMAIN rated[n] = {p \in Players : Games(p, periods[n].to) # {}}
                 /\ \A p \in DOMAIN rated[n] :
                       rated[n][p] = IF DOMAIN MetIn(n, p) = {}
                                     THEN Inflated(RatingBefore(n, p))
                                     ELSE GlickoFormula(RatingBefore(n, p), MetIn(n, p))
      <3>1. RatedRight(sorted, periods, rated, n)
        BY DEF IInv, RateInv, PastInv
      <3> QED
        BY <2>1, <2>2, <2>3, <2>4, <3>1 DEF RatedRight
    <2>6. ASSUME pc = "done"
          PROVE  /\ DOMAIN rated = DOMAIN periods
                 /\ \A p \in DOMAIN players :
                       players[p].rating = RatingBefore(Len(periods) + 1, p)
      <3>1. q = Len(periods) + 1 /\ DOMAIN rated = 1..(q - 1)
        BY <2>6 DEF IInv, LoopInv
      <3>2. DOMAIN rated = DOMAIN periods
        BY <3>1 DEF IInv, TypeOK
      <3> QED
        BY <2>1, <2>6, <3>1, <3>2 DEF IInv, RateInv, IdleInv
    <2> QED
      BY <2>5, <2>6 DEF RatedPerPeriod
  <1> QED
    BY <1>1, Inductive, PTL

-----------------------------------------------------------------------------
(* The calendar. *)

\* Multiples of the same number compare as their factors do.
LEMMA FactorLess ==
    ASSUME NEW a \in Int, NEW b \in Int, NEW d \in Nat \ {0}, a * d < b * d
    PROVE  a < b
  <1>1. SUFFICES ASSUME b <= a
                 PROVE  b * d <= a * d
    OBVIOUS
  <1>2. PICK c \in Nat : a = b + c
    BY <1>1
  <1>3. (b + c) * d = b * d + c * d
    OBVIOUS
  <1>4. c * d \in Nat
    OBVIOUS
  <1> QED
    BY <1>2, <1>3, <1>4

\* The quotient is the number of times the divisor fits.
LEMMA Quotient ==
    ASSUME NEW x \in Int, NEW d \in Nat \ {0}
    PROVE  /\ x \div d \in Int
           /\ (x \div d) * d <= x /\ x < ((x \div d) + 1) * d
  <1>1. x \div d \in Int /\ x % d \in 0..(d - 1) /\ x = d * (x \div d) + (x % d)
    OBVIOUS
  <1>2. PICK y \in Int : y = x \div d
    BY <1>1
  <1>3. PICK z \in 0..(d - 1) : z = x % d
    BY <1>1
  <1>4. x = d * y + z
    BY <1>1, <1>2, <1>3
  <1>5. d * y = y * d /\ (y + 1) * d = y * d + d
    OBVIOUS
  <1> QED
    BY <1>2, <1>3, <1>4, <1>5

\* How quotients compare with a number.
LEMMA QuotientAtLeast ==
    ASSUME NEW x \in Int, NEW d \in Nat \ {0}, NEW e \in Int, e * d <= x
    PROVE  e <= x \div d
  <1>1. PICK y \in Int : y = x \div d /\ x < (y + 1) * d
    BY Quotient
  <1>2. e * d < (y + 1) * d
    BY <1>1
  <1>3. e < y + 1
    BY <1>2, FactorLess
  <1> QED
    BY <1>1, <1>3

LEMMA QuotientBelow ==
    ASSUME NEW x \in Int, NEW d \in Nat \ {0}, NEW e \in Int, x < e * d
    PROVE  x \div d < e
  <1>1. PICK y \in Int : y = x \div d /\ y * d <= x
    BY Quotient
  <1>2. y * d < e * d
    BY <1>1
  <1>3. y < e
    BY <1>2, FactorLess
  <1> QED
    BY <1>1, <1>3

\* The first tick of the n-th period in whole days.
LEMMA StartInDays ==
    ASSUME NEW f \in Nat, NEW n \in Int, NEW d \in Nat \ {0}
    PROVE  /\ Day(f) \in Int
           /\ StartOfDay(f) + n * (d * DayLength) = (Day(f) + n * d) * DayLength
  <1>1. DayLength \in Nat \ {0}
    BY EngineAssumption
  <1>2. Day(f) \in Int /\ f % DayLength \in Int /\ f = DayLength * Day(f) + (f % DayLength)
    BY <1>1 DEF Day
  <1>3. StartOfDay(f) = DayLength * Day(f)
    <2>1. PICK D \in Int : D = Day(f)
      BY <1>2
    <2>2. PICK r \in Int : r = f % DayLength
      BY <1>2
    <2>3. DayLength * D \in Int /\ f = DayLength * D + r
      BY <1>1, <1>2, <2>1, <2>2
    <2>4. f - r = DayLength * D
      BY <2>3
    <2> QED
      BY <2>1, <2>2, <2>4 DEF StartOfDay
  <1>4. \A a \in Int, b, c \in Int, g \in Int : g * a + b * (c * g) = (a + b * c) * g
    OBVIOUS
  <1> QED
    BY <1>1, <1>2, <1>3, <1>4

\* A match in the n-th window has that turn, and one after its beginning a turn
\* that is no smaller.
LEMMA WindowTurn ==
    ASSUME NEW f \in Nat, NEW t \in Nat, NEW n \in Nat \ {0}, NEW d \in Nat \ {0},
           StartOfDay(f) + (n - 1) * (d * DayLength) <= t
    PROVE  /\ n <= 1 + (Day(t) - Day(f)) \div d
           /\ t < (StartOfDay(f) + (n - 1) * (d * DayLength)) + d * DayLength =>
                  1 + (Day(t) - Day(f)) \div d = n
  <1>1. DayLength \in Nat \ {0}
    BY EngineAssumption
  <1>2. PICK F \in Int : F = Day(f)
    BY StartInDays
  <1>3. PICK T \in Int : T = Day(t)
    BY StartInDays
  <1>4. StartOfDay(f) + (n - 1) * (d * DayLength) = (F + (n - 1) * d) * DayLength
    BY <1>2, StartInDays
  <1>5. F + (n - 1) * d <= T
    <2>1. (F + (n - 1) * d) * DayLength <= t
      BY <1>4
    <2>2. F + (n - 1) * d \in Int
      OBVIOUS
    <2> QED
      BY <1>1, <1>3, <2>1, <2>2, QuotientAtLeast DEF Day
  <1>6. (n - 1) * d <= T - F
    BY <1>5
  <1>7. n - 1 <= (T - F) \div d /\ (T - F) \div d \in Int
    BY <1>6, QuotientAtLeast, Quotient
  <1>8. ASSUME t < (StartOfDay(f) + (n - 1) * (d * DayLength)) + d * DayLength
        PROVE  (T - F) \div d < n
    <2>1. (F + (n - 1) * d) * DayLength + d * DayLength = (F + n * d) * DayLength
      <3>1. \A a, b, c, g \in Int : (a + (b - 1) * c) * g + c * g = (a + b * c) * g
        OBVIOUS
      <3> QED
        BY <1>1, <3>1
    <2>2. t < (F + n * d) * DayLength /\ F + n * d \in Int
      BY <1>4, <1>8, <2>1
    <2>3. T < F + n * d
      BY <1>1, <1>3, <2>2, QuotientBelow DEF Day
    <2>4. T - F < n * d
      BY <2>3
    <2> QED
      BY <2>4, QuotientBelow
  <1>9. PICK e \in Int : e = (T - F) \div d
    BY <1>7
  <1> QED
    BY <1>2, <1>3, <1>7, <1>8, <1>9

\* The rating periods are those of the calendar.
THEOREM CalendarHolds == Spec => []GroupsByCalendar
  <1>1. IInv => GroupsByCalendar
    <2> SUFFICES ASSUME IInv
                 PROVE  GroupsByCalendar
      OBVIOUS
    <2> DEFINE d == NewGlicko2(days)
    <2>1. d \in Nat \ {0} /\ dur = d * DayLength
      BY DurType DEF IInv
    <2>2. /\ TypeOK /\ GroupInv /\ Len(sorted) \in Nat /\ Len(periods) \in Nat
          /\ DOMAIN sorted = 1..Len(sorted) /\ DOMAIN periods = 1..Len(periods)
      BY DEF IInv, TypeOK
    <2>3. ASSUME NEW n \in DOMAIN periods
          PROVE  /\ periods[n].from = IF n = 1 THEN 1 ELSE periods[n - 1].to + 1
                 /\ \A k \in periods[n].from .. periods[n].to : k \in DOMAIN sorted /\ Turn(k) = n
                 /\ n <= Turn(Len(sorted))
      <3>1. n \in 1..Len(periods) /\ n \in Nat \ {0}
        BY <2>2
      <3>2. /\ periods[n].from \in Nat /\ periods[n].to \in Nat /\ 1 <= periods[n].from
            /\ periods[n].to <= Len(sorted) /\ periods[n].from = Earlier(periods, n) + 1
        BY <2>2, <3>1, PeriodSlice
      <3>3. periods[n].from = IF n = 1 THEN 1 ELSE periods[n - 1].to + 1
        BY <3>2 DEF Earlier
      <3>4. Window(sorted, d * DayLength, periods[n], n)
        BY <2>1, <2>2 DEF GroupInv
      <3>5. sorted # <<>>
        BY <3>4 DEF Window
      <3>6. sorted[1].at \in Nat /\ sorted[Len(sorted)].at \in Nat
        BY <2>2, <3>5, MatchType
      <3>7. n <= Turn(Len(sorted))
        BY <2>1, <3>1, <3>4, <3>6, WindowTurn DEF Window, Turn
      <3>8. ASSUME NEW k \in periods[n].from .. periods[n].to
            PROVE  k \in DOMAIN sorted /\ Turn(k) = n
        <4>1. k \in 1..Len(sorted)
          BY <2>2, <3>2
        <4>2. sorted[k].at \in Nat
          BY <2>2, <4>1, MatchType
        <4>3. /\ periods[n].start = StartOfDay(sorted[1].at) + (n - 1) * (d * DayLength)
              /\ periods[n].start <= sorted[k].at
              /\ sorted[k].at < periods[n].start + d * DayLength
          BY <3>4 DEF Window
        <4>4. Turn(k) = n
          <5>1. StartOfDay(sorted[1].at) + (n - 1) * (d * DayLength) <= sorted[k].at
            BY <4>3
          <5>2. sorted[k].at
                < (StartOfDay(sorted[1].at) + (n - 1) * (d * DayLength)) + d * DayLength
            BY <4>3
          <5> HIDE DEF d
          <5>3. 1 + (Day(sorted[k].at) - Day(sorted[1].at)) \div d = n
            BY <2>1, <3>1, <3>6, <4>2, <5>1, <5>2, WindowTurn
          <5> QED
            BY <5>3 DEF Turn, d
        <4> QED
          BY <2>2, <4>1, <4>4
      <3> QED
        BY <3>3, <3>7, <3>8
    <2>4. ASSUME pc \in Grouped, sorted # <<>>
          PROVE  periods[Len(periods)].to = Len(sorted)
      <3>1. Earlier(periods, Len(periods) + 1) = Len(sorted) /\ Len(sorted) # 0
        BY <2>2, <2>4 DEF GroupInv, IInv, TypeOK
      <3> QED
        BY <2>2, <3>1 DEF Earlier
    <2> QED
      BY <2>3, <2>4 DEF GroupsByCalendar, Grouped
  <1> QED
    BY <1>1, Inductive, PTL

-----------------------------------------------------------------------------
(* Every loop ends. *)

\* The lexicographic order, spelt out.
LEMMA Lower ==
    ASSUME NEW a1 \in Nat, NEW a2 \in Nat, NEW a3 \in Nat, NEW a4 \in Nat,
           NEW b1 \in Nat, NEW b2 \in Nat, NEW b3 \in Nat, NEW b4 \in Nat,
           Measure = <<a1, a2, a3, a4>>, Measure' = <<b1, b2, b3, b4>>,
           \/ b1 < a1
           \/ b1 = a1 /\ b2 < a2
           \/ b1 = a1 /\ b2 = a2 /\ b3 < a3
           \/ b1 = a1 /\ b2 = a2 /\ b3 = a3 /\ b4 < a4
    PROVE  Descends
  <1> DEFINE x == Measure
             y == Measure'
  <1>1. x[1] = a1 /\ x[2] = a2 /\ x[3] = a3 /\ x[4] = a4
    OBVIOUS
  <1>2. y[1] = b1 /\ y[2] = b2 /\ y[3] = b3 /\ y[4] = b4
    OBVIOUS
  <1>3. y \in Nat \X Nat \X Nat \X Nat
    OBVIOUS
  <1>4. 1..0 = {} /\ 1..1 = {1} /\ 1..2 = {1, 2} /\ 1..3 = {1, 2, 3} /\ 1..4 = {1, 2, 3, 4}
    OBVIOUS
  <1>5. \E d \in 1..4 : y[d] < x[d] /\ \A e \in 1..(d - 1) : y[e] = x[e]
    <2> HIDE DEF x, y
    <2>1. CASE b1 < a1
      <3>1. y[1] < x[1] /\ \A e \in 1..(1 - 1) : y[e] = x[e]
        BY <1>1, <1>2, <2>1
      <3> QED
        BY <3>1, <1>4
    <2>2. CASE b1 = a1 /\ b2 < a2
      <3>1. y[2] < x[2] /\ \A e \in 1..(2 - 1) : y[e] = x[e]
        BY <1>1, <1>2, <2>2
      <3> QED
        BY <3>1, <1>4
    <2>3. CASE b1 = a1 /\ b2 = a2 /\ b3 < a3
      <3>1. y[3] < x[3] /\ \A e \in 1..(3 - 1) : y[e] = x[e]
        BY <1>1, <1>2, <2>3
      <3> QED
        BY <3>1, <1>4
    <2>4. CASE b1 = a1 /\ b2 = a2 /\ b3 = a3 /\ b4 < a4
      <3>1. y[4] < x[4] /\ \A e \in 1..(4 - 1) : y[e] = x[e]
        BY <1>1, <1>2, <2>4
      <3> QED
        BY <3>1, <1>4
    <2> QED
      BY <2>1, <2>2, <2>3, <2>4
  <1> QED
    BY <1>3, <1>5 DEF Descends

\* The steps up to the grouping lower the measure.
LEMMA DescendElo ==
    ASSUME IInv, IInv', Refuse \/ validateAndSort \/ EloMatch \/ EloDone
    PROVE  Descends
  <1>0. /\ Len(sorted) \in Nat /\ Len(sorted') \in Nat /\ i \in Nat /\ i' \in Nat
    BY DEF IInv, TypeOK
  <1>1. CASE Refuse
    <2>1. Measure = <<4, 0, 0, 0>> /\ Measure' = <<0, 0, 0, 0>>
      BY <1>1 DEF Refuse, Measure
    <2> QED
      BY <2>1, Lower
  <1>2. CASE validateAndSort
    <2>1. /\ pc = "sort" /\ pc' = "elo" /\ i' <= Len(sorted') + 1
      BY <1>2 DEF validateAndSort, IInv, LoopInv
    <2>2. PICK b \in Nat : b = Len(sorted') + 1 - i'
      BY <1>0, <2>1
    <2>3. Measure = <<4, 0, 0, 0>> /\ Measure' = <<3, 0, 0, b>>
      BY <2>1, <2>2 DEF Measure
    <2> QED
      BY <2>3, Lower
  <1>3. CASE EloMatch
    <2>1. pc = "elo" /\ pc' = "elo" /\ i <= Len(sorted) /\ i' = i + 1 /\ sorted' = sorted
      BY <1>3 DEF EloMatch
    <2>2. PICK a \in Nat : a = Len(sorted) + 1 - i
      BY <1>0, <2>1
    <2>3. PICK b \in Nat : b = Len(sorted') + 1 - i'
      BY <1>0, <2>1
    <2>4. Measure = <<3, 0, 0, a>> /\ Measure' = <<3, 0, 0, b>>
      BY <2>1, <2>2, <2>3 DEF Measure
    <2>5. b < a
      BY <1>0, <2>1, <2>2, <2>3
    <2> QED
      BY <2>4, <2>5, Lower
  <1>4. CASE EloDone
    <2>1. pc = "elo" /\ i <= Len(sorted) + 1 /\ i' = 1 /\ pc' \in {"group", "period"}
      BY <1>4 DEF EloDone, IInv, LoopInv
    <2>2. PICK a \in Nat : a = Len(sorted) + 1 - i
      BY <1>0, <2>1
    <2>3. Measure = <<3, 0, 0, a>>
      BY <2>1, <2>2 DEF Measure
    <2>4. CASE pc' = "group"
      <3>1. /\ sorted' # <<>> /\ cur'.start <= sorted'[Len(sorted')].at /\ cur'.start \in Nat
        BY <2>4 DEF IInv, GroupInv, Window, TypeOK, Periods
      <3>2. sorted'[Len(sorted')].at \in Nat
        <4>1. sorted' \in Seq(Matches) /\ Len(sorted') \in 1..Len(sorted')
          BY <1>0, <3>1 DEF IInv, TypeOK
        <4>2. sorted'[Len(sorted')] \in Matches
          BY <4>1
        <4> QED
          BY <4>2 DEF Matches
      <3>3. PICK c \in Nat : c = sorted'[Len(sorted')].at - cur'.start
        BY <3>1, <3>2
      <3>4. PICK b \in Nat : b = Len(sorted') + 1 - i'
        BY <1>0, <2>1
      <3>5. Measure' = <<2, b, 0, c>>
        BY <2>4, <3>3, <3>4 DEF Measure
      <3> QED
        BY <2>3, <3>5, Lower
    <2>5. CASE pc' = "period"
      <3>1. q' = 1 /\ periods' = <<>>
        BY <1>4 DEF EloDone, IInv, LoopInv, Grouped, glickoVars
      <3>2. Len(periods') + 1 - q' = 0
        BY <3>1
      <3>3. Measure' = <<1, 0, 3, 0>>
        BY <2>5, <3>2 DEF Measure
      <3> QED
        BY <2>3, <3>3, Lower
    <2> QED
      BY <2>1, <2>4, <2>5
  <1> QED
    BY <1>1, <1>2, <1>3, <1>4

\* So do the steps of groupByPeriod: a new period begins later than the one
\* before it and not after the last match.
LEMMA DescendGroup ==
    ASSUME IInv, IInv', Advance \/ Place \/ CloseLast
    PROVE  Descends
  <1>1. /\ pc = "group" /\ i \in Nat /\ Len(sorted) \in Nat /\ i <= Len(sorted) + 1
        /\ sorted' = sorted /\ sorted # <<>>
    BY DEF Advance, Place, CloseLast, IInv, TypeOK, LoopInv, GroupInv
  <1>2. PICK z \in Nat : z = sorted[Len(sorted)].at
    <2>1. Len(sorted) \in 1..Len(sorted) /\ TypeOK
      BY <1>1 DEF IInv, TypeOK
    <2> QED
      BY <2>1, MatchType
  <1>3. cur.start \in Nat /\ cur.start <= z
    BY <1>1, <1>2 DEF IInv, GroupInv, Window, TypeOK, Periods
  <1>4. PICK a \in Nat : a = Len(sorted) + 1 - i
    BY <1>1
  <1>5. PICK b \in Nat : b = z - cur.start
    BY <1>3
  <1>6. Measure = <<2, a, 0, b>>
    BY <1>1, <1>2, <1>4, <1>5 DEF Measure
  <1>7. CASE CloseLast
    <2>1. pc' = "period" /\ q' <= Len(periods') + 1 /\ q' \in Nat /\ Len(periods') \in Nat
      BY <1>7 DEF CloseLast, IInv, LoopInv, Grouped, TypeOK
    <2>2. PICK c \in Nat : c = Len(periods') + 1 - q'
      BY <2>1
    <2>3. Measure' = <<1, c, 3, 0>>
      BY <2>1, <2>2 DEF Measure
    <2> QED
      BY <1>6, <2>3, Lower
  <1>8. CASE Advance \/ Place
    <2>1. pc' = "group"
      BY <1>1, <1>8 DEF Advance, Place
    <2>2. cur'.start \in Nat /\ cur'.start <= z
      BY <1>1, <1>2, <2>1 DEF IInv, GroupInv, Window, TypeOK, Periods
    <2>3. i' \in Nat /\ i' <= Len(sorted) + 1
      BY <1>1, <2>1 DEF IInv, LoopInv, TypeOK
    <2>4. PICK c \in Nat : c = Len(sorted) + 1 - i'
      BY <1>1, <2>3
    <2>5. PICK d \in Nat : d = z - cur'.start
      BY <2>2
    <2>6. Measure' = <<2, c, 0, d>>
      BY <1>1, <1>2, <2>1, <2>4, <2>5 DEF Measure
    <2>7. CASE Advance
      <3>1. i' = i /\ cur'.start = cur.start + dur
        BY <2>7 DEF Advance
      <3>2. dur \in Nat /\ dur >= 1
        BY DurType DEF IInv
      <3>3. c = a /\ d < b
        BY <1>3, <1>4, <1>5, <2>4, <2>5, <3>1, <3>2
      <3> QED
        BY <1>6, <2>6, <3>3, Lower
    <2>8. CASE Place
      <3>1. i' = i + 1
        BY <2>8 DEF Place
      <3>2. c < a
        BY <1>1, <1>4, <2>4, <3>1
      <3> QED
        BY <1>6, <2>6, <3>2, Lower
    <2> QED
      BY <1>8, <2>7, <2>8
  <1> QED
    BY <1>7, <1>8

\* So do the steps of the loop over the periods.
LEMMA DescendPeriod ==
    ASSUME IInv, IInv',
           \/ BeginPeriod \/ Collect \/ Snapshot
           \/ \E p \in Players : Update(p)
           \/ Inflate \/ MetaUpdate \/ EndPeriod \/ Return
    PROVE  Descends
  <1>1. /\ periods' = periods /\ Len(periods) \in Nat /\ q \in Nat /\ i \in Nat /\ i' \in Nat
        /\ pc \in {"period", "collect", "update", "meta"} /\ q <= Len(periods) + 1 /\ q >= 1
    BY DEF BeginPeriod, Collect, Snapshot, Update, Inflate, MetaUpdate, EndPeriod, Return,
           groupVars, IInv, TypeOK, LoopInv, Grouped
  <1>2. PICK r \in Nat : r = Len(periods) + 1 - q
    BY <1>1
  <1>3. CASE Return
    <2>1. Measure = <<1, r, 3, 0>> /\ Measure' = <<0, 0, 0, 0>>
      BY <1>2, <1>3 DEF Return, Measure
    <2> QED
      BY <2>1, Lower
  <1>4. CASE EndPeriod
    <2>1. pc = "meta" /\ pc' = "period" /\ q' = q + 1 /\ q <= Len(periods)
          /\ i <= periods[q].to + 1
      BY <1>4 DEF EndPeriod, IInv, LoopInv, InPeriod
    <2>2. periods[q].to \in Nat
      BY <1>1, <2>1, PeriodType DEF IInv
    <2>3. PICK a \in Nat : a = periods[q].to + 1 - i
      BY <1>1, <2>1, <2>2
    <2>4. PICK b \in Nat : b = Len(periods') + 1 - q'
      BY <1>1, <2>1
    <2>5. Measure = <<1, r, 0, a>> /\ Measure' = <<1, b, 3, 0>>
      BY <1>2, <2>1, <2>3, <2>4 DEF Measure
    <2>6. b < r
      BY <1>1, <1>2, <2>1, <2>4
    <2> QED
      BY <2>5, <2>6, Lower
  <1>5. CASE BeginPeriod \/ Collect \/ Snapshot \/ (\E p \in Players : Update(p)) \/ Inflate
             \/ MetaUpdate
    <2>1. q' = q /\ q <= Len(periods) /\ pc' \in {"collect", "update", "meta"}
      BY <1>5 DEF BeginPeriod, Collect, Snapshot, Update, Inflate, MetaUpdate, IInv, LoopInv,
                  InPeriod
    <2>2. periods[q].to \in Nat
      BY <1>1, <2>1, PeriodType DEF IInv
    <2>3. pc \in {"collect", "meta"} => i <= periods[q].to + 1
      BY DEF IInv, LoopInv
    <2>4. pc' \in {"collect", "meta"} => i' <= periods[q].to + 1
      BY <1>1, <2>1 DEF IInv, LoopInv
    <2>5. r = Len(periods') + 1 - q'
      BY <1>1, <1>2, <2>1
    <2>6. IsFiniteSet(todo) /\ IsFiniteSet(todo')
      BY FS_Subset DEF IInv, FiniteInv, TypeOK
    <2>7. PICK c \in Nat : c = Cardinality(todo)
      BY <2>6, FS_CardinalityType
    <2>8. PICK e \in Nat : e = Cardinality(todo')
      BY <2>6, FS_CardinalityType
    <2>9. CASE BeginPeriod
      <3>1. pc = "period" /\ pc' = "collect"
        BY <2>9 DEF BeginPeriod
      <3>2. PICK b \in Nat : b = periods'[q'].to + 1 - i'
        BY <1>1, <2>1, <2>2, <2>4, <3>1
      <3>3. Measure = <<1, r, 3, 0>> /\ Measure' = <<1, r, 2, b>>
        BY <1>2, <2>5, <3>1, <3>2 DEF Measure
      <3> QED
        BY <3>3, Lower
    <2>10. CASE Collect
      <3>1. pc = "collect" /\ pc' = "collect" /\ i' = i + 1
        BY <2>10 DEF Collect
      <3>2. PICK a \in Nat : a = periods[q].to + 1 - i
        BY <1>1, <2>2, <2>3, <3>1
      <3>3. PICK b \in Nat : b = periods'[q'].to + 1 - i'
        BY <1>1, <2>1, <2>2, <2>4, <3>1
      <3>4. Measure = <<1, r, 2, a>> /\ Measure' = <<1, r, 2, b>>
        BY <1>2, <2>5, <3>1, <3>2, <3>3 DEF Measure
      <3>5. b < a
        BY <1>1, <2>1, <2>2, <3>1, <3>2, <3>3
      <3> QED
        BY <3>4, <3>5, Lower
    <2>11. CASE Snapshot
      <3>1. pc = "collect" /\ pc' = "update"
        BY <2>11 DEF Snapshot
      <3>2. PICK a \in Nat : a = periods[q].to + 1 - i
        BY <1>1, <2>2, <2>3, <3>1
      <3>3. Measure = <<1, r, 2, a>> /\ Measure' = <<1, r, 1, e>>
        BY <1>2, <2>5, <2>8, <3>1, <3>2 DEF Measure
      <3> QED
        BY <3>3, Lower
    <2>12. ASSUME NEW p \in Players, Update(p)
           PROVE  Descends
      <3>1. pc = "update" /\ pc' = "update" /\ p \in todo /\ todo' = todo \ {p}
        BY <2>12 DEF Update
      <3>2. Measure = <<1, r, 1, c>> /\ Measure' = <<1, r, 1, e>>
        BY <1>2, <2>5, <2>7, <2>8, <3>1 DEF Measure
      <3>3. Cardinality(todo \ {p}) = Cardinality(todo) - 1
        BY <2>6, <3>1, FS_RemoveElement
      <3>4. e < c
        BY <2>7, <2>8, <3>1, <3>3
      <3> QED
        BY <3>2, <3>4, Lower
    <2>13. CASE Inflate
      <3>1. pc = "update" /\ pc' = "meta"
        BY <2>13 DEF Inflate
      <3>2. PICK b \in Nat : b = periods'[q'].to + 1 - i'
        BY <1>1, <2>1, <2>2, <2>4, <3>1
      <3>3. Measure = <<1, r, 1, c>> /\ Measure' = <<1, r, 0, b>>
        BY <1>2, <2>5, <2>7, <3>1, <3>2 DEF Measure
      <3> QED
        BY <3>3, Lower
    <2>14. CASE MetaUpdate
      <3>1. pc = "meta" /\ pc' = "meta" /\ i' = i + 1
        BY <2>14 DEF MetaUpdate
      <3>2. PICK a \in Nat : a = periods[q].to + 1 - i
        BY <1>1, <2>2, <2>3, <3>1
      <3>3. PICK b \in Nat : b = periods'[q'].to + 1 - i'
        BY <1>1, <2>1, <2>2, <2>4, <3>1
      <3>4. Measure = <<1, r, 0, a>> /\ Measure' = <<1, r, 0, b>>
        BY <1>2, <2>5, <3>1, <3>2, <3>3 DEF Measure
      <3>5. b < a
        BY <1>1, <2>1, <2>2, <3>1, <3>2, <3>3
      <3> QED
        BY <3>4, <3>5, Lower
    <2> QED
      BY <1>5, <2>9, <2>10, <2>11, <2>12, <2>13, <2>14
  <1> QED
    BY <1>3, <1>4, <1>5

\* Every step of the engines lowers the measure, whatever matches they are given
\* and whatever length of the rating period that fits a time.Duration: they end.
THEOREM EnginesEnd == Spec => EveryStepDescends
  <1>1. IInv /\ IInv' /\ [Next]_vars => [Descends]_vars
    <2>1. ASSUME IInv, IInv', Next
          PROVE  Descends \/ UNCHANGED vars
      BY <2>1, DescendElo, DescendGroup, DescendPeriod DEF Next, Returned
    <2> QED
      BY <2>1
  <1> QED
    BY <1>1, Inductive, PTL DEF Spec, EveryStepDescends

=============================================================================
