------------------------------ MODULE Ratings -------------------------------
(***************************************************************************)
(* computeRatingsFor, from the group's matches to the ratings.  Ratings    *)
(* are never stored: every refresh computes them anew, so a match that is  *)
(* confirmed, undone or restored late changes the past.                    *)
(*                                                                         *)
(* The engines are given once more, as folds over the matches in the order *)
(* of play; module EngineLoops has their loops.  A rating is the term that *)
(* says which formula was applied to what, so two ratings are equal        *)
(* exactly when the formulas were given the same values.                   *)
(***************************************************************************)
EXTENDS EngineLoops, TLC

LOCAL INSTANCE SequencesExt

-----------------------------------------------------------------------------
(* The formulas as terms. *)

NoRating == <<>>

\* own + k * (s - expected(own, opp))
EloTerm(own, opp, k, s) == <<own, opp, k, s>>

\* glicko2Update against the opponents in the order of play, and its step 6
\* alone.
GlickoTerm(own, met) ==
    LET order == SetToSortSeq(DOMAIN met, <)
    IN  <<own, [n \in DOMAIN order |-> met[order[n]]]>>
InflatedTerm(own) == <<own>>

-----------------------------------------------------------------------------
(* From the store to the engines.  The index of a row is its match id. *)

\* The matches in the order of play, ties by id.
ListByGroup(rows) ==
    LET order == SortSeq([n \in DOMAIN rows |-> n],
                         LAMBDA m, n : \/ rows[m].at < rows[n].at
                                       \/ rows[m].at = rows[n].at /\ m < n)
    IN  [n \in DOMAIN rows |-> rows[order[n]]]

\* An approved match of two players whose nicknames are found.
Counts(m, names) == m.approved /\ {m.p1, m.p2} \subseteq names

\* The input of an engine, in an order that its own sort keeps.
input(rows, names) == SelectSeq(ListByGroup(rows), LAMBDA m : Counts(m, names))

-----------------------------------------------------------------------------
(* The engines. *)

\* A match of the ELO loop.
EloFold(pr, m) ==
    LET Updated(p) ==
            LET r == get(pr, p)
            IN  Entry(EloFormula(r.rating, get(pr, Opponent(p, m)).rating,
                                 eloK(r.meta.games), Outcome(p, m)),
                      applyMeta(r.meta, p, m))
    IN  [p \in {m.p1, m.p2} |-> Updated(p)] @@ pr

Elo(ms) == FoldLeft(EloFold, <<>>, ms)

\* The matches of each period, by division instead of groupByPeriod's loops.
InPeriods(ms, length) ==
    LET Number(m) == 1 + (m.at - StartOfDay(ms[1].at)) \div length
    IN  IF ms = <<>> THEN <<>>
        ELSE [n \in 1..Number(ms[Len(ms)]) |-> SelectSeq(ms, LAMBDA m : Number(m) = n)]

\* What a player met in a period: the opponents' values as they were before it.
Opponents(pr, p, ms) ==
    LET mine == SelectSeq(ms, LAMBDA m : Plays(p, m))
    IN  [n \in DOMAIN mine |-> <<get(pr, Opponent(p, mine[n])).rating, Outcome(p, mine[n])>>]

GlickoPeriod(pr, ms) ==
    LET participants == UNION {{ms[n].p1, ms[n].p2} : n \in DOMAIN ms}
        Record(meta, p) == FoldLeft(LAMBDA r, m : IF Plays(p, m) THEN applyMeta(r, p, m) ELSE r,
                                    meta, ms)
    IN  [p \in participants |-> Entry(GlickoFormula(get(pr, p).rating, Opponents(pr, p, ms)),
                                      Record(get(pr, p).meta, p))]
        @@ [p \in DOMAIN pr |-> Entry(Inflated(pr[p].rating), pr[p].meta)]

Glicko(ms, length) == FoldLeft(GlickoPeriod, <<>>, InPeriods(ms, length))

\* computeRatingsFor, with both engines.
computeRatingsFor(rows, names) ==
    LET counted == input(rows, names)
    IN  [elo |-> Elo(counted), glicko |-> Glicko(counted, dur)]

-----------------------------------------------------------------------------
(* Properties. *)

\* The given matches as rows; those in "out" are pending or undone.
RowsWithout(out) ==
    [n \in DOMAIN given |-> [p1 |-> given[n].p1, p2 |-> given[n].p2, s1 |-> given[n].s1,
                             s2 |-> given[n].s2, at |-> given[n].at, approved |-> n \notin out]]

\* A Glicko-2 rating without the growth of the deviation since the last game.
RECURSIVE Settled(_)
Settled(r) == IF Len(r) = 1 THEN Settled(r[1]) ELSE r

\* Those whom matches that do not count would reach: their own players, and
\* whoever later plays someone already reached.
Downstream(rows, names) ==
    LET Reach(S, m) == IF ~Counts(m, names) \/ {m.p1, m.p2} \cap S # {}
                       THEN S \cup {m.p1, m.p2} ELSE S
    IN  FoldLeft(Reach, {}, ListByGroup(rows))

\* Undoing, restoring or confirming an old match, or a nickname that is not
\* found, recomputes everything but moves only the ratings of players whom the
\* change reaches through later matches (computeRatingsFor).  Of Glicko-2 this is
\* true of periods of one day, which the default is: longer ones are counted from
\* the first match.  Without a change the loops of the engines compute what the
\* folds do, whatever the length of the period.
EffectsFlowForward ==
    pc = "done" =>
        \A out \in {{}} \cup {{n} : n \in DOMAIN given} :
            \A names \in {Players} \cup {Players \ {p} : p \in Players} :
                LET rows == RowsWithout(out)
                    other == computeRatingsFor(rows, names)
                    reached == Downstream(rows, names)
                IN  \A p \in Players \ reached :
                        /\ get(other.elo, p) = get(elo, p)
                        /\ reached = {} => get(other.glicko, p) = get(players, p)
                        /\ NewGlicko2(days) = 1 => Settled(get(other.glicko, p).rating)
                                                   = Settled(get(players, p).rating)

=============================================================================
