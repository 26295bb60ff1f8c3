----------------------------- MODULE MCRatings ------------------------------
EXTENDS Ratings

CONSTANTS ann, bob, cleo, MaxMatches, Times

\* A win of the first player or a draw; a win of the second player is the
\* first with the players exchanged.
Scored(p, r, t) == {[p1 |-> p, p2 |-> r, s1 |-> s, s2 |-> 1, at |-> t] : s \in {1, 2}}
Played(pairs) == UNION {Scored(x[1], x[2], t) : x \in pairs, t \in Times}

\* Bound: who plays whom.
Pairs == {<<ann, bob>>, <<bob, ann>>, <<bob, cleo>>, <<cleo, ann>>}

\* Whoever plays the first match is called ann or bob.  Two lists are refused.
MCInputs ==
    {s \in UNION {[1..n -> Played(Pairs)] : n \in 0..MaxMatches} :
        s # <<>> => s[1].p1 = ann /\ s[1].p2 = bob}
    \cup {<<m>> : m \in Scored(ann, ann, 1)}

=============================================================================
