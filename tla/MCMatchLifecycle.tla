-------------------------- MODULE MCMatchLifecycle --------------------------
(***************************************************************************)
(* MatchLifecycle on small instances: two players, one chat admin who does *)
(* not play unless a pairing says so.                                      *)
(***************************************************************************)
EXTENDS MatchLifecycle, TLC

CONSTANTS alice, bob, adm, w1, w2

\* /match messages name the two players in one order.
OnePairing == {<<alice, bob>>}

\* The admin plays as well, and a message may name one player twice.
SomePairings == {<<alice, bob>>, <<adm, bob>>, <<bob, bob>>}

\* Workers run the same code.  Players are interchangeable only where the
\* pairings are closed under swapping them, which these are not.
WorkerSymmetry == Permutations({w1, w2})

=============================================================================
