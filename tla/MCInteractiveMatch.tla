------------------------- MODULE MCInteractiveMatch -------------------------
(***************************************************************************)
(* InteractiveMatch on small instances.  Scores are 0 and 1: enough for a  *)
(* tie, a winner and a changed mind.                                       *)
(***************************************************************************)
EXTENDS InteractiveMatch

CONSTANTS w1, w2, c1, d1, d2, bob, carol

AllPressed == Payloads

\* One way to each outcome, and a change of mind: bob, 0 or 1 to 0, and
\* Confirm or Cancel.
FewPressed == {p \in Payloads : \/ p.kind \in {"opp", "confirm", "cancel"}
                                \/ p.kind = "s" /\ (p.side = 1 \/ p.val = 0)}

=============================================================================
