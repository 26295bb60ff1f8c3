---------------------------- MODULE MatchLedger ----------------------------
(***************************************************************************)
(* What the bot promises about the matches of a group, without handlers,   *)
(* tables or messages: a match is registered, then confirmed by an admin   *)
(* or by both players, or dropped; a confirmed match is taken out of the   *)
(* ratings, and back in, when an admin or both players ask for it.         *)
(***************************************************************************)
EXTENDS Naturals

CONSTANTS Users, Admins, MaxMatches

VARIABLES
    status,    \* of each match: "free" (id not handed out), or a status, or "dropped"
    players,   \* of each match: the set of its two players, {} while free or dropped
    vouchers,  \* of each match: who has confirmed it
    requests   \* of each match: whose request to undo or restore it is open

ledger == <<status, players, vouchers, requests>>

Ids == 1..MaxMatches

LedgerInit ==
    /\ status = [m \in Ids |-> "free"]
    /\ players = [m \in Ids |-> {}]
    /\ vouchers = [m \in Ids |-> {}]
    /\ requests = [m \in Ids |-> {}]

\* An admin, or both players, stand behind a change of match m.
Enough(S, m) == S \cap Admins # {} \/ players[m] \subseteq S

\* The next id is handed out; an admin's match starts out approved.
Register(m, u, pair) ==
    /\ status[m] = "free"
    /\ \A k \in 1..(m - 1) : status[k] # "free"
    /\ players' = [players EXCEPT ![m] = pair]
    /\ \/ status' = [status EXCEPT ![m] = "PENDING"]
       \/ u \in Admins /\ status' = [status EXCEPT ![m] = "APPROVED"]
    /\ UNCHANGED <<vouchers, requests>>

Vouch(m, u) ==
    /\ status[m] = "PENDING"
    /\ vouchers' = [vouchers EXCEPT ![m] = @ \cup {u}]
    /\ UNCHANGED <<status, players, requests>>

Approve(m) ==
    /\ status[m] = "PENDING"
    /\ Enough(vouchers[m], m)
    /\ status' = [status EXCEPT ![m] = "APPROVED"]
    /\ UNCHANGED <<players, vouchers, requests>>

Drop(m) ==
    /\ status[m] = "PENDING"
    /\ status' = [status EXCEPT ![m] = "dropped"]
    /\ players' = [players EXCEPT ![m] = {}]
    /\ vouchers' = [vouchers EXCEPT ![m] = {}]
    /\ UNCHANGED requests

Ask(m, u) ==
    /\ status[m] \in {"APPROVED", "UNDONE"}
    /\ requests' = [requests EXCEPT ![m] = @ \cup {u}]
    /\ UNCHANGED <<status, players, vouchers>>

\* Withdrawn, or expired.
Retract(m, u) ==
    /\ requests' = [requests EXCEPT ![m] = @ \ {u}]
    /\ UNCHANGED <<status, players, vouchers>>

\* The requests are spent on the change.
Toggle(m) ==
    /\ Enough(requests[m], m)
    /\ \/ status[m] = "APPROVED" /\ status' = [status EXCEPT ![m] = "UNDONE"]
       \/ status[m] = "UNDONE" /\ status' = [status EXCEPT ![m] = "APPROVED"]
    /\ requests' = [requests EXCEPT ![m] = {}]
    /\ UNCHANGED <<players, vouchers>>

LedgerNext ==
    \E m \in Ids :
        \/ Approve(m) \/ Drop(m) \/ Toggle(m)
        \/ \E u \in Users : Vouch(m, u) \/ Ask(m, u) \/ Retract(m, u)
        \/ \E u, p, q \in Users : p # q /\ Register(m, u, {p, q})

LedgerSpec == LedgerInit /\ [][LedgerNext]_ledger

=============================================================================
