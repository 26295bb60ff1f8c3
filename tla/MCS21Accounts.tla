--------------------------- MODULE MCS21Accounts ----------------------------
(***************************************************************************)
(* S21Accounts on small instances.                                         *)
(***************************************************************************)
EXTENDS S21Accounts

CONSTANTS u1, u2, w1, w2

=============================================================================
