---------------------------- MODULE MCNickCache -----------------------------
(***************************************************************************)
(* NickCache on small instances.                                           *)
(***************************************************************************)
EXTENDS NickCache, TLC

CONSTANTS t1, t2, t3, c1, c2, w1, w2

CacheSymmetry ==
    Permutations({t2, t3}) \cup Permutations({c1, c2}) \cup Permutations({w1, w2})

=============================================================================
