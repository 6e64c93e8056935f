------------------------------ MODULE MCAccess ------------------------------
(* Access for accounts alone, or for Workers; the .cfg files choose.       *)
EXTENDS Access, TLC

CONSTANTS u1, u2, u3, c1, c2, c3, c4, k1, k2, w1, w2, h1, h2

AccountSymmetry ==
  Permutations({u1, u2, u3}) \cup Permutations({c1, c2, c3, c4}) \cup Permutations({h1, h2})
WorkerSymmetry ==
  Permutations({u1, u2}) \cup Permutations({c1, c2}) \cup Permutations({k1, k2})
    \cup Permutations({w1, w2}) \cup Permutations({h1, h2})
=============================================================================
