----------------------------- MODULE MCNexusHub -----------------------------
(***************************************************************************)
(* A small instance of NexusHub for TLC: alice funds an escrow for bob,    *)
(* withdraws and tops up, all from and into one balance row.               *)
(***************************************************************************)
EXTENDS NexusHub, TLC

CONSTANTS alice, bob, k1, k2, k3, r1, p1, p2

Alice150 == [u \in Users |-> IF u = alice THEN 150 ELSE 0]

OnlyApiCrash == {"apiCrash"}

Symmetric == Permutations(Keys) \cup Permutations(Callers)
=============================================================================
