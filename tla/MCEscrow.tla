------------------------------ MODULE MCEscrow ------------------------------
(***************************************************************************)
(* Small instances of Escrow for TLC: alice is the client, or alice and    *)
(* bob are each other's clients.                                           *)
(***************************************************************************)
EXTENDS Escrow, TLC

CONSTANTS alice, bob, k1, k2, k3, k4, r1, r2

(* An escrow of 100 and its fee of 1 can be paid twice by alice, or once   *)
(* by each of the two.                                                     *)
TwoDeals == [u \in Users |-> IF u = alice THEN 202 ELSE 0]
BothRich == [u \in Users |-> 150]

NoFaults     == {}
QueuesAndWorkersFail == {"queueFails", "workerCrash"}
OnlyCallFails   == {"callFails"}
OnlyWorkerCrash == {"workerCrash"}

(* Keys and requests are only ever compared for equality.                  *)
Symmetric == Permutations(Keys) \cup Permutations(Requests)
=============================================================================
