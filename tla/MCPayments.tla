----------------------------- MODULE MCPayments -----------------------------
(***************************************************************************)
(* A small instance of Payments for TLC: one payment of alice, a top-up or *)
(* a withdrawal, under every fault.                                        *)
(***************************************************************************)
EXTENDS Payments, TLC

CONSTANTS alice, k1, r1

Alice150 == [u \in Users |-> 150]

AllFaults == FaultKinds
=============================================================================
