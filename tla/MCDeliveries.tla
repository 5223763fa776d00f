---------------------------- MODULE MCDeliveries ----------------------------
(***************************************************************************)
(* A small instance of Deliveries for TLC: one endpoint, which may be      *)
(* switched between two events, and one job for the first of them.         *)
(***************************************************************************)
EXTENDS Deliveries

CONSTANTS x1, x2, h1, ep1, r1, r2

FirstEvent == [h \in Hooks |-> x1]

AllFaults == {"dbFails", "workerCrash"}
=============================================================================
