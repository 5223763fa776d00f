---------------------------- MODULE MCArbitration ----------------------------
(***************************************************************************)
(* Small instances of Arbitration for TLC: one escrow from alice to bob.   *)
(***************************************************************************)
EXTENDS Arbitration, TLC

CONSTANTS alice, bob, k1, k2, r1, d1, d2, x1, x2

TwoDeals == [u \in Users |-> IF u = alice THEN 202 ELSE 0]

NoFaults      == {}
OnlyCallFails == {"callFails"}
CallsAndStatementsFail == {"callFails", "callLost", "dbFails"}
OnlyApiCrash  == {"apiCrash"}

Decisions == {"RESOLVED_CLIENT", "RESOLVED_FREELANCER", "CLOSED"}

Symmetric == Permutations(Keys) \cup Permutations(DisputeRequests)
=============================================================================
