------------------------------- MODULE Wallet -------------------------------
(***************************************************************************)
(* What the balances table promises, without versions, transactions, jobs  *)
(* or contracts: money moves between the two columns of a user and from a  *)
(* client to a freelancer only in whole deals.                             *)
(***************************************************************************)
EXTENDS Integers

CONSTANTS
  Users, Funds,
  Deals,        \* the amounts an escrow may have
  Fee(_)        \* the platform's fee for an amount

VARIABLE money  \* what each user has, [available, reserved]

Cost(a) == a + Fee(a)

Init == money = [u \in Users |-> [available |-> Funds[u], reserved |-> 0]]

Shift(u, available, reserved) ==
  [available |-> money[u].available + available, reserved |-> money[u].reserved + reserved]

(* A client locks an amount and its fee, out of what is available.         *)
Hold(u, a) ==
  /\ money[u].available >= Cost(a)
  /\ money' = [money EXCEPT ![u] = Shift(u, -Cost(a), Cost(a))]

(* A lock is given back in full.                                           *)
Unhold(u, a) ==
  money' = [money EXCEPT ![u] = Shift(u, Cost(a), -Cost(a))]

(* A lock is spent: the amount goes to somebody else, the fee to the       *)
(* platform.                                                               *)
PayOut(u, v, a) ==
  /\ u # v
  /\ money' = [money EXCEPT ![u] = Shift(u, 0, -Cost(a)), ![v] = Shift(v, a, 0)]

Next == \E u \in Users, a \in Deals :
          Hold(u, a) \/ Unhold(u, a) \/ \E v \in Users : PayOut(u, v, a)

Spec == Init /\ [][Next]_money

-----------------------------------------------------------------------------
(* The promise when nothing fails in the worker: in addition, only what is *)
(* reserved is given back or spent.                                        *)
Backed(u, a) == money[u].reserved >= Cost(a)

BackedNext == \E u \in Users, a \in Deals :
                \/ Hold(u, a)
                \/ Backed(u, a) /\ (Unhold(u, a) \/ \E v \in Users : PayOut(u, v, a))

BackedSpec == Init /\ [][BackedNext]_money
=============================================================================
