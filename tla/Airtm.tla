------------------------------- MODULE Airtm -------------------------------
(***************************************************************************)
(* The external Airtm payment API, as far as the hub relies on it.  Both   *)
(* calls name the hub's transaction as their reference, so what Airtm has  *)
(* done is recorded per transaction.  A payout call pays out every time it *)
(* arrives; a session is created once, and the user pays it or abandons it *)
(* at any later time.  Airtm may report the state of a session to the      *)
(* hub's webhook, before and after its end, more than once; it does not    *)
(* report on payouts there.                                                *)
(***************************************************************************)
EXTENDS Naturals

CONSTANT MaxCallbacks   \* how often Airtm may report on one session

ASSUME AirtmAssumption == MaxCallbacks \in Nat \ {0}

VARIABLES
  payout,     \* payouts made for each withdrawal
  deposit,    \* the session of each top-up
  notified    \* callbacks the hub has accepted for each session

DepositState == {"none", "open", "paid", "abandoned"}

Ended == {"paid", "abandoned"}

InitAirtm(keys) ==
  /\ payout   = [k \in keys |-> 0]
  /\ deposit  = [k \in keys |-> "none"]
  /\ notified = [k \in keys |-> 0]

(* POST /withdrawals. *)
Transferred(k) == [payout EXCEPT ![k] = @ + 1]

(* POST /payments/session. *)
SessionOpened(k) == [deposit EXCEPT ![k] = IF @ = "none" THEN "open" ELSE @]

(* The user pays at Airtm, or leaves. *)
SessionEnds(k) ==
  /\ deposit[k] = "open"
  /\ \E end \in Ended : deposit' = [deposit EXCEPT ![k] = end]
  /\ UNCHANGED <<payout, notified>>
=============================================================================
