--------------------------- MODULE PaymentLedger ---------------------------
(***************************************************************************)
(* What top-ups and withdrawals promise, without versions, jobs, requests  *)
(* or the order of calls: money leaves a user only under a new key and out *)
(* of what is available; it comes in only for a deposit of that user which *)
(* Airtm has confirmed, or as the return of a debit of that user, and      *)
(* always the whole sum.  How often a sum may come in is not promised: an  *)
(* attempt that fails half-way may be made again.                          *)
(***************************************************************************)
EXTENDS Integers

CONSTANTS Keys, Users, Funds, Sums

VARIABLES
  money,       \* what each user has, [available, reserved]
  debited,     \* withdrawals, <<key, user, sum>>
  announced,   \* top-ups, <<key, user, sum>>
  confirmed    \* keys of the top-ups the users have paid for

ledger == <<money, debited, announced, confirmed>>

Init ==
  /\ money = [u \in Users |-> [available |-> Funds[u], reserved |-> 0]]
  /\ debited = {} /\ announced = {} /\ confirmed = {}

Plus(u, a) == [money EXCEPT ![u].available = @ + a]

Fresh(k) == \A entry \in debited \cup announced : entry[1] # k

Debit(k, u, a) ==
  /\ Fresh(k)
  /\ money[u].available >= a
  /\ money' = Plus(u, -a)
  /\ debited' = debited \cup {<<k, u, a>>}
  /\ UNCHANGED <<announced, confirmed>>

Announce(k, u, a) ==
  /\ Fresh(k)
  /\ announced' = announced \cup {<<k, u, a>>}
  /\ UNCHANGED <<money, debited, confirmed>>

Confirm(k, u, a) ==
  /\ <<k, u, a>> \in announced
  /\ confirmed' = confirmed \cup {k}
  /\ UNCHANGED <<money, debited, announced>>

Credit(k, u, a) ==
  /\ <<k, u, a>> \in announced
  /\ k \in confirmed
  /\ money' = Plus(u, a)
  /\ UNCHANGED <<debited, announced, confirmed>>

Restore(k, u, a) ==
  /\ <<k, u, a>> \in debited
  /\ money' = Plus(u, a)
  /\ UNCHANGED <<debited, announced, confirmed>>

Next == \E k \in Keys, u \in Users, a \in Sums :
          \/ Debit(k, u, a) \/ Announce(k, u, a) \/ Confirm(k, u, a)
          \/ Credit(k, u, a) \/ Restore(k, u, a)

Spec == Init /\ [][Next]_ledger
=============================================================================
