------------------------------ MODULE NexusHub ------------------------------
(***************************************************************************)
(* The money of the hub: escrows, top-ups and withdrawals act on the same  *)
(* balance rows and insert into the same transactions table, each with its *)
(* own requests, queue and workers.                                        *)
(***************************************************************************)
EXTENDS Escrow, Payments

escrowVars == <<chain, escrow, job, event, req, run>>
hubVars == <<balance, txn, escrowVars, paymentVars>>

HubInit == Init /\ InitPayments

HubNext ==
  \/ Next /\ UNCHANGED paymentVars
  \/ PaymentsNext /\ UNCHANGED escrowVars

HubSpec == HubInit /\ [][HubNext]_hubVars

-----------------------------------------------------------------------------
(* The two components keep each other's invariants.                        *)
HubInv == IInv /\ PaymentsInv

(* The books of the whole hub balance while no worker step fails: what     *)
(* users hold, the fees earned and the withdrawals that are not FAILED add *)
(* up to what was there and what confirmed top-ups have brought in.        *)
Withdrawn ==
  SumFunction([row \in {x \in Rows("WITHDRAWAL") : x.status # "FAILED"} |-> row.amount])

Credited == {j \in PaymentJobs : /\ j[1] = "credit"
                                 /\ RunAt(j, "notify") \/ pjob[j].state = "completed"}

HubBooksBalance ==
  Holdings + FeesEarned + Withdrawn
    = SumFunction(Funds) + SumFunction([j \in Credited |-> Payment(j[2]).amount])

(* The hub can pay what it owes, while no worker step fails and Airtm      *)
(* confirms a deposit once: what users hold, the fees and what Airtm has   *)
(* paid out never exceed what came in.                                     *)
PaidOutSum ==
  SumFunction([k \in {x \in Keys : payout[x] > 0} |-> payout[k] * Payment(k).amount])

PaidInSum == SumFunction([k \in {x \in Keys : deposit[x] = "paid"} |-> Payment(k).amount])

Solvent == Holdings + FeesEarned + PaidOutSum <= SumFunction(Funds) + PaidInSum

-----------------------------------------------------------------------------
(* Every step of the hub is a step of the abstract wallet of escrows or of *)
(* the abstract ledger of payments, on the one balances table.             *)
HubLedgerSpec ==
  /\ W!Init /\ L!Init
  /\ [][ \/ W!Next /\ UNCHANGED <<Entries("WITHDRAWAL"), Entries("TOPUP"),
                                  {k \in Keys : deposit[k] = "paid"}>>
         \/ L!Next ]_<<L!ledger>>
=============================================================================
