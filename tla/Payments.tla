------------------------------ MODULE Payments ------------------------------
(***************************************************************************)
(* Top-ups and withdrawals: the services of the API, the two processors of *)
(* the worker and Airtm, over the balances and transactions tables.        *)
(***************************************************************************)
EXTENDS PaymentServices, PaymentProcessors, Functions

paymentVars == <<pjob, pevent, payout, deposit, notified, preq, prun>>
payVars == <<balance, txn, paymentVars>>

InitPayments == InitPaymentStore /\ InitServices /\ InitProcessors

PaymentsInit == InitStore /\ InitPayments

AirtmNext == \E k \in Keys : SessionEnds(k)

PaymentsNext ==
  \/ ServicesNext /\ UNCHANGED prun
  \/ ProcessorsNext /\ UNCHANGED preq
  \/ AirtmNext /\ UNCHANGED <<balance, txn, pjob, pevent, preq, prun>>

PaymentsSpec == PaymentsInit /\ [][PaymentsNext]_payVars

(* The event loop resumes a request whose await has settled, and BullMQ    *)
(* hands every waiting job to a worker.  Nobody has to pay, and nothing    *)
(* has to crash.                                                           *)
PaymentsFairness ==
  /\ \A r \in Callers : WF_payVars(CallStep(r) /\ UNCHANGED prun)
  /\ \A j \in PaymentJobs : WF_payVars(PaymentStep(j) /\ UNCHANGED preq)

FairPayments == PaymentsSpec /\ PaymentsFairness

-----------------------------------------------------------------------------
PaymentRow == [key : Keys, type : {"TOPUP", "WITHDRAWAL"}, status : TransactionStatus,
               user : Users, amount : PaymentAmounts, escrow : {0}, reference : Nat]

(* Every table, job and process is in a state the schema and the code allow. *)
PaymentTypeOK ==
  /\ balance \in [Users -> BalanceRow]
  /\ \A row \in txn : IsPayment(row) => row \in PaymentRow
  /\ payout \in [Keys -> Nat]
  /\ deposit \in [Keys -> DepositState]
  /\ notified \in [Keys -> 0 .. MaxCallbacks]
  /\ pjob \in [PaymentJobs -> JobRecord]
  /\ pevent \subseteq PaymentEvents \X Keys
  /\ preq \in [Callers -> {NoCall} \cup PaymentCall]
  /\ prun \in [PaymentJobs -> PaymentRun]

(* README "concurrent requests cannot double-spend", for withdrawals.      *)
NobodyOverdrawn == \A u \in Users : balance[u].available >= 0

HasRow(k, type) == \E row \in txn : row.key = k /\ row.type = type

(* Airtm pays out only what was debited, whichever attempts fail, and a    *)
(* withdrawal that is COMPLETED, or announced as such, was paid; a top-up  *)
(* that is announced as completed was paid by the user at Airtm.           *)
PaymentsTruthful ==
  /\ \A k \in Keys : payout[k] > 0 => HasRow(k, "WITHDRAWAL")
  /\ \A row \in txn : row.type = "WITHDRAWAL" /\ row.status = "COMPLETED" => payout[row.key] > 0
  /\ \A k \in Keys :
       /\ <<"WITHDRAWAL_COMPLETED", k>> \in pevent => payout[k] > 0
       /\ <<"TOPUP_COMPLETED", k>> \in pevent => deposit[k] = "paid"

(***************************************************************************)
(* The inductive invariant the proofs use.                                 *)
(***************************************************************************)
KeysUnique == \A x, y \in txn : x.key = y.key => x = y

RowType(j) == IF j[1] = "withdraw" THEN "WITHDRAWAL" ELSE "TOPUP"

(* Jobs, the requests that add them, and whatever Airtm knows of, are      *)
(* about transactions that were recorded first.                            *)
RecordedFirst ==
  /\ \A j \in PaymentJobs : pjob[j].state # "none" => HasRow(j[2], RowType(j))
  /\ \A r \in Callers : CallAt(r, "add") => HasRow(preq[r].job[2], RowType(preq[r].job))
  /\ \A k \in Keys : deposit[k] # "none" => HasRow(k, "TOPUP")

(* A job is active exactly while a worker runs it, at a step of its kind.  *)
Steps ==
  [withdraw |-> {"pay", "markPaid", "restoreRead", "restoreWrite", "notify", "notifyFailed"},
   session  |-> {"session", "saveSession", "failTopup", "notifyFailed"},
   credit   |-> {"creditRead", "creditWrite", "notify"}]

PaymentsRunning == \A j \in PaymentJobs :
  /\ RunAt(j, "idle") <=> pjob[j].state # "active"
  /\ ~RunAt(j, "idle") => prun[j].pc \in Steps[j[1]]
  /\ pjob[j].state \in {"none", "waiting", "active"} =>
       pjob[j].attempts < MaxAttempts /\ pjob[j].stalled <= MaxStalled

(* A withdrawal that still finds the version it read finds the amount too. *)
DebitSound == \A r \in Callers :
  CallAt(r, "debitWrite") =>
    LET row == balance[preq[r].user]
    IN  /\ preq[r].job[1] = "withdraw"
        /\ preq[r].seen <= row.version
        /\ preq[r].seen = row.version => row.available >= preq[r].amount

(* What is credited was confirmed; what is marked as paid was paid.        *)
BackedByAirtm ==
  /\ \A j \in PaymentJobs : j[1] = "credit" /\ pjob[j].state # "none" => deposit[j[2]] = "paid"
  /\ \A r \in Callers : CallAt(r, "add") /\ preq[r].job[1] = "credit" =>
       deposit[preq[r].job[2]] = "paid"
  /\ \A k \in Keys : prun[WithdrawJob(k)].pc \in {"markPaid", "notify"} => payout[k] > 0

PaymentsInv ==
  /\ PaymentTypeOK /\ KeysUnique
  /\ RecordedFirst /\ PaymentsRunning
  /\ NobodyOverdrawn /\ DebitSound
  /\ BackedByAirtm /\ PaymentsTruthful

-----------------------------------------------------------------------------
(* Retries repeat what they do at most once a run.  Airtm pays a           *)
(* withdrawal once for each run of its job at most; and what a user has is *)
(* the funds less what was debited, plus at least the top-ups whose credit *)
(* job completed, and at most one return for each run of a withdrawal and  *)
(* one credit for each run of a credit job, of which there is one for each *)
(* confirmation.                                                           *)
LostRuns(j) == pjob[j].attempts + pjob[j].stalled

RunsPast(j, reached) == LostRuns(j) + (IF reached THEN 1 ELSE 0)

HasCredited(j) == RunAt(j, "notify") \/ pjob[j].state = "completed"

HasPaidIn(j) ==
  IF j[1] = "withdraw" THEN RunAt(j, "notifyFailed") ELSE HasCredited(j)

JobsOf(u) == {j \in PaymentJobs : /\ j[1] # "session"
                                  /\ pjob[j].state # "none"
                                  /\ Payment(j[2]).user = u}

Debited(u) ==
  SumFunction([row \in {x \in txn : x.type = "WITHDRAWAL" /\ x.user = u} |-> row.amount])

AtLeastIn(u) ==
  SumFunction([j \in {x \in JobsOf(u) : x[1] = "credit" /\ HasCredited(x)} |->
                 Payment(j[2]).amount])

AtMostIn(u) ==
  SumFunction([j \in JobsOf(u) |-> RunsPast(j, HasPaidIn(j)) * Payment(j[2]).amount])

OncePerRun ==
  /\ \A k \in Keys :
       LET j == WithdrawJob(k)
       IN  payout[k] <= RunsPast(j, ~RunAt(j, "pay") /\ pjob[j].state \in {"active", "completed"})
  /\ \A u \in Users :
       /\ Funds[u] + AtLeastIn(u) <= balance[u].available + Debited(u)
       /\ balance[u].available + Debited(u) <= Funds[u] + AtMostIn(u)

-----------------------------------------------------------------------------
(* The tables and Airtm implement the abstract ledger of payments.         *)
Entries(type) == {<<row.key, row.user, row.amount>> : row \in {x \in txn : x.type = type}}

L == INSTANCE PaymentLedger WITH
       Sums <- PaymentAmounts,
       money <- [u \in Users |-> [available |-> balance[u].available,
                                  reserved  |-> balance[u].reserved]],
       debited   <- Entries("WITHDRAWAL"),
       announced <- Entries("TOPUP"),
       confirmed <- {k \in Keys : deposit[k] = "paid"}

LedgerSpec == L!Spec

-----------------------------------------------------------------------------
(* Every withdrawal and every confirmed top-up that reached its queue is   *)
(* answered, however calls, statements and workers fail: the marketplace   *)
(* is told that it completed, or its job has used up its attempts.         *)
Answered(j) ==
  \/ <<IF j[1] = "withdraw" THEN "WITHDRAWAL_COMPLETED" ELSE "TOPUP_COMPLETED", j[2]>> \in pevent
  \/ pjob[j].state = "failed"

PaymentsAreAnswered == \A j \in PaymentJobs :
  (j[1] # "session" /\ pjob[j].state # "none") ~> Answered(j)
=============================================================================
