---------------------------- MODULE PaymentStore ----------------------------
(***************************************************************************)
(* What the top-up and withdrawal services of the API share with their     *)
(* workers: the rows they keep in transactions, the two payment queues and *)
(* the webhook events they emit.  The model names a transaction by its     *)
(* idempotency key, which is as unique as its id.                          *)
(***************************************************************************)
EXTENDS Store, JobQueue, Airtm

CONSTANT PaymentAmounts   \* amounts of top-ups and withdrawals

ASSUME PaymentAssumption == PaymentAmounts \subseteq Nat \ {0}

VARIABLES
  pjob,     \* the topup and the withdrawal queue
  pevent    \* payment events handed to the webhook queue so far

(* The services pass no jobId, so every add is a job of its own: one for a *)
(* withdrawal, one for a top-up's session, one for each confirmation.      *)
PaymentJobs ==
  ({"withdraw", "session"} \X Keys \X {1}) \cup ({"credit"} \X Keys \X (1 .. MaxCallbacks))

PaymentEvents ==
  {"TOPUP_COMPLETED", "TOPUP_FAILED", "WITHDRAWAL_COMPLETED", "WITHDRAWAL_FAILED"}

(* A payment belongs to no escrow: escrowId is null.  0 stands for null.   *)
NewPayment(k, type, u, amount) ==
  [key |-> k, type |-> type, status |-> "PENDING",
   user |-> u, amount |-> amount, escrow |-> 0, reference |-> 0]

IsPayment(row) == row.type \in {"TOPUP", "WITHDRAWAL"}

(* transaction.findUnique, and the two forms of transaction.update: the    *)
(* status alone, or the status and Airtm's reference.                      *)
Payment(k) == CHOOSE row \in txn : row.key = k

WithStatus(k, status) ==
  { IF row.key = k THEN [row EXCEPT !.status = status] ELSE row : row \in txn }

WithReference(k, status, reference) ==
  { IF row.key = k THEN [row EXCEPT !.status = status, !.reference = reference] ELSE row
      : row \in txn }

InitPaymentStore ==
  /\ InitAirtm(Keys)
  /\ pjob = [j \in PaymentJobs |-> NoJob]
  /\ pevent = {}
=============================================================================
