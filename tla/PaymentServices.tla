--------------------------- MODULE PaymentServices ---------------------------
(***************************************************************************)
(* WithdrawalsService and TopupsService of the API.  Other requests and    *)
(* the workers run at every await.  The lookup of the idempotency key and  *)
(* of the user is merged with the first statement of the transaction: a    *)
(* key found unused by the insert was unused at the lookup, and a request  *)
(* that is refused changes nothing.                                        *)
(***************************************************************************)
EXTENDS PaymentStore

CONSTANT Callers    \* payment requests in progress at once

VARIABLE preq       \* what each payment request in progress has done so far

NoCall == [pc |-> "idle"]

PaymentCall ==
  [pc   : {"debitWrite", "add"},
   job  : PaymentJobs,      \* the job the request is about to add
   user : Users, amount : PaymentAmounts,
   seen : Nat]              \* the version of the user's balance row it has read

InitServices == preq = [r \in Callers |-> NoCall]

CallAt(r, pc) == preq[r].pc = pc

BeginCall(r, pc, j, u, amount, seen) ==
  /\ preq[r] = NoCall
  /\ preq' = [preq EXCEPT ![r] = [pc |-> pc, job |-> j, user |-> u,
                                  amount |-> amount, seen |-> seen]]

EndCall(r) == preq' = [preq EXCEPT ![r] = NoCall]

(* WithdrawalsService.create(), up to the read of the balance: the key is  *)
(* new and the user has the amount.                                        *)
Withdraw(r, k, u, amount) ==
  /\ ~Used(k)
  /\ balance[u].available >= amount
  /\ BeginCall(r, "debitWrite", <<"withdraw", k, 1>>, u, amount, balance[u].version)
  /\ UNCHANGED <<balance, txn, pjob, pevent, payout, deposit, notified>>

(* The rest of the transaction: the versioned decrement and the insert     *)
(* under the key commit together, or neither does.                         *)
DebitWrite(r) ==
  LET this == preq[r]
      k    == this.job[2]
  IN  /\ CallAt(r, "debitWrite")
      /\ Current(this.user, this.seen)
      /\ ~Used(k)
      /\ balance' = [balance EXCEPT ![this.user] = Moved(@, -this.amount, 0)]
      /\ txn' = txn \cup {NewPayment(k, "WITHDRAWAL", this.user, this.amount)}
      /\ preq' = [preq EXCEPT ![r].pc = "add"]
      /\ UNCHANGED <<pjob, pevent, payout, deposit, notified>>

DebitConflict(r) ==
  /\ CallAt(r, "debitWrite")
  /\ ~Current(preq[r].user, preq[r].seen) \/ Used(preq[r].job[2])
  /\ EndCall(r)
  /\ UNCHANGED <<balance, txn, pjob, pevent, payout, deposit, notified>>

(* TopupsService.initiate(): the row is inserted before the job is added.  *)
Topup(r, k, u, amount) ==
  /\ ~Used(k)
  /\ BeginCall(r, "add", <<"session", k, 1>>, u, amount, 0)
  /\ txn' = txn \cup {NewPayment(k, "TOPUP", u, amount)}
  /\ UNCHANGED <<balance, pjob, pevent, payout, deposit, notified>>

(* Mutant: takes every callback for a success.                             *)
SucceededAlways(k) == TRUE

(* The status of the callback is COMPLETED or SUCCESS.                     *)
Succeeded(k) == deposit[k] = "paid"

(* TopupsService.handleAirtmWebhook(): the row takes the callback's status *)
(* whatever its own is, and a success is going to be credited; any other   *)
(* status, final or not, makes it FAILED.  The handler does not look at    *)
(* the type of the row: that Airtm reports on sessions only is an          *)
(* assumption on Airtm.                                                    *)
Callback(r, k) ==
  /\ deposit[k] # "none"
  /\ notified[k] < MaxCallbacks
  /\ preq[r] = NoCall
  /\ notified' = [notified EXCEPT ![k] = @ + 1]
  /\ txn' = WithReference(k, IF Succeeded(k) THEN "COMPLETED" ELSE "FAILED", 1)
  /\ IF Succeeded(k)
       THEN BeginCall(r, "add", <<"credit", k, notified[k] + 1>>,
                      Payment(k).user, Payment(k).amount, 0)
       ELSE UNCHANGED preq
  /\ UNCHANGED <<balance, pjob, pevent, payout, deposit>>

(* queue.add, the last step of the three handlers.                         *)
AddJob(r) ==
  /\ CallAt(r, "add")
  /\ pjob' = [pjob EXCEPT ![preq[r].job] = Added(@)]
  /\ EndCall(r)
  /\ UNCHANGED <<balance, txn, pevent, payout, deposit, notified>>

(* The API process dies, or queue.add throws: what was committed stays.    *)
CallAborted(r) ==
  /\ preq[r] # NoCall
  /\ "apiCrash" \in Faults \/ ("queueFails" \in Faults /\ CallAt(r, "add"))
  /\ EndCall(r)
  /\ UNCHANGED <<balance, txn, pjob, pevent, payout, deposit, notified>>

CallStep(r) == DebitWrite(r) \/ DebitConflict(r) \/ AddJob(r)

ServicesNext ==
  \E r \in Callers :
    \/ \E k \in Keys, u \in Users, amount \in PaymentAmounts :
         Withdraw(r, k, u, amount) \/ Topup(r, k, u, amount)
    \/ \E k \in Keys : Callback(r, k)
    \/ CallStep(r)
    \/ CallAborted(r)
=============================================================================
