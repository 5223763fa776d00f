-------------------------- MODULE PaymentProcessors --------------------------
(***************************************************************************)
(* WithdrawalProcessor and TopupProcessor of the worker.  A job is run by  *)
(* at most one worker at a time, the two queues have workers of their own, *)
(* and other processes act at every await.  The rows a transaction locks   *)
(* are written when it commits.                                            *)
(***************************************************************************)
EXTENDS PaymentStore

VARIABLE prun     \* what the worker running each payment job has done so far

Resting == [pc |-> "idle", seen |-> 0]

PaymentRun ==
  [pc   : {"idle", "pay", "markPaid", "restoreRead", "restoreWrite",
           "creditRead", "creditWrite", "session", "saveSession", "failTopup",
           "notify", "notifyFailed"},
   seen : Nat]    \* the version of the user's balance row the run has read

InitProcessors == prun = [j \in PaymentJobs |-> Resting]

WithdrawJob(k)  == <<"withdraw", k, 1>>
SessionJob(k)   == <<"session", k, 1>>
CreditJob(k, n) == <<"credit", k, n>>

RunAt(j, pc) == prun[j].pc = pc

RunTo(j, pc) == prun' = [prun EXCEPT ![j].pc = pc]

RunEnds(j, Outcome) ==
  /\ prun' = [prun EXCEPT ![j] = Resting]
  /\ pjob' = [pjob EXCEPT ![j] = Outcome]

SameQueue(i, j) == (i[1] = "withdraw") <=> (j[1] = "withdraw")

FirstStep == [withdraw |-> "pay", credit |-> "creditRead", session |-> "session"]

(* process(), up to the first call or transaction.                         *)
PaymentStart(j) ==
  /\ pjob[j].state = "waiting"
  /\ Cardinality({i \in PaymentJobs : SameQueue(i, j) /\ ~RunAt(i, "idle")}) < Workers
  /\ pjob' = [pjob EXCEPT ![j] = Started(@)]
  /\ RunTo(j, FirstStep[j[1]])
  /\ UNCHANGED <<balance, txn, pevent, payout, deposit, notified>>

-----------------------------------------------------------------------------
(* WithdrawalProcessor. *)

(* initiateWithdrawal(): it answers, or throws before or after Airtm paid. *)
Pay(k) ==
  LET j == WithdrawJob(k)
  IN  /\ RunAt(j, "pay")
      /\ \/ payout' = Transferred(k) /\ RunTo(j, "markPaid")
         \/ "callFails" \in Faults /\ payout' = payout /\ RunTo(j, "restoreRead")
         \/ "callLost" \in Faults /\ payout' = Transferred(k) /\ RunTo(j, "restoreRead")
      /\ UNCHANGED <<balance, txn, pjob, pevent, deposit, notified>>

MarkPaid(k) ==
  LET j == WithdrawJob(k)
  IN  /\ RunAt(j, "markPaid")
      /\ txn' = WithReference(k, "COMPLETED", payout[k])
      /\ RunTo(j, "notify")
      /\ UNCHANGED <<balance, pjob, pevent, payout, deposit, notified>>

(* The update throws, or the webhook queue refuses the event: the catch    *)
(* block, although Airtm has paid.                                         *)
PayThrows(k) ==
  LET j == WithdrawJob(k)
  IN  /\ \/ RunAt(j, "markPaid") /\ "dbFails" \in Faults
         \/ RunAt(j, "notify") /\ "queueFails" \in Faults
      /\ RunTo(j, "restoreRead")
      /\ UNCHANGED <<balance, txn, pjob, pevent, payout, deposit, notified>>

(* restoreBalance(), the read of the balance, and creditBalance()'s. *)
ReadBalance(j, from, to) ==
  /\ RunAt(j, from)
  /\ prun' = [prun EXCEPT ![j].pc = to, ![j].seen = balance[Payment(j[2]).user].version]
  /\ UNCHANGED <<balance, txn, pjob, pevent, payout, deposit, notified>>

RestoreRead(k) == ReadBalance(WithdrawJob(k), "restoreRead", "restoreWrite")

(* Mutant: into the wrong column.                                          *)
PaidInReserved(k) ==
  [balance EXCEPT ![Payment(k).user] = Moved(@, 0, Payment(k).amount)]

(* The amount of the transaction goes to its user's available balance.     *)
PaidIn(k) ==
  [balance EXCEPT ![Payment(k).user] = Moved(@, Payment(k).amount, 0)]

Unchanged(j) == Current(Payment(j[2]).user, prun[j].seen)

(* The rest of the transaction: the versioned increment and the status.    *)
RestoreWrite(k) ==
  LET j == WithdrawJob(k)
  IN  /\ RunAt(j, "restoreWrite")
      /\ Unchanged(j)
      /\ balance' = PaidIn(k)
      /\ txn' = WithStatus(k, "FAILED")
      /\ RunTo(j, "notifyFailed")
      /\ UNCHANGED <<pjob, pevent, payout, deposit, notified>>

-----------------------------------------------------------------------------
(* TopupProcessor, a confirmed top-up. *)

CreditRead(j) == j[1] = "credit" /\ ReadBalance(j, "creditRead", "creditWrite")

CreditWrite(j) ==
  /\ RunAt(j, "creditWrite")
  /\ Unchanged(j)
  /\ balance' = PaidIn(j[2])
  /\ txn' = WithStatus(j[2], "COMPLETED")
  /\ RunTo(j, "notify")
  /\ UNCHANGED <<pjob, pevent, payout, deposit, notified>>

(* TopupProcessor, a top-up that needs a session.                          *)
CreateSession(k) ==
  LET j == SessionJob(k)
  IN  /\ RunAt(j, "session")
      /\ \/ deposit' = SessionOpened(k) /\ RunTo(j, "saveSession")
         \/ "callFails" \in Faults /\ deposit' = deposit /\ RunTo(j, "failTopup")
         \/ "callLost" \in Faults /\ deposit' = SessionOpened(k) /\ RunTo(j, "failTopup")
      /\ UNCHANGED <<balance, txn, pjob, pevent, payout, notified>>

(* Only the row's metadata changes, which the model leaves out.            *)
SaveSession(k) ==
  LET j == SessionJob(k)
  IN  /\ RunAt(j, "saveSession")
      /\ \/ RunEnds(j, Completed(pjob[j]))
         \/ "dbFails" \in Faults /\ RunTo(j, "failTopup") /\ pjob' = pjob
      /\ UNCHANGED <<balance, txn, pevent, payout, deposit, notified>>

(* The catch block: the row fails whatever its status is.                  *)
FailTopup(k) ==
  LET j == SessionJob(k)
  IN  /\ RunAt(j, "failTopup")
      /\ txn' = WithStatus(k, "FAILED")
      /\ RunTo(j, "notifyFailed")
      /\ UNCHANGED <<balance, pjob, pevent, payout, deposit, notified>>

-----------------------------------------------------------------------------
(* A statement outside of the two try blocks throws: a version conflict, a *)
(* failure of the database (of the first lookup too, which the model puts  *)
(* at the first step), a refusal of the webhook queue.                     *)
AttemptThrows(j) ==
  /\ \/ prun[j].pc \in {"restoreWrite", "creditWrite"} /\ ~Unchanged(j)
     \/ /\ "dbFails" \in Faults
        /\ prun[j].pc \in {"pay", "session", "restoreRead", "restoreWrite",
                            "creditRead", "creditWrite", "failTopup"}
     \/ /\ "queueFails" \in Faults
        /\ RunAt(j, "notifyFailed") \/ (RunAt(j, "notify") /\ j[1] = "credit")
  /\ RunEnds(j, Failed(pjob[j]))
  /\ UNCHANGED <<balance, txn, pevent, payout, deposit, notified>>

(* The event a run has reached, handed to the webhook queue.               *)
Announced(j) ==
  LET name == IF RunAt(j, "notify")
                THEN [withdraw |-> "WITHDRAWAL_COMPLETED", credit |-> "TOPUP_COMPLETED"]
                ELSE [withdraw |-> "WITHDRAWAL_FAILED", session |-> "TOPUP_FAILED"]
  IN  pevent \cup {<<name[j[1]], j[2]>>}

(* The last step: the processor returns, or rethrows what made it fail.    *)
NotifyPayment(j) ==
  /\ prun[j].pc \in {"notify", "notifyFailed"}
  /\ pevent' = Announced(j)
  /\ RunEnds(j, IF RunAt(j, "notify") THEN Completed(pjob[j]) ELSE Failed(pjob[j]))
  /\ UNCHANGED <<balance, txn, payout, deposit, notified>>

(* The worker process dies, before or after it has handed over the event;  *)
(* BullMQ finds the job stalled.                                           *)
PaymentCrash(j) ==
  /\ "workerCrash" \in Faults
  /\ ~RunAt(j, "idle")
  /\ \/ pevent' = pevent
     \/ prun[j].pc \in {"notify", "notifyFailed"} /\ pevent' = Announced(j)
  /\ RunEnds(j, Stalled(pjob[j]))
  /\ UNCHANGED <<balance, txn, payout, deposit, notified>>

WithdrawalStep(k) ==
  Pay(k) \/ MarkPaid(k) \/ PayThrows(k) \/ RestoreRead(k) \/ RestoreWrite(k)

SessionStep(k) == CreateSession(k) \/ SaveSession(k) \/ FailTopup(k)

PaymentStep(j) ==
  \/ PaymentStart(j)
  \/ j[1] = "withdraw" /\ WithdrawalStep(j[2])
  \/ j[1] = "session" /\ SessionStep(j[2])
  \/ CreditRead(j)
  \/ CreditWrite(j)
  \/ AttemptThrows(j)
  \/ NotifyPayment(j)

ProcessorsNext == \E j \in PaymentJobs : PaymentStep(j) \/ PaymentCrash(j)
=============================================================================
