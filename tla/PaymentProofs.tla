--------------------------- MODULE PaymentProofs ---------------------------
(***************************************************************************)
(* Theorems about Payments, for every value of its constants.              *)
(***************************************************************************)
EXTENDS Payments, StoreProofs

PaymentTypes == {"TOPUP", "WITHDRAWAL"}

-----------------------------------------------------------------------------
(* The rows of the transactions table. *)

LEMMA NewPaymentIsRow ==
  ASSUME NEW k \in Keys, NEW type \in PaymentTypes, NEW u \in Users, NEW a \in PaymentAmounts
  PROVE  /\ NewPayment(k, type, u, a) \in PaymentRow
         /\ IsPayment(NewPayment(k, type, u, a))
         /\ NewPayment(k, type, u, a).key = k
         /\ NewPayment(k, type, u, a).type = type
         /\ NewPayment(k, type, u, a).user = u
         /\ NewPayment(k, type, u, a).amount = a
         /\ NewPayment(k, type, u, a).status = "PENDING"
  BY DEF NewPayment, PaymentRow, PaymentTypes, TransactionStatus, IsPayment

(* findUnique of a payment that is there yields that payment's only row.   *)
LEMMA PaymentIsFound ==
  ASSUME PaymentTypeOK, KeysUnique, NEW k, NEW type \in PaymentTypes, HasRow(k, type)
  PROVE  /\ Payment(k) \in txn
         /\ Payment(k) \in PaymentRow
         /\ Payment(k).key = k
         /\ Payment(k).type = type
         /\ Payment(k).user \in Users
         /\ Payment(k).amount \in PaymentAmounts
         /\ Payment(k).amount \in Nat
  <1>1. PICK row \in txn : row.key = k /\ row.type = type
    BY DEF HasRow
  <1>2. Payment(k) \in txn /\ Payment(k).key = k
    BY <1>1 DEF Payment
  <1>3. Payment(k) = row
    BY <1>1, <1>2 DEF KeysUnique
  <1>4. row \in PaymentRow
    BY <1>1 DEF PaymentTypeOK, IsPayment, PaymentTypes
  <1> QED
    BY <1>1, <1>2, <1>3, <1>4, PaymentAssumption DEF PaymentRow

(* A row is inserted under a key of its own, or one payment's row takes    *)
(* another status and reference; a withdrawal that is COMPLETED was paid.  *)
Inserted ==
  \E k \in Keys, type \in PaymentTypes, u \in Users, a \in PaymentAmounts :
    /\ ~Used(k)
    /\ txn' = txn \cup {NewPayment(k, type, u, a)}

SamePayment(old, new) ==
  /\ new.key = old.key /\ new.type = old.type
  /\ new.user = old.user /\ new.amount = old.amount

Replaced(old, new) ==
  /\ old \in txn /\ old \in PaymentRow
  /\ new \in PaymentRow
  /\ SamePayment(old, new)
  /\ txn' = (txn \ {old}) \cup {new}

TrulyPaid(row) ==
  row.type = "WITHDRAWAL" /\ row.status = "COMPLETED" => payout[row.key] > 0

RowsEffect ==
  \/ UNCHANGED txn
  \/ Inserted
  \/ \E old, new : Replaced(old, new) /\ TrulyPaid(new)'

LEMMA StatusReplaces ==
  ASSUME PaymentTypeOK, KeysUnique, NEW k, NEW type \in PaymentTypes, HasRow(k, type),
         NEW status \in TransactionStatus, txn' = WithStatus(k, status)
  PROVE  Replaced(Payment(k), [Payment(k) EXCEPT !.status = status])
  <1>1. /\ Payment(k) \in txn /\ Payment(k) \in PaymentRow
        /\ Payment(k).key = k
    BY PaymentIsFound
  <1>2. \A row \in txn : row.key = k <=> row = Payment(k)
    BY <1>1 DEF KeysUnique
  <1> DEFINE P == Payment(k)
             new == [P EXCEPT !.status = status]
  <1> HIDE DEF P
  <1>3. new \in PaymentRow /\ SamePayment(P, new)
    BY <1>1 DEF PaymentRow, SamePayment, P
  <1>4. txn' = {IF row = P THEN new ELSE row : row \in txn}
    BY <1>2 DEF WithStatus, P
  <1>5. P \in txn
    BY <1>1 DEF P
  <1> HIDE DEF new
  <1>6. txn' = (txn \ {P}) \cup {new}
    BY <1>4, <1>5
  <1> QED
    BY <1>1, <1>3, <1>5, <1>6 DEF Replaced, P, new

LEMMA ReferenceReplaces ==
  ASSUME PaymentTypeOK, KeysUnique, NEW k, NEW type \in PaymentTypes, HasRow(k, type),
         NEW status \in TransactionStatus, NEW c \in Nat, txn' = WithReference(k, status, c)
  PROVE  Replaced(Payment(k), [Payment(k) EXCEPT !.status = status, !.reference = c])
  <1>1. /\ Payment(k) \in txn /\ Payment(k) \in PaymentRow
        /\ Payment(k).key = k
    BY PaymentIsFound
  <1>2. \A row \in txn : row.key = k <=> row = Payment(k)
    BY <1>1 DEF KeysUnique
  <1> DEFINE P == Payment(k)
             new == [P EXCEPT !.status = status, !.reference = c]
  <1> HIDE DEF P
  <1>3. new \in PaymentRow /\ SamePayment(P, new)
    BY <1>1 DEF PaymentRow, SamePayment, P
  <1>4. txn' = {IF row = P THEN new ELSE row : row \in txn}
    BY <1>2 DEF WithReference, P
  <1>5. P \in txn
    BY <1>1 DEF P
  <1> HIDE DEF new
  <1>6. txn' = (txn \ {P}) \cup {new}
    BY <1>4, <1>5
  <1> QED
    BY <1>1, <1>3, <1>5, <1>6 DEF Replaced, P, new

(* What stays of the table, whichever of the three happens to it.          *)
LEMMA RowsStay ==
  ASSUME PaymentTypeOK, KeysUnique, RowsEffect
  PROVE  /\ \A row \in txn' : IsPayment(row) => row \in PaymentRow
         /\ KeysUnique'
         /\ \A k, type : HasRow(k, type) => HasRow(k, type)'
  <1>1. CASE UNCHANGED txn
    BY <1>1 DEF PaymentTypeOK, KeysUnique, HasRow
  <1>2. CASE Inserted
    <2>1. PICK k \in Keys, type \in PaymentTypes, u \in Users, a \in PaymentAmounts :
            ~Used(k) /\ txn' = txn \cup {NewPayment(k, type, u, a)}
      BY <1>2 DEF Inserted
    <2>2. NewPayment(k, type, u, a) \in PaymentRow /\ NewPayment(k, type, u, a).key = k
      BY NewPaymentIsRow DEF NewPayment
    <2> QED
      BY <2>1, <2>2 DEF PaymentTypeOK, KeysUnique, HasRow, Used
  <1>3. CASE \E old, new : Replaced(old, new)
    <2>1. PICK old, new : Replaced(old, new)
      BY <1>3
    <2>2. /\ old \in txn /\ new \in PaymentRow /\ SamePayment(old, new)
          /\ txn' = (txn \ {old}) \cup {new}
      BY <2>1 DEF Replaced
    <2>3. \A row \in txn' : IsPayment(row) => row \in PaymentRow
      BY <2>2 DEF PaymentTypeOK
    <2>4. KeysUnique'
      BY <2>2 DEF KeysUnique, SamePayment
    <2>5. ASSUME NEW k, NEW type, HasRow(k, type) PROVE HasRow(k, type)'
      BY <2>2, <2>5 DEF HasRow, SamePayment
    <2> QED
      BY <2>3, <2>4, <2>5
  <1> QED
    BY <1>1, <1>2, <1>3 DEF RowsEffect

-----------------------------------------------------------------------------
(* The queues and the runs. *)

AtStep(n, j) ==
  /\ n \in PaymentRun /\ n.pc \in Steps[j[1]]
  /\ j[1] = "withdraw" /\ n.pc \in {"markPaid", "notify"} => payout'[j[2]] > 0

Goes(j) ==
  /\ ~RunAt(j, "idle") /\ UNCHANGED pjob
  /\ \E n : AtStep(n, j) /\ prun' = [prun EXCEPT ![j] = n]

Starts(j) ==
  /\ pjob[j].state = "waiting" /\ pjob' = [pjob EXCEPT ![j] = Started(pjob[j])]
  /\ \E n : AtStep(n, j) /\ prun' = [prun EXCEPT ![j] = n]

Ends(j) ==
  /\ ~RunAt(j, "idle") /\ prun' = [prun EXCEPT ![j] = Resting]
  /\ \E outcome \in {Completed(pjob[j]), Failed(pjob[j]), Stalled(pjob[j])} :
       pjob' = [pjob EXCEPT ![j] = outcome]

(* What a job needs before it may be queued.                               *)
Ready(j) == HasRow(j[2], RowType(j)) /\ (j[1] = "credit" => deposit[j[2]] = "paid")

Queued(j) == Ready(j) /\ UNCHANGED prun /\ pjob' = [pjob EXCEPT ![j] = Added(pjob[j])]

QueueEffect ==
  \/ UNCHANGED <<pjob, prun>>
  \/ \E j \in PaymentJobs : Goes(j) \/ Starts(j) \/ Ends(j) \/ Queued(j)

LEMMA JobKind ==
  ASSUME NEW j \in PaymentJobs
  PROVE  /\ j[1] \in {"withdraw", "session", "credit"}
         /\ j[2] \in Keys
         /\ j[1] = "withdraw" => j = WithdrawJob(j[2])
         /\ j[1] = "session" => j = SessionJob(j[2])
         /\ RowType(j) \in PaymentTypes
  BY DEF PaymentJobs, WithdrawJob, SessionJob, RowType, PaymentTypes

LEMMA JobOfKey ==
  ASSUME NEW k \in Keys
  PROVE  /\ WithdrawJob(k) \in PaymentJobs /\ WithdrawJob(k)[1] = "withdraw"
         /\ WithdrawJob(k)[2] = k
         /\ SessionJob(k) \in PaymentJobs /\ SessionJob(k)[1] = "session"
         /\ SessionJob(k)[2] = k
  BY DEF PaymentJobs, WithdrawJob, SessionJob

LEMMA StepsOf ==
  /\ Steps["withdraw"] = {"pay", "markPaid", "restoreRead", "restoreWrite", "notify",
                          "notifyFailed"}
  /\ Steps["session"] = {"session", "saveSession", "failTopup", "notifyFailed"}
  /\ Steps["credit"] = {"creditRead", "creditWrite", "notify"}
  BY DEF Steps

LEMMA StepIsNotIdle ==
  ASSUME NEW j \in PaymentJobs, NEW n, AtStep(n, j)
  PROVE  n.pc # "idle"
  BY JobKind, StepsOf DEF AtStep

(* A job that runs was queued, so what it is about is recorded.            *)
LEMMA RunningIsReady ==
  ASSUME RecordedFirst, PaymentsRunning, BackedByAirtm, NEW j \in PaymentJobs, ~RunAt(j, "idle")
  PROVE  /\ pjob[j].state = "active"
         /\ prun[j].pc \in Steps[j[1]]
         /\ Ready(j)
         /\ pjob[j].attempts < MaxAttempts /\ pjob[j].stalled <= MaxStalled
  BY DEF RecordedFirst, PaymentsRunning, BackedByAirtm, Ready

RunOk(j) ==
  /\ RunAt(j, "idle") <=> pjob[j].state # "active"
  /\ ~RunAt(j, "idle") => prun[j].pc \in Steps[j[1]]
  /\ pjob[j].state \in {"none", "waiting", "active"} =>
       pjob[j].attempts < MaxAttempts /\ pjob[j].stalled <= MaxStalled

LEMMA RunsStay ==
  ASSUME PaymentTypeOK, PaymentsRunning, QueueEffect
  PROVE  /\ pjob' \in [PaymentJobs -> JobRecord]
         /\ prun' \in [PaymentJobs -> PaymentRun]
         /\ PaymentsRunning'
         /\ \A j \in PaymentJobs : pjob'[j].state # "none" => pjob[j].state # "none" \/ Ready(j)
  <1>0. /\ pjob \in [PaymentJobs -> JobRecord]
        /\ prun \in [PaymentJobs -> PaymentRun]
        /\ \A i \in PaymentJobs : RunOk(i)
    BY DEF PaymentTypeOK, PaymentsRunning, RunOk
  <1>1. CASE UNCHANGED <<pjob, prun>>
    BY <1>0, <1>1 DEF PaymentsRunning, RunAt
  <1>2. ASSUME NEW j \in PaymentJobs, NEW x \in JobRecord, NEW n \in PaymentRun,
               pjob' = [pjob EXCEPT ![j] = x], prun' = [prun EXCEPT ![j] = n],
               n.pc = "idle" <=> x.state # "active",
               n.pc # "idle" => n.pc \in Steps[j[1]],
               x.state \in {"none", "waiting", "active"} =>
                 x.attempts < MaxAttempts /\ x.stalled <= MaxStalled,
               x.state # "none" => pjob[j].state # "none" \/ Ready(j)
        PROVE  /\ pjob' \in [PaymentJobs -> JobRecord]
               /\ prun' \in [PaymentJobs -> PaymentRun]
               /\ PaymentsRunning'
               /\ \A i \in PaymentJobs : pjob'[i].state # "none" =>
                    pjob[i].state # "none" \/ Ready(i)
    <2>1. /\ pjob'[j] = x /\ prun'[j] = n
          /\ \A i \in PaymentJobs : i # j => pjob'[i] = pjob[i] /\ prun'[i] = prun[i]
      BY <1>0, <1>2
    <2>2. \A i \in PaymentJobs : RunOk(i)'
      BY <1>0, <1>2, <2>1 DEF RunOk, RunAt
    <2> QED
      BY <1>0, <1>2, <2>1, <2>2 DEF PaymentsRunning, RunOk
  <1>3. ASSUME NEW j \in PaymentJobs
        PROVE  /\ pjob[j] \in JobRecord /\ prun[j] \in PaymentRun
               /\ pjob = [pjob EXCEPT ![j] = pjob[j]]
               /\ prun = [prun EXCEPT ![j] = prun[j]]
    BY <1>0
  <1>4. ASSUME NEW j \in PaymentJobs, NEW n, AtStep(n, j), Goes(j), prun' = [prun EXCEPT ![j] = n]
        PROVE  /\ n.pc = "idle" <=> pjob[j].state # "active"
               /\ pjob' = [pjob EXCEPT ![j] = pjob[j]]
    BY <1>0, <1>3, <1>4, StepIsNotIdle DEF RunOk, Goes
  <1>5. ASSUME NEW j \in PaymentJobs, pjob[j].state = "waiting"
        PROVE  /\ Started(pjob[j]) \in JobRecord /\ Started(pjob[j]).state = "active"
               /\ Started(pjob[j]).attempts = pjob[j].attempts
               /\ Started(pjob[j]).stalled = pjob[j].stalled
    BY <1>3, JobIsRecord DEF Started, JobRecord
  <1>6. ASSUME NEW j \in PaymentJobs, ~RunAt(j, "idle"),
               NEW x \in {Completed(pjob[j]), Failed(pjob[j]), Stalled(pjob[j])}
        PROVE  /\ x \in JobRecord /\ x.state \in {"waiting", "completed", "failed"}
               /\ x.state = "waiting" => x.attempts < MaxAttempts /\ x.stalled <= MaxStalled
    <2>1. /\ pjob[j] \in JobRecord
          /\ pjob[j].attempts < MaxAttempts /\ pjob[j].stalled <= MaxStalled
      BY <1>0, <1>3, <1>6 DEF RunOk
    <2>2. x \in JobRecord
      BY <2>1, <1>6, JobIsRecord
    <2>3. CASE x = Completed(pjob[j])
      BY <2>1, <2>2, <2>3 DEF Completed, JobRecord
    <2>4. CASE x = Failed(pjob[j])
      BY <2>1, <2>2, <2>4, QueueAssumption DEF Failed, JobRecord
    <2>5. CASE x = Stalled(pjob[j])
      BY <2>1, <2>2, <2>5, QueueAssumption DEF Stalled, JobRecord
    <2> QED
      BY <1>6, <2>2, <2>3, <2>4, <2>5
  <1>7. ASSUME NEW j \in PaymentJobs
        PROVE  /\ Added(pjob[j]) \in JobRecord
               /\ Added(pjob[j]).state = "active" <=> pjob[j].state = "active"
               /\ Added(pjob[j]).attempts = pjob[j].attempts
               /\ Added(pjob[j]).stalled = pjob[j].stalled
               /\ Added(pjob[j]).state = "waiting" => pjob[j].state \in {"none", "waiting"}
               /\ Added(pjob[j]).state # "none"
    BY <1>3, JobIsRecord DEF Added, JobRecord
  <1>8. Resting \in PaymentRun /\ Resting.pc = "idle"
    BY DEF Resting, PaymentRun
  <1>9. ASSUME NEW j \in PaymentJobs, Goes(j) \/ Starts(j) \/ Ends(j) \/ Queued(j)
        PROVE  \E x \in JobRecord, n \in PaymentRun :
                 /\ pjob' = [pjob EXCEPT ![j] = x] /\ prun' = [prun EXCEPT ![j] = n]
                 /\ n.pc = "idle" <=> x.state # "active"
                 /\ n.pc # "idle" => n.pc \in Steps[j[1]]
                 /\ x.state \in {"none", "waiting", "active"} =>
                      x.attempts < MaxAttempts /\ x.stalled <= MaxStalled
                 /\ x.state # "none" => pjob[j].state # "none" \/ Ready(j)
    <2>1. CASE Goes(j)
      <3>1. PICK n : AtStep(n, j) /\ prun' = [prun EXCEPT ![j] = n]
        BY <2>1 DEF Goes
      <3> QED
        BY <1>0, <1>3, <1>4, <2>1, <3>1 DEF RunOk, AtStep, Goes
    <2>2. CASE Starts(j)
      <3>1. PICK n : AtStep(n, j) /\ prun' = [prun EXCEPT ![j] = n]
        BY <2>2 DEF Starts
      <3>2. n.pc # "idle"
        BY <3>1, StepIsNotIdle
      <3> QED
        BY <1>0, <1>5, <2>2, <3>1, <3>2 DEF RunOk, AtStep, Starts
    <2>3. CASE Ends(j)
      <3>1. PICK x \in {Completed(pjob[j]), Failed(pjob[j]), Stalled(pjob[j])} :
              pjob' = [pjob EXCEPT ![j] = x]
        BY <2>3 DEF Ends
      <3>2. pjob[j].state = "active" /\ ~RunAt(j, "idle")
        BY <1>0, <2>3 DEF RunOk, Ends
      <3> QED
        BY <1>6, <1>8, <2>3, <3>1, <3>2 DEF Ends
    <2>4. CASE Queued(j)
      BY <1>0, <1>3, <1>7, <2>4 DEF RunOk, Queued, RunAt
    <2> QED
      BY <1>9, <2>1, <2>2, <2>3, <2>4
  <1> QED
    BY <1>1, <1>2, <1>9 DEF QueueEffect

-----------------------------------------------------------------------------
(* Balances, requests, events and what Airtm has done. *)

(* A sum comes in, or goes out of what is available.                       *)
MoneyEffect ==
  \/ UNCHANGED balance
  \/ \E u \in Users, a \in Int :
       /\ balance[u].available + a >= 0
       /\ balance' = [balance EXCEPT ![u] = Moved(balance[u], a, 0)]

LEMMA MoneyStays ==
  ASSUME balance \in [Users -> BalanceRow], NobodyOverdrawn, MoneyEffect
  PROVE  /\ balance' \in [Users -> BalanceRow]
         /\ NobodyOverdrawn'
         /\ \A u \in Users : \/ balance'[u] = balance[u]
                             \/ balance'[u].version = balance[u].version + 1
  <1>1. CASE UNCHANGED balance
    BY <1>1 DEF NobodyOverdrawn
  <1>2. ASSUME NEW u \in Users, NEW a \in Int, balance[u].available + a >= 0,
               balance' = [balance EXCEPT ![u] = Moved(balance[u], a, 0)]
        PROVE  /\ balance' \in [Users -> BalanceRow]
               /\ NobodyOverdrawn'
               /\ \A v \in Users : \/ balance'[v] = balance[v]
                                   \/ balance'[v].version = balance[v].version + 1
    <2> DEFINE new == Moved(balance[u], a, 0)
    <2>1. /\ new \in BalanceRow /\ new.available = balance[u].available + a
          /\ new.version = balance[u].version + 1
      BY RowIsMoved
    <2> HIDE DEF new
    <2>2. balance' = [balance EXCEPT ![u] = new]
      BY <1>2 DEF new
    <2> QED
      BY <1>2, <2>1, <2>2 DEF NobodyOverdrawn
  <1> QED
    BY <1>1, <1>2 DEF MoneyEffect

(* Airtm never takes back a payout or a payment, and knows of recorded     *)
(* top-ups only; it pays out recorded withdrawals only.                    *)
AirtmEffect ==
  /\ payout' \in [Keys -> Nat]
  /\ deposit' \in [Keys -> DepositState]
  /\ notified' \in [Keys -> 0 .. MaxCallbacks]
  /\ \A k \in Keys : /\ payout[k] > 0 => payout'[k] > 0
                     /\ deposit[k] = "paid" => deposit'[k] = "paid"
                     /\ payout'[k] > 0 => payout[k] > 0 \/ HasRow(k, "WITHDRAWAL")
                     /\ deposit'[k] # "none" => deposit[k] # "none" \/ HasRow(k, "TOPUP")

LEMMA AirtmSame ==
  ASSUME PaymentTypeOK, UNCHANGED <<payout, deposit, notified>>
  PROVE  AirtmEffect
  BY DEF PaymentTypeOK, AirtmEffect

EventsEffect ==
  \/ UNCHANGED pevent
  \/ \E name \in PaymentEvents, k \in Keys :
       /\ pevent' = pevent \cup {<<name, k>>}
       /\ name = "WITHDRAWAL_COMPLETED" => payout[k] > 0
       /\ name = "TOPUP_COMPLETED" => deposit[k] = "paid"

(* A request ends, or goes on with what its next step needs.               *)
GoesOn(n) ==
  /\ n \in PaymentCall
  /\ n.pc = "debitWrite" =>
       /\ n.job[1] = "withdraw"
       /\ n.seen = balance[n.user].version
       /\ balance[n.user].available >= n.amount
       /\ UNCHANGED balance
  /\ n.pc = "add" => Ready(n.job)'

CallsEffect ==
  \/ UNCHANGED preq
  \/ \E r \in Callers : \E n : /\ preq' = [preq EXCEPT ![r] = n]
                               /\ n = NoCall \/ GoesOn(n)

PaymentEffects ==
  /\ RowsEffect /\ QueueEffect /\ MoneyEffect
  /\ AirtmEffect /\ EventsEffect /\ CallsEffect

ReadyCall(r) ==
  \A j \in PaymentJobs : CallAt(r, "add") /\ preq[r].job = j => Ready(j)

ReadyCalls == \A r \in Callers : ReadyCall(r)

LEMMA CallIsTyped ==
  ASSUME PaymentTypeOK, NEW r \in Callers, preq[r].pc \in {"debitWrite", "add"}
  PROVE  /\ preq[r] \in PaymentCall
         /\ preq[r].job \in PaymentJobs
         /\ preq[r].user \in Users
         /\ preq[r].amount \in PaymentAmounts
         /\ preq[r].amount \in Nat
         /\ preq[r].seen \in Nat
  <1>1. preq[r] \in PaymentCall
    BY DEF PaymentTypeOK, NoCall
  <1> QED
    BY <1>1, PaymentAssumption DEF PaymentCall

LEMMA ReadyStays ==
  ASSUME PaymentTypeOK, KeysUnique, RowsEffect, AirtmEffect,
         NEW j \in PaymentJobs, Ready(j)
  PROVE  Ready(j)'
  <1>1. HasRow(j[2], RowType(j))' /\ j[2] \in Keys
    BY RowsStay, JobKind DEF Ready, RowType
  <1> QED
    BY <1>1 DEF Ready, AirtmEffect

LEMMA CallsStay ==
  ASSUME PaymentTypeOK, KeysUnique, NobodyOverdrawn, DebitSound, ReadyCalls, PaymentEffects
  PROVE  /\ preq' \in [Callers -> {NoCall} \cup PaymentCall]
         /\ DebitSound'
         /\ ReadyCalls'
  <1> DEFINE Sound(r) == CallAt(r, "debitWrite") =>
                           LET row == balance[preq[r].user]
                           IN  /\ preq[r].job[1] = "withdraw"
                               /\ preq[r].seen <= row.version
                               /\ preq[r].seen = row.version => row.available >= preq[r].amount
  <1>0. /\ preq \in [Callers -> {NoCall} \cup PaymentCall]
        /\ balance \in [Users -> BalanceRow]
        /\ \A r \in Callers : Sound(r)
    BY DEF PaymentTypeOK, DebitSound
  <1>1. /\ balance' \in [Users -> BalanceRow]
        /\ \A u \in Users : \/ balance'[u] = balance[u]
                            \/ balance'[u].version = balance[u].version + 1
    BY <1>0, MoneyStays DEF PaymentEffects
  <1>2. ASSUME NEW r \in Callers, preq'[r] = preq[r]
        PROVE  Sound(r)' /\ ReadyCall(r)'
    <2>1. Sound(r)'
      <3> SUFFICES ASSUME preq[r].pc = "debitWrite"
                   PROVE  /\ preq[r].job[1] = "withdraw"
                          /\ preq[r].seen <= balance'[preq[r].user].version
                          /\ preq[r].seen = balance'[preq[r].user].version =>
                               balance'[preq[r].user].available >= preq[r].amount
        BY <1>2 DEF CallAt
      <3>1. preq[r].user \in Users /\ preq[r].seen \in Nat
        BY CallIsTyped
      <3>2. balance[preq[r].user].version \in Nat
        BY <1>0, <3>1 DEF BalanceRow
      <3>3. Sound(r) /\ CallAt(r, "debitWrite")
        BY <1>0 DEF CallAt
      <3> QED
        BY <1>1, <3>1, <3>2, <3>3
    <2>2. ASSUME NEW j \in PaymentJobs, CallAt(r, "add")', preq'[r].job = j PROVE Ready(j)'
      <3>1. Ready(j)
        BY <1>2, <2>2 DEF CallAt, ReadyCalls, ReadyCall
      <3> QED
        BY <3>1, ReadyStays DEF PaymentEffects
    <2>3. ReadyCall(r)'
      BY <2>2 DEF ReadyCall
    <2> QED
      BY <2>1, <2>3
  <1>3. ASSUME NEW r \in Callers, NEW n, preq'[r] = n, n = NoCall \/ GoesOn(n)
        PROVE  /\ n \in {NoCall} \cup PaymentCall
               /\ Sound(r)' /\ ReadyCall(r)'
    <2>1. CASE n = NoCall
      BY <1>3, <2>1 DEF NoCall, CallAt, ReadyCall
    <2>2. CASE GoesOn(n)
      <3>1. n \in PaymentCall /\ n.user \in Users /\ n.seen \in Nat
        BY <2>2 DEF GoesOn, PaymentCall
      <3>2. balance[n.user].version \in Nat
        BY <1>0, <3>1 DEF BalanceRow
      <3>3. Sound(r)'
        BY <1>3, <2>2, <3>1, <3>2 DEF GoesOn, CallAt
      <3>4. ASSUME NEW j \in PaymentJobs, CallAt(r, "add")', preq'[r].job = j PROVE Ready(j)'
        BY <1>3, <2>2, <3>4 DEF GoesOn, CallAt
      <3> QED
        BY <3>1, <3>3, <3>4 DEF ReadyCall
    <2> QED
      BY <1>3, <2>1, <2>2
  <1>4. PICK q, n : /\ preq' = preq \/ (q \in Callers /\ preq' = [preq EXCEPT ![q] = n])
                    /\ n = NoCall \/ GoesOn(n)
    BY DEF PaymentEffects, CallsEffect
  <1>5. \A r \in Callers : preq'[r] = preq[r] \/ preq'[r] = n
    BY <1>0, <1>4
  <1>6. ASSUME NEW r \in Callers
        PROVE  /\ preq'[r] \in {NoCall} \cup PaymentCall
               /\ Sound(r)' /\ ReadyCall(r)'
    <2>1. CASE preq'[r] = preq[r]
      BY <1>0, <1>2, <2>1
    <2>2. CASE preq'[r] = n
      BY <1>3, <1>4, <2>2
    <2> QED
      BY <1>5, <2>1, <2>2
  <1>7. preq' \in [Callers -> {NoCall} \cup PaymentCall]
    BY <1>0, <1>4, <1>6
  <1>8. DebitSound'
    BY <1>6 DEF DebitSound
  <1> QED
    BY <1>6, <1>7, <1>8 DEF ReadyCalls

(* What was paid stays paid, and nothing is called paid that was not.      *)
LEMMA PaidStays ==
  ASSUME PaymentTypeOK, PaymentsRunning, RecordedFirst, PaymentsTruthful, BackedByAirtm,
         KeysUnique, RowsEffect, QueueEffect, AirtmEffect, EventsEffect
  PROVE  /\ PaymentsTruthful'
         /\ pevent' \subseteq PaymentEvents \X Keys
         /\ \A k \in Keys : prun'[WithdrawJob(k)].pc \in {"markPaid", "notify"} => payout'[k] > 0
  <1>1. \A k \in Keys : payout'[k] > 0 => HasRow(k, "WITHDRAWAL")'
    BY RowsStay DEF AirtmEffect, PaymentsTruthful
  <1>2. ASSUME NEW row \in txn' PROVE TrulyPaid(row)'
    <2>1. ASSUME row \in txn PROVE TrulyPaid(row)'
      BY <2>1 DEF PaymentsTruthful, TrulyPaid, AirtmEffect, PaymentTypeOK, IsPayment, PaymentRow
    <2>2. CASE UNCHANGED txn
      BY <2>1, <2>2
    <2>3. CASE Inserted
      BY <2>1, <2>3 DEF Inserted, NewPayment, TrulyPaid
    <2>4. CASE \E old, new : Replaced(old, new) /\ TrulyPaid(new)'
      BY <2>1, <2>4 DEF Replaced
    <2> QED
      BY <2>2, <2>3, <2>4 DEF RowsEffect
  <1>3. /\ pevent' \subseteq PaymentEvents \X Keys
        /\ \A k \in Keys : /\ <<"WITHDRAWAL_COMPLETED", k>> \in pevent' => payout'[k] > 0
                           /\ <<"TOPUP_COMPLETED", k>> \in pevent' => deposit'[k] = "paid"
    BY DEF EventsEffect, PaymentsTruthful, AirtmEffect, PaymentTypeOK
  <1>4. PaymentsTruthful'
    BY <1>1, <1>2, <1>3 DEF PaymentsTruthful, TrulyPaid
  <1>5. ASSUME NEW k \in Keys, prun'[WithdrawJob(k)].pc \in {"markPaid", "notify"}
        PROVE  payout'[k] > 0
    <2> DEFINE w == WithdrawJob(k)
    <2>0. w \in PaymentJobs /\ w[1] = "withdraw" /\ w[2] = k
      BY JobOfKey
    <2>1. prun \in [PaymentJobs -> PaymentRun]
      BY DEF PaymentTypeOK
    <2> HIDE DEF w
    <2>2. CASE prun'[w] = prun[w]
      BY <1>5, <2>2 DEF BackedByAirtm, AirtmEffect, w
    <2>3. ASSUME NEW n, AtStep(n, w), prun'[w] = n PROVE payout'[k] > 0
      BY <1>5, <2>0, <2>3 DEF AtStep, w
    <2>4. CASE prun'[w] = Resting
      BY <1>5, <2>4 DEF Resting, w
    <2> QED
      BY <2>0, <2>1, <2>2, <2>3, <2>4 DEF QueueEffect, Goes, Starts, Ends, Queued
  <1> QED
    BY <1>3, <1>4, <1>5

LEMMA EffectsKeep ==
  ASSUME PaymentsInv, PaymentEffects
  PROVE  PaymentsInv'
  <1>0. /\ PaymentTypeOK /\ KeysUnique /\ RecordedFirst /\ PaymentsRunning
        /\ NobodyOverdrawn /\ DebitSound /\ BackedByAirtm /\ PaymentsTruthful
        /\ RowsEffect /\ QueueEffect /\ MoneyEffect /\ AirtmEffect /\ EventsEffect
    BY DEF PaymentsInv, PaymentEffects
  <1>1. ReadyCalls
    <2> SUFFICES ASSUME NEW r \in Callers, NEW j \in PaymentJobs, CallAt(r, "add"), preq[r].job = j
                 PROVE  Ready(j)
      BY DEF ReadyCalls, ReadyCall
    <2> QED
      BY <1>0 DEF RecordedFirst, BackedByAirtm, Ready
  <1>2. /\ \A row \in txn' : IsPayment(row) => row \in PaymentRow
        /\ KeysUnique'
        /\ \A k, type : HasRow(k, type) => HasRow(k, type)'
    BY <1>0, RowsStay
  <1>3. /\ pjob' \in [PaymentJobs -> JobRecord]
        /\ prun' \in [PaymentJobs -> PaymentRun]
        /\ PaymentsRunning'
        /\ \A j \in PaymentJobs : pjob'[j].state # "none" => pjob[j].state # "none" \/ Ready(j)
    BY <1>0, RunsStay
  <1>4. balance' \in [Users -> BalanceRow] /\ NobodyOverdrawn'
    BY <1>0, MoneyStays DEF PaymentTypeOK
  <1>5. /\ preq' \in [Callers -> {NoCall} \cup PaymentCall]
        /\ DebitSound' /\ ReadyCalls'
    BY <1>0, <1>1, CallsStay DEF PaymentsInv
  <1>6. /\ PaymentsTruthful'
        /\ pevent' \subseteq PaymentEvents \X Keys
        /\ \A k \in Keys : prun'[WithdrawJob(k)].pc \in {"markPaid", "notify"} => payout'[k] > 0
    BY <1>0, PaidStays
  <1>7. PaymentTypeOK'
    BY <1>0, <1>2, <1>3, <1>4, <1>5, <1>6 DEF PaymentTypeOK, AirtmEffect
  <1>8. \A j \in PaymentJobs : pjob'[j].state # "none" => Ready(j)'
    <2> SUFFICES ASSUME NEW j \in PaymentJobs, pjob'[j].state # "none" PROVE Ready(j)'
      OBVIOUS
    <2>1. Ready(j)
      BY <1>0, <1>3 DEF RecordedFirst, BackedByAirtm, Ready
    <2> QED
      BY <1>0, <2>1, ReadyStays
  <1>9. \A r \in Callers : CallAt(r, "add")' =>
          /\ HasRow(preq[r].job[2], RowType(preq[r].job))'
          /\ preq'[r].job[1] = "credit" => deposit'[preq'[r].job[2]] = "paid"
    <2> SUFFICES ASSUME NEW r \in Callers, CallAt(r, "add")'
                 PROVE  /\ HasRow(preq[r].job[2], RowType(preq[r].job))'
                        /\ preq'[r].job[1] = "credit" => deposit'[preq'[r].job[2]] = "paid"
      OBVIOUS
    <2>1. PICK j \in PaymentJobs : preq'[r].job = j
      BY <1>7, CallIsTyped DEF CallAt, PaymentTypeOK, PaymentCall, NoCall
    <2>2. Ready(j)'
      BY <1>5, <2>1 DEF ReadyCalls, ReadyCall
    <2> QED
      BY <2>1, <2>2 DEF Ready, HasRow, RowType
  <1>10. RecordedFirst'
    BY <1>0, <1>2, <1>8, <1>9 DEF RecordedFirst, Ready, AirtmEffect
  <1>11. BackedByAirtm'
    BY <1>6, <1>8, <1>9 DEF BackedByAirtm, Ready
  <1> QED
    BY <1>2, <1>3, <1>4, <1>5, <1>6, <1>7, <1>10, <1>11 DEF PaymentsInv

-----------------------------------------------------------------------------
(* What each step does.  First the requests. *)

LEMMA RequestJobs ==
  ASSUME NEW k \in Keys
  PROVE  /\ <<"withdraw", k, 1>> \in PaymentJobs
         /\ <<"session", k, 1>> \in PaymentJobs
         /\ \A n \in 1 .. MaxCallbacks : <<"credit", k, n>> \in PaymentJobs
         /\ RowType(<<"withdraw", k, 1>>) = "WITHDRAWAL"
         /\ RowType(<<"session", k, 1>>) = "TOPUP"
         /\ \A n : RowType(<<"credit", k, n>>) = "TOPUP"
  BY DEF PaymentJobs, RowType

LEMMA BeginIsTyped ==
  ASSUME NEW r \in Callers, NEW pc \in {"debitWrite", "add"}, NEW j \in PaymentJobs,
         NEW u \in Users, NEW a \in PaymentAmounts, NEW seen \in Nat,
         BeginCall(r, pc, j, u, a, seen)
  PROVE  \E n \in PaymentCall :
           /\ preq' = [preq EXCEPT ![r] = n]
           /\ n.pc = pc /\ n.job = j /\ n.user = u /\ n.amount = a /\ n.seen = seen
  <1> DEFINE n == [pc |-> pc, job |-> j, user |-> u, amount |-> a, seen |-> seen]
  <1>1. n \in PaymentCall
    BY DEF PaymentCall
  <1> QED
    BY <1>1 DEF BeginCall

LEMMA EndIsEffect ==
  ASSUME NEW r \in Callers, EndCall(r)
  PROVE  CallsEffect
  BY DEF EndCall, CallsEffect

LEMMA WithdrawEffects ==
  ASSUME PaymentsInv, UNCHANGED prun, NEW r \in Callers,
         NEW k \in Keys, NEW u \in Users, NEW a \in PaymentAmounts, Withdraw(r, k, u, a)
  PROVE  PaymentEffects
  <1>1. balance[u].version \in Nat
    BY DEF PaymentsInv, PaymentTypeOK, BalanceRow
  <1>2. PICK n \in PaymentCall :
          /\ preq' = [preq EXCEPT ![r] = n]
          /\ n.pc = "debitWrite" /\ n.job = <<"withdraw", k, 1>>
          /\ n.user = u /\ n.amount = a /\ n.seen = balance[u].version
    <2>1. BeginCall(r, "debitWrite", <<"withdraw", k, 1>>, u, a, balance[u].version)
      BY DEF Withdraw
    <2>2. PICK j \in PaymentJobs, seen \in Nat :
            j = <<"withdraw", k, 1>> /\ seen = balance[u].version
      BY <1>1, RequestJobs
    <2> QED
      BY <2>1, <2>2, BeginIsTyped
  <1>3. GoesOn(n)
    BY <1>2 DEF GoesOn, Withdraw
  <1> QED
    BY <1>2, <1>3, AirtmSame DEF PaymentEffects, RowsEffect, QueueEffect, MoneyEffect,
                                EventsEffect, CallsEffect, Withdraw, PaymentsInv

LEMMA DebitEffects ==
  ASSUME PaymentsInv, UNCHANGED prun, NEW r \in Callers, DebitWrite(r)
  PROVE  /\ PaymentEffects
         /\ preq[r].user \in Users /\ preq[r].amount \in PaymentAmounts
         /\ preq[r].job[2] \in Keys
         /\ balance[preq[r].user].available >= preq[r].amount
  <1>1. /\ preq[r] \in PaymentCall /\ preq[r].job \in PaymentJobs
        /\ preq[r].user \in Users /\ preq[r].amount \in PaymentAmounts
        /\ preq[r].amount \in Nat
    BY CallIsTyped DEF PaymentsInv, DebitWrite, CallAt
  <1>2. PICK j \in PaymentJobs, u \in Users, a \in PaymentAmounts :
          preq[r].job = j /\ preq[r].user = u /\ preq[r].amount = a
    BY <1>1
  <1>3. j[1] = "withdraw" /\ j[2] \in Keys
    BY <1>2, JobKind DEF PaymentsInv, DebitSound, DebitWrite
  <1>4. balance[u].available >= a
    BY <1>2 DEF PaymentsInv, DebitSound, DebitWrite, Current
  <1>5. /\ ~Used(j[2])
        /\ balance' = [balance EXCEPT ![u] = Moved(balance[u], -a, 0)]
        /\ txn' = txn \cup {NewPayment(j[2], "WITHDRAWAL", u, a)}
        /\ preq' = [preq EXCEPT ![r] = [preq[r] EXCEPT !.pc = "add"]]
        /\ UNCHANGED <<pjob, pevent, payout, deposit, notified>>
    BY <1>2 DEF DebitWrite
  <1>6. RowsEffect
    BY <1>3, <1>5 DEF RowsEffect, Inserted, PaymentTypes
  <1>7. MoneyEffect
    <2>1. balance[u].available \in Int /\ a \in Nat /\ -a \in Int
      BY <1>1, <1>2, PaymentAssumption DEF PaymentsInv, PaymentTypeOK, BalanceRow
    <2>2. balance[u].available + (-a) >= 0
      BY <1>4, <2>1
    <2> QED
      BY <1>5, <2>1, <2>2 DEF MoneyEffect
  <1>8. CallsEffect
    <2> DEFINE n == [preq[r] EXCEPT !.pc = "add"]
    <2>1. n \in PaymentCall /\ n.pc = "add" /\ n.job = j
      BY <1>1, <1>2 DEF PaymentCall
    <2>2. preq' = [preq EXCEPT ![r] = n]
      BY <1>5
    <2> HIDE DEF n
    <2>3. PICK m : m = n
      OBVIOUS
    <2>4. HasRow(j[2], "WITHDRAWAL")'
      <3>1. NewPayment(j[2], "WITHDRAWAL", u, a) \in txn'
        BY <1>5
      <3> QED
        BY <1>3, <3>1, NewPaymentIsRow DEF HasRow, PaymentTypes
    <2>5. Ready(j)'
      BY <1>3, <2>4 DEF Ready, RowType
    <2>6. GoesOn(m)
      BY <2>1, <2>3, <2>5 DEF GoesOn
    <2> QED
      BY <2>2, <2>3, <2>6 DEF CallsEffect
  <1>9. AirtmEffect
    BY <1>5, AirtmSame DEF PaymentsInv
  <1> QED
    BY <1>1, <1>2, <1>3, <1>4, <1>5, <1>6, <1>7, <1>8, <1>9
    DEF PaymentEffects, QueueEffect, EventsEffect

LEMMA TopupEffects ==
  ASSUME PaymentsInv, UNCHANGED prun, NEW r \in Callers,
         NEW k \in Keys, NEW u \in Users, NEW a \in PaymentAmounts, Topup(r, k, u, a)
  PROVE  PaymentEffects
  <1>1. PICK n \in PaymentCall :
          /\ preq' = [preq EXCEPT ![r] = n]
          /\ n.pc = "add" /\ n.job = <<"session", k, 1>>
    <2>1. BeginCall(r, "add", <<"session", k, 1>>, u, a, 0)
      BY DEF Topup
    <2>2. PICK j \in PaymentJobs : j = <<"session", k, 1>>
      BY RequestJobs
    <2> QED
      BY <2>1, <2>2, BeginIsTyped
  <1>2. HasRow(k, "TOPUP")'
    <2>1. NewPayment(k, "TOPUP", u, a) \in txn'
      BY DEF Topup
    <2> QED
      BY <2>1, NewPaymentIsRow DEF HasRow, PaymentTypes
  <1>3. Ready(<<"session", k, 1>>)'
    BY <1>2, RequestJobs DEF Ready
  <1>4. GoesOn(n)
    BY <1>1, <1>3 DEF GoesOn
  <1>5. RowsEffect
    BY DEF RowsEffect, Inserted, Topup, PaymentTypes
  <1> QED
    BY <1>1, <1>4, <1>5, AirtmSame DEF PaymentEffects, QueueEffect, MoneyEffect,
                                      EventsEffect, CallsEffect, Topup, PaymentsInv

LEMMA CallbackEffects ==
  ASSUME PaymentsInv, UNCHANGED prun, NEW r \in Callers, NEW k \in Keys, Callback(r, k)
  PROVE  PaymentEffects /\ HasRow(k, "TOPUP") /\ Replaced(Payment(k),
           [Payment(k) EXCEPT !.status = IF Succeeded(k) THEN "COMPLETED" ELSE "FAILED",
                              !.reference = 1])
  <1>0. PaymentTypeOK /\ KeysUnique /\ RecordedFirst
    BY DEF PaymentsInv
  <1>1. HasRow(k, "TOPUP")
    BY <1>0 DEF RecordedFirst, Callback, Ended
  <1>2. /\ Payment(k).type = "TOPUP" /\ Payment(k) \in PaymentRow
        /\ Payment(k).user \in Users /\ Payment(k).amount \in PaymentAmounts
    BY <1>0, <1>1, PaymentIsFound DEF PaymentTypes
  <1> DEFINE status == IF Succeeded(k) THEN "COMPLETED" ELSE "FAILED"
             new == [Payment(k) EXCEPT !.status = status, !.reference = 1]
  <1>3. Replaced(Payment(k), new)
    <2>1. status \in TransactionStatus /\ txn' = WithReference(k, status, 1)
      BY DEF TransactionStatus, Callback
    <2> QED
      BY <1>0, <1>1, <2>1, ReferenceReplaces DEF PaymentTypes
  <1>4. RowsEffect
    <2>1. new.type = "TOPUP"
      BY <1>2 DEF PaymentRow
    <2> HIDE DEF new
    <2>2. PICK old, row : old = Payment(k) /\ row = new
      OBVIOUS
    <2>3. Replaced(old, row) /\ TrulyPaid(row)'
      BY <1>3, <2>1, <2>2 DEF Replaced, TrulyPaid
    <2> QED
      BY <2>3 DEF RowsEffect
  <1>5. CallsEffect
    <2>1. CASE ~Succeeded(k)
      BY <2>1 DEF Callback, CallsEffect
    <2>2. CASE Succeeded(k)
      <3>1. notified[k] \in 0 .. MaxCallbacks /\ notified[k] < MaxCallbacks
        BY <1>0 DEF PaymentTypeOK, Callback
      <3>2. notified[k] + 1 \in 1 .. MaxCallbacks
        BY <3>1, AirtmAssumption
      <3>3. PICK j \in PaymentJobs : /\ j = <<"credit", k, notified[k] + 1>>
                                     /\ j[2] = k /\ RowType(j) = "TOPUP"
        BY <3>2, RequestJobs
      <3>4. PICK n \in PaymentCall :
              /\ preq' = [preq EXCEPT ![r] = n]
              /\ n.pc = "add" /\ n.job = j
        BY <1>2, <2>2, <3>3, BeginIsTyped DEF Callback
      <3>5. HasRow(k, "TOPUP")' /\ deposit'[k] = "paid"
        BY <1>0, <1>1, <1>4, <2>2, RowsStay DEF Callback, Succeeded
      <3>6. Ready(j)'
        BY <3>3, <3>5 DEF Ready
      <3>7. GoesOn(n)
        BY <3>4, <3>6 DEF GoesOn
      <3> QED
        BY <3>4, <3>7 DEF CallsEffect
    <2> QED
      BY <2>1, <2>2
  <1>6. AirtmEffect
    <2>1. /\ notified' = [notified EXCEPT ![k] = notified[k] + 1]
          /\ UNCHANGED <<payout, deposit>>
          /\ notified[k] \in 0 .. MaxCallbacks /\ notified[k] < MaxCallbacks
      BY <1>0 DEF Callback, PaymentTypeOK
    <2>2. notified[k] + 1 \in 0 .. MaxCallbacks
      BY <2>1, AirtmAssumption
    <2> QED
      BY <1>0, <2>1, <2>2 DEF PaymentTypeOK, AirtmEffect
  <1> QED
    BY <1>1, <1>3, <1>4, <1>5, <1>6
    DEF PaymentEffects, QueueEffect, MoneyEffect, EventsEffect, Callback

LEMMA AddEffects ==
  ASSUME PaymentsInv, UNCHANGED prun, NEW r \in Callers, AddJob(r)
  PROVE  PaymentEffects
  <1>1. PICK j \in PaymentJobs : preq[r].job = j
    BY CallIsTyped DEF PaymentsInv, AddJob, CallAt
  <1>2. Ready(j)
    BY <1>1 DEF PaymentsInv, RecordedFirst, BackedByAirtm, AddJob, Ready
  <1>3. Queued(j)
    BY <1>1, <1>2 DEF Queued, AddJob
  <1> QED
    BY <1>3, AirtmSame, EndIsEffect DEF PaymentEffects, RowsEffect, QueueEffect, MoneyEffect,
                                        EventsEffect, AddJob, PaymentsInv

LEMMA AbortEffects ==
  ASSUME PaymentsInv, UNCHANGED prun, NEW r \in Callers, DebitConflict(r) \/ CallAborted(r)
  PROVE  PaymentEffects
  BY AirtmSame, EndIsEffect DEF PaymentEffects, RowsEffect, QueueEffect, MoneyEffect, EventsEffect,
                                DebitConflict, CallAborted, PaymentsInv

LEMMA SessionEndEffects ==
  ASSUME PaymentsInv, NEW k \in Keys, SessionEnds(k),
         UNCHANGED <<balance, txn, pjob, pevent, preq, prun>>
  PROVE  PaymentEffects
  <1>1. PICK end \in Ended : deposit' = [deposit EXCEPT ![k] = end]
    BY DEF SessionEnds
  <1>2. AirtmEffect
    BY <1>1 DEF AirtmEffect, SessionEnds, PaymentsInv, PaymentTypeOK, Ended, DepositState
  <1> QED
    BY <1>2 DEF PaymentEffects, RowsEffect, QueueEffect, MoneyEffect, EventsEffect, CallsEffect

-----------------------------------------------------------------------------
(* Then the runs. *)

LEMMA InvParts ==
  PaymentsInv =>
    /\ PaymentTypeOK /\ KeysUnique /\ RecordedFirst /\ PaymentsRunning
    /\ BackedByAirtm /\ NobodyOverdrawn /\ PaymentsTruthful
  BY DEF PaymentsInv

LEMMA PcIsNotIdle ==
  ASSUME NEW j, NEW pc, RunAt(j, pc), pc # "idle"
  PROVE  ~RunAt(j, "idle")
  BY DEF RunAt

LEMMA StepIsPc ==
  ASSUME NEW j \in PaymentJobs, NEW pc \in Steps[j[1]]
  PROVE  pc \in {"pay", "markPaid", "restoreRead", "restoreWrite", "creditRead", "creditWrite",
                 "session", "saveSession", "failTopup", "notify", "notifyFailed"}
  BY JobKind, StepsOf

LEMMA RunToGoes ==
  ASSUME PaymentsInv, NEW j \in PaymentJobs, NEW pc \in Steps[j[1]], ~RunAt(j, "idle"),
         RunTo(j, pc), UNCHANGED pjob,
         j[1] = "withdraw" /\ pc \in {"markPaid", "notify"} => payout'[j[2]] > 0
  PROVE  QueueEffect
  <1>1. prun[j] \in PaymentRun
    BY DEF PaymentsInv, PaymentTypeOK
  <1> DEFINE n == [prun[j] EXCEPT !.pc = pc]
  <1>2. n \in PaymentRun /\ n.pc = pc
    BY <1>1, StepIsPc DEF PaymentRun
  <1>3. prun' = [prun EXCEPT ![j] = n]
    BY DEF RunTo
  <1> HIDE DEF n
  <1>4. AtStep(n, j)
    BY <1>2 DEF AtStep
  <1>5. Goes(j)
    <2>1. PICK m : m = n
      OBVIOUS
    <2> QED
      BY <1>3, <1>4, <2>1 DEF Goes
  <1> QED
    BY <1>5 DEF QueueEffect

LEMMA RunEndsEnds ==
  ASSUME NEW j \in PaymentJobs, ~RunAt(j, "idle"),
         NEW outcome \in {Completed(pjob[j]), Failed(pjob[j]), Stalled(pjob[j])},
         RunEnds(j, outcome)
  PROVE  QueueEffect
  BY DEF RunEnds, Ends, QueueEffect

LEMMA PaidInIsEffect ==
  ASSUME PaymentsInv, NEW k, NEW type \in PaymentTypes, HasRow(k, type), balance' = PaidIn(k)
  PROVE  MoneyEffect
  <1>1. PICK u \in Users, a \in Nat : u = Payment(k).user /\ a = Payment(k).amount
    BY PaymentIsFound, InvParts
  <1>2. balance[u].available \in Int /\ balance[u].available >= 0
    BY InvParts DEF PaymentTypeOK, BalanceRow, NobodyOverdrawn
  <1>3. balance[u].available + a >= 0 /\ a \in Int
    BY <1>2
  <1>4. balance' = [balance EXCEPT ![u] = Moved(balance[u], a, 0)]
    BY <1>1 DEF PaidIn
  <1> QED
    BY <1>3, <1>4 DEF MoneyEffect

(* A step that only takes one run further.                                 *)
LEMMA OnlyRunMoves ==
  ASSUME PaymentsInv, QueueEffect,
         UNCHANGED <<balance, txn, pevent, payout, deposit, notified, preq>>
  PROVE  PaymentEffects
  BY AirtmSame, InvParts DEF PaymentEffects, RowsEffect, MoneyEffect, EventsEffect, CallsEffect

LEMMA StartEffects ==
  ASSUME PaymentsInv, UNCHANGED preq, NEW j \in PaymentJobs, PaymentStart(j)
  PROVE  PaymentEffects
  <1>1. prun[j] \in PaymentRun
    BY InvParts DEF PaymentTypeOK
  <1>2. /\ FirstStep[j[1]] \in Steps[j[1]]
        /\ FirstStep[j[1]] \notin {"markPaid", "notify"}
    BY JobKind, StepsOf DEF FirstStep
  <1>3. PICK pc \in Steps[j[1]] : pc = FirstStep[j[1]]
    BY <1>2
  <1> DEFINE n == [prun[j] EXCEPT !.pc = pc]
  <1>4. n \in PaymentRun /\ n.pc = pc
    BY <1>1, StepIsPc DEF PaymentRun
  <1>5. prun' = [prun EXCEPT ![j] = n] /\ pjob' = [pjob EXCEPT ![j] = Started(pjob[j])]
    BY <1>3 DEF PaymentStart, RunTo
  <1> HIDE DEF n
  <1>6. PICK m : m = n
    OBVIOUS
  <1>7. AtStep(m, j)
    BY <1>2, <1>3, <1>4, <1>6 DEF AtStep
  <1>8. Starts(j)
    BY <1>5, <1>6, <1>7 DEF Starts, PaymentStart
  <1> QED
    BY <1>8, OnlyRunMoves DEF QueueEffect, PaymentStart

LEMMA ReadEffects ==
  ASSUME PaymentsInv, UNCHANGED preq, NEW j \in PaymentJobs, NEW from, NEW to \in Steps[j[1]],
         from # "idle", to \notin {"markPaid", "notify"}, HasRow(j[2], RowType(j)),
         ReadBalance(j, from, to)
  PROVE  PaymentEffects
  <1>1. prun[j] \in PaymentRun
    BY InvParts DEF PaymentTypeOK
  <1>2. Payment(j[2]).user \in Users
    BY PaymentIsFound, JobKind, InvParts
  <1>3. PICK seen \in Nat : seen = balance[Payment(j[2]).user].version
    BY <1>2, InvParts DEF PaymentTypeOK, BalanceRow
  <1> DEFINE n == [prun[j] EXCEPT !.pc = to, !.seen = seen]
  <1>4. n \in PaymentRun /\ n.pc = to
    BY <1>1, StepIsPc DEF PaymentRun
  <1>5. prun' = [prun EXCEPT ![j] = n]
    BY <1>3 DEF ReadBalance
  <1> HIDE DEF n
  <1>6. PICK m : m = n
    OBVIOUS
  <1>7. AtStep(m, j)
    BY <1>4, <1>6 DEF AtStep
  <1>8. Goes(j)
    BY <1>5, <1>6, <1>7, PcIsNotIdle DEF Goes, ReadBalance
  <1> QED
    BY <1>8, OnlyRunMoves DEF QueueEffect, ReadBalance

LEMMA RunningHasRow ==
  ASSUME PaymentsInv, NEW j \in PaymentJobs, ~RunAt(j, "idle")
  PROVE  /\ HasRow(j[2], RowType(j)) /\ RowType(j) \in PaymentTypes
         /\ j[2] \in Keys
         /\ prun[j].pc \in Steps[j[1]]
         /\ pjob[j].state = "active"
         /\ j[1] = "credit" => deposit[j[2]] = "paid"
  BY InvParts, RunningIsReady, JobKind DEF Ready

LEMMA PayEffects ==
  ASSUME PaymentsInv, UNCHANGED preq, NEW k \in Keys, Pay(k)
  PROVE  PaymentEffects
  <1>1. PICK j \in PaymentJobs : /\ j = WithdrawJob(k) /\ j[1] = "withdraw" /\ j[2] = k
                                 /\ RowType(j) = "WITHDRAWAL"
    BY JobOfKey DEF RowType
  <1>2. ~RunAt(j, "idle") /\ HasRow(k, "WITHDRAWAL")
    BY <1>1, PcIsNotIdle, RunningHasRow DEF Pay
  <1>3. payout[k] \in Nat /\ payout \in [Keys -> Nat]
    BY InvParts DEF PaymentTypeOK
  <1>4. AirtmEffect
    <2>1. payout' \in {payout, [payout EXCEPT ![k] = payout[k] + 1]}
      BY DEF Pay, Transferred
    <2> QED
      BY <1>2, <1>3, <2>1, InvParts DEF AirtmEffect, PaymentTypeOK, Pay
  <1>5. QueueEffect
    <2>1. CASE payout' = Transferred(k) /\ RunTo(j, "markPaid")
      <3>1. payout'[k] > 0
        BY <1>3, <2>1 DEF Transferred
      <3>2. "markPaid" \in Steps[j[1]]
        BY <1>1, StepsOf
      <3> QED
        BY <1>1, <1>2, <2>1, <3>1, <3>2, RunToGoes DEF Pay
    <2>2. CASE RunTo(j, "restoreRead")
      <3>1. "restoreRead" \in Steps[j[1]]
        BY <1>1, StepsOf
      <3> QED
        BY <1>1, <1>2, <2>2, <3>1, RunToGoes DEF Pay
    <2> QED
      BY <1>1, <2>1, <2>2 DEF Pay
  <1> QED
    BY <1>4, <1>5 DEF PaymentEffects, RowsEffect, MoneyEffect, EventsEffect, CallsEffect, Pay

LEMMA MarkPaidEffects ==
  ASSUME PaymentsInv, UNCHANGED preq, NEW k \in Keys, MarkPaid(k)
  PROVE  /\ PaymentEffects /\ HasRow(k, "WITHDRAWAL")
         /\ \E new : Replaced(Payment(k), new)
  <1>1. PICK j \in PaymentJobs : /\ j = WithdrawJob(k) /\ j[1] = "withdraw" /\ j[2] = k
                                 /\ RowType(j) = "WITHDRAWAL"
    BY JobOfKey DEF RowType
  <1>2. ~RunAt(j, "idle") /\ HasRow(k, "WITHDRAWAL")
    BY <1>1, PcIsNotIdle, RunningHasRow DEF MarkPaid
  <1>3. payout[k] > 0 /\ payout[k] \in Nat /\ payout' = payout
    BY <1>1, InvParts DEF BackedByAirtm, PaymentTypeOK, MarkPaid, RunAt
  <1>4. PICK c \in Nat : c = payout[k]
    BY <1>3
  <1> DEFINE new == [Payment(k) EXCEPT !.status = "COMPLETED", !.reference = c]
  <1>5. Replaced(Payment(k), new)
    <2>1. txn' = WithReference(k, "COMPLETED", c)
      BY <1>4 DEF MarkPaid
    <2> QED
      BY <1>2, <2>1, InvParts, ReferenceReplaces DEF PaymentTypes, TransactionStatus
  <1>6. PICK old, row : old = Payment(k) /\ row = new
    OBVIOUS
  <1>7. Replaced(old, row)
    BY <1>5, <1>6
  <1>8. row.key = k
    BY <1>2, <1>7, <1>6, InvParts, PaymentIsFound DEF Replaced, SamePayment, PaymentTypes
  <1>9. RowsEffect
    <2>1. TrulyPaid(row)'
      BY <1>3, <1>8 DEF TrulyPaid
    <2> QED
      BY <1>7, <2>1 DEF RowsEffect
  <1>10. QueueEffect
    <2>1. "notify" \in Steps[j[1]]
      BY <1>1, StepsOf
    <2> QED
      BY <1>1, <1>2, <1>3, <2>1, RunToGoes DEF MarkPaid
  <1> QED
    BY <1>2, <1>6, <1>7, <1>9, <1>10, AirtmSame, InvParts
    DEF PaymentEffects, MoneyEffect, EventsEffect, CallsEffect, MarkPaid

LEMMA PayThrowsEffects ==
  ASSUME PaymentsInv, UNCHANGED preq, NEW k \in Keys, PayThrows(k)
  PROVE  PaymentEffects
  <1>1. PICK j \in PaymentJobs : j = WithdrawJob(k) /\ j[1] = "withdraw" /\ j[2] = k
    BY JobOfKey
  <1>2. ~RunAt(j, "idle") /\ "restoreRead" \in Steps[j[1]]
    BY <1>1, PcIsNotIdle, StepsOf DEF PayThrows
  <1>3. QueueEffect
    BY <1>1, <1>2, RunToGoes DEF PayThrows
  <1> QED
    BY <1>3, OnlyRunMoves DEF PayThrows

LEMMA RestoreReadEffects ==
  ASSUME PaymentsInv, UNCHANGED preq, NEW k \in Keys, RestoreRead(k)
  PROVE  PaymentEffects
  <1>1. PICK j \in PaymentJobs : j = WithdrawJob(k) /\ j[1] = "withdraw" /\ j[2] = k
    BY JobOfKey
  <1>2. ReadBalance(j, "restoreRead", "restoreWrite")
    BY <1>1 DEF RestoreRead
  <1>3. ~RunAt(j, "idle") /\ "restoreWrite" \in Steps[j[1]]
    BY <1>1, <1>2, PcIsNotIdle, StepsOf DEF ReadBalance
  <1> QED
    BY <1>2, <1>3, RunningHasRow, ReadEffects

LEMMA CreditReadEffects ==
  ASSUME PaymentsInv, UNCHANGED preq, NEW j \in PaymentJobs, CreditRead(j)
  PROVE  PaymentEffects
  <1>1. ~RunAt(j, "idle") /\ "creditWrite" \in Steps[j[1]]
    BY PcIsNotIdle, StepsOf DEF CreditRead, ReadBalance
  <1> QED
    BY <1>1, RunningHasRow, ReadEffects DEF CreditRead

(* The two writes: the row takes a status and the user gets the sum.       *)
LEMMA StatusEffects ==
  ASSUME PaymentsInv, NEW k \in Keys, NEW type \in PaymentTypes, HasRow(k, type),
         UNCHANGED payout,
         NEW status \in TransactionStatus, type = "WITHDRAWAL" => status # "COMPLETED",
         txn' = WithStatus(k, status)
  PROVE  /\ RowsEffect
         /\ \E new : Replaced(Payment(k), new)
  <1> DEFINE new == [Payment(k) EXCEPT !.status = status]
  <1>1. Replaced(Payment(k), new)
    BY InvParts, StatusReplaces
  <1>2. Payment(k) \in PaymentRow /\ Payment(k).type = type
    BY InvParts, PaymentIsFound
  <1>3. new.type = type /\ new.status = status
    BY <1>2 DEF PaymentRow
  <1> HIDE DEF new
  <1>4. PICK old, row : old = Payment(k) /\ row = new
    OBVIOUS
  <1>5. Replaced(old, row) /\ TrulyPaid(row)'
    BY <1>1, <1>3, <1>4 DEF TrulyPaid
  <1> QED
    BY <1>4, <1>5 DEF RowsEffect

LEMMA RestoreWriteEffects ==
  ASSUME PaymentsInv, UNCHANGED preq, NEW k \in Keys, RestoreWrite(k)
  PROVE  /\ PaymentEffects /\ HasRow(k, "WITHDRAWAL")
         /\ \E new : Replaced(Payment(k), new)
  <1>1. PICK j \in PaymentJobs : /\ j = WithdrawJob(k) /\ j[1] = "withdraw" /\ j[2] = k
                                 /\ RowType(j) = "WITHDRAWAL"
    BY JobOfKey DEF RowType
  <1>2. /\ ~RunAt(j, "idle") /\ HasRow(k, "WITHDRAWAL")
        /\ "notifyFailed" \in Steps[j[1]]
    BY <1>1, PcIsNotIdle, RunningHasRow, StepsOf DEF RestoreWrite
  <1>3. RowsEffect /\ \E new : Replaced(Payment(k), new)
    BY <1>2, StatusEffects DEF RestoreWrite, PaymentTypes, TransactionStatus
  <1>4. MoneyEffect
    BY <1>2, PaidInIsEffect DEF RestoreWrite, PaymentTypes
  <1>5. QueueEffect
    BY <1>1, <1>2, RunToGoes DEF RestoreWrite
  <1> QED
    BY <1>2, <1>3, <1>4, <1>5, AirtmSame, InvParts
    DEF PaymentEffects, EventsEffect, CallsEffect, RestoreWrite

LEMMA CreditWriteEffects ==
  ASSUME PaymentsInv, UNCHANGED preq, NEW j \in PaymentJobs, CreditWrite(j)
  PROVE  /\ PaymentEffects /\ HasRow(j[2], "TOPUP") /\ j[2] \in Keys /\ deposit[j[2]] = "paid"
         /\ \E new : Replaced(Payment(j[2]), new)
  <1>1. /\ ~RunAt(j, "idle") /\ HasRow(j[2], RowType(j)) /\ j[2] \in Keys
        /\ prun[j].pc \in Steps[j[1]]
        /\ j[1] = "credit" => deposit[j[2]] = "paid"
    BY PcIsNotIdle, RunningHasRow DEF CreditWrite
  <1>2. j[1] = "credit"
    BY <1>1, JobKind, StepsOf DEF CreditWrite, RunAt
  <1>3. HasRow(j[2], "TOPUP") /\ "notify" \in Steps[j[1]]
    BY <1>1, <1>2, StepsOf DEF RowType
  <1>4. RowsEffect /\ \E new : Replaced(Payment(j[2]), new)
    BY <1>1, <1>3, StatusEffects DEF CreditWrite, PaymentTypes, TransactionStatus
  <1>5. MoneyEffect
    BY <1>3, PaidInIsEffect DEF CreditWrite, PaymentTypes
  <1>6. QueueEffect
    BY <1>1, <1>2, <1>3, RunToGoes DEF CreditWrite
  <1> QED
    BY <1>1, <1>2, <1>3, <1>4, <1>5, <1>6, AirtmSame, InvParts
    DEF PaymentEffects, EventsEffect, CallsEffect, CreditWrite

LEMMA CreateSessionEffects ==
  ASSUME PaymentsInv, UNCHANGED preq, NEW k \in Keys, CreateSession(k)
  PROVE  PaymentEffects
  <1>1. PICK j \in PaymentJobs : /\ j = SessionJob(k) /\ j[1] = "session" /\ j[2] = k
                                 /\ RowType(j) = "TOPUP"
    BY JobOfKey DEF RowType
  <1>2. /\ ~RunAt(j, "idle") /\ HasRow(k, "TOPUP")
        /\ "saveSession" \in Steps[j[1]] /\ "failTopup" \in Steps[j[1]]
    BY <1>1, PcIsNotIdle, RunningHasRow, StepsOf DEF CreateSession
  <1>3. QueueEffect
    BY <1>1, <1>2, RunToGoes DEF CreateSession
  <1>4. AirtmEffect
    <2>1. PICK d \in {deposit[k], "open"} :
            /\ deposit' = [deposit EXCEPT ![k] = d]
            /\ deposit[k] # "none" => d = deposit[k]
      BY InvParts DEF CreateSession, SessionOpened, PaymentTypeOK
    <2> QED
      BY <1>2, <2>1, InvParts DEF AirtmEffect, PaymentTypeOK, DepositState, CreateSession
  <1> QED
    BY <1>3, <1>4
    DEF PaymentEffects, RowsEffect, MoneyEffect, EventsEffect, CallsEffect, CreateSession

LEMMA SaveSessionEffects ==
  ASSUME PaymentsInv, UNCHANGED preq, NEW k \in Keys, SaveSession(k)
  PROVE  PaymentEffects
  <1>1. PICK j \in PaymentJobs : j = SessionJob(k) /\ j[1] = "session"
    BY JobOfKey
  <1>2. ~RunAt(j, "idle") /\ "failTopup" \in Steps[j[1]]
    BY <1>1, PcIsNotIdle, StepsOf DEF SaveSession
  <1>3. QueueEffect
    <2>1. CASE RunEnds(j, Completed(pjob[j]))
      BY <1>2, <2>1, RunEndsEnds
    <2>2. CASE RunTo(j, "failTopup") /\ pjob' = pjob
      BY <1>1, <1>2, <2>2, RunToGoes
    <2> QED
      BY <1>1, <2>1, <2>2 DEF SaveSession
  <1> QED
    BY <1>3, OnlyRunMoves DEF SaveSession

LEMMA FailTopupEffects ==
  ASSUME PaymentsInv, UNCHANGED preq, NEW k \in Keys, FailTopup(k)
  PROVE  /\ PaymentEffects /\ HasRow(k, "TOPUP")
         /\ \E new : Replaced(Payment(k), new)
  <1>1. PICK j \in PaymentJobs : /\ j = SessionJob(k) /\ j[1] = "session" /\ j[2] = k
                                 /\ RowType(j) = "TOPUP"
    BY JobOfKey DEF RowType
  <1>2. /\ ~RunAt(j, "idle") /\ HasRow(k, "TOPUP")
        /\ "notifyFailed" \in Steps[j[1]]
    BY <1>1, PcIsNotIdle, RunningHasRow, StepsOf DEF FailTopup
  <1>3. RowsEffect /\ \E new : Replaced(Payment(k), new)
    BY <1>2, StatusEffects DEF FailTopup, PaymentTypes, TransactionStatus
  <1>4. QueueEffect
    BY <1>1, <1>2, RunToGoes DEF FailTopup
  <1> QED
    BY <1>2, <1>3, <1>4, AirtmSame, InvParts
    DEF PaymentEffects, MoneyEffect, EventsEffect, CallsEffect, FailTopup

LEMMA ThrowEffects ==
  ASSUME PaymentsInv, UNCHANGED preq, NEW j \in PaymentJobs, AttemptThrows(j)
  PROVE  PaymentEffects
  <1>1. ~RunAt(j, "idle")
    BY DEF AttemptThrows, RunAt
  <1>2. QueueEffect
    BY <1>1, RunEndsEnds DEF AttemptThrows
  <1> QED
    BY <1>2, OnlyRunMoves DEF AttemptThrows

LEMMA AnnouncedIsTrue ==
  ASSUME PaymentsInv, NEW j \in PaymentJobs, prun[j].pc \in {"notify", "notifyFailed"}
  PROVE  \E name \in PaymentEvents, k \in Keys :
           /\ Announced(j) = pevent \cup {<<name, k>>}
           /\ name = "WITHDRAWAL_COMPLETED" => payout[k] > 0
           /\ name = "TOPUP_COMPLETED" => deposit[k] = "paid"
  <1>1. /\ prun[j].pc \in Steps[j[1]] /\ j[2] \in Keys
        /\ j[1] = "credit" => deposit[j[2]] = "paid"
    BY RunningHasRow DEF RunAt
  <1>2. PICK k \in Keys : k = j[2]
    BY <1>1
  <1>3. CASE j[1] = "withdraw" /\ prun[j].pc = "notify"
    <2>1. payout[k] > 0
      BY <1>2, <1>3, JobKind, InvParts DEF BackedByAirtm
    <2>2. Announced(j) = pevent \cup {<<"WITHDRAWAL_COMPLETED", k>>}
      BY <1>2, <1>3 DEF Announced, RunAt
    <2> QED
      BY <2>1, <2>2 DEF PaymentEvents
  <1>4. CASE j[1] = "credit" /\ prun[j].pc = "notify"
    <2>1. Announced(j) = pevent \cup {<<"TOPUP_COMPLETED", k>>}
      BY <1>2, <1>4 DEF Announced, RunAt
    <2> QED
      BY <1>1, <1>2, <1>4, <2>1 DEF PaymentEvents
  <1>5. CASE j[1] = "withdraw" /\ prun[j].pc = "notifyFailed"
    <2>1. Announced(j) = pevent \cup {<<"WITHDRAWAL_FAILED", k>>}
      BY <1>2, <1>5 DEF Announced, RunAt
    <2> QED
      BY <2>1 DEF PaymentEvents
  <1>6. CASE j[1] = "session" /\ prun[j].pc = "notifyFailed"
    <2>1. Announced(j) = pevent \cup {<<"TOPUP_FAILED", k>>}
      BY <1>2, <1>6 DEF Announced, RunAt
    <2> QED
      BY <2>1 DEF PaymentEvents
  <1> QED
    BY <1>1, <1>3, <1>4, <1>5, <1>6, JobKind, StepsOf

LEMMA NotifyEffects ==
  ASSUME PaymentsInv, UNCHANGED preq, NEW j \in PaymentJobs,
         NotifyPayment(j) \/ PaymentCrash(j)
  PROVE  PaymentEffects
  <1>1. ~RunAt(j, "idle")
    BY DEF NotifyPayment, PaymentCrash, RunAt
  <1>2. QueueEffect
    BY <1>1, RunEndsEnds DEF NotifyPayment, PaymentCrash
  <1>3. EventsEffect
    <2>1. CASE pevent' = pevent
      BY <2>1 DEF EventsEffect
    <2>2. CASE prun[j].pc \in {"notify", "notifyFailed"} /\ pevent' = Announced(j)
      BY <2>2, AnnouncedIsTrue DEF EventsEffect
    <2> QED
      BY <2>1, <2>2 DEF NotifyPayment, PaymentCrash
  <1> QED
    BY <1>2, <1>3, AirtmSame, InvParts
    DEF PaymentEffects, RowsEffect, MoneyEffect, CallsEffect, NotifyPayment, PaymentCrash

-----------------------------------------------------------------------------
LEMMA CallerEffects ==
  ASSUME PaymentsInv, ServicesNext, UNCHANGED prun
  PROVE  PaymentEffects
  BY WithdrawEffects, TopupEffects, CallbackEffects, DebitEffects, AddEffects, AbortEffects
  DEF ServicesNext, CallStep

LEMMA ProcessorEffects ==
  ASSUME PaymentsInv, ProcessorsNext, UNCHANGED preq
  PROVE  PaymentEffects
  <1>1. PICK j \in PaymentJobs : PaymentStep(j) \/ PaymentCrash(j)
    BY DEF ProcessorsNext
  <1>2. j[2] \in Keys
    BY JobKind
  <1>3. CASE j[1] = "withdraw" /\ WithdrawalStep(j[2])
    BY <1>2, <1>3, PayEffects, MarkPaidEffects, PayThrowsEffects, RestoreReadEffects,
       RestoreWriteEffects DEF WithdrawalStep
  <1>4. CASE j[1] = "session" /\ SessionStep(j[2])
    BY <1>2, <1>4, CreateSessionEffects, SaveSessionEffects, FailTopupEffects DEF SessionStep
  <1> QED
    BY <1>1, <1>3, <1>4, StartEffects, CreditReadEffects, CreditWriteEffects, ThrowEffects,
       NotifyEffects DEF PaymentStep

LEMMA PaymentsEffects ==
  ASSUME PaymentsInv, PaymentsNext
  PROVE  PaymentEffects
  BY CallerEffects, ProcessorEffects, SessionEndEffects DEF PaymentsNext, AirtmNext

LEMMA InitPaymentsInv == PaymentsInit => PaymentsInv
  <1> SUFFICES ASSUME PaymentsInit PROVE PaymentsInv
    OBVIOUS
  <1> USE DEF PaymentsInit, InitPayments, InitStore, InitPaymentStore, InitServices,
              InitProcessors, InitAirtm
  <1>1. PaymentTypeOK
    <2>1. balance \in [Users -> BalanceRow]
      BY StoreAssumption DEF BalanceRow
    <2>2. pjob \in [PaymentJobs -> JobRecord]
      BY QueueAssumption DEF JobRecord, NoJob
    <2>3. prun \in [PaymentJobs -> PaymentRun]
      BY DEF PaymentRun, Resting
    <2>4. notified \in [Keys -> 0 .. MaxCallbacks]
      BY AirtmAssumption
    <2> QED
      BY <2>1, <2>2, <2>3, <2>4 DEF PaymentTypeOK, DepositState
  <1>2. NobodyOverdrawn
    BY StoreAssumption DEF NobodyOverdrawn
  <1>3. RecordedFirst
    BY DEF RecordedFirst, NoJob, NoCall, CallAt
  <1>4. PaymentsRunning
    BY QueueAssumption DEF PaymentsRunning, RunAt, Resting, NoJob
  <1>5. DebitSound
    BY DEF DebitSound, CallAt, NoCall
  <1>6. BackedByAirtm
    BY JobOfKey DEF BackedByAirtm, NoJob, CallAt, NoCall, Resting
  <1>7. PaymentsTruthful /\ KeysUnique
    BY DEF PaymentsTruthful, KeysUnique
  <1> QED
    BY <1>1, <1>2, <1>3, <1>4, <1>5, <1>6, <1>7 DEF PaymentsInv

LEMMA NextPaymentsInv == PaymentsInv /\ [PaymentsNext]_payVars => PaymentsInv'
  <1> SUFFICES ASSUME PaymentsInv, [PaymentsNext]_payVars PROVE PaymentsInv'
    OBVIOUS
  <1>1. CASE PaymentsNext
    BY <1>1, PaymentsEffects, EffectsKeep
  <1>2. CASE UNCHANGED payVars
    <2>1. PaymentEffects
      BY <1>2, AirtmSame, InvParts
      DEF payVars, paymentVars, PaymentEffects, RowsEffect, QueueEffect, MoneyEffect,
          EventsEffect, CallsEffect
    <2> QED
      BY <2>1, EffectsKeep
  <1> QED
    BY <1>1, <1>2

(* Whatever requests, callbacks, attempts and failures interleave, the     *)
(* tables, queues and events of top-ups and withdrawals fit each other and *)
(* what Airtm did: nobody is overdrawn, only recorded withdrawals are paid *)
(* out, and nothing is called completed that was not paid.                 *)
THEOREM PaymentsInvariant == PaymentsSpec => []PaymentsInv
  BY InitPaymentsInv, NextPaymentsInv, PTL DEF PaymentsSpec

(* Airtm pays out nothing that was not debited first, and no row or event  *)
(* calls a withdrawal or a top-up completed that was not paid.             *)
THEOREM PaymentsAreTruthful == PaymentsSpec => []PaymentsTruthful
  BY InvParts, PaymentsInvariant, PTL

-----------------------------------------------------------------------------
(* Payments implements PaymentLedger. *)

Purse == [u \in Users |-> [available |-> balance[u].available,
                           reserved  |-> balance[u].reserved]]

Confirmed == {k \in Keys : deposit[k] = "paid"}

Ledger == <<Purse, Entries("WITHDRAWAL"), Entries("TOPUP"), Confirmed>>

LEMMA PurseMoves ==
  ASSUME balance \in [Users -> BalanceRow], NEW u \in Users, NEW a \in Int,
         balance' = [balance EXCEPT ![u] = Moved(balance[u], a, 0)]
  PROVE  Purse' = L!Plus(u, a)
  <1>1. /\ balance[u] \in BalanceRow
        /\ balance'[u] = Moved(balance[u], a, 0)
        /\ \A v \in Users \ {u} : balance'[v] = balance[v]
    OBVIOUS
  <1>2. /\ balance'[u].available = balance[u].available + a
        /\ balance'[u].reserved = balance[u].reserved
    BY <1>1 DEF Moved, BalanceRow
  <1> QED
    BY <1>1, <1>2 DEF Purse, L!Plus

LEMMA EntriesKept ==
  ASSUME NEW old, NEW new, Replaced(old, new), NEW type
  PROVE  Entries(type)' = Entries(type)
  <1>1. /\ old \in txn /\ txn' = (txn \ {old}) \cup {new}
        /\ new.key = old.key /\ new.type = old.type
        /\ new.user = old.user /\ new.amount = old.amount
    BY DEF Replaced, SamePayment
  <1> QED
    BY <1>1 DEF Entries

LEMMA EntryAdded ==
  ASSUME NEW k \in Keys, NEW type \in PaymentTypes, NEW u \in Users, NEW a \in PaymentAmounts,
         txn' = txn \cup {NewPayment(k, type, u, a)}
  PROVE  /\ Entries(type)' = Entries(type) \cup {<<k, u, a>>}
         /\ \A other : other # type => Entries(other)' = Entries(other)
  <1> DEFINE row == NewPayment(k, type, u, a)
  <1>1. row.key = k /\ row.type = type /\ row.user = u /\ row.amount = a
    BY NewPaymentIsRow
  <1>2. txn' = txn \cup {row}
    OBVIOUS
  <1> HIDE DEF row
  <1> QED
    BY <1>1, <1>2 DEF Entries

LEMMA UnusedIsFresh ==
  ASSUME NEW k, ~Used(k)
  PROVE  L!Fresh(k)
  BY DEF L!Fresh, Entries, Used

LEMMA PaymentIsEntry ==
  ASSUME PaymentsInv, NEW k, NEW type \in PaymentTypes, HasRow(k, type)
  PROVE  <<k, Payment(k).user, Payment(k).amount>> \in Entries(type)
  BY PaymentIsFound, InvParts DEF Entries

LEMMA DebitIsDebit ==
  ASSUME PaymentsInv, UNCHANGED prun, NEW r \in Callers, DebitWrite(r)
  PROVE  L!Next
  <1>1. PICK k \in Keys, u \in Users, a \in PaymentAmounts :
          k = preq[r].job[2] /\ u = preq[r].user /\ a = preq[r].amount
    BY DebitEffects
  <1>2. balance[u].available >= a /\ ~Used(k)
    BY <1>1, DebitEffects DEF DebitWrite
  <1>3. a \in Nat /\ -a \in Int
    BY PaymentAssumption
  <1>4. Purse' = L!Plus(u, -a)
    BY <1>1, <1>3, PurseMoves, InvParts DEF DebitWrite, PaymentTypeOK
  <1>5. /\ Entries("WITHDRAWAL")' = Entries("WITHDRAWAL") \cup {<<k, u, a>>}
        /\ Entries("TOPUP")' = Entries("TOPUP")
    BY <1>1, EntryAdded DEF DebitWrite, PaymentTypes
  <1>6. Confirmed' = Confirmed
    BY DEF Confirmed, DebitWrite
  <1>7. L!Debit(k, u, a)
    BY <1>2, <1>4, <1>5, <1>6, UnusedIsFresh DEF L!Debit, Purse, Confirmed
  <1> QED
    BY <1>7 DEF L!Next

LEMMA TopupIsAnnounce ==
  ASSUME NEW r \in Callers, NEW k \in Keys, NEW u \in Users, NEW a \in PaymentAmounts,
         Topup(r, k, u, a)
  PROVE  L!Next
  <1>1. /\ Entries("TOPUP")' = Entries("TOPUP") \cup {<<k, u, a>>}
        /\ Entries("WITHDRAWAL")' = Entries("WITHDRAWAL")
    BY EntryAdded DEF Topup, PaymentTypes
  <1>2. L!Announce(k, u, a)
    BY <1>1, UnusedIsFresh DEF L!Announce, Topup
  <1> QED
    BY <1>2 DEF L!Next

LEMMA PaidIsConfirm ==
  ASSUME PaymentsInv, NEW k \in Keys, SessionEnds(k), UNCHANGED <<balance, txn>>
  PROVE  L!Next \/ UNCHANGED Ledger
  <1>1. HasRow(k, "TOPUP")
    BY InvParts DEF RecordedFirst, SessionEnds
  <1>2. PICK u \in Users, a \in PaymentAmounts : u = Payment(k).user /\ a = Payment(k).amount
    BY <1>1, PaymentIsFound, InvParts DEF PaymentTypes
  <1>3. <<k, u, a>> \in Entries("TOPUP")
    BY <1>1, <1>2, PaymentIsEntry DEF PaymentTypes
  <1>4. PICK end \in Ended : deposit' = [deposit EXCEPT ![k] = end] /\ deposit[k] = "open"
    BY DEF SessionEnds
  <1>5. deposit \in [Keys -> DepositState]
    BY InvParts DEF PaymentTypeOK
  <1>6. CASE end = "paid"
    <2>1. Confirmed' = Confirmed \cup {k}
      BY <1>4, <1>5, <1>6 DEF Confirmed
    <2>2. L!Confirm(k, u, a)
      BY <1>3, <2>1 DEF L!Confirm, Confirmed, Entries
    <2> QED
      BY <2>2 DEF L!Next
  <1>7. CASE end # "paid"
    <2>1. Confirmed' = Confirmed
      BY <1>4, <1>5, <1>7 DEF Confirmed
    <2> QED
      BY <2>1 DEF Ledger, Purse, Entries
  <1> QED
    BY <1>6, <1>7

(* A sum comes in for a top-up that is confirmed or for a withdrawal.      *)
LEMMA PaidInIsMove ==
  ASSUME PaymentsInv, NEW k \in Keys, NEW type \in PaymentTypes, HasRow(k, type),
         balance' = PaidIn(k), UNCHANGED deposit, \E new : Replaced(Payment(k), new),
         type = "TOPUP" => deposit[k] = "paid"
  PROVE  L!Next
  <1>1. PICK u \in Users, a \in PaymentAmounts : u = Payment(k).user /\ a = Payment(k).amount
    BY PaymentIsFound, InvParts
  <1>2. <<k, u, a>> \in Entries(type)
    BY <1>1, PaymentIsEntry
  <1>3. Purse' = L!Plus(u, a)
    <2>1. a \in Int /\ balance \in [Users -> BalanceRow]
      BY PaymentAssumption, InvParts DEF PaymentTypeOK
    <2>2. balance' = [balance EXCEPT ![u] = Moved(balance[u], a, 0)]
      BY <1>1 DEF PaidIn
    <2> QED
      BY <2>1, <2>2, PurseMoves
  <1>4. PICK old, new : Replaced(old, new)
    OBVIOUS
  <1>5. UNCHANGED <<Entries("WITHDRAWAL"), Entries("TOPUP"), Confirmed>>
    BY <1>4, EntriesKept DEF Confirmed
  <1>6. L!Credit(k, u, a) \/ L!Restore(k, u, a)
    BY <1>2, <1>3, <1>5 DEF L!Credit, L!Restore, Purse, Confirmed, PaymentTypes
  <1> QED
    BY <1>6 DEF L!Next

LEMMA NothingMoves ==
  ASSUME UNCHANGED <<balance, txn, deposit>>
  PROVE  UNCHANGED Ledger
  BY DEF Ledger, Purse, Entries, Confirmed

LEMMA OnlyStatusMoves ==
  ASSUME NEW old, NEW new, Replaced(old, new), UNCHANGED <<balance, deposit>>
  PROVE  UNCHANGED Ledger
  BY EntriesKept DEF Ledger, Purse, Confirmed

LEMMA ServiceIsLedger ==
  ASSUME PaymentsInv, ServicesNext, UNCHANGED prun
  PROVE  L!Next \/ UNCHANGED Ledger
  <1>1. ASSUME NEW r \in Callers, NEW k \in Keys, NEW u \in Users, NEW a \in PaymentAmounts,
               Withdraw(r, k, u, a)
        PROVE  UNCHANGED Ledger
    BY <1>1, NothingMoves DEF Withdraw
  <1>2. ASSUME NEW r \in Callers, NEW k \in Keys, Callback(r, k)
        PROVE  UNCHANGED Ledger
    <2>1. PICK old, new : Replaced(old, new)
      BY <1>2, CallbackEffects
    <2> QED
      BY <1>2, <2>1, OnlyStatusMoves DEF Callback
  <1>3. ASSUME NEW r \in Callers, DebitConflict(r) \/ AddJob(r) \/ CallAborted(r)
        PROVE  UNCHANGED Ledger
    BY <1>3, NothingMoves DEF DebitConflict, AddJob, CallAborted
  <1> QED
    BY <1>1, <1>2, <1>3, DebitIsDebit, TopupIsAnnounce DEF ServicesNext, CallStep

LEMMA WithdrawalIsLedger ==
  ASSUME PaymentsInv, NEW k \in Keys, WithdrawalStep(k), UNCHANGED preq
  PROVE  L!Next \/ UNCHANGED Ledger
  <1>1. ASSUME Pay(k) \/ PayThrows(k) \/ RestoreRead(k)
        PROVE  UNCHANGED Ledger
    BY <1>1, NothingMoves DEF Pay, PayThrows, RestoreRead, ReadBalance
  <1>2. ASSUME MarkPaid(k)
        PROVE  UNCHANGED Ledger
    <2>1. PICK old, new : Replaced(old, new)
      BY <1>2, MarkPaidEffects
    <2> QED
      BY <1>2, <2>1, OnlyStatusMoves DEF MarkPaid
  <1>3. ASSUME RestoreWrite(k)
        PROVE  L!Next
    BY <1>3, RestoreWriteEffects, PaidInIsMove DEF RestoreWrite, PaymentTypes
  <1> QED
    BY <1>1, <1>2, <1>3 DEF WithdrawalStep

LEMMA SessionIsLedger ==
  ASSUME PaymentsInv, NEW k \in Keys, SessionStep(k), UNCHANGED preq
  PROVE  UNCHANGED Ledger
  <1>1. ASSUME CreateSession(k)
        PROVE  UNCHANGED Ledger
    <2>1. deposit \in [Keys -> DepositState]
      BY InvParts DEF PaymentTypeOK
    <2>2. \A x \in Keys : deposit'[x] = "paid" <=> deposit[x] = "paid"
      BY <1>1, <2>1 DEF CreateSession, SessionOpened
    <2> QED
      BY <1>1, <2>2 DEF Ledger, Purse, Entries, Confirmed, CreateSession
  <1>2. ASSUME FailTopup(k)
        PROVE  UNCHANGED Ledger
    <2>1. PICK old, new : Replaced(old, new)
      BY <1>2, FailTopupEffects
    <2> QED
      BY <1>2, <2>1, OnlyStatusMoves DEF FailTopup
  <1>3. ASSUME SaveSession(k)
        PROVE  UNCHANGED Ledger
    BY <1>3, NothingMoves DEF SaveSession
  <1> QED
    BY <1>1, <1>2, <1>3 DEF SessionStep

LEMMA ProcessorIsLedger ==
  ASSUME PaymentsInv, ProcessorsNext, UNCHANGED preq
  PROVE  L!Next \/ UNCHANGED Ledger
  <1>1. PICK j \in PaymentJobs : PaymentStep(j) \/ PaymentCrash(j)
    BY DEF ProcessorsNext
  <1>2. j[2] \in Keys
    BY JobKind
  <1>3. ASSUME \/ PaymentStart(j) \/ CreditRead(j) \/ AttemptThrows(j)
               \/ NotifyPayment(j) \/ PaymentCrash(j)
        PROVE  UNCHANGED Ledger
    BY <1>3, NothingMoves
    DEF PaymentStart, CreditRead, ReadBalance, AttemptThrows, NotifyPayment, PaymentCrash
  <1>4. ASSUME CreditWrite(j)
        PROVE  L!Next
    BY <1>4, CreditWriteEffects, PaidInIsMove DEF CreditWrite, PaymentTypes
  <1> QED
    BY <1>1, <1>2, <1>3, <1>4, WithdrawalIsLedger, SessionIsLedger DEF PaymentStep

LEMMA StepOfLedger ==
  ASSUME PaymentsInv, [PaymentsNext]_payVars
  PROVE  [L!Next]_Ledger
  <1>1. CASE ServicesNext /\ UNCHANGED prun
    BY <1>1, ServiceIsLedger
  <1>2. CASE ProcessorsNext /\ UNCHANGED preq
    BY <1>2, ProcessorIsLedger
  <1>3. CASE AirtmNext /\ UNCHANGED <<balance, txn, pjob, pevent, preq, prun>>
    BY <1>3, PaidIsConfirm DEF AirtmNext
  <1>4. CASE UNCHANGED payVars
    BY <1>4, NothingMoves DEF payVars, paymentVars
  <1> QED
    BY <1>1, <1>2, <1>3, <1>4 DEF PaymentsNext

LEMMA LedgerInit == PaymentsInit => L!Init
  BY DEF PaymentsInit, InitPayments, InitStore, InitPaymentStore, InitServices,
         InitProcessors, InitAirtm, L!Init, Entries

(* Money moves between the hub and the outside only as PaymentLedger says. *)
(* A debit has a new key and is covered; a credit is the whole sum of a    *)
(* top-up that Airtm confirmed, or of a withdrawal, for its own user.      *)
THEOREM ImplementsLedger == PaymentsSpec => LedgerSpec
  <1>1. PaymentsInv /\ [PaymentsNext]_payVars => [L!Next]_Ledger
    BY StepOfLedger
  <1>2. PaymentsInv /\ [PaymentsNext]_payVars => [L!Next]_(L!ledger)
    BY <1>1 DEF Ledger, Purse, Confirmed, L!ledger
  <1> QED
    BY <1>2, LedgerInit, PaymentsInvariant, PTL DEF PaymentsSpec, LedgerSpec, L!Spec

-----------------------------------------------------------------------------
(* OncePerRun: first, what a step does to the bounds of a job's runs. *)

(* How often a job has paid its sum in, and a withdrawal has been paid     *)
(* out, at most.                                                           *)
InAtMost(j) == RunsPast(j, HasPaidIn(j))

PaidAtMost(j) == RunsPast(j, ~RunAt(j, "pay") /\ pjob[j].state \in {"active", "completed"})

(* What any step does to these bounds of a job.                            *)
BoundsKept(j) ==
  /\ InAtMost(j)' >= InAtMost(j)
  /\ j[1] = "withdraw" => PaidAtMost(j)' >= PaidAtMost(j)
  /\ j[1] = "credit" /\ HasCredited(j)' => HasCredited(j) \/ CreditWrite(j)
  /\ pjob'[j].state = "none" => pjob[j].state = "none"

LEMMA BoundsAreNats ==
  ASSUME PaymentTypeOK, NEW j \in PaymentJobs
  PROVE  InAtMost(j) \in Nat /\ PaidAtMost(j) \in Nat /\ LostRuns(j) \in Nat
  <1>1. pjob[j].attempts \in Nat /\ pjob[j].stalled \in Nat
    BY QueueAssumption DEF PaymentTypeOK, JobRecord
  <1>2. LostRuns(j) \in Nat
    BY <1>1 DEF LostRuns
  <1> QED
    BY <1>2 DEF InAtMost, PaidAtMost, RunsPast

BoundsTyped ==
  PaymentTypeOK => \A j \in PaymentJobs : InAtMost(j) \in Nat /\ PaidAtMost(j) \in Nat

LEMMA BoundsTypedNow == BoundsTyped
  BY BoundsAreNats DEF BoundsTyped

LEMMA BoundsTypedNext == BoundsTyped'
  BY BoundsTypedNow, PTL

LEMMA SameJobKeepsBounds ==
  ASSUME PaymentsInv, NEW j \in PaymentJobs, pjob'[j] = pjob[j], prun'[j] = prun[j]
  PROVE  BoundsKept(j)
  <1>1. InAtMost(j) \in Nat /\ PaidAtMost(j) \in Nat
    BY BoundsAreNats, InvParts
  <1>2. InAtMost(j)' = InAtMost(j) /\ PaidAtMost(j)' = PaidAtMost(j)
    BY DEF InAtMost, PaidAtMost, RunsPast, LostRuns, HasPaidIn, HasCredited, RunAt
  <1> QED
    BY <1>1, <1>2 DEF BoundsKept, HasCredited, RunAt

(* A run that goes on, from a step before the last, or back into the catch *)
(* block of a withdrawal.                                                  *)
LEMMA GoingKeepsBounds ==
  ASSUME PaymentsInv, NEW j \in PaymentJobs, NEW n, prun' = [prun EXCEPT ![j] = n],
         UNCHANGED pjob, ~RunAt(j, "idle"), ~RunAt(j, "notifyFailed"), n.pc # "pay",
         \/ ~RunAt(j, "notify")
         \/ j[1] = "withdraw",
         n.pc = "notify" /\ j[1] = "credit" => CreditWrite(j)
  PROVE  \A i \in PaymentJobs : BoundsKept(i)
  <1> SUFFICES ASSUME NEW i \in PaymentJobs PROVE BoundsKept(i)
    OBVIOUS
  <1>1. /\ prun'[j] = n /\ pjob'[i] = pjob[i]
        /\ i # j => prun'[i] = prun[i]
    BY InvParts DEF PaymentTypeOK
  <1>2. CASE i # j
    BY <1>1, <1>2, SameJobKeepsBounds
  <1>3. CASE i = j
    <2>1. pjob[j].state = "active" /\ LostRuns(j) \in Nat
      BY RunningHasRow, BoundsAreNats, InvParts
    <2>2. LostRuns(j)' = LostRuns(j)
      BY <1>1, <1>3 DEF LostRuns
    <2>3. HasPaidIn(j) => HasPaidIn(j)'
      BY <2>1 DEF HasPaidIn, HasCredited, RunAt
    <2>4. pjob'[j].state = "active" /\ ~RunAt(j, "pay")'
      BY <1>1, <1>3, <2>1 DEF RunAt
    <2>5. InAtMost(j)' >= InAtMost(j) /\ PaidAtMost(j)' >= PaidAtMost(j)
      BY <2>1, <2>2, <2>3, <2>4 DEF InAtMost, PaidAtMost, RunsPast
    <2>6. j[1] = "credit" /\ HasCredited(j)' => CreditWrite(j)
      BY <1>1, <2>4 DEF HasCredited, RunAt
    <2> QED
      BY <1>3, <2>4, <2>5, <2>6 DEF BoundsKept
  <1> QED
    BY <1>2, <1>3

LEMMA StartKeepsBounds ==
  ASSUME PaymentsInv, NEW j \in PaymentJobs, PaymentStart(j)
  PROVE  \A i \in PaymentJobs : BoundsKept(i)
  <1> SUFFICES ASSUME NEW i \in PaymentJobs PROVE BoundsKept(i)
    OBVIOUS
  <1>1. /\ prun[j] \in PaymentRun /\ pjob[j] \in JobRecord
        /\ prun' = [prun EXCEPT ![j].pc = FirstStep[j[1]]]
        /\ pjob' = [pjob EXCEPT ![j] = Started(pjob[j])]
        /\ pjob[j].state = "waiting"
    BY InvParts DEF PaymentTypeOK, PaymentStart, RunTo
  <1>2. /\ prun'[j].pc = FirstStep[j[1]] /\ pjob'[j] = Started(pjob[j])
        /\ i # j => prun'[i] = prun[i] /\ pjob'[i] = pjob[i]
    BY <1>1, InvParts DEF PaymentTypeOK, PaymentRun
  <1>3. CASE i # j
    BY <1>2, <1>3, SameJobKeepsBounds
  <1>4. CASE i = j
    <2>1. /\ RunAt(j, "idle") /\ LostRuns(j) \in Nat
      BY <1>1, BoundsAreNats, InvParts DEF PaymentsRunning
    <2>2. pjob'[j].state = "active" /\ LostRuns(j)' = LostRuns(j)
      BY <1>1, <1>2 DEF LostRuns, Started, JobRecord
    <2>3. /\ FirstStep[j[1]] \notin {"notify", "notifyFailed"}
          /\ j[1] = "withdraw" => FirstStep[j[1]] = "pay"
      BY JobKind DEF FirstStep
    <2>4. ~HasPaidIn(j) /\ ~HasPaidIn(j)' /\ ~HasCredited(j)'
      BY <1>1, <1>2, <2>1, <2>2, <2>3 DEF HasPaidIn, HasCredited, RunAt
    <2>5. InAtMost(j)' = InAtMost(j) /\ (j[1] = "withdraw" => PaidAtMost(j)' = PaidAtMost(j))
      BY <1>1, <1>2, <2>1, <2>2, <2>3, <2>4 DEF InAtMost, PaidAtMost, RunsPast, RunAt
    <2>6. InAtMost(j) \in Nat /\ PaidAtMost(j) \in Nat
      BY BoundsAreNats, InvParts
    <2> QED
      BY <1>4, <2>2, <2>4, <2>5, <2>6 DEF BoundsKept
  <1> QED
    BY <1>3, <1>4

LEMMA EndKeepsBounds ==
  ASSUME PaymentsInv, NEW j \in PaymentJobs, ~RunAt(j, "idle"),
         \/ RunEnds(j, Failed(pjob[j]))
         \/ RunEnds(j, Stalled(pjob[j]))
         \/ RunEnds(j, Completed(pjob[j])) /\ (RunAt(j, "notify") \/ j[1] = "session")
  PROVE  \A i \in PaymentJobs : BoundsKept(i)
  <1> SUFFICES ASSUME NEW i \in PaymentJobs PROVE BoundsKept(i)
    OBVIOUS
  <1>1. /\ prun[j] \in PaymentRun /\ pjob[j] \in JobRecord /\ pjob[j].state = "active"
    BY RunningHasRow, InvParts DEF PaymentTypeOK
  <1>2. /\ prun'[j] = Resting
        /\ \/ pjob'[j] = Failed(pjob[j])
           \/ pjob'[j] = Stalled(pjob[j])
           \/ pjob'[j] = Completed(pjob[j]) /\ (RunAt(j, "notify") \/ j[1] = "session")
        /\ i # j => prun'[i] = prun[i] /\ pjob'[i] = pjob[i]
    BY InvParts DEF PaymentTypeOK, RunEnds
  <1>3. CASE i # j
    BY <1>2, <1>3, SameJobKeepsBounds
  <1>4. CASE i = j
    <2>0. LostRuns(j) \in Nat /\ pjob[j].attempts \in Nat /\ pjob[j].stalled \in Nat
      BY <1>1, BoundsAreNats, InvParts, QueueAssumption DEF JobRecord
    <2>1. CASE pjob'[j] = Failed(pjob[j]) \/ pjob'[j] = Stalled(pjob[j])
      <3>1. /\ LostRuns(j)' = LostRuns(j) + 1
            /\ pjob'[j].state \in {"waiting", "failed"}
        BY <1>1, <2>0, <2>1, EndIsCounted DEF LostRuns
      <3>2. InAtMost(j)' >= InAtMost(j) /\ PaidAtMost(j)' >= PaidAtMost(j)
        BY <2>0, <3>1 DEF InAtMost, PaidAtMost, RunsPast
      <3>3. ~HasCredited(j)'
        BY <1>2, <3>1 DEF HasCredited, RunAt, Resting
      <3> QED
        BY <1>4, <3>1, <3>2, <3>3 DEF BoundsKept
    <2>2. CASE pjob'[j] = Completed(pjob[j]) /\ (RunAt(j, "notify") \/ j[1] = "session")
      <3>1. LostRuns(j)' = LostRuns(j) /\ pjob'[j].state = "completed"
        BY <1>1, <2>2, EndIsCounted DEF LostRuns
      <3>2. HasPaidIn(j) => HasPaidIn(j)'
        BY <2>2, <3>1 DEF HasPaidIn, HasCredited, RunAt
      <3>3. ~RunAt(j, "pay")'
        BY <1>2 DEF RunAt, Resting
      <3>4. InAtMost(j)' >= InAtMost(j) /\ PaidAtMost(j)' >= PaidAtMost(j)
        BY <2>0, <3>1, <3>2, <3>3 DEF InAtMost, PaidAtMost, RunsPast
      <3>5. j[1] = "credit" => HasCredited(j)
        BY <2>2 DEF HasCredited
      <3> QED
        BY <1>4, <3>1, <3>4, <3>5 DEF BoundsKept
    <2> QED
      BY <1>2, <2>1, <2>2
  <1> QED
    BY <1>3, <1>4

LEMMA AddKeepsBounds ==
  ASSUME PaymentsInv, UNCHANGED prun, NEW r \in Callers, AddJob(r)
  PROVE  \A i \in PaymentJobs : BoundsKept(i)
  <1> SUFFICES ASSUME NEW i \in PaymentJobs PROVE BoundsKept(i)
    OBVIOUS
  <1>1. pjob' = [pjob EXCEPT ![preq[r].job] = Added(pjob[preq[r].job])]
    BY DEF AddJob
  <1>2. pjob[i] \in JobRecord /\ (pjob'[i] = pjob[i] \/ pjob'[i] = Added(pjob[i]))
    BY <1>1, InvParts DEF PaymentTypeOK
  <1>3. /\ pjob'[i].attempts = pjob[i].attempts /\ pjob'[i].stalled = pjob[i].stalled
        /\ \/ pjob'[i].state = pjob[i].state
           \/ pjob[i].state = "none" /\ pjob'[i].state = "waiting"
    BY <1>2 DEF Added, JobRecord
  <1>4. LostRuns(i)' = LostRuns(i)
    BY <1>3 DEF LostRuns
  <1>5. HasPaidIn(i)' <=> HasPaidIn(i)
    BY <1>3 DEF HasPaidIn, HasCredited, RunAt
  <1>6. InAtMost(i)' = InAtMost(i) /\ PaidAtMost(i)' = PaidAtMost(i)
    BY <1>3, <1>4, <1>5 DEF InAtMost, PaidAtMost, RunsPast, RunAt
  <1>7. InAtMost(i) \in Nat /\ PaidAtMost(i) \in Nat
    BY BoundsAreNats, InvParts
  <1> QED
    BY <1>3, <1>6, <1>7 DEF BoundsKept, HasCredited, RunAt

LEMMA RunToKeepsBounds ==
  ASSUME PaymentsInv, NEW j \in PaymentJobs, NEW pc, RunTo(j, pc), UNCHANGED pjob,
         ~RunAt(j, "idle"), ~RunAt(j, "notifyFailed"), pc # "pay",
         ~RunAt(j, "notify") \/ j[1] = "withdraw",
         pc = "notify" /\ j[1] = "credit" => CreditWrite(j)
  PROVE  \A i \in PaymentJobs : BoundsKept(i)
  <1>1. prun[j] \in PaymentRun
    BY InvParts DEF PaymentTypeOK
  <1> DEFINE n == [prun[j] EXCEPT !.pc = pc]
  <1>2. n.pc = pc /\ prun' = [prun EXCEPT ![j] = n]
    BY <1>1 DEF PaymentRun, RunTo
  <1> HIDE DEF n
  <1> QED
    BY <1>2, GoingKeepsBounds

LEMMA ReadKeepsBounds ==
  ASSUME PaymentsInv, NEW j \in PaymentJobs, NEW from, NEW to, ReadBalance(j, from, to),
         from \notin {"idle", "notify", "notifyFailed"}, to \notin {"pay", "notify"}
  PROVE  \A i \in PaymentJobs : BoundsKept(i)
  <1>1. prun[j] \in PaymentRun
    BY InvParts DEF PaymentTypeOK
  <1> DEFINE n == [prun[j] EXCEPT !.pc = to, !.seen = balance[Payment(j[2]).user].version]
  <1>2. n.pc = to /\ prun' = [prun EXCEPT ![j] = n] /\ UNCHANGED pjob
    BY <1>1 DEF PaymentRun, ReadBalance
  <1>3. ~RunAt(j, "idle") /\ ~RunAt(j, "notify") /\ ~RunAt(j, "notifyFailed")
    BY DEF ReadBalance, RunAt
  <1> HIDE DEF n
  <1> QED
    BY <1>2, <1>3, GoingKeepsBounds

LEMMA SameRunsKeepBounds ==
  ASSUME PaymentsInv, UNCHANGED <<pjob, prun>>
  PROVE  \A i \in PaymentJobs : BoundsKept(i)
  BY SameJobKeepsBounds

LEMMA WithdrawalKeepsBounds ==
  ASSUME PaymentsInv, NEW k \in Keys, WithdrawalStep(k)
  PROVE  \A i \in PaymentJobs : BoundsKept(i)
  <1>1. PICK j \in PaymentJobs : j = WithdrawJob(k) /\ j[1] = "withdraw"
    BY JobOfKey
  <1>2. CASE Pay(k)
    <2>1. PICK pc \in {"markPaid", "restoreRead"} : RunTo(j, pc)
      BY <1>1, <1>2 DEF Pay
    <2>2. RunAt(j, "pay") /\ UNCHANGED pjob
      BY <1>1, <1>2 DEF Pay
    <2> QED
      BY <1>1, <2>1, <2>2, RunToKeepsBounds DEF RunAt
  <1>3. CASE MarkPaid(k)
    <2>1. RunAt(j, "markPaid") /\ RunTo(j, "notify") /\ UNCHANGED pjob
      BY <1>1, <1>3 DEF MarkPaid
    <2> QED
      BY <1>1, <2>1, RunToKeepsBounds DEF RunAt
  <1>4. CASE PayThrows(k)
    <2>1. /\ RunAt(j, "markPaid") \/ RunAt(j, "notify")
          /\ RunTo(j, "restoreRead") /\ UNCHANGED pjob
      BY <1>1, <1>4 DEF PayThrows
    <2> QED
      BY <1>1, <2>1, RunToKeepsBounds DEF RunAt
  <1>5. CASE RestoreRead(k)
    <2>1. ReadBalance(j, "restoreRead", "restoreWrite")
      BY <1>1, <1>5 DEF RestoreRead
    <2> QED
      BY <1>1, <2>1, ReadKeepsBounds
  <1>6. CASE RestoreWrite(k)
    <2>1. RunAt(j, "restoreWrite") /\ RunTo(j, "notifyFailed") /\ UNCHANGED pjob
      BY <1>1, <1>6 DEF RestoreWrite
    <2> QED
      BY <1>1, <2>1, RunToKeepsBounds DEF RunAt
  <1> QED
    BY <1>2, <1>3, <1>4, <1>5, <1>6 DEF WithdrawalStep

LEMMA SessionKeepsBounds ==
  ASSUME PaymentsInv, NEW k \in Keys, SessionStep(k)
  PROVE  \A i \in PaymentJobs : BoundsKept(i)
  <1>1. PICK j \in PaymentJobs : j = SessionJob(k) /\ j[1] = "session"
    BY JobOfKey
  <1>2. CASE CreateSession(k)
    <2>1. PICK pc \in {"saveSession", "failTopup"} : RunTo(j, pc)
      BY <1>1, <1>2 DEF CreateSession
    <2>2. RunAt(j, "session") /\ UNCHANGED pjob
      BY <1>1, <1>2 DEF CreateSession
    <2> QED
      BY <1>1, <2>1, <2>2, RunToKeepsBounds DEF RunAt
  <1>3. CASE SaveSession(k)
    <2>1. /\ RunAt(j, "saveSession")
          /\ RunEnds(j, Completed(pjob[j])) \/ (RunTo(j, "failTopup") /\ UNCHANGED pjob)
      BY <1>1, <1>3 DEF SaveSession
    <2>2. CASE RunEnds(j, Completed(pjob[j]))
      BY <1>1, <2>1, <2>2, EndKeepsBounds DEF RunAt
    <2>3. CASE RunTo(j, "failTopup") /\ UNCHANGED pjob
      BY <1>1, <2>1, <2>3, RunToKeepsBounds DEF RunAt
    <2> QED
      BY <2>1, <2>2, <2>3
  <1>4. CASE FailTopup(k)
    <2>1. RunAt(j, "failTopup") /\ RunTo(j, "notifyFailed") /\ UNCHANGED pjob
      BY <1>1, <1>4 DEF FailTopup
    <2> QED
      BY <1>1, <2>1, RunToKeepsBounds DEF RunAt
  <1> QED
    BY <1>2, <1>3, <1>4 DEF SessionStep

LEMMA ProcessorKeepsBounds ==
  ASSUME PaymentsInv, ProcessorsNext
  PROVE  \A i \in PaymentJobs : BoundsKept(i)
  <1>1. PICK j \in PaymentJobs : PaymentStep(j) \/ PaymentCrash(j)
    BY DEF ProcessorsNext
  <1>2. j[2] \in Keys
    BY JobKind
  <1>3. CASE CreditRead(j)
    BY <1>3, ReadKeepsBounds DEF CreditRead
  <1>4. CASE CreditWrite(j)
    <2>1. RunAt(j, "creditWrite") /\ RunTo(j, "notify") /\ UNCHANGED pjob
      BY <1>4 DEF CreditWrite
    <2> QED
      BY <1>4, <2>1, RunToKeepsBounds DEF RunAt
  <1>5. CASE AttemptThrows(j) \/ NotifyPayment(j) \/ PaymentCrash(j)
    <2>1. /\ ~RunAt(j, "idle")
          /\ \/ RunEnds(j, Failed(pjob[j]))
             \/ RunEnds(j, Stalled(pjob[j]))
             \/ RunEnds(j, Completed(pjob[j])) /\ RunAt(j, "notify")
      BY <1>5 DEF AttemptThrows, NotifyPayment, PaymentCrash, RunAt
    <2> QED
      BY <2>1, EndKeepsBounds
  <1> QED
    BY <1>1, <1>2, <1>3, <1>4, <1>5, StartKeepsBounds, WithdrawalKeepsBounds, SessionKeepsBounds
    DEF PaymentStep

LEMMA StepKeepsBounds ==
  ASSUME PaymentsInv, PaymentsNext
  PROVE  \A i \in PaymentJobs : BoundsKept(i)
  <1>1. CASE ServicesNext /\ UNCHANGED prun
    <2>1. UNCHANGED pjob \/ \E r \in Callers : AddJob(r)
      BY <1>1 DEF ServicesNext, CallStep, Withdraw, DebitWrite, DebitConflict, Topup, Callback,
                  CallAborted
    <2> QED
      BY <1>1, <2>1, SameRunsKeepBounds, AddKeepsBounds
  <1>2. CASE AirtmNext /\ UNCHANGED <<balance, txn, pjob, pevent, preq, prun>>
    BY <1>2, SameRunsKeepBounds
  <1> QED
    BY <1>1, <1>2, ProcessorKeepsBounds DEF PaymentsNext

-----------------------------------------------------------------------------
(* Then, what a step does to what a user has and has withdrawn. *)

(* What a payment is about, and whose it is, never changes.                *)
PaymentsStay ==
  \A k : \A type \in PaymentTypes : HasRow(k, type) =>
    /\ Payment(k)'.user = Payment(k).user
    /\ Payment(k)'.amount = Payment(k).amount
    /\ HasRow(k, type)'

LEMMA PaymentsAreKept ==
  ASSUME PaymentsInv, PaymentsInv', RowsEffect
  PROVE  PaymentsStay
  <1> SUFFICES ASSUME NEW k, NEW type \in PaymentTypes, HasRow(k, type)
               PROVE  /\ Payment(k)'.user = Payment(k).user
                      /\ Payment(k)'.amount = Payment(k).amount
                      /\ HasRow(k, type)'
    BY DEF PaymentsStay
  <1>1. Payment(k) \in txn /\ Payment(k).key = k
    BY PaymentIsFound, InvParts
  <1>2. PICK row \in txn' : /\ row.key = k
                            /\ row.user = Payment(k).user /\ row.amount = Payment(k).amount
    BY <1>1 DEF RowsEffect, Inserted, Replaced, SamePayment
  <1>3. Payment(k)' \in txn' /\ Payment(k)'.key = k
    BY <1>2 DEF Payment
  <1>4. Payment(k)' = row
    BY <1>2, <1>3 DEF PaymentsInv, KeysUnique
  <1> QED
    BY <1>2, <1>4, RowsStay, InvParts

(* The withdrawals of a user. *)
WithdrawalsOf(u) == {x \in txn : x.type = "WITHDRAWAL" /\ x.user = u}

LEMMA WithdrawalsAddUp ==
  ASSUME PaymentTypeOK, IsFiniteSet(txn), NEW u
  PROVE  /\ IsFiniteSet(WithdrawalsOf(u))
         /\ \A row \in WithdrawalsOf(u) : row.amount \in Int
         /\ Debited(u) \in Int
  <1>1. IsFiniteSet(WithdrawalsOf(u))
    <2>1. WithdrawalsOf(u) \subseteq txn
      BY DEF WithdrawalsOf
    <2> QED
      BY <2>1, FS_Subset
  <1>2. ASSUME NEW row \in WithdrawalsOf(u) PROVE row.amount \in Int
    <2>1. row \in txn /\ IsPayment(row)
      BY DEF WithdrawalsOf, IsPayment
    <2>2. row \in PaymentRow
      BY <2>1 DEF PaymentTypeOK
    <2>3. row.amount \in Nat
      BY <2>2, PaymentAssumption DEF PaymentRow
    <2> QED
      BY <2>3
  <1> DEFINE f == [row \in WithdrawalsOf(u) |-> row.amount]
  <1>3. IsFiniteSet(DOMAIN f) /\ \A row \in DOMAIN f : f[row] \in Int
    BY <1>1, <1>2
  <1>4. Debited(u) = SumFunction(f)
    BY DEF Debited, WithdrawalsOf
  <1> HIDE DEF f
  <1> QED
    BY <1>1, <1>2, <1>3, <1>4, SumOfInts

LEMMA DebitedKept ==
  ASSUME PaymentsInv, IsFiniteSet(txn), NEW u, UNCHANGED txn \/ \E old, new : Replaced(old, new)
  PROVE  Debited(u)' = Debited(u)
  <1> DEFINE f == [row \in WithdrawalsOf(u) |-> row.amount]
             g == [row \in WithdrawalsOf(u)' |-> row.amount]
  <1>1. Debited(u) = SumFunction(f) /\ Debited(u)' = SumFunction(g)
    BY DEF Debited, WithdrawalsOf
  <1>2. /\ DOMAIN f = WithdrawalsOf(u) /\ \A row \in WithdrawalsOf(u) : f[row] = row.amount
        /\ DOMAIN g = WithdrawalsOf(u)' /\ \A row \in WithdrawalsOf(u)' : g[row] = row.amount
    OBVIOUS
  <1>3. IsFiniteSet(WithdrawalsOf(u)) /\ \A row \in WithdrawalsOf(u) : row.amount \in Int
    BY WithdrawalsAddUp, InvParts
  <1> HIDE DEF f, g
  <1>4. CASE UNCHANGED WithdrawalsOf(u)
    BY <1>1, <1>2, <1>3, <1>4, SumsOfEqual
  <1>5. CASE ~UNCHANGED WithdrawalsOf(u)
    <2>1. ~UNCHANGED txn
      BY <1>5 DEF WithdrawalsOf
    <2>2. PICK old, new : Replaced(old, new)
      BY <2>1
    <2>3. /\ old \in txn /\ txn' = (txn \ {old}) \cup {new}
          /\ new.key = old.key /\ new.type = old.type
          /\ new.user = old.user /\ new.amount = old.amount
      BY <2>2 DEF Replaced, SamePayment
    <2>4. old \in WithdrawalsOf(u)
      BY <1>5, <2>3 DEF WithdrawalsOf
    <2>5. new \notin txn \ {old}
      BY <2>3, InvParts DEF KeysUnique
    <2>6. WithdrawalsOf(u)' = (WithdrawalsOf(u) \ {old}) \cup {new}
      BY <2>3, <2>4 DEF WithdrawalsOf
    <2>7. /\ old \in DOMAIN f /\ new \notin DOMAIN f \ {old}
          /\ DOMAIN g = (DOMAIN f \ {old}) \cup {new}
      BY <1>2, <2>4, <2>5, <2>6 DEF WithdrawalsOf
    <2>8. /\ \A z \in DOMAIN f : f[z] \in Int
          /\ \A z \in DOMAIN f \ {old} : g[z] = f[z]
          /\ g[new] = f[old]
      BY <1>2, <1>3, <2>3, <2>4, <2>6
    <2> QED
      BY <1>1, <1>2, <1>3, <2>7, <2>8, SumSwaps
  <1> QED
    BY <1>4, <1>5

LEMMA DebitedGrows ==
  ASSUME PaymentsInv, IsFiniteSet(txn), NEW k \in Keys, NEW type \in PaymentTypes,
         NEW u \in Users, NEW a \in PaymentAmounts, ~Used(k),
         txn' = txn \cup {NewPayment(k, type, u, a)}, NEW v
  PROVE  Debited(v)' = Debited(v) + (IF type = "WITHDRAWAL" /\ v = u THEN a ELSE 0)
  <1> DEFINE row == NewPayment(k, type, u, a)
             f == [x \in WithdrawalsOf(v) |-> x.amount]
             g == [x \in WithdrawalsOf(v)' |-> x.amount]
  <1>1. Debited(v) = SumFunction(f) /\ Debited(v)' = SumFunction(g)
    BY DEF Debited, WithdrawalsOf
  <1>2. row.key = k /\ row.type = type /\ row.user = u /\ row.amount = a /\ a \in Int
    BY NewPaymentIsRow, PaymentAssumption
  <1>3. txn' = txn \cup {row} /\ row \notin txn
    BY <1>2 DEF Used
  <1>4. /\ DOMAIN f = WithdrawalsOf(v) /\ \A x \in WithdrawalsOf(v) : f[x] = x.amount
        /\ DOMAIN g = WithdrawalsOf(v)' /\ \A x \in WithdrawalsOf(v)' : g[x] = x.amount
    OBVIOUS
  <1>5. /\ IsFiniteSet(WithdrawalsOf(v)) /\ \A x \in WithdrawalsOf(v) : x.amount \in Int
        /\ Debited(v) \in Int
    BY WithdrawalsAddUp, InvParts
  <1> HIDE DEF f, g, row
  <1>6. CASE type = "WITHDRAWAL" /\ v = u
    <2>1. WithdrawalsOf(v)' = WithdrawalsOf(v) \cup {row} /\ row \notin WithdrawalsOf(v)
      BY <1>2, <1>3, <1>6 DEF WithdrawalsOf
    <2>2. SumFunction(g) = SumFunction(f) + g[row]
      BY <1>2, <1>4, <1>5, <2>1, SumGrows
    <2> QED
      BY <1>1, <1>2, <1>4, <1>6, <2>1, <2>2
  <1>7. CASE ~(type = "WITHDRAWAL" /\ v = u)
    <2>1. WithdrawalsOf(v)' = WithdrawalsOf(v)
      BY <1>2, <1>3, <1>7 DEF WithdrawalsOf
    <2>2. SumFunction(g) = SumFunction(f)
      BY <1>4, <1>5, <2>1, SumsOfEqual
    <2> QED
      BY <1>1, <1>5, <1>7, <2>2
  <1> QED
    BY <1>6, <1>7

-----------------------------------------------------------------------------
(* What a user has and has withdrawn, together. *)
Worth(u) == balance[u].available + Debited(u)

(* A run of job j pays its sum in. *)
PaysIn(j) ==
  /\ j[1] # "session" /\ HasRow(j[2], RowType(j)) /\ pjob[j].state # "none"
  /\ balance' = PaidIn(j[2])
  /\ \A u \in Users : Debited(u)' = Debited(u)
  /\ InAtMost(j)' >= InAtMost(j) + 1
  /\ j[1] = "credit" => ~HasCredited(j)
  /\ \A i \in PaymentJobs : CreditWrite(i) => i = j

WorthKept ==
  /\ \A u \in Users : Worth(u)' = Worth(u)
  /\ \A i \in PaymentJobs : ~CreditWrite(i)

WorthSame == \A u \in Users : Worth(u)' = Worth(u)

LEMMA WorthOfSame ==
  ASSUME PaymentsInv, IsFiniteSet(txn), UNCHANGED balance,
         UNCHANGED txn \/ \E old, new : Replaced(old, new)
  PROVE  WorthSame
  BY DebitedKept DEF WorthSame, Worth

LEMMA WorthOfDebit ==
  ASSUME PaymentsInv, IsFiniteSet(txn), UNCHANGED prun, NEW r \in Callers, DebitWrite(r)
  PROVE  WorthSame
  <1>1. PICK k \in Keys, u \in Users, a \in PaymentAmounts :
          k = preq[r].job[2] /\ u = preq[r].user /\ a = preq[r].amount
    BY DebitEffects
  <1>2. /\ ~Used(k) /\ txn' = txn \cup {NewPayment(k, "WITHDRAWAL", u, a)}
        /\ balance' = [balance EXCEPT ![u] = Moved(balance[u], -a, 0)]
    BY <1>1 DEF DebitWrite
  <1>3. balance \in [Users -> BalanceRow] /\ a \in Int
    BY InvParts, PaymentAssumption DEF PaymentTypeOK
  <1> SUFFICES ASSUME NEW v \in Users PROVE Worth(v)' = Worth(v)
    BY DEF WorthSame
  <1>4. Debited(v)' = Debited(v) + (IF v = u THEN a ELSE 0) /\ Debited(v) \in Int
    BY <1>2, DebitedGrows, WithdrawalsAddUp, InvParts DEF PaymentTypes
  <1>5. balance'[v].available = balance[v].available - (IF v = u THEN a ELSE 0)
    BY <1>2, <1>3 DEF Moved, BalanceRow
  <1>6. balance[v].available \in Int
    BY <1>3 DEF BalanceRow
  <1> QED
    BY <1>3, <1>4, <1>5, <1>6 DEF Worth

LEMMA WorthOfTopup ==
  ASSUME PaymentsInv, IsFiniteSet(txn), NEW r \in Callers,
         NEW k \in Keys, NEW u \in Users, NEW a \in PaymentAmounts, Topup(r, k, u, a)
  PROVE  WorthSame
  <1>1. ~Used(k) /\ txn' = txn \cup {NewPayment(k, "TOPUP", u, a)} /\ balance' = balance
    BY DEF Topup
  <1> SUFFICES ASSUME NEW v \in Users PROVE Worth(v)' = Worth(v)
    BY DEF WorthSame
  <1>2. Debited(v)' = Debited(v) + 0 /\ Debited(v) \in Int
    BY <1>1, DebitedGrows, WithdrawalsAddUp, InvParts DEF PaymentTypes
  <1> QED
    BY <1>1, <1>2 DEF Worth

LEMMA ServiceKeepsWorth ==
  ASSUME PaymentsInv, IsFiniteSet(txn), ServicesNext, UNCHANGED prun
  PROVE  WorthSame
  <1>1. ASSUME NEW r \in Callers, NEW k \in Keys, NEW u \in Users, NEW a \in PaymentAmounts,
               Withdraw(r, k, u, a)
        PROVE  WorthSame
    BY <1>1, WorthOfSame DEF Withdraw
  <1>2. ASSUME NEW r \in Callers, NEW k \in Keys, Callback(r, k)
        PROVE  WorthSame
    <2>1. PICK old, new : Replaced(old, new)
      BY <1>2, CallbackEffects
    <2> QED
      BY <1>2, <2>1, WorthOfSame DEF Callback
  <1>3. ASSUME NEW r \in Callers, DebitConflict(r) \/ AddJob(r) \/ CallAborted(r)
        PROVE  WorthSame
    BY <1>3, WorthOfSame DEF DebitConflict, AddJob, CallAborted
  <1> QED
    BY <1>1, <1>2, <1>3, WorthOfDebit, WorthOfTopup DEF ServicesNext, CallStep

(* Only one run moves in a step.                                           *)
LEMMA OneRunMoves ==
  ASSUME PaymentsInv, NEW j \in PaymentJobs, NEW pc, RunTo(j, pc),
         NEW i \in PaymentJobs, CreditWrite(i)
  PROVE  i = j
  <1>1. prun \in [PaymentJobs -> PaymentRun] /\ prun[i].pc = "creditWrite"
    BY InvParts DEF PaymentTypeOK, CreditWrite, RunAt
  <1>2. prun'[i].pc = "notify"
    BY <1>1 DEF CreditWrite, RunTo, PaymentRun
  <1> QED
    BY <1>1, <1>2 DEF RunTo

LEMMA RestorePaysIn ==
  ASSUME PaymentsInv, IsFiniteSet(txn), UNCHANGED preq, NEW k \in Keys, RestoreWrite(k)
  PROVE  PaysIn(WithdrawJob(k))
  <1>1. PICK j \in PaymentJobs : /\ j = WithdrawJob(k) /\ j[1] = "withdraw" /\ j[2] = k
                                 /\ RowType(j) = "WITHDRAWAL"
    BY JobOfKey DEF RowType
  <1>2. /\ RunAt(j, "restoreWrite") /\ RunTo(j, "notifyFailed") /\ UNCHANGED pjob
        /\ balance' = PaidIn(k)
    BY <1>1 DEF RestoreWrite
  <1>3. HasRow(k, "WITHDRAWAL") /\ \E new : Replaced(Payment(k), new)
    BY RestoreWriteEffects
  <1>4. \A u \in Users : Debited(u)' = Debited(u)
    BY <1>3, DebitedKept
  <1>5. pjob[j].state = "active"
    BY <1>2, RunningHasRow DEF RunAt
  <1>6. InAtMost(j)' >= InAtMost(j) + 1
    <2>1. LostRuns(j) \in Nat /\ LostRuns(j)' = LostRuns(j)
      BY <1>2, BoundsAreNats, InvParts DEF LostRuns
    <2>2. prun[j].pc = "restoreWrite" /\ prun'[j].pc = "notifyFailed"
      BY <1>2, InvParts DEF RunAt, RunTo, PaymentTypeOK, PaymentRun
    <2> QED
      BY <1>1, <2>1, <2>2 DEF InAtMost, RunsPast, HasPaidIn, RunAt
  <1>7. \A i \in PaymentJobs : CreditWrite(i) => i = j
    BY <1>2, OneRunMoves
  <1>8. PaysIn(j)
    BY <1>1, <1>2, <1>3, <1>4, <1>5, <1>6, <1>7 DEF PaysIn
  <1> QED
    BY <1>1, <1>8

LEMMA CreditPaysIn ==
  ASSUME PaymentsInv, IsFiniteSet(txn), UNCHANGED preq, NEW j \in PaymentJobs, CreditWrite(j)
  PROVE  PaysIn(j)
  <1>1. /\ RunAt(j, "creditWrite") /\ RunTo(j, "notify") /\ UNCHANGED pjob
        /\ balance' = PaidIn(j[2])
    BY DEF CreditWrite
  <1>2. /\ HasRow(j[2], RowType(j)) /\ pjob[j].state = "active"
        /\ prun[j].pc \in Steps[j[1]]
    BY <1>1, RunningHasRow DEF RunAt
  <1>3. j[1] = "credit"
    BY <1>1, <1>2, JobKind, StepsOf DEF RunAt
  <1>4. \A u \in Users : Debited(u)' = Debited(u)
    BY CreditWriteEffects, DebitedKept
  <1>5. ~HasCredited(j) /\ InAtMost(j)' >= InAtMost(j) + 1
    <2>1. LostRuns(j) \in Nat /\ LostRuns(j)' = LostRuns(j)
      BY <1>1, BoundsAreNats, InvParts DEF LostRuns
    <2>2. prun[j].pc = "creditWrite" /\ prun'[j].pc = "notify"
      BY <1>1, InvParts DEF RunAt, RunTo, PaymentTypeOK, PaymentRun
    <2> QED
      BY <1>2, <1>3, <2>1, <2>2 DEF InAtMost, RunsPast, HasPaidIn, HasCredited, RunAt
  <1>6. \A i \in PaymentJobs : CreditWrite(i) => i = j
    BY <1>1, OneRunMoves
  <1> QED
    BY <1>1, <1>2, <1>3, <1>4, <1>5, <1>6 DEF PaysIn

LEMMA ProcessorWorth ==
  ASSUME PaymentsInv, IsFiniteSet(txn), ProcessorsNext, UNCHANGED preq
  PROVE  WorthSame \/ \E j \in PaymentJobs : PaysIn(j)
  <1>1. PICK j \in PaymentJobs : PaymentStep(j) \/ PaymentCrash(j)
    BY DEF ProcessorsNext
  <1>2. j[2] \in Keys
    BY JobKind
  <1>3. CASE \/ PaymentStart(j) \/ CreditRead(j) \/ AttemptThrows(j)
             \/ NotifyPayment(j) \/ PaymentCrash(j)
    BY <1>3, WorthOfSame
    DEF PaymentStart, CreditRead, ReadBalance, AttemptThrows, NotifyPayment, PaymentCrash
  <1>4. CASE WithdrawalStep(j[2])
    <2>1. PICK k \in Keys : k = j[2]
      BY <1>2
    <2>2. CASE Pay(k) \/ PayThrows(k) \/ RestoreRead(k)
      BY <2>2, WorthOfSame DEF Pay, PayThrows, RestoreRead, ReadBalance
    <2>3. CASE MarkPaid(k)
      <3>1. \E old, new : Replaced(old, new)
        BY <2>3, MarkPaidEffects
      <3> QED
        BY <2>3, <3>1, WorthOfSame DEF MarkPaid
    <2>4. CASE RestoreWrite(k)
      BY <2>4, RestorePaysIn, JobOfKey
    <2> QED
      BY <1>4, <2>1, <2>2, <2>3, <2>4 DEF WithdrawalStep
  <1>5. CASE SessionStep(j[2])
    <2>1. PICK k \in Keys : k = j[2]
      BY <1>2
    <2>2. CASE CreateSession(k) \/ SaveSession(k)
      BY <2>2, WorthOfSame DEF CreateSession, SaveSession
    <2>3. CASE FailTopup(k)
      <3>1. \E old, new : Replaced(old, new)
        BY <2>3, FailTopupEffects
      <3> QED
        BY <2>3, <3>1, WorthOfSame DEF FailTopup
    <2> QED
      BY <1>5, <2>1, <2>2, <2>3 DEF SessionStep
  <1> QED
    BY <1>1, <1>3, <1>4, <1>5, CreditPaysIn DEF PaymentStep

LEMMA WorthMoves ==
  ASSUME PaymentsInv, IsFiniteSet(txn), PaymentsNext
  PROVE  WorthKept \/ \E j \in PaymentJobs : PaysIn(j)
  <1>1. CASE \E i \in PaymentJobs : CreditWrite(i)
    <2>1. PICK i \in PaymentJobs : CreditWrite(i)
      BY <1>1
    <2>2. ~UNCHANGED prun
      <3>1. prun[i].pc = "creditWrite" /\ prun'[i].pc = "notify"
        BY <2>1, InvParts DEF CreditWrite, RunAt, RunTo, PaymentTypeOK, PaymentRun
      <3> QED
        BY <3>1
    <2>3. UNCHANGED preq
      BY <2>2 DEF PaymentsNext
    <2> QED
      BY <2>1, <2>3, CreditPaysIn
  <1>2. CASE ~\E i \in PaymentJobs : CreditWrite(i)
    <2>1. AirtmNext /\ UNCHANGED <<balance, txn, pjob, pevent, preq, prun>> => WorthSame
      BY WorthOfSame
    <2>2. WorthSame \/ \E j \in PaymentJobs : PaysIn(j)
      BY <2>1, ServiceKeepsWorth, ProcessorWorth DEF PaymentsNext
    <2> QED
      BY <1>2, <2>2 DEF WorthSame, WorthKept
  <1> QED
    BY <1>1, <1>2

-----------------------------------------------------------------------------
(* And to the two sums that bound it. *)

(* The jobs of a user, finitely many, are about recorded payments.         *)
JobsKnown ==
  PaymentsInv /\ IsFiniteSet(txn) =>
    \A u \in Users :
      /\ IsFiniteSet(JobsOf(u))
      /\ \A j \in JobsOf(u) :
           /\ j \in PaymentJobs /\ j[1] # "session" /\ pjob[j].state # "none"
           /\ HasRow(j[2], RowType(j)) /\ RowType(j) \in PaymentTypes
           /\ Payment(j[2]).user = u /\ Payment(j[2]).amount \in Nat
           /\ InAtMost(j) \in Nat

LEMMA JobsAreKnown == JobsKnown
  <1> SUFFICES ASSUME PaymentsInv, IsFiniteSet(txn), NEW u \in Users
               PROVE  /\ IsFiniteSet(JobsOf(u))
                      /\ \A j \in JobsOf(u) :
                           /\ j \in PaymentJobs /\ j[1] # "session" /\ pjob[j].state # "none"
                           /\ HasRow(j[2], RowType(j)) /\ RowType(j) \in PaymentTypes
                           /\ Payment(j[2]).user = u /\ Payment(j[2]).amount \in Nat
                           /\ InAtMost(j) \in Nat
    BY DEF JobsKnown
  <1>1. ASSUME NEW j \in JobsOf(u)
        PROVE  /\ j \in PaymentJobs /\ j[1] # "session" /\ pjob[j].state # "none"
               /\ HasRow(j[2], RowType(j)) /\ RowType(j) \in PaymentTypes
               /\ Payment(j[2]).user = u /\ Payment(j[2]).amount \in Nat
               /\ InAtMost(j) \in Nat
    <2>1. /\ j \in PaymentJobs /\ j[1] # "session" /\ pjob[j].state # "none"
          /\ Payment(j[2]).user = u
      BY DEF JobsOf
    <2>2. HasRow(j[2], RowType(j)) /\ RowType(j) \in PaymentTypes
      BY <2>1, InvParts, JobKind DEF RecordedFirst
    <2>3. Payment(j[2]).amount \in Nat
      BY <2>2, InvParts, PaymentIsFound
    <2> QED
      BY <2>1, <2>2, <2>3, InvParts, BoundsAreNats
  <1>2. IsFiniteSet({row.key : row \in txn})
    <2> DEFINE f == [row \in txn |-> row.key]
    <2>1. DOMAIN f = txn /\ {f[row] : row \in DOMAIN f} = {row.key : row \in txn}
      OBVIOUS
    <2> HIDE DEF f
    <2> QED
      BY <2>1, ImageIsFinite
  <1> DEFINE keys == {row.key : row \in txn}
             tries == 1 .. MaxCallbacks
             pairs == keys \X tries
             f == [p \in pairs |-> <<"credit", p[1], p[2]>>]
             g == [k \in keys |-> <<"withdraw", k, 1>>]
             credits == {f[p] : p \in DOMAIN f}
             debits == {g[k] : k \in DOMAIN g}
  <1>3. IsFiniteSet(pairs)
    <2>1. IsFiniteSet(tries)
      BY FS_Interval, AirtmAssumption
    <2> QED
      BY <1>2, <2>1, FS_Product
  <1>4. IsFiniteSet(credits)
    <2>1. DOMAIN f = pairs
      OBVIOUS
    <2> HIDE DEF f, pairs
    <2> QED
      BY <1>3, <2>1, ImageIsFinite
  <1>5. IsFiniteSet(debits)
    <2>1. DOMAIN g = keys
      OBVIOUS
    <2> HIDE DEF g, keys
    <2>2. IsFiniteSet(keys)
      BY <1>2 DEF keys
    <2> QED
      BY <2>1, <2>2, ImageIsFinite
  <1>6. JobsOf(u) \subseteq credits \cup debits
    <2> SUFFICES ASSUME NEW j \in JobsOf(u) PROVE j \in credits \cup debits
      OBVIOUS
    <2>1. j \in PaymentJobs /\ j[1] # "session" /\ j[2] \in keys
      BY <1>1 DEF HasRow
    <2>2. CASE j[1] = "withdraw"
      <3>1. j = g[j[2]]
        BY <2>1, <2>2, JobKind DEF WithdrawJob
      <3> QED
        BY <2>1, <3>1
    <2>3. CASE j[1] = "credit"
      <3>1. PICK k \in Keys, n \in tries : j = <<"credit", k, n>>
        BY <2>1, <2>3 DEF PaymentJobs
      <3>2. <<k, n>> \in pairs /\ j = f[<<k, n>>]
        BY <2>1, <3>1
      <3> QED
        BY <3>2
    <2> QED
      BY <2>1, <2>2, <2>3, JobKind
  <1>7. IsFiniteSet(credits \cup debits)
    <2> HIDE DEF credits, debits
    <2> QED
      BY <1>4, <1>5, FS_Union
  <1>8. IsFiniteSet(JobsOf(u))
    <2> HIDE DEF credits, debits
    <2> QED
      BY <1>6, <1>7, FS_Subset
  <1> QED
    BY <1>1, <1>8

LEMMA JobsAreKnownNext == JobsKnown'
  BY JobsAreKnown, PTL

(* What the two sums add up.                                               *)
Given(u) == {x \in JobsOf(u) : x[1] = "credit" /\ HasCredited(x)}

LEMMA LimitsAreInts ==
  ASSUME PaymentsInv, IsFiniteSet(txn), NEW u \in Users
  PROVE  AtLeastIn(u) \in Int /\ AtMostIn(u) \in Int
  <1> DEFINE f == [j \in Given(u) |-> Payment(j[2]).amount]
             g == [j \in JobsOf(u) |-> InAtMost(j) * Payment(j[2]).amount]
  <1>1. AtLeastIn(u) = SumFunction(f) /\ AtMostIn(u) = SumFunction(g)
    BY DEF AtLeastIn, AtMostIn, Given, InAtMost
  <1>2. IsFiniteSet(DOMAIN f) /\ IsFiniteSet(DOMAIN g)
    <2>1. IsFiniteSet(JobsOf(u))
      BY JobsAreKnown DEF JobsKnown
    <2>2. Given(u) \subseteq JobsOf(u)
      BY DEF Given
    <2>3. IsFiniteSet(Given(u))
      BY <2>1, <2>2, FS_Subset
    <2> QED
      BY <2>1, <2>3
  <1>3. \A j \in DOMAIN f : f[j] \in Int
    BY JobsAreKnown DEF JobsKnown, Given
  <1>4. \A j \in DOMAIN g : g[j] \in Int
    BY JobsAreKnown, Products DEF JobsKnown
  <1> HIDE DEF f, g
  <1> QED
    BY <1>1, <1>2, <1>3, <1>4, SumOfInts

SumsOK ==
  PaymentsInv /\ IsFiniteSet(txn) =>
    \A u \in Users : AtLeastIn(u) \in Int /\ AtMostIn(u) \in Int

LEMMA SumsOKNow == SumsOK
  BY LimitsAreInts DEF SumsOK

LEMMA SumsTyped == SumsOK'
  BY SumsOKNow, PTL

(* The step lemmas assume both ends of a step, and what it keeps.          *)
StepKeeps ==
  /\ PaymentsInv /\ PaymentsInv' /\ IsFiniteSet(txn) /\ IsFiniteSet(txn)'
  /\ PaymentsStay
  /\ \A i \in PaymentJobs : BoundsKept(i)

LEMMA JobsStay ==
  ASSUME StepKeeps, NEW u \in Users
  PROVE  /\ IsFiniteSet(JobsOf(u)) /\ IsFiniteSet(JobsOf(u)')
         /\ \A j \in JobsOf(u) :
              /\ j \in JobsOf(u)'
              /\ Payment(j[2])'.amount = Payment(j[2]).amount
              /\ Payment(j[2]).amount \in Nat
              /\ InAtMost(j) \in Nat /\ InAtMost(j)' \in Nat /\ InAtMost(j)' >= InAtMost(j)
         /\ \A j \in JobsOf(u)' : Payment(j[2])'.amount \in Nat /\ InAtMost(j)' \in Nat
  <1>1. /\ IsFiniteSet(JobsOf(u)')
        /\ \A j \in JobsOf(u)' : Payment(j[2])'.amount \in Nat /\ InAtMost(j)' \in Nat
    BY JobsAreKnownNext DEF JobsKnown, StepKeeps
  <1>2. ASSUME NEW j \in JobsOf(u)
        PROVE  /\ j \in JobsOf(u)'
               /\ Payment(j[2])'.amount = Payment(j[2]).amount
               /\ Payment(j[2]).amount \in Nat
               /\ InAtMost(j) \in Nat /\ InAtMost(j)' >= InAtMost(j)
    <2>1. /\ j \in PaymentJobs /\ j[1] # "session" /\ pjob[j].state # "none"
          /\ HasRow(j[2], RowType(j)) /\ RowType(j) \in PaymentTypes
          /\ Payment(j[2]).user = u /\ Payment(j[2]).amount \in Nat
          /\ InAtMost(j) \in Nat
      BY JobsAreKnown DEF JobsKnown, StepKeeps
    <2>2. Payment(j[2])'.user = u /\ Payment(j[2])'.amount = Payment(j[2]).amount
      BY <2>1 DEF StepKeeps, PaymentsStay
    <2>3. pjob'[j].state # "none" /\ InAtMost(j)' >= InAtMost(j)
      BY <2>1 DEF StepKeeps, BoundsKept
    <2> QED
      BY <2>1, <2>2, <2>3 DEF JobsOf
  <1>3. IsFiniteSet(JobsOf(u))
    BY JobsAreKnown DEF JobsKnown, StepKeeps
  <1> QED
    BY <1>1, <1>2, <1>3

(* The upper sum never falls, and grows by what a run pays in.             *)
LEMMA AtMostGrows ==
  ASSUME StepKeeps, NEW u \in Users
  PROVE  /\ AtMostIn(u)' >= AtMostIn(u)
         /\ \A j \in JobsOf(u) : InAtMost(j)' >= InAtMost(j) + 1 =>
              AtMostIn(u)' >= AtMostIn(u) + Payment(j[2]).amount
  <1> DEFINE f == [j \in JobsOf(u) |-> InAtMost(j) * Payment(j[2]).amount]
             g == [j \in JobsOf(u)' |-> InAtMost(j)' * Payment(j[2])'.amount]
  <1>1. AtMostIn(u) = SumFunction(f) /\ AtMostIn(u)' = SumFunction(g)
    BY DEF AtMostIn, InAtMost
  <1>2. /\ DOMAIN f = JobsOf(u) /\ DOMAIN g = JobsOf(u)'
        /\ IsFiniteSet(DOMAIN f) /\ IsFiniteSet(DOMAIN g) /\ DOMAIN f \subseteq DOMAIN g
    BY JobsStay
  <1>3. \A j \in DOMAIN f : f[j] = InAtMost(j) * Payment(j[2]).amount
    OBVIOUS
  <1>4. \A j \in DOMAIN f : g[j] = InAtMost(j)' * Payment(j[2]).amount
    BY JobsStay
  <1>5. \A j \in DOMAIN f : f[j] \in Nat
    BY <1>2, <1>3, JobsStay, Products
  <1>6. \A j \in DOMAIN g : g[j] \in Nat
    BY <1>2, JobsStay, Products
  <1>7. \A j \in DOMAIN f : f[j] <= g[j]
    BY <1>2, <1>3, <1>4, JobsStay, Products
  <1> HIDE DEF f, g
  <1>8. SumFunction(f) <= SumFunction(g)
    BY <1>2, <1>5, <1>6, <1>7, SumIsBelow
  <1>9. SumFunction(f) \in Int /\ SumFunction(g) \in Int
    BY <1>2, <1>5, <1>6, SumOfInts
  <1>10. ASSUME NEW j \in JobsOf(u), InAtMost(j)' >= InAtMost(j) + 1
         PROVE  AtMostIn(u)' >= AtMostIn(u) + Payment(j[2]).amount
    <2>1. PICK a \in Nat : a = Payment(j[2]).amount
      BY JobsStay
    <2> DEFINE h == [f EXCEPT ![j] = f[j] + a]
    <2>2. /\ DOMAIN h = DOMAIN f /\ j \in DOMAIN f
          /\ \A i \in DOMAIN f : i # j => h[i] = f[i]
      BY <1>2
    <2>3. h[j] = f[j] + a
      BY <1>2
    <2>4. f[j] + a <= g[j]
      <3>1. InAtMost(j) \in Nat /\ InAtMost(j)' \in Nat /\ InAtMost(j) + 1 <= InAtMost(j)'
        BY <1>10, JobsStay
      <3>2. InAtMost(j) * a + a <= InAtMost(j)' * a
        BY <3>1, Products
      <3> QED
        BY <1>2, <1>3, <1>4, <2>1, <3>2
    <2> HIDE DEF h
    <2>5. \A i \in DOMAIN h : h[i] \in Int /\ h[i] <= g[i]
      BY <1>2, <1>5, <1>6, <1>7, <2>2, <2>3, <2>4
    <2>6. SumFunction(h) = SumFunction(f) + (h[j] - f[j])
      BY <1>2, <1>5, <2>2, <2>5, SumMoves
    <2>7. SumFunction(h) <= SumFunction(g)
      BY <1>2, <1>6, <2>2, <2>5, SumIsBelow
    <2>8. f[j] \in Nat
      BY <1>5, <2>2
    <2> QED
      BY <1>1, <1>9, <2>1, <2>3, <2>6, <2>7, <2>8
  <1> QED
    BY <1>1, <1>8, <1>9, <1>10

(* The lower sum grows by what a credit job pays in, and by nothing else.  *)
LEMMA GivenStays ==
  ASSUME StepKeeps, NEW u \in Users, NEW j \in Given(u)'
  PROVE  (j \in Given(u) \/ CreditWrite(j)) /\ (pjob[j].state # "none" => j \in JobsOf(u))
  <1>1. /\ j \in PaymentJobs /\ j[1] = "credit" /\ HasCredited(j)'
        /\ pjob'[j].state # "none" /\ Payment(j[2])'.user = u
    BY DEF Given, JobsOf
  <1>2. HasCredited(j) \/ CreditWrite(j)
    BY <1>1 DEF StepKeeps, BoundsKept
  <1>3. HasCredited(j) => pjob[j].state # "none"
    BY <1>1, RunningHasRow DEF StepKeeps, HasCredited, RunAt
  <1>4. ASSUME pjob[j].state # "none" PROVE j \in JobsOf(u)
    <2>1. HasRow(j[2], RowType(j)) /\ RowType(j) \in PaymentTypes
      BY <1>1, <1>4, InvParts, JobKind DEF StepKeeps, RecordedFirst
    <2>2. Payment(j[2])'.user = Payment(j[2]).user
      BY <2>1 DEF StepKeeps, PaymentsStay
    <2> QED
      BY <1>1, <1>4, <2>2 DEF JobsOf
  <1> QED
    BY <1>1, <1>2, <1>3, <1>4 DEF Given

LEMMA AtLeastGrows ==
  ASSUME StepKeeps, NEW u \in Users
  PROVE  /\ (\A j \in JobsOf(u) : ~CreditWrite(j)) => AtLeastIn(u)' <= AtLeastIn(u)
         /\ \A j \in JobsOf(u) \ Given(u) :
              (\A i \in PaymentJobs : CreditWrite(i) => i = j) =>
                AtLeastIn(u)' <= AtLeastIn(u) + Payment(j[2]).amount
  <1> DEFINE f == [j \in Given(u) |-> Payment(j[2]).amount]
             g == [j \in Given(u)' |-> Payment(j[2])'.amount]
  <1>1. AtLeastIn(u) = SumFunction(f) /\ AtLeastIn(u)' = SumFunction(g)
    BY DEF AtLeastIn, Given
  <1>2. DOMAIN f = Given(u) /\ DOMAIN g = Given(u)'
    OBVIOUS
  <1>3. Given(u) \subseteq JobsOf(u) /\ Given(u)' \subseteq JobsOf(u)'
    BY DEF Given
  <1>4. IsFiniteSet(DOMAIN f) /\ IsFiniteSet(DOMAIN g)
    <2>1. IsFiniteSet(JobsOf(u)) /\ IsFiniteSet(JobsOf(u)')
      BY JobsStay
    <2>2. IsFiniteSet(Given(u))
      BY <1>3, <2>1, FS_Subset
    <2>3. IsFiniteSet(Given(u)')
      BY <1>3, <2>1, FS_Subset
    <2> QED
      BY <1>2, <2>2, <2>3
  <1>5. \A j \in DOMAIN f : f[j] = Payment(j[2]).amount /\ f[j] \in Nat
    BY <1>3, JobsStay
  <1>6. \A j \in DOMAIN g : g[j] = Payment(j[2])'.amount /\ g[j] \in Nat
    BY <1>3, JobsStay
  <1>7. \A j \in JobsOf(u) : Payment(j[2])'.amount = Payment(j[2]).amount
    BY JobsStay
  <1> HIDE DEF f, g
  <1>8. SumFunction(f) \in Int /\ SumFunction(g) \in Int
    BY <1>4, <1>5, <1>6, SumOfInts
  <1>9. ASSUME \A j \in JobsOf(u) : ~CreditWrite(j)
        PROVE  AtLeastIn(u)' <= AtLeastIn(u)
    <2>1. ASSUME NEW j \in Given(u)' PROVE j \in Given(u)
      <3>1. j \in PaymentJobs
        BY DEF Given, JobsOf
      <3>2. CreditWrite(j) => pjob[j].state # "none"
        BY <3>1, RunningHasRow DEF StepKeeps, CreditWrite, RunAt
      <3> QED
        BY <1>9, <2>1, <3>2, GivenStays
    <2>2. DOMAIN g \subseteq DOMAIN f
      BY <1>2, <2>1
    <2>3. \A j \in DOMAIN g : g[j] <= f[j]
      BY <1>2, <1>3, <1>5, <1>6, <1>7, <2>2
    <2>4. SumFunction(g) <= SumFunction(f)
      BY <1>4, <1>5, <1>6, <2>2, <2>3, SumIsBelow
    <2> QED
      BY <1>1, <2>4
  <1>10. ASSUME NEW j \in JobsOf(u) \ Given(u), \A i \in PaymentJobs : CreditWrite(i) => i = j
         PROVE  AtLeastIn(u)' <= AtLeastIn(u) + Payment(j[2]).amount
    <2>1. PICK a \in Nat : a = Payment(j[2]).amount
      BY JobsStay
    <2> DEFINE h == [i \in Given(u) \cup {j} |-> Payment(i[2]).amount]
    <2>2. /\ DOMAIN h = DOMAIN f \cup {j} /\ j \notin DOMAIN f
          /\ h[j] = a
          /\ \A i \in DOMAIN f : h[i] = f[i]
      BY <1>2, <1>5, <2>1
    <2>3. Given(u)' \subseteq Given(u) \cup {j}
      <3>1. \A i \in Given(u)' : i \in PaymentJobs
        BY DEF Given, JobsOf
      <3> QED
        BY <1>10, <3>1, GivenStays
    <2> HIDE DEF h
    <2>4. SumFunction(h) = SumFunction(f) + h[j]
      BY <1>4, <1>5, <2>2, SumGrows
    <2>5. IsFiniteSet(DOMAIN h)
      BY <1>4, <2>2, FS_AddElement
    <2>6. \A i \in DOMAIN h : h[i] \in Nat
      BY <1>5, <2>2
    <2>7. \A i \in DOMAIN g : g[i] <= h[i]
      BY <1>2, <1>3, <1>5, <1>6, <1>7, <2>1, <2>2, <2>3
    <2>8. SumFunction(g) <= SumFunction(h)
      BY <1>2, <1>6, <2>2, <2>3, <2>5, <2>6, <2>7, SumIsBelow
    <2> QED
      BY <1>1, <2>1, <2>2, <2>4, <2>8
  <1> QED
    BY <1>9, <1>10

-----------------------------------------------------------------------------
(* The two together. *)

(* Between what a user has at least and at most.                           *)
Bounded(u) ==
  /\ Funds[u] + AtLeastIn(u) <= Worth(u)
  /\ Worth(u) <= Funds[u] + AtMostIn(u)

LEMMA BoundedStays ==
  ASSUME StepKeeps, WorthKept \/ \E j \in PaymentJobs : PaysIn(j),
         NEW u \in Users, Bounded(u)
  PROVE  Bounded(u)'
  <1>1. /\ PaymentTypeOK /\ balance \in [Users -> BalanceRow] /\ IsFiniteSet(txn)
        /\ Funds[u] \in Int
    BY InvParts, StoreAssumption DEF StepKeeps, PaymentTypeOK
  <1>2. /\ Debited(u) \in Int /\ balance[u].available \in Int
        /\ Worth(u) = balance[u].available + Debited(u)
    BY <1>1, WithdrawalsAddUp DEF BalanceRow, Worth
  <1>3. AtLeastIn(u) \in Int /\ AtMostIn(u) \in Int
    BY LimitsAreInts DEF StepKeeps
  <1>4. AtLeastIn(u)' \in Int /\ AtMostIn(u)' \in Int
    BY SumsTyped DEF SumsOK, StepKeeps
  <1>5. ASSUME Worth(u)' = Worth(u), \A j \in JobsOf(u) : ~CreditWrite(j)
        PROVE  Bounded(u)'
    <2>1. AtLeastIn(u)' <= AtLeastIn(u) /\ AtMostIn(u)' >= AtMostIn(u)
      BY <1>5, AtLeastGrows, AtMostGrows
    <2> QED
      BY <1>1, <1>2, <1>3, <1>4, <1>5, <2>1 DEF Bounded
  <1>6. CASE WorthKept
    BY <1>5, <1>6 DEF WorthKept, JobsOf
  <1>7. ASSUME NEW j \in PaymentJobs, PaysIn(j)
        PROVE  Bounded(u)'
    <2>1. PICK w \in Users, a \in Nat : w = Payment(j[2]).user /\ a = Payment(j[2]).amount
      BY <1>7, InvParts, JobKind, PaymentIsFound DEF PaysIn, StepKeeps
    <2>2. balance' = [balance EXCEPT ![w] = Moved(balance[w], a, 0)]
      BY <1>7, <2>1 DEF PaysIn, PaidIn
    <2>3. Debited(u)' = Debited(u)
      BY <1>7 DEF PaysIn
    <2>4. balance'[u].available = balance[u].available + (IF u = w THEN a ELSE 0)
      BY <1>1, <2>2 DEF Moved, BalanceRow
    <2>5. Worth(u)' = Worth(u) + (IF u = w THEN a ELSE 0)
      BY <1>2, <2>3, <2>4 DEF Worth
    <2>6. CASE u # w
      <3>1. \A i \in JobsOf(u) : ~CreditWrite(i)
        BY <1>7, <2>1, <2>6 DEF PaysIn, JobsOf
      <3>2. Worth(u)' = Worth(u)
        BY <1>2, <2>5, <2>6
      <3> QED
        BY <1>5, <3>1, <3>2
    <2>7. CASE u = w
      <3>1. j \in JobsOf(u) /\ j \notin Given(u) /\ InAtMost(j)' >= InAtMost(j) + 1
        BY <1>7, <2>1, <2>7 DEF PaysIn, JobsOf, Given
      <3>2. AtLeastIn(u)' <= AtLeastIn(u) + a
        BY <1>7, <2>1, <3>1, AtLeastGrows DEF PaysIn
      <3>3. AtMostIn(u)' >= AtMostIn(u) + a
        BY <2>1, <3>1, AtMostGrows
      <3> QED
        BY <1>1, <1>2, <1>3, <1>4, <2>5, <2>7, <3>2, <3>3 DEF Bounded
    <2> QED
      BY <2>6, <2>7
  <1> QED
    BY <1>6, <1>7

(* Airtm pays a withdrawal in its own step only, and that step is a run's. *)
PaidPerRun(k) == payout[k] <= PaidAtMost(WithdrawJob(k))

LEMMA ProcessorPays ==
  ASSUME PaymentsInv, ProcessorsNext
  PROVE  UNCHANGED payout \/ \E k \in Keys : Pay(k)
  <1>1. PICK j \in PaymentJobs : PaymentStep(j) \/ PaymentCrash(j)
    BY DEF ProcessorsNext
  <1>2. j[2] \in Keys
    BY JobKind
  <1>3. WithdrawalStep(j[2]) => UNCHANGED payout \/ Pay(j[2])
    BY DEF WithdrawalStep, MarkPaid, PayThrows, RestoreRead, RestoreWrite, ReadBalance
  <1>4. SessionStep(j[2]) => UNCHANGED payout
    BY DEF SessionStep, CreateSession, SaveSession, FailTopup
  <1>5. PaymentStart(j) \/ CreditRead(j) \/ CreditWrite(j) \/ AttemptThrows(j)
        \/ NotifyPayment(j) \/ PaymentCrash(j) => UNCHANGED payout
    BY DEF PaymentStart, CreditRead, CreditWrite, ReadBalance, AttemptThrows, NotifyPayment,
           PaymentCrash
  <1> QED
    BY <1>1, <1>2, <1>3, <1>4, <1>5 DEF PaymentStep

LEMMA PaidPerRunStays ==
  ASSUME StepKeeps, PaymentsNext, NEW k \in Keys, PaidPerRun(k)
  PROVE  PaidPerRun(k)'
  <1>1. PICK j \in PaymentJobs : j = WithdrawJob(k) /\ j[1] = "withdraw"
    BY JobOfKey
  <1>2. PaymentTypeOK /\ PaymentTypeOK' /\ payout \in [Keys -> Nat] /\ payout' \in [Keys -> Nat]
    BY DEF StepKeeps, PaymentsInv, PaymentTypeOK
  <1>3. PaidAtMost(j) \in Nat /\ PaidAtMost(j)' >= PaidAtMost(j) /\ PaidAtMost(j)' \in Nat
    BY <1>1, <1>2, BoundsAreNats, BoundsTypedNext DEF StepKeeps, BoundsKept, BoundsTyped
  <1>4. CASE payout'[k] = payout[k]
    BY <1>1, <1>2, <1>3, <1>4 DEF PaidPerRun
  <1>5. ASSUME NEW i \in Keys, Pay(i)
        PROVE  payout'[k] = payout[k] \/ PaidPerRun(k)'
    <2>1. payout' = payout \/ payout' = Transferred(i)
      BY <1>5 DEF Pay
    <2>2. CASE i # k \/ payout' = payout
      BY <1>2, <2>1, <2>2 DEF Transferred
    <2>3. CASE i = k
      <3>1. RunAt(j, "pay") /\ UNCHANGED pjob
        BY <1>1, <1>5, <2>3 DEF Pay
      <3>2. PICK pc \in {"markPaid", "restoreRead"} : RunTo(j, pc)
        BY <1>1, <1>5, <2>3 DEF Pay
      <3>3. prun[j] \in PaymentRun
        BY InvParts DEF StepKeeps, PaymentTypeOK
      <3>4. ~RunAt(j, "pay")'
        BY <3>2, <3>3, InvParts DEF RunAt, RunTo, PaymentRun, StepKeeps, PaymentTypeOK
      <3>5. pjob[j].state = "active"
        BY <3>1, RunningHasRow DEF RunAt, StepKeeps
      <3>6. LostRuns(j) \in Nat /\ LostRuns(j)' = LostRuns(j)
        BY <3>1, BoundsAreNats, InvParts DEF LostRuns, StepKeeps
      <3>7. PaidAtMost(j)' = PaidAtMost(j) + 1
        BY <3>1, <3>4, <3>5, <3>6 DEF PaidAtMost, RunsPast
      <3>8. payout'[k] <= payout[k] + 1
        BY <1>2, <2>1, <2>3 DEF Transferred
      <3> QED
        BY <1>1, <1>2, <1>3, <3>7, <3>8 DEF PaidPerRun
    <2> QED
      BY <2>2, <2>3
  <1>6. (ServicesNext \/ AirtmNext) => UNCHANGED payout
    BY DEF ServicesNext, CallStep, Withdraw, DebitWrite, DebitConflict, Topup, Callback, AddJob,
           CallAborted, AirtmNext, SessionEnds
  <1> QED
    BY <1>4, <1>5, <1>6, ProcessorPays DEF PaymentsNext, StepKeeps

LEMMA PaymentsStayFinite ==
  ASSUME IsFiniteSet(txn), RowsEffect
  PROVE  IsFiniteSet(txn)'
  <1>1. ASSUME NEW k, NEW type, NEW u, NEW a, txn' = txn \cup {NewPayment(k, type, u, a)}
        PROVE  IsFiniteSet(txn)'
    BY <1>1, FS_AddElement
  <1>2. ASSUME NEW old, NEW new, txn' = (txn \ {old}) \cup {new}
        PROVE  IsFiniteSet(txn)'
    <2>1. IsFiniteSet(txn \ {old})
      BY FS_Subset
    <2> QED
      BY <1>2, <2>1, FS_AddElement
  <1> QED
    BY <1>1, <1>2 DEF RowsEffect, Inserted, Replaced

WithinBounds ==
  /\ IsFiniteSet(txn)
  /\ \A k \in Keys : PaidPerRun(k)
  /\ \A u \in Users : Bounded(u)

LEMMA BoundsAreOnce == WithinBounds => OncePerRun
  BY DEF WithinBounds, PaidPerRun, PaidAtMost, Bounded, Worth, OncePerRun

LEMMA BoundsStay ==
  PaymentsInv /\ PaymentsInv' /\ WithinBounds /\ [PaymentsNext]_payVars => WithinBounds'
  <1> SUFFICES ASSUME PaymentsInv, PaymentsInv', WithinBounds, [PaymentsNext]_payVars
               PROVE  WithinBounds'
    OBVIOUS
  <1>1. CASE PaymentsNext
    <2>1. RowsEffect
      BY <1>1, PaymentsEffects DEF PaymentEffects
    <2>2. StepKeeps
      BY <1>1, <2>1, PaymentsAreKept, StepKeepsBounds, PaymentsStayFinite
      DEF StepKeeps, WithinBounds
    <2>3. WorthKept \/ \E j \in PaymentJobs : PaysIn(j)
      BY <1>1, WorthMoves DEF WithinBounds
    <2> QED
      BY <1>1, <2>2, <2>3, BoundedStays, PaidPerRunStays DEF WithinBounds, StepKeeps
  <1>2. CASE UNCHANGED payVars
    <2>1. UNCHANGED <<balance, txn, pjob, payout, prun>>
      BY <1>2 DEF payVars, paymentVars
    <2>2. \A k \in Keys : PaidPerRun(k)' = PaidPerRun(k)
      BY <2>1 DEF PaidPerRun, PaidAtMost, RunsPast, LostRuns, RunAt
    <2>3. ASSUME NEW u \in Users PROVE Bounded(u)' = Bounded(u)
      <3>1. Worth(u)' = Worth(u)
        BY <2>1 DEF Worth, Debited
      <3>2. AtLeastIn(u)' = AtLeastIn(u)
        BY <2>1 DEF AtLeastIn, JobsOf, HasCredited, RunAt, Payment
      <3>3. AtMostIn(u)' = AtMostIn(u)
        BY <2>1 DEF AtMostIn, JobsOf, HasPaidIn, HasCredited, RunsPast, LostRuns, RunAt, Payment
      <3> QED
        BY <3>1, <3>2, <3>3 DEF Bounded
    <2> QED
      BY <2>1, <2>2, <2>3 DEF WithinBounds
  <1> QED
    BY <1>1, <1>2

LEMMA InitWithinBounds == PaymentsInit => WithinBounds
  <1> SUFFICES ASSUME PaymentsInit PROVE WithinBounds
    OBVIOUS
  <1>1. /\ txn = {} /\ payout = [k \in Keys |-> 0] /\ pjob = [j \in PaymentJobs |-> NoJob]
        /\ \A u \in Users : balance[u].available = Funds[u]
    BY DEF PaymentsInit, InitPayments, InitStore, InitPaymentStore, InitAirtm
  <1>2. IsFiniteSet(txn)
    BY <1>1, FS_EmptySet
  <1>3. ASSUME NEW k \in Keys PROVE PaidPerRun(k)
    <2>1. payout[k] = 0 /\ PaidAtMost(WithdrawJob(k)) \in Nat
      BY <1>1, InitPaymentsInv, InvParts, JobOfKey, BoundsAreNats
    <2> QED
      BY <2>1 DEF PaidPerRun
  <1>4. ASSUME NEW f, DOMAIN f = {} PROVE SumFunction(f) = 0
    BY <1>4, FS_EmptySet, SumEquation DEF SumFunction
  <1>5. ASSUME NEW u \in Users PROVE Bounded(u)
    <2>1. JobsOf(u) = {}
      BY <1>1 DEF JobsOf, NoJob
    <2> DEFINE f == [j \in {x \in JobsOf(u) : x[1] = "credit" /\ HasCredited(x)} |->
                       Payment(j[2]).amount]
               g == [j \in JobsOf(u) |-> RunsPast(j, HasPaidIn(j)) * Payment(j[2]).amount]
               h == [row \in {x \in txn : x.type = "WITHDRAWAL" /\ x.user = u} |-> row.amount]
    <2>2. /\ AtLeastIn(u) = SumFunction(f) /\ AtMostIn(u) = SumFunction(g)
          /\ Debited(u) = SumFunction(h)
      BY DEF AtLeastIn, AtMostIn, Debited
    <2>3. DOMAIN f = {} /\ DOMAIN g = {} /\ DOMAIN h = {}
      BY <1>1, <2>1
    <2> HIDE DEF f, g, h
    <2>4. AtLeastIn(u) = 0 /\ AtMostIn(u) = 0 /\ Debited(u) = 0
      BY <1>4, <2>2, <2>3
    <2> QED
      BY <1>1, <2>4, StoreAssumption DEF Bounded, Worth
  <1> QED
    BY <1>2, <1>3, <1>5 DEF WithinBounds

(* However attempts throw, stall and are tried again, and however often    *)
(* Airtm confirms: a withdrawal is paid out at most once for each run of   *)
(* its job; and a user has what the funds, less the debits, and the        *)
(* repeats explain, at least one credit for each completed credit job and  *)
(* at most one credit or return for each run of a job.                     *)
THEOREM RepeatsAreBounded == PaymentsSpec => []OncePerRun
  BY InitWithinBounds, BoundsStay, BoundsAreOnce, PaymentsInvariant, PTL DEF PaymentsSpec
=============================================================================
