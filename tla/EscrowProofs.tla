---------------------------- MODULE EscrowProofs ----------------------------
(***************************************************************************)
(* Theorems about Escrow, for every value of its constants.                *)
(***************************************************************************)
EXTENDS Escrow, StoreProofs, SequenceTheorems

Typed == TypeOK /\ InUse /\ Running

(* The fee of an amount, and with it the total, is a natural number.       *)
LEMMA FeeIsNat == \A a \in Nat : Fee(a) \in Nat
  BY EscrowAssumption DEF Fee

LEMMA TotalIsNat ==
  ASSUME TypeOK, NEW e \in DOMAIN escrow
  PROVE  /\ Total(e) \in Nat
         /\ escrow[e] \in EscrowRow
         /\ escrow[e].amount \in Nat
         /\ escrow[e].client \in Users
         /\ escrow[e].freelancer \in Users
  <1>1. escrow[e] \in EscrowRow
    BY DEF TypeOK
  <1>2. escrow[e].amount \in Nat
    BY <1>1, EscrowAssumption DEF EscrowRow
  <1>3. Fee(escrow[e].amount) \in Nat
    BY <1>2, FeeIsNat
  <1> QED
    BY <1>1, <1>2, <1>3 DEF Total, EscrowRow

-----------------------------------------------------------------------------
LEMMA InitTyped == Init => Typed
  <1> SUFFICES ASSUME Init PROVE Typed
    OBVIOUS
  <1> USE DEF Init, InitEscrowStore, InitService, InitProcessor, InitStore, InitChain
  <1>1. balance \in [Users -> BalanceRow]
    BY StoreAssumption DEF BalanceRow
  <1>2. chain \in Seq(Contract)
    OBVIOUS
  <1>3. DOMAIN escrow = {} /\ escrow \in [{} -> EscrowRow]
    OBVIOUS
  <1>4. job \in [JobIds -> JobRecord]
    BY QueueAssumption DEF JobRecord, NoJob
  <1>5. InUse
    BY DEF InUse, Idle, NoJob
  <1>6. Running
    BY QueueAssumption DEF Running, NoRun, NoJob
  <1> QED
    BY <1>1, <1>2, <1>3, <1>4, <1>5, <1>6 DEF Typed, TypeOK

(* The rows the code writes are rows of the table.                         *)
LEMMA LockRowIsRow ==
  ASSUME NEW k \in Keys, NEW e \in Escrows, NEW u \in Users, NEW a \in Amounts
  PROVE  LockRow(k, e, u, a) \in TxnRow
  BY DEF LockRow, TxnRow, TransactionStatus

LEMMA SettlementRowIsRow ==
  ASSUME TypeOK, NEW kind \in SettlementKinds, NEW e \in DOMAIN escrow, NEW c \in Nat
  PROVE  SettlementRow(kind, e, c) \in TxnRow
  <1>1. e \in Escrows /\ escrow[e] \in EscrowRow
    BY TotalIsNat DEF TypeOK
  <1>2. <<kind, e, c>> \in SettlementKinds \X Escrows \X Nat
    BY <1>1
  <1> QED
    BY <1>1, <1>2 DEF SettlementRow, SettlementKey, TxnRow, EscrowRow, TransactionStatus

LEMMA MarkedRowsAreRows ==
  ASSUME TypeOK, NEW e, NEW status \in TransactionStatus, NEW c \in Nat
  PROVE  \A row \in LocksMarked(e, status, c) : IsEscrowRow(row) => row \in TxnRow
  <1> SUFFICES ASSUME NEW row \in txn, row.type = "ESCROW_LOCK"
               PROVE  [row EXCEPT !.status = status, !.reference = c] \in TxnRow
    BY DEF LocksMarked, TypeOK
  <1>1. row \in TxnRow
    BY DEF TypeOK, IsEscrowRow
  <1> QED
    BY <1>1 DEF TxnRow

(* What is true of every request while it waits.                           *)
LEMMA RequestIsTyped ==
  ASSUME TypeOK, InUse, NEW r \in Requests, req[r] # Idle
  PROVE  /\ req[r] \in ServiceRequest
         /\ req[r].escrow \in DOMAIN escrow
         /\ req[r].escrow \in Escrows
         /\ req[r].key \in Keys
         /\ req[r].kind \in JobKinds
         /\ <<req[r].kind, req[r].escrow>> \in JobIds
  <1>1. req[r] \in ServiceRequest
    BY DEF TypeOK
  <1> QED
    BY <1>1 DEF ServiceRequest, InUse, JobIds

LEMMA NotIdle ==
  ASSUME NEW r \in Requests, req[r].pc \in {"lockRead", "lockWrite", "enqueue"}
  PROVE  req[r] # Idle
  BY DEF Idle

(* A request that begins, or goes on, is one of the requests.              *)
LEMMA BeginTyped ==
  ASSUME TypeOK, InUse, NEW r \in Requests, NEW e \in DOMAIN escrow, NEW k \in Keys,
         NEW pc \in {"lockRead", "lockWrite", "enqueue"}, NEW kind \in JobKinds,
         Begin(r, pc, kind, e, k), UNCHANGED escrow
  PROVE  /\ req' \in [Requests -> {Idle} \cup ServiceRequest]
         /\ \A q \in Requests : req'[q] # Idle => req'[q].escrow \in DOMAIN escrow'
  <1> DEFINE new == [pc |-> pc, kind |-> kind, escrow |-> e, key |-> k, seen |-> 0]
  <1>1. new \in ServiceRequest /\ new.escrow = e
    BY DEF ServiceRequest, TypeOK
  <1>2. req' = [req EXCEPT ![r] = new]
    BY DEF Begin
  <1> HIDE DEF new
  <1> QED
    BY <1>1, <1>2 DEF TypeOK, InUse

LEMMA EndRequestTyped ==
  ASSUME TypeOK, InUse, NEW r \in Requests, req' = [req EXCEPT ![r] = Idle], UNCHANGED escrow
  PROVE  /\ req' \in [Requests -> {Idle} \cup ServiceRequest]
         /\ \A q \in Requests : req'[q] # Idle => req'[q].escrow \in DOMAIN escrow'
  BY DEF TypeOK, InUse

-----------------------------------------------------------------------------
(* Every step of the service preserves the types.                          *)
LEMMA CreateTyped ==
  ASSUME Typed, UNCHANGED run,
         NEW e \in Escrows, NEW k \in Keys, NEW c \in Users, NEW f \in Users,
         NEW a \in Amounts, Create(e, k, c, f, a)
  PROVE  Typed'
  <1> DEFINE new == [status |-> "PENDING", client |-> c, freelancer |-> f,
                     amount |-> a, contract |-> 0]
  <1>1. new \in EscrowRow
    BY DEF EscrowRow, EscrowStatus
  <1>2. escrow' = [x \in DOMAIN escrow \cup {e} |-> IF x = e THEN new ELSE escrow[x]]
    BY DEF Create
  <1> HIDE DEF new
  <1>3. /\ DOMAIN escrow' = DOMAIN escrow \cup {e}
        /\ DOMAIN escrow' \subseteq Escrows
        /\ escrow' \in [DOMAIN escrow' -> EscrowRow]
    BY <1>1, <1>2 DEF Typed, TypeOK
  <1>4. \A row \in txn' : IsEscrowRow(row) => row \in TxnRow
    BY LockRowIsRow DEF Create, Typed, TypeOK
  <1>5. InUse'
    BY <1>3 DEF Create, Typed, InUse
  <1>6. Running'
    BY DEF Create, Typed, Running
  <1> QED
    BY <1>3, <1>4, <1>5, <1>6 DEF Create, Typed, TypeOK

LEMMA RequestsTyped ==
  ASSUME Typed, UNCHANGED run, NEW r \in Requests,
         \/ \E e \in Escrows, k \in Keys : Fund(r, e, k)
         \/ \E e \in Escrows : Release(r, e) \/ Refund(r, e)
         \/ ServiceStep(r)
         \/ RequestLost(r)
  PROVE  Typed'
  <1> USE DEF Typed
  <1>1. ASSUME /\ UNCHANGED <<balance, txn, chain, escrow, job, event>>
               /\ req' \in [Requests -> {Idle} \cup ServiceRequest]
               /\ \A q \in Requests : req'[q] # Idle => req'[q].escrow \in DOMAIN escrow'
        PROVE  Typed'
    <2>1. TypeOK'
      BY <1>1 DEF TypeOK
    <2>2. InUse' /\ Running'
      BY <1>1 DEF InUse, Running
    <2> QED
      BY <2>1, <2>2
  <1>2. ASSUME req' = [req EXCEPT ![r] = Idle],
               UNCHANGED <<balance, txn, chain, escrow, job, event>>
        PROVE  Typed'
    BY <1>1, <1>2, EndRequestTyped
  <1>3. ASSUME NEW e \in Escrows, NEW k \in Keys, Fund(r, e, k)
        PROVE  Typed'
    BY <1>1, <1>3, BeginTyped DEF Fund, JobKinds
  <1>4. ASSUME NEW e \in Escrows, Release(r, e) \/ Refund(r, e)
        PROVE  Typed'
    <2>1. AnyKey \in Keys
      BY StoreAssumption DEF AnyKey
    <2> QED
      BY <1>1, <1>4, <2>1, BeginTyped DEF Release, Refund, JobKinds, SettlementKinds
  <1>5. CASE LockRead(r)
    <2>1. CASE req' = [req EXCEPT ![r] = Idle]
      BY <1>2, <1>5, <2>1 DEF LockRead
    <2>2. CASE req' = [req EXCEPT ![r].pc = "lockWrite",
                                  ![r].seen = balance[escrow[req[r].escrow].client].version]
      <3>1. req[r] # Idle
        BY <1>5, NotIdle DEF LockRead
      <3>2. req[r] \in ServiceRequest /\ req[r].escrow \in DOMAIN escrow
        BY <3>1, RequestIsTyped
      <3>3. balance[escrow[req[r].escrow].client].version \in Nat
        BY <3>2, TotalIsNat DEF TypeOK, BalanceRow
      <3> DEFINE new == [req[r] EXCEPT !.pc = "lockWrite",
                                       !.seen = balance[escrow[req[r].escrow].client].version]
      <3>4. new \in ServiceRequest /\ new.escrow = req[r].escrow
        BY <3>2, <3>3 DEF ServiceRequest
      <3>5. req' = [req EXCEPT ![r] = new]
        BY <2>2
      <3> HIDE DEF new
      <3>6. req' \in [Requests -> {Idle} \cup ServiceRequest]
        BY <3>4, <3>5 DEF TypeOK
      <3>7. \A q \in Requests : req'[q] # Idle => req'[q].escrow \in DOMAIN escrow'
        BY <1>5, <3>2, <3>4, <3>5 DEF LockRead, TypeOK, InUse
      <3> QED
        BY <1>1, <1>5, <3>6, <3>7 DEF LockRead
    <2> QED
      BY <1>5, <2>1, <2>2 DEF LockRead
  <1>6. CASE LockWrite(r)
    <2>1. req[r] # Idle
      BY <1>6, NotIdle DEF LockWrite
    <2> DEFINE e == req[r].escrow
               u == escrow[e].client
    <2>2. req[r] \in ServiceRequest /\ e \in DOMAIN escrow /\ e \in Escrows /\ req[r].key \in Keys
      BY <2>1, RequestIsTyped
    <2>3. u \in Users /\ Total(e) \in Nat /\ escrow[e].amount \in Amounts
      BY <2>2, TotalIsNat DEF EscrowRow
    <2>4. balance' \in [Users -> BalanceRow]
      <3>1. balance[u] \in BalanceRow
        BY <2>3 DEF TypeOK
      <3>2. Moved(balance[u], -Total(e), Total(e)) \in BalanceRow
        BY <2>3, <3>1, RowIsMoved
      <3>3. balance' = [balance EXCEPT ![u] = Moved(balance[u], -Total(e), Total(e))]
        BY <1>6 DEF LockWrite
      <3> QED
        BY <3>2, <3>3 DEF TypeOK
    <2>5. \A row \in txn' : IsEscrowRow(row) => row \in TxnRow
      <3>1. LockRow(req[r].key, e, u, escrow[e].amount) \in TxnRow
        BY <2>2, <2>3, LockRowIsRow
      <3> QED
        BY <1>6, <3>1 DEF LockWrite, TypeOK
    <2>6. /\ req' \in [Requests -> {Idle} \cup ServiceRequest]
          /\ \A q \in Requests : req'[q] # Idle => req'[q].escrow \in DOMAIN escrow'
      <3> DEFINE new == [req[r] EXCEPT !.pc = "enqueue"]
      <3>1. new \in ServiceRequest /\ new.escrow = e
        BY <2>2 DEF ServiceRequest
      <3>2. req' = [req EXCEPT ![r] = new] /\ escrow' = escrow
        BY <1>6 DEF LockWrite
      <3> HIDE DEF new
      <3> QED
        BY <2>2, <3>1, <3>2 DEF TypeOK, InUse
    <2>7. UNCHANGED <<chain, escrow, job, event>>
      BY <1>6 DEF LockWrite
    <2>8. TypeOK'
      BY <2>4, <2>5, <2>6, <2>7 DEF TypeOK
    <2>9. InUse' /\ Running'
      BY <2>6, <2>7 DEF InUse, Running
    <2> QED
      BY <2>8, <2>9
  <1>7. CASE LockConflict(r)
    BY <1>2, <1>7 DEF LockConflict
  <1>8. CASE RequestLost(r)
    BY <1>2, <1>8 DEF RequestLost
  <1>9. CASE Enqueue(r)
    <2>1. req[r] # Idle
      BY <1>9, NotIdle DEF Enqueue
    <2> DEFINE j == <<req[r].kind, req[r].escrow>>
    <2>2. j \in JobIds /\ j[2] = req[r].escrow /\ req[r].escrow \in DOMAIN escrow
      BY <2>1, RequestIsTyped
    <2>3. job' = [job EXCEPT ![j] = Added(job[j])]
      BY <1>9 DEF Enqueue
    <2>4. UNCHANGED <<balance, txn, chain, escrow, event>>
      BY <1>9 DEF Enqueue
    <2>5. /\ req' \in [Requests -> {Idle} \cup ServiceRequest]
          /\ \A q \in Requests : req'[q] # Idle => req'[q].escrow \in DOMAIN escrow'
      BY <1>9, <2>4, EndRequestTyped DEF Enqueue
    <2>6. job[j] \in JobRecord
      BY <2>2 DEF TypeOK
    <2>7. /\ Added(job[j]) \in JobRecord
          /\ Added(job[j]).state = "active" <=> job[j].state = "active"
          /\ Added(job[j]).state \in {"none", "waiting", "active"} =>
               job[j].state \in {"none", "waiting", "active"}
          /\ Added(job[j]).attempts = job[j].attempts
          /\ Added(job[j]).stalled = job[j].stalled
      BY <2>6, JobIsRecord DEF Added, JobRecord
    <2> HIDE DEF j
    <2>8. job' \in [JobIds -> JobRecord]
      BY <2>2, <2>3, <2>7 DEF TypeOK
    <2>9. TypeOK'
      BY <2>4, <2>5, <2>8 DEF TypeOK
    <2>10. InUse'
      <3>1. \A i \in JobIds : job'[i].state # "none" => i[2] \in DOMAIN escrow
        BY <2>2, <2>3 DEF InUse, TypeOK
      <3> QED
        BY <2>4, <2>5, <3>1 DEF InUse
    <2>11. Running'
      BY <2>2, <2>3, <2>7 DEF Running, TypeOK
    <2> QED
      BY <2>9, <2>10, <2>11
  <1> QED
    BY <1>3, <1>4, <1>5, <1>6, <1>7, <1>8, <1>9 DEF ServiceStep

-----------------------------------------------------------------------------
(* What is true of every job while a worker runs it.                       *)
LEMMA RunIsTyped ==
  ASSUME Typed, NEW j \in JobIds, run[j] # NoRun
  PROVE  /\ run[j] \in ProcessorRun
         /\ job[j] \in JobRecord
         /\ job[j].state = "active"
         /\ job[j].attempts < MaxAttempts
         /\ job[j].stalled <= MaxStalled
         /\ j[2] \in DOMAIN escrow
         /\ j[2] \in Escrows
  <1>1. run[j] \in ProcessorRun /\ job[j] \in JobRecord
    BY DEF Typed, TypeOK
  <1>2. job[j].state = "active"
    BY DEF Typed, Running
  <1> QED
    BY <1>1, <1>2 DEF Typed, Running, InUse, TypeOK

LEMMA NotNoRun ==
  ASSUME NEW j \in JobIds, NEW pc, At(j, pc), pc # "idle"
  PROVE  run[j] # NoRun
  BY DEF At, NoRun

(* A run goes on; the job stays active.                                    *)
LEMMA RunGoesOn ==
  ASSUME Typed, NEW j \in JobIds, run[j] # NoRun, NEW new \in ProcessorRun,
         run' = [run EXCEPT ![j] = new], UNCHANGED job
  PROVE  run' \in [JobIds -> {NoRun} \cup ProcessorRun] /\ Running'
  <1>1. new # NoRun
    BY DEF ProcessorRun, NoRun
  <1>2. \A i \in JobIds : run'[i] # NoRun <=> run[i] # NoRun
    BY <1>1 DEF Typed, TypeOK
  <1>3. run' \in [JobIds -> {NoRun} \cup ProcessorRun]
    BY DEF Typed, TypeOK
  <1>4. Running'
    BY <1>2 DEF Typed, Running
  <1> QED
    BY <1>3, <1>4

LEMMA GotoGoesOn ==
  ASSUME Typed, NEW j \in JobIds, run[j] # NoRun,
         NEW pc \in {"deploy", "fundCommit", "rollbackRead", "rollbackWrite", "markFailed",
                     "call", "tx", "txWrite", "notify"},
         Goto(j, pc), UNCHANGED job
  PROVE  run' \in [JobIds -> {NoRun} \cup ProcessorRun] /\ Running'
  <1>1. [run[j] EXCEPT !.pc = pc] \in ProcessorRun
    BY RunIsTyped DEF ProcessorRun
  <1>2. run' = [run EXCEPT ![j] = [run[j] EXCEPT !.pc = pc]]
    BY DEF Goto
  <1> QED
    BY <1>1, <1>2, RunGoesOn

(* A run ends; the job has another state and is not active any more.       *)
LEMMA RunIsOver ==
  ASSUME Typed, NEW j \in JobIds, run[j] # NoRun, UNCHANGED escrow,
         \/ End(j, Completed(job[j]))
         \/ End(j, Failed(job[j]))
         \/ End(j, Stalled(job[j]))
  PROVE  /\ run' \in [JobIds -> {NoRun} \cup ProcessorRun]
         /\ job' \in [JobIds -> JobRecord]
         /\ Running'
         /\ \A i \in JobIds : job'[i].state # "none" => i[2] \in DOMAIN escrow'
  <1> DEFINE Outcome == job'[j]
  <1>1. /\ job[j] \in JobRecord
        /\ job[j].attempts < MaxAttempts
        /\ job[j].stalled <= MaxStalled
        /\ j[2] \in DOMAIN escrow
    BY RunIsTyped
  <1>2. job[j].attempts \in Nat /\ job[j].stalled \in Nat
    BY <1>1 DEF JobRecord
  <1>3. /\ Completed(job[j]) \in JobRecord
        /\ Failed(job[j]) \in JobRecord
        /\ Stalled(job[j]) \in JobRecord
    BY <1>1, JobIsRecord
  <1>4. /\ Completed(job[j]).state = "completed"
        /\ Failed(job[j]).state \in {"waiting", "failed"}
        /\ Failed(job[j]).state = "waiting" =>
             /\ Failed(job[j]).attempts < MaxAttempts
             /\ Failed(job[j]).stalled <= MaxStalled
        /\ Stalled(job[j]).state \in {"waiting", "failed"}
        /\ Stalled(job[j]).state = "waiting" =>
             /\ Stalled(job[j]).attempts < MaxAttempts
             /\ Stalled(job[j]).stalled <= MaxStalled
    BY <1>1, <1>2, QueueAssumption DEF Completed, Failed, Stalled, JobRecord
  <1>5. run' = [run EXCEPT ![j] = NoRun] /\ job' = [job EXCEPT ![j] = Outcome]
    BY DEF End
  <1>6. /\ Outcome \in JobRecord
        /\ Outcome.state \in {"waiting", "completed", "failed"}
        /\ Outcome.state = "waiting" => Outcome.attempts < MaxAttempts /\ Outcome.stalled <= MaxStalled
    BY <1>3, <1>4 DEF End, Typed, TypeOK
  <1> HIDE DEF Outcome
  <1>7. run' \in [JobIds -> {NoRun} \cup ProcessorRun] /\ job' \in [JobIds -> JobRecord]
    BY <1>5, <1>6 DEF Typed, TypeOK
  <1>8. Running'
    BY <1>5, <1>6 DEF Typed, TypeOK, Running
  <1>9. \A i \in JobIds : job'[i].state # "none" => i[2] \in DOMAIN escrow'
    BY <1>1, <1>5 DEF Typed, TypeOK, InUse
  <1> QED
    BY <1>7, <1>8, <1>9

(* A worker takes a job.                                                   *)
LEMMA TakeTyped ==
  ASSUME Typed, UNCHANGED req, NEW j \in JobIds, NEW pc \in {"deploy", "call"}, Take(j, pc)
  PROVE  Typed'
  <1> DEFINE new == [pc |-> pc, contract |-> escrow[j[2]].contract, seenC |-> 0, seenF |-> 0]
  <1>1. /\ job[j] \in JobRecord
        /\ job[j].state = "waiting"
        /\ job[j].attempts < MaxAttempts
        /\ job[j].stalled <= MaxStalled
        /\ j[2] \in DOMAIN escrow
    BY DEF Take, Typed, TypeOK, Running, InUse
  <1>2. new \in ProcessorRun /\ new # NoRun
    BY <1>1, TotalIsNat DEF ProcessorRun, NoRun, EscrowRow, Typed
  <1>3. run' = [run EXCEPT ![j] = new]
    BY DEF Take
  <1>4. job' = [job EXCEPT ![j] = Started(job[j])]
    BY DEF Take
  <1>5. /\ Started(job[j]) \in JobRecord
        /\ Started(job[j]).state = "active"
        /\ Started(job[j]).attempts = job[j].attempts
        /\ Started(job[j]).stalled = job[j].stalled
    BY <1>1, JobIsRecord DEF Started, JobRecord
  <1>6. UNCHANGED <<balance, txn, chain, escrow, event, req>>
    BY DEF Take
  <1> HIDE DEF new
  <1>7. TypeOK'
    BY <1>2, <1>3, <1>4, <1>5, <1>6 DEF Typed, TypeOK
  <1>8. InUse'
    BY <1>1, <1>4, <1>6 DEF Typed, TypeOK, InUse
  <1>9. Running'
    BY <1>1, <1>2, <1>3, <1>4, <1>5 DEF Typed, TypeOK, Running
  <1> QED
    BY <1>7, <1>8, <1>9 DEF Typed

(* The parts of Typed that a step of a run does not touch.                 *)
LEMMA StoreUntouched ==
  ASSUME Typed, UNCHANGED <<req, escrow>>,
         balance' \in [Users -> BalanceRow],
         \A row \in txn' : IsEscrowRow(row) => row \in TxnRow,
         chain' \in Seq(Contract),
         event' \subseteq WebhookEvents \X Escrows,
         run' \in [JobIds -> {NoRun} \cup ProcessorRun],
         Running',
         \/ UNCHANGED job
         \/ /\ job' \in [JobIds -> JobRecord]
            /\ \A i \in JobIds : job'[i].state # "none" => i[2] \in DOMAIN escrow'
  PROVE  Typed'
  <1>1. TypeOK'
    BY DEF Typed, TypeOK
  <1>2. InUse'
    BY DEF Typed, InUse
  <1> QED
    BY <1>1, <1>2 DEF Typed

(* A versioned update of one row.                                          *)
LEMMA BalanceIsMoved ==
  ASSUME TypeOK, NEW u \in Users, NEW a \in Int, NEW b \in Int
  PROVE  [balance EXCEPT ![u] = Moved(balance[u], a, b)] \in [Users -> BalanceRow]
  BY RowIsMoved DEF TypeOK

LEMMA ChainIsTyped ==
  ASSUME TypeOK
  PROVE  /\ Len(chain) \in Nat
         /\ \A e \in Escrows : Deployed(e) \in Seq(Contract)
         /\ \A c : \A kind \in SettlementKinds : Settled(c, kind) \in Seq(Contract)
  <1>1. chain \in Seq(Contract)
    BY DEF TypeOK
  <1>2. ASSUME NEW e \in Escrows
        PROVE  Deployed(e) \in Seq(Contract)
    BY <1>1 DEF Deployed, Contract
  <1>3. ASSUME NEW c, NEW kind \in SettlementKinds
        PROVE  Settled(c, kind) \in Seq(Contract)
    <2>1. CASE c \in DOMAIN chain
      <3>1. chain[c] \in Contract
        BY <1>1, <2>1
      <3>2. [chain[c] EXCEPT !.state = kind] \in Contract
        BY <3>1 DEF Contract
      <3> QED
        BY <1>1, <2>1, <3>2, ExceptSeq DEF Settled
    <2>2. CASE c \notin DOMAIN chain
      <3>1. \A x : [chain EXCEPT ![c] = x] = chain
        BY <1>1, <2>2
      <3> QED
        BY <1>1, <3>1 DEF Settled
    <2> QED
      BY <2>1, <2>2
  <1> QED
    BY <1>1, <1>2, <1>3

(* The balances after a lock is given back, and after it is paid out.      *)
LEMMA GivenBackTyped ==
  ASSUME TypeOK, NEW e \in DOMAIN escrow
  PROVE  GivenBack(e) \in [Users -> BalanceRow]
  <1>1. escrow[e].client \in Users /\ Total(e) \in Int /\ -Total(e) \in Int
    BY TotalIsNat
  <1> QED
    BY <1>1, BalanceIsMoved DEF GivenBack

LEMMA PaidOutTyped ==
  ASSUME TypeOK, NEW e \in DOMAIN escrow
  PROVE  PaidOut(e) \in [Users -> BalanceRow]
  <1> DEFINE c == escrow[e].client
             f == escrow[e].freelancer
             paid == [balance EXCEPT ![f] = Moved(balance[f], escrow[e].amount, 0)]
  <1>1. c \in Users /\ f \in Users /\ escrow[e].amount \in Int /\ -Total(e) \in Int
    BY TotalIsNat
  <1>2. paid \in [Users -> BalanceRow]
    BY <1>1, BalanceIsMoved
  <1>3. Moved(balance[c], 0, -Total(e)) \in BalanceRow
    <2>1. balance[c] \in BalanceRow
      BY <1>1 DEF TypeOK
    <2> QED
      BY <1>1, <2>1, RowIsMoved
  <1>4. PaidOut(e) = [paid EXCEPT ![c] = Moved(balance[c], 0, -Total(e))]
    BY DEF PaidOut
  <1> HIDE DEF paid
  <1> QED
    BY <1>1, <1>2, <1>3, <1>4

LEMMA FundTyped ==
  ASSUME Typed, UNCHANGED req, NEW e \in Escrows, FundStep(e)
  PROVE  Typed'
  <1> DEFINE j == <<"fund", e>>
  <1>0. j \in JobIds /\ j[1] = "fund" /\ j[2] = e
    BY DEF JobIds, JobKinds
  <1>1. CASE FundStart(e)
    BY <1>0, <1>1, TakeTyped DEF FundStart
  <1>2. CASE FundDeploy(e)
    <2>1. run[j] # NoRun
      BY <1>0, <1>2, NotNoRun DEF FundDeploy
    <2>2. chain' \in Seq(Contract) /\ Len(chain) \in Nat
      BY <1>2, ChainIsTyped DEF FundDeploy, Typed, TypeOK
    <2>3. run' \in [JobIds -> {NoRun} \cup ProcessorRun] /\ Running'
      <3>1. CASE Goto(j, "rollbackRead")
        BY <1>0, <1>2, <2>1, <3>1, GotoGoesOn DEF FundDeploy
      <3>2. CASE run' = [run EXCEPT ![j].pc = "fundCommit", ![j].contract = Len(chain) + 1]
        <4>1. [run[j] EXCEPT !.pc = "fundCommit", !.contract = Len(chain) + 1] \in ProcessorRun
          <5>1. run[j] \in ProcessorRun /\ Len(chain) + 1 \in Nat
            BY <1>0, <2>1, <2>2, RunIsTyped
          <5> QED
            BY <5>1 DEF ProcessorRun
        <4>2. UNCHANGED job
          BY <1>2 DEF FundDeploy
        <4> HIDE DEF j
        <4>3. run' = [run EXCEPT ![j] = [run[j] EXCEPT !.pc = "fundCommit",
                                                       !.contract = Len(chain) + 1]]
          BY <3>2
        <4> QED
          BY <1>0, <2>1, <4>1, <4>2, <4>3, RunGoesOn
      <3> QED
        BY <1>2, <3>1, <3>2 DEF FundDeploy
    <2> QED
      BY <1>2, <2>2, <2>3, StoreUntouched DEF FundDeploy, Typed, TypeOK
  <1>3. CASE FundCommit(e)
    <2>1. run[j] # NoRun
      BY <1>0, <1>3, NotNoRun DEF FundCommit
    <2>2. run[j] \in ProcessorRun /\ e \in DOMAIN escrow
      BY <1>0, <2>1, RunIsTyped
    <2>3. run' \in [JobIds -> {NoRun} \cup ProcessorRun] /\ Running'
      BY <1>0, <1>3, <2>1, GotoGoesOn DEF FundCommit
    <2>4. run[j].contract \in Nat
      BY <2>2 DEF ProcessorRun
    <2>5. \A row \in txn' : IsEscrowRow(row) => row \in TxnRow
      BY <1>3, <2>4, MarkedRowsAreRows DEF FundCommit, Typed, TransactionStatus
    <2>6. DOMAIN escrow' = DOMAIN escrow /\ escrow' \in [DOMAIN escrow' -> EscrowRow]
      <3>1. [escrow[e] EXCEPT !.status = "FUNDED", !.contract = run[j].contract] \in EscrowRow
        BY <2>2, <2>4, TotalIsNat DEF EscrowRow, EscrowStatus, Typed
      <3>2. escrow' = [escrow EXCEPT ![e] = [escrow[e] EXCEPT !.status = "FUNDED",
                                                              !.contract = run[j].contract]]
        BY <1>3 DEF FundCommit, Funded
      <3> QED
        BY <3>1, <3>2 DEF Typed, TypeOK
    <2>7. UNCHANGED <<balance, chain, job, event, req>>
      BY <1>3 DEF FundCommit
    <2>8. TypeOK'
      BY <2>3, <2>5, <2>6, <2>7 DEF Typed, TypeOK
    <2>9. InUse'
      BY <2>6, <2>7 DEF Typed, InUse
    <2> QED
      BY <2>3, <2>8, <2>9 DEF Typed
  <1>4. CASE FundThrows(e)
    <2>1. run[j] # NoRun
      BY <1>0, <1>4, NotNoRun DEF FundThrows
    <2>2. run' \in [JobIds -> {NoRun} \cup ProcessorRun] /\ Running'
      BY <1>0, <1>4, <2>1, GotoGoesOn DEF FundThrows
    <2> QED
      BY <1>4, <2>2, StoreUntouched DEF FundThrows, Typed, TypeOK
  <1>5. CASE RollbackRead(e)
    <2>1. run[j] # NoRun
      BY <1>0, <1>5, NotNoRun DEF RollbackRead
    <2>2. run[j] \in ProcessorRun /\ e \in DOMAIN escrow
      BY <1>0, <2>1, RunIsTyped
    <2> DEFINE version == balance[escrow[e].client].version
    <2>3. version \in Nat
      BY <2>2, TotalIsNat DEF Typed, TypeOK, BalanceRow
    <2>4. [run[j] EXCEPT !.pc = "rollbackWrite", !.seenC = version] \in ProcessorRun
      BY <2>2, <2>3 DEF ProcessorRun
    <2>5. /\ run' = [run EXCEPT ![j] = [run[j] EXCEPT !.pc = "rollbackWrite", !.seenC = version]]
          /\ UNCHANGED <<balance, txn, chain, escrow, job, event>>
      BY <1>5 DEF RollbackRead
    <2>6. run' \in [JobIds -> {NoRun} \cup ProcessorRun] /\ Running'
      BY <1>0, <2>1, <2>4, <2>5, RunGoesOn
    <2> QED
      BY <2>5, <2>6, StoreUntouched DEF Typed, TypeOK
  <1>6. CASE RollbackWrite(e)
    <2>1. run[j] # NoRun
      BY <1>0, <1>6, NotNoRun DEF RollbackWrite
    <2>2. e \in DOMAIN escrow
      BY <1>0, <2>1, RunIsTyped
    <2>3. run' \in [JobIds -> {NoRun} \cup ProcessorRun] /\ Running'
      BY <1>0, <1>6, <2>1, GotoGoesOn DEF RollbackWrite
    <2>4. balance' \in [Users -> BalanceRow]
      BY <1>6, <2>2, GivenBackTyped DEF RollbackWrite, Typed, TypeOK
    <2> QED
      BY <1>6, <2>3, <2>4, StoreUntouched DEF RollbackWrite, Typed, TypeOK
  <1>7. CASE MarkFailed(e)
    <2>1. run[j] # NoRun
      BY <1>0, <1>7, NotNoRun DEF MarkFailed
    <2>2. \A row \in txn' : IsEscrowRow(row) => row \in TxnRow
      BY <1>7, MarkedRowsAreRows DEF MarkFailed, Typed, TransactionStatus
    <2>3. /\ run' \in [JobIds -> {NoRun} \cup ProcessorRun]
          /\ job' \in [JobIds -> JobRecord]
          /\ Running'
          /\ \A i \in JobIds : job'[i].state # "none" => i[2] \in DOMAIN escrow'
      BY <1>0, <1>7, <2>1, RunIsOver DEF MarkFailed
    <2> QED
      BY <1>7, <2>2, <2>3, StoreUntouched DEF MarkFailed, Typed, TypeOK
  <1>8. CASE CatchThrows(e)
    <2>1. run[j] # NoRun
      BY <1>8 DEF CatchThrows, NoRun
    <2>2. /\ run' \in [JobIds -> {NoRun} \cup ProcessorRun]
          /\ job' \in [JobIds -> JobRecord]
          /\ Running'
          /\ \A i \in JobIds : job'[i].state # "none" => i[2] \in DOMAIN escrow'
      BY <1>0, <1>8, <2>1, RunIsOver DEF CatchThrows
    <2> QED
      BY <1>8, <2>2, StoreUntouched DEF CatchThrows, Typed, TypeOK
  <1> QED
    BY <1>1, <1>2, <1>3, <1>4, <1>5, <1>6, <1>7, <1>8 DEF FundStep

LEMMA SettleTyped ==
  ASSUME Typed, UNCHANGED req, NEW kind \in SettlementKinds, NEW e \in Escrows,
         SettleStep(kind, e)
  PROVE  Typed'
  <1> DEFINE j == <<kind, e>>
  <1>0. j \in JobIds /\ j[1] = kind /\ j[2] = e
    BY DEF JobIds, JobKinds
  <1>1. CASE SettleStart(kind, e)
    BY <1>0, <1>1, TakeTyped DEF SettleStart
  <1>2. CASE SettleCall(kind, e)
    <2>1. run[j] # NoRun
      BY <1>0, <1>2, NotNoRun DEF SettleCall
    <2>2. chain' \in Seq(Contract)
      BY <1>2, ChainIsTyped DEF SettleCall, Typed
    <2>3. CASE Goto(j, "tx") /\ job' = job
      <3>1. run' \in [JobIds -> {NoRun} \cup ProcessorRun] /\ Running'
        BY <1>0, <2>1, <2>3, GotoGoesOn
      <3> QED
        BY <1>2, <2>2, <2>3, <3>1, StoreUntouched DEF SettleCall, Typed, TypeOK
    <2>4. CASE End(j, Failed(job[j]))
      <3>1. /\ run' \in [JobIds -> {NoRun} \cup ProcessorRun]
            /\ job' \in [JobIds -> JobRecord]
            /\ Running'
            /\ \A i \in JobIds : job'[i].state # "none" => i[2] \in DOMAIN escrow'
        BY <1>0, <1>2, <2>1, <2>4, RunIsOver DEF SettleCall
      <3> QED
        BY <1>2, <2>2, <3>1, StoreUntouched DEF SettleCall, Typed, TypeOK
    <2> QED
      BY <1>2, <2>3, <2>4 DEF SettleCall
  <1>3. CASE SettleRefused(kind, e) \/ SettleThrows(kind, e)
    <2>1. run[j] # NoRun
      BY <1>3 DEF SettleRefused, SettleThrows, At, NoRun
    <2>2. End(j, Failed(job[j])) /\ UNCHANGED <<balance, txn, chain, escrow, event>>
      BY <1>3 DEF SettleRefused, SettleThrows
    <2>3. /\ run' \in [JobIds -> {NoRun} \cup ProcessorRun]
          /\ job' \in [JobIds -> JobRecord]
          /\ Running'
          /\ \A i \in JobIds : job'[i].state # "none" => i[2] \in DOMAIN escrow'
      BY <1>0, <2>1, <2>2, RunIsOver
    <2> QED
      BY <2>2, <2>3, StoreUntouched DEF Typed, TypeOK
  <1>4. CASE SettleRead(kind, e)
    <2>1. run[j] # NoRun
      BY <1>0, <1>4, NotNoRun DEF SettleRead
    <2>2. run[j] \in ProcessorRun /\ e \in DOMAIN escrow
      BY <1>0, <2>1, RunIsTyped
    <2> DEFINE vC == balance[escrow[e].client].version
               vF == balance[escrow[e].freelancer].version
    <2>3. vC \in Nat /\ vF \in Nat
      BY <2>2, TotalIsNat DEF Typed, TypeOK, BalanceRow
    <2>4. [run[j] EXCEPT !.pc = "txWrite", !.seenC = vC, !.seenF = vF] \in ProcessorRun
      BY <2>2, <2>3 DEF ProcessorRun
    <2>5. /\ run' = [run EXCEPT ![j] = [run[j] EXCEPT !.pc = "txWrite",
                                                     !.seenC = vC, !.seenF = vF]]
          /\ UNCHANGED <<balance, txn, chain, escrow, job, event>>
      BY <1>4 DEF SettleRead
    <2>6. run' \in [JobIds -> {NoRun} \cup ProcessorRun] /\ Running'
      BY <1>0, <2>1, <2>4, <2>5, RunGoesOn
    <2> QED
      BY <2>5, <2>6, StoreUntouched DEF Typed, TypeOK
  <1>5. ASSUME At(j, "txWrite"), Goto(j, "notify"), UNCHANGED <<chain, job, event>>,
               balance' \in [Users -> BalanceRow],
               txn' = txn \cup {SettlementRow(kind, e, run[j].contract)},
               NEW status \in {"RELEASED", "REFUNDED"},
               escrow' = [escrow EXCEPT ![e].status = status]
        PROVE  Typed'
    <2>1. run[j] # NoRun
      BY <1>0, <1>5, NotNoRun
    <2>2. run[j] \in ProcessorRun /\ e \in DOMAIN escrow
      BY <1>0, <2>1, RunIsTyped
    <2>3. run' \in [JobIds -> {NoRun} \cup ProcessorRun] /\ Running'
      BY <1>0, <1>5, <2>1, GotoGoesOn
    <2>4. \A row \in txn' : IsEscrowRow(row) => row \in TxnRow
      <3>1. SettlementRow(kind, e, run[j].contract) \in TxnRow
        BY <2>2, SettlementRowIsRow DEF Typed, ProcessorRun
      <3> QED
        BY <1>5, <3>1 DEF Typed, TypeOK
    <2>5. DOMAIN escrow' = DOMAIN escrow /\ escrow' \in [DOMAIN escrow' -> EscrowRow]
      <3>1. [escrow[e] EXCEPT !.status = status] \in EscrowRow
        BY <2>2, TotalIsNat DEF EscrowRow, EscrowStatus, Typed
      <3> QED
        BY <1>5, <3>1 DEF Typed, TypeOK
    <2>6. TypeOK'
      BY <1>5, <2>3, <2>4, <2>5 DEF Typed, TypeOK
    <2>7. InUse'
      BY <1>5, <2>5 DEF Typed, InUse
    <2> QED
      BY <2>3, <2>6, <2>7 DEF Typed
  <1>6. ASSUME kind = "release", ReleaseCommit(e)
        PROVE  Typed'
    <2>1. e \in DOMAIN escrow
      BY <1>0, <1>6, RunIsTyped, NotNoRun DEF ReleaseCommit
    <2>2. balance' \in [Users -> BalanceRow]
      BY <1>6, <2>1, PaidOutTyped DEF ReleaseCommit, Typed
    <2> QED
      BY <1>5, <1>6, <2>2 DEF ReleaseCommit, Marked, Booking
  <1>7. ASSUME kind = "refund", RefundCommit(e)
        PROVE  Typed'
    <2>1. e \in DOMAIN escrow
      BY <1>0, <1>7, RunIsTyped, NotNoRun DEF RefundCommit
    <2>2. balance' \in [Users -> BalanceRow]
      BY <1>7, <2>1, GivenBackTyped DEF RefundCommit, Typed
    <2> QED
      BY <1>5, <1>7, <2>2 DEF RefundCommit, Marked, Booking
  <1> QED
    BY <1>1, <1>2, <1>3, <1>4, <1>6, <1>7 DEF SettleStep

LEMMA EndTyped ==
  ASSUME Typed, UNCHANGED req, NEW j \in JobIds, Notify(j) \/ WorkerCrash(j)
  PROVE  Typed'
  <1>1. run[j] # NoRun
    BY NotNoRun DEF Notify, WorkerCrash
  <1>2. /\ run' \in [JobIds -> {NoRun} \cup ProcessorRun]
        /\ job' \in [JobIds -> JobRecord]
        /\ Running'
        /\ \A i \in JobIds : job'[i].state # "none" => i[2] \in DOMAIN escrow'
    BY <1>1, RunIsOver DEF Notify, WorkerCrash
  <1>3. event' \subseteq WebhookEvents \X Escrows
    <2>1. j[1] \in JobKinds /\ j[2] \in Escrows
      BY DEF JobIds
    <2>2. EventName[j[1]] \in WebhookEvents
      BY <2>1 DEF EventName, JobKinds, SettlementKinds, WebhookEvents
    <2> QED
      BY <2>1, <2>2 DEF Notify, WorkerCrash, EventSent, Typed, TypeOK
  <1> QED
    BY <1>2, <1>3, StoreUntouched DEF Notify, WorkerCrash, Typed, TypeOK

LEMMA NextTyped == Typed /\ [Next]_vars => Typed'
  <1> SUFFICES ASSUME Typed, [Next]_vars PROVE Typed'
    OBVIOUS
  <1>1. CASE ServiceNext /\ UNCHANGED run
    BY <1>1, CreateTyped, RequestsTyped DEF ServiceNext
  <1>2. CASE ProcessorNext /\ UNCHANGED req
    <2> PICK j \in JobIds : JobStep(j) \/ WorkerCrash(j)
      BY <1>2 DEF ProcessorNext
    <2>1. j[2] \in Escrows
      BY DEF JobIds
    <2>2. CASE j[1] = "fund" /\ FundStep(j[2])
      BY <1>2, <2>1, <2>2, FundTyped
    <2>3. CASE j[1] \in SettlementKinds /\ SettleStep(j[1], j[2])
      BY <1>2, <2>1, <2>3, SettleTyped
    <2>4. CASE Notify(j) \/ WorkerCrash(j)
      BY <1>2, <2>4, EndTyped
    <2> QED
      BY <2>2, <2>3, <2>4 DEF JobStep
  <1>3. CASE UNCHANGED vars
    BY <1>3 DEF vars, storeVars, Typed, TypeOK, InUse, Running
  <1> QED
    BY <1>1, <1>2, <1>3 DEF Next

(* Every reachable state of the tables, the queue, the contracts and the   *)
(* processes is one the schema and the code allow; no request or job is    *)
(* about an escrow that does not exist, and no job exceeds its attempts.   *)
THEOREM TypeCorrect == Spec => []TypeOK
  <1>1. Typed => TypeOK
    BY DEF Typed
  <1> QED
    BY <1>1, InitTyped, NextTyped, PTL DEF Spec
=============================================================================
