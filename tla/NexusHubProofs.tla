-------------------------- MODULE NexusHubProofs --------------------------
(***************************************************************************)
(* Theorems about the hub: escrows and payments share the balances and the *)
(* transactions tables, and neither breaks the invariant of the other.     *)
(***************************************************************************)
EXTENDS NexusHub, EscrowSafetyProofs, PaymentProofs

(* The escrow side inserts and updates rows of its own types only.         *)
LEMMA PaymentRowsStay ==
  ASSUME TxnEffect
  PROVE  \A row : IsPayment(row) => (row \in txn' <=> row \in txn)
  <1>1. ASSUME NEW k, NEW e, NEW u, NEW a, txn' = txn \cup {LockRow(k, e, u, a)}
        PROVE  \A row : IsPayment(row) => (row \in txn' <=> row \in txn)
    <2>1. ~IsPayment(LockRow(k, e, u, a))
      BY DEF IsPayment, LockRow
    <2> QED
      BY <1>1, <2>1
  <1>2. ASSUME NEW e, NEW status, NEW c, txn' = LocksMarked(e, status, c)
        PROVE  \A row : IsPayment(row) => (row \in txn' <=> row \in txn)
    <2>1. \A row \in txn : IsPayment(row) => row \in txn'
      BY <1>2 DEF LocksMarked, IsPayment
    <2>2. ASSUME NEW row \in txn', IsPayment(row) PROVE row \in txn
      <3>1. PICK old \in txn :
              row = IF old.type = "ESCROW_LOCK" /\ old.escrow = e /\ old.status = "PENDING"
                      THEN [old EXCEPT !.status = status, !.reference = c]
                      ELSE old
        BY <1>2 DEF LocksMarked
      <3> QED
        BY <2>2, <3>1 DEF IsPayment
    <2> QED
      BY <2>1, <2>2
  <1>3. ASSUME NEW kind, NEW e, txn' = Booking(kind, e)
        PROVE  \A row : IsPayment(row) => (row \in txn' <=> row \in txn)
    <2>1. ~IsPayment(SettlementRow(kind, e, run[<<kind, e>>].contract))
      BY DEF IsPayment, SettlementRow
    <2> QED
      BY <1>3, <2>1 DEF Booking
  <1> QED
    BY <1>1, <1>2, <1>3 DEF TxnEffect

LEMMA EscrowKeepsPayments ==
  ASSUME HubInv, Next, UNCHANGED paymentVars
  PROVE  PaymentsInv'
  <1>1. IInv /\ IInv' /\ BalanceKept /\ TxnEffect
    BY NextKeeps DEF HubInv, Effects
  <1>2. /\ PaymentTypeOK /\ KeysUnique /\ RecordedFirst /\ PaymentsRunning
        /\ DebitSound /\ BackedByAirtm /\ PaymentsTruthful
        /\ UNCHANGED <<pjob, pevent, payout, deposit, notified, preq, prun>>
    BY DEF HubInv, PaymentsInv, paymentVars
  <1>3. /\ balance' \in [Users -> BalanceRow] /\ NobodyOverdrawn'
        /\ KeysUnique'
    BY <1>1 DEF IInv, TypeOK, NoOverdraft, NobodyOverdrawn, Booked, KeysUnique
  <1>4. \A row : IsPayment(row) => (row \in txn' <=> row \in txn)
    BY <1>1, PaymentRowsStay
  <1>5. \A k : \A type \in PaymentTypes : HasRow(k, type)' <=> HasRow(k, type)
    BY <1>4 DEF HasRow, IsPayment, PaymentTypes
  <1>6. PaymentTypeOK'
    BY <1>2, <1>3, <1>4 DEF PaymentTypeOK
  <1>7. RecordedFirst'
    <2>1. \A j \in PaymentJobs : pjob'[j].state # "none" => HasRow(j[2], RowType(j))'
      BY <1>2, <1>5, JobKind DEF RecordedFirst
    <2>2. ASSUME NEW r \in Callers, CallAt(r, "add")'
          PROVE  HasRow(preq[r].job[2], RowType(preq[r].job))'
      <3>1. CallAt(r, "add") /\ preq'[r] = preq[r]
        BY <1>2, <2>2 DEF CallAt
      <3>2. preq[r].job \in PaymentJobs
        BY <1>2, <3>1, CallIsTyped DEF CallAt
      <3>3. HasRow(preq[r].job[2], RowType(preq[r].job))
        BY <1>2, <3>1 DEF RecordedFirst
      <3>4. PICK j \in PaymentJobs : j = preq[r].job
        BY <3>2
      <3>5. HasRow(j[2], RowType(j))'
        BY <1>5, <3>3, <3>4, JobKind
      <3> QED
        BY <3>1, <3>4, <3>5
    <2>3. \A k \in Keys : deposit'[k] # "none" => HasRow(k, "TOPUP")'
      BY <1>2, <1>5 DEF RecordedFirst, PaymentTypes
    <2> QED
      BY <2>1, <2>2, <2>3 DEF RecordedFirst, RowType
  <1>8. DebitSound'
    <2> SUFFICES ASSUME NEW r \in Callers, CallAt(r, "debitWrite")'
                 PROVE  /\ preq'[r].job[1] = "withdraw"
                        /\ preq'[r].seen <= balance'[preq'[r].user].version
                        /\ preq'[r].seen = balance'[preq'[r].user].version =>
                             balance'[preq'[r].user].available >= preq'[r].amount
      BY DEF DebitSound
    <2>1. CallAt(r, "debitWrite") /\ preq'[r] = preq[r]
      BY <1>2 DEF CallAt
    <2>2. PICK u \in Users, seen \in Nat, a \in Nat :
            u = preq[r].user /\ seen = preq[r].seen /\ a = preq[r].amount
      BY <1>2, <2>1, CallIsTyped DEF CallAt
    <2>3. /\ preq[r].job[1] = "withdraw" /\ seen <= balance[u].version
          /\ seen = balance[u].version => balance[u].available >= a
      BY <1>2, <2>1, <2>2 DEF DebitSound
    <2>4. /\ balance[u].version \in Nat /\ balance'[u].version \in Nat
          /\ balance'[u] = balance[u] \/ balance'[u].version > balance[u].version
      BY <1>1, <1>2, <1>3 DEF PaymentTypeOK, BalanceRow, BalanceKept
    <2> QED
      BY <2>1, <2>2, <2>3, <2>4
  <1>9. PaymentsTruthful'
    <2>1. \A k \in Keys : payout'[k] > 0 => HasRow(k, "WITHDRAWAL")'
      BY <1>2, <1>5 DEF PaymentsTruthful, PaymentTypes
    <2>2. \A row \in txn' : row.type = "WITHDRAWAL" /\ row.status = "COMPLETED" =>
            payout'[row.key] > 0
      BY <1>2, <1>4 DEF PaymentsTruthful, IsPayment
    <2> QED
      BY <1>2, <2>1, <2>2 DEF PaymentsTruthful
  <1>10. PaymentsRunning' /\ BackedByAirtm'
    BY <1>2 DEF PaymentsRunning, BackedByAirtm, RunAt, CallAt
  <1> QED
    BY <1>3, <1>6, <1>7, <1>8, <1>9, <1>10 DEF PaymentsInv

(* And the payments side writes payments only.                             *)
LEMMA EscrowRowsStay ==
  ASSUME RowsEffect
  PROVE  \A row : IsEscrowRow(row) => (row \in txn' <=> row \in txn)
  <1>1. CASE Inserted
    <2>1. PICK k \in Keys, type \in PaymentTypes, u \in Users, a \in PaymentAmounts :
            txn' = txn \cup {NewPayment(k, type, u, a)}
      BY <1>1 DEF Inserted
    <2>2. ~IsEscrowRow(NewPayment(k, type, u, a))
      BY NewPaymentIsRow DEF IsEscrowRow, IsSettlement, PaymentTypes
    <2> QED
      BY <2>1, <2>2
  <1>2. CASE \E old, new : Replaced(old, new)
    <2>1. PICK old, new : Replaced(old, new)
      BY <1>2
    <2>2. ~IsEscrowRow(old) /\ ~IsEscrowRow(new)
      BY <2>1 DEF Replaced, PaymentRow, IsEscrowRow, IsSettlement
    <2> QED
      BY <2>1, <2>2 DEF Replaced
  <1> QED
    BY <1>1, <1>2 DEF RowsEffect

LEMMA PaymentsKeepEscrows ==
  ASSUME HubInv, PaymentsNext, UNCHANGED escrowVars
  PROVE  IInv'
  <1>1. /\ PaymentsInv /\ PaymentsInv' /\ RowsEffect /\ MoneyEffect
    BY PaymentsEffects, EffectsKeep DEF HubInv, PaymentEffects
  <1>2. /\ TypeOK /\ InUse /\ Running /\ TwoParties /\ SettlesDeployed
        /\ SnapshotSound /\ ContractsOwned /\ Booked
        /\ UNCHANGED <<chain, escrow, job, event, req, run>>
    BY DEF HubInv, IInv, escrowVars
  <1>3. \A row : IsEscrowRow(row) => (row \in txn' <=> row \in txn)
    BY <1>1, EscrowRowsStay
  <1>4. /\ balance' \in [Users -> BalanceRow] /\ NoOverdraft'
        /\ \A u \in Users : \/ balance'[u] = balance[u]
                            \/ balance'[u].version = balance[u].version + 1
    BY <1>1, MoneyStays DEF PaymentsInv, PaymentTypeOK, NobodyOverdrawn, NoOverdraft
  <1>5. TypeOK'
    BY <1>2, <1>3, <1>4 DEF TypeOK
  <1>6. Booked'
    BY <1>1, <1>2, <1>3
    DEF PaymentsInv, KeysUnique, Booked, IsEscrowRow, IsSettlement, OwnContract, SettlementKey
  <1>7. SnapshotSound'
    <2> SUFFICES ASSUME NEW q \in Requests, req'[q].pc = "lockWrite",
                        NEW e, e = req'[q].escrow
                 PROVE  /\ req'[q].seen <= balance'[escrow'[e].client].version
                        /\ req'[q].seen = balance'[escrow'[e].client].version =>
                             balance'[escrow'[e].client].available >= Total(e)'
      BY DEF SnapshotSound
    <2>1. req'[q] = req[q] /\ req[q] # Idle
      BY <1>2 DEF Idle
    <2>2. e = req[q].escrow /\ e \in DOMAIN escrow /\ req[q].seen \in Nat
      BY <1>2, <2>1, RequestIsTyped DEF Typed, ServiceRequest
    <2>3. PICK u \in Users : u = escrow[e].client /\ escrow'[e].client = u
      BY <1>2, <2>2, TotalIsNat DEF Typed
    <2>4. Total(e)' = Total(e)
      BY <1>2 DEF Total
    <2>5. /\ req[q].seen <= balance[u].version
          /\ req[q].seen = balance[u].version => balance[u].available >= Total(e)
      BY <1>2, <2>1, <2>2, <2>3 DEF SnapshotSound
    <2>6. balance[u].version \in Nat /\ balance'[u].version \in Nat
      BY <1>2, <1>4 DEF TypeOK, BalanceRow
    <2> QED
      BY <1>4, <2>1, <2>2, <2>3, <2>4, <2>5, <2>6
  <1>8. InUse' /\ Running' /\ TwoParties' /\ SettlesDeployed' /\ ContractsOwned'
    BY <1>2
    DEF InUse, Running, TwoParties, SettlesDeployed, ContractsOwned, OwnContract
  <1> QED
    BY <1>4, <1>5, <1>6, <1>7, <1>8 DEF IInv

LEMMA HubInitInv == HubInit => HubInv
  <1>1. Init => PaymentsInit \/ ~InitPayments
    BY DEF Init, InitEscrowStore, PaymentsInit
  <1> QED
    BY <1>1, InitIInv, InitPaymentsInv DEF HubInit, HubInv

LEMMA HubStays == HubInv /\ [HubNext]_hubVars => HubInv'
  <1> SUFFICES ASSUME HubInv, [HubNext]_hubVars PROVE HubInv'
    OBVIOUS
  <1>1. CASE Next /\ UNCHANGED paymentVars
    BY <1>1, NextKeeps, EscrowKeepsPayments DEF HubInv
  <1>2. CASE PaymentsNext /\ UNCHANGED escrowVars
    BY <1>2, PaymentsEffects, EffectsKeep, PaymentsKeepEscrows DEF HubInv
  <1>3. CASE UNCHANGED hubVars
    BY <1>3, NextIInv, NextPaymentsInv
    DEF HubInv, hubVars, escrowVars, paymentVars, vars, storeVars, payVars
  <1> QED
    BY <1>1, <1>2, <1>3 DEF HubNext

(* On the shared tables both components keep their invariants, whichever   *)
(* requests, jobs, callbacks and failures of the two interleave.           *)
THEOREM HubInvariant == HubSpec => []HubInv
  BY HubInitInv, HubStays, PTL DEF HubSpec

(* Escrow locks and withdrawals together cannot spend more than a user has *)
(* available.                                                              *)
THEOREM HubNeverOverdrawn == HubSpec => []NoOverdraft
  <1>1. HubInv => NoOverdraft
    BY DEF HubInv, IInv
  <1> QED
    BY <1>1, HubInvariant, PTL

(* No contract is paid out twice while payments use the same tables.       *)
THEOREM HubPaidOnce == HubSpec => []PaidOncePerContract
  <1>1. HubInv => PaidOncePerContract
    BY BookedOnce DEF HubInv
  <1> QED
    BY <1>1, HubInvariant, PTL

-----------------------------------------------------------------------------
(* Every debit has a key of its own. *)

LEMMA PaidInGains ==
  ASSUME PaymentsInv, NEW k, NEW type \in PaymentTypes, HasRow(k, type), balance' = PaidIn(k),
         NEW u \in Users
  PROVE  balance'[u].available >= balance[u].available
  <1>1. PICK v \in Users, a \in Nat : v = Payment(k).user /\ a = Payment(k).amount
    BY PaymentIsFound, InvParts
  <1>2. balance' = [balance EXCEPT ![v] = Moved(balance[v], a, 0)]
    BY <1>1 DEF PaidIn
  <1>3. balance \in [Users -> BalanceRow]
    BY InvParts DEF PaymentTypeOK
  <1>4. Moved(balance[v], a, 0).available = balance[v].available + a
    BY DEF Moved
  <1>5. balance[u].available \in Int /\ balance[v].available \in Int
    BY <1>3 DEF BalanceRow
  <1>6. balance'[v] = Moved(balance[v], a, 0) /\ (u # v => balance'[u] = balance[u])
    BY <1>2, <1>3
  <1>7. CASE u = v
    BY <1>4, <1>5, <1>6, <1>7
  <1> QED
    BY <1>5, <1>6, <1>7

LEMMA WithdrawalsDebit ==
  ASSUME PaymentsInv, PaymentsNext, NEW u \in Users,
         balance'[u].available < balance[u].available
  PROVE  NewDebit(u)
  <1>1. ~(balance'[u].available >= balance[u].available) /\ ~UNCHANGED balance
    <2>1. balance[u].available \in Int /\ balance'[u].available \in Int
      BY PaymentsEffects, EffectsKeep, InvParts DEF PaymentTypeOK, BalanceRow, PaymentsInv
    <2> QED
      BY <2>1
  <1>2. ~ProcessorsNext \/ ~UNCHANGED preq
    <2> SUFFICES ASSUME ProcessorsNext, UNCHANGED preq PROVE FALSE
      OBVIOUS
    <2>1. PICK j \in PaymentJobs : PaymentStep(j) \/ PaymentCrash(j)
      BY DEF ProcessorsNext
    <2>2. j[2] \in Keys
      BY JobKind
    <2>3. ASSUME NEW k \in Keys PROVE ~RestoreWrite(k)
      BY <1>1, RestoreWriteEffects, PaidInGains DEF RestoreWrite, PaymentTypes
    <2>4. ~CreditWrite(j)
      BY <1>1, CreditWriteEffects, PaidInGains DEF CreditWrite, PaymentTypes
    <2>5. ~SessionStep(j[2])
      BY <1>1 DEF SessionStep, CreateSession, SaveSession, FailTopup
    <2>6. ~WithdrawalStep(j[2])
      BY <1>1, <2>2, <2>3
      DEF WithdrawalStep, Pay, MarkPaid, PayThrows, RestoreRead, ReadBalance
    <2> QED
      BY <1>1, <2>1, <2>4, <2>5, <2>6
      DEF PaymentStep, PaymentCrash, PaymentStart, CreditRead, ReadBalance, AttemptThrows,
          NotifyPayment
  <1>3. PICK r \in Callers : DebitWrite(r) /\ UNCHANGED prun
    BY <1>1, <1>2
    DEF PaymentsNext, AirtmNext, ServicesNext, CallStep, Withdraw, Topup, Callback,
        DebitConflict, AddJob, CallAborted
  <1>4. PICK k \in Keys, v \in Users, a \in PaymentAmounts :
          k = preq[r].job[2] /\ v = preq[r].user /\ a = preq[r].amount
    BY <1>3, DebitEffects
  <1>5. balance' = [balance EXCEPT ![v] = Moved(balance[v], -a, 0)]
    BY <1>3, <1>4 DEF DebitWrite
  <1>6. u = v
    <2>1. balance \in [Users -> BalanceRow] /\ -a \in Int
      BY InvParts, PaymentAssumption DEF PaymentTypeOK
    <2>2. u # v => balance'[u] = balance[u]
      BY <1>5, <2>1
    <2>3. balance[u].available \in Int
      BY <2>1 DEF BalanceRow
    <2> QED
      BY <1>1, <2>2, <2>3
  <1> DEFINE row == NewPayment(k, "WITHDRAWAL", v, a)
  <1>7. row.user = v /\ row.key = k
    BY NewPaymentIsRow DEF PaymentTypes
  <1>8. ~Used(k) /\ txn' = txn \cup {row}
    BY <1>3, <1>4 DEF DebitWrite
  <1> HIDE DEF row
  <1> QED
    BY <1>6, <1>7, <1>8 DEF Used, NewDebit

(* Available money goes down only in a step that inserts a row of that     *)
(* user under a new idempotency key, be it a lock or a withdrawal.         *)
THEOREM HubChargedOncePerKey == HubSpec => DebitTakesFreshKey
  <1>1. HubInv /\ [HubNext]_hubVars =>
          [\A u \in Users : balance'[u].available < balance[u].available => NewDebit(u)]_vars
    <2> SUFFICES ASSUME HubInv, [HubNext]_hubVars, ~UNCHANGED vars,
                        NEW u \in Users, balance'[u].available < balance[u].available
                 PROVE  NewDebit(u)
      OBVIOUS
    <2>1. HubNext
      BY DEF hubVars, escrowVars, vars, storeVars
    <2> QED
      BY <2>1, LocksDebit, WithdrawalsDebit DEF HubNext, HubInv
  <1>2. HubInv /\ [HubNext]_hubVars =>
          [\A u \in Users : balance'[u].available < balance[u].available =>
             \E row \in txn' : /\ row.user = u
                               /\ row.key \in Keys
                               /\ \A old \in txn : old.key # row.key]_vars
    BY <1>1 DEF NewDebit
  <1> QED
    BY <1>2, HubInvariant, PTL DEF HubSpec, DebitTakesFreshKey

-----------------------------------------------------------------------------
(* The hub implements the wallet of escrows and the ledger of payments on  *)
(* one table. *)

LEMMA EntriesOfEscrow ==
  ASSUME TxnEffect, UNCHANGED paymentVars
  PROVE  UNCHANGED <<Entries("WITHDRAWAL"), Entries("TOPUP"), Confirmed>>
  <1>1. \A row : IsPayment(row) => (row \in txn' <=> row \in txn)
    BY PaymentRowsStay
  <1>2. ASSUME NEW type \in PaymentTypes
        PROVE  {row \in txn : row.type = type}' = {row \in txn : row.type = type}
    BY <1>1 DEF IsPayment, PaymentTypes
  <1> QED
    BY <1>2 DEF Entries, Confirmed, paymentVars, PaymentTypes

HubMove ==
  \/ W!Next /\ UNCHANGED <<Entries("WITHDRAWAL"), Entries("TOPUP"), Confirmed>>
  \/ L!Next

LEMMA StepOfHub ==
  ASSUME HubInv, [HubNext]_hubVars
  PROVE  HubMove \/ UNCHANGED Ledger
  <1>1. CASE Next /\ UNCHANGED paymentVars
    <2>1. TxnEffect
      BY <1>1, NextKeeps DEF HubInv, Effects
    <2>2. UNCHANGED <<Entries("WITHDRAWAL"), Entries("TOPUP"), Confirmed>>
      BY <1>1, <2>1, EntriesOfEscrow
    <2>3. W!Next \/ Money' = Money
      BY <1>1, StepOfWallet DEF HubInv
    <2>4. Money = Purse /\ Money' = Purse'
      BY DEF Money, MoneyOf, Purse
    <2> QED
      BY <2>2, <2>3, <2>4 DEF HubMove, Ledger
  <1>2. CASE PaymentsNext /\ UNCHANGED escrowVars
    BY <1>2, StepOfLedger DEF HubInv, HubMove
  <1>3. CASE UNCHANGED hubVars
    BY <1>3, NothingMoves DEF hubVars, paymentVars
  <1> QED
    BY <1>1, <1>2, <1>3 DEF HubNext

(* Whatever escrows and payments do together, the balances table moves     *)
(* only by a whole lock, rollback or payment of a deal, by the debit of a  *)
(* new withdrawal, or by the credit of a confirmed top-up or a withdrawal. *)
THEOREM HubImplementsLedger == HubSpec => HubLedgerSpec
  <1>1. HubInv /\ [HubNext]_hubVars => [HubMove]_Ledger
    BY StepOfHub
  <1>2. HubInv /\ [HubNext]_hubVars =>
          [ \/ W!Next /\ UNCHANGED <<Entries("WITHDRAWAL"), Entries("TOPUP"),
                                     {k \in Keys : deposit[k] = "paid"}>>
            \/ L!Next ]_<<L!ledger>>
    BY <1>1 DEF HubMove, Ledger, Purse, Confirmed, L!ledger
  <1>3. HubInit => W!Init /\ L!Init
    BY WalletInit, LedgerInit DEF HubInit, Init, InitEscrowStore, PaymentsInit
  <1> QED
    BY <1>2, <1>3, HubInvariant, PTL DEF HubSpec, HubLedgerSpec

-----------------------------------------------------------------------------
(* The books of the hub. *)

(* The withdrawals that were debited and not given back.                   *)
Outstanding == {x \in Rows("WITHDRAWAL") : x.status # "FAILED"}

CreditedSum == SumFunction([j \in Credited |-> Payment(j[2]).amount])

(* A withdrawal takes another status, none comes and none goes.            *)
OutstandingKept ==
  \/ UNCHANGED Outstanding
  \/ \E old \in Outstanding : \E new :
       /\ new.amount = old.amount
       /\ new \notin Outstanding \ {old}
       /\ Outstanding' = (Outstanding \ {old}) \cup {new}

LEMMA OutstandingRows ==
  ASSUME PaymentTypeOK, IsFiniteSet(txn)
  PROVE  /\ IsFiniteSet(Outstanding)
         /\ \A row \in Outstanding :
              /\ row \in txn /\ row \in PaymentRow /\ row.type = "WITHDRAWAL"
              /\ row.amount \in Nat /\ row.key \in Keys
  <1>1. Outstanding \subseteq txn
    BY DEF Outstanding, Rows
  <1>2. ASSUME NEW row \in Outstanding
        PROVE  /\ row \in txn /\ row \in PaymentRow /\ row.type = "WITHDRAWAL"
               /\ row.amount \in Nat /\ row.key \in Keys
    <2>1. row \in txn /\ row.type = "WITHDRAWAL"
      BY DEF Outstanding, Rows
    <2>2. row \in PaymentRow
      BY <2>1 DEF PaymentTypeOK, IsPayment
    <2> QED
      BY <2>1, <2>2, PaymentAssumption DEF PaymentRow
  <1> QED
    BY <1>1, <1>2, FS_Subset

LEMMA WithdrawnKept ==
  ASSUME PaymentTypeOK, IsFiniteSet(txn), OutstandingKept
  PROVE  Withdrawn' = Withdrawn
  <1>1. IsFiniteSet(Outstanding) /\ \A row \in Outstanding : row.amount \in Int
    BY OutstandingRows
  <1> DEFINE f == [row \in Outstanding |-> row.amount]
             g == [row \in Outstanding' |-> row.amount]
  <1>2. Withdrawn = SumFunction(f) /\ Withdrawn' = SumFunction(g)
    BY DEF Withdrawn, Outstanding
  <1>3. /\ DOMAIN f = Outstanding /\ \A row \in Outstanding : f[row] = row.amount
        /\ DOMAIN g = Outstanding' /\ \A row \in Outstanding' : g[row] = row.amount
    OBVIOUS
  <1> HIDE DEF f, g
  <1>4. CASE UNCHANGED Outstanding
    BY <1>1, <1>2, <1>3, <1>4, SumsOfEqual
  <1>5. ASSUME NEW old \in Outstanding, NEW new, new.amount = old.amount,
               new \notin Outstanding \ {old},
               Outstanding' = (Outstanding \ {old}) \cup {new}
        PROVE  Withdrawn' = Withdrawn
    <2>1. /\ \A z \in DOMAIN f : f[z] \in Int
          /\ \A z \in DOMAIN f \ {old} : g[z] = f[z]
          /\ g[new] = f[old]
      BY <1>1, <1>3, <1>5
    <2>2. old \in DOMAIN f /\ DOMAIN g = (DOMAIN f \ {old}) \cup {new} /\ new \notin DOMAIN f \ {old}
      BY <1>3, <1>5
    <2>3. SumFunction(g) = SumFunction(f)
      BY <1>1, <1>3, <2>1, <2>2, SumSwaps
    <2> QED
      BY <1>2, <2>3
  <1> QED
    BY <1>4, <1>5 DEF OutstandingKept

LEMMA WithdrawnGrows ==
  ASSUME PaymentTypeOK, IsFiniteSet(txn), NEW row, row \notin Outstanding, row.amount \in Nat,
         Outstanding' = Outstanding \cup {row}
  PROVE  Withdrawn' = Withdrawn + row.amount
  <1>1. IsFiniteSet(Outstanding) /\ \A x \in Outstanding : x.amount \in Int
    BY OutstandingRows
  <1> DEFINE f == [x \in Outstanding |-> x.amount]
             g == [x \in Outstanding' |-> x.amount]
  <1>2. Withdrawn = SumFunction(f) /\ Withdrawn' = SumFunction(g)
    BY DEF Withdrawn, Outstanding
  <1>3. /\ DOMAIN f = Outstanding /\ \A x \in Outstanding : f[x] = x.amount
        /\ DOMAIN g = Outstanding' /\ \A x \in Outstanding' : g[x] = x.amount
    OBVIOUS
  <1> HIDE DEF f, g
  <1>4. /\ DOMAIN g = DOMAIN f \cup {row} /\ row \notin DOMAIN f
        /\ g[row] = row.amount /\ g[row] \in Int
        /\ \A y \in DOMAIN f : f[y] \in Int /\ g[y] = f[y]
    BY <1>1, <1>3
  <1>5. SumFunction(g) = SumFunction(f) + g[row]
    BY <1>1, <1>3, <1>4, SumGrows
  <1> QED
    BY <1>2, <1>4, <1>5

LEMMA WithdrawnIsInt ==
  ASSUME PaymentTypeOK, IsFiniteSet(txn)
  PROVE  Withdrawn \in Int
  <1> DEFINE f == [x \in Outstanding |-> x.amount]
  <1>1. IsFiniteSet(DOMAIN f) /\ \A x \in DOMAIN f : f[x] \in Int
    BY OutstandingRows
  <1>2. Withdrawn = SumFunction(f)
    BY DEF Withdrawn, Outstanding
  <1> HIDE DEF f
  <1> QED
    BY <1>1, <1>2, SumOfInts

(* What is credited has a row, and rows are finitely many.                 *)
LEMMA CreditedRows ==
  ASSUME PaymentsInv, IsFiniteSet(txn)
  PROVE  /\ IsFiniteSet(Credited)
         /\ \A j \in Credited : /\ j \in PaymentJobs /\ j[1] = "credit" /\ j[2] \in Keys
                                /\ HasRow(j[2], "TOPUP") /\ deposit[j[2]] = "paid"
                                /\ Payment(j[2]).amount \in Nat
  <1>1. ASSUME NEW j \in Credited
        PROVE  /\ j \in PaymentJobs /\ j[1] = "credit" /\ j[2] \in Keys
               /\ HasRow(j[2], "TOPUP") /\ deposit[j[2]] = "paid"
               /\ Payment(j[2]).amount \in Nat
    <2>1. j \in PaymentJobs /\ j[1] = "credit"
      BY DEF Credited
    <2>2. j[2] \in Keys /\ RowType(j) = "TOPUP"
      BY <2>1, JobKind DEF RowType
    <2>3. pjob[j].state # "none"
      BY <2>1, InvParts DEF Credited, PaymentsRunning, RunAt
    <2>4. HasRow(j[2], "TOPUP") /\ deposit[j[2]] = "paid"
      BY <2>1, <2>2, <2>3, InvParts DEF RecordedFirst, BackedByAirtm
    <2> QED
      BY <2>1, <2>2, <2>4, InvParts, PaymentIsFound DEF PaymentTypes
  <1>2. IsFiniteSet({row.key : row \in txn})
    <2> DEFINE f == [row \in txn |-> row.key]
    <2>1. DOMAIN f = txn /\ {f[row] : row \in DOMAIN f} = {row.key : row \in txn}
      OBVIOUS
    <2> HIDE DEF f
    <2> QED
      BY <2>1, ImageIsFinite
  <1> DEFINE keys == {row.key : row \in txn}
             pairs == keys \X (1 .. MaxCallbacks)
             f == [p \in pairs |-> <<"credit", p[1], p[2]>>]
  <1>3. IsFiniteSet(pairs)
    <2>1. IsFiniteSet(1 .. MaxCallbacks)
      BY FS_Interval, AirtmAssumption
    <2> QED
      BY <1>2, <2>1, FS_Product
  <1>4. IsFiniteSet({f[p] : p \in DOMAIN f})
    <2>1. DOMAIN f = pairs
      OBVIOUS
    <2> HIDE DEF f, pairs
    <2> QED
      BY <1>3, <2>1, ImageIsFinite
  <1>5. Credited \subseteq {f[p] : p \in DOMAIN f}
    <2> SUFFICES ASSUME NEW j \in Credited PROVE \E p \in pairs : j = f[p]
      OBVIOUS
    <2>1. j \in PaymentJobs /\ j[1] = "credit" /\ HasRow(j[2], "TOPUP")
      BY <1>1
    <2>2. PICK k \in Keys, n \in 1 .. MaxCallbacks : j = <<"credit", k, n>>
      BY <2>1 DEF PaymentJobs
    <2>3. k \in keys
      BY <2>1, <2>2 DEF HasRow
    <2>4. <<k, n>> \in pairs
      BY <2>3
    <2>5. j = f[<<k, n>>]
      BY <2>2, <2>4
    <2> QED
      BY <2>4, <2>5
  <1> QED
    BY <1>1, <1>4, <1>5, FS_Subset

(* While no worker step fails, no withdrawal fails and nothing is restored. *)
Undoing == {"restoreRead", "restoreWrite", "failTopup", "notifyFailed"}

NoneFailed ==
  /\ IsFiniteSet(txn)
  /\ \A row \in txn : row.type = "WITHDRAWAL" => row.status # "FAILED"
  /\ \A j \in PaymentJobs : prun[j].pc \notin Undoing

(* What a payment step then does to the rows, and to the three sums.       *)
RowsMove ==
  \/ UNCHANGED txn
  \/ Inserted
  \/ \E old, new : Replaced(old, new) /\ (new.type = "TOPUP" \/ new.status = "COMPLETED")

DebitMove ==
  \E u \in Users, a \in PaymentAmounts : \E row :
    /\ balance' = [balance EXCEPT ![u] = Moved(balance[u], -a, 0)]
    /\ row \notin Outstanding /\ row.amount = a
    /\ Outstanding' = Outstanding \cup {row}
    /\ UNCHANGED Credited

CreditMove ==
  \E j \in PaymentJobs \ Credited :
    /\ HasRow(j[2], "TOPUP")
    /\ balance' = PaidIn(j[2])
    /\ UNCHANGED Outstanding
    /\ Credited' = Credited \cup {j}

SumsMove ==
  \/ UNCHANGED <<balance, Credited>> /\ OutstandingKept
  \/ DebitMove
  \/ CreditMove

LEMMA RowsStayNoneFailed ==
  ASSUME NoneFailed, RowsMove
  PROVE  /\ IsFiniteSet(txn')
         /\ \A row \in txn' : row.type = "WITHDRAWAL" => row.status # "FAILED"
  <1>1. CASE UNCHANGED txn
    BY <1>1 DEF NoneFailed
  <1>2. CASE Inserted
    <2>1. PICK k \in Keys, type \in PaymentTypes, u \in Users, a \in PaymentAmounts :
            txn' = txn \cup {NewPayment(k, type, u, a)}
      BY <1>2 DEF Inserted
    <2>2. NewPayment(k, type, u, a).status = "PENDING"
      BY NewPaymentIsRow
    <2>3. IsFiniteSet(txn')
      BY <2>1, FS_AddElement DEF NoneFailed
    <2> QED
      BY <2>1, <2>2, <2>3 DEF NoneFailed
  <1>3. ASSUME NEW old, NEW new, Replaced(old, new), new.type = "TOPUP" \/ new.status = "COMPLETED"
        PROVE  /\ IsFiniteSet(txn')
               /\ \A row \in txn' : row.type = "WITHDRAWAL" => row.status # "FAILED"
    <2>1. txn' = (txn \ {old}) \cup {new}
      BY <1>3 DEF Replaced
    <2>2. IsFiniteSet(txn')
      BY <2>1, FS_Subset, FS_AddElement DEF NoneFailed
    <2> QED
      BY <1>3, <2>1, <2>2 DEF NoneFailed
  <1> QED
    BY <1>1, <1>2, <1>3 DEF RowsMove

LEMMA OtherRows ==
  ASSUME \A row : row.type = "WITHDRAWAL" => (row \in txn' <=> row \in txn)
  PROVE  UNCHANGED Outstanding
  BY DEF Outstanding, Rows

(* A row of a top-up takes another status.                                 *)
LEMMA TopupReplaced ==
  ASSUME NEW old, NEW new, Replaced(old, new), old.type = "TOPUP"
  PROVE  RowsMove /\ UNCHANGED Outstanding
  <1>1. new.type = "TOPUP" /\ txn' = (txn \ {old}) \cup {new}
    BY DEF Replaced, SamePayment
  <1>2. UNCHANGED Outstanding
    BY <1>1, OtherRows
  <1> QED
    BY <1>1, <1>2 DEF RowsMove

(* A withdrawal becomes COMPLETED.                                         *)
LEMMA WithdrawalReplaced ==
  ASSUME KeysUnique, NoneFailed, NEW old, NEW new, Replaced(old, new),
         old.type = "WITHDRAWAL", new.status = "COMPLETED"
  PROVE  RowsMove /\ OutstandingKept
  <1>1. /\ new.type = "WITHDRAWAL" /\ new.key = old.key /\ new.amount = old.amount
        /\ old \in txn /\ txn' = (txn \ {old}) \cup {new}
    BY DEF Replaced, SamePayment
  <1>2. old \in Outstanding
    BY <1>1 DEF Outstanding, Rows, NoneFailed
  <1>3. new \notin Outstanding \ {old}
    BY <1>1 DEF Outstanding, Rows, KeysUnique
  <1>4. Outstanding' = (Outstanding \ {old}) \cup {new}
    BY <1>1 DEF Outstanding, Rows
  <1> QED
    BY <1>1, <1>2, <1>3, <1>4 DEF RowsMove, OutstandingKept

IsCredited(j) == RunAt(j, "notify") \/ pjob[j].state = "completed"

(* Only the job that moves can be credited by a step.                      *)
LEMMA CreditedKept ==
  ASSUME PaymentTypeOK, NEW j \in PaymentJobs,
         \A i \in PaymentJobs : i # j => prun'[i] = prun[i] /\ pjob'[i] = pjob[i],
         j[1] = "credit" => (IsCredited(j)' <=> IsCredited(j))
  PROVE  UNCHANGED Credited
  BY DEF Credited, IsCredited, RunAt

(* The requests, Airtm, and every step of a run but the two that pay.      *)
LEMMA ServiceMoves ==
  ASSUME HubInv, NoneFailed, ServicesNext, UNCHANGED prun
  PROVE  RowsMove /\ SumsMove
  <1>0. PaymentsInv /\ PaymentTypeOK /\ KeysUnique
    BY DEF HubInv, PaymentsInv
  <1>1. UNCHANGED pjob => UNCHANGED Credited
    BY DEF Credited, RunAt
  <1>2. UNCHANGED txn => UNCHANGED Outstanding
    BY DEF Outstanding, Rows
  <1>3. ASSUME NEW r \in Callers, NEW k \in Keys, NEW u \in Users, NEW a \in PaymentAmounts,
               Withdraw(r, k, u, a)
        PROVE  RowsMove /\ SumsMove
    BY <1>1, <1>2, <1>3 DEF Withdraw, RowsMove, SumsMove, OutstandingKept
  <1>4. ASSUME NEW r \in Callers, NEW k \in Keys, NEW u \in Users, NEW a \in PaymentAmounts,
               Topup(r, k, u, a)
        PROVE  RowsMove /\ SumsMove
    <2>1. /\ ~Used(k) /\ txn' = txn \cup {NewPayment(k, "TOPUP", u, a)}
          /\ UNCHANGED <<balance, pjob>>
      BY <1>4 DEF Topup
    <2>2. Inserted
      BY <2>1 DEF Inserted, PaymentTypes
    <2>3. NewPayment(k, "TOPUP", u, a).type = "TOPUP"
      BY NewPaymentIsRow DEF PaymentTypes
    <2>4. UNCHANGED Outstanding
      BY <2>1, <2>3, OtherRows
    <2> QED
      BY <1>1, <2>1, <2>2, <2>4 DEF RowsMove, SumsMove, OutstandingKept
  <1>5. ASSUME NEW r \in Callers, NEW k \in Keys, Callback(r, k)
        PROVE  RowsMove /\ SumsMove
    <2>1. HasRow(k, "TOPUP") /\ \E new : Replaced(Payment(k), new)
      BY <1>0, <1>5, CallbackEffects
    <2>2. PICK new : Replaced(Payment(k), new)
      BY <2>1
    <2>3. Payment(k).type = "TOPUP"
      BY <1>0, <2>1, PaymentIsFound DEF PaymentTypes
    <2>4. PICK old : old = Payment(k)
      OBVIOUS
    <2>5. RowsMove /\ UNCHANGED Outstanding
      BY <2>2, <2>3, <2>4, TopupReplaced
    <2> QED
      BY <1>1, <1>5, <2>5 DEF SumsMove, OutstandingKept, Callback
  <1>6. ASSUME NEW r \in Callers, DebitWrite(r)
        PROVE  RowsMove /\ SumsMove
    <2>1. PICK k \in Keys, u \in Users, a \in PaymentAmounts :
            k = preq[r].job[2] /\ u = preq[r].user /\ a = preq[r].amount
      BY <1>0, <1>6, DebitEffects
    <2> DEFINE row == NewPayment(k, "WITHDRAWAL", u, a)
    <2>2. /\ ~Used(k) /\ txn' = txn \cup {row} /\ UNCHANGED pjob
          /\ balance' = [balance EXCEPT ![u] = Moved(balance[u], -a, 0)]
      BY <1>6, <2>1 DEF DebitWrite
    <2>3. row.type = "WITHDRAWAL" /\ row.status = "PENDING" /\ row.amount = a /\ row.key = k
      BY NewPaymentIsRow DEF PaymentTypes
    <2>4. RowsMove
      BY <2>2 DEF RowsMove, Inserted, PaymentTypes
    <2> HIDE DEF row
    <2>5. Outstanding' = Outstanding \cup {row} /\ row \notin Outstanding
      BY <2>2, <2>3 DEF Outstanding, Rows, Used
    <2>6. DebitMove
      BY <1>1, <2>2, <2>3, <2>5 DEF DebitMove
    <2> QED
      BY <2>4, <2>6 DEF SumsMove
  <1>7. ASSUME NEW r \in Callers, DebitConflict(r) \/ CallAborted(r)
        PROVE  RowsMove /\ SumsMove
    BY <1>1, <1>2, <1>7 DEF DebitConflict, CallAborted, RowsMove, SumsMove, OutstandingKept
  <1>8. ASSUME NEW r \in Callers, AddJob(r)
        PROVE  RowsMove /\ SumsMove
    <2>1. PICK j \in PaymentJobs : preq[r].job = j
      BY <1>0, <1>8, CallIsTyped DEF AddJob, CallAt
    <2>2. pjob' = [pjob EXCEPT ![j] = Added(pjob[j])] /\ UNCHANGED <<balance, txn>>
      BY <1>8, <2>1 DEF AddJob
    <2>3. pjob[j] \in JobRecord /\ pjob \in [PaymentJobs -> JobRecord]
      BY <1>0 DEF PaymentTypeOK
    <2>4. Added(pjob[j]).state = "completed" <=> pjob[j].state = "completed"
      BY <2>3 DEF Added, JobRecord
    <2>5. UNCHANGED Credited
      BY <1>0, <2>2, <2>3, <2>4, CreditedKept DEF IsCredited, RunAt
    <2> QED
      BY <1>2, <2>2, <2>5 DEF RowsMove, SumsMove, OutstandingKept
  <1> QED
    BY <1>3, <1>4, <1>5, <1>6, <1>7, <1>8 DEF ServicesNext, CallStep

(* A step that takes run j to pc, and what else a job then shows.          *)
LEMMA GoesQuietly ==
  ASSUME PaymentTypeOK, NoneFailed, NEW j \in PaymentJobs, NEW pc, pc \notin Undoing,
         RunTo(j, pc), UNCHANGED pjob, (pc = "notify") <=> RunAt(j, "notify")
  PROVE  /\ UNCHANGED Credited
         /\ \A i \in PaymentJobs : prun'[i].pc \notin Undoing
  <1>1. /\ prun'[j] = [prun[j] EXCEPT !.pc = pc]
        /\ \A i \in PaymentJobs : i # j => prun'[i] = prun[i]
    BY DEF RunTo, PaymentTypeOK
  <1>2. prun'[j].pc = pc
    BY <1>1 DEF PaymentTypeOK, PaymentRun
  <1>3. UNCHANGED Credited
    BY <1>1, <1>2, CreditedKept DEF IsCredited, RunAt
  <1> QED
    BY <1>1, <1>2, <1>3 DEF NoneFailed

LEMMA EndsQuietly ==
  ASSUME PaymentTypeOK, NoneFailed, NEW j \in PaymentJobs, NEW outcome,
         RunEnds(j, outcome),
         j[1] = "credit" => (outcome.state = "completed" <=> IsCredited(j))
  PROVE  /\ UNCHANGED Credited
         /\ \A i \in PaymentJobs : prun'[i].pc \notin Undoing
  <1>1. /\ prun'[j] = Resting /\ pjob'[j] = outcome
        /\ \A i \in PaymentJobs : i # j => prun'[i] = prun[i] /\ pjob'[i] = pjob[i]
    BY DEF RunEnds, PaymentTypeOK
  <1>2. Resting.pc = "idle"
    BY DEF Resting
  <1>3. UNCHANGED Credited
    BY <1>1, <1>2, CreditedKept DEF IsCredited, RunAt
  <1> QED
    BY <1>1, <1>2, <1>3 DEF NoneFailed, Undoing

RunsMove == RowsMove /\ SumsMove /\ \A i \in PaymentJobs : prun'[i].pc \notin Undoing

LEMMA OnlyRunsMove ==
  ASSUME UNCHANGED <<balance, txn, Credited>>, \A i \in PaymentJobs : prun'[i].pc \notin Undoing
  PROVE  RunsMove
  BY DEF RunsMove, RowsMove, SumsMove, OutstandingKept, Outstanding, Rows

LEMMA StartMoves ==
  ASSUME PaymentsInv, NoneFailed, NEW j \in PaymentJobs, PaymentStart(j)
  PROVE  RunsMove
  <1>0. PaymentTypeOK
    BY InvParts
  <1> DEFINE first == FirstStep[j[1]]
  <1>1. first \in {"pay", "creditRead", "session"}
    BY JobKind DEF FirstStep
  <1>2. RunTo(j, first) /\ pjob' = [pjob EXCEPT ![j] = Started(pjob[j])]
        /\ pjob[j].state = "waiting"
    BY DEF PaymentStart
  <1> HIDE DEF first
  <1>3. RunAt(j, "idle")
    BY <1>2, InvParts DEF PaymentsRunning
  <1>4. /\ prun'[j].pc = first /\ pjob'[j].state = "active"
        /\ \A i \in PaymentJobs : i # j => prun'[i] = prun[i] /\ pjob'[i] = pjob[i]
    BY <1>0, <1>2 DEF RunTo, PaymentTypeOK, PaymentRun, JobRecord, Started
  <1>5. UNCHANGED Credited
    BY <1>0, <1>1, <1>2, <1>3, <1>4, CreditedKept DEF IsCredited, RunAt
  <1>6. \A i \in PaymentJobs : prun'[i].pc \notin Undoing
    BY <1>1, <1>4 DEF NoneFailed, Undoing
  <1> QED
    BY <1>5, <1>6, OnlyRunsMove DEF PaymentStart

LEMMA WithdrawalMoves ==
  ASSUME PaymentsInv, NoneFailed, NoWorkerFault, UNCHANGED preq, NEW k \in Keys, WithdrawalStep(k)
  PROVE  RunsMove
  <1>0. PaymentTypeOK /\ KeysUnique
    BY InvParts
  <1>1. PICK j \in PaymentJobs : j = WithdrawJob(k) /\ j[1] = "withdraw" /\ j[2] = k
    BY JobOfKey
  <1>2. prun[j].pc \notin Undoing
    BY DEF NoneFailed
  <1>3. CASE Pay(k)
    <2>1. RunTo(j, "markPaid") /\ RunAt(j, "pay") /\ UNCHANGED <<balance, txn, pjob>>
      BY <1>1, <1>3 DEF Pay, NoWorkerFault
    <2>2. UNCHANGED Credited /\ \A i \in PaymentJobs : prun'[i].pc \notin Undoing
      BY <1>0, <2>1, GoesQuietly DEF Undoing, RunAt
    <2> QED
      BY <2>1, <2>2, OnlyRunsMove
  <1>4. CASE MarkPaid(k)
    <2>1. /\ RunTo(j, "notify") /\ RunAt(j, "markPaid") /\ UNCHANGED <<balance, pjob>>
          /\ txn' = WithReference(k, "COMPLETED", payout[k])
      BY <1>1, <1>4 DEF MarkPaid
    <2>2. HasRow(k, "WITHDRAWAL") /\ payout[k] \in Nat
      BY <1>0, <1>4, MarkPaidEffects DEF PaymentTypeOK
    <2>3. Payment(k).type = "WITHDRAWAL" /\ Payment(k) \in PaymentRow
      BY <1>0, <2>2, PaymentIsFound DEF PaymentTypes
    <2>4. PICK c \in Nat : c = payout[k]
      BY <2>2
    <2> DEFINE new == [Payment(k) EXCEPT !.status = "COMPLETED", !.reference = c]
    <2>5. Replaced(Payment(k), new)
      BY <1>0, <2>1, <2>2, <2>4, ReferenceReplaces DEF PaymentTypes, TransactionStatus
    <2>6. new.status = "COMPLETED"
      BY <2>3 DEF PaymentRow
    <2> HIDE DEF new
    <2>7. PICK old, row : old = Payment(k) /\ row = new
      OBVIOUS
    <2>8. RowsMove /\ OutstandingKept
      BY <1>0, <2>3, <2>5, <2>6, <2>7, WithdrawalReplaced
    <2>9. /\ prun'[j].pc = "notify"
          /\ \A i \in PaymentJobs : i # j => prun'[i] = prun[i]
      BY <1>0, <2>1 DEF RunTo, PaymentTypeOK, PaymentRun
    <2>10. UNCHANGED Credited
      BY <1>0, <1>1, <2>1, <2>9, CreditedKept
    <2>11. \A i \in PaymentJobs : prun'[i].pc \notin Undoing
      BY <2>9 DEF NoneFailed, Undoing
    <2> QED
      BY <2>1, <2>8, <2>10, <2>11 DEF RunsMove, SumsMove
  <1>5. ~PayThrows(k) /\ ~RestoreRead(k) /\ ~RestoreWrite(k)
    BY <1>1, <1>2 DEF PayThrows, RestoreRead, ReadBalance, RestoreWrite, RunAt, Undoing, NoWorkerFault
  <1> QED
    BY <1>3, <1>4, <1>5 DEF WithdrawalStep

LEMMA SessionMoves ==
  ASSUME PaymentsInv, NoneFailed, NoWorkerFault, NEW k \in Keys, SessionStep(k)
  PROVE  RunsMove
  <1>0. PaymentTypeOK
    BY InvParts
  <1>1. PICK j \in PaymentJobs : j = SessionJob(k) /\ j[1] = "session" /\ j[2] = k
    BY JobOfKey
  <1>2. prun[j].pc \notin Undoing
    BY DEF NoneFailed
  <1>3. CASE CreateSession(k)
    <2>1. RunTo(j, "saveSession") /\ RunAt(j, "session") /\ UNCHANGED <<balance, txn, pjob>>
      BY <1>1, <1>3 DEF CreateSession, NoWorkerFault
    <2>2. UNCHANGED Credited /\ \A i \in PaymentJobs : prun'[i].pc \notin Undoing
      BY <1>0, <2>1, GoesQuietly DEF Undoing, RunAt
    <2> QED
      BY <2>1, <2>2, OnlyRunsMove
  <1>4. CASE SaveSession(k)
    <2>1. RunEnds(j, Completed(pjob[j])) /\ UNCHANGED <<balance, txn>>
      BY <1>1, <1>4 DEF SaveSession, NoWorkerFault
    <2>2. UNCHANGED Credited /\ \A i \in PaymentJobs : prun'[i].pc \notin Undoing
      BY <1>0, <1>1, <2>1, EndsQuietly
    <2> QED
      BY <2>1, <2>2, OnlyRunsMove
  <1>5. ~FailTopup(k)
    BY <1>1, <1>2 DEF FailTopup, RunAt, Undoing
  <1> QED
    BY <1>3, <1>4, <1>5 DEF SessionStep

LEMMA CreditReadMoves ==
  ASSUME PaymentsInv, NoneFailed, NEW j \in PaymentJobs, CreditRead(j)
  PROVE  RunsMove
  <1>0. PaymentTypeOK
    BY InvParts
  <1>1. /\ RunAt(j, "creditRead") /\ UNCHANGED <<balance, txn, pjob>>
        /\ prun'[j].pc = "creditWrite"
        /\ \A i \in PaymentJobs : i # j => prun'[i] = prun[i]
    BY <1>0 DEF CreditRead, ReadBalance, PaymentTypeOK, PaymentRun
  <1>2. UNCHANGED Credited
    BY <1>0, <1>1, CreditedKept DEF IsCredited, RunAt
  <1>3. \A i \in PaymentJobs : prun'[i].pc \notin Undoing
    BY <1>1 DEF NoneFailed, Undoing
  <1> QED
    BY <1>1, <1>2, <1>3, OnlyRunsMove

LEMMA CreditWriteMoves ==
  ASSUME PaymentsInv, NoneFailed, UNCHANGED preq, NEW j \in PaymentJobs, CreditWrite(j)
  PROVE  RunsMove
  <1>0. PaymentTypeOK /\ KeysUnique
    BY InvParts
  <1>1. /\ RunAt(j, "creditWrite") /\ RunTo(j, "notify") /\ UNCHANGED pjob
        /\ balance' = PaidIn(j[2])
    BY DEF CreditWrite
  <1>2. HasRow(j[2], "TOPUP") /\ \E new : Replaced(Payment(j[2]), new)
    BY CreditWriteEffects
  <1>3. PICK new : Replaced(Payment(j[2]), new)
    BY <1>2
  <1>4. PICK old : old = Payment(j[2])
    OBVIOUS
  <1>5. RowsMove /\ UNCHANGED Outstanding
    BY <1>0, <1>2, <1>3, <1>4, PaymentIsFound, TopupReplaced DEF PaymentTypes
  <1>6. /\ prun'[j].pc = "notify"
        /\ \A i \in PaymentJobs : i # j => prun'[i] = prun[i]
    BY <1>0, <1>1 DEF RunTo, PaymentTypeOK, PaymentRun
  <1>7. j[1] = "credit" /\ pjob[j].state = "active"
    BY <1>1, PcIsNotIdle, RunningHasRow, JobKind, StepsOf DEF RunAt
  <1>8. j \notin Credited /\ Credited' = Credited \cup {j}
    BY <1>1, <1>6, <1>7 DEF Credited, RunAt
  <1>9. \A i \in PaymentJobs : prun'[i].pc \notin Undoing
    BY <1>6 DEF NoneFailed, Undoing
  <1>10. CreditMove
    BY <1>1, <1>2, <1>5, <1>8 DEF CreditMove
  <1> QED
    BY <1>5, <1>9, <1>10 DEF RunsMove, SumsMove

LEMMA LastMoves ==
  ASSUME PaymentsInv, NoneFailed, NoWorkerFault, NEW j \in PaymentJobs,
         AttemptThrows(j) \/ NotifyPayment(j)
  PROVE  RunsMove
  <1>0. PaymentTypeOK
    BY InvParts
  <1>1. prun[j].pc \notin Undoing
    BY DEF NoneFailed
  <1>2. CASE AttemptThrows(j)
    <2>1. RunAt(j, "creditWrite") /\ RunEnds(j, Failed(pjob[j])) /\ UNCHANGED <<balance, txn>>
      BY <1>1, <1>2 DEF AttemptThrows, NoWorkerFault, Undoing, RunAt
    <2>2. pjob[j].state = "active" /\ pjob[j] \in JobRecord
      BY <1>0, <2>1, PcIsNotIdle, RunningHasRow DEF PaymentTypeOK
    <2>3. Failed(pjob[j]).state # "completed"
      BY <2>2 DEF Failed, JobRecord
    <2>4. ~IsCredited(j)
      BY <2>1, <2>2 DEF IsCredited, RunAt
    <2>5. UNCHANGED Credited /\ \A i \in PaymentJobs : prun'[i].pc \notin Undoing
      BY <1>0, <2>1, <2>3, <2>4, EndsQuietly
    <2> QED
      BY <2>1, <2>5, OnlyRunsMove
  <1>3. CASE NotifyPayment(j)
    <2>1. RunAt(j, "notify") /\ RunEnds(j, Completed(pjob[j])) /\ UNCHANGED <<balance, txn>>
      BY <1>1, <1>3 DEF NotifyPayment, Undoing, RunAt
    <2>2. pjob[j] \in JobRecord
      BY <1>0 DEF PaymentTypeOK
    <2>3. Completed(pjob[j]).state = "completed" /\ IsCredited(j)
      BY <2>1, <2>2 DEF Completed, JobRecord, IsCredited
    <2>4. UNCHANGED Credited /\ \A i \in PaymentJobs : prun'[i].pc \notin Undoing
      BY <1>0, <2>1, <2>3, EndsQuietly
    <2> QED
      BY <2>1, <2>4, OnlyRunsMove
  <1> QED
    BY <1>2, <1>3

LEMMA PaymentsMove ==
  ASSUME HubInv, NoneFailed, NoWorkerFault, PaymentsNext
  PROVE  SumsMove /\ NoneFailed'
  <1>0. PaymentsInv
    BY DEF HubInv
  <1>1. ASSUME RunsMove PROVE SumsMove /\ NoneFailed'
    BY <1>1, RowsStayNoneFailed DEF RunsMove, NoneFailed
  <1>2. CASE ServicesNext /\ UNCHANGED prun
    BY <1>1, <1>2, ServiceMoves DEF RunsMove, NoneFailed
  <1>3. CASE ProcessorsNext /\ UNCHANGED preq
    <2>1. PICK j \in PaymentJobs : PaymentStep(j) \/ PaymentCrash(j)
      BY <1>3 DEF ProcessorsNext
    <2>2. ~PaymentCrash(j) /\ j[2] \in Keys
      BY JobKind DEF PaymentCrash, NoWorkerFault
    <2> QED
      BY <1>0, <1>1, <1>3, <2>1, <2>2, StartMoves, WithdrawalMoves, SessionMoves,
         CreditReadMoves, CreditWriteMoves, LastMoves DEF PaymentStep
  <1>4. CASE AirtmNext /\ UNCHANGED <<balance, txn, pjob, pevent, preq, prun>>
    <2>1. UNCHANGED Credited
      BY <1>4 DEF Credited, RunAt
    <2>2. \A i \in PaymentJobs : prun'[i].pc \notin Undoing
      BY <1>4 DEF NoneFailed
    <2> QED
      BY <1>1, <1>4, <2>1, <2>2, OnlyRunsMove
  <1> QED
    BY <1>2, <1>3, <1>4 DEF PaymentsNext

LEMMA CreditedIsInt ==
  ASSUME PaymentsInv, IsFiniteSet(txn)
  PROVE  CreditedSum \in Int
  <1> DEFINE f == [j \in Credited |-> Payment(j[2]).amount]
  <1>1. IsFiniteSet(DOMAIN f) /\ \A j \in DOMAIN f : f[j] \in Int
    BY CreditedRows
  <1>2. CreditedSum = SumFunction(f)
    BY DEF CreditedSum
  <1> HIDE DEF f
  <1> QED
    BY <1>1, <1>2, SumOfInts

(* What a payment is of never changes.                                     *)
AmountsStay == \A k : HasRow(k, "TOPUP") => Payment(k)'.amount = Payment(k).amount

LEMMA AmountsOfPayments ==
  ASSUME HubInv, PaymentsNext
  PROVE  AmountsStay
  <1>1. PaymentTypeOK /\ KeysUnique /\ PaymentTypeOK' /\ KeysUnique' /\ RowsEffect
    BY PaymentsEffects, EffectsKeep DEF HubInv, PaymentEffects, PaymentsInv
  <1> SUFFICES ASSUME NEW k, HasRow(k, "TOPUP") PROVE Payment(k)'.amount = Payment(k).amount
    BY DEF AmountsStay
  <1>2. Payment(k) \in txn /\ Payment(k).key = k
    BY <1>1, PaymentIsFound DEF PaymentTypes
  <1>3. \E row \in txn' : row.key = k /\ row.amount = Payment(k).amount
    BY <1>1, <1>2 DEF RowsEffect, Inserted, Replaced, SamePayment
  <1>4. PICK row \in txn' : row.key = k /\ row.amount = Payment(k).amount
    BY <1>3
  <1>5. Payment(k)' \in txn' /\ Payment(k)'.key = k
    BY <1>4 DEF Payment
  <1> QED
    BY <1>1, <1>4, <1>5 DEF KeysUnique

LEMMA AmountsOfEscrows ==
  ASSUME HubInv, KeysUnique', TxnEffect
  PROVE  AmountsStay
  <1>1. PaymentTypeOK /\ KeysUnique
    BY DEF HubInv, PaymentsInv
  <1> SUFFICES ASSUME NEW k, HasRow(k, "TOPUP") PROVE Payment(k)'.amount = Payment(k).amount
    BY DEF AmountsStay
  <1>2. Payment(k) \in txn /\ Payment(k).key = k /\ IsPayment(Payment(k))
    BY <1>1, PaymentIsFound DEF PaymentTypes, IsPayment
  <1>3. Payment(k) \in txn'
    BY <1>2, PaymentRowsStay
  <1>4. PICK row \in txn' : row = Payment(k)
    BY <1>3
  <1>5. Payment(k)' \in txn' /\ Payment(k)'.key = k
    BY <1>2, <1>4 DEF Payment
  <1> QED
    BY <1>2, <1>4, <1>5 DEF KeysUnique

LEMMA CreditedSumKept ==
  ASSUME PaymentsInv, IsFiniteSet(txn), AmountsStay, UNCHANGED Credited
  PROVE  CreditedSum' = CreditedSum
  <1> DEFINE f == [j \in Credited |-> Payment(j[2]).amount]
             g == [j \in Credited' |-> Payment(j[2])'.amount]
  <1>1. CreditedSum = SumFunction(f) /\ CreditedSum' = SumFunction(g)
    BY DEF CreditedSum
  <1>2. /\ IsFiniteSet(DOMAIN f) /\ DOMAIN g = DOMAIN f
        /\ \A j \in DOMAIN f : f[j] = g[j]
    BY CreditedRows DEF AmountsStay
  <1> HIDE DEF f, g
  <1> QED
    BY <1>1, <1>2, SumsOfEqual

LEMMA CreditedSumGrows ==
  ASSUME PaymentsInv, IsFiniteSet(txn), AmountsStay,
         NEW j \in PaymentJobs, j \notin Credited, HasRow(j[2], "TOPUP"),
         Credited' = Credited \cup {j}
  PROVE  CreditedSum' = CreditedSum + Payment(j[2]).amount
  <1> DEFINE f == [i \in Credited |-> Payment(i[2]).amount]
             g == [i \in Credited' |-> Payment(i[2])'.amount]
  <1>1. CreditedSum = SumFunction(f) /\ CreditedSum' = SumFunction(g)
    BY DEF CreditedSum
  <1>2. Payment(j[2]).amount \in Nat
    BY InvParts, PaymentIsFound DEF PaymentTypes
  <1>3. /\ IsFiniteSet(DOMAIN f) /\ DOMAIN g = DOMAIN f \cup {j} /\ j \notin DOMAIN f
        /\ \A i \in DOMAIN f : f[i] \in Int /\ g[i] = f[i]
        /\ g[j] = Payment(j[2]).amount
    BY CreditedRows DEF AmountsStay
  <1> HIDE DEF f, g
  <1> QED
    BY <1>1, <1>2, <1>3, SumGrows

(* The fees are those of releases, which payments do not touch.            *)
LEMMA FeesStay ==
  ASSUME HubInv, PaymentsNext
  PROVE  FeesEarned' = FeesEarned
  <1>1. RowsEffect
    BY PaymentsEffects DEF HubInv, PaymentEffects
  <1>2. \A row : IsEscrowRow(row) => (row \in txn' <=> row \in txn)
    BY <1>1, EscrowRowsStay
  <1>3. Rows("ESCROW_RELEASE")' = Rows("ESCROW_RELEASE")
    BY <1>2 DEF Rows, IsEscrowRow, IsSettlement
  <1> QED
    BY <1>3 DEF FeesEarned

(* The two sides of the books.                                             *)
Assets == Holdings + FeesEarned + Withdrawn

LEMMA BookInts ==
  ASSUME HubInv, IsFiniteSet(txn)
  PROVE  /\ Holdings \in Int /\ FeesEarned \in Int /\ Withdrawn \in Int /\ CreditedSum \in Int
         /\ Holdings = Held(balance)
  <1>1. Holdings = Held(balance)
    BY DEF Holdings, Held
  <1>2. balance \in [Users -> BalanceRow]
    BY DEF HubInv, IInv, TypeOK
  <1>3. FeesEarned \in Int
    BY FeesAreInts DEF HubInv, IInv
  <1> QED
    BY <1>1, <1>2, <1>3, HeldIsInt, WithdrawnIsInt, CreditedIsInt DEF HubInv, PaymentsInv

LEMMA HeldPaid ==
  ASSUME NEW b, b \in [Users -> BalanceRow], NEW u \in Users, NEW x \in Int,
         NEW new, new = [b EXCEPT ![u] = Moved(b[u], x, 0)]
  PROVE  Held(new) = Held(b) + x
  <1>1. PICK none \in Int : none = 0
    OBVIOUS
  <1>2. Held([b EXCEPT ![u] = Moved(b[u], x, none)]) = Held(b) + (x + none)
    BY HeldMoves
  <1> QED
    BY <1>1, <1>2

LEMMA SumsMoveTogether ==
  ASSUME HubInv, HubInv', NoneFailed, NoneFailed', AmountsStay, SumsMove, FeesEarned' = FeesEarned
  PROVE  Assets' - CreditedSum' = Assets - CreditedSum
  <1>1. /\ Holdings \in Int /\ FeesEarned \in Int /\ Withdrawn \in Int /\ CreditedSum \in Int
        /\ Holdings = Held(balance) /\ Holdings' = Held(balance')
        /\ PaymentsInv /\ PaymentTypeOK /\ balance \in [Users -> BalanceRow] /\ IsFiniteSet(txn)
    BY BookInts DEF HubInv, PaymentsInv, NoneFailed, Holdings, Held, PaymentTypeOK
  <1>2. CASE UNCHANGED <<balance, Credited>> /\ OutstandingKept
    <2>1. Withdrawn' = Withdrawn /\ CreditedSum' = CreditedSum /\ Holdings' = Holdings
      BY <1>1, <1>2, WithdrawnKept, CreditedSumKept
    <2> QED
      BY <2>1 DEF Assets
  <1>3. CASE DebitMove
    <2>1. PICK u \in Users, a \in PaymentAmounts : \E row :
            /\ balance' = [balance EXCEPT ![u] = Moved(balance[u], -a, 0)]
            /\ row \notin Outstanding /\ row.amount = a
            /\ Outstanding' = Outstanding \cup {row}
            /\ UNCHANGED Credited
      BY <1>3 DEF DebitMove
    <2>2. a \in Nat /\ -a \in Int
      BY PaymentAssumption
    <2>3. Holdings' = Holdings + (-a)
      BY <1>1, <2>1, <2>2, HeldPaid
    <2>4. Withdrawn' = Withdrawn + a
      BY <1>1, <2>1, <2>2, WithdrawnGrows
    <2>5. CreditedSum' = CreditedSum
      BY <1>1, <2>1, CreditedSumKept
    <2> QED
      BY <1>1, <2>2, <2>3, <2>4, <2>5 DEF Assets
  <1>4. CASE CreditMove
    <2>1. PICK j \in PaymentJobs \ Credited :
            /\ HasRow(j[2], "TOPUP")
            /\ balance' = PaidIn(j[2])
            /\ UNCHANGED Outstanding
            /\ Credited' = Credited \cup {j}
      BY <1>4 DEF CreditMove
    <2>2. PICK u \in Users, a \in Nat : u = Payment(j[2]).user /\ a = Payment(j[2]).amount
      BY <1>1, <2>1, InvParts, PaymentIsFound DEF PaymentTypes
    <2>3. balance' = [balance EXCEPT ![u] = Moved(balance[u], a, 0)]
      BY <2>1, <2>2 DEF PaidIn
    <2>4. Holdings' = Holdings + a
      <3>1. a \in Int
        OBVIOUS
      <3> QED
        BY <1>1, <2>3, <3>1, HeldPaid
    <2>5. Withdrawn' = Withdrawn
      BY <1>1, <2>1, WithdrawnKept DEF OutstandingKept
    <2>6. CreditedSum' = CreditedSum + a
      BY <1>1, <2>1, <2>2, CreditedSumGrows
    <2> QED
      BY <1>1, <2>4, <2>5, <2>6 DEF Assets
  <1> QED
    BY <1>2, <1>3, <1>4 DEF SumsMove

LEMMA EscrowsKeepBooks ==
  ASSUME HubInv, NoneFailed, Next, UNCHANGED paymentVars
  PROVE  Assets' - CreditedSum' = Assets - CreditedSum /\ NoneFailed'
  <1>1. IInv /\ PaymentsInv /\ PaymentTypeOK /\ IsFiniteSet(txn) /\ TxnEffect
    BY NextKeeps DEF HubInv, PaymentsInv, NoneFailed, Effects
  <1>2. IsFiniteSet(txn') /\ (Holdings + FeesEarned)' = Holdings + FeesEarned
    BY <1>1, BooksKept
  <1>3. \A row : IsPayment(row) => (row \in txn' <=> row \in txn)
    BY <1>1, PaymentRowsStay
  <1>4. UNCHANGED Outstanding
    BY <1>3, OtherRows DEF IsPayment
  <1>5. Withdrawn' = Withdrawn
    BY <1>1, <1>4, WithdrawnKept DEF OutstandingKept
  <1>6. KeysUnique'
    BY <1>1, EscrowKeepsPayments DEF PaymentsInv
  <1>7. UNCHANGED Credited
    BY DEF Credited, RunAt, paymentVars
  <1>8. CreditedSum' = CreditedSum
    BY <1>1, <1>6, <1>7, AmountsOfEscrows, CreditedSumKept
  <1>9. NoneFailed'
    BY <1>2, <1>3 DEF NoneFailed, IsPayment, paymentVars
  <1> QED
    BY <1>2, <1>5, <1>8, <1>9 DEF Assets

(* The books of the hub, over the integers.                                *)
Balanced == Assets - CreditedSum = SumFunction(Funds)

LEMMA BooksFollow ==
  ASSUME NoWorkerFault
  PROVE  HubInv /\ NoneFailed /\ Balanced /\ [HubNext]_hubVars => (NoneFailed /\ Balanced)'
  <1> SUFFICES ASSUME HubInv, NoneFailed, Balanced, [HubNext]_hubVars
               PROVE  NoneFailed' /\ Balanced'
    OBVIOUS
  <1>1. CASE Next /\ UNCHANGED paymentVars
    BY <1>1, EscrowsKeepBooks DEF Balanced
  <1>2. CASE PaymentsNext /\ UNCHANGED escrowVars
    BY <1>2, PaymentsMove, AmountsOfPayments, FeesStay, SumsMoveTogether, HubStays DEF Balanced
  <1>3. CASE UNCHANGED hubVars
    BY <1>3 DEF hubVars, paymentVars, NoneFailed, Balanced, Assets, Holdings, FeesEarned, Rows,
                Withdrawn, CreditedSum, Credited, RunAt, Payment
  <1> QED
    BY <1>1, <1>2, <1>3 DEF HubNext

LEMMA FundsAreInts == SumFunction(Funds) \in Int
  BY SumOfInts, StoreAssumption

LEMMA HubBooksOpen == HubInit => NoneFailed /\ Balanced
  <1> SUFFICES ASSUME HubInit PROVE NoneFailed /\ Balanced
    OBVIOUS
  <1>1. Init /\ txn = {} /\ PaymentsInv /\ HubInv
    BY HubInitInv DEF HubInit, Init, InitEscrowStore, InitStore, HubInv
  <1>2. IsFiniteSet(txn) /\ Holdings + FeesEarned = SumFunction(Funds)
    BY <1>1, BooksOpen DEF BooksBalance
  <1>3. \A j \in PaymentJobs : prun[j].pc = "idle" /\ pjob[j].state = "none"
    BY DEF HubInit, InitPayments, InitPaymentStore, InitProcessors, Resting, NoJob
  <1>4. NoneFailed
    BY <1>1, <1>2, <1>3 DEF NoneFailed, Undoing
  <1>5. Credited = {} /\ Outstanding = {}
    BY <1>1, <1>3 DEF Credited, RunAt, Outstanding, Rows
  <1>6. ASSUME NEW f, DOMAIN f = {} PROVE SumFunction(f) = 0
    BY <1>6, FS_EmptySet, SumEquation DEF SumFunction
  <1>7. CreditedSum = 0
    <2> DEFINE f == [j \in Credited |-> Payment(j[2]).amount]
    <2>1. DOMAIN f = {} /\ CreditedSum = SumFunction(f)
      BY <1>5 DEF CreditedSum
    <2> HIDE DEF f
    <2> QED
      BY <1>6, <2>1
  <1>8. Withdrawn = 0
    <2> DEFINE f == [row \in Outstanding |-> row.amount]
    <2>1. DOMAIN f = {} /\ Withdrawn = SumFunction(f)
      BY <1>5 DEF Withdrawn, Outstanding
    <2> HIDE DEF f
    <2> QED
      BY <1>6, <2>1
  <1> QED
    BY <1>2, <1>4, <1>7, <1>8, FundsAreInts DEF Balanced, Assets

LEMMA BalancedIsBooks == HubInv /\ NoneFailed /\ Balanced => HubBooksBalance
  <1>1. HubInv /\ NoneFailed /\ Balanced =>
          Holdings + FeesEarned + Withdrawn = SumFunction(Funds) + CreditedSum
    BY BookInts, FundsAreInts DEF Balanced, Assets, NoneFailed
  <1> QED
    BY <1>1 DEF HubBooksBalance, CreditedSum

(* While no worker step fails, the books of the whole hub balance: money   *)
(* leaves the users' rows only as a fee or under a withdrawal's row, and   *)
(* enters them only once for every confirmation that was credited.         *)
THEOREM HubBooksAlwaysBalance ==
  ASSUME NoWorkerFault
  PROVE  HubSpec => []HubBooksBalance
  BY HubBooksOpen, BooksFollow, BalancedIsBooks, HubInvariant, PTL DEF HubSpec

-----------------------------------------------------------------------------
(* The hub can pay what it owes. *)

(* The run of a withdrawal is past its call of Airtm, for good.            *)
Past(k) ==
  \/ prun[WithdrawJob(k)].pc \in {"markPaid", "notify"}
  \/ pjob[WithdrawJob(k)].state = "completed"

PaidAtMostOnce == \A k \in Keys : payout[k] = 0 \/ (payout[k] = 1 /\ Past(k))

LEMMA PastStays ==
  ASSUME PaymentsInv, NEW j \in PaymentJobs, NEW k \in Keys, Past(k),
         \A i \in PaymentJobs : i # j => prun'[i] = prun[i] /\ pjob'[i] = pjob[i],
         j = WithdrawJob(k) => Past(k)'
  PROVE  Past(k)'
  <1>1. WithdrawJob(k) \in PaymentJobs
    BY JobOfKey
  <1> QED
    BY <1>1 DEF Past, WithdrawJob

(* A run that is not about to mark or announce a payout is not past it.    *)
LEMMA RunIsNotPast ==
  ASSUME PaymentsInv, NEW k \in Keys, Past(k), ~RunAt(WithdrawJob(k), "idle")
  PROVE  prun[WithdrawJob(k)].pc \in {"markPaid", "notify"}
  <1>1. WithdrawJob(k) \in PaymentJobs
    BY JobOfKey
  <1>2. pjob[WithdrawJob(k)].state = "active"
    BY <1>1, RunningHasRow
  <1> QED
    BY <1>2 DEF Past

LEMMA RunToIsPast ==
  ASSUME PaymentsInv, NEW j \in PaymentJobs, NEW pc, RunTo(j, pc), UNCHANGED pjob,
         RunAt(j, "idle") \/ j[1] # "withdraw" \/ pc \in {"markPaid", "notify"}
           \/ prun[j].pc \notin {"markPaid", "notify", "idle"}
  PROVE  \A k \in Keys : Past(k) => Past(k)'
  <1> SUFFICES ASSUME NEW k \in Keys, Past(k) PROVE Past(k)'
    OBVIOUS
  <1>0. PaymentTypeOK
    BY InvParts
  <1>1. /\ prun'[j] = [prun[j] EXCEPT !.pc = pc]
        /\ \A i \in PaymentJobs : i # j => prun'[i] = prun[i] /\ pjob'[i] = pjob[i]
    BY <1>0 DEF RunTo, PaymentTypeOK
  <1>2. prun'[j].pc = pc
    BY <1>0, <1>1 DEF PaymentTypeOK, PaymentRun
  <1>3. ASSUME j = WithdrawJob(k) PROVE Past(k)'
    <2>1. j[1] = "withdraw"
      BY <1>3, JobOfKey
    <2>2. CASE RunAt(j, "idle")
      <3>1. pjob[j].state = "completed"
        BY <1>3, <2>2 DEF Past, RunAt
      <3> QED
        BY <1>3, <3>1 DEF Past, WithdrawJob
    <2>3. CASE ~RunAt(j, "idle")
      <3>1. prun[j].pc \in {"markPaid", "notify"}
        BY <1>3, <2>3, RunIsNotPast
      <3>2. pc \in {"markPaid", "notify"}
        BY <2>1, <2>3, <3>1
      <3> QED
        BY <1>2, <1>3, <3>2 DEF Past, WithdrawJob
    <2> QED
      BY <2>2, <2>3
  <1> QED
    BY <1>1, <1>3, PastStays

LEMMA RunEndsIsPast ==
  ASSUME PaymentsInv, NEW j \in PaymentJobs, NEW outcome, RunEnds(j, outcome),
         j[1] # "withdraw" \/ outcome.state = "completed"
  PROVE  \A k \in Keys : Past(k) => Past(k)'
  <1> SUFFICES ASSUME NEW k \in Keys, Past(k) PROVE Past(k)'
    OBVIOUS
  <1>1. /\ pjob'[j] = outcome
        /\ \A i \in PaymentJobs : i # j => prun'[i] = prun[i] /\ pjob'[i] = pjob[i]
    BY InvParts DEF RunEnds, PaymentTypeOK
  <1>2. ASSUME j = WithdrawJob(k) PROVE Past(k)'
    BY <1>1, <1>2, JobOfKey DEF Past, WithdrawJob
  <1> QED
    BY <1>1, <1>2, PastStays

PastKept == UNCHANGED payout /\ \A k \in Keys : Past(k) => Past(k)'

LEMMA KeptIsOnce ==
  ASSUME PaidAtMostOnce, PastKept
  PROVE  PaidAtMostOnce'
  BY DEF PaidAtMostOnce, PastKept

LEMMA NothingRunsIsPast ==
  ASSUME UNCHANGED <<payout, pjob, prun>>
  PROVE  PastKept
  BY DEF PastKept, Past, WithdrawJob

LEMMA ServicesKeepPast ==
  ASSUME PaymentsInv, ServicesNext, UNCHANGED prun
  PROVE  PastKept
  <1>1. ASSUME NEW r \in Callers, AddJob(r) PROVE PastKept
    <2>1. PICK j \in PaymentJobs : preq[r].job = j
      BY <1>1, InvParts, CallIsTyped DEF AddJob, CallAt
    <2>2. pjob' = [pjob EXCEPT ![j] = Added(pjob[j])] /\ UNCHANGED payout
      BY <1>1, <2>1 DEF AddJob
    <2>3. pjob[j] \in JobRecord /\ pjob \in [PaymentJobs -> JobRecord]
      BY InvParts DEF PaymentTypeOK
    <2>4. pjob[j].state = "completed" => Added(pjob[j]).state = "completed"
      BY <2>3 DEF Added, JobRecord
    <2>5. \A i \in PaymentJobs : pjob[i].state = "completed" => pjob'[i].state = "completed"
      BY <2>2, <2>3, <2>4
    <2> QED
      BY <2>2, <2>5, JobOfKey DEF PastKept, Past, WithdrawJob
  <1>2. CASE UNCHANGED <<payout, pjob>>
    BY <1>2, NothingRunsIsPast
  <1> QED
    BY <1>1, <1>2 DEF ServicesNext, CallStep, Withdraw, Topup, Callback, DebitWrite, DebitConflict,
                      CallAborted

LEMMA WithdrawalKeepsPast ==
  ASSUME PaymentsInv, NoneFailed, NoWorkerFault, PaidAtMostOnce,
         NEW k \in Keys, WithdrawalStep(k)
  PROVE  PaidAtMostOnce'
  <1>1. PICK j \in PaymentJobs : j = WithdrawJob(k) /\ j[1] = "withdraw" /\ j[2] = k
    BY JobOfKey
  <1>2. prun[j].pc \notin Undoing
    BY DEF NoneFailed
  <1>3. CASE Pay(k)
    <2>1. /\ RunTo(j, "markPaid") /\ RunAt(j, "pay") /\ UNCHANGED pjob
          /\ payout' = [payout EXCEPT ![k] = payout[k] + 1]
      BY <1>1, <1>3 DEF Pay, Transferred, NoWorkerFault
    <2>2. \A i \in Keys : Past(i) => Past(i)'
      BY <2>1, RunToIsPast
    <2>3. ~Past(k)
      BY <1>1, <2>1, RunIsNotPast DEF RunAt
    <2>4. payout[k] = 0 /\ payout \in [Keys -> Nat]
      BY <2>3, InvParts DEF PaidAtMostOnce, PaymentTypeOK
    <2>5. Past(k)'
      <3>1. prun'[j].pc = "markPaid"
        BY <2>1, InvParts DEF RunTo, PaymentTypeOK, PaymentRun
      <3> QED
        BY <1>1, <3>1 DEF Past, WithdrawJob
    <2> QED
      BY <2>1, <2>2, <2>4, <2>5 DEF PaidAtMostOnce
  <1>4. CASE MarkPaid(k)
    <2>1. RunTo(j, "notify") /\ UNCHANGED <<pjob, payout>>
      BY <1>1, <1>4 DEF MarkPaid
    <2> QED
      BY <2>1, RunToIsPast, KeptIsOnce DEF PastKept
  <1>5. ~PayThrows(k) /\ ~RestoreRead(k) /\ ~RestoreWrite(k)
    BY <1>1, <1>2 DEF PayThrows, RestoreRead, ReadBalance, RestoreWrite, RunAt, Undoing, NoWorkerFault
  <1> QED
    BY <1>3, <1>4, <1>5 DEF WithdrawalStep

LEMMA RunsKeepPast ==
  ASSUME PaymentsInv, NoneFailed, NoWorkerFault, NEW j \in PaymentJobs,
         \/ PaymentStart(j)
         \/ j[1] = "session" /\ SessionStep(j[2])
         \/ CreditRead(j) \/ CreditWrite(j) \/ AttemptThrows(j) \/ NotifyPayment(j)
  PROVE  PastKept
  <1>0. PaymentTypeOK /\ j[2] \in Keys
    BY InvParts, JobKind
  <1>1. prun[j].pc \notin Undoing
    BY DEF NoneFailed
  <1>2. ASSUME NEW pc, ~RunAt(j, "idle"), j[1] # "withdraw",
               \A i \in PaymentJobs : i # j => prun'[i] = prun[i],
               UNCHANGED <<pjob, payout>>
        PROVE  PastKept
    <2>1. \A k \in Keys : WithdrawJob(k) # j /\ WithdrawJob(k) \in PaymentJobs
      BY <1>2, JobOfKey
    <2> QED
      BY <1>2, <2>1 DEF PastKept, Past, WithdrawJob
  <1>3. CASE PaymentStart(j)
    <2>1. /\ pjob[j].state = "waiting" /\ UNCHANGED payout
          /\ \A i \in PaymentJobs : i # j => prun'[i] = prun[i] /\ pjob'[i] = pjob[i]
      BY <1>0, <1>3 DEF PaymentStart, RunTo, PaymentTypeOK
    <2>2. ASSUME NEW k \in Keys, j = WithdrawJob(k) PROVE ~Past(k)
      <3>1. RunAt(j, "idle")
        BY <2>1, InvParts DEF PaymentsRunning
      <3> QED
        BY <2>1, <2>2, <3>1 DEF Past, RunAt
    <2> QED
      BY <2>1, <2>2, PastStays DEF PastKept
  <1>4. CASE j[1] = "session" /\ SessionStep(j[2])
    <2>1. j = SessionJob(j[2])
      BY <1>4, JobKind
    <2>2. UNCHANGED payout
      BY <1>4 DEF SessionStep, CreateSession, SaveSession, FailTopup
    <2>3. ASSUME NEW pc, RunTo(j, pc), UNCHANGED pjob PROVE PastKept
      BY <1>4, <2>2, <2>3, RunToIsPast DEF PastKept
    <2>4. CASE RunEnds(j, Completed(pjob[j]))
      BY <1>4, <2>2, <2>4, RunEndsIsPast DEF PastKept
    <2> QED
      BY <1>4, <2>1, <2>3, <2>4 DEF SessionStep, CreateSession, SaveSession, FailTopup
  <1>5. CASE CreditRead(j)
    <2>1. j[1] = "credit" /\ RunAt(j, "creditRead") /\ UNCHANGED <<pjob, payout>>
          /\ \A i \in PaymentJobs : i # j => prun'[i] = prun[i]
      BY <1>0, <1>5 DEF CreditRead, ReadBalance, PaymentTypeOK
    <2> QED
      BY <1>2, <2>1, PcIsNotIdle
  <1>6. CASE CreditWrite(j)
    <2>1. RunAt(j, "creditWrite") /\ RunTo(j, "notify") /\ UNCHANGED <<pjob, payout>>
      BY <1>6 DEF CreditWrite
    <2> QED
      BY <2>1, RunToIsPast DEF PastKept
  <1>7. CASE AttemptThrows(j)
    <2>1. RunAt(j, "creditWrite") /\ RunEnds(j, Failed(pjob[j])) /\ UNCHANGED payout
      BY <1>1, <1>7 DEF AttemptThrows, NoWorkerFault, Undoing, RunAt
    <2>2. j[1] # "withdraw"
      BY <2>1, PcIsNotIdle, RunningHasRow, JobKind, StepsOf DEF RunAt
    <2> QED
      BY <2>1, <2>2, RunEndsIsPast DEF PastKept
  <1>8. CASE NotifyPayment(j)
    <2>1. RunAt(j, "notify") /\ RunEnds(j, Completed(pjob[j])) /\ UNCHANGED payout
      BY <1>1, <1>8 DEF NotifyPayment, Undoing, RunAt
    <2>2. Completed(pjob[j]).state = "completed"
      BY <1>0 DEF PaymentTypeOK, JobRecord, Completed
    <2> QED
      BY <2>1, <2>2, RunEndsIsPast DEF PastKept
  <1> QED
    BY <1>3, <1>4, <1>5, <1>6, <1>7, <1>8

LEMMA PaidOnceFollows ==
  ASSUME HubInv, NoneFailed, NoWorkerFault, PaidAtMostOnce, [HubNext]_hubVars
  PROVE  PaidAtMostOnce'
  <1>0. PaymentsInv
    BY DEF HubInv
  <1>1. CASE ServicesNext /\ UNCHANGED prun
    BY <1>0, <1>1, ServicesKeepPast, KeptIsOnce
  <1>2. CASE ProcessorsNext /\ UNCHANGED preq
    <2>1. PICK j \in PaymentJobs : PaymentStep(j) \/ PaymentCrash(j)
      BY <1>2 DEF ProcessorsNext
    <2>2. ~PaymentCrash(j) /\ j[2] \in Keys
      BY JobKind DEF PaymentCrash, NoWorkerFault
    <2> QED
      BY <1>0, <2>1, <2>2, WithdrawalKeepsPast, RunsKeepPast, KeptIsOnce DEF PaymentStep
  <1>3. CASE UNCHANGED <<payout, pjob, prun>>
    BY <1>3, NothingRunsIsPast, KeptIsOnce
  <1> QED
    BY <1>1, <1>2, <1>3
    DEF HubNext, hubVars, paymentVars, PaymentsNext, AirtmNext, SessionEnds

(* Keys of a type of payment are as finite as the table.                   *)
LEMMA KeysAreFinite ==
  ASSUME IsFiniteSet(txn), NEW type, NEW S, \A k \in S : HasRow(k, type)
  PROVE  IsFiniteSet(S)
  <1> DEFINE f == [row \in txn |-> row.key]
             T == {f[row] : row \in DOMAIN f}
  <1>1. S \subseteq T
    BY DEF HasRow
  <1>2. DOMAIN f = txn
    OBVIOUS
  <1> HIDE DEF f
  <1>3. IsFiniteSet(T)
    BY <1>2, ImageIsFinite
  <1> QED
    BY <1>1, <1>3, FS_Subset

(* Airtm pays out what was debited, once.                                  *)
LEMMA PaidOutIsWithdrawn ==
  ASSUME HubInv, NoneFailed, PaidAtMostOnce
  PROVE  PaidOutSum \in Int /\ PaidOutSum <= Withdrawn
  <1>0. PaymentsInv /\ PaymentTypeOK /\ KeysUnique /\ IsFiniteSet(txn)
    BY DEF HubInv, PaymentsInv, NoneFailed
  <1> DEFINE paid == {k \in Keys : payout[k] > 0}
             f == [k \in paid |-> payout[k] * Payment(k).amount]
             g == [row \in Outstanding |-> row.amount]
             h == [k \in paid |-> Payment(k)]
  <1>1. PaidOutSum = SumFunction(f) /\ Withdrawn = SumFunction(g)
    BY DEF PaidOutSum, Withdrawn, Outstanding
  <1>2. ASSUME NEW k \in paid
        PROVE  /\ HasRow(k, "WITHDRAWAL") /\ payout[k] = 1
               /\ Payment(k) \in Outstanding /\ Payment(k).key = k /\ Payment(k).amount \in Nat
    <2>1. HasRow(k, "WITHDRAWAL")
      BY <1>0, InvParts DEF PaymentsTruthful
    <2>2. payout[k] = 1
      BY DEF PaidAtMostOnce
    <2>3. /\ Payment(k) \in txn /\ Payment(k).type = "WITHDRAWAL" /\ Payment(k).key = k
          /\ Payment(k).amount \in Nat
      BY <1>0, <2>1, PaymentIsFound DEF PaymentTypes
    <2>4. Payment(k) \in Outstanding
      BY <2>3 DEF Outstanding, Rows, NoneFailed
    <2> QED
      BY <2>1, <2>2, <2>3, <2>4
  <1>3. IsFiniteSet(paid)
    BY <1>0, <1>2, KeysAreFinite
  <1>4. IsFiniteSet(Outstanding) /\ \A row \in Outstanding : row.amount \in Nat
    BY <1>0, OutstandingRows
  <1>5. ASSUME NEW k \in paid
        PROVE  /\ f[k] = Payment(k).amount
               /\ h[k] \in Outstanding /\ h[k].key = k /\ g[h[k]] = Payment(k).amount
               /\ Payment(k).amount \in Nat
    <2>1. f[k] = payout[k] * Payment(k).amount /\ h[k] = Payment(k)
      OBVIOUS
    <2>2. f[k] = 1 * Payment(k).amount
      BY <1>2, <2>1
    <2> HIDE DEF f, h, paid
    <2> QED
      BY <1>2, <2>1, <2>2
  <1>6. /\ DOMAIN f = paid /\ DOMAIN g = Outstanding
        /\ \A row \in Outstanding : g[row] = row.amount
    OBVIOUS
  <1> HIDE DEF f, g, h, paid
  <1>7. \A x \in DOMAIN f : h[x] \in DOMAIN g /\ f[x] \in Int /\ f[x] <= g[h[x]]
    BY <1>5, <1>6
  <1>8. \A x, y \in DOMAIN f : h[x] = h[y] => x = y
    BY <1>5, <1>6
  <1>9. SumFunction(f) <= SumFunction(g)
    <2>1. \A x \in DOMAIN g : g[x] \in Nat
      BY <1>4, <1>6
    <2> QED
      BY <1>3, <1>4, <1>6, <1>7, <1>8, <2>1, SumIsCovered
  <1>10. SumFunction(f) \in Int
    BY <1>3, <1>6, <1>7, SumOfInts
  <1> QED
    BY <1>1, <1>9, <1>10

(* A deposit that is confirmed once is credited once.                      *)
LEMMA CreditedIsPaidIn ==
  ASSUME HubInv, NoneFailed, MaxCallbacks = 1
  PROVE  PaidInSum \in Int /\ CreditedSum <= PaidInSum
  <1>0. PaymentsInv /\ PaymentTypeOK /\ KeysUnique /\ IsFiniteSet(txn)
    BY DEF HubInv, PaymentsInv, NoneFailed
  <1> DEFINE paid == {k \in Keys : deposit[k] = "paid"}
             f == [j \in Credited |-> Payment(j[2]).amount]
             g == [k \in paid |-> Payment(k).amount]
             h == [j \in Credited |-> j[2]]
  <1>1. CreditedSum = SumFunction(f) /\ PaidInSum = SumFunction(g)
    BY DEF CreditedSum, PaidInSum
  <1>2. ASSUME NEW k \in paid
        PROVE  HasRow(k, "TOPUP") /\ Payment(k).amount \in Nat
    <2>1. HasRow(k, "TOPUP")
      BY <1>0, InvParts DEF RecordedFirst
    <2> QED
      BY <1>0, <2>1, PaymentIsFound DEF PaymentTypes
  <1>3. IsFiniteSet(paid)
    BY <1>0, <1>2, KeysAreFinite
  <1>4. /\ IsFiniteSet(Credited)
        /\ \A j \in Credited : j \in PaymentJobs /\ j[1] = "credit" /\ j[2] \in paid
    BY <1>0, CreditedRows
  <1>5. \A i, j \in Credited : i[2] = j[2] => i = j
    <2> SUFFICES ASSUME NEW i \in Credited, NEW j \in Credited, i[2] = j[2] PROVE i = j
      OBVIOUS
    <2>1. \A x \in Credited : \E k \in Keys : x = <<"credit", k, 1>>
      BY <1>4 DEF PaymentJobs
    <2> QED
      BY <2>1
  <1>6. /\ DOMAIN f = Credited /\ DOMAIN g = paid
        /\ \A j \in Credited : f[j] = Payment(j[2]).amount /\ h[j] = j[2]
        /\ \A k \in paid : g[k] = Payment(k).amount
    OBVIOUS
  <1> HIDE DEF f, g, h, paid
  <1>7. \A k \in DOMAIN g : g[k] \in Nat
    BY <1>2, <1>6
  <1>8. \A x \in DOMAIN f : h[x] \in DOMAIN g /\ f[x] \in Int /\ f[x] <= g[h[x]]
    BY <1>2, <1>4, <1>6
  <1>9. \A x, y \in DOMAIN f : h[x] = h[y] => x = y
    BY <1>5, <1>6
  <1>10. SumFunction(f) <= SumFunction(g)
    BY <1>3, <1>4, <1>6, <1>7, <1>8, <1>9, SumIsCovered
  <1>11. SumFunction(g) \in Int
    BY <1>3, <1>6, <1>7, SumOfInts
  <1> QED
    BY <1>1, <1>10, <1>11

LEMMA BooksAreSolvent ==
  ASSUME HubInv, NoneFailed, Balanced, PaidAtMostOnce, MaxCallbacks = 1
  PROVE  Solvent
  <1>1. /\ Holdings \in Int /\ FeesEarned \in Int /\ Withdrawn \in Int /\ CreditedSum \in Int
        /\ SumFunction(Funds) \in Int
    BY BookInts, FundsAreInts DEF NoneFailed
  <1>2. (Holdings + FeesEarned + Withdrawn) - CreditedSum = SumFunction(Funds)
    BY DEF Balanced, Assets
  <1>3. /\ PaidOutSum \in Int /\ PaidOutSum <= Withdrawn
        /\ PaidInSum \in Int /\ CreditedSum <= PaidInSum
    BY PaidOutIsWithdrawn, CreditedIsPaidIn
  <1> QED
    BY <1>1, <1>2, <1>3 DEF Solvent

LEMMA NonePaidAtFirst == HubInit => PaidAtMostOnce
  BY DEF HubInit, InitPayments, InitPaymentStore, InitAirtm, PaidAtMostOnce

(* While no worker step fails and Airtm confirms a deposit once, what the  *)
(* hub owes its users, what it has earned and what Airtm has paid out for  *)
(* it never exceed what came in.                                           *)
THEOREM HubIsSolvent ==
  ASSUME NoWorkerFault, MaxCallbacks = 1
  PROVE  HubSpec => []Solvent
  <1>1. HubInv /\ NoneFailed /\ PaidAtMostOnce /\ [HubNext]_hubVars => PaidAtMostOnce'
    BY PaidOnceFollows
  <1>2. HubInv /\ NoneFailed /\ Balanced /\ PaidAtMostOnce => Solvent
    BY BooksAreSolvent
  <1> QED
    BY <1>1, <1>2, HubBooksOpen, NonePaidAtFirst, BooksFollow, HubInvariant, PTL DEF HubSpec
=============================================================================
