------------------------------- MODULE Escrow -------------------------------
(***************************************************************************)
(* The escrow life cycle: EscrowService in the API and EscrowProcessor in  *)
(* the workers, over the tables, the queue and the contracts they share.   *)
(***************************************************************************)
EXTENDS EscrowService, EscrowProcessor, Functions

storeVars == <<balance, txn, chain, escrow, job, event>>
vars == <<storeVars, req, run>>

Init == InitEscrowStore /\ InitService /\ InitProcessor

Next ==
  \/ ServiceNext /\ UNCHANGED run
  \/ ProcessorNext /\ UNCHANGED req

Spec == Init /\ [][Next]_vars

(* The event loop resumes a request whose await has settled, and BullMQ    *)
(* hands every waiting job to a worker.  A crash is never required.        *)
Fairness ==
  /\ \A r \in Requests : WF_vars(ServiceStep(r) /\ UNCHANGED run)
  /\ \A j \in JobIds : WF_vars(JobStep(j) /\ UNCHANGED req)

FairSpec == Spec /\ Fairness

-----------------------------------------------------------------------------
TxnRow == [key : Keys \cup (SettlementKinds \X Escrows \X Nat),
           type : {"ESCROW_LOCK", "ESCROW_RELEASE", "ESCROW_REFUND"},
           status : TransactionStatus, user : Users, amount : Amounts,
           escrow : Escrows, reference : Nat]

Contract == [escrow : Escrows, state : {"held"} \cup SettlementKinds]

(* Every table, job and process is in a state the schema and the code allow. *)
TypeOK ==
  /\ balance \in [Users -> BalanceRow]
  /\ \A row \in txn : IsEscrowRow(row) => row \in TxnRow
  /\ chain \in Seq(Contract)
  /\ DOMAIN escrow \subseteq Escrows
  /\ escrow \in [DOMAIN escrow -> EscrowRow]
  /\ job \in [JobIds -> JobRecord]
  /\ event \subseteq WebhookEvents \X Escrows
  /\ req \in [Requests -> {Idle} \cup ServiceRequest]
  /\ run \in [JobIds -> {NoRun} \cup ProcessorRun]

(* README "concurrent requests cannot double-spend": whatever requests,    *)
(* jobs and failures interleave, no client spends more than is available.  *)
NoOverdraft == \A u \in Users : balance[u].available >= 0

(* The books balance: what users hold, plus the fees of the releases in    *)
(* the transactions table, is what was topped up.  A balance update        *)
(* without its row, a row without its update, or an update made twice by a *)
(* retried job breaks it.                                                  *)
Holdings == SumFunction([u \in Users |-> balance[u].available + balance[u].reserved])

Rows(type) == {row \in txn : row.type = type}

FeesEarned == SumFunction([row \in Rows("ESCROW_RELEASE") |-> Fee(row.amount)])

BooksBalance == Holdings + FeesEarned = SumFunction(Funds)

(* A contract is booked at most once, and only the way the chain settled   *)
(* it, for the escrow it was deployed for: retries of release and refund   *)
(* jobs, and a release racing a refund, do not pay twice.                  *)
PaidOncePerContract ==
  \A x \in {row \in txn : IsSettlement(row)} :
    /\ \A y \in txn : IsSettlement(y) /\ y.reference = x.reference => y = x
    /\ x.reference \in DOMAIN chain
    /\ chain[x.reference].escrow = x.escrow
    /\ chain[x.reference].state =
         IF x.type = "ESCROW_RELEASE" THEN "release" ELSE "refund"

(* A marketplace that is told an escrow was released or refunded finds the *)
(* settlement in the books, and one told it was funded finds a contract.   *)
EventsTruthful ==
  \A e \in Escrows :
    /\ <<"ESCROW_FUNDED", e>> \in event => escrow[e].contract # 0
    /\ <<"ESCROW_RELEASED", e>> \in event =>
         \E row \in txn : row.escrow = e /\ row.type = "ESCROW_RELEASE"
    /\ <<"ESCROW_REFUNDED", e>> \in event =>
         \E row \in txn : row.escrow = e /\ row.type = "ESCROW_REFUND"

(* What a client has reserved is explained by the books and the queue:     *)
(* what was locked (fund() writes a row for each lock, create() one for    *)
(* each escrow, without a lock), less what was settled, less what fund     *)
(* jobs have given back, which is the lock once for each of their runs     *)
(* that failed or stalled.  A lock given back twice in a run, by a run     *)
(* that completed, or by attempts nobody counts breaks it, and so does     *)
(* money reserved that nobody locked.                                      *)
EscrowsOf(u) == {e \in DOMAIN escrow : escrow[e].client = u}

FailedRuns(e) ==
  LET j == <<"fund", e>>
  IN  job[j].attempts + job[j].stalled + (IF At(j, "markFailed") THEN 1 ELSE 0)

RowsSum(rows) == SumFunction([row \in rows |-> row.amount + Fee(row.amount)])

LockSum(u)     == RowsSum({row \in Rows("ESCROW_LOCK") : row.user = u})
SpentSum(u)    == RowsSum({row \in txn : IsSettlement(row) /\ escrow[row.escrow].client = u})
CreatedSum(u)  == SumFunction([e \in EscrowsOf(u) |-> Total(e)])
ReturnedSum(u) == SumFunction([e \in EscrowsOf(u) |-> FailedRuns(e) * Total(e)])

ReserveIsExplained == \A u \in Users :
  LET explained == balance[u].reserved + SpentSum(u) + CreatedSum(u)
  IN  explained <= LockSum(u) /\ LockSum(u) <= explained + ReturnedSum(u)

(* Open escrows are backed: what a client has reserved covers every escrow *)
(* that is FUNDED or DISPUTED.  Holds while no worker step fails.          *)
Open(u) == {e \in DOMAIN escrow : /\ escrow[e].client = u
                                  /\ escrow[e].status \in {"FUNDED", "ACTIVE", "DISPUTED"}}

OpenEscrowsAreBacked ==
  \A u \in Users : balance[u].reserved >= SumFunction([e \in Open(u) |-> Total(e)])

(* No step takes available money unless it records an idempotency key that *)
(* no earlier step used: a repeated fund request debits nothing.           *)
DebitTakesFreshKey ==
  [][\A u \in Users : balance'[u].available < balance[u].available =>
       \E row \in txn' : /\ row.user = u
                         /\ row.key \in Keys
                         /\ \A old \in txn : old.key # row.key]_vars

(* A settled escrow keeps its status: a late release, refund or fund job   *)
(* does not reopen it or change to whom it was paid.                       *)
Final == {"RELEASED", "REFUNDED"}

SettledIsFinal ==
  [][\A e \in DOMAIN escrow :
       escrow[e].status \in Final => escrow'[e].status = escrow[e].status]_vars

(* README "to prevent double-execution on retry": a retried fund job does  *)
(* not give back twice what was locked once.                               *)
NoDoubleRollback == \A u \in Users : balance[u].reserved >= 0

(***************************************************************************)
(* The inductive invariant the proofs use.                                 *)
(***************************************************************************)
(* Requests and jobs are about escrows that exist.                         *)
InUse ==
  /\ \A r \in Requests : req[r] # Idle => req[r].escrow \in DOMAIN escrow
  /\ \A j \in JobIds : job[j].state # "none" => j[2] \in DOMAIN escrow

(* A contract is there to be settled: an escrow gets it with the status    *)
(* that lets a request ask for its settlement, and keeps it.               *)
SettlesDeployed ==
  /\ \A e \in DOMAIN escrow :
       escrow[e].status \in {"FUNDED", "ACTIVE", "DISPUTED"} => escrow[e].contract # 0
  /\ \A r \in Requests : req[r] # Idle /\ req[r].kind # "fund" =>
       escrow[req[r].escrow].contract # 0
  /\ \A j \in JobIds : j[1] # "fund" /\ job[j].state # "none" =>
       escrow[j[2]].contract # 0

(* Nobody is their own freelancer.                                         *)
TwoParties == \A e \in DOMAIN escrow : escrow[e].client # escrow[e].freelancer

(* A job is active exactly while a worker runs it, and a job that is still *)
(* to run has an attempt left.                                             *)
Running == \A j \in JobIds :
  /\ run[j] # NoRun <=> job[j].state = "active"
  /\ job[j].state \in {"none", "waiting", "active"} =>
       job[j].attempts < MaxAttempts /\ job[j].stalled <= MaxStalled

(* A fund request that still finds the version it read finds the amount it *)
(* read too: every write of a balance row advances its version.            *)
SnapshotSound == \A r \in Requests :
  req[r].pc = "lockWrite" =>
    LET row == balance[escrow[req[r].escrow].client]
    IN  /\ req[r].seen <= row.version
        /\ req[r].seen = row.version => row.available >= Total(req[r].escrow)

(* A contract belongs to one escrow: the one that stores its id, and the   *)
(* one whose job settles it or is about to store it.                       *)
OwnContract(c, e) == c \in DOMAIN chain /\ chain[c].escrow = e

ContractsOwned ==
  /\ \A e \in DOMAIN escrow : escrow[e].contract # 0 => OwnContract(escrow[e].contract, e)
  /\ \A e \in Escrows : run[<<"fund", e>>].pc = "fundCommit" =>
       OwnContract(run[<<"fund", e>>].contract, e)
  /\ \A kind \in SettlementKinds, e \in Escrows :
       LET this == run[<<kind, e>>]
       IN  this # NoRun =>
             /\ OwnContract(this.contract, e)
             /\ this.pc \in {"tx", "txWrite", "notify"} => chain[this.contract].state = kind

(* Idempotency keys are unique, and a settlement in the books has the key, *)
(* the escrow and the side of the contract it refers to.                   *)
Booked ==
  /\ \A x, y \in txn : x.key = y.key => x = y
  /\ \A x \in txn : IsSettlement(x) =>
       LET kind == IF x.type = "ESCROW_RELEASE" THEN "release" ELSE "refund"
       IN  /\ x.key = SettlementKey(kind, x.escrow, x.reference)
           /\ OwnContract(x.reference, x.escrow)
           /\ chain[x.reference].state = kind

IInv ==
  /\ TypeOK /\ InUse /\ Running
  /\ TwoParties /\ SettlesDeployed
  /\ NoOverdraft /\ SnapshotSound
  /\ ContractsOwned /\ Booked

-----------------------------------------------------------------------------
(* The balances table implements the abstract wallet.                      *)
W == INSTANCE Wallet WITH
       Deals <- Amounts,
       money <- [u \in Users |-> [available |-> balance[u].available,
                                  reserved  |-> balance[u].reserved]]

WalletSpec == W!Spec
BackedWallet == W!BackedSpec

-----------------------------------------------------------------------------
(* Every job that was queued ends: retries and stalls are bounded.         *)
JobsEnd == \A j \in JobIds :
  (job[j].state \in {"waiting", "active"}) ~> (job[j].state \in {"completed", "failed"})

(* A fund request that has locked money gets an answer from the worker:    *)
(* the escrow is funded, or its fund job used up its attempts.             *)
LocksAreAnswered == \A r \in Requests, e \in Escrows :
  (req[r].pc = "enqueue" /\ req[r].kind = "fund" /\ req[r].escrow = e)
    ~> \/ job[<<"fund", e>>].state = "failed"
       \/ e \in DOMAIN escrow /\ escrow[e].contract # 0
=============================================================================
