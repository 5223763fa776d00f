--------------------------- MODULE EscrowProcessor ---------------------------
(***************************************************************************)
(* EscrowProcessor of the worker.  Each jobId is run by at most one worker *)
(* at a time (BullMQ's lock), different jobs run concurrently, and other   *)
(* processes act at every await.  A settlement transaction updates the     *)
(* escrow row first, so it holds that row's lock until it ends; its        *)
(* versioned balance updates and its insert take effect when it commits.   *)
(***************************************************************************)
EXTENDS EscrowStore

VARIABLE run      \* what the worker running each job has done so far

NoRun == [pc |-> "idle"]

ProcessorRun ==
  [pc       : {"deploy", "fundCommit", "rollbackRead", "rollbackWrite", "markFailed",
               "call", "tx", "txWrite", "notify"},
   contract : Nat,     \* the contract the run has deployed, or is settling
   seenC    : Nat,     \* versions of the client's and of the freelancer's
   seenF    : Nat]     \* balance row the run has read

InitProcessor == run = [j \in JobIds |-> NoRun]

Active == {j \in JobIds : run[j] # NoRun}

(* No transaction in progress holds the lock of this row of escrows.       *)
RowFree(e) ==
  \A kind \in SettlementKinds : run[<<kind, e>>].pc # "txWrite"

At(j, pc) == run[j].pc = pc

Goto(j, pc) == run' = [run EXCEPT ![j].pc = pc]

(* The processor returns, throws, or dies with its process.                *)
End(j, Outcome) ==
  /\ run' = [run EXCEPT ![j] = NoRun]
  /\ job' = [job EXCEPT ![j] = Outcome]

Take(j, pc) ==
  /\ job[j].state = "waiting"
  /\ Cardinality(Active) < Workers
  /\ job' = [job EXCEPT ![j] = Started(@)]
  /\ run' = [run EXCEPT ![j] = [pc |-> pc, contract |-> escrow[j[2]].contract,
                                seenC |-> 0, seenF |-> 0]]
  /\ UNCHANGED <<balance, txn, chain, escrow, event>>

-----------------------------------------------------------------------------
(* fundEscrow(). *)

FundStart(e) == Take(<<"fund", e>>, "deploy")

(* deployEscrowContract(): it answers, or throws before or after the       *)
(* contract was deployed; a throw goes to the catch block.                 *)
FundDeploy(e) ==
  LET j == <<"fund", e>>
  IN  /\ At(j, "deploy")
      /\ \/ /\ chain' = Deployed(e)
            /\ run' = [run EXCEPT ![j].pc = "fundCommit", ![j].contract = Len(chain) + 1]
         \/ /\ "callFails" \in Faults
            /\ chain' = chain
            /\ Goto(j, "rollbackRead")
         \/ /\ "callLost" \in Faults
            /\ chain' = Deployed(e)
            /\ Goto(j, "rollbackRead")
      /\ UNCHANGED <<balance, txn, escrow, job, event>>

(* Mutant: forgets to store the contract id.                               *)
FundedIdless(e, c) == [escrow EXCEPT ![e].status = "FUNDED"]

Funded(e, c) == [escrow EXCEPT ![e].status = "FUNDED", ![e].contract = c]

(* The transaction: the escrow is FUNDED whatever its status was.          *)
FundCommit(e) ==
  LET j == <<"fund", e>>
  IN  /\ At(j, "fundCommit")
      /\ RowFree(e)
      /\ escrow' = Funded(e, run[j].contract)
      /\ txn' = LocksMarked(e, "COMPLETED", run[j].contract)
      /\ Goto(j, "notify")
      /\ UNCHANGED <<balance, chain, job, event>>

(* The transaction throws, or the webhook queue refuses the event: the     *)
(* same catch block.                                                       *)
FundThrows(e) ==
  LET j == <<"fund", e>>
  IN  /\ \/ At(j, "fundCommit") /\ "dbFails" \in Faults
         \/ At(j, "notify") /\ "queueFails" \in Faults
      /\ Goto(j, "rollbackRead")
      /\ UNCHANGED <<balance, txn, chain, escrow, job, event>>

(* rollbackClientBalance(): read the row, then update it if the version is *)
(* still the same; a conflict is logged and otherwise ignored.             *)
RollbackRead(e) ==
  LET j == <<"fund", e>>
  IN  /\ At(j, "rollbackRead")
      /\ run' = [run EXCEPT ![j].pc = "rollbackWrite",
                            ![j].seenC = balance[escrow[e].client].version]
      /\ UNCHANGED <<balance, txn, chain, escrow, job, event>>

(* Mutant: keeps the fee reserved.                                         *)
GivenBackFeeless(e) ==
  LET u == escrow[e].client
  IN  [balance EXCEPT ![u] = Moved(balance[u], escrow[e].amount, -escrow[e].amount)]

(* The lock is given back to the client, with the fee.                     *)
GivenBack(e) ==
  LET u == escrow[e].client
  IN  [balance EXCEPT ![u] = Moved(balance[u], Total(e), -Total(e))]

RollbackWrite(e) ==
  LET j == <<"fund", e>>
  IN  /\ At(j, "rollbackWrite")
      /\ balance' = IF Current(escrow[e].client, run[j].seenC) THEN GivenBack(e) ELSE balance
      /\ Goto(j, "markFailed")
      /\ UNCHANGED <<txn, chain, escrow, job, event>>

(* The end of the catch block: the lock rows fail, the error is rethrown.  *)
MarkFailed(e) ==
  LET j == <<"fund", e>>
  IN  /\ At(j, "markFailed")
      /\ txn' = LocksMarked(e, "FAILED", 0)
      /\ End(j, Failed(job[j]))
      /\ UNCHANGED <<balance, chain, escrow, event>>

(* A statement of the catch block throws: the rest of it is skipped.       *)
CatchThrows(e) ==
  LET j == <<"fund", e>>
  IN  /\ run[j].pc \in {"rollbackRead", "rollbackWrite", "markFailed"}
      /\ "dbFails" \in Faults
      /\ End(j, Failed(job[j]))
      /\ UNCHANGED <<balance, txn, chain, escrow, event>>

-----------------------------------------------------------------------------
(* releaseEscrow() and refundEscrow().  Neither looks at the escrow's      *)
(* status.  Both throw when it has no contract, which never happens:       *)
(* SettlesDeployed in Escrow says that every such job has one to settle.   *)

(* Mutant: books the settlement without asking the chain for it.           *)
SettleStartUnasked(kind, e) ==
  /\ Take(<<kind, e>>, "tx")
  /\ escrow[e].contract # 0

SettleStart(kind, e) ==
  /\ Take(<<kind, e>>, "call")
  /\ escrow[e].contract # 0

(* The call to Trustless Work: it answers, or its answer is lost.          *)
SettleCall(kind, e) ==
  LET j == <<kind, e>>
      c == run[j].contract
  IN  /\ At(j, "call")
      /\ Accepts(c, kind)
      /\ chain' = Settled(c, kind)
      /\ \/ Goto(j, "tx") /\ job' = job
         \/ "callLost" \in Faults /\ End(j, Failed(job[j]))
      /\ UNCHANGED <<balance, txn, escrow, event>>

SettleRefused(kind, e) ==
  LET j == <<kind, e>>
  IN  /\ At(j, "call")
      /\ ~Accepts(run[j].contract, kind) \/ "callFails" \in Faults
      /\ End(j, Failed(job[j]))
      /\ UNCHANGED <<balance, txn, chain, escrow, event>>

(* The transaction takes the escrow row and reads the balances it will     *)
(* update: the versions it has to find again when it writes.               *)
SettleRead(kind, e) ==
  LET j == <<kind, e>>
  IN  /\ At(j, "tx")
      /\ RowFree(e)
      /\ run' = [run EXCEPT ![j].pc = "txWrite",
                            ![j].seenC = balance[escrow[e].client].version,
                            ![j].seenF = balance[escrow[e].freelancer].version]
      /\ UNCHANGED <<balance, txn, chain, escrow, job, event>>

(* Mutants: the fee stays reserved; the status is not written; the         *)
(* settlement is not recorded.                                             *)
PaidOutFeeless(e) ==
  LET c == escrow[e].client
      f == escrow[e].freelancer
  IN  [balance EXCEPT ![f] = Moved(balance[f], escrow[e].amount, 0),
                      ![c] = Moved(balance[c], 0, -escrow[e].amount)]

Unmarked(e, status) == escrow

Unbooked(kind, e) == txn

(* The three writes of a settlement: the lock is spent, the escrow gets    *)
(* its final status, and transactions a row under the settlement's key.    *)
PaidOut(e) ==
  LET c == escrow[e].client
      f == escrow[e].freelancer
  IN  [balance EXCEPT ![f] = Moved(balance[f], escrow[e].amount, 0),
                      ![c] = Moved(balance[c], 0, -Total(e))]

Marked(e, status) == [escrow EXCEPT ![e].status = status]

Booking(kind, e) == txn \cup {SettlementRow(kind, e, run[<<kind, e>>].contract)}

(* A version has moved on, or the key is in the table already. *)
Conflict(kind, e) ==
  LET seen == run[<<kind, e>>]
  IN  \/ ~Current(escrow[e].client, seen.seenC)
      \/ kind = "release" /\ ~Current(escrow[e].freelancer, seen.seenF)
      \/ Used(SettlementKey(kind, e, seen.contract))

(* The rest of the transaction commits as a whole. *)
ReleaseCommit(e) ==
  /\ At(<<"release", e>>, "txWrite")
  /\ ~Conflict("release", e)
  /\ escrow' = Marked(e, "RELEASED")
  /\ balance' = PaidOut(e)
  /\ txn' = Booking("release", e)
  /\ Goto(<<"release", e>>, "notify")
  /\ UNCHANGED <<chain, job, event>>

RefundCommit(e) ==
  /\ At(<<"refund", e>>, "txWrite")
  /\ ~Conflict("refund", e)
  /\ escrow' = Marked(e, "REFUNDED")
  /\ balance' = GivenBack(e)
  /\ txn' = Booking("refund", e)
  /\ Goto(<<"refund", e>>, "notify")
  /\ UNCHANGED <<chain, job, event>>

(* The transaction throws and is rolled back: a version conflict, a        *)
(* settlement already booked under its key, or a failure of the database.  *)
(* So does the processor when the webhook queue refuses the event.         *)
SettleThrows(kind, e) ==
  LET j == <<kind, e>>
  IN  /\ \/ At(j, "txWrite") /\ Conflict(kind, e)
         \/ run[j].pc \in {"tx", "txWrite"} /\ "dbFails" \in Faults
         \/ At(j, "notify") /\ "queueFails" \in Faults
      /\ End(j, Failed(job[j]))
      /\ UNCHANGED <<balance, txn, chain, escrow, event>>

-----------------------------------------------------------------------------
(* The last statement of the three handlers hands this event to the        *)
(* webhook queue.                                                          *)
EventSent(j) == event \cup {<<EventName[j[1]], j[2]>>}

(* The processor returns, and the job completes.                           *)
Notify(j) ==
  /\ At(j, "notify")
  /\ event' = EventSent(j)
  /\ End(j, Completed(job[j]))
  /\ UNCHANGED <<balance, txn, chain, escrow>>

(* The worker process dies, before or after it has handed over the event;  *)
(* BullMQ finds the job stalled.                                           *)
WorkerCrash(j) ==
  /\ "workerCrash" \in Faults
  /\ run[j] # NoRun
  /\ \/ event' = event
     \/ At(j, "notify") /\ event' = EventSent(j)
  /\ End(j, Stalled(job[j]))
  /\ UNCHANGED <<balance, txn, chain, escrow>>

FundStep(e) ==
  \/ FundStart(e)
  \/ FundDeploy(e)
  \/ FundCommit(e)
  \/ FundThrows(e)
  \/ RollbackRead(e)
  \/ RollbackWrite(e)
  \/ MarkFailed(e)
  \/ CatchThrows(e)

SettleStep(kind, e) ==
  \/ SettleStart(kind, e)
  \/ SettleCall(kind, e)
  \/ SettleRefused(kind, e)
  \/ SettleRead(kind, e)
  \/ SettleThrows(kind, e)
  \/ kind = "release" /\ ReleaseCommit(e)
  \/ kind = "refund" /\ RefundCommit(e)

(* process(): everything the worker running job j may do next.             *)
JobStep(j) ==
  \/ j[1] = "fund" /\ FundStep(j[2])
  \/ j[1] \in SettlementKinds /\ SettleStep(j[1], j[2])
  \/ Notify(j)

ProcessorNext == \E j \in JobIds : JobStep(j) \/ WorkerCrash(j)
=============================================================================
