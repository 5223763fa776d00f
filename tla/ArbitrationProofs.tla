-------------------------- MODULE ArbitrationProofs --------------------------
(***************************************************************************)
(* Theorems about what the escrow workers promise when only some kinds of  *)
(* failure happen, alone and together with disputes: which outcome an      *)
(* escrow has is decided once, and the money it needs stays reserved.      *)
(***************************************************************************)
EXTENDS Arbitration, EscrowSafetyProofs

-----------------------------------------------------------------------------
(* A fund job whose transaction has committed.                             *)
FundDone(e) == \/ run[<<"fund", e>>].pc = "notify"
               \/ job[<<"fund", e>>].state = "completed"

(* While no worker dies and no queue refuses, a fund job commits once.  An *)
(* escrow then has one contract for good: its settlement jobs are about    *)
(* that contract, and so are its settlements in the books.                 *)
CommitsOnce ==
  /\ \A e \in DOMAIN escrow : escrow[e].contract # 0 => FundDone(e)
  /\ \A kind \in SettlementKinds, e \in Escrows :
       run[<<kind, e>>] # NoRun => run[<<kind, e>>].contract = escrow[e].contract
  /\ \A x \in txn : IsSettlement(x) =>
       x.escrow \in DOMAIN escrow /\ x.reference = escrow[x.escrow].contract

NoRefusal == Faults \cap {"queueFails", "workerCrash"} = {}

ContractStays == \A e \in DOMAIN escrow :
  escrow[e].contract # 0 => escrow'[e].contract = escrow[e].contract

LEMMA CommittedOnce ==
  ASSUME IInv, CommitsOnce, NEW e \in DOMAIN escrow, run[<<"fund", e>>].pc = "fundCommit"
  PROVE  escrow[e].contract = 0
  <1> DEFINE j == <<"fund", e>>
  <1>1. j \in JobIds /\ run[j] # NoRun
    BY DEF IInv, TypeOK, JobIds, JobKinds, NoRun
  <1>2. job[j].state = "active"
    BY <1>1, RunIsTyped DEF IInv, Typed
  <1> QED
    BY <1>2 DEF CommitsOnce, FundDone

LEMMA ContractIsFinal ==
  ASSUME IInv, CommitsOnce, EscrowKept
  PROVE  ContractStays
  BY CommittedOnce DEF EscrowKept, ContractStays

(* What a service step does to the jobs and the runs.                      *)
LEMMA ServiceKeepsRuns ==
  ASSUME Typed, ServiceNext, UNCHANGED run
  PROVE  /\ \A j \in JobIds : job[j].state # "none" => job'[j] = job[j]
         /\ \A e \in DOMAIN escrow' : escrow'[e].contract # 0 =>
              e \in DOMAIN escrow /\ escrow'[e].contract = escrow[e].contract
  <1>1. ASSUME UNCHANGED <<escrow, job>>
        PROVE  /\ \A j \in JobIds : job[j].state # "none" => job'[j] = job[j]
               /\ \A e \in DOMAIN escrow' : escrow'[e].contract # 0 =>
                    e \in DOMAIN escrow /\ escrow'[e].contract = escrow[e].contract
    BY <1>1
  <1>2. ASSUME NEW r \in Requests, Enqueue(r)
        PROVE  /\ UNCHANGED escrow
               /\ \A j \in JobIds : job[j].state # "none" => job'[j] = job[j]
    BY <1>2 DEF Enqueue, Added, Typed, TypeOK
  <1>3. ASSUME NEW e, NEW k, NEW c, NEW f, NEW a, Create(e, k, c, f, a)
        PROVE  /\ UNCHANGED job
               /\ \A x \in DOMAIN escrow' : escrow'[x].contract # 0 =>
                    x \in DOMAIN escrow /\ escrow'[x].contract = escrow[x].contract
    BY <1>3 DEF Create
  <1> QED
    BY <1>1, <1>2, <1>3
    DEF ServiceNext, ServiceStep, Fund, Release, Refund, LockRead, LockWrite, LockConflict,
        RequestLost

LEMMA MarkedIsKept ==
  ASSUME Typed, NEW e, NEW status, escrow' = Marked(e, status)
  PROVE  DOMAIN escrow' = DOMAIN escrow
         /\ \A x \in DOMAIN escrow : escrow'[x].contract = escrow[x].contract
  <1>1. \A x \in DOMAIN escrow : escrow[x] \in EscrowRow
    BY TotalIsNat DEF Typed
  <1> QED
    BY <1>1 DEF Marked, EscrowRow

LEMMA FundDoneStays ==
  ASSUME IInv, NoRefusal, Next, NEW e \in Escrows, FundDone(e)
  PROVE  FundDone(e)'
  <1> DEFINE f == <<"fund", e>>
  <1>0. Typed /\ f \in JobIds /\ f[1] = "fund"
    BY DEF IInv, Typed, JobIds, JobKinds
  <1>1. CASE ServiceNext /\ UNCHANGED run
    BY <1>0, <1>1, ServiceKeepsRuns DEF FundDone
  <1>2. CASE ProcessorNext /\ UNCHANGED req
    <2>1. PICK j \in JobIds : WorkerForms(j)
      BY <1>0, <1>2, StepForms DEF ProcessorNext
    <2>2. j = <<j[1], j[2]>>
      BY DEF JobIds
    <2>3. CASE j[1] = "fund" /\ FundCommit(j[2])
      <3>1. run[j] # NoRun /\ run' = [run EXCEPT ![j].pc = "notify"] /\ UNCHANGED job
        BY <2>2, <2>3, NotNoRun DEF FundCommit, Goto
      <3>2. run[j] \in ProcessorRun
        BY <1>0, <3>1, RunIsTyped
      <3>3. run'[f] = run[f] \/ run'[f].pc = "notify"
        BY <1>0, <3>1, <3>2 DEF ProcessorRun, Typed, TypeOK
      <3> QED
        BY <3>1, <3>3 DEF FundDone
    <2>4. CASE \/ j[1] = "release" /\ ReleaseCommit(j[2])
               \/ j[1] = "refund" /\ RefundCommit(j[2])
      <3>1. UNCHANGED job /\ run'[f] = run[f]
        BY <1>0, <2>2, <2>4 DEF ReleaseCommit, RefundCommit, Goto, Typed, TypeOK
      <3> QED
        BY <3>1 DEF FundDone
    <2>5. CASE Notify(j)
      <3>1. run[j] # NoRun /\ run' = [run EXCEPT ![j] = NoRun]
            /\ job' = [job EXCEPT ![j] = Completed(job[j])]
        BY <2>5, NotNoRun DEF Notify, End
      <3>2. job[j] \in JobRecord
        BY <1>0, <3>1, RunIsTyped
      <3>3. Completed(job[j]).state = "completed"
        BY <3>2 DEF Completed, JobRecord
      <3>4. job'[f].state = "completed" \/ (job'[f] = job[f] /\ run'[f] = run[f])
        BY <1>0, <3>1, <3>3 DEF Typed, TypeOK
      <3> QED
        BY <3>4 DEF FundDone
    <2>6. CASE SideStep(j)
      BY <1>0, <2>6 DEF SideStep, FundDone, NoRefusal
    <2> QED
      BY <2>1, <2>3, <2>4, <2>5, <2>6 DEF WorkerForms
  <1> QED
    BY <1>1, <1>2 DEF Next

(* An escrow gets its contract from a fund job that commits.               *)
LEMMA ContractIsCommitted ==
  ASSUME IInv, Next, NEW e \in DOMAIN escrow', escrow'[e].contract # 0
  PROVE  \/ e \in DOMAIN escrow /\ escrow'[e].contract = escrow[e].contract
         \/ FundDone(e)'
  <1>0. Typed
    BY DEF IInv, Typed
  <1>1. CASE ServiceNext /\ UNCHANGED run
    BY <1>0, <1>1, ServiceKeepsRuns
  <1>2. CASE ProcessorNext /\ UNCHANGED req
    <2>1. PICK j \in JobIds : WorkerForms(j)
      BY <1>0, <1>2, StepForms DEF ProcessorNext
    <2>2. j = <<j[1], j[2]>>
      BY DEF JobIds
    <2>3. CASE j[1] = "fund" /\ FundCommit(j[2])
      <3>1. /\ run[j] # NoRun /\ run' = [run EXCEPT ![j].pc = "notify"]
            /\ escrow' = Funded(j[2], run[j].contract)
        BY <2>2, <2>3, NotNoRun DEF FundCommit, Goto
      <3>2. run[j] \in ProcessorRun
        BY <1>0, <3>1, RunIsTyped
      <3>3. run'[j].pc = "notify"
        BY <1>0, <3>1, <3>2 DEF ProcessorRun, Typed, TypeOK
      <3>4. e \in DOMAIN escrow /\ (e # j[2] => escrow'[e] = escrow[e])
        BY <3>1 DEF Funded
      <3> QED
        BY <2>2, <2>3, <3>3, <3>4 DEF FundDone
    <2>4. CASE \/ j[1] = "release" /\ ReleaseCommit(j[2])
               \/ j[1] = "refund" /\ RefundCommit(j[2])
      BY <1>0, <2>4, MarkedIsKept DEF ReleaseCommit, RefundCommit
    <2>5. CASE Notify(j) \/ SideStep(j)
      BY <2>5 DEF Notify, SideStep
    <2> QED
      BY <2>1, <2>3, <2>4, <2>5 DEF WorkerForms
  <1> QED
    BY <1>1, <1>2 DEF Next

(* The runs and the rows stay about the one contract.                      *)
LEMMA RunsStayOnContract ==
  ASSUME IInv, CommitsOnce, EscrowKept, RunEffect, ContractStays,
         NEW kind \in SettlementKinds, NEW e \in Escrows, run'[<<kind, e>>] # NoRun
  PROVE  run'[<<kind, e>>].contract = escrow'[e].contract
  <1> DEFINE j == <<kind, e>>
  <1>0. /\ Typed /\ ContractsOwned
        /\ j \in JobIds /\ j[1] = kind /\ j[2] = e /\ kind # "fund"
    BY DEF IInv, Typed, JobIds, JobKinds, SettlementKinds
  <1>1. run[j] # NoRun =>
          /\ e \in DOMAIN escrow /\ run[j].contract = escrow[e].contract
          /\ escrow[e].contract # 0
    <2> SUFFICES ASSUME run[j] # NoRun
                 PROVE  /\ e \in DOMAIN escrow /\ run[j].contract = escrow[e].contract
                        /\ run[j].contract # 0
      OBVIOUS
    <2>1. OwnContract(run[j].contract, e) /\ run[j].contract = escrow[e].contract
      BY DEF IInv, ContractsOwned, CommitsOnce
    <2>2. e \in DOMAIN escrow
      BY <1>0, RunIsTyped
    <2> QED
      BY <2>1, <2>2 DEF OwnContract, IInv, TypeOK
  <1> HIDE DEF j
  <1>2. e \in DOMAIN escrow /\ escrow[e].contract # 0 /\ run'[j].contract = escrow[e].contract
    <2>1. CASE run'[j] = run[j]
      BY <1>0, <1>1, <2>1 DEF j
    <2>2. CASE run'[j] # run[j]
      <3>1. PICK i, new : /\ i \in JobIds
                          /\ run' = [run EXCEPT ![i] = new]
                          /\ \/ new = NoRun
                             \/ i[1] = "fund"
                             \/ /\ i[2] \in DOMAIN escrow
                                /\ escrow[i[2]].contract # 0
                                /\ new.contract = escrow[i[2]].contract
                             \/ /\ run[i] # NoRun
                                /\ new.contract = run[i].contract
        BY <2>2 DEF RunEffect
      <3>2. i = j /\ new = run'[j]
        BY <1>0, <2>2, <3>1 DEF Typed, TypeOK
      <3> QED
        BY <1>0, <1>1, <3>1, <3>2 DEF j
    <2> QED
      BY <2>1, <2>2
  <1> QED
    BY <1>2 DEF ContractStays, j

LEMMA RowsStayOnContract ==
  ASSUME IInv, CommitsOnce, EscrowKept, TxnEffect, ContractStays,
         NEW x \in txn', IsSettlement(x)
  PROVE  x.escrow \in DOMAIN escrow' /\ x.reference = escrow'[x.escrow].contract
  <1>0. Typed
    BY DEF IInv, Typed
  <1>1. CASE x \in txn
    <2>1. x.escrow \in DOMAIN escrow /\ x.reference = escrow[x.escrow].contract
      BY <1>1 DEF CommitsOnce
    <2>2. x.reference # 0
      BY <1>1 DEF IInv, Booked, OwnContract, TypeOK
    <2> QED
      BY <2>1, <2>2 DEF ContractStays, EscrowKept
  <1>2. CASE x \notin txn
    <2>1. ASSUME NEW k, NEW e, NEW u, NEW a, txn' = txn \cup {LockRow(k, e, u, a)}
          PROVE  FALSE
      BY <1>2, <2>1 DEF LockRow, IsSettlement
    <2>2. ASSUME NEW e, NEW status, NEW c, txn' = LocksMarked(e, status, c)
          PROVE  FALSE
      BY <1>0, <1>2, <2>2, MarkedRows
    <2>3. PICK kind \in SettlementKinds, e \in DOMAIN escrow :
            run[<<kind, e>>].pc = "txWrite" /\ txn' = Booking(kind, e)
      BY <1>2, <2>1, <2>2 DEF TxnEffect
    <2> DEFINE c == run[<<kind, e>>].contract
    <2>4. x.escrow = e /\ x.reference = c
      BY <1>2, <2>3 DEF Booking, SettlementRow
    <2>5. OwnContract(c, e) /\ c = escrow[e].contract
      <3>1. run[<<kind, e>>] # NoRun /\ e \in Escrows
        BY <1>0, <2>3 DEF NoRun, Typed, TypeOK
      <3> QED
        BY <3>1 DEF IInv, ContractsOwned, CommitsOnce
    <2>6. c # 0
      BY <2>5 DEF OwnContract, IInv, TypeOK
    <2> QED
      BY <2>4, <2>5, <2>6 DEF ContractStays, EscrowKept
  <1> QED
    BY <1>1, <1>2

LEMMA CommitsOnceStays ==
  ASSUME IInv, CommitsOnce, NoRefusal, Next
  PROVE  CommitsOnce' /\ ContractStays
  <1>1. IInv' /\ EscrowKept /\ RunEffect /\ TxnEffect
    BY NextKeeps DEF Effects
  <1>2. ContractStays
    BY <1>1, ContractIsFinal
  <1>3. ASSUME NEW e \in DOMAIN escrow', escrow'[e].contract # 0
        PROVE  FundDone(e)'
    <2>1. e \in Escrows
      BY <1>1 DEF IInv, TypeOK
    <2> QED
      BY <1>3, <2>1, ContractIsCommitted, FundDoneStays DEF CommitsOnce
  <1> QED
    BY <1>1, <1>2, <1>3, RunsStayOnContract, RowsStayOnContract DEF CommitsOnce

-----------------------------------------------------------------------------
(* The status an escrow gets when it is settled, and why it is final: the  *)
(* contract has gone to that side, and it is the only one.                 *)
Outcome == [release |-> "RELEASED", refund |-> "REFUNDED"]

StatusSound ==
  /\ \A e \in DOMAIN escrow, kind \in SettlementKinds :
       escrow[e].status = Outcome[kind] =>
         escrow[e].contract # 0 /\ chain[escrow[e].contract].state = kind
  /\ \A x \in txn : IsSettlement(x) => escrow[x.escrow].status \in Final

(* How the status of an escrow changes.                                    *)
StatusMoves(e) ==
  \/ escrow'[e] = escrow[e]
  \/ run[<<"fund", e>>].pc = "fundCommit" /\ escrow'[e].status = "FUNDED"
  \/ \E kind \in SettlementKinds : /\ run[<<kind, e>>].pc = "txWrite"
                                   /\ escrow'[e].status = Outcome[kind]
                                   /\ escrow'[e].contract = escrow[e].contract

LEMMA StatusesMove ==
  ASSUME IInv, Next, NEW e \in DOMAIN escrow
  PROVE  StatusMoves(e)
  <1>0. Typed /\ e \in Escrows /\ escrow[e] \in EscrowRow
    BY TotalIsNat DEF IInv, Typed, TypeOK
  <1>1. CASE ServiceNext
    BY <1>1
    DEF ServiceNext, ServiceStep, Create, Fund, Release, Refund, LockRead, LockWrite,
        LockConflict, Enqueue, RequestLost, StatusMoves
  <1>2. CASE ProcessorNext
    <2>1. PICK j \in JobIds : WorkerForms(j)
      BY <1>0, <1>2, StepForms DEF ProcessorNext
    <2>2. CASE j[1] = "fund" /\ FundCommit(j[2])
      <3>1. CASE e = j[2]
        BY <1>0, <2>2, <3>1 DEF FundCommit, Funded, At, StatusMoves, EscrowRow
      <3>2. CASE e # j[2]
        BY <2>2, <3>2 DEF FundCommit, Funded, StatusMoves
      <3> QED
        BY <3>1, <3>2
    <2>3. ASSUME NEW kind \in SettlementKinds, run[<<kind, j[2]>>].pc = "txWrite",
                 escrow' = Marked(j[2], Outcome[kind])
          PROVE  StatusMoves(e)
      <3>1. CASE e = j[2]
        BY <1>0, <2>3, <3>1 DEF Marked, StatusMoves, EscrowRow
      <3>2. CASE e # j[2]
        BY <2>3, <3>2 DEF Marked, StatusMoves
      <3> QED
        BY <3>1, <3>2
    <2>4. CASE j[1] = "release" /\ ReleaseCommit(j[2])
      BY <2>3, <2>4 DEF ReleaseCommit, At, SettlementKinds, Outcome
    <2>5. CASE j[1] = "refund" /\ RefundCommit(j[2])
      BY <2>3, <2>5 DEF RefundCommit, At, SettlementKinds, Outcome
    <2>6. CASE Notify(j) \/ SideStep(j)
      BY <2>6 DEF Notify, SideStep, StatusMoves
    <2> QED
      BY <2>1, <2>2, <2>4, <2>5, <2>6 DEF WorkerForms
  <1> QED
    BY <1>1, <1>2 DEF Next

(* A job that is about to book a settlement finds the contract settled its *)
(* own way.                                                                *)
LEMMA AboutToBook ==
  ASSUME IInv, CommitsOnce, NEW kind \in SettlementKinds, NEW e \in DOMAIN escrow,
         run[<<kind, e>>].pc = "txWrite"
  PROVE  /\ run[<<kind, e>>].contract = escrow[e].contract
         /\ escrow[e].contract # 0 /\ OwnContract(escrow[e].contract, e)
         /\ chain[escrow[e].contract].state = kind
  <1>1. e \in Escrows /\ run[<<kind, e>>] # NoRun
    BY DEF IInv, TypeOK, NoRun
  <1>2. run[<<kind, e>>].contract = escrow[e].contract
    BY <1>1 DEF CommitsOnce
  <1>3. /\ OwnContract(run[<<kind, e>>].contract, e)
        /\ chain[run[<<kind, e>>].contract].state = kind
    BY <1>1 DEF IInv, ContractsOwned
  <1> QED
    BY <1>2, <1>3 DEF OwnContract, IInv, TypeOK

LEMMA OutcomesDiffer ==
  /\ Final = {Outcome[kind] : kind \in SettlementKinds}
  /\ \A x, y \in SettlementKinds : Outcome[x] = Outcome[y] => x = y
  BY DEF Final, Outcome, SettlementKinds

LEMMA StatusStays ==
  ASSUME IInv, CommitsOnce, NoRefusal, StatusSound, Next,
         NEW e \in DOMAIN escrow, escrow[e].status \in Final
  PROVE  escrow'[e].status = escrow[e].status
  <1>1. PICK kind \in SettlementKinds : escrow[e].status = Outcome[kind]
    BY OutcomesDiffer
  <1>2. escrow[e].contract # 0 /\ chain[escrow[e].contract].state = kind
    BY <1>1 DEF StatusSound
  <1>3. ~ (run[<<"fund", e>>].pc = "fundCommit")
    BY <1>2, CommittedOnce
  <1>4. ASSUME NEW other \in SettlementKinds, run[<<other, e>>].pc = "txWrite"
        PROVE  other = kind
    BY <1>2, <1>4, AboutToBook
  <1>5. CASE escrow'[e] = escrow[e]
    BY <1>5
  <1>6. ASSUME NEW other \in SettlementKinds, run[<<other, e>>].pc = "txWrite",
               escrow'[e].status = Outcome[other]
        PROVE  escrow'[e].status = escrow[e].status
    BY <1>1, <1>4, <1>6
  <1> QED
    BY <1>3, <1>5, <1>6, StatusesMove DEF StatusMoves

(* A new settlement comes with the final status.                           *)
LEMMA BookingMarks ==
  ASSUME IInv, Next, NEW x \in txn', IsSettlement(x), x \notin txn
  PROVE  x.escrow \in DOMAIN escrow /\ escrow'[x.escrow].status \in Final
  <1>0. Typed
    BY DEF IInv, Typed
  <1>1. ASSUME NEW e, NEW k, NEW u, NEW a, txn' = txn \cup {LockRow(k, e, u, a)} PROVE FALSE
    BY <1>1 DEF LockRow, IsSettlement
  <1>2. ASSUME NEW e, NEW status, NEW c, txn' = LocksMarked(e, status, c) PROVE FALSE
    BY <1>0, <1>2, MarkedRows
  <1>3. CASE ServiceNext
    <2>1. ASSUME NEW r \in Requests, LockWrite(r) PROVE FALSE
      BY <1>1, <2>1 DEF LockWrite
    <2>2. ASSUME NEW e, NEW k, NEW c, NEW f, NEW a, Create(e, k, c, f, a) PROVE FALSE
      BY <1>1, <2>2 DEF Create
    <2>3. txn' # txn
      OBVIOUS
    <2> QED
      BY <1>3, <2>1, <2>2, <2>3
      DEF ServiceNext, ServiceStep, Fund, Release, Refund, LockRead, LockConflict, Enqueue,
          RequestLost
  <1>4. CASE ProcessorNext
    <2>1. PICK j \in JobIds : WorkerForms(j)
      BY <1>0, <1>4, StepForms DEF ProcessorNext
    <2>2. ASSUME NEW kind \in SettlementKinds, j = <<kind, j[2]>>, run[j].pc = "txWrite",
                 txn' = Booking(kind, j[2]), NEW status \in Final, escrow' = Marked(j[2], status)
          PROVE  x.escrow \in DOMAIN escrow /\ escrow'[x.escrow].status \in Final
      <3>1. x.escrow = j[2]
        BY <2>2 DEF Booking, SettlementRow
      <3>2. j[2] \in DOMAIN escrow /\ escrow[j[2]] \in EscrowRow
        BY <1>0, <2>2, RunIsTyped, TotalIsNat DEF NoRun, Typed
      <3> QED
        BY <2>2, <3>1, <3>2 DEF Marked, EscrowRow
    <2>3. j = <<j[1], j[2]>>
      BY DEF JobIds
    <2>4. CASE j[1] = "release" /\ ReleaseCommit(j[2])
      BY <2>2, <2>3, <2>4 DEF ReleaseCommit, At, SettlementKinds, Final
    <2>5. CASE j[1] = "refund" /\ RefundCommit(j[2])
      BY <2>2, <2>3, <2>5 DEF RefundCommit, At, SettlementKinds, Final
    <2>6. ~ (j[1] = "fund" /\ FundCommit(j[2])) /\ ~Notify(j) /\ ~SideStep(j)
      BY <1>2 DEF FundCommit, Notify, SideStep
    <2> QED
      BY <2>1, <2>4, <2>5, <2>6 DEF WorkerForms
  <1> QED
    BY <1>3, <1>4 DEF Next

LEMMA StatusSoundStays ==
  ASSUME IInv, CommitsOnce, NoRefusal, StatusSound, Next
  PROVE  StatusSound'
  <1>1. /\ ChainKept /\ EscrowKept /\ ContractStays /\ ContractsOwned /\ CommitsOnce'
        /\ DOMAIN escrow \subseteq Escrows
    BY NextKeeps, CommitsOnceStays DEF IInv, TypeOK
  <1>2. ASSUME NEW e \in DOMAIN escrow', NEW kind \in SettlementKinds,
               escrow'[e].status = Outcome[kind]
        PROVE  escrow'[e].contract # 0 /\ chain'[escrow'[e].contract].state = kind
    <2>1. e \in DOMAIN escrow
      BY <1>1, <1>2 DEF EscrowKept, Outcome, SettlementKinds
    <2>2. ASSUME escrow[e].contract # 0, chain[escrow[e].contract].state = kind
          PROVE  escrow'[e].contract # 0 /\ chain'[escrow'[e].contract].state = kind
      <3>1. OwnContract(escrow[e].contract, e)
        BY <1>1, <2>1, <2>2 DEF ContractsOwned
      <3>2. chain'[escrow[e].contract].state = kind
        BY <1>1, <2>2, <3>1, OwnContractStays
      <3> QED
        BY <1>1, <2>1, <2>2, <3>2 DEF ContractStays
    <2>3. CASE escrow[e].status = Outcome[kind]
      BY <2>1, <2>2, <2>3 DEF StatusSound
    <2>4. ASSUME NEW other \in SettlementKinds, run[<<other, e>>].pc = "txWrite",
                 escrow'[e].status = Outcome[other]
          PROVE  escrow[e].contract # 0 /\ chain[escrow[e].contract].state = kind
      <3>1. other = kind
        BY <1>2, <2>4, OutcomesDiffer
      <3> QED
        BY <2>1, <2>4, <3>1, AboutToBook
    <2>5. escrow'[e].status # "FUNDED"
      BY <1>2 DEF Outcome, SettlementKinds
    <2>6. CASE escrow'[e] = escrow[e]
      BY <1>2, <2>3, <2>6
    <2> QED
      BY <2>1, <2>2, <2>4, <2>5, <2>6, StatusesMove DEF StatusMoves
  <1>3. ASSUME NEW x \in txn', IsSettlement(x)
        PROVE  escrow'[x.escrow].status \in Final
    <2>1. CASE x \in txn
      <3>1. x.escrow \in DOMAIN escrow /\ escrow[x.escrow].status \in Final
        BY <1>3, <2>1 DEF CommitsOnce, StatusSound
      <3> QED
        BY <3>1, StatusStays
    <2>2. CASE x \notin txn
      BY <1>3, <2>2, BookingMarks
    <2> QED
      BY <2>1, <2>2
  <1> QED
    BY <1>2, <1>3 DEF StatusSound

(* The inductive invariant of these two together.                         *)
Decided == IInv /\ CommitsOnce /\ StatusSound

LEMMA InitDecided == Init => Decided
  <1> SUFFICES ASSUME Init PROVE Decided
    OBVIOUS
  <1>1. IInv
    BY InitIInv
  <1>2. /\ txn = {} /\ DOMAIN escrow = {}
        /\ \A j \in JobIds : run[j] = NoRun
    BY DEF Init, InitEscrowStore, InitStore, InitService, InitProcessor
  <1>3. \A kind \in SettlementKinds, e \in Escrows : <<kind, e>> \in JobIds
    BY DEF JobIds, JobKinds
  <1> QED
    BY <1>1, <1>2, <1>3 DEF Decided, CommitsOnce, StatusSound

LEMMA DecidedUnchanged ==
  ASSUME CommitsOnce, StatusSound, UNCHANGED <<txn, chain, escrow, job, run>>
  PROVE  CommitsOnce' /\ StatusSound'
  BY DEF CommitsOnce, StatusSound, FundDone

LEMMA NextDecided ==
  ASSUME NoRefusal
  PROVE  Decided /\ [Next]_vars => Decided'
  <1> SUFFICES ASSUME Decided, [Next]_vars PROVE Decided'
    OBVIOUS
  <1>1. IInv'
    BY NextIInv DEF Decided
  <1>2. CASE Next
    BY <1>1, <1>2, CommitsOnceStays, StatusSoundStays DEF Decided
  <1>3. CASE UNCHANGED vars
    BY <1>1, <1>3, DecidedUnchanged DEF Decided, vars, storeVars
  <1> QED
    BY <1>2, <1>3

(* While no worker dies and no queue refuses, a settlement decides an      *)
(* escrow for good: no late fund job, and no settlement of the other side, *)
(* changes its status again.                                               *)
THEOREM SettledForGood ==
  ASSUME NoRefusal
  PROVE  Spec => SettledIsFinal
  <1>1. Decided /\ [Next]_vars =>
          [\A e \in DOMAIN escrow :
             escrow[e].status \in Final => escrow'[e].status = escrow[e].status]_vars
    BY StatusStays DEF Decided
  <1> QED
    BY <1>1, InitDecided, NextDecided, PTL DEF Spec, SettledIsFinal

-----------------------------------------------------------------------------
(* Locked money.  A fund request that has locked, or a fund job, stands    *)
(* for the money of its escrow until a settlement is in the books.         *)
LockPending(r, e) == req[r].pc = "enqueue" /\ req[r].kind = "fund" /\ req[r].escrow = e

Locked(e) == \/ job[<<"fund", e>>].state # "none"
             \/ \E r \in Requests : LockPending(r, e)

IsSettled(e) == \E row \in txn : IsSettlement(row) /\ row.escrow = e

Backing(u) == {e \in DOMAIN escrow : escrow[e].client = u /\ Locked(e) /\ ~IsSettled(e)}

Needed(u) == SumFunction([e \in Backing(u) |-> Total(e)])

(* While no step of a worker fails, what each client has reserved covers   *)
(* the escrows that stand on it, and no job runs the catch block of fund.  *)
LocksBacked ==
  /\ IsFiniteSet(DOMAIN escrow)
  /\ \A j \in JobIds : run[j].pc \notin Catch
  /\ \A u \in Users : Needed(u) <= balance[u].reserved

LEMMA NoFaultIsNoRefusal == NoWorkerFault => NoRefusal
  BY DEF NoWorkerFault, NoRefusal

-----------------------------------------------------------------------------
(* What a change of the set of escrows does to the sum.                    *)
LEMMA BackingIsFinite ==
  ASSUME TypeOK, IsFiniteSet(DOMAIN escrow), NEW u
  PROVE  /\ IsFiniteSet(Backing(u))
         /\ \A e \in Backing(u) : e \in DOMAIN escrow /\ Total(e) \in Nat
         /\ Needed(u) \in Int
  <1> DEFINE f == [e \in Backing(u) |-> Total(e)]
  <1>1. Backing(u) \subseteq DOMAIN escrow
    BY DEF Backing
  <1>2. IsFiniteSet(Backing(u))
    BY <1>1, FS_Subset
  <1>3. \A e \in Backing(u) : e \in DOMAIN escrow /\ Total(e) \in Nat
    BY <1>1, TotalIsNat
  <1>4. DOMAIN f = Backing(u) /\ \A e \in DOMAIN f : f[e] \in Int
    BY <1>3
  <1>5. Needed(u) = SumFunction(f)
    BY DEF Needed
  <1> HIDE DEF f
  <1> QED
    BY <1>2, <1>3, <1>4, <1>5, SumOfInts

LEMMA NeededShrinks ==
  ASSUME TypeOK, IsFiniteSet(DOMAIN escrow), EscrowKept, NEW u, Backing(u)' \subseteq Backing(u)
  PROVE  Needed(u)' <= Needed(u)
  <1> DEFINE f == [e \in Backing(u)' |-> Total(e)']
             g == [e \in Backing(u) |-> Total(e)]
  <1>1. /\ IsFiniteSet(Backing(u))
        /\ \A e \in Backing(u) : e \in DOMAIN escrow /\ Total(e) \in Nat
    BY BackingIsFinite
  <1>2. \A e \in Backing(u) : Total(e)' = Total(e)
    BY <1>1, TotalIsKept
  <1>3. /\ DOMAIN g = Backing(u) /\ DOMAIN f \subseteq DOMAIN g
        /\ \A e \in DOMAIN f : f[e] = g[e]
        /\ \A e \in DOMAIN g : g[e] \in Nat
    BY <1>1, <1>2
  <1>4. Needed(u) = SumFunction(g) /\ Needed(u)' = SumFunction(f)
    BY DEF Needed
  <1> HIDE DEF f, g
  <1>5. /\ \A e \in DOMAIN f : f[e] \in Int /\ f[e] <= g[e]
        /\ \A e \in DOMAIN g : g[e] \in Int
        /\ \A e \in DOMAIN g \ DOMAIN f : 0 <= g[e]
    BY <1>3
  <1> QED
    BY <1>1, <1>3, <1>4, <1>5, SumIsBelow

LEMMA NeededGrows ==
  ASSUME TypeOK, IsFiniteSet(DOMAIN escrow), EscrowKept, NEW u, NEW x \in DOMAIN escrow,
         Backing(u)' \subseteq Backing(u) \cup {x}
  PROVE  Needed(u)' <= Needed(u) + Total(x)
  <1> DEFINE f == [e \in Backing(u)' |-> Total(e)']
             g == [e \in Backing(u) |-> Total(e)]
             h == [e \in Backing(u) \cup {x} |-> Total(e)]
  <1>1. /\ IsFiniteSet(Backing(u)) /\ Needed(u) \in Int
        /\ \A e \in Backing(u) \cup {x} : e \in DOMAIN escrow /\ Total(e) \in Nat
    BY BackingIsFinite, TotalIsNat
  <1>2. \A e \in Backing(u) \cup {x} : Total(e)' = Total(e)
    BY <1>1, TotalIsKept
  <1>3. CASE x \in Backing(u)
    <2>1. Needed(u)' <= Needed(u)
      BY <1>3, NeededShrinks
    <2>2. Needed(u)' \in Int
      <3>1. DOMAIN f \subseteq Backing(u) /\ \A e \in DOMAIN f : f[e] \in Int
        BY <1>1, <1>2, <1>3
      <3>2. Needed(u)' = SumFunction(f)
        BY DEF Needed
      <3> HIDE DEF f
      <3> QED
        BY <1>1, <3>1, <3>2, FS_Subset, SumOfInts
    <2> QED
      BY <1>1, <1>3, <2>1, <2>2
  <1>4. CASE x \notin Backing(u)
    <2>1. /\ DOMAIN h = DOMAIN g \cup {x} /\ DOMAIN g = Backing(u) /\ x \notin DOMAIN g
          /\ h[x] = Total(x) /\ h[x] \in Int
          /\ \A e \in DOMAIN g : g[e] \in Int /\ h[e] = g[e]
          /\ DOMAIN f \subseteq DOMAIN h
          /\ \A e \in DOMAIN f : f[e] = h[e]
          /\ \A e \in DOMAIN h : h[e] \in Nat
      BY <1>1, <1>2, <1>4
    <2>2. Needed(u) = SumFunction(g) /\ Needed(u)' = SumFunction(f)
      BY DEF Needed
    <2> HIDE DEF f, g, h
    <2>3. SumFunction(h) = SumFunction(g) + Total(x)
      BY <1>1, <2>1, SumGrows
    <2>4. IsFiniteSet(DOMAIN h)
      BY <1>1, <2>1, FS_AddElement
    <2>5. /\ \A e \in DOMAIN f : f[e] \in Int /\ f[e] <= h[e]
          /\ \A e \in DOMAIN h : h[e] \in Int
          /\ \A e \in DOMAIN h \ DOMAIN f : 0 <= h[e]
      BY <2>1
    <2>6. SumFunction(f) <= SumFunction(h)
      BY <2>1, <2>4, <2>5, SumIsBelow
    <2> QED
      BY <2>2, <2>3, <2>6
  <1> QED
    BY <1>3, <1>4

LEMMA NeededIsSpent ==
  ASSUME TypeOK, IsFiniteSet(DOMAIN escrow), EscrowKept, NEW u, NEW x \in Backing(u),
         Backing(u)' \subseteq Backing(u) \ {x}
  PROVE  Needed(u)' <= Needed(u) - Total(x)
  <1> DEFINE f == [e \in Backing(u)' |-> Total(e)']
             g == [e \in Backing(u) |-> Total(e)]
             h == [e \in Backing(u) \ {x} |-> Total(e)]
  <1>1. /\ IsFiniteSet(Backing(u)) /\ IsFiniteSet(Backing(u) \ {x})
        /\ \A e \in Backing(u) : e \in DOMAIN escrow /\ Total(e) \in Nat
    BY BackingIsFinite, FS_Subset
  <1>2. \A e \in Backing(u) : Total(e)' = Total(e)
    BY <1>1, TotalIsKept
  <1>3. /\ DOMAIN g = DOMAIN h \cup {x} /\ DOMAIN h = Backing(u) \ {x} /\ x \notin DOMAIN h
        /\ g[x] = Total(x) /\ g[x] \in Int
        /\ \A e \in DOMAIN h : h[e] \in Int /\ g[e] = h[e]
        /\ DOMAIN f \subseteq DOMAIN h
        /\ \A e \in DOMAIN f : f[e] = h[e]
        /\ \A e \in DOMAIN h : h[e] \in Nat
    BY <1>1, <1>2
  <1>4. Needed(u) = SumFunction(g) /\ Needed(u)' = SumFunction(f)
    BY DEF Needed
  <1> HIDE DEF f, g, h
  <1>5. SumFunction(g) = SumFunction(h) + Total(x)
    BY <1>1, <1>3, SumGrows
  <1>6. /\ \A e \in DOMAIN f : f[e] \in Int /\ f[e] <= h[e]
        /\ \A e \in DOMAIN h : h[e] \in Int
        /\ \A e \in DOMAIN h \ DOMAIN f : 0 <= h[e]
    BY <1>3
  <1>7. SumFunction(f) <= SumFunction(h) /\ SumFunction(h) \in Int
    BY <1>1, <1>3, <1>6, SumIsBelow, SumOfInts
  <1>8. Total(x) \in Nat
    BY <1>1
  <1> QED
    <2> DEFINE s == SumFunction(f)
               t == SumFunction(h)
    <2>1. s <= t /\ t \in Int /\ Needed(u) = t + Total(x) /\ Needed(u)' = s
      BY <1>4, <1>5, <1>7
    <2> QED
      BY <1>8, <2>1

LEMMA NeededCovers ==
  ASSUME TypeOK, IsFiniteSet(DOMAIN escrow), NEW u, NEW x \in Backing(u)
  PROVE  Total(x) <= Needed(u)
  <1> DEFINE f == [e \in {x} |-> Total(e)]
             g == [e \in Backing(u) |-> Total(e)]
             o == [e \in {} |-> Total(e)]
  <1>1. /\ IsFiniteSet(Backing(u)) /\ IsFiniteSet({x})
        /\ \A e \in Backing(u) : Total(e) \in Nat
    BY BackingIsFinite, FS_Singleton
  <1>2. /\ DOMAIN g = Backing(u) /\ DOMAIN f = {x} /\ DOMAIN o = {}
        /\ f[x] = Total(x) /\ \A e \in DOMAIN g : g[e] = Total(e)
    OBVIOUS
  <1>3. Needed(u) = SumFunction(g)
    BY DEF Needed
  <1> HIDE DEF f, g, o
  <1>4. SumFunction(o) = 0
    BY <1>2, SumEquation, FS_EmptySet DEF SumFunction
  <1>5. SumFunction(f) = SumFunction(o) + f[x]
    BY <1>1, <1>2, SumGrows, FS_EmptySet
  <1>6. SumFunction(f) <= SumFunction(g)
    BY <1>1, <1>2, SumIsBelow
  <1> QED
    BY <1>1, <1>2, <1>3, <1>4, <1>5, <1>6

-----------------------------------------------------------------------------
(* Which steps touch the locks, and which the balances.                    *)
LEMMA LockedExists ==
  ASSUME TypeOK, InUse, NEW e \in Escrows, Locked(e)
  PROVE  e \in DOMAIN escrow
  <1>1. <<"fund", e>> \in JobIds
    BY DEF JobIds, JobKinds
  <1>2. \A r \in Requests : LockPending(r, e) => req[r] # Idle
    BY DEF LockPending, Idle
  <1> QED
    BY <1>1, <1>2 DEF Locked, LockPending, InUse

LEMMA LocksMove ==
  ASSUME IInv, Next, NEW e \in Escrows, Locked(e)'
  PROVE  Locked(e) \/ \E r \in Requests : LockWrite(r) /\ req[r].escrow = e
  <1> DEFINE f == <<"fund", e>>
  <1>0. Typed /\ f \in JobIds /\ f = <<"fund", e>>
    BY DEF IInv, Typed, JobIds, JobKinds
  <1> HIDE DEF f
  <1>1. CASE ProcessorNext /\ UNCHANGED req
    <2>1. PICK j \in JobIds : WorkerForms(j)
      BY <1>0, <1>1, StepForms DEF ProcessorNext
    <2>2. job'[f].state # "none" => job[f].state # "none"
      <3>1. CASE UNCHANGED job
        BY <3>1
      <3>2. CASE Notify(j)
        <4>1. run[j] # NoRun
          BY <3>2, NotNoRun DEF Notify
        <4>2. job[j].state = "active" /\ job' = [job EXCEPT ![j] = Completed(job[j])]
          BY <1>0, <3>2, <4>1, RunIsTyped DEF Notify, End
        <4> QED
          BY <1>0, <4>2 DEF Typed, TypeOK
      <3>3. CASE SideStep(j)
        BY <1>0, <3>3 DEF SideStep
      <3> QED
        BY <2>1, <3>1, <3>2, <3>3 DEF WorkerForms, FundCommit, ReleaseCommit, RefundCommit
    <2>3. \A r \in Requests : LockPending(r, e)' => LockPending(r, e)
      BY <1>1 DEF LockPending
    <2> QED
      BY <1>0, <2>2, <2>3 DEF Locked
  <1>2. ASSUME NEW r \in Requests, NEW new, req' = [req EXCEPT ![r] = new],
               ~(new.pc = "enqueue" /\ new.kind = "fund"), UNCHANGED job
        PROVE  Locked(e)
    <2>1. \A q \in Requests : LockPending(q, e)' => LockPending(q, e)
      <3> SUFFICES ASSUME NEW q \in Requests, LockPending(q, e)' PROVE LockPending(q, e)
        OBVIOUS
      <3>1. q = r \/ req'[q] = req[q]
        BY <1>0, <1>2 DEF Typed, TypeOK
      <3>2. q # r
        BY <1>0, <1>2 DEF LockPending, Typed, TypeOK
      <3> QED
        BY <3>1, <3>2 DEF LockPending
    <2> QED
      BY <1>0, <1>2, <2>1 DEF Locked
  <1>3. CASE ServiceNext /\ UNCHANGED run
    <2>1. ASSUME NEW r \in Requests, LockWrite(r)
          PROVE  Locked(e) \/ req[r].escrow = e
      <3>1. /\ UNCHANGED job /\ req' = [req EXCEPT ![r].pc = "enqueue"]
            /\ req[r] # Idle
        BY <2>1, NotIdle DEF LockWrite
      <3>2. req[r] \in ServiceRequest
        BY <1>0, <3>1, RequestIsTyped DEF Typed
      <3>3. req'[r].escrow = req[r].escrow /\ \A q \in Requests \ {r} : req'[q] = req[q]
        BY <1>0, <3>1, <3>2 DEF Typed, TypeOK, ServiceRequest
      <3> QED
        BY <1>0, <3>1, <3>3 DEF Locked, LockPending
    <2>2. ASSUME NEW r \in Requests, Enqueue(r)
          PROVE  Locked(e)
      <3> DEFINE j == <<req[r].kind, req[r].escrow>>
      <3>1. /\ req[r].pc = "enqueue" /\ req[r] # Idle
            /\ job' = [job EXCEPT ![j] = Added(job[j])]
            /\ req' = [req EXCEPT ![r] = Idle]
        BY <2>2, NotIdle DEF Enqueue
      <3>2. \A q \in Requests : LockPending(q, e)' => LockPending(q, e)
        BY <1>0, <3>1 DEF LockPending, Idle, Typed, TypeOK
      <3>3. job'[f].state # "none" => job[f].state # "none" \/ j = f
        BY <1>0, <3>1 DEF Typed, TypeOK
      <3>4. j = f => LockPending(r, e)
        BY <1>0, <3>1 DEF LockPending
      <3> QED
        BY <1>0, <3>2, <3>3, <3>4 DEF Locked
    <2>3. ASSUME NEW r \in Requests, NEW x, NEW k, Fund(r, x, k) PROVE Locked(e)
      BY <1>2, <2>3 DEF Fund, Begin
    <2>4. ASSUME NEW r \in Requests, NEW x, Release(r, x) \/ Refund(r, x) PROVE Locked(e)
      BY <1>2, <2>4 DEF Release, Refund, Begin
    <2>5. ASSUME NEW r \in Requests, LockConflict(r) \/ RequestLost(r) PROVE Locked(e)
      <3>1. req' = [req EXCEPT ![r] = Idle] /\ UNCHANGED job
        BY <2>5 DEF LockConflict, RequestLost
      <3>2. Idle.pc # "enqueue"
        BY DEF Idle
      <3> QED
        BY <1>2, <3>1, <3>2
    <2>6. ASSUME NEW r \in Requests, LockRead(r) PROVE Locked(e)
      <3>1. req[r] \in ServiceRequest
        BY <1>0, <2>6, NotIdle, RequestIsTyped DEF Typed, LockRead
      <3>2. \/ req' = [req EXCEPT ![r] = Idle]
            \/ \E v : req' = [req EXCEPT ![r].pc = "lockWrite", ![r].seen = v]
        BY <2>6 DEF LockRead
      <3>3. UNCHANGED job /\ Idle.pc # "enqueue"
        BY <2>6 DEF LockRead, Idle
      <3>4. ASSUME NEW v, req' = [req EXCEPT ![r].pc = "lockWrite", ![r].seen = v]
            PROVE  Locked(e)
        <4> DEFINE new == [req[r] EXCEPT !.pc = "lockWrite", !.seen = v]
        <4>1. req' = [req EXCEPT ![r] = new] /\ new.pc = "lockWrite"
          BY <3>1, <3>4 DEF ServiceRequest
        <4> HIDE DEF new
        <4> QED
          BY <1>2, <3>3, <4>1
      <3> QED
        BY <1>2, <3>2, <3>3, <3>4
    <2>7. ASSUME NEW x, NEW k, NEW c, NEW g, NEW a, Create(x, k, c, g, a) PROVE Locked(e)
      BY <1>0, <2>7 DEF Create, Locked, LockPending
    <2> QED
      BY <1>3, <2>1, <2>2, <2>3, <2>4, <2>5, <2>6, <2>7 DEF ServiceNext, ServiceStep
  <1> QED
    BY <1>1, <1>3 DEF Next

(* An escrow keeps its client and its settlement, so the set that stands   *)
(* on a client's money only grows by a lock.                               *)
LEMMA BackingMoves ==
  ASSUME IInv, IInv', EscrowKept, TxnEffect, NEW u, NEW e \in Backing(u)'
  PROVE  /\ e \in Escrows /\ Locked(e)'
         /\ e \in DOMAIN escrow => /\ escrow[e].client = u
                                   /\ Locked(e) => e \in Backing(u)
  <1>1. e \in DOMAIN escrow' /\ escrow'[e].client = u /\ Locked(e)' /\ ~IsSettled(e)'
    BY DEF Backing
  <1>2. ~IsSettled(e)
    BY <1>1, SettlementsStay DEF IsSettled
  <1> QED
    BY <1>1, <1>2 DEF Backing, EscrowKept, IInv, TypeOK

(* Without failures only three steps move money.                           *)
LEMMA BalanceMoves ==
  ASSUME IInv, NoWorkerFault, Next, \A j \in JobIds : run[j].pc \notin Catch
  PROVE  /\ \A j \in JobIds : run'[j].pc \notin Catch
         /\ \/ UNCHANGED balance
            \/ \E r \in Requests : LockWrite(r)
            \/ \E e \in DOMAIN escrow : ReleaseCommit(e) \/ RefundCommit(e)
  <1>0. Typed
    BY DEF IInv, Typed
  <1>1. CASE ServiceNext /\ UNCHANGED run
    BY <1>1
    DEF ServiceNext, ServiceStep, Create, Fund, Release, Refund, LockRead,
        LockConflict, Enqueue, RequestLost
  <1>2. CASE ProcessorNext
    <2>1. PICK j \in JobIds : WorkerForms(j)
      BY <1>0, <1>2, StepForms DEF ProcessorNext
    <2>2. j = <<j[1], j[2]>>
      BY DEF JobIds
    <2>3. ASSUME run' = [run EXCEPT ![j].pc = "notify"], run[j] # NoRun
          PROVE  \A i \in JobIds : run'[i].pc \notin Catch
      <3>1. run[j] \in ProcessorRun
        BY <1>0, <2>3, RunIsTyped
      <3>2. \A i \in JobIds : run'[i] = run[i] \/ run'[i].pc = "notify"
        BY <1>0, <2>3, <3>1 DEF ProcessorRun, Typed, TypeOK
      <3> QED
        BY <3>2 DEF Catch
    <2>4. CASE j[1] = "fund" /\ FundCommit(j[2])
      BY <2>2, <2>3, <2>4, NotNoRun DEF FundCommit, Goto
    <2>5. CASE \/ j[1] = "release" /\ ReleaseCommit(j[2])
               \/ j[1] = "refund" /\ RefundCommit(j[2])
      <3>1. run' = [run EXCEPT ![j].pc = "notify"] /\ run[j] # NoRun
        BY <2>2, <2>5, NotNoRun DEF ReleaseCommit, RefundCommit, Goto
      <3>2. j[2] \in DOMAIN escrow
        BY <1>0, <3>1, RunIsTyped
      <3> QED
        BY <2>3, <2>5, <3>1, <3>2
    <2>6. CASE Notify(j)
      <3>1. UNCHANGED balance /\ \A i \in JobIds : run'[i] = run[i] \/ run'[i] = NoRun
        BY <1>0, <2>6 DEF Notify, End, Typed, TypeOK
      <3> QED
        BY <3>1 DEF NoRun, Catch
    <2>7. CASE SideStep(j)
      BY <2>7 DEF SideStep, NoWorkerFault, Catch
    <2> QED
      BY <2>1, <2>4, <2>5, <2>6, <2>7 DEF WorkerForms
  <1> QED
    BY <1>1, <1>2 DEF Next

(* An escrow with a contract had its money locked.                         *)
LEMMA DeployedIsLocked ==
  ASSUME IInv, CommitsOnce, NEW e \in DOMAIN escrow, escrow[e].contract # 0
  PROVE  Locked(e)
  <1>0. Typed /\ e \in Escrows
    BY DEF IInv, Typed, TypeOK
  <1>1. FundDone(e) /\ <<"fund", e>> \in JobIds
    BY <1>0 DEF CommitsOnce, JobIds, JobKinds
  <1>2. run[<<"fund", e>>].pc = "notify" => run[<<"fund", e>>] # NoRun
    BY DEF NoRun
  <1>3. job[<<"fund", e>>].state \in {"active", "completed"}
    BY <1>0, <1>1, <1>2, RunIsTyped DEF FundDone
  <1> QED
    BY <1>3 DEF Locked

(* A settlement that commits is the first of its escrow, whose money is    *)
(* still locked.                                                           *)
LEMMA CommitIsFirst ==
  ASSUME IInv, CommitsOnce, NEW kind \in SettlementKinds, NEW e \in DOMAIN escrow,
         run[<<kind, e>>].pc = "txWrite", ~Conflict(kind, e)
  PROVE  e \in Backing(escrow[e].client)
  <1>0. Typed /\ e \in Escrows
    BY DEF IInv, Typed, TypeOK
  <1>1. /\ run[<<kind, e>>].contract = escrow[e].contract
        /\ escrow[e].contract # 0
        /\ chain[escrow[e].contract].state = kind
    BY AboutToBook
  <1>2. Locked(e)
    BY <1>1, DeployedIsLocked
  <1>3. ~IsSettled(e)
    <2> SUFFICES ASSUME NEW x \in txn, IsSettlement(x), x.escrow = e PROVE FALSE
      BY DEF IsSettled
    <2>1. x.reference = escrow[e].contract
      BY DEF CommitsOnce
    <2>2. PICK side \in SettlementKinds :
            x.key = SettlementKey(side, e, x.reference) /\ chain[x.reference].state = side
      BY DEF IInv, Booked, SettlementKinds
    <2> QED
      BY <1>1, <2>1, <2>2 DEF Conflict, Used
  <1> QED
    BY <1>2, <1>3 DEF Backing

(* What the three steps do to the reserved column.                         *)
LEMMA CommitSpends ==
  ASSUME IInv, NEW e \in DOMAIN escrow, balance' = GivenBack(e) \/ balance' = PaidOut(e)
  PROVE  \A u \in Users :
           balance'[u].reserved =
             IF u = escrow[e].client THEN balance[u].reserved - Total(e) ELSE balance[u].reserved
  <1>0. /\ Typed /\ escrow[e].client \in Users /\ escrow[e].freelancer \in Users
        /\ escrow[e].client # escrow[e].freelancer
        /\ Total(e) \in Nat /\ escrow[e].amount \in Nat
        /\ balance \in [Users -> BalanceRow]
    BY TotalIsNat DEF IInv, Typed, TwoParties, TypeOK
  <1>1. \A u \in Users : balance[u].reserved \in Int
    BY <1>0 DEF BalanceRow
  <1> DEFINE t == Total(e)
             c == escrow[e].client
             f == escrow[e].freelancer
             a == escrow[e].amount
  <1>2. CASE balance' = GivenBack(e)
    <2>1. balance' = [balance EXCEPT ![c] = Moved(balance[c], t, -t)]
      BY <1>2 DEF GivenBack
    <2>2. Moved(balance[c], t, -t).reserved = balance[c].reserved + (-t)
      BY DEF Moved
    <2> HIDE DEF t, c, f, a
    <2>3. \A u \in Users : balance'[u] = IF u = c THEN Moved(balance[c], t, -t) ELSE balance[u]
      BY <1>0, <2>1
    <2>4. t \in Nat /\ c \in Users
      BY <1>0 DEF t, c
    <2> QED
      BY <1>1, <2>2, <2>3, <2>4 DEF t, c
  <1>3. CASE balance' = PaidOut(e)
    <2>1. balance' = [balance EXCEPT ![f] = Moved(balance[f], a, 0), ![c] = Moved(balance[c], 0, -t)]
      BY <1>3 DEF PaidOut
    <2>2. /\ Moved(balance[c], 0, -t).reserved = balance[c].reserved + (-t)
          /\ Moved(balance[f], a, 0).reserved = balance[f].reserved + 0
      BY DEF Moved
    <2>3. t \in Nat /\ c \in Users /\ f \in Users /\ f # c
      BY <1>0
    <2> HIDE DEF t, c, f, a
    <2>4. \A u \in Users : balance'[u] = IF u = c THEN Moved(balance[c], 0, -t)
                                         ELSE IF u = f THEN Moved(balance[f], a, 0) ELSE balance[u]
      BY <1>0, <2>1, <2>3
    <2> QED
      BY <1>1, <2>2, <2>3, <2>4 DEF t, c
  <1> QED
    BY <1>2, <1>3

LEMMA EscrowsStayFinite ==
  ASSUME IsFiniteSet(DOMAIN escrow), EscrowEffect
  PROVE  IsFiniteSet(DOMAIN escrow')
  <1>1. ASSUME NEW e, NEW k, NEW c, NEW f, NEW a, Create(e, k, c, f, a)
        PROVE  IsFiniteSet(DOMAIN escrow')
    <2>1. DOMAIN escrow' = DOMAIN escrow \cup {e}
      BY <1>1 DEF Create
    <2> QED
      BY <2>1, FS_AddElement
  <1> QED
    BY <1>1 DEF EscrowEffect, Funded, Marked

Backed == Decided /\ LocksBacked

SumsTyped == IInv /\ IsFiniteSet(DOMAIN escrow) =>
  \A u \in Users : Needed(u) \in Int /\ balance[u].reserved \in Int

LEMMA SumsAreInts == SumsTyped
  BY BackingIsFinite DEF SumsTyped, IInv, TypeOK, BalanceRow

LEMMA SumsStayInts == SumsTyped'
  BY SumsAreInts, PTL

LEMMA LocksBackedStays ==
  ASSUME IInv, CommitsOnce, LocksBacked, NoWorkerFault, Next
  PROVE  LocksBacked'
  <1>0. /\ IInv /\ IInv' /\ EscrowKept /\ TxnEffect /\ EscrowEffect
        /\ Typed /\ IsFiniteSet(DOMAIN escrow)
        /\ \A j \in JobIds : run[j].pc \notin Catch
        /\ \A u \in Users : Needed(u) <= balance[u].reserved
    BY NextKeeps DEF LocksBacked, Effects, IInv, Typed
  <1>1. IsFiniteSet(DOMAIN escrow')
    BY <1>0, EscrowsStayFinite
  <1>2. /\ \A j \in JobIds : run'[j].pc \notin Catch
        /\ \/ UNCHANGED balance
           \/ \E r \in Requests : LockWrite(r)
           \/ \E e \in DOMAIN escrow : ReleaseCommit(e) \/ RefundCommit(e)
    BY <1>0, BalanceMoves
  <1>3. ASSUME NEW u \in Users
        PROVE  Needed(u)' <= balance'[u].reserved
    <2>0. /\ Needed(u) \in Int /\ balance[u].reserved \in Int
          /\ Needed(u)' \in Int /\ balance'[u].reserved \in Int
      BY <1>0, <1>1, SumsAreInts, SumsStayInts DEF SumsTyped
    <2>1. ASSUME \A r \in Requests : ~LockWrite(r)
          PROVE  Backing(u)' \subseteq Backing(u)
      <3> SUFFICES ASSUME NEW e \in Backing(u)' PROVE e \in Backing(u)
        OBVIOUS
      <3>1. e \in Escrows /\ Locked(e)'
        BY <1>0, BackingMoves
      <3>2. Locked(e)
        BY <1>0, <2>1, <3>1, LocksMove
      <3>3. e \in DOMAIN escrow
        BY <1>0, <3>1, <3>2, LockedExists DEF IInv
      <3> QED
        BY <1>0, <3>2, <3>3, BackingMoves
    <2>2. CASE UNCHANGED balance /\ \A r \in Requests : ~LockWrite(r)
      <3>1. Needed(u)' <= Needed(u)
        BY <1>0, <2>1, <2>2, NeededShrinks DEF Typed
      <3> QED
        BY <1>0, <2>0, <2>2, <3>1
    <2>3. ASSUME NEW r \in Requests, LockWrite(r)
          PROVE  Needed(u)' <= balance'[u].reserved
      <3> DEFINE x == req[r].escrow
      <3>1. /\ x \in DOMAIN escrow /\ Total(x) \in Nat /\ escrow[x].client \in Users
            /\ UNCHANGED <<escrow, job>>
            /\ req[r] # Idle
        BY <1>0, <2>3, NotIdle, RequestIsTyped, TotalIsNat DEF LockWrite, Typed
      <3>2. balance' = [balance EXCEPT ![escrow[x].client] =
                          Moved(balance[escrow[x].client], -Total(x), Total(x))]
        BY <1>0, <2>3, LockWriteMoves DEF IInv
      <3>3. balance'[u].reserved =
              IF u = escrow[x].client THEN balance[u].reserved + Total(x) ELSE balance[u].reserved
        BY <1>0, <3>1, <3>2 DEF Moved, Typed, TypeOK
      <3>4. \A e \in Backing(u)' : e \in Backing(u) \/ (e = x /\ u = escrow[x].client)
        <4> SUFFICES ASSUME NEW e \in Backing(u)'
                     PROVE  e \in Backing(u) \/ (e = x /\ u = escrow[x].client)
          OBVIOUS
        <4>1. e \in Escrows /\ Locked(e)' /\ e \in DOMAIN escrow
          BY <1>0, <3>1, BackingMoves DEF Backing
        <4>2. escrow[e].client = u /\ (Locked(e) => e \in Backing(u))
          BY <1>0, <4>1, BackingMoves
        <4>3. Locked(e) \/ \E q \in Requests : LockWrite(q) /\ req[q].escrow = e
          BY <1>0, <4>1, LocksMove
        <4>4. ASSUME NEW q \in Requests, LockWrite(q) PROVE q = r
          <5>1. req' = [req EXCEPT ![q].pc = "enqueue"] /\ req' = [req EXCEPT ![r].pc = "enqueue"]
                /\ req[q].pc = "lockWrite"
            BY <2>3, <4>4 DEF LockWrite
          <5>2. req[q] \in ServiceRequest
            BY <1>0, <4>4, NotIdle, RequestIsTyped DEF LockWrite, Typed
          <5>3. req'[q].pc = "enqueue"
            BY <1>0, <5>1, <5>2 DEF Typed, TypeOK, ServiceRequest
          <5>4. q # r => req'[q] = req[q]
            BY <1>0, <5>1 DEF Typed, TypeOK
          <5> QED
            BY <5>1, <5>3, <5>4
        <4> QED
          BY <4>2, <4>3, <4>4
      <3>5. CASE u = escrow[x].client
        <4>1. Needed(u)' <= Needed(u) + Total(x)
          BY <1>0, <3>1, <3>4, NeededGrows DEF Typed
        <4> QED
          BY <1>0, <2>0, <3>1, <3>3, <3>5, <4>1
      <3>6. CASE u # escrow[x].client
        <4>1. Needed(u)' <= Needed(u)
          BY <1>0, <3>4, <3>6, NeededShrinks DEF Typed
        <4> QED
          BY <1>0, <2>0, <3>3, <3>6, <4>1
      <3> QED
        BY <3>5, <3>6
    <2>4. ASSUME NEW e \in DOMAIN escrow, NEW kind \in SettlementKinds,
                 run[<<kind, e>>].pc = "txWrite", ~Conflict(kind, e),
                 balance' = GivenBack(e) \/ balance' = PaidOut(e),
                 txn' = Booking(kind, e), \A r \in Requests : ~LockWrite(r)
          PROVE  Needed(u)' <= balance'[u].reserved
      <3>1. e \in Backing(escrow[e].client) /\ Total(e) \in Nat /\ escrow[e].client \in Users
        BY <1>0, <2>4, CommitIsFirst, TotalIsNat DEF Typed
      <3>2. balance'[u].reserved =
              IF u = escrow[e].client THEN balance[u].reserved - Total(e) ELSE balance[u].reserved
        BY <1>0, <2>4, CommitSpends
      <3>3. CASE u = escrow[e].client
        <4>1. IsSettled(e)'
          <5>1. IsSettlement(SettlementRow(kind, e, run[<<kind, e>>].contract))
                /\ SettlementRow(kind, e, run[<<kind, e>>].contract).escrow = e
            BY DEF SettlementRow, IsSettlement
          <5> QED
            BY <2>4, <5>1 DEF IsSettled, Booking
        <4>2. Backing(u)' \subseteq Backing(u) \ {e}
          BY <2>1, <2>4, <4>1 DEF Backing
        <4>3. Needed(u)' <= Needed(u) - Total(e)
          BY <1>0, <3>1, <3>3, <4>2, NeededIsSpent DEF Typed
        <4> QED
          BY <1>0, <2>0, <3>1, <3>2, <3>3, <4>3
      <3>4. CASE u # escrow[e].client
        <4>1. Needed(u)' <= Needed(u)
          BY <1>0, <2>1, <2>4, NeededShrinks DEF Typed
        <4> QED
          BY <1>0, <2>0, <3>2, <3>4, <4>1
      <3> QED
        BY <3>3, <3>4
    <2>5. ASSUME NEW e \in DOMAIN escrow, ReleaseCommit(e) \/ RefundCommit(e),
                 \A r \in Requests : ~LockWrite(r)
          PROVE  Needed(u)' <= balance'[u].reserved
      <3>1. CASE ReleaseCommit(e)
        BY <2>4, <2>5, <3>1 DEF ReleaseCommit, At, SettlementKinds
      <3>2. CASE RefundCommit(e)
        BY <2>4, <2>5, <3>2 DEF RefundCommit, At, SettlementKinds
      <3> QED
        BY <2>5, <3>1, <3>2
    <2> QED
      BY <1>2, <2>2, <2>3, <2>5
  <1> QED
    BY <1>1, <1>2, <1>3 DEF LocksBacked

LEMMA InitBacked == Init => Backed
  <1> SUFFICES ASSUME Init PROVE Backed
    OBVIOUS
  <1>1. Decided
    BY InitDecided
  <1>2. /\ DOMAIN escrow = {} /\ IsFiniteSet(DOMAIN escrow)
        /\ \A j \in JobIds : run[j].pc \notin Catch
    BY FS_EmptySet
    DEF Init, InitEscrowStore, InitStore, InitService, InitProcessor, NoRun, Catch
  <1>3. ASSUME NEW u \in Users
        PROVE  Needed(u) <= balance[u].reserved
    <2> DEFINE f == [e \in Backing(u) |-> Total(e)]
    <2>1. DOMAIN f = {} /\ Needed(u) = SumFunction(f)
      BY <1>2 DEF Backing, Needed
    <2> HIDE DEF f
    <2>2. SumFunction(f) = 0
      BY <2>1, SumEquation, FS_EmptySet DEF SumFunction
    <2>3. balance[u].reserved = 0
      BY DEF Init, InitEscrowStore, InitStore
    <2> QED
      BY <2>1, <2>2, <2>3
  <1> QED
    BY <1>1, <1>2, <1>3 DEF Backed, LocksBacked

LEMMA BackedUnchanged ==
  ASSUME IInv, LocksBacked, UNCHANGED vars
  PROVE  LocksBacked'
  <1>1. UNCHANGED <<balance, txn, escrow, job, req, run>>
    BY DEF vars, storeVars
  <1>2. ASSUME NEW u \in Users
        PROVE  Needed(u)' = Needed(u)
    <2>1. \A e : Total(e)' = Total(e) /\ Locked(e)' = Locked(e) /\ IsSettled(e)' = IsSettled(e)
      BY <1>1 DEF Total, Locked, LockPending, IsSettled
    <2>2. Backing(u)' = Backing(u)
      BY <1>1, <2>1 DEF Backing
    <2> QED
      BY <2>1, <2>2 DEF Needed
  <1> QED
    BY <1>1, <1>2 DEF LocksBacked

LEMMA NextBacked ==
  ASSUME NoWorkerFault
  PROVE  Backed /\ [Next]_vars => Backed'
  <1> SUFFICES ASSUME Backed, [Next]_vars PROVE Backed'
    OBVIOUS
  <1>1. Decided'
    BY NextDecided, NoFaultIsNoRefusal DEF Backed
  <1> QED
    BY <1>1, LocksBackedStays, BackedUnchanged DEF Backed, Decided

(* Any of the escrows that stand on a client's money are covered.          *)
LEMMA PartIsBacked ==
  ASSUME IInv, LocksBacked, NEW u \in Users, NEW S \in SUBSET Backing(u)
  PROVE  balance[u].reserved >= SumFunction([e \in S |-> Total(e)])
  <1> DEFINE f == [e \in S |-> Total(e)]
             g == [e \in Backing(u) |-> Total(e)]
  <1>1. /\ IsFiniteSet(Backing(u)) /\ IsFiniteSet(S)
        /\ \A e \in Backing(u) : Total(e) \in Nat
        /\ Needed(u) \in Int /\ balance[u].reserved \in Int
        /\ Needed(u) <= balance[u].reserved
    BY BackingIsFinite, FS_Subset, SumsAreInts
    DEF IInv, LocksBacked, SumsTyped
  <1>2. /\ DOMAIN f = S /\ DOMAIN g = Backing(u)
        /\ \A e \in DOMAIN f : f[e] = g[e] /\ f[e] \in Int
        /\ \A e \in DOMAIN g : g[e] \in Nat
    BY <1>1
  <1>3. Needed(u) = SumFunction(g)
    BY DEF Needed
  <1> HIDE DEF f, g
  <1>4. SumFunction(f) <= SumFunction(g) /\ SumFunction(f) \in Int
    <2>1. /\ \A e \in DOMAIN f : f[e] \in Int /\ f[e] <= g[e]
          /\ \A e \in DOMAIN g : g[e] \in Int
          /\ \A e \in DOMAIN g \ DOMAIN f : 0 <= g[e]
      BY <1>2
    <2> QED
      BY <1>1, <1>2, <2>1, SumIsBelow, SumOfInts
  <1>5. balance[u].reserved >= SumFunction(f)
    BY <1>1, <1>3, <1>4
  <1> QED
    BY <1>5 DEF f

LEMMA OpenStandsOnMoney ==
  ASSUME Decided, NEW u
  PROVE  Open(u) \in SUBSET Backing(u)
  <1> SUFFICES ASSUME NEW e \in Open(u) PROVE e \in Backing(u)
    OBVIOUS
  <1>1. /\ e \in DOMAIN escrow /\ escrow[e].client = u
        /\ escrow[e].status \in {"FUNDED", "ACTIVE", "DISPUTED"}
    BY DEF Open
  <1>2. Locked(e)
    BY <1>1, DeployedIsLocked DEF Decided, IInv, SettlesDeployed
  <1>3. ~IsSettled(e)
    BY <1>1 DEF Decided, StatusSound, IsSettled, Final
  <1> QED
    BY <1>1, <1>2, <1>3 DEF Backing

LEMMA BackedIsOpen == Backed => OpenEscrowsAreBacked
  BY OpenStandsOnMoney, PartIsBacked DEF Backed, Decided, OpenEscrowsAreBacked

(* While no step of a worker fails, the escrows that are open are covered  *)
(* by what their client has reserved, whatever requests interleave or die. *)
THEOREM OpenIsBacked ==
  ASSUME NoWorkerFault
  PROVE  Spec => []OpenEscrowsAreBacked
  BY InitBacked, NextBacked, BackedIsOpen, PTL DEF Spec

-----------------------------------------------------------------------------
(* Without failures of workers the balances implement the stricter wallet. *)
LEMMA StepOfBackedWallet ==
  ASSUME NoWorkerFault
  PROVE  Backed /\ [Next]_vars => [W!BackedNext]_Money
  <1> SUFFICES ASSUME Backed, [Next]_vars PROVE W!BackedNext \/ Money' = Money
    OBVIOUS
  <1>1. Typed /\ IInv /\ IsFiniteSet(DOMAIN escrow)
    BY DEF Backed, LocksBacked, Decided, IInv, Typed
  <1>2. CASE UNCHANGED balance
    BY <1>2 DEF Money, MoneyOf
  <1>3. ASSUME NEW r \in Requests, LockWrite(r)
        PROVE  W!BackedNext
    <2>1. PICK e \in DOMAIN escrow : e = req[r].escrow
      BY <1>1, <1>3, NotIdle, RequestIsTyped DEF LockWrite, Typed
    <2>2. PICK u \in Users, a \in Amounts : u = escrow[e].client /\ a = escrow[e].amount
      BY <1>1, TotalIsNat DEF Typed, EscrowRow
    <2>3. W!Cost(a) = Total(e)
      BY <2>2 DEF W!Cost, Total
    <2>4. /\ Total(e) \in Nat /\ balance[u].available >= Total(e)
          /\ balance' = [balance EXCEPT ![u] = Moved(balance[u], -Total(e), Total(e))]
      BY <1>1, <1>3, <2>1, <2>2, LockWriteMoves DEF IInv
    <2>5. W!Hold(u, a)
      BY <1>1, <2>3, <2>4, LockIsHold
    <2> QED
      BY <2>5 DEF W!BackedNext
  <1>4. ASSUME NEW e \in DOMAIN escrow, ReleaseCommit(e) \/ RefundCommit(e)
        PROVE  W!BackedNext
    <2>1. PICK u \in Users, v \in Users, a \in Amounts :
            u = escrow[e].client /\ v = escrow[e].freelancer /\ a = escrow[e].amount
      BY <1>1, TotalIsNat DEF Typed, EscrowRow
    <2>2. u # v /\ Total(e) \in Nat /\ W!Cost(a) = Total(e)
      BY <1>1, <2>1, TotalIsNat DEF Typed, W!Cost, Total, IInv, TwoParties
    <2>3. balance' = GivenBack(e) \/ balance' = PaidOut(e)
      BY <1>4 DEF ReleaseCommit, RefundCommit
    <2>4. \/ balance' = [balance EXCEPT ![u] = Moved(balance[u], Total(e), -Total(e))]
          \/ balance' = [balance EXCEPT ![v] = Moved(balance[v], a, 0),
                                        ![u] = Moved(balance[u], 0, -Total(e))]
      BY <2>1, <2>3 DEF GivenBack, PaidOut
    <2>5. W!Unhold(u, a) \/ W!PayOut(u, v, a)
      BY <1>1, <2>2, <2>4, RollbackIsUnhold, PaymentIsPayOut
    <2>6. e \in Backing(u)
      BY <1>4, <2>1, CommitIsFirst
      DEF Backed, Decided, ReleaseCommit, RefundCommit, At, SettlementKinds
    <2>7. Total(e) <= balance[u].reserved
      <3>1. Total(e) <= Needed(u) /\ Needed(u) <= balance[u].reserved
        BY <1>1, <2>6, NeededCovers DEF Typed, Backed, LocksBacked
      <3>2. Needed(u) \in Int /\ balance[u].reserved \in Int
        BY <1>1, SumsAreInts DEF SumsTyped
      <3> QED
        BY <2>2, <3>1, <3>2
    <2>8. W!Backed(u, a)
      <3>1. balance[u].reserved \in Int
        BY <1>1, SumsAreInts DEF SumsTyped
      <3> QED
        BY <2>2, <2>7, <3>1 DEF W!Backed
    <2> QED
      BY <2>5, <2>8 DEF W!BackedNext
  <1>5. CASE Next
    BY <1>1, <1>2, <1>3, <1>4, <1>5, BalanceMoves DEF Backed, LocksBacked
  <1>6. CASE UNCHANGED vars
    BY <1>2, <1>6 DEF vars, storeVars
  <1> QED
    BY <1>5, <1>6

(* While no step of a worker fails, nothing that is not reserved is given  *)
(* back or paid out: the balances implement the wallet in which every      *)
(* refund and every payment is backed by a lock.                           *)
THEOREM ImplementsBackedWallet ==
  ASSUME NoWorkerFault
  PROVE  Spec => BackedWallet
  <1>1. Backed /\ [Next]_vars =>
          [W!BackedNext]_([u \in Users |-> [available |-> balance[u].available,
                                            reserved  |-> balance[u].reserved]])
    BY StepOfBackedWallet DEF Money, MoneyOf
  <1> QED
    BY <1>1, InitBacked, NextBacked, WalletInit, PTL DEF Spec, BackedWallet, W!BackedSpec

-----------------------------------------------------------------------------
(* Disputes.  A dispute, and a request about one, is about an escrow that  *)
(* has a contract: only such an escrow can be disputed, and it keeps its   *)
(* contract.                                                               *)
Disputable(e) == e \in DOMAIN escrow /\ escrow[e].contract # 0

DisputesDeployed ==
  /\ \A e \in DOMAIN dispute : Disputable(e)
  /\ \A r \in DisputeRequests : dreq[r] # Idle => Disputable(dreq[r].escrow)

ArbitrationInv == IInv /\ DisputeTypeOK /\ DisputesDeployed

(* What a step of a dispute does to the tables and the queue it shares:    *)
(* an escrow with a contract is marked, or gets a job that settles it.     *)
DisputeEffect ==
  /\ UNCHANGED <<balance, txn, chain, req, run>>
  /\ \/ UNCHANGED escrow
     \/ \E e \in DOMAIN escrow : Disputable(e) /\ escrow' = Marked(e, "DISPUTED")
  /\ \/ UNCHANGED job
     \/ \E S \in SUBSET JobIds :
          /\ \A j \in S : j[1] # "fund" /\ Disputable(j[2])
          /\ job' = [j \in JobIds |-> IF j \in S THEN Added(job[j]) ELSE job[j]]
  /\ \/ UNCHANGED event
     \/ \E name \in WebhookEvents, e \in Escrows : event' = event \cup {<<name, e>>}

LEMMA DisputeRequestIsTyped ==
  ASSUME ArbitrationInv, NEW r \in DisputeRequests, dreq[r].pc # "idle"
  PROVE  /\ dreq[r] \in DisputeRequest /\ dreq[r] # Idle
         /\ Disputable(dreq[r].escrow) /\ dreq[r].escrow \in Escrows
  <1>1. dreq[r] # Idle
    BY DEF Idle
  <1>2. dreq[r] \in DisputeRequest
    BY <1>1 DEF ArbitrationInv, DisputeTypeOK
  <1> QED
    BY <1>1, <1>2 DEF ArbitrationInv, DisputesDeployed, DisputeRequest

(* The requests and the disputes after a step.                             *)
LEMMA BeginsDispute ==
  ASSUME ArbitrationInv, NEW r \in DisputeRequests, NEW e \in Escrows, Disputable(e),
         NEW pc \in {"open", "evidence", "review", "resolve"},
         NEW ev \in {"DISPUTE_OPENED", "DISPUTE_RESOLVED"},
         NEW resolution \in DisputeStatus, NEW evidence \in SUBSET Evidence,
         BeginDispute(r, pc, e, ev, resolution, evidence),
         UNCHANGED <<storeVars, dispute, req, run>>
  PROVE  DisputeEffect /\ DisputeTypeOK' /\ DisputesDeployed'
  <1> DEFINE new == [pc |-> pc, escrow |-> e, event |-> ev, resolution |-> resolution,
                     evidence |-> evidence]
  <1>1. /\ UNCHANGED <<balance, txn, chain, escrow, job, event, dispute, req, run>>
        /\ dreq' = [dreq EXCEPT ![r] = new]
    BY DEF BeginDispute, storeVars
  <1>2. new \in DisputeRequest /\ new.escrow = e
    BY DEF DisputeRequest
  <1> HIDE DEF new
  <1>3. DisputeEffect
    BY <1>1 DEF DisputeEffect
  <1>4. DisputeTypeOK'
    BY <1>1, <1>2 DEF ArbitrationInv, DisputeTypeOK, TypeOK
  <1>5. DisputesDeployed'
    BY <1>1, <1>2 DEF ArbitrationInv, DisputeTypeOK, DisputesDeployed, Disputable
  <1> QED
    BY <1>3, <1>4, <1>5

LEMMA GoesOnWithDispute ==
  ASSUME ArbitrationInv, NEW r \in DisputeRequests, dreq[r].pc # "idle",
         \/ EndDispute(r)
         \/ \E pc \in {"enqueue", "notify"} : GotoDispute(r, pc),
         DisputeEffect, TypeOK',
         \/ UNCHANGED dispute
         \/ \E row \in DisputeRow : 
              dispute' = [x \in DOMAIN dispute \cup {dreq[r].escrow} |->
                            IF x = dreq[r].escrow THEN row ELSE dispute[x]]
  PROVE  DisputeTypeOK' /\ DisputesDeployed'
  <1>0. /\ dreq[r] \in DisputeRequest /\ Disputable(dreq[r].escrow)
        /\ dreq \in [DisputeRequests -> {Idle} \cup DisputeRequest]
    BY DisputeRequestIsTyped DEF ArbitrationInv, DisputeTypeOK
  <1>1. PICK new \in {Idle} \cup DisputeRequest :
          /\ dreq' = [dreq EXCEPT ![r] = new]
          /\ new # Idle => new.escrow = dreq[r].escrow
    <2>1. CASE EndDispute(r)
      BY <2>1 DEF EndDispute
    <2>2. ASSUME NEW pc \in {"enqueue", "notify"}, GotoDispute(r, pc)
          PROVE  \E new \in {Idle} \cup DisputeRequest :
                   /\ dreq' = [dreq EXCEPT ![r] = new]
                   /\ new # Idle => new.escrow = dreq[r].escrow
      <3> DEFINE new == [dreq[r] EXCEPT !.pc = pc]
      <3>1. new \in DisputeRequest /\ new.escrow = dreq[r].escrow
        BY <1>0 DEF DisputeRequest
      <3>2. dreq' = [dreq EXCEPT ![r] = new]
        BY <2>2 DEF GotoDispute
      <3> HIDE DEF new
      <3> QED
        BY <3>1, <3>2
    <2> QED
      BY <2>1, <2>2
  <1>2. \A e : Disputable(e) => e \in DOMAIN escrow' /\ escrow'[e].contract # 0
    <2>1. \A e \in DOMAIN escrow : escrow[e] \in EscrowRow
      BY TotalIsNat DEF ArbitrationInv, DisputeTypeOK
    <2> QED
      BY <2>1 DEF DisputeEffect, Disputable, Marked, EscrowRow
  <1>3. dreq' \in [DisputeRequests -> {Idle} \cup DisputeRequest]
    BY <1>0, <1>1
  <1>4. \A q \in DisputeRequests : dreq'[q] # Idle => Disputable(dreq'[q].escrow)
    BY <1>0, <1>1 DEF ArbitrationInv, DisputesDeployed
  <1>5. /\ dispute' \in [DOMAIN dispute' -> DisputeRow]
        /\ \A e \in DOMAIN dispute' : Disputable(e)
    <2>1. CASE UNCHANGED dispute
      BY <2>1 DEF ArbitrationInv, DisputeTypeOK, DisputesDeployed
    <2>2. ASSUME NEW row \in DisputeRow, NEW x, x = dreq[r].escrow,
                 dispute' = [y \in DOMAIN dispute \cup {x} |-> IF y = x THEN row ELSE dispute[y]]
          PROVE  /\ dispute' \in [DOMAIN dispute' -> DisputeRow]
                 /\ \A e \in DOMAIN dispute' : Disputable(e)
      <3>1. Disputable(x) /\ \A e \in DOMAIN dispute : Disputable(e) /\ dispute[e] \in DisputeRow
        BY <1>0, <2>2 DEF ArbitrationInv, DisputeTypeOK, DisputesDeployed
      <3>2. DOMAIN dispute' = DOMAIN dispute \cup {x}
            /\ \A e \in DOMAIN dispute' : dispute'[e] \in DisputeRow
        BY <2>2, <3>1
      <3>3. dispute' = [e \in DOMAIN dispute' |-> dispute'[e]]
        BY <2>2
      <3> QED
        BY <3>1, <3>2, <3>3
    <2> QED
      BY <2>1, <2>2
  <1>6. DOMAIN dispute' \subseteq DOMAIN escrow'
    BY <1>2, <1>5 DEF Disputable
  <1>7. DisputeTypeOK'
    BY <1>3, <1>5, <1>6 DEF DisputeTypeOK
  <1> QED
    BY <1>2, <1>4, <1>5, <1>7 DEF DisputesDeployed, Disputable

(* The steps of a dispute leave Escrow's invariant alone.                  *)
LEMMA EffectKeepsTypes ==
  ASSUME IInv, DisputeEffect
  PROVE  Typed'
  <1>0. /\ TypeOK /\ InUse /\ Running /\ \A e \in DOMAIN escrow : escrow[e] \in EscrowRow
        /\ DOMAIN escrow \subseteq Escrows
    BY TotalIsNat DEF IInv, TypeOK
  <1>1. /\ DOMAIN escrow' = DOMAIN escrow
        /\ escrow' \in [DOMAIN escrow' -> EscrowRow]
    <2>1. CASE UNCHANGED escrow
      BY <1>0, <2>1 DEF TypeOK
    <2>2. ASSUME NEW e \in DOMAIN escrow, escrow' = Marked(e, "DISPUTED")
          PROVE  /\ DOMAIN escrow' = DOMAIN escrow
                 /\ escrow' \in [DOMAIN escrow' -> EscrowRow]
      <3> DEFINE new == [escrow[e] EXCEPT !.status = "DISPUTED"]
      <3>1. new \in EscrowRow
        BY <1>0 DEF EscrowRow, EscrowStatus
      <3>2. escrow' = [escrow EXCEPT ![e] = new] /\ escrow \in [DOMAIN escrow -> EscrowRow]
        BY <1>0, <2>2 DEF Marked, TypeOK
      <3> HIDE DEF new
      <3> QED
        BY <3>1, <3>2
    <2> QED
      BY <2>1, <2>2 DEF DisputeEffect
  <1>2. /\ job' \in [JobIds -> JobRecord]
        /\ \A j \in JobIds :
             \/ job'[j] = job[j]
             \/ j[2] \in DOMAIN escrow /\ job[j].state = "none" /\ job'[j] = Added(job[j])
    <2>1. CASE UNCHANGED job
      BY <1>0, <2>1 DEF TypeOK
    <2>2. ASSUME NEW S \in SUBSET JobIds, \A j \in S : Disputable(j[2]),
                 job' = [j \in JobIds |-> IF j \in S THEN Added(job[j]) ELSE job[j]]
          PROVE  /\ job' \in [JobIds -> JobRecord]
                 /\ \A j \in JobIds :
                      \/ job'[j] = job[j]
                      \/ j[2] \in DOMAIN escrow /\ job[j].state = "none" /\ job'[j] = Added(job[j])
      <3>1. \A j \in JobIds : job[j] \in JobRecord /\ Added(job[j]) \in JobRecord
        BY <1>0, JobIsRecord DEF TypeOK
      <3>2. \A j \in JobIds : job[j].state # "none" => Added(job[j]) = job[j]
        BY DEF Added
      <3> QED
        BY <2>2, <3>1, <3>2 DEF Disputable
    <2> QED
      BY <2>1, <2>2 DEF DisputeEffect
  <1>3. event' \subseteq WebhookEvents \X Escrows
    BY <1>0 DEF DisputeEffect, TypeOK
  <1>4. TypeOK'
    BY <1>0, <1>1, <1>2, <1>3 DEF DisputeEffect, TypeOK
  <1>5. InUse'
    BY <1>0, <1>1, <1>2 DEF DisputeEffect, InUse
  <1>6. Running'
    <2> SUFFICES ASSUME NEW j \in JobIds
                 PROVE  /\ run'[j] # NoRun <=> job'[j].state = "active"
                        /\ job'[j].state \in {"none", "waiting", "active"} =>
                             job'[j].attempts < MaxAttempts /\ job'[j].stalled <= MaxStalled
      BY DEF Running
    <2>1. run'[j] = run[j]
      BY DEF DisputeEffect
    <2>2. CASE job'[j] = job[j]
      BY <1>0, <2>1, <2>2 DEF Running
    <2>3. CASE job[j].state = "none" /\ job'[j] = Added(job[j])
      <3>1. /\ job'[j].state = "waiting" /\ job'[j].attempts = job[j].attempts
            /\ job'[j].stalled = job[j].stalled
        BY <1>0, <2>3 DEF Added, TypeOK, JobRecord
      <3> QED
        BY <1>0, <2>1, <2>3, <3>1 DEF Running
    <2> QED
      BY <1>2, <2>2, <2>3
  <1> QED
    BY <1>4, <1>5, <1>6 DEF Typed

LEMMA EffectKeepsIInv ==
  ASSUME IInv, DisputeEffect
  PROVE  IInv' /\ EscrowKept
  <1>0. /\ TypeOK /\ Typed /\ \A e \in DOMAIN escrow : escrow[e] \in EscrowRow
        /\ UNCHANGED <<balance, txn, chain, req, run>>
    BY TotalIsNat DEF IInv, DisputeEffect, Typed
  <1>1. Typed'
    BY EffectKeepsTypes
  <1>2. /\ DOMAIN escrow' = DOMAIN escrow
        /\ \A e \in DOMAIN escrow :
             /\ escrow'[e].client = escrow[e].client
             /\ escrow'[e].freelancer = escrow[e].freelancer
             /\ escrow'[e].amount = escrow[e].amount
             /\ escrow'[e].contract = escrow[e].contract
             /\ escrow'[e].status = escrow[e].status \/ escrow[e].contract # 0
    BY <1>0 DEF DisputeEffect, Marked, EscrowRow, Disputable
  <1>3. EscrowKept /\ ChainKept /\ BalanceKept /\ ReqEffect /\ RunEffect /\ TxnEffect
    BY <1>0, <1>2 DEF EscrowKept, ChainKept, BalanceKept, ReqEffect, RunEffect, TxnEffect
  <1>4. TwoParties' /\ SnapshotSound' /\ ContractsOwned' /\ Booked'
    BY <1>0, <1>1, <1>3, PartiesStay, SnapshotsStay, ContractsStay, BooksStay DEF IInv
  <1>5. \A j \in JobIds : j[1] # "fund" /\ job'[j].state # "none" =>
          job[j].state # "none" \/ Disputable(j[2])
    BY DEF DisputeEffect
  <1>6. SettlesDeployed'
    <2>1. \A e \in DOMAIN escrow' :
            escrow'[e].status \in {"FUNDED", "ACTIVE", "DISPUTED"} => escrow'[e].contract # 0
      BY <1>2 DEF IInv, SettlesDeployed
    <2>2. \A r \in Requests : req'[r] # Idle /\ req'[r].kind # "fund" =>
            escrow'[req'[r].escrow].contract # 0
      BY <1>0, <1>2 DEF IInv, InUse, SettlesDeployed
    <2>3. \A j \in JobIds : j[1] # "fund" /\ job'[j].state # "none" =>
            escrow'[j[2]].contract # 0
      BY <1>2, <1>5 DEF IInv, InUse, SettlesDeployed, Disputable
    <2> QED
      BY <2>1, <2>2, <2>3 DEF SettlesDeployed
  <1>7. NoOverdraft'
    BY <1>0 DEF IInv, NoOverdraft
  <1> QED
    BY <1>1, <1>3, <1>4, <1>6, <1>7 DEF IInv, Typed

DisputesStay == DisputeEffect /\ DisputeTypeOK' /\ DisputesDeployed'

LEMMA BeginningsStay ==
  ASSUME ArbitrationInv, UNCHANGED <<req, run>>, NEW r \in DisputeRequests, NEW e \in Escrows,
         \/ \E evidence \in SUBSET Evidence : OpenDispute(r, e, evidence)
         \/ \E x \in Evidence : AddEvidence(r, e, x)
         \/ SetUnderReview(r, e)
         \/ \E resolution \in Resolutions : Resolve(r, e, resolution)
  PROVE  DisputesStay
  <1>0. /\ \A x \in DOMAIN dispute : Disputable(x) /\ dispute[x] \in DisputeRow
        /\ \A x \in DOMAIN escrow :
             escrow[x].status \in {"FUNDED", "ACTIVE"} => Disputable(x)
        /\ Resolutions \subseteq DisputeStatus /\ {"OPEN", "UNDER_REVIEW"} \subseteq DisputeStatus
    BY DisputeAssumption
    DEF ArbitrationInv, DisputeTypeOK, DisputesDeployed, IInv, SettlesDeployed, Disputable,
        DisputeStatus
  <1>1. ASSUME NEW evidence \in SUBSET Evidence, OpenDispute(r, e, evidence)
        PROVE  DisputesStay
    <2>1. /\ Disputable(e) /\ BeginDispute(r, "open", e, "DISPUTE_OPENED", "OPEN", evidence)
          /\ UNCHANGED <<storeVars, dispute>>
      BY <1>0, <1>1 DEF OpenDispute
    <2> QED
      BY <1>0, <2>1, BeginsDispute DEF DisputesStay
  <1>2. ASSUME NEW x \in Evidence, AddEvidence(r, e, x)
        PROVE  DisputesStay
    <2> DEFINE all == dispute[e].evidence \cup {x}
    <2>1. /\ Disputable(e) /\ BeginDispute(r, "evidence", e, "DISPUTE_OPENED", "OPEN", all)
          /\ UNCHANGED <<storeVars, dispute>> /\ all \in SUBSET Evidence
      BY <1>0, <1>2 DEF AddEvidence, DisputeRow
    <2> HIDE DEF all
    <2> QED
      BY <1>0, <2>1, BeginsDispute DEF DisputesStay
  <1>3. CASE SetUnderReview(r, e)
    <2>1. /\ Disputable(e)
          /\ BeginDispute(r, "review", e, "DISPUTE_OPENED", "UNDER_REVIEW", {})
          /\ UNCHANGED <<storeVars, dispute>>
      BY <1>0, <1>3 DEF SetUnderReview
    <2> QED
      BY <1>0, <2>1, BeginsDispute DEF DisputesStay
  <1>4. ASSUME NEW resolution \in Resolutions, Resolve(r, e, resolution)
        PROVE  DisputesStay
    <2>1. /\ Disputable(e)
          /\ BeginDispute(r, "resolve", e, "DISPUTE_RESOLVED", resolution, {})
          /\ UNCHANGED <<storeVars, dispute>>
      BY <1>0, <1>4 DEF Resolve
    <2> QED
      BY <1>0, <2>1, BeginsDispute DEF DisputesStay
  <1> QED
    BY <1>1, <1>2, <1>3, <1>4

(* A write to a column of a row, by id: nothing happens if there is none.  *)
LEMMA RowIsWritten ==
  ASSUME dispute \in [DOMAIN dispute -> DisputeRow],
         NEW x, NEW row, dispute' = [dispute EXCEPT ![x] = row]
  PROVE  \/ UNCHANGED dispute
         \/ dispute' = [y \in DOMAIN dispute \cup {x} |-> IF y = x THEN row ELSE dispute[y]]
  <1>1. CASE x \in DOMAIN dispute
    BY <1>1
  <1>2. CASE x \notin DOMAIN dispute
    BY <1>2
  <1> QED
    BY <1>1, <1>2

LEMMA StepsStay ==
  ASSUME ArbitrationInv, UNCHANGED <<req, run>>, NEW r \in DisputeRequests,
         DisputeStep(r) \/ DisputeLost(r)
  PROVE  DisputesStay
  <1>0. /\ IInv /\ dreq[r].pc # "idle"
        /\ dispute \in [DOMAIN dispute -> DisputeRow]
    BY DEF ArbitrationInv, DisputeTypeOK, DisputeStep, DisputeLost, OpenCommit, OpenConflict,
           EvidenceWrite, ReviewWrite, ResolveCommit, ResolveEnqueue, DisputeNotify, Idle,
           DisputeRequest
  <1> DEFINE e == dreq[r].escrow
  <1>1. /\ dreq[r] \in DisputeRequest /\ Disputable(e) /\ e \in Escrows
        /\ dreq[r].evidence \in SUBSET Evidence /\ dreq[r].resolution \in DisputeStatus
        /\ dreq[r].event \in WebhookEvents
    BY <1>0, DisputeRequestIsTyped DEF DisputeRequest, WebhookEvents
  <1>2. ASSUME DisputeEffect,
               \/ EndDispute(r)
               \/ GotoDispute(r, "enqueue") \/ GotoDispute(r, "notify"),
               \/ UNCHANGED dispute
               \/ \E row \in DisputeRow :
                    dispute' = [x \in DOMAIN dispute \cup {dreq[r].escrow} |->
                                  IF x = dreq[r].escrow THEN row ELSE dispute[x]]
        PROVE  DisputesStay
    <2>1. TypeOK'
      BY <1>0, <1>2, EffectKeepsTypes DEF Typed
    <2>2. \/ EndDispute(r)
          \/ \E pc \in {"enqueue", "notify"} : GotoDispute(r, pc)
      BY <1>2
    <2> QED
      BY <1>0, <1>2, <2>1, <2>2, GoesOnWithDispute DEF DisputesStay
  <1>3. ASSUME UNCHANGED storeVars
        PROVE  DisputeEffect
    BY <1>3 DEF DisputeEffect, storeVars
  <1>4. ASSUME NEW row \in DisputeRow, dispute' = [dispute EXCEPT ![e] = row]
        PROVE  \/ UNCHANGED dispute
               \/ \E new \in DisputeRow :
                    dispute' = [x \in DOMAIN dispute \cup {dreq[r].escrow} |->
                                  IF x = dreq[r].escrow THEN new ELSE dispute[x]]
    BY <1>0, <1>4, RowIsWritten
  <1>5. ASSUME NEW row, dispute' = [dispute EXCEPT ![e] = row], e \notin DOMAIN dispute
        PROVE  UNCHANGED dispute
    BY <1>0, <1>5
  <1>6. CASE OpenCommit(r)
    <2>1. DisputeEffect
      BY <1>1, <1>6 DEF OpenCommit, DisputeEffect, Marked, Disputable
    <2>2. [status |-> "OPEN", evidence |-> dreq[r].evidence] \in DisputeRow
      BY <1>1 DEF DisputeRow, DisputeStatus
    <2> QED
      BY <1>2, <1>6, <2>1, <2>2 DEF OpenCommit
  <1>7. CASE OpenConflict(r) \/ DisputeLost(r)
    BY <1>2, <1>3, <1>7 DEF OpenConflict, DisputeLost
  <1>8. CASE EvidenceWrite(r)
    <2>1. EndDispute(r) /\ UNCHANGED storeVars
          /\ dispute' = [dispute EXCEPT ![e] = [dispute[e] EXCEPT !.evidence = dreq[r].evidence]]
      BY <1>8 DEF EvidenceWrite
    <2>2. e \in DOMAIN dispute =>
            [dispute[e] EXCEPT !.evidence = dreq[r].evidence] \in DisputeRow
      BY <1>0, <1>1 DEF DisputeRow
    <2> QED
      BY <1>2, <1>3, <1>4, <1>5, <2>1, <2>2
  <1>9. CASE ReviewWrite(r)
    <2>1. EndDispute(r) /\ UNCHANGED storeVars
          /\ dispute' = [dispute EXCEPT ![e] = [dispute[e] EXCEPT !.status = "UNDER_REVIEW"]]
      BY <1>9 DEF ReviewWrite
    <2>2. e \in DOMAIN dispute => [dispute[e] EXCEPT !.status = "UNDER_REVIEW"] \in DisputeRow
      BY <1>0 DEF DisputeRow, DisputeStatus
    <2> QED
      BY <1>2, <1>3, <1>4, <1>5, <2>1, <2>2
  <1>10. CASE ResolveCommit(r)
    <2>1. GotoDispute(r, "enqueue") /\ UNCHANGED storeVars
          /\ dispute' = [dispute EXCEPT ![e] = [dispute[e] EXCEPT !.status = dreq[r].resolution]]
      BY <1>10 DEF ResolveCommit
    <2>2. e \in DOMAIN dispute =>
            [dispute[e] EXCEPT !.status = dreq[r].resolution] \in DisputeRow
      BY <1>0, <1>1 DEF DisputeRow
    <2> QED
      BY <1>2, <1>3, <1>4, <1>5, <2>1, <2>2
  <1>11. CASE ResolveEnqueue(r)
    <2> DEFINE S == {j \in JobIds : j[1] \in Triggered(dreq[r].resolution) /\ j[2] = e}
    <2>1. job' = [j \in JobIds |-> IF j \in S THEN Added(job[j]) ELSE job[j]]
      BY <1>11 DEF ResolveEnqueue
    <2>2. "fund" \notin Triggered(dreq[r].resolution)
      BY DEF Triggered
    <2>3. S \in SUBSET JobIds /\ \A j \in S : j[1] # "fund" /\ Disputable(j[2])
      BY <1>1, <2>2
    <2> HIDE DEF S
    <2>4. DisputeEffect
      BY <1>11, <2>1, <2>3 DEF ResolveEnqueue, DisputeEffect
    <2> QED
      BY <1>2, <1>11, <2>4 DEF ResolveEnqueue
  <1>12. CASE DisputeNotify(r)
    <2>1. DisputeEffect
      BY <1>1, <1>12 DEF DisputeNotify, DisputeEffect
    <2> QED
      BY <1>2, <1>12, <2>1 DEF DisputeNotify
  <1> QED
    BY <1>6, <1>7, <1>8, <1>9, <1>10, <1>11, <1>12 DEF DisputeStep

LEMMA DisputeNextStays ==
  ASSUME ArbitrationInv, UNCHANGED <<req, run>>, DisputeNext
  PROVE  DisputesStay
  BY BeginningsStay, StepsStay DEF DisputeNext

LEMMA InitArbitration == ArbitrationInit => ArbitrationInv
  <1> SUFFICES ASSUME ArbitrationInit PROVE ArbitrationInv
    OBVIOUS
  <1>1. IInv /\ DOMAIN dispute = {} /\ \A r \in DisputeRequests : dreq[r] = Idle
    BY InitIInv DEF ArbitrationInit, InitDisputes
  <1>2. dispute \in [{} -> DisputeRow]
    BY DEF ArbitrationInit, InitDisputes
  <1>3. DisputeTypeOK
    BY <1>1, <1>2 DEF DisputeTypeOK, IInv, ArbitrationInit, InitDisputes
  <1> QED
    BY <1>1, <1>3 DEF ArbitrationInv, DisputesDeployed

(* The two halves keep each other's invariants.                            *)
LEMMA EscrowsKeepDisputes ==
  ASSUME ArbitrationInv, Next, UNCHANGED disputeVars
  PROVE  ArbitrationInv'
  <1>1. IInv' /\ EscrowKept /\ UNCHANGED <<dispute, dreq>>
    BY NextKeeps DEF ArbitrationInv, disputeVars
  <1>2. \A e : Disputable(e) => e \in DOMAIN escrow' /\ escrow'[e].contract # 0
    BY <1>1 DEF EscrowKept, Disputable
  <1> QED
    BY <1>1, <1>2 DEF ArbitrationInv, DisputeTypeOK, DisputesDeployed, Disputable, IInv

LEMMA NextArbitration ==
  ArbitrationInv /\ [ArbitrationNext]_arbitrationVars => ArbitrationInv'
  <1> SUFFICES ASSUME ArbitrationInv, [ArbitrationNext]_arbitrationVars PROVE ArbitrationInv'
    OBVIOUS
  <1>1. CASE DisputeNext /\ UNCHANGED <<req, run>>
    BY <1>1, DisputeNextStays, EffectKeepsIInv DEF DisputesStay, ArbitrationInv
  <1>2. CASE UNCHANGED arbitrationVars
    <2>1. UNCHANGED vars /\ UNCHANGED <<dispute, dreq, escrow>>
      BY <1>2 DEF arbitrationVars, disputeVars, vars, storeVars
    <2>2. IInv'
      BY <2>1, NextIInv DEF ArbitrationInv
    <2> QED
      BY <2>1, <2>2 DEF ArbitrationInv, DisputeTypeOK, DisputesDeployed, Disputable, IInv
  <1> QED
    BY <1>1, <1>2, EscrowsKeepDisputes DEF ArbitrationNext

(* Requests about disputes are about disputes and escrows that exist and   *)
(* have a contract, whatever they and the escrow jobs interleave with: the *)
(* settlement a decision triggers always has a contract to settle.         *)
THEOREM DisputesInvariant == ArbitrationSpec => [](ArbitrationInv /\ DisputeTypeOK)
  <1>1. ArbitrationInv => DisputeTypeOK
    BY DEF ArbitrationInv
  <1> QED
    BY <1>1, InitArbitration, NextArbitration, PTL DEF ArbitrationSpec

-----------------------------------------------------------------------------
(* What the escrow workers promise holds among disputes too.               *)
LEMMA EffectKeepsEscrows ==
  ASSUME IInv, DisputeEffect
  PROVE  /\ DOMAIN escrow' = DOMAIN escrow
         /\ \A e \in DOMAIN escrow : /\ escrow'[e].client = escrow[e].client
                                     /\ escrow'[e].contract = escrow[e].contract
                                     /\ Total(e)' = Total(e)
         /\ \A e \in Escrows : job'[<<"fund", e>>] = job[<<"fund", e>>]
         /\ UNCHANGED <<balance, txn, chain, req, run>>
  <1>1. \A e \in DOMAIN escrow : escrow[e] \in EscrowRow
    BY TotalIsNat DEF IInv
  <1>2. /\ DOMAIN escrow' = DOMAIN escrow
        /\ \A e \in DOMAIN escrow : /\ escrow'[e].client = escrow[e].client
                                    /\ escrow'[e].contract = escrow[e].contract
                                    /\ escrow'[e].amount = escrow[e].amount
    BY <1>1 DEF DisputeEffect, Marked, EscrowRow
  <1>3. \A e \in Escrows : <<"fund", e>> \in JobIds
    BY DEF JobIds, JobKinds
  <1> QED
    BY <1>2, <1>3 DEF DisputeEffect, Total

LEMMA EffectKeepsCommits ==
  ASSUME IInv, CommitsOnce, DisputeEffect
  PROVE  CommitsOnce'
  <1>1. \A e \in DOMAIN escrow' : escrow'[e].contract # 0 => FundDone(e)'
    BY EffectKeepsEscrows DEF CommitsOnce, FundDone, IInv, TypeOK
  <1>2. \A kind \in SettlementKinds, e \in Escrows :
          run'[<<kind, e>>] # NoRun => run'[<<kind, e>>].contract = escrow'[e].contract
    <2> SUFFICES ASSUME NEW kind \in SettlementKinds, NEW e \in Escrows, run[<<kind, e>>] # NoRun
                 PROVE  run[<<kind, e>>].contract = escrow'[e].contract
      BY EffectKeepsEscrows
    <2>1. e \in DOMAIN escrow
      BY RunIsTyped DEF IInv, Typed, JobIds, JobKinds
    <2> QED
      BY <2>1, EffectKeepsEscrows DEF CommitsOnce
  <1>3. \A x \in txn' : IsSettlement(x) =>
          x.escrow \in DOMAIN escrow' /\ x.reference = escrow'[x.escrow].contract
    BY EffectKeepsEscrows DEF CommitsOnce
  <1> QED
    BY <1>1, <1>2, <1>3 DEF CommitsOnce

LEMMA EffectKeepsLocks ==
  ASSUME IInv, LocksBacked, DisputeEffect
  PROVE  LocksBacked'
  <1>1. ASSUME NEW u
        PROVE  Needed(u)' = Needed(u)
    <2>1. \A e \in Escrows : Locked(e)' = Locked(e) /\ IsSettled(e)' = IsSettled(e)
      BY EffectKeepsEscrows DEF Locked, LockPending, IsSettled
    <2>2. Backing(u)' = Backing(u)
      <3>1. DOMAIN escrow \subseteq Escrows
        BY DEF IInv, TypeOK
      <3> QED
        BY <2>1, <3>1, EffectKeepsEscrows DEF Backing
    <2>3. \A e \in Backing(u) : Total(e)' = Total(e)
      BY EffectKeepsEscrows DEF Backing
    <2>4. [e \in Backing(u)' |-> Total(e)'] = [e \in Backing(u) |-> Total(e)]
      BY <2>2, <2>3
    <2> QED
      BY <2>4 DEF Needed
  <1> QED
    BY <1>1, EffectKeepsEscrows DEF LocksBacked

(* The inductive invariant of these, with LocksBacked for the last one.    *)
Arbitrated == ArbitrationInv /\ CommitsOnce

LEMMA InitArbitrated == ArbitrationInit => Arbitrated /\ LocksBacked
  BY InitArbitration, InitBacked DEF ArbitrationInit, Backed, Decided, Arbitrated

LEMMA NextArbitrated ==
  ASSUME NoRefusal
  PROVE  Arbitrated /\ [ArbitrationNext]_arbitrationVars => Arbitrated'
  <1> SUFFICES ASSUME Arbitrated, [ArbitrationNext]_arbitrationVars PROVE CommitsOnce'
    BY NextArbitration DEF Arbitrated
  <1>1. CASE DisputeNext /\ UNCHANGED <<req, run>>
    BY <1>1, DisputeNextStays, EffectKeepsCommits DEF DisputesStay, Arbitrated, ArbitrationInv
  <1>2. CASE Next
    BY <1>2, CommitsOnceStays DEF Arbitrated, ArbitrationInv
  <1>3. CASE UNCHANGED arbitrationVars
    BY <1>3 DEF arbitrationVars, vars, storeVars, Arbitrated, CommitsOnce, FundDone
  <1> QED
    BY <1>1, <1>2, <1>3 DEF ArbitrationNext

LEMMA NextArbitratedBacked ==
  ASSUME NoWorkerFault
  PROVE  Arbitrated /\ LocksBacked /\ [ArbitrationNext]_arbitrationVars
           => Arbitrated' /\ LocksBacked'
  <1> SUFFICES ASSUME Arbitrated, LocksBacked, [ArbitrationNext]_arbitrationVars
               PROVE  LocksBacked'
    BY NextArbitrated, NoFaultIsNoRefusal
  <1>1. CASE DisputeNext /\ UNCHANGED <<req, run>>
    BY <1>1, DisputeNextStays, EffectKeepsLocks DEF DisputesStay, Arbitrated, ArbitrationInv
  <1>2. CASE Next
    BY <1>2, LocksBackedStays DEF Arbitrated, ArbitrationInv
  <1>3. CASE UNCHANGED arbitrationVars
    BY <1>3, BackedUnchanged DEF arbitrationVars, Arbitrated, ArbitrationInv
  <1> QED
    BY <1>1, <1>2, <1>3 DEF ArbitrationNext

LEMMA ArbitratedOneWay == Arbitrated => SettledOneWay
  <1> SUFFICES ASSUME Arbitrated,
                      NEW x \in txn, NEW y \in txn, IsSettlement(x), IsSettlement(y),
                      x.escrow = y.escrow
               PROVE  x = y
    BY DEF SettledOneWay
  <1>1. x.reference = y.reference
    BY DEF Arbitrated, CommitsOnce
  <1> QED
    BY <1>1, BookedOnce DEF Arbitrated, ArbitrationInv, PaidOncePerContract

(* A release the client asked for, a refund by an admin and the outcome of *)
(* a dispute never pay both sides, in whatever order their jobs run and    *)
(* whichever calls and transactions fail, while no worker dies and no      *)
(* queue refuses: then an escrow has one contract, which the chain settles *)
(* once.                                                                   *)
THEOREM SettlesOneWay ==
  ASSUME NoRefusal
  PROVE  ArbitrationSpec => []SettledOneWay
  BY InitArbitrated, NextArbitrated, ArbitratedOneWay, PTL DEF ArbitrationSpec

LEMMA UnsettledStandOnMoney ==
  ASSUME Arbitrated, NEW u
  PROVE  Unsettled(u) \in SUBSET Backing(u)
  BY DeployedIsLocked DEF Arbitrated, ArbitrationInv, Unsettled, Backing, IsSettled

LEMMA BackedIsUnsettled == Arbitrated /\ LocksBacked => UnsettledAreBacked
  BY UnsettledStandOnMoney, PartIsBacked DEF Arbitrated, ArbitrationInv, UnsettledAreBacked

(* While no step of a worker fails, the money of every escrow with a       *)
(* contract stays reserved until it is settled, whatever status disputes   *)
(* write over the one the settlement looks at.                             *)
THEOREM UnsettledIsBacked ==
  ASSUME NoWorkerFault
  PROVE  ArbitrationSpec => []UnsettledAreBacked
  BY InitArbitrated, NextArbitratedBacked, BackedIsUnsettled, PTL DEF ArbitrationSpec

LEMMA StepOfArbitratedWallet ==
  ArbitrationInv /\ [ArbitrationNext]_arbitrationVars => [W!Next]_Money
  <1> SUFFICES ASSUME ArbitrationInv, [ArbitrationNext]_arbitrationVars
               PROVE  W!Next \/ Money' = Money
    OBVIOUS
  <1>1. CASE DisputeNext /\ UNCHANGED <<req, run>>
    <2>1. UNCHANGED balance
      BY <1>1, DisputeNextStays DEF DisputesStay, DisputeEffect
    <2> QED
      BY <2>1 DEF Money, MoneyOf
  <1>2. CASE [Next]_vars
    BY <1>2, StepOfWallet DEF ArbitrationInv
  <1> QED
    BY <1>1, <1>2 DEF ArbitrationNext, arbitrationVars

(* Disputes move no money of their own: the balances still implement the   *)
(* abstract wallet.                                                        *)
THEOREM ArbitrationImplementsWallet == ArbitrationSpec => WalletSpec
  <1>1. ArbitrationInv /\ [ArbitrationNext]_arbitrationVars =>
          [W!Next]_([u \in Users |-> [available |-> balance[u].available,
                                      reserved  |-> balance[u].reserved]])
    BY StepOfArbitratedWallet DEF Money, MoneyOf
  <1>2. ArbitrationInit => W!Init
    BY WalletInit DEF ArbitrationInit
  <1> QED
    BY <1>1, <1>2, InitArbitration, NextArbitration, PTL DEF ArbitrationSpec, WalletSpec, W!Spec
=============================================================================
