------------------------- MODULE EscrowSafetyProofs -------------------------
(***************************************************************************)
(* IInv is an invariant of Escrow, for every value of the constants, and   *)
(* what follows from it.  The proof first says what any step does to each  *)
(* variable, whatever the step is, and then argues from that alone.        *)
(***************************************************************************)
EXTENDS EscrowProofs

(* The balances: a lock is taken, given back or paid out.                  *)
BalanceEffect ==
  \/ UNCHANGED balance
  \/ \E r \in Requests : LockWrite(r)
  \/ \E e \in DOMAIN escrow : balance' = GivenBack(e) \/ balance' = PaidOut(e)

(* The escrows: one is created, one is funded, one gets its final status.  *)
EscrowEffect ==
  \/ UNCHANGED escrow
  \/ \E e \in Escrows, k \in Keys, c \in Users, f \in Users, a \in Amounts : Create(e, k, c, f, a)
  \/ \E e \in DOMAIN escrow : /\ run[<<"fund", e>>].pc = "fundCommit"
                              /\ escrow' = Funded(e, run[<<"fund", e>>].contract)
  \/ \E e \in DOMAIN escrow, status \in Final : escrow' = Marked(e, status)

(* The contracts: one is deployed or settled.                              *)
ChainEffect ==
  \/ UNCHANGED chain
  \/ \E e \in Escrows : chain' = Deployed(e)
  \/ \E c \in Nat, kind \in SettlementKinds : Accepts(c, kind) /\ chain' = Settled(c, kind)

(* The transactions: a lock or a settlement with a new key, or locks that  *)
(* change status.                                                          *)
TxnEffect ==
  \/ UNCHANGED txn
  \/ \E k \in Keys, e \in Escrows, u \in Users, a \in Amounts :
       ~Used(k) /\ txn' = txn \cup {LockRow(k, e, u, a)}
  \/ \E e \in DOMAIN escrow, status \in {"COMPLETED", "FAILED"}, c \in Nat :
       txn' = LocksMarked(e, status, c)
  \/ \E kind \in SettlementKinds, e \in DOMAIN escrow :
       /\ run[<<kind, e>>].pc = "txWrite"
       /\ ~Used(SettlementKey(kind, e, run[<<kind, e>>].contract))
       /\ txn' = Booking(kind, e)

(* The requests: one begins, has read enough money, goes on, or ends.      *)
ReqEffect ==
  \/ UNCHANGED req
  \/ \E r \in Requests : \E new :
       /\ req' = [req EXCEPT ![r] = new]
       /\ \/ new = Idle
          \/ /\ new.pc # "lockWrite"
             /\ new.escrow \in DOMAIN escrow
             /\ new.kind = "fund" \/ escrow[new.escrow].contract # 0
          \/ /\ req[r] # Idle
             /\ new.pc = "lockWrite"
             /\ new.kind = req[r].kind /\ new.escrow = req[r].escrow
             /\ new.seen = balance[escrow[new.escrow].client].version
             /\ balance[escrow[new.escrow].client].available >= Total(new.escrow)
             /\ UNCHANGED <<balance, escrow>>

(* The jobs: only one that a request asks for is added.                    *)
JobEffect == \A j \in JobIds :
  job'[j].state # "none" =>
    \/ job[j].state # "none"
    \/ \E r \in Requests : req[r] # Idle /\ j = <<req[r].kind, req[r].escrow>>

(* The runs: contracts come from a deployment or from the escrow, and a    *)
(* settlement goes on only when the contract is settled that way.          *)
RunEffect ==
  \/ UNCHANGED run
  \/ \E j \in JobIds : \E new :
       /\ run' = [run EXCEPT ![j] = new]
       /\ \/ new = NoRun
          \/ j[1] = "fund" /\ new.pc # "fundCommit"
          \/ /\ j[1] = "fund"
             /\ new.contract = Len(chain) + 1
             /\ chain' = Deployed(j[2])
          \/ /\ j[1] \in SettlementKinds
             /\ j[2] \in DOMAIN escrow
             /\ escrow[j[2]].contract # 0
             /\ new.contract = escrow[j[2]].contract
             /\ new.pc = "call"
          \/ /\ j[1] \in SettlementKinds
             /\ run[j] # NoRun
             /\ new.contract = run[j].contract
             /\ \/ run[j].pc \in {"tx", "txWrite"}
                \/ chain' = Settled(run[j].contract, j[1])

Effects == /\ BalanceEffect /\ EscrowEffect /\ ChainEffect /\ TxnEffect
           /\ ReqEffect /\ JobEffect /\ RunEffect

-----------------------------------------------------------------------------
(* Every step has these effects.                                           *)
LEMMA ServiceEffects ==
  ASSUME Typed, SettlesDeployed, ServiceNext, UNCHANGED run
  PROVE  Effects
  <1> USE DEF Effects
  <1>1. RunEffect
    BY DEF RunEffect
  <1>2. ASSUME NEW e \in Escrows, NEW k \in Keys, NEW c \in Users, NEW f \in Users,
               NEW a \in Amounts, Create(e, k, c, f, a)
        PROVE  Effects
    <2>1. UNCHANGED <<balance, chain, job, event, req>> /\ ~Used(k)
          /\ txn' = txn \cup {LockRow(k, e, c, a)}
      BY <1>2 DEF Create
    <2>2. EscrowEffect
      BY <1>2 DEF EscrowEffect
    <2> QED
      BY <1>1, <2>1, <2>2 DEF BalanceEffect, ChainEffect, TxnEffect, ReqEffect, JobEffect
  <1>3. ASSUME NEW r \in Requests, UNCHANGED <<balance, txn, chain, escrow, job, event>>, ReqEffect
        PROVE  Effects
    BY <1>1, <1>3 DEF BalanceEffect, EscrowEffect, ChainEffect, TxnEffect, JobEffect
  <1>4. ASSUME NEW r \in Requests, NEW e \in DOMAIN escrow, NEW k,
               NEW pc \in {"lockRead", "enqueue"}, NEW kind \in JobKinds,
               kind = "fund" \/ escrow[e].contract # 0,
               Begin(r, pc, kind, e, k), UNCHANGED <<balance, txn, chain, escrow, job, event>>
        PROVE  Effects
    <2> DEFINE new == [pc |-> pc, kind |-> kind, escrow |-> e, key |-> k, seen |-> 0]
    <2>1. req' = [req EXCEPT ![r] = new]
      BY <1>4 DEF Begin
    <2>2. /\ new.pc # "lockWrite"
          /\ new.escrow \in DOMAIN escrow
          /\ new.kind = "fund" \/ escrow[new.escrow].contract # 0
      BY <1>4
    <2> HIDE DEF new
    <2>3. ReqEffect
      BY <2>1, <2>2 DEF ReqEffect
    <2> QED
      BY <1>3, <1>4, <2>3
  <1>5. ASSUME NEW r \in Requests, NEW e \in Escrows, NEW k \in Keys, Fund(r, e, k)
        PROVE  Effects
    BY <1>4, <1>5 DEF Fund, JobKinds
  <1>6. ASSUME NEW r \in Requests, NEW e \in Escrows, Release(r, e) \/ Refund(r, e)
        PROVE  Effects
    BY <1>4, <1>6 DEF Release, Refund, JobKinds, SettlementKinds, SettlesDeployed
  <1>7. ASSUME NEW r \in Requests, req' = [req EXCEPT ![r] = Idle],
               UNCHANGED <<balance, txn, chain, escrow, job, event>>
        PROVE  Effects
    BY <1>3, <1>7 DEF ReqEffect
  <1>8. ASSUME NEW r \in Requests, LockRead(r)
        PROVE  Effects
    <2> DEFINE row == balance[escrow[req[r].escrow].client]
               new == [req[r] EXCEPT !.pc = "lockWrite", !.seen = row.version]
    <2>1. req[r] # Idle /\ req[r] \in ServiceRequest /\ req[r].escrow \in DOMAIN escrow
      BY <1>8, NotIdle, RequestIsTyped DEF LockRead, Typed
    <2>2. CASE row.available < Total(req[r].escrow)
      BY <1>7, <1>8, <2>2 DEF LockRead
    <2>3. CASE ~(row.available < Total(req[r].escrow))
      <3>1. row \in BalanceRow /\ Total(req[r].escrow) \in Nat
        BY <2>1, TotalIsNat DEF Typed, TypeOK
      <3>2. row.available >= Total(req[r].escrow)
        BY <2>3, <3>1 DEF BalanceRow
      <3>3. req' = [req EXCEPT ![r] = new]
        BY <1>8, <2>3 DEF LockRead
      <3>4. /\ new.pc = "lockWrite" /\ new.kind = req[r].kind /\ new.escrow = req[r].escrow
            /\ new.seen = row.version
        BY <2>1 DEF ServiceRequest
      <3> HIDE DEF new
      <3>5. UNCHANGED <<balance, txn, chain, escrow, job, event>>
        BY <1>8 DEF LockRead
      <3>6. ReqEffect
        <4>1. row = balance[escrow[new.escrow].client] /\ Total(new.escrow) = Total(req[r].escrow)
          BY <3>4
        <4> HIDE DEF row
        <4> QED
          BY <2>1, <3>2, <3>3, <3>4, <3>5, <4>1 DEF ReqEffect
      <3> QED
        BY <1>3, <3>5, <3>6
    <2> QED
      BY <2>2, <2>3
  <1>9. ASSUME NEW r \in Requests, LockWrite(r)
        PROVE  Effects
    <2>1. req[r] # Idle
      BY <1>9, NotIdle DEF LockWrite
    <2>2. /\ req[r] \in ServiceRequest
          /\ req[r].escrow \in DOMAIN escrow
          /\ req[r].escrow \in Escrows
          /\ req[r].key \in Keys
      BY <2>1, RequestIsTyped DEF Typed
    <2>3. escrow[req[r].escrow].client \in Users /\ escrow[req[r].escrow].amount \in Amounts
      BY <2>2, TotalIsNat DEF EscrowRow, Typed
    <2>4. TxnEffect
      BY <1>9, <2>2, <2>3 DEF TxnEffect, LockWrite
    <2>5. ReqEffect
      <3> DEFINE new == [req[r] EXCEPT !.pc = "enqueue"]
      <3>1. /\ new.pc # "lockWrite"
            /\ new.escrow \in DOMAIN escrow
            /\ new.kind = "fund" \/ escrow[new.escrow].contract # 0
        BY <2>1, <2>2 DEF ServiceRequest, SettlesDeployed
      <3>2. req' = [req EXCEPT ![r] = new]
        BY <1>9 DEF LockWrite
      <3> HIDE DEF new
      <3> QED
        BY <3>1, <3>2 DEF ReqEffect
    <2>6. UNCHANGED <<chain, escrow, job, event>>
      BY <1>9 DEF LockWrite
    <2> QED
      BY <1>1, <1>9, <2>4, <2>5, <2>6
      DEF BalanceEffect, EscrowEffect, ChainEffect, JobEffect
  <1>10. ASSUME NEW r \in Requests, Enqueue(r)
         PROVE  Effects
    <2>1. req[r] # Idle
      BY <1>10, NotIdle DEF Enqueue
    <2>2. /\ job' = [job EXCEPT ![<<req[r].kind, req[r].escrow>>] = Added(@)]
          /\ UNCHANGED <<balance, txn, chain, escrow, event>>
          /\ req' = [req EXCEPT ![r] = Idle]
      BY <1>10 DEF Enqueue
    <2>3. JobEffect
      BY <2>1, <2>2 DEF JobEffect, Typed, TypeOK
    <2>4. ReqEffect
      BY <2>2 DEF ReqEffect
    <2> QED
      BY <1>1, <2>2, <2>3, <2>4 DEF BalanceEffect, EscrowEffect, ChainEffect, TxnEffect
  <1> QED
    BY <1>2, <1>5, <1>6, <1>7, <1>8, <1>9, <1>10
    DEF ServiceNext, ServiceStep, LockConflict, RequestLost

(* A run only goes on, or ends, for a job that was added.                  *)
LEMMA RunKeepsJobs ==
  ASSUME Typed, NEW j \in JobIds, NEW Outcome,
         job[j].state # "none" \/ Outcome.state = "none",
         UNCHANGED job \/ job' = [job EXCEPT ![j] = Outcome]
  PROVE  JobEffect
  BY DEF JobEffect, Typed, TypeOK

LEMMA EndEffects ==
  ASSUME Typed, UNCHANGED req, NEW j \in JobIds, run[j] # NoRun, NEW Outcome,
         End(j, Outcome), UNCHANGED <<balance, escrow>>, ChainEffect, TxnEffect
  PROVE  Effects
  <1>1. JobEffect
    <2>1. job[j].state # "none"
      BY RunIsTyped
    <2> QED
      BY <2>1, RunKeepsJobs DEF End
  <1>2. RunEffect
    BY DEF End, RunEffect
  <1> QED
    BY <1>1, <1>2 DEF Effects, BalanceEffect, EscrowEffect, ReqEffect

LEMMA TakeEffects ==
  ASSUME Typed, UNCHANGED req, NEW j \in JobIds, NEW pc, Take(j, pc),
         \/ j[1] = "fund" /\ pc # "fundCommit"
         \/ j[1] \in SettlementKinds /\ pc = "call" /\ escrow[j[2]].contract # 0
  PROVE  Effects
  <1> DEFINE new == [pc |-> pc, contract |-> escrow[j[2]].contract, seenC |-> 0, seenF |-> 0]
  <1>1. /\ job[j].state = "waiting"
        /\ job' = [job EXCEPT ![j] = Started(job[j])]
        /\ run' = [run EXCEPT ![j] = new]
        /\ UNCHANGED <<balance, txn, chain, escrow, event>>
    BY DEF Take
  <1>2. new.pc = pc /\ new.contract = escrow[j[2]].contract
    OBVIOUS
  <1> HIDE DEF new
  <1>3. JobEffect
    BY <1>1, RunKeepsJobs
  <1>4. j[2] \in DOMAIN escrow
    BY <1>1 DEF Typed, InUse
  <1>5. RunEffect
    BY <1>1, <1>2, <1>4 DEF RunEffect
  <1> QED
    BY <1>1, <1>3, <1>5
    DEF Effects, BalanceEffect, EscrowEffect, ChainEffect, TxnEffect, ReqEffect

LEMMA FundEffects ==
  ASSUME Typed, UNCHANGED req, NEW e \in Escrows, FundStep(e)
  PROVE  Effects
  <1> DEFINE j == <<"fund", e>>
  <1>0. j \in JobIds /\ j[1] = "fund" /\ j[2] = e
    BY DEF JobIds, JobKinds
  <1>a. ASSUME NEW pc, pc # "fundCommit", Goto(j, pc)
        PROVE  RunEffect
    <2>1. run' = [run EXCEPT ![j] = [run[j] EXCEPT !.pc = pc]]
      BY <1>a DEF Goto
    <2>2. run[j] \in {NoRun} \cup ProcessorRun
      BY <1>0 DEF Typed, TypeOK
    <2>3. [run[j] EXCEPT !.pc = pc].pc # "fundCommit"
      BY <1>a, <2>2 DEF NoRun, ProcessorRun
    <2> QED
      BY <1>0, <2>1, <2>3 DEF RunEffect
  <1>b. ASSUME UNCHANGED job
        PROVE  JobEffect /\ ReqEffect
    BY <1>b DEF JobEffect, ReqEffect
  <1>1. CASE FundStart(e)
    BY <1>0, <1>1, TakeEffects DEF FundStart
  <1>2. CASE FundDeploy(e)
    <2>1. run[j] # NoRun
      BY <1>0, <1>2, NotNoRun DEF FundDeploy
    <2>2. RunEffect
      <3>1. CASE Goto(j, "rollbackRead")
        BY <1>a, <3>1
      <3>2. CASE /\ chain' = Deployed(e)
                 /\ run' = [run EXCEPT ![j].pc = "fundCommit", ![j].contract = Len(chain) + 1]
        <4> DEFINE new == [run[j] EXCEPT !.pc = "fundCommit", !.contract = Len(chain) + 1]
        <4>1. new.contract = Len(chain) + 1
          BY <1>0, <2>1, RunIsTyped DEF ProcessorRun
        <4>2. run' = [run EXCEPT ![j] = new]
          BY <3>2
        <4> HIDE DEF new
        <4> QED
          BY <1>0, <3>2, <4>1, <4>2 DEF RunEffect
      <3> QED
        BY <1>2, <3>1, <3>2 DEF FundDeploy
    <2>3. ChainEffect
      BY <1>2 DEF FundDeploy, ChainEffect
    <2>4. UNCHANGED <<balance, txn, escrow, job, event>>
      BY <1>2 DEF FundDeploy
    <2> QED
      BY <1>b, <2>2, <2>3, <2>4 DEF Effects, BalanceEffect, EscrowEffect, TxnEffect
  <1>3. CASE FundCommit(e)
    <2>1. run[j] # NoRun
      BY <1>0, <1>3, NotNoRun DEF FundCommit
    <2>2. e \in DOMAIN escrow /\ run[j].contract \in Nat
      BY <1>0, <2>1, RunIsTyped DEF ProcessorRun
    <2>3. EscrowEffect
      BY <1>3, <2>2 DEF FundCommit, At, EscrowEffect
    <2>4. TxnEffect
      BY <1>3, <2>2 DEF FundCommit, TxnEffect
    <2>5. RunEffect
      BY <1>a, <1>3 DEF FundCommit
    <2>6. UNCHANGED <<balance, chain, job, event>>
      BY <1>3 DEF FundCommit
    <2> QED
      BY <1>b, <2>3, <2>4, <2>5, <2>6 DEF Effects, BalanceEffect, ChainEffect
  <1>4. CASE FundThrows(e)
    <2>1. UNCHANGED <<balance, txn, chain, escrow, job, event>> /\ RunEffect
      BY <1>a, <1>4 DEF FundThrows
    <2> QED
      BY <1>b, <2>1 DEF Effects, BalanceEffect, EscrowEffect, ChainEffect, TxnEffect
  <1>5. CASE RollbackRead(e)
    <2> DEFINE new == [run[j] EXCEPT !.pc = "rollbackWrite",
                                     !.seenC = balance[escrow[e].client].version]
    <2>1. run[j] # NoRun
      BY <1>0, <1>5, NotNoRun DEF RollbackRead
    <2>2. new.pc # "fundCommit"
      BY <1>0, <2>1, RunIsTyped DEF ProcessorRun
    <2>3. run' = [run EXCEPT ![j] = new] /\ UNCHANGED <<balance, txn, chain, escrow, job, event>>
      BY <1>5 DEF RollbackRead
    <2> HIDE DEF new
    <2>4. RunEffect
      BY <1>0, <2>2, <2>3 DEF RunEffect
    <2> QED
      BY <1>b, <2>3, <2>4 DEF Effects, BalanceEffect, EscrowEffect, ChainEffect, TxnEffect
  <1>6. CASE RollbackWrite(e)
    <2>1. run[j] # NoRun
      BY <1>0, <1>6, NotNoRun DEF RollbackWrite
    <2>2. e \in DOMAIN escrow
      BY <1>0, <2>1, RunIsTyped
    <2>3. BalanceEffect
      BY <1>6, <2>2 DEF RollbackWrite, BalanceEffect
    <2>4. UNCHANGED <<txn, chain, escrow, job, event>> /\ RunEffect
      BY <1>a, <1>6 DEF RollbackWrite
    <2> QED
      BY <1>b, <2>3, <2>4 DEF Effects, EscrowEffect, ChainEffect, TxnEffect
  <1>7. CASE MarkFailed(e)
    <2>1. run[j] # NoRun
      BY <1>0, <1>7, NotNoRun DEF MarkFailed
    <2>2. e \in DOMAIN escrow
      BY <1>0, <2>1, RunIsTyped
    <2>3. TxnEffect
      BY <1>7, <2>2 DEF MarkFailed, TxnEffect
    <2> QED
      BY <1>0, <1>7, <2>1, <2>3, EndEffects DEF MarkFailed, ChainEffect
  <1>8. CASE CatchThrows(e)
    <2>1. run[j] # NoRun
      BY <1>8 DEF CatchThrows, NoRun
    <2> QED
      BY <1>0, <1>8, <2>1, EndEffects DEF CatchThrows, ChainEffect, TxnEffect
  <1> QED
    BY <1>1, <1>2, <1>3, <1>4, <1>5, <1>6, <1>7, <1>8 DEF FundStep

LEMMA SettleEffects ==
  ASSUME Typed, UNCHANGED req, NEW kind \in SettlementKinds, NEW e \in Escrows,
         SettleStep(kind, e)
  PROVE  Effects
  <1> DEFINE j == <<kind, e>>
  <1>0. j \in JobIds /\ j[1] = kind /\ j[2] = e
    BY DEF JobIds, JobKinds
  <1>b. ASSUME UNCHANGED job
        PROVE  JobEffect /\ ReqEffect
    BY <1>b DEF JobEffect, ReqEffect
  <1>1. CASE SettleStart(kind, e)
    BY <1>0, <1>1, TakeEffects DEF SettleStart
  <1>2. CASE SettleCall(kind, e)
    <2>1. run[j] # NoRun
      BY <1>0, <1>2, NotNoRun DEF SettleCall
    <2>2. run[j] \in ProcessorRun /\ run[j].contract \in Nat
      BY <1>0, <2>1, RunIsTyped DEF ProcessorRun
    <2>3. ChainEffect
      BY <1>2, <2>2 DEF SettleCall, ChainEffect
    <2>4. CASE Goto(j, "tx") /\ job' = job
      <3> DEFINE new == [run[j] EXCEPT !.pc = "tx"]
      <3>1. new.contract = run[j].contract
        BY <2>2 DEF ProcessorRun
      <3>2. run' = [run EXCEPT ![j] = new]
        BY <2>4 DEF Goto
      <3>3. chain' = Settled(run[j].contract, kind)
        BY <1>2 DEF SettleCall
      <3> HIDE DEF new, j
      <3>4. RunEffect
        BY <1>0, <2>1, <3>1, <3>2, <3>3 DEF RunEffect
      <3>5. UNCHANGED <<balance, txn, escrow, event>>
        BY <1>2 DEF SettleCall
      <3> QED
        BY <1>b, <2>3, <2>4, <3>4, <3>5 DEF Effects, BalanceEffect, EscrowEffect, TxnEffect
    <2>5. CASE End(j, Failed(job[j]))
      BY <1>0, <1>2, <2>1, <2>3, <2>5, EndEffects DEF SettleCall, TxnEffect
    <2> QED
      BY <1>2, <2>4, <2>5 DEF SettleCall
  <1>3. CASE SettleRefused(kind, e) \/ SettleThrows(kind, e)
    <2>1. run[j] # NoRun
      BY <1>3 DEF SettleRefused, SettleThrows, At, NoRun
    <2> QED
      BY <1>0, <1>3, <2>1, EndEffects DEF SettleRefused, SettleThrows, ChainEffect, TxnEffect
  <1>c. ASSUME run[j].pc \in {"tx", "txWrite"}, NEW new,
               run' = [run EXCEPT ![j] = new], new.contract = run[j].contract
        PROVE  RunEffect
    <2>1. run[j] # NoRun
      BY <1>c DEF NoRun
    <2> QED
      BY <1>0, <1>c, <2>1 DEF RunEffect
  <1>4. CASE SettleRead(kind, e)
    <2>1. run[j].pc = "tx" /\ run[j] # NoRun
      BY <1>0, <1>4, NotNoRun DEF SettleRead, At
    <2> DEFINE new == [run[j] EXCEPT !.pc = "txWrite",
                                     !.seenC = balance[escrow[e].client].version,
                                     !.seenF = balance[escrow[e].freelancer].version]
    <2>2. new.contract = run[j].contract
      BY <1>0, <2>1, RunIsTyped DEF ProcessorRun
    <2>3. run' = [run EXCEPT ![j] = new] /\ UNCHANGED <<balance, txn, chain, escrow, job, event>>
      BY <1>4 DEF SettleRead
    <2> HIDE DEF new
    <2>4. RunEffect
      BY <1>c, <2>1, <2>2, <2>3
    <2> QED
      BY <1>b, <2>3, <2>4 DEF Effects, BalanceEffect, EscrowEffect, ChainEffect, TxnEffect
  <1>5. ASSUME At(j, "txWrite"), ~Conflict(kind, e), txn' = Booking(kind, e), Goto(j, "notify"),
               e \in DOMAIN escrow => balance' = GivenBack(e) \/ balance' = PaidOut(e),
               NEW status \in Final, escrow' = Marked(e, status),
               UNCHANGED <<chain, job, event>>
        PROVE  Effects
    <2>1. run[j].pc = "txWrite" /\ run[j] # NoRun
      BY <1>0, <1>5, NotNoRun DEF At
    <2>2. e \in DOMAIN escrow
      BY <1>0, <2>1, RunIsTyped
    <2>3. BalanceEffect /\ EscrowEffect
      BY <1>5, <2>2 DEF BalanceEffect, EscrowEffect
    <2>4. TxnEffect
      BY <1>5, <2>1, <2>2 DEF TxnEffect, Conflict
    <2>5. RunEffect
      <3> DEFINE new == [run[j] EXCEPT !.pc = "notify"]
      <3>1. new.contract = run[j].contract
        BY <1>0, <2>1, RunIsTyped DEF ProcessorRun
      <3>2. run' = [run EXCEPT ![j] = new]
        BY <1>5 DEF Goto
      <3> HIDE DEF new
      <3> QED
        BY <1>c, <2>1, <3>1, <3>2
    <2> QED
      BY <1>b, <1>5, <2>3, <2>4, <2>5 DEF Effects, ChainEffect
  <1>6. ASSUME kind = "release", ReleaseCommit(e)
        PROVE  Effects
    BY <1>5, <1>6 DEF ReleaseCommit, Final
  <1>7. ASSUME kind = "refund", RefundCommit(e)
        PROVE  Effects
    BY <1>5, <1>7 DEF RefundCommit, Final
  <1> QED
    BY <1>1, <1>2, <1>3, <1>4, <1>6, <1>7 DEF SettleStep

LEMMA NextEffects ==
  ASSUME Typed, SettlesDeployed, Next
  PROVE  Effects
  <1>1. CASE ServiceNext /\ UNCHANGED run
    BY <1>1, ServiceEffects
  <1>2. CASE ProcessorNext /\ UNCHANGED req
    <2> PICK j \in JobIds : JobStep(j) \/ WorkerCrash(j)
      BY <1>2 DEF ProcessorNext
    <2>1. j[2] \in Escrows
      BY DEF JobIds
    <2>2. CASE j[1] = "fund" /\ FundStep(j[2])
      BY <1>2, <2>1, <2>2, FundEffects
    <2>3. CASE j[1] \in SettlementKinds /\ SettleStep(j[1], j[2])
      BY <1>2, <2>1, <2>3, SettleEffects
    <2>4. CASE Notify(j) \/ WorkerCrash(j)
      <3>1. run[j] # NoRun
        BY <2>4, NotNoRun DEF Notify, WorkerCrash
      <3> QED
        BY <1>2, <2>4, <3>1, EndEffects DEF Notify, WorkerCrash, ChainEffect, TxnEffect
    <2> QED
      BY <2>2, <2>3, <2>4 DEF JobStep
  <1> QED
    BY <1>1, <1>2 DEF Next

-----------------------------------------------------------------------------
(* What no step changes.  An escrow keeps its parties, its amount and      *)
(* having a contract; a new one is PENDING between two parties.            *)
EscrowKept ==
  /\ \A e \in DOMAIN escrow :
       /\ e \in DOMAIN escrow'
       /\ escrow'[e].client = escrow[e].client
       /\ escrow'[e].freelancer = escrow[e].freelancer
       /\ escrow'[e].amount = escrow[e].amount
       /\ escrow[e].contract # 0 => escrow'[e].contract # 0
       /\ \/ escrow'[e].contract = escrow[e].contract
          \/ /\ run[<<"fund", e>>].pc = "fundCommit"
             /\ escrow'[e].contract = run[<<"fund", e>>].contract
       /\ \/ escrow'[e].status = escrow[e].status
          \/ escrow'[e].status \in Final
          \/ escrow'[e].contract # 0
  /\ \A e \in DOMAIN escrow' \ DOMAIN escrow :
       /\ escrow'[e].client # escrow'[e].freelancer
       /\ escrow'[e].contract = 0
       /\ escrow'[e].status = "PENDING"

(* A contract stays deployed for its escrow, and settled the way it is.    *)
ChainKept == \A c \in DOMAIN chain :
  /\ c \in DOMAIN chain'
  /\ chain'[c].escrow = chain[c].escrow
  /\ chain[c].state = "held" \/ chain'[c].state = chain[c].state

LEMMA DeployedIsNumbered ==
  ASSUME Typed, ContractsOwned, NEW e \in Escrows, run[<<"fund", e>>].pc = "fundCommit"
  PROVE  run[<<"fund", e>>].contract # 0
  BY DEF ContractsOwned, OwnContract, Typed, TypeOK

LEMMA EscrowIsKept ==
  ASSUME Typed, ContractsOwned, EscrowEffect
  PROVE  EscrowKept
  <1> USE DEF EscrowKept
  <1>0. /\ DOMAIN escrow \subseteq Escrows
        /\ \A e \in DOMAIN escrow : escrow[e] \in EscrowRow
    BY DEF Typed, TypeOK
  <1>1. CASE UNCHANGED escrow
    BY <1>1
  <1>2. ASSUME NEW e \in Escrows, NEW k \in Keys, NEW c \in Users, NEW f \in Users,
               NEW a \in Amounts, Create(e, k, c, f, a)
        PROVE  EscrowKept
    BY <1>2 DEF Create
  <1>3. ASSUME NEW e \in DOMAIN escrow, run[<<"fund", e>>].pc = "fundCommit",
               escrow' = Funded(e, run[<<"fund", e>>].contract)
        PROVE  EscrowKept
    <2> DEFINE new == [escrow[e] EXCEPT !.status = "FUNDED",
                                        !.contract = run[<<"fund", e>>].contract]
    <2>1. run[<<"fund", e>>].contract # 0
      BY <1>0, <1>3, DeployedIsNumbered
    <2>2. /\ new.client = escrow[e].client
          /\ new.freelancer = escrow[e].freelancer
          /\ new.amount = escrow[e].amount
          /\ new.contract = run[<<"fund", e>>].contract
      BY <1>0 DEF EscrowRow
    <2>3. escrow' = [escrow EXCEPT ![e] = new]
      BY <1>3 DEF Funded
    <2> HIDE DEF new
    <2> QED
      BY <1>3, <2>1, <2>2, <2>3
  <1>4. ASSUME NEW e \in DOMAIN escrow, NEW status \in Final, escrow' = Marked(e, status)
        PROVE  EscrowKept
    <2> DEFINE new == [escrow[e] EXCEPT !.status = status]
    <2>1. /\ new.client = escrow[e].client
          /\ new.freelancer = escrow[e].freelancer
          /\ new.amount = escrow[e].amount
          /\ new.contract = escrow[e].contract
          /\ new.status \in Final
      BY <1>0 DEF EscrowRow
    <2>2. escrow' = [escrow EXCEPT ![e] = new]
      BY <1>4 DEF Marked
    <2> HIDE DEF new
    <2> QED
      BY <2>1, <2>2
  <1> QED
    BY <1>1, <1>2, <1>3, <1>4 DEF EscrowEffect

LEMMA ChainIsKept ==
  ASSUME Typed, ChainEffect
  PROVE  ChainKept
  <1> USE DEF ChainKept
  <1>0. chain \in Seq(Contract) /\ \A c \in DOMAIN chain : chain[c] \in Contract
    BY DEF Typed, TypeOK
  <1>1. CASE UNCHANGED chain
    BY <1>1
  <1>2. ASSUME NEW e \in Escrows, chain' = Deployed(e)
        PROVE  ChainKept
    BY <1>0, <1>2 DEF Deployed
  <1>3. ASSUME NEW c \in Nat, NEW kind \in SettlementKinds, Accepts(c, kind),
               chain' = Settled(c, kind)
        PROVE  ChainKept
    <2> DEFINE new == [chain[c] EXCEPT !.state = kind]
    <2>1. chain' = [chain EXCEPT ![c] = new]
      BY <1>3 DEF Settled
    <2>2. ASSUME c \in DOMAIN chain
          PROVE  /\ new.escrow = chain[c].escrow
                 /\ chain[c].state = "held" \/ new.state = chain[c].state
      BY <1>0, <1>3, <2>2 DEF Contract, Accepts
    <2> HIDE DEF new
    <2> QED
      BY <1>0, <2>1, <2>2
  <1> QED
    BY <1>1, <1>2, <1>3 DEF ChainEffect

-----------------------------------------------------------------------------
(* A balance row is left alone or gets a higher version, and what is       *)
(* available goes down only by a lock that the version check has covered.  *)
BalanceKept == \A u \in Users :
  \/ balance'[u] = balance[u]
  \/ balance'[u].version > balance[u].version

LEMMA RowMoves ==
  ASSUME Typed, NEW u \in Users, NEW a \in Int, NEW b \in Int
  PROVE  /\ Moved(balance[u], a, b).version > balance[u].version
         /\ Moved(balance[u], a, b).available = balance[u].available + a
         /\ a >= 0 => Moved(balance[u], a, b).available >= balance[u].available
         /\ balance[u].available \in Int
         /\ balance[u].version \in Nat
  BY DEF Typed, TypeOK, Moved, BalanceRow

LEMMA LockWriteMoves ==
  ASSUME Typed, SnapshotSound, NEW r \in Requests, LockWrite(r)
  PROVE  LET u == escrow[req[r].escrow].client
             total == Total(req[r].escrow)
         IN  /\ u \in Users
             /\ total \in Nat
             /\ balance[u].available >= total
             /\ balance' = [balance EXCEPT ![u] = Moved(balance[u], -total, total)]
  <1> DEFINE u == escrow[req[r].escrow].client
  <1>1. req[r].escrow \in DOMAIN escrow
    BY NotIdle, RequestIsTyped DEF LockWrite, Typed
  <1>2. u \in Users /\ Total(req[r].escrow) \in Nat
    BY <1>1, TotalIsNat DEF Typed
  <1>3. balance[u].available >= Total(req[r].escrow)
    BY DEF LockWrite, SnapshotSound, Current
  <1>4. balance' = [balance EXCEPT ![u] = Moved(balance[u], -Total(req[r].escrow), Total(req[r].escrow))]
    BY DEF LockWrite
  <1> QED
    BY <1>2, <1>3, <1>4

LEMMA SettlementMoves ==
  ASSUME Typed, TwoParties, NEW e \in DOMAIN escrow,
         balance' = GivenBack(e) \/ balance' = PaidOut(e)
  PROVE  \A u \in Users :
           \/ balance'[u] = balance[u]
           \/ /\ balance'[u].version > balance[u].version
              /\ balance'[u].available >= balance[u].available
  <1> DEFINE c == escrow[e].client
             f == escrow[e].freelancer
  <1>1. /\ c \in Users /\ f \in Users /\ c # f
        /\ escrow[e].amount \in Nat /\ Total(e) \in Nat
    BY TotalIsNat DEF Typed, TwoParties
  <1>2. balance \in [Users -> BalanceRow]
    BY DEF Typed, TypeOK
  <1>3. CASE balance' = GivenBack(e)
    <2>1. balance' = [balance EXCEPT ![c] = Moved(balance[c], Total(e), -Total(e))]
      BY <1>3 DEF GivenBack
    <2>2. Total(e) \in Int /\ -Total(e) \in Int /\ Total(e) >= 0
      BY <1>1
    <2>3. /\ Moved(balance[c], Total(e), -Total(e)).version > balance[c].version
          /\ Moved(balance[c], Total(e), -Total(e)).available >= balance[c].available
      <3> HIDE DEF c
      <3> QED
        BY <1>1, <2>2, RowMoves
    <2> QED
      BY <1>1, <1>2, <2>1, <2>3
  <1>4. CASE balance' = PaidOut(e)
    <2>1. balance' = [balance EXCEPT ![f] = Moved(balance[f], escrow[e].amount, 0),
                                     ![c] = Moved(balance[c], 0, -Total(e))]
      BY <1>4 DEF PaidOut
    <2>2. /\ escrow[e].amount \in Int /\ escrow[e].amount >= 0
          /\ 0 \in Int /\ 0 >= 0 /\ -Total(e) \in Int
      BY <1>1
    <2>3. /\ Moved(balance[f], escrow[e].amount, 0).version > balance[f].version
          /\ Moved(balance[f], escrow[e].amount, 0).available >= balance[f].available
          /\ Moved(balance[c], 0, -Total(e)).version > balance[c].version
          /\ Moved(balance[c], 0, -Total(e)).available >= balance[c].available
      <3> HIDE DEF c, f
      <3>1. /\ Moved(balance[f], escrow[e].amount, 0).version > balance[f].version
            /\ Moved(balance[f], escrow[e].amount, 0).available >= balance[f].available
        BY <1>1, <2>2, RowMoves
      <3>2. /\ Moved(balance[c], 0, -Total(e)).version > balance[c].version
            /\ Moved(balance[c], 0, -Total(e)).available >= balance[c].available
        BY <1>1, <2>2, RowMoves
      <3> QED
        BY <3>1, <3>2
    <2>4. /\ balance'[f] = Moved(balance[f], escrow[e].amount, 0)
          /\ balance'[c] = Moved(balance[c], 0, -Total(e))
          /\ \A u \in Users \ {c, f} : balance'[u] = balance[u]
      BY <1>1, <1>2, <2>1
    <2> QED
      BY <2>3, <2>4
  <1> QED
    BY <1>3, <1>4

LEMMA BalanceIsKept ==
  ASSUME Typed, TwoParties, NoOverdraft, SnapshotSound, BalanceEffect
  PROVE  BalanceKept /\ NoOverdraft'
  <1>0. \A u \in Users : balance[u].available \in Int /\ balance[u].available >= 0
    BY DEF Typed, TypeOK, BalanceRow, NoOverdraft
  <1>1. CASE UNCHANGED balance
    BY <1>1 DEF BalanceKept, NoOverdraft
  <1>2. ASSUME NEW r \in Requests, LockWrite(r)
        PROVE  BalanceKept /\ NoOverdraft'
    <2> DEFINE u == escrow[req[r].escrow].client
               total == Total(req[r].escrow)
               new == Moved(balance[u], -total, total)
    <2>1. /\ u \in Users
          /\ total \in Nat
          /\ balance[u].available >= total
          /\ balance' = [balance EXCEPT ![u] = new]
      BY <1>2, LockWriteMoves
    <2>2. -total \in Int /\ total \in Int
      BY <2>1
    <2>3. new.version > balance[u].version /\ new.available = balance[u].available + (-total)
      BY <2>1, <2>2, RowMoves
    <2>4. new.available >= 0
      <3>1. balance[u].available \in Int
        BY <1>0, <2>1
      <3> HIDE DEF new, total
      <3> QED
        BY <2>1, <2>3, <3>1
    <2> HIDE DEF new
    <2> QED
      BY <1>0, <2>1, <2>3, <2>4 DEF BalanceKept, NoOverdraft, Typed, TypeOK
  <1>3. ASSUME NEW e \in DOMAIN escrow, balance' = GivenBack(e) \/ balance' = PaidOut(e)
        PROVE  BalanceKept /\ NoOverdraft'
    <2>1. balance' \in [Users -> BalanceRow]
      BY <1>3, GivenBackTyped, PaidOutTyped DEF Typed
    <2>2. \A u \in Users : balance'[u].available \in Int
      BY <2>1 DEF BalanceRow
    <2>3. \A u \in Users :
            \/ balance'[u] = balance[u]
            \/ /\ balance'[u].version > balance[u].version
               /\ balance'[u].available >= balance[u].available
      BY <1>3, SettlementMoves
    <2> QED
      BY <1>0, <2>2, <2>3 DEF BalanceKept, NoOverdraft
  <1> QED
    BY <1>1, <1>2, <1>3 DEF BalanceEffect

-----------------------------------------------------------------------------
(* The parts of the invariant that are about escrows, requests and jobs.   *)
LEMMA PartiesStay ==
  ASSUME TwoParties, EscrowKept
  PROVE  TwoParties'
  BY DEF TwoParties, EscrowKept

LEMMA DeployedStays ==
  ASSUME Typed, SettlesDeployed, EscrowKept, ReqEffect, JobEffect
  PROVE  SettlesDeployed'
  <1>1. ASSUME NEW e \in DOMAIN escrow', escrow'[e].status \in {"FUNDED", "ACTIVE", "DISPUTED"}
        PROVE  escrow'[e].contract # 0
    BY <1>1 DEF SettlesDeployed, EscrowKept, Final
  <1>2. ASSUME NEW q \in Requests, req'[q] # Idle, req'[q].kind # "fund"
        PROVE  escrow'[req'[q].escrow].contract # 0
    <2>1. CASE req'[q] = req[q]
      <3>1. req[q].escrow \in DOMAIN escrow /\ escrow[req[q].escrow].contract # 0
        BY <1>2, <2>1 DEF SettlesDeployed, Typed, InUse
      <3> QED
        BY <2>1, <3>1 DEF EscrowKept
    <2>2. CASE req'[q] # req[q]
      <3>1. PICK r, new :
              /\ r \in Requests
              /\ req' = [req EXCEPT ![r] = new]
              /\ \/ new = Idle
                 \/ new.escrow \in DOMAIN escrow
                    /\ (new.kind = "fund" \/ escrow[new.escrow].contract # 0)
                 \/ req[r] # Idle /\ new.kind = req[r].kind /\ new.escrow = req[r].escrow
        BY <2>2 DEF ReqEffect
      <3>2. q = r /\ req'[q] = new
        BY <2>2, <3>1 DEF Typed, TypeOK
      <3>3. new.escrow \in DOMAIN escrow /\ escrow[new.escrow].contract # 0
        BY <1>2, <3>1, <3>2 DEF SettlesDeployed, Typed, InUse
      <3> QED
        BY <3>2, <3>3 DEF EscrowKept
    <2> QED
      BY <2>1, <2>2
  <1>3. ASSUME NEW j \in JobIds, j[1] # "fund", job'[j].state # "none"
        PROVE  escrow'[j[2]].contract # 0
    <2>1. j[2] \in DOMAIN escrow /\ escrow[j[2]].contract # 0
      <3>1. CASE job[j].state # "none"
        BY <1>3, <3>1 DEF SettlesDeployed, Typed, InUse
      <3>2. ASSUME NEW r \in Requests, req[r] # Idle, j = <<req[r].kind, req[r].escrow>>
            PROVE  j[2] \in DOMAIN escrow /\ escrow[j[2]].contract # 0
        BY <1>3, <3>2 DEF SettlesDeployed, Typed, InUse
      <3> QED
        BY <1>3, <3>1, <3>2 DEF JobEffect
    <2> QED
      BY <2>1 DEF EscrowKept
  <1> QED
    BY <1>1, <1>2, <1>3 DEF SettlesDeployed

LEMMA TotalIsKept ==
  ASSUME EscrowKept, NEW e \in DOMAIN escrow
  PROVE  Total(e)' = Total(e) /\ escrow'[e].client = escrow[e].client
  BY DEF EscrowKept, Total

LEMMA SnapshotsStay ==
  ASSUME Typed, Typed', SnapshotSound, EscrowKept, BalanceKept, ReqEffect
  PROVE  SnapshotSound'
  <1> SUFFICES ASSUME NEW q \in Requests, req'[q].pc = "lockWrite",
                      NEW e, e = req'[q].escrow
               PROVE  LET row == balance'[escrow'[e].client]
                      IN  /\ req'[q].seen <= row.version
                          /\ req'[q].seen = row.version => row.available >= Total(e)'
    BY DEF SnapshotSound
  <1>1. CASE req'[q] = req[q]
    <2>1. req[q] # Idle
      BY <1>1 DEF Idle
    <2>2. e = req[q].escrow /\ e \in DOMAIN escrow /\ req[q].seen \in Nat
      BY <1>1, <2>1, RequestIsTyped DEF Typed, ServiceRequest
    <2> DEFINE u == escrow[e].client
    <2>3. u \in Users /\ escrow'[e].client = u /\ Total(e)' = Total(e)
      BY <2>2, TotalIsNat, TotalIsKept DEF Typed
    <2>4. /\ req[q].seen <= balance[u].version
          /\ req[q].seen = balance[u].version => balance[u].available >= Total(e)
      BY <1>1, <2>2 DEF SnapshotSound
    <2>5. /\ balance[u].version \in Nat /\ balance'[u].version \in Nat
          /\ \/ balance'[u] = balance[u]
             \/ balance'[u].version > balance[u].version
      BY <2>3 DEF Typed, TypeOK, BalanceRow, BalanceKept
    <2> HIDE DEF u
    <2> QED
      BY <1>1, <2>2, <2>3, <2>4, <2>5
  <1>2. CASE req'[q] # req[q]
    <2>1. PICK r, new :
            /\ r \in Requests
            /\ req' = [req EXCEPT ![r] = new]
            /\ \/ new = Idle
               \/ new.pc # "lockWrite"
               \/ /\ req[r] # Idle
                  /\ new.escrow = req[r].escrow
                  /\ new.seen = balance[escrow[new.escrow].client].version
                  /\ balance[escrow[new.escrow].client].available >= Total(new.escrow)
                  /\ UNCHANGED <<balance, escrow>>
      BY <1>2 DEF ReqEffect
    <2>2. q = r /\ req'[q] = new
      BY <1>2, <2>1 DEF Typed, TypeOK
    <2>3. /\ req[r] # Idle
          /\ e = req[r].escrow
          /\ req'[q].seen = balance[escrow[e].client].version
          /\ balance[escrow[e].client].available >= Total(e)
          /\ UNCHANGED <<balance, escrow>>
      BY <2>1, <2>2 DEF Idle
    <2>4. e \in DOMAIN escrow
      BY <2>2, <2>3 DEF Typed, InUse
    <2>5. Total(e)' = Total(e) /\ escrow[e].client \in Users
      BY <2>4, TotalIsNat, TotalIsKept DEF Typed
    <2>6. balance[escrow[e].client].version \in Nat
      BY <2>5 DEF Typed, TypeOK, BalanceRow
    <2> QED
      BY <2>3, <2>5, <2>6
  <1> QED
    BY <1>1, <1>2

-----------------------------------------------------------------------------
(* The parts that are about contracts and the rows that book them.         *)
LEMMA OwnContractStays ==
  ASSUME ChainKept, NEW c, NEW e, OwnContract(c, e)
  PROVE  /\ OwnContract(c, e)'
         /\ \A kind \in SettlementKinds : chain[c].state = kind => chain'[c].state = kind
  BY DEF OwnContract, ChainKept, SettlementKinds

LEMMA ContractsStay ==
  ASSUME Typed, ContractsOwned, EscrowKept, ChainKept, RunEffect
  PROVE  ContractsOwned'
  <1>0. chain \in Seq(Contract) /\ run \in [JobIds -> {NoRun} \cup ProcessorRun]
    BY DEF Typed, TypeOK
  <1>1. ASSUME NEW e \in DOMAIN escrow', NEW c, c = escrow'[e].contract, c # 0
        PROVE  OwnContract(c, e)'
    <2>1. e \in DOMAIN escrow /\ e \in Escrows
      BY <1>1 DEF EscrowKept, Typed, TypeOK
    <2>2. OwnContract(c, e)
      BY <1>1, <2>1 DEF EscrowKept, ContractsOwned
    <2> QED
      BY <2>2, OwnContractStays
  <1>2. ASSUME NEW e \in Escrows, NEW c, c = run'[<<"fund", e>>].contract,
               run'[<<"fund", e>>].pc = "fundCommit"
        PROVE  OwnContract(c, e)'
    <2> DEFINE j == <<"fund", e>>
    <2>0. j \in JobIds /\ j[1] = "fund" /\ j[2] = e
      BY DEF JobIds, JobKinds
    <2>1. CASE run'[j] = run[j]
      <3>1. OwnContract(c, e)
        BY <1>2, <2>1 DEF ContractsOwned
      <3> QED
        BY <3>1, OwnContractStays
    <2>2. CASE run'[j] # run[j]
      <3>1. run'[j].pc = "fundCommit" /\ run'[j].contract = c
        BY <1>2
      <3> HIDE DEF j
      <3>2. c = Len(chain) + 1 /\ chain' = Deployed(e)
        BY <1>0, <2>0, <2>2, <3>1 DEF RunEffect, SettlementKinds, NoRun
      <3> QED
        BY <1>0, <3>2 DEF Deployed, OwnContract
    <2> QED
      BY <2>1, <2>2
  <1>3. ASSUME NEW kind \in SettlementKinds, NEW e \in Escrows, run'[<<kind, e>>] # NoRun,
               NEW c, c = run'[<<kind, e>>].contract
        PROVE  /\ OwnContract(c, e)'
               /\ run'[<<kind, e>>].pc \in {"tx", "txWrite", "notify"} => chain'[c].state = kind
    <2> DEFINE j == <<kind, e>>
    <2>0. j \in JobIds /\ j[1] = kind /\ j[2] = e /\ kind # "fund"
      BY DEF JobIds, JobKinds, SettlementKinds
    <2>1. run[j] # NoRun =>
            /\ OwnContract(run[j].contract, e)
            /\ run[j].pc \in {"tx", "txWrite", "notify"} => chain[run[j].contract].state = kind
      BY DEF ContractsOwned
    <2>2. run'[j] # NoRun /\ run'[j].contract = c
      BY <1>3
    <2>3. SUFFICES /\ OwnContract(c, e)'
                   /\ run'[j].pc \in {"tx", "txWrite", "notify"} => chain'[c].state = kind
      OBVIOUS
    <2> HIDE DEF j
    <2>4. CASE run'[j] = run[j]
      BY <2>1, <2>2, <2>4, OwnContractStays
    <2>5. CASE run'[j] # run[j]
      <3>1. \/ /\ e \in DOMAIN escrow
               /\ escrow[e].contract # 0
               /\ c = escrow[e].contract
               /\ run'[j].pc = "call"
            \/ /\ run[j] # NoRun
               /\ c = run[j].contract
               /\ \/ run[j].pc \in {"tx", "txWrite"}
                  \/ chain' = Settled(c, kind)
        <4>1. PICK i, new : /\ i \in JobIds
                            /\ run' = [run EXCEPT ![i] = new]
                            /\ \/ new = NoRun
                               \/ i[1] = "fund"
                               \/ /\ i[2] \in DOMAIN escrow
                                  /\ escrow[i[2]].contract # 0
                                  /\ new.contract = escrow[i[2]].contract
                                  /\ new.pc = "call"
                               \/ /\ run[i] # NoRun
                                  /\ new.contract = run[i].contract
                                  /\ \/ run[i].pc \in {"tx", "txWrite"}
                                     \/ chain' = Settled(run[i].contract, i[1])
          BY <2>5 DEF RunEffect
        <4>2. i = j /\ new = run'[j]
          BY <1>0, <2>5, <4>1
        <4> QED
          BY <2>0, <2>2, <4>1, <4>2
      <3>2. OwnContract(c, e)
        BY <2>1, <3>1 DEF ContractsOwned
      <3>3. CASE chain' = Settled(c, kind)
        <4> DEFINE new == [chain[c] EXCEPT !.state = kind]
        <4>1. c \in DOMAIN chain /\ chain[c] \in Contract
          BY <1>0, <3>2 DEF OwnContract
        <4>2. new.state = kind
          BY <4>1 DEF Contract
        <4>3. chain' = [chain EXCEPT ![c] = new]
          BY <3>3 DEF Settled
        <4> HIDE DEF new
        <4>4. chain'[c].state = kind
          BY <4>1, <4>2, <4>3
        <4> QED
          BY <3>2, <4>4, OwnContractStays
      <3> QED
        BY <2>1, <3>1, <3>2, <3>3, OwnContractStays
    <2> QED
      BY <2>4, <2>5
  <1> QED
    BY <1>1, <1>2, <1>3 DEF ContractsOwned

(* Marking locks keeps their keys and leaves the settlements alone.        *)
AfterMarking(row, e, status, c) ==
  IF row.type = "ESCROW_LOCK" /\ row.escrow = e /\ row.status = "PENDING"
    THEN [row EXCEPT !.status = status, !.reference = c]
    ELSE row

LEMMA MarkedRows ==
  ASSUME Typed, NEW e, NEW status, NEW c, NEW x \in LocksMarked(e, status, c)
  PROVE  \E old \in txn : /\ x.key = old.key
                          /\ x = AfterMarking(old, e, status, c)
                          /\ IsSettlement(x) => x = old
  <1>1. PICK old \in txn : x = AfterMarking(old, e, status, c)
    BY DEF LocksMarked, AfterMarking
  <1>2. old.type = "ESCROW_LOCK" => old \in TxnRow
    BY DEF Typed, TypeOK, IsEscrowRow
  <1>3. x.key = old.key /\ x.type = old.type
    BY <1>1, <1>2 DEF TxnRow, AfterMarking
  <1>4. IsSettlement(x) => x = old
    BY <1>1, <1>3 DEF IsSettlement, AfterMarking
  <1> QED
    BY <1>1, <1>3, <1>4

(* What Booked says of one settlement.                                     *)
BookedRow(x) ==
  LET kind == IF x.type = "ESCROW_RELEASE" THEN "release" ELSE "refund"
  IN  /\ x.key = SettlementKey(kind, x.escrow, x.reference)
      /\ OwnContract(x.reference, x.escrow)
      /\ chain[x.reference].state = kind

LEMMA BookedRowStays ==
  ASSUME Typed, ChainKept, NEW x, BookedRow(x)
  PROVE  BookedRow(x)'
  <1>1. OwnContract(x.reference, x.escrow)
    BY DEF BookedRow
  <1> QED
    BY <1>1, OwnContractStays DEF BookedRow, SettlementKinds

LEMMA NewKeyIsUnique ==
  ASSUME Booked, NEW row, ~Used(row.key), txn' = txn \cup {row}
  PROVE  \A x, y \in txn' : x.key = y.key => x = y
  BY DEF Booked, Used

LEMMA BooksStay ==
  ASSUME Typed, ContractsOwned, Booked, ChainKept, TxnEffect
  PROVE  Booked'
  <1>0. \A x \in txn : IsSettlement(x) => BookedRow(x) /\ BookedRow(x)'
    BY BookedRowStays DEF Booked, BookedRow
  <1>q. SUFFICES /\ \A x, y \in txn' : x.key = y.key => x = y
                 /\ \A x \in txn' : IsSettlement(x) => BookedRow(x)'
    BY DEF Booked, BookedRow, IsSettlement
  <1>1. CASE UNCHANGED txn
    BY <1>0, <1>1 DEF Booked
  <1>2. ASSUME NEW k \in Keys, NEW e \in Escrows, NEW u \in Users, NEW a \in Amounts,
               ~Used(k), txn' = txn \cup {LockRow(k, e, u, a)}
        PROVE  /\ \A x, y \in txn' : x.key = y.key => x = y
               /\ \A x \in txn' : IsSettlement(x) => BookedRow(x)'
    <2>1. LockRow(k, e, u, a).key = k /\ ~IsSettlement(LockRow(k, e, u, a))
      BY DEF LockRow, IsSettlement
    <2> QED
      BY <1>0, <1>2, <2>1, NewKeyIsUnique
  <1>3. ASSUME NEW e \in DOMAIN escrow, NEW status \in {"COMPLETED", "FAILED"}, NEW c \in Nat,
               txn' = LocksMarked(e, status, c)
        PROVE  /\ \A x, y \in txn' : x.key = y.key => x = y
               /\ \A x \in txn' : IsSettlement(x) => BookedRow(x)'
    <2>1. ASSUME NEW x \in txn', NEW y \in txn', x.key = y.key
          PROVE  x = y
      <3>1. PICK old \in txn : x.key = old.key /\ x = AfterMarking(old, e, status, c)
        BY <1>3, MarkedRows
      <3>2. PICK other \in txn : y.key = other.key /\ y = AfterMarking(other, e, status, c)
        BY <1>3, MarkedRows
      <3>3. old = other
        BY <2>1, <3>1, <3>2 DEF Booked
      <3> QED
        BY <3>1, <3>2, <3>3
    <2>2. ASSUME NEW x \in txn', IsSettlement(x)
          PROVE  BookedRow(x)'
      <3>1. x \in txn
        BY <1>3, <2>2, MarkedRows
      <3> QED
        BY <1>0, <2>2, <3>1
    <2> QED
      BY <2>1, <2>2
  <1>4. ASSUME NEW kind \in SettlementKinds, NEW e \in DOMAIN escrow,
               run[<<kind, e>>].pc = "txWrite",
               ~Used(SettlementKey(kind, e, run[<<kind, e>>].contract)),
               txn' = Booking(kind, e)
        PROVE  /\ \A x, y \in txn' : x.key = y.key => x = y
               /\ \A x \in txn' : IsSettlement(x) => BookedRow(x)'
    <2> DEFINE c == run[<<kind, e>>].contract
               row == SettlementRow(kind, e, c)
    <2>1. /\ row.key = SettlementKey(kind, e, c)
          /\ row.escrow = e /\ row.reference = c
          /\ row.type = IF kind = "release" THEN "ESCROW_RELEASE" ELSE "ESCROW_REFUND"
      BY DEF SettlementRow
    <2>2. OwnContract(c, e) /\ chain[c].state = kind
      <3>1. e \in Escrows /\ run[<<kind, e>>] # NoRun
        BY <1>4 DEF Typed, TypeOK, NoRun
      <3> QED
        BY <1>4, <3>1 DEF ContractsOwned
    <2>3. txn' = txn \cup {row}
      BY <1>4 DEF Booking
    <2> HIDE DEF row, c
    <2>4. BookedRow(row)
      BY <2>1, <2>2 DEF BookedRow, SettlementKinds
    <2>5. ~Used(row.key)
      BY <1>4, <2>1 DEF c
    <2> QED
      BY <1>0, <2>3, <2>4, <2>5, NewKeyIsUnique, BookedRowStays
  <1> QED
    BY <1>1, <1>2, <1>3, <1>4 DEF TxnEffect

-----------------------------------------------------------------------------
(* The invariant holds to begin with, and every step keeps it.             *)
LEMMA InitIInv == Init => IInv
  <1> SUFFICES ASSUME Init PROVE IInv
    OBVIOUS
  <1>1. Typed
    BY InitTyped
  <1>2. /\ DOMAIN escrow = {} /\ txn = {}
        /\ \A r \in Requests : req[r] = Idle
        /\ \A j \in JobIds : job[j].state = "none" /\ run[j] = NoRun
        /\ \A u \in Users : balance[u].available = Funds[u]
    BY DEF Init, InitEscrowStore, InitStore, InitService, InitProcessor, NoJob
  <1>3. TwoParties /\ SettlesDeployed
    BY <1>2 DEF TwoParties, SettlesDeployed
  <1>4. NoOverdraft
    BY <1>2, StoreAssumption DEF NoOverdraft
  <1>5. SnapshotSound
    BY <1>2 DEF SnapshotSound, Idle
  <1>6. ContractsOwned
    BY <1>2 DEF ContractsOwned, JobIds, JobKinds, NoRun
  <1>7. Booked
    BY <1>2 DEF Booked
  <1> QED
    BY <1>1, <1>3, <1>4, <1>5, <1>6, <1>7 DEF IInv, Typed

LEMMA NextKeeps ==
  ASSUME IInv, Next
  PROVE  IInv' /\ EscrowKept /\ ChainKept /\ BalanceKept /\ Effects
  <1>1. Typed /\ Typed'
    BY NextTyped DEF IInv, Typed
  <1>2. Effects
    BY <1>1, NextEffects DEF IInv
  <1>3. EscrowKept /\ ChainKept
    BY <1>1, <1>2, EscrowIsKept, ChainIsKept DEF IInv, Effects
  <1>4. BalanceKept /\ NoOverdraft'
    BY <1>1, <1>2, BalanceIsKept DEF IInv, Effects
  <1>5. TwoParties' /\ SettlesDeployed'
    BY <1>1, <1>2, <1>3, PartiesStay, DeployedStays DEF IInv, Effects
  <1>6. SnapshotSound'
    BY <1>1, <1>2, <1>3, <1>4, SnapshotsStay DEF IInv, Effects
  <1>7. ContractsOwned' /\ Booked'
    BY <1>1, <1>2, <1>3, ContractsStay, BooksStay DEF IInv, Effects
  <1> QED
    BY <1>1, <1>2, <1>3, <1>4, <1>5, <1>6, <1>7 DEF IInv, Typed

LEMMA NextIInv == IInv /\ [Next]_vars => IInv'
  <1> SUFFICES ASSUME IInv, [Next]_vars PROVE IInv'
    OBVIOUS
  <1>1. CASE Next
    BY <1>1, NextKeeps
  <1>2. CASE UNCHANGED vars
    BY <1>2
    DEF IInv, vars, storeVars, TypeOK, InUse, Running, TwoParties, SettlesDeployed, NoOverdraft,
        SnapshotSound, ContractsOwned, OwnContract, Booked, Total
  <1> QED
    BY <1>1, <1>2

(* The invariant behind the safety of the escrows: at every state, what a  *)
(* request has read and what a job is about to write still fits the        *)
(* tables and the contracts.                                               *)
THEOREM InvariantHolds == Spec => []IInv
  BY InitIInv, NextIInv, PTL DEF Spec

(* No interleaving of fund requests, retries and failures lets a client    *)
(* spend more than is available: the version check of the lock covers the  *)
(* amount check that was made before it.                                   *)
THEOREM NeverOverdrawn == Spec => []NoOverdraft
  <1>1. IInv => NoOverdraft
    BY DEF IInv
  <1> QED
    BY <1>1, InvariantHolds, PTL

LEMMA BookedOnce == IInv => PaidOncePerContract
  <1> SUFFICES ASSUME IInv, NEW x \in txn, IsSettlement(x)
               PROVE  /\ \A y \in txn : IsSettlement(y) /\ y.reference = x.reference => y = x
                      /\ x.reference \in DOMAIN chain
                      /\ chain[x.reference].escrow = x.escrow
                      /\ chain[x.reference].state =
                           IF x.type = "ESCROW_RELEASE" THEN "release" ELSE "refund"
    BY DEF PaidOncePerContract
  <1>1. \A y \in txn : IsSettlement(y) => BookedRow(y)
    BY DEF IInv, Booked, BookedRow
  <1>2. ASSUME NEW y \in txn, IsSettlement(y), y.reference = x.reference
        PROVE  y = x
    <2>1. y.escrow = x.escrow
      BY <1>1, <1>2 DEF BookedRow, OwnContract
    <2>2. (x.type = "ESCROW_RELEASE") <=> (y.type = "ESCROW_RELEASE")
      BY <1>1, <1>2 DEF BookedRow
    <2>3. y.key = x.key
      BY <1>1, <1>2, <2>1, <2>2 DEF BookedRow, SettlementKey
    <2> QED
      BY <2>3 DEF IInv, Booked
  <1> QED
    BY <1>1, <1>2 DEF BookedRow, OwnContract

(* A settlement of a contract is booked at most once, for the escrow the   *)
(* contract was deployed for and on the side it went to on the chain,      *)
(* however often its jobs are retried and whichever jobs race.             *)
THEOREM PaidOnce == Spec => []PaidOncePerContract
  BY BookedOnce, InvariantHolds, PTL

(* An entry for a debit of u under a key that was not there before. *)
NewDebit(u) ==
  \E row \in txn' : /\ row.user = u
                    /\ row.key \in Keys
                    /\ \A old \in txn : old.key # row.key

LEMMA LocksDebit ==
  ASSUME IInv, Next, NEW u \in Users, balance'[u].available < balance[u].available
  PROVE  NewDebit(u)
  <1>1. Typed /\ balance \in [Users -> BalanceRow] /\ balance' \in [Users -> BalanceRow]
    BY NextKeeps DEF IInv, Typed, TypeOK
  <1>2. balance'[u].available \in Int /\ balance[u].available \in Int
    BY <1>1 DEF BalanceRow
  <1>3. BalanceEffect
    BY NextKeeps DEF Effects
  <1>4. PICK r \in Requests : LockWrite(r)
    BY <1>1, <1>2, <1>3, SettlementMoves DEF BalanceEffect, IInv
  <1> DEFINE e == req[r].escrow
             row == LockRow(req[r].key, e, escrow[e].client, escrow[e].amount)
  <1>5. req[r].key \in Keys /\ ~Used(req[r].key) /\ txn' = txn \cup {row}
    BY <1>1, <1>4, NotIdle, RequestIsTyped DEF LockWrite, Typed
  <1>6. u = escrow[e].client
    BY <1>1, <1>2, <1>4, LockWriteMoves DEF IInv
  <1>7. row.user = u /\ row.key = req[r].key
    BY <1>6 DEF LockRow
  <1> HIDE DEF row
  <1> QED
    BY <1>5, <1>7 DEF Used, NewDebit

(* A client's available balance goes down only in a step that inserts a    *)
(* lock row of that client under an idempotency key that was not used      *)
(* before: a fund request that is sent again is charged once.              *)
THEOREM ChargedOncePerKey == Spec => DebitTakesFreshKey
  <1>1. IInv /\ [Next]_vars =>
          [\A u \in Users : balance'[u].available < balance[u].available => NewDebit(u)]_vars
    BY LocksDebit
  <1>2. IInv /\ [Next]_vars =>
          [\A u \in Users : balance'[u].available < balance[u].available =>
             \E row \in txn' : /\ row.user = u
                               /\ row.key \in Keys
                               /\ \A old \in txn : old.key # row.key]_vars
    BY <1>1 DEF NewDebit
  <1> QED
    BY <1>2, InvariantHolds, PTL DEF Spec, DebitTakesFreshKey

-----------------------------------------------------------------------------
(* The balances table implements the abstract wallet.                      *)
MoneyOf(u) == [available |-> balance[u].available, reserved |-> balance[u].reserved]

Money == [u \in Users |-> MoneyOf(u)]

LEMMA MoneyMoves ==
  ASSUME Typed, NEW u \in Users, NEW a \in Int, NEW b \in Int,
         balance'[u] = Moved(balance[u], a, b)
  PROVE  MoneyOf(u)' = [available |-> MoneyOf(u).available + a,
                        reserved  |-> MoneyOf(u).reserved + b]
  BY DEF Typed, TypeOK, Moved, BalanceRow, MoneyOf

LEMMA WalletInit == Init => W!Init
  <1> SUFFICES ASSUME Init PROVE W!Init
    OBVIOUS
  <1>1. \A u \in Users : balance[u].available = Funds[u] /\ balance[u].reserved = 0
    BY DEF Init, InitEscrowStore, InitStore
  <1> QED
    BY <1>1 DEF W!Init

(* One row of balances is moved: so is the money of its user.              *)
LEMMA OneRowMoves ==
  ASSUME Typed, NEW u \in Users, NEW a \in Int, NEW b \in Int,
         balance' = [balance EXCEPT ![u] = Moved(balance[u], a, b)]
  PROVE  Money' = [Money EXCEPT ![u] = [available |-> MoneyOf(u).available + a,
                                        reserved  |-> MoneyOf(u).reserved + b]]
  <1>1. balance'[u] = Moved(balance[u], a, b) /\ \A v \in Users \ {u} : balance'[v] = balance[v]
    BY DEF Typed, TypeOK
  <1>2. MoneyOf(u)' = [available |-> MoneyOf(u).available + a,
                       reserved  |-> MoneyOf(u).reserved + b]
    BY <1>1, MoneyMoves
  <1>3. \A v \in Users \ {u} : MoneyOf(v)' = MoneyOf(v)
    BY <1>1 DEF MoneyOf
  <1> HIDE DEF MoneyOf
  <1> QED
    BY <1>2, <1>3 DEF Money

(* A lock, a rollback and a payment of a deal of amount a.                 *)
LEMMA LockIsHold ==
  ASSUME Typed, NEW u \in Users, NEW a \in Amounts, W!Cost(a) \in Nat,
         balance[u].available >= W!Cost(a),
         balance' = [balance EXCEPT ![u] = Moved(balance[u], -W!Cost(a), W!Cost(a))]
  PROVE  W!Hold(u, a)
  <1>1. W!Cost(a) \in Int /\ -W!Cost(a) \in Int
    OBVIOUS
  <1>2. Money' = [Money EXCEPT ![u] = [available |-> MoneyOf(u).available + (-W!Cost(a)),
                                       reserved  |-> MoneyOf(u).reserved + W!Cost(a)]]
    BY <1>1, OneRowMoves
  <1>3. Money[u] = MoneyOf(u) /\ MoneyOf(u).available = balance[u].available
    BY DEF Money, MoneyOf
  <1> QED
    BY <1>2, <1>3 DEF W!Hold, W!Shift, Money, MoneyOf

LEMMA RollbackIsUnhold ==
  ASSUME Typed, NEW u \in Users, NEW a \in Amounts, W!Cost(a) \in Nat,
         balance' = [balance EXCEPT ![u] = Moved(balance[u], W!Cost(a), -W!Cost(a))]
  PROVE  W!Unhold(u, a)
  <1>1. W!Cost(a) \in Int /\ -W!Cost(a) \in Int
    OBVIOUS
  <1>2. Money' = [Money EXCEPT ![u] = [available |-> MoneyOf(u).available + W!Cost(a),
                                       reserved  |-> MoneyOf(u).reserved + (-W!Cost(a))]]
    BY <1>1, OneRowMoves
  <1> QED
    BY <1>2 DEF W!Unhold, W!Shift, Money, MoneyOf

LEMMA PaymentIsPayOut ==
  ASSUME Typed, NEW u \in Users, NEW v \in Users, u # v, NEW a \in Amounts, W!Cost(a) \in Nat,
         balance' = [balance EXCEPT ![v] = Moved(balance[v], a, 0),
                                    ![u] = Moved(balance[u], 0, -W!Cost(a))]
  PROVE  W!PayOut(u, v, a)
  <1>1. a \in Int /\ 0 \in Int /\ -W!Cost(a) \in Int
    BY EscrowAssumption
  <1>2. /\ balance'[v] = Moved(balance[v], a, 0)
        /\ balance'[u] = Moved(balance[u], 0, -W!Cost(a))
        /\ \A w \in Users \ {u, v} : balance'[w] = balance[w]
    BY DEF Typed, TypeOK
  <1>3. /\ MoneyOf(v)' = [available |-> MoneyOf(v).available + a, reserved |-> MoneyOf(v).reserved + 0]
        /\ MoneyOf(u)' = [available |-> MoneyOf(u).available + 0,
                          reserved  |-> MoneyOf(u).reserved + (-W!Cost(a))]
    BY <1>1, <1>2, MoneyMoves
  <1>4. \A w \in Users \ {u, v} : MoneyOf(w)' = MoneyOf(w)
    BY <1>2 DEF MoneyOf
  <1>5. Money' = [Money EXCEPT ![u] = MoneyOf(u)', ![v] = MoneyOf(v)']
    <2> HIDE DEF MoneyOf
    <2> QED
      BY <1>4 DEF Money
  <1>6. /\ W!Shift(v, a, 0) = MoneyOf(v)'
        /\ W!Shift(u, 0, -W!Cost(a)) = MoneyOf(u)'
    <2>1. MoneyOf(v).reserved + 0 = MoneyOf(v).reserved
          /\ MoneyOf(u).available + 0 = MoneyOf(u).available
      BY DEF Typed, TypeOK, BalanceRow, MoneyOf
    <2> QED
      BY <1>3, <2>1 DEF W!Shift, MoneyOf
  <1> QED
    BY <1>5, <1>6 DEF W!PayOut, Money, MoneyOf

LEMMA StepOfWallet == IInv /\ [Next]_vars => [W!Next]_Money
  <1> SUFFICES ASSUME IInv, [Next]_vars PROVE W!Next \/ Money' = Money
    OBVIOUS
  <1>1. Typed
    BY DEF IInv, Typed
  <1>2. CASE UNCHANGED balance
    BY <1>2 DEF Money, MoneyOf
  <1>3. ASSUME NEW r \in Requests, LockWrite(r)
        PROVE  W!Next
    <2>1. PICK e \in DOMAIN escrow : e = req[r].escrow
      BY <1>1, <1>3, NotIdle, RequestIsTyped DEF LockWrite, Typed
    <2>2. PICK u \in Users, a \in Amounts : u = escrow[e].client /\ a = escrow[e].amount
      BY <1>1, TotalIsNat DEF Typed, EscrowRow
    <2>3. W!Cost(a) = Total(e)
      BY <2>2 DEF W!Cost, Total
    <2>4. /\ Total(e) \in Nat /\ balance[u].available >= Total(e)
          /\ balance' = [balance EXCEPT ![u] = Moved(balance[u], -Total(e), Total(e))]
      BY <1>1, <1>3, <2>1, <2>2, LockWriteMoves DEF IInv
    <2>5. W!Hold(u, a)
      BY <1>1, <2>3, <2>4, LockIsHold
    <2> QED
      BY <2>5 DEF W!Next
  <1>4. ASSUME NEW e \in DOMAIN escrow, balance' = GivenBack(e) \/ balance' = PaidOut(e)
        PROVE  W!Next
    <2>1. PICK u \in Users, v \in Users, a \in Amounts :
            u = escrow[e].client /\ v = escrow[e].freelancer /\ a = escrow[e].amount
      BY <1>1, TotalIsNat DEF Typed, EscrowRow
    <2>2. u # v /\ Total(e) \in Nat /\ W!Cost(a) = Total(e)
      BY <1>1, <2>1, TotalIsNat DEF Typed, W!Cost, Total, IInv, TwoParties
    <2>3. \/ balance' = [balance EXCEPT ![u] = Moved(balance[u], Total(e), -Total(e))]
          \/ balance' = [balance EXCEPT ![v] = Moved(balance[v], a, 0),
                                        ![u] = Moved(balance[u], 0, -Total(e))]
      BY <1>4, <2>1 DEF GivenBack, PaidOut
    <2>4. W!Unhold(u, a) \/ W!PayOut(u, v, a)
      BY <1>1, <2>2, <2>3, RollbackIsUnhold, PaymentIsPayOut
    <2> QED
      BY <2>4 DEF W!Next
  <1>5. CASE Next
    <2>1. BalanceEffect
      BY <1>5, NextKeeps DEF Effects
    <2> QED
      BY <1>2, <1>3, <1>4, <2>1 DEF BalanceEffect
  <1>6. CASE UNCHANGED vars
    BY <1>2, <1>6 DEF vars, storeVars
  <1> QED
    BY <1>5, <1>6

(* Escrow implements Wallet: whatever requests, retries, crashes and lost  *)
(* answers do, the amounts in balances only ever move as a whole lock, a   *)
(* whole rollback or a whole payment with its fee, and a lock is only      *)
(* taken out of what is available at that moment.                          *)
THEOREM ImplementsWallet == Spec => WalletSpec
  <1>1. IInv /\ [Next]_vars =>
          [W!Next]_([u \in Users |-> [available |-> balance[u].available,
                                      reserved  |-> balance[u].reserved]])
    BY StepOfWallet DEF Money, MoneyOf
  <1> QED
    BY <1>1, WalletInit, InvariantHolds, PTL DEF Spec, WalletSpec, W!Spec

-----------------------------------------------------------------------------
(* A step of a worker, seen from outside: one of the three transactions    *)
(* that commit an escrow's fate, the end of the run that reports it, or a  *)
(* step that leaves the escrows alone, and the events too, except when the *)
(* worker dies after it has reported one.                                  *)
Catch == {"rollbackRead", "rollbackWrite", "markFailed"}

SideStep(j) ==
  /\ UNCHANGED escrow
  /\ UNCHANGED event \/ (At(j, "notify") /\ event' = EventSent(j))
  /\ UNCHANGED balance \/ (run[j].pc = "rollbackWrite" /\ balance' = GivenBack(j[2]))
  /\ \/ UNCHANGED txn
     \/ \E status \in {"COMPLETED", "FAILED"}, c \in Nat : txn' = LocksMarked(j[2], status, c)
  /\ \A i \in JobIds \ {j} : run'[i] = run[i] /\ job'[i] = job[i]
  /\ job[j].state \notin {"none", "completed"} /\ job'[j].state # "none"
  /\ run'[j].pc # "notify"
  /\ j[1] # "fund" /\ run'[j] # NoRun =>
       run'[j].contract = IF run[j] = NoRun THEN escrow[j[2]].contract ELSE run[j].contract
  /\ run[j].pc = "notify" => Faults \cap {"queueFails", "workerCrash"} # {}
  /\ run'[j].pc \in Catch => run[j].pc \in Catch \/ ~(Faults \subseteq {"apiCrash"})

WorkerForms(j) ==
  \/ j[1] = "fund" /\ FundCommit(j[2])
  \/ j[1] = "release" /\ ReleaseCommit(j[2])
  \/ j[1] = "refund" /\ RefundCommit(j[2])
  \/ Notify(j)
  \/ SideStep(j)

(* The runs and jobs in a side step that goes on with, or ends, a run.     *)
LEMMA SideGoesOn ==
  ASSUME Typed, NEW j \in JobIds, run[j] # NoRun,
         NEW new, run' = [run EXCEPT ![j] = new], UNCHANGED job,
         new.pc # "notify", new.contract = run[j].contract \/ j[1] = "fund",
         run[j].pc # "notify" \/ "queueFails" \in Faults,
         new.pc \in Catch => run[j].pc \in Catch \/ ~(Faults \subseteq {"apiCrash"}),
         UNCHANGED <<escrow, event, txn>>,
         UNCHANGED balance \/ (run[j].pc = "rollbackWrite" /\ balance' = GivenBack(j[2]))
  PROVE  SideStep(j)
  <1>1. job[j].state = "active"
    BY RunIsTyped
  <1>2. run'[j] = new /\ \A i \in JobIds \ {j} : run'[i] = run[i]
    BY DEF Typed, TypeOK
  <1> QED
    BY <1>1, <1>2 DEF SideStep

LEMMA SideEnds ==
  ASSUME Typed, NEW j \in JobIds, run[j] # NoRun,
         NEW outcome, outcome.state # "none", End(j, outcome),
         run[j].pc # "notify" \/ Faults \cap {"queueFails", "workerCrash"} # {},
         UNCHANGED <<escrow, balance>>,
         UNCHANGED event \/ (At(j, "notify") /\ event' = EventSent(j)),
         \/ UNCHANGED txn
         \/ \E status \in {"COMPLETED", "FAILED"}, c \in Nat : txn' = LocksMarked(j[2], status, c)
  PROVE  SideStep(j)
  <1>1. job[j].state = "active"
    BY RunIsTyped
  <1>2. run'[j] = NoRun /\ job'[j] = outcome
        /\ \A i \in JobIds \ {j} : run'[i] = run[i] /\ job'[i] = job[i]
    BY DEF Typed, TypeOK, End
  <1>3. NoRun.pc \notin Catch /\ NoRun.pc # "notify"
    BY DEF NoRun, Catch
  <1> QED
    BY <1>1, <1>2, <1>3 DEF SideStep

LEMMA OutcomeIsSome ==
  ASSUME Typed, NEW j \in JobIds, run[j] # NoRun
  PROVE  Failed(job[j]).state # "none" /\ Stalled(job[j]).state # "none"
  <1>1. job[j] \in JobRecord
    BY RunIsTyped
  <1> QED
    BY <1>1 DEF Failed, Stalled, JobRecord

LEMMA SideTakes ==
  ASSUME Typed, NEW j \in JobIds, NEW pc \in {"deploy", "call"}, Take(j, pc)
  PROVE  SideStep(j)
  <1> DEFINE new == [pc |-> pc, contract |-> escrow[j[2]].contract, seenC |-> 0, seenF |-> 0]
  <1>1. /\ job[j].state = "waiting"
        /\ job' = [job EXCEPT ![j] = Started(job[j])]
        /\ run' = [run EXCEPT ![j] = new]
        /\ UNCHANGED <<balance, txn, chain, escrow, event>>
    BY DEF Take
  <1>2. new.pc = pc /\ new.contract = escrow[j[2]].contract
    OBVIOUS
  <1> HIDE DEF new
  <1>3. run[j] = NoRun
    BY <1>1 DEF Typed, Running
  <1>4. job[j] \in JobRecord
    BY DEF Typed, TypeOK
  <1>5. Started(job[j]).state = "active"
    BY <1>4 DEF Started, JobRecord
  <1>6. run'[j] = new /\ job'[j] = Started(job[j])
        /\ \A i \in JobIds \ {j} : run'[i] = run[i] /\ job'[i] = job[i]
    BY <1>1 DEF Typed, TypeOK
  <1>7. run[j].pc # "notify" /\ pc \notin Catch /\ pc # "notify"
    BY <1>3 DEF NoRun, Catch
  <1>8. run'[j] # NoRun => run'[j].contract = escrow[j[2]].contract
    BY <1>2, <1>6
  <1>9. run'[j].pc = pc
    BY <1>2, <1>6
  <1> QED
    BY <1>1, <1>3, <1>5, <1>6, <1>7, <1>8, <1>9 DEF SideStep

LEMMA SideGoto ==
  ASSUME Typed, NEW j \in JobIds, run[j] # NoRun,
         NEW pc, Goto(j, pc), UNCHANGED job, pc # "notify",
         run[j].pc # "notify" \/ "queueFails" \in Faults,
         pc \in Catch => run[j].pc \in Catch \/ ~(Faults \subseteq {"apiCrash"}),
         UNCHANGED <<escrow, event, txn>>,
         UNCHANGED balance \/ (run[j].pc = "rollbackWrite" /\ balance' = GivenBack(j[2]))
  PROVE  SideStep(j)
  <1> DEFINE new == [run[j] EXCEPT !.pc = pc]
  <1>1. new.pc = pc /\ new.contract = run[j].contract
    BY RunIsTyped DEF ProcessorRun
  <1>2. run' = [run EXCEPT ![j] = new]
    BY DEF Goto
  <1> HIDE DEF new
  <1> QED
    BY <1>1, <1>2, SideGoesOn

LEMMA FundForms ==
  ASSUME Typed, NEW e \in Escrows, FundStep(e)
  PROVE  WorkerForms(<<"fund", e>>)
  <1> DEFINE j == <<"fund", e>>
  <1>0. j \in JobIds /\ j = <<"fund", e>> /\ j[1] = "fund" /\ j[2] = e
    BY DEF JobIds, JobKinds
  <1> HIDE DEF j
  <1>a. SUFFICES WorkerForms(j)
    BY <1>0
  <1>1. CASE FundStart(e)
    BY <1>0, <1>1, SideTakes DEF FundStart, WorkerForms
  <1>2. CASE FundDeploy(e)
    <2>1. run[j] # NoRun /\ run[j].pc = "deploy"
      BY <1>0, <1>2, NotNoRun DEF FundDeploy, At
    <2>2. UNCHANGED <<balance, txn, escrow, job, event>>
      BY <1>2 DEF FundDeploy
    <2>3. CASE /\ Goto(j, "rollbackRead")
               /\ Faults \cap {"callFails", "callLost"} # {}
      BY <1>0, <2>1, <2>2, <2>3, SideGoto DEF WorkerForms
    <2>4. CASE run' = [run EXCEPT ![j].pc = "fundCommit", ![j].contract = Len(chain) + 1]
      <3> DEFINE new == [run[j] EXCEPT !.pc = "fundCommit", !.contract = Len(chain) + 1]
      <3>1. new.pc = "fundCommit"
        BY <1>0, <2>1, RunIsTyped DEF ProcessorRun
      <3>2. run' = [run EXCEPT ![j] = new]
        BY <2>4
      <3> HIDE DEF new
      <3> QED
        BY <1>0, <2>1, <2>2, <3>1, <3>2, SideGoesOn DEF WorkerForms, Catch
    <2> QED
      BY <1>0, <1>2, <2>3, <2>4 DEF FundDeploy
  <1>3. CASE FundCommit(e)
    BY <1>0, <1>3 DEF WorkerForms
  <1>4. CASE FundThrows(e)
    <2>1. run[j] # NoRun /\ (run[j].pc # "notify" \/ "queueFails" \in Faults)
          /\ Faults \cap {"dbFails", "queueFails"} # {}
      BY <1>0, <1>4, NotNoRun DEF FundThrows, At
    <2> QED
      BY <1>0, <1>4, <2>1, SideGoto DEF FundThrows, WorkerForms
  <1>5. CASE RollbackRead(e)
    <2> DEFINE new == [run[j] EXCEPT !.pc = "rollbackWrite",
                                     !.seenC = balance[escrow[e].client].version]
    <2>1. run[j] # NoRun /\ run[j].pc = "rollbackRead"
      BY <1>0, <1>5, NotNoRun DEF RollbackRead, At
    <2>2. new.pc = "rollbackWrite"
      BY <1>0, <2>1, RunIsTyped DEF ProcessorRun
    <2>3. run' = [run EXCEPT ![j] = new] /\ UNCHANGED <<balance, txn, chain, escrow, job, event>>
      BY <1>0, <1>5 DEF RollbackRead
    <2> HIDE DEF new
    <2> QED
      BY <1>0, <2>1, <2>2, <2>3, SideGoesOn DEF WorkerForms, Catch
  <1>6. CASE RollbackWrite(e)
    <2>1. run[j] # NoRun /\ run[j].pc = "rollbackWrite"
      BY <1>0, <1>6, NotNoRun DEF RollbackWrite, At
    <2> QED
      BY <1>0, <1>6, <2>1, SideGoto DEF RollbackWrite, WorkerForms, Catch
  <1>7. CASE MarkFailed(e)
    <2>1. run[j] # NoRun /\ run[j].pc = "markFailed"
      BY <1>0, <1>7, NotNoRun DEF MarkFailed, At
    <2>2. \E status \in {"COMPLETED", "FAILED"}, c \in Nat : txn' = LocksMarked(j[2], status, c)
      BY <1>0, <1>7 DEF MarkFailed
    <2>3. UNCHANGED <<balance, chain, escrow, event>> /\ End(j, Failed(job[j]))
      BY <1>0, <1>7 DEF MarkFailed
    <2> QED
      BY <1>0, <2>1, <2>2, <2>3, OutcomeIsSome, SideEnds DEF WorkerForms
  <1>8. CASE CatchThrows(e)
    <2>1. run[j] # NoRun /\ run[j].pc # "notify"
      BY <1>0, <1>8 DEF CatchThrows, NoRun
    <2> QED
      BY <1>0, <1>8, <2>1, OutcomeIsSome, SideEnds DEF CatchThrows, WorkerForms
  <1> QED
    BY <1>1, <1>2, <1>3, <1>4, <1>5, <1>6, <1>7, <1>8 DEF FundStep

LEMMA SettleForms ==
  ASSUME Typed, NEW kind \in SettlementKinds, NEW e \in Escrows, SettleStep(kind, e)
  PROVE  WorkerForms(<<kind, e>>)
  <1> DEFINE j == <<kind, e>>
  <1>0. /\ j \in JobIds /\ j = <<kind, e>> /\ j[1] = kind /\ j[2] = e
        /\ kind \in {"release", "refund"}
    BY DEF JobIds, JobKinds, SettlementKinds
  <1> HIDE DEF j
  <1>a. SUFFICES WorkerForms(j)
    BY <1>0
  <1>1. CASE SettleStart(kind, e)
    BY <1>0, <1>1, SideTakes DEF SettleStart, WorkerForms
  <1>2. CASE SettleCall(kind, e)
    <2>1. run[j] # NoRun /\ run[j].pc = "call"
      BY <1>0, <1>2, NotNoRun DEF SettleCall, At
    <2>2. UNCHANGED <<balance, txn, escrow, event>>
      BY <1>2 DEF SettleCall
    <2>3. CASE Goto(j, "tx") /\ job' = job
      BY <1>0, <2>1, <2>2, <2>3, SideGoto DEF WorkerForms, Catch
    <2>4. CASE End(j, Failed(job[j]))
      BY <1>0, <2>1, <2>2, <2>4, OutcomeIsSome, SideEnds DEF WorkerForms
    <2> QED
      BY <1>0, <1>2, <2>3, <2>4 DEF SettleCall
  <1>3. CASE SettleRefused(kind, e)
    <2>1. run[j] # NoRun /\ run[j].pc = "call"
      BY <1>0, <1>3, NotNoRun DEF SettleRefused, At
    <2> QED
      BY <1>0, <1>3, <2>1, OutcomeIsSome, SideEnds DEF SettleRefused, WorkerForms
  <1>4. CASE SettleRead(kind, e)
    <2>1. run[j] # NoRun /\ run[j].pc = "tx"
      BY <1>0, <1>4, NotNoRun DEF SettleRead, At
    <2> DEFINE new == [run[j] EXCEPT !.pc = "txWrite",
                                     !.seenC = balance[escrow[e].client].version,
                                     !.seenF = balance[escrow[e].freelancer].version]
    <2>2. new.contract = run[j].contract /\ new.pc = "txWrite"
      BY <1>0, <2>1, RunIsTyped DEF ProcessorRun
    <2>3. run' = [run EXCEPT ![j] = new] /\ UNCHANGED <<balance, txn, chain, escrow, job, event>>
      BY <1>0, <1>4 DEF SettleRead
    <2> HIDE DEF new
    <2> QED
      BY <1>0, <2>1, <2>2, <2>3, SideGoesOn DEF WorkerForms, Catch
  <1>5. CASE SettleThrows(kind, e)
    <2>1. run[j] # NoRun /\ (run[j].pc # "notify" \/ "queueFails" \in Faults)
      BY <1>0, <1>5 DEF SettleThrows, At, NoRun
    <2> QED
      BY <1>0, <1>5, <2>1, OutcomeIsSome, SideEnds DEF SettleThrows, WorkerForms
  <1> QED
    BY <1>0, <1>1, <1>2, <1>3, <1>4, <1>5 DEF SettleStep, WorkerForms

LEMMA StepForms ==
  ASSUME Typed, NEW j \in JobIds, JobStep(j) \/ WorkerCrash(j)
  PROVE  WorkerForms(j)
  <1>0. j[2] \in Escrows /\ j = <<j[1], j[2]>>
    BY DEF JobIds
  <1>1. CASE j[1] = "fund" /\ FundStep(j[2])
    BY <1>0, <1>1, FundForms
  <1>2. CASE j[1] \in SettlementKinds /\ SettleStep(j[1], j[2])
    BY <1>0, <1>2, SettleForms
  <1>3. CASE Notify(j)
    BY <1>3 DEF WorkerForms
  <1>4. CASE WorkerCrash(j)
    BY <1>4, OutcomeIsSome, SideEnds DEF WorkerCrash, WorkerForms
  <1> QED
    BY <1>1, <1>2, <1>3, <1>4 DEF JobStep

-----------------------------------------------------------------------------
(* What an event tells is true when the run that will report it commits,   *)
(* and stays true.                                                         *)
Told(kind, e) ==
  IF kind = "fund"
    THEN e \in DOMAIN escrow /\ escrow[e].contract # 0
    ELSE \E row \in txn : /\ row.escrow = e
                          /\ row.type = IF kind = "release" THEN "ESCROW_RELEASE"
                                                            ELSE "ESCROW_REFUND"

Reported ==
  /\ \A j \in JobIds : run[j].pc = "notify" => Told(j[1], j[2])
  /\ \A j \in JobIds : <<EventName[j[1]], j[2]>> \in event => Told(j[1], j[2])

LEMMA ReportsAreTruthful == Reported => EventsTruthful
  <1> SUFFICES ASSUME Reported, NEW e \in Escrows
               PROVE  /\ <<"ESCROW_FUNDED", e>> \in event => escrow[e].contract # 0
                      /\ <<"ESCROW_RELEASED", e>> \in event =>
                           \E row \in txn : row.escrow = e /\ row.type = "ESCROW_RELEASE"
                      /\ <<"ESCROW_REFUNDED", e>> \in event =>
                           \E row \in txn : row.escrow = e /\ row.type = "ESCROW_REFUND"
    BY DEF EventsTruthful
  <1>1. \A kind \in JobKinds : <<EventName[kind], e>> \in event => Told(kind, e)
    <2> SUFFICES ASSUME NEW kind \in JobKinds, <<EventName[kind], e>> \in event
                 PROVE  Told(kind, e)
      OBVIOUS
    <2> DEFINE j == <<kind, e>>
    <2>1. j \in JobIds /\ j[1] = kind /\ j[2] = e
      BY DEF JobIds
    <2> HIDE DEF j
    <2> QED
      BY <2>1 DEF Reported
  <1>2. /\ {"fund", "release", "refund"} \subseteq JobKinds
        /\ EventName["fund"] = "ESCROW_FUNDED"
        /\ EventName["release"] = "ESCROW_RELEASED"
        /\ EventName["refund"] = "ESCROW_REFUNDED"
    BY DEF JobKinds, SettlementKinds, EventName
  <1>3. /\ Told("fund", e) => escrow[e].contract # 0
        /\ Told("release", e) => \E row \in txn : row.escrow = e /\ row.type = "ESCROW_RELEASE"
        /\ Told("refund", e) => \E row \in txn : row.escrow = e /\ row.type = "ESCROW_REFUND"
    BY DEF Told
  <1> QED
    BY <1>1, <1>2, <1>3

(* A settlement in the transactions table stays there.                     *)
LEMMA SettlementsStay ==
  ASSUME TxnEffect, NEW x \in txn, IsSettlement(x)
  PROVE  x \in txn'
  <1>1. ASSUME NEW e, NEW status, NEW c, txn' = LocksMarked(e, status, c)
        PROVE  x \in txn'
    BY <1>1 DEF LocksMarked, IsSettlement
  <1> QED
    BY <1>1 DEF TxnEffect, Booking

LEMMA ToldStays ==
  ASSUME EscrowKept, TxnEffect, NEW kind \in JobKinds, NEW e, Told(kind, e)
  PROVE  Told(kind, e)'
  <1>1. CASE kind = "fund"
    BY <1>1 DEF Told, EscrowKept
  <1>2. CASE kind # "fund"
    <2>1. PICK row \in txn : /\ row.escrow = e
                             /\ row.type = IF kind = "release" THEN "ESCROW_RELEASE"
                                                               ELSE "ESCROW_REFUND"
      BY <1>2 DEF Told
    <2>2. row \in txn'
      BY <2>1, SettlementsStay DEF IsSettlement
    <2> QED
      BY <1>2, <2>1, <2>2 DEF Told
  <1> QED
    BY <1>1, <1>2

(* A run that is about to report has just committed what it will tell.     *)
LEMMA CommitIsTold ==
  ASSUME Typed, ContractsOwned, NEW j \in JobIds,
         \/ j[1] = "fund" /\ FundCommit(j[2])
         \/ j[1] = "release" /\ ReleaseCommit(j[2])
         \/ j[1] = "refund" /\ RefundCommit(j[2])
  PROVE  /\ Told(j[1], j[2])'
         /\ UNCHANGED <<job, event>>
         /\ \A i \in JobIds \ {j} : run'[i] = run[i]
  <1>0. j = <<j[1], j[2]>> /\ j[2] \in Escrows
    BY DEF JobIds
  <1>1. CASE j[1] = "fund" /\ FundCommit(j[2])
    <2>1. run[j].pc = "fundCommit" /\ escrow' = Funded(j[2], run[j].contract)
      BY <1>0, <1>1 DEF FundCommit, At
    <2>2. j[2] \in DOMAIN escrow /\ escrow[j[2]] \in EscrowRow
      BY <1>0, <2>1, RunIsTyped, TotalIsNat DEF Typed, NoRun
    <2>3. run[j].contract # 0
      BY <1>0, <1>1, <2>1, DeployedIsNumbered
    <2>4. j[2] \in DOMAIN escrow' /\ escrow'[j[2]].contract = run[j].contract
      BY <2>1, <2>2 DEF Funded, EscrowRow
    <2>5. UNCHANGED <<job, event>> /\ \A i \in JobIds \ {j} : run'[i] = run[i]
      BY <1>0, <1>1 DEF FundCommit, Goto, Typed, TypeOK
    <2> QED
      BY <1>1, <2>3, <2>4, <2>5 DEF Told
  <1>2. ASSUME NEW kind \in SettlementKinds, j[1] = kind, txn' = Booking(kind, j[2])
        PROVE  Told(j[1], j[2])'
    <2> DEFINE row == SettlementRow(kind, j[2], run[<<kind, j[2]>>].contract)
    <2>1. row \in txn'
      BY <1>2 DEF Booking
    <2>2. /\ row.escrow = j[2]
          /\ row.type = IF kind = "release" THEN "ESCROW_RELEASE" ELSE "ESCROW_REFUND"
      BY DEF SettlementRow
    <2> HIDE DEF row
    <2> QED
      BY <1>2, <2>1, <2>2 DEF Told, SettlementKinds
  <1>3. CASE j[1] = "release" /\ ReleaseCommit(j[2])
    <2>1. UNCHANGED <<job, event>> /\ \A i \in JobIds \ {j} : run'[i] = run[i]
      BY <1>0, <1>3 DEF ReleaseCommit, Goto, Typed, TypeOK
    <2> QED
      BY <1>2, <1>3, <2>1 DEF ReleaseCommit, SettlementKinds
  <1>4. CASE j[1] = "refund" /\ RefundCommit(j[2])
    <2>1. UNCHANGED <<job, event>> /\ \A i \in JobIds \ {j} : run'[i] = run[i]
      BY <1>0, <1>4 DEF RefundCommit, Goto, Typed, TypeOK
    <2> QED
      BY <1>2, <1>4, <2>1 DEF RefundCommit, SettlementKinds
  <1> QED
    BY <1>1, <1>3, <1>4

LEMMA ReportsStay ==
  ASSUME IInv, Reported, Next
  PROVE  Reported'
  <1>0. Typed /\ Typed' /\ EscrowKept /\ TxnEffect /\ ContractsOwned
    BY NextKeeps DEF IInv, Typed, Effects
  <1>1. \A j \in JobIds : j[1] \in JobKinds /\ (Told(j[1], j[2]) => Told(j[1], j[2])')
    BY <1>0, ToldStays DEF JobIds
  <1>2. CASE ServiceNext /\ UNCHANGED run
    <2>1. UNCHANGED <<run, event>>
      BY <1>2 DEF ServiceNext, Create, Fund, Release, Refund, ServiceStep, LockRead, LockWrite,
                  LockConflict, Enqueue, RequestLost
    <2> QED
      BY <1>1, <2>1 DEF Reported
  <1>3. CASE ProcessorNext /\ UNCHANGED req
    <2>1. PICK j \in JobIds : WorkerForms(j)
      BY <1>0, <1>3, StepForms DEF ProcessorNext
    <2>2. CASE \/ j[1] = "fund" /\ FundCommit(j[2])
               \/ j[1] = "release" /\ ReleaseCommit(j[2])
               \/ j[1] = "refund" /\ RefundCommit(j[2])
      BY <1>0, <1>1, <2>2, CommitIsTold DEF Reported
    <2>3. CASE run'[j].pc # "notify" /\ At(j, "notify") /\ event' = EventSent(j)
               /\ \A i \in JobIds \ {j} : run'[i] = run[i]
      <3>1. Told(j[1], j[2])
        BY <2>3 DEF At, Reported
      <3>2. event' = event \cup {<<EventName[j[1]], j[2]>>}
        BY <2>3 DEF EventSent
      <3>4. \A i \in JobIds : EventName[i[1]] = EventName[j[1]] => i[1] = j[1]
        BY DEF EventName, JobIds, JobKinds, SettlementKinds
      <3>5. ASSUME NEW i \in JobIds, run'[i].pc = "notify"
            PROVE  Told(i[1], i[2])'
        BY <1>1, <2>3, <3>5 DEF Reported
      <3>6. ASSUME NEW i \in JobIds, <<EventName[i[1]], i[2]>> \in event'
            PROVE  Told(i[1], i[2])'
        <4>1. CASE <<EventName[i[1]], i[2]>> \in event
          BY <1>1, <4>1 DEF Reported
        <4>2. CASE <<EventName[i[1]], i[2]>> = <<EventName[j[1]], j[2]>>
          BY <1>1, <3>1, <3>4, <4>2
        <4> QED
          BY <3>2, <3>6, <4>1, <4>2
      <3> QED
        BY <3>5, <3>6 DEF Reported
    <2>4. CASE Notify(j)
      <3>1. run'[j] = NoRun /\ \A i \in JobIds \ {j} : run'[i] = run[i]
        BY <1>0, <2>4 DEF Notify, End, Typed, TypeOK
      <3> QED
        BY <2>3, <2>4, <3>1 DEF Notify, NoRun
    <2>5. CASE SideStep(j)
      <3>1. CASE UNCHANGED event
        BY <1>1, <2>5, <3>1 DEF SideStep, Reported
      <3> QED
        BY <2>3, <2>5, <3>1 DEF SideStep
    <2> QED
      BY <2>1, <2>2, <2>4, <2>5 DEF WorkerForms
  <1> QED
    BY <1>2, <1>3 DEF Next

(* What the marketplace is told happened: an event ESCROW_FUNDED has a     *)
(* contract behind it, an event ESCROW_RELEASED or ESCROW_REFUNDED a       *)
(* settlement in the transactions table, whatever crashed in between.      *)
THEOREM EventsAreTruthful == Spec => []EventsTruthful
  <1>1. Init => Reported
    BY DEF Init, InitEscrowStore, InitProcessor, NoRun, Reported
  <1>2. IInv /\ Reported /\ [Next]_vars => Reported'
    <2>1. UNCHANGED vars /\ Reported => Reported'
      BY DEF vars, storeVars, Reported, Told
    <2> QED
      BY <2>1, ReportsStay
  <1> QED
    BY <1>1, <1>2, ReportsAreTruthful, InvariantHolds, PTL DEF Spec

-----------------------------------------------------------------------------
(* The releases in the books, each with a fee.                             *)
LEMMA FeesAreInts ==
  ASSUME TypeOK, IsFiniteSet(txn)
  PROVE  /\ IsFiniteSet(Rows("ESCROW_RELEASE"))
         /\ \A row \in Rows("ESCROW_RELEASE") : row.amount \in Nat /\ Fee(row.amount) \in Int
         /\ FeesEarned \in Int
  <1>1. \A row \in Rows("ESCROW_RELEASE") : row.amount \in Nat /\ Fee(row.amount) \in Int
    <2> SUFFICES ASSUME NEW row \in Rows("ESCROW_RELEASE")
                 PROVE  row.amount \in Nat /\ Fee(row.amount) \in Int
      OBVIOUS
    <2>1. row.amount \in Nat
      BY EscrowAssumption DEF Rows, TypeOK, IsEscrowRow, IsSettlement, TxnRow
    <2> QED
      BY <2>1, FeeIsNat
  <1>2. IsFiniteSet(Rows("ESCROW_RELEASE"))
    BY FS_Subset DEF Rows
  <1> DEFINE f == [row \in Rows("ESCROW_RELEASE") |-> Fee(row.amount)]
  <1>3. IsFiniteSet(DOMAIN f) /\ \A row \in DOMAIN f : f[row] \in Int
    BY <1>1, <1>2
  <1> HIDE DEF f
  <1>4. SumFunction(f) \in Int
    BY <1>3, SumOfInts
  <1> QED
    BY <1>1, <1>2, <1>4 DEF FeesEarned, f

LEMMA FeesGrow ==
  ASSUME TypeOK, IsFiniteSet(txn), NEW row, row.type = "ESCROW_RELEASE", row.amount \in Nat,
         row \notin txn, txn' = txn \cup {row}
  PROVE  FeesEarned' = FeesEarned + Fee(row.amount)
  <1> DEFINE f == [x \in Rows("ESCROW_RELEASE") |-> Fee(x.amount)]
             g == [x \in Rows("ESCROW_RELEASE") \cup {row} |-> Fee(x.amount)]
  <1>1. Rows("ESCROW_RELEASE")' = Rows("ESCROW_RELEASE") \cup {row}
    BY DEF Rows
  <1>2. /\ IsFiniteSet(DOMAIN f) /\ row \notin DOMAIN f
        /\ DOMAIN g = DOMAIN f \cup {row} /\ g[row] \in Int /\ g[row] = Fee(row.amount)
        /\ \A y \in DOMAIN f : f[y] \in Int /\ g[y] = f[y]
    BY FeesAreInts, FeeIsNat DEF Rows
  <1> HIDE DEF f, g
  <1>3. SumFunction(g) = SumFunction(f) + Fee(row.amount)
    BY <1>2, SumGrows
  <1>4. FeesEarned = SumFunction(f)
    BY DEF FeesEarned, f
  <1>5. FeesEarned' = SumFunction(g)
    BY <1>1 DEF FeesEarned, g
  <1> QED
    BY <1>3, <1>4, <1>5

(* The transactions table stays finite, and only a release adds to what    *)
(* the platform has earned.                                                *)
LEMMA RowsStayFinite ==
  ASSUME IsFiniteSet(txn), TxnEffect
  PROVE  IsFiniteSet(txn')
  <1>1. ASSUME NEW row, txn' = txn \cup {row} PROVE IsFiniteSet(txn')
    BY <1>1, FS_AddElement
  <1>2. ASSUME NEW e, NEW status, NEW c, txn' = LocksMarked(e, status, c)
        PROVE  IsFiniteSet(txn')
    <2> DEFINE f == [row \in txn |-> AfterMarking(row, e, status, c)]
    <2>1. DOMAIN f = txn /\ txn' = {f[row] : row \in txn}
      BY <1>2 DEF LocksMarked, AfterMarking
    <2> HIDE DEF f
    <2> QED
      BY <2>1, ImageIsFinite
  <1> QED
    BY <1>1, <1>2 DEF TxnEffect, Booking

SameReleases == Rows("ESCROW_RELEASE")' = Rows("ESCROW_RELEASE")

LEMMA MarkingEarnsNothing ==
  ASSUME Typed, NEW e, NEW status, NEW c, txn' = LocksMarked(e, status, c)
  PROVE  SameReleases
  <1>1. \A x \in txn' : x.type = "ESCROW_RELEASE" => x \in txn
    BY MarkedRows DEF IsSettlement
  <1>2. \A x \in txn : x.type = "ESCROW_RELEASE" => x \in txn'
    BY DEF LocksMarked
  <1> QED
    BY <1>1, <1>2 DEF SameReleases, Rows

(* A step that is not a release leaves the total of each user's columns.   *)
BooksEffect ==
  \/ SameReleases /\ UNCHANGED balance
  \/ /\ SameReleases
     /\ \E u \in Users, x \in Int : balance' = [balance EXCEPT ![u] = Moved(balance[u], x, -x)]
  \/ \E e \in Escrows : ReleaseCommit(e)

LEMMA NextBooks ==
  ASSUME IInv, Next
  PROVE  BooksEffect
  <1>0. Typed
    BY DEF IInv, Typed
  <1>1. ASSUME NEW row, row.type # "ESCROW_RELEASE", txn' = txn \cup {row}
        PROVE  SameReleases
    BY <1>1 DEF SameReleases, Rows
  <1>2. UNCHANGED txn => SameReleases
    BY DEF SameReleases, Rows
  <1>3. ASSUME NEW e \in DOMAIN escrow, balance' = GivenBack(e)
        PROVE  \E u \in Users, x \in Int : balance' = [balance EXCEPT ![u] = Moved(balance[u], x, -x)]
    <2>1. escrow[e].client \in Users /\ Total(e) \in Int
      BY <1>0, TotalIsNat DEF Typed
    <2> QED
      BY <1>3, <2>1 DEF GivenBack
  <1>4. CASE ServiceNext
    <2>1. ASSUME NEW r \in Requests, LockWrite(r)
          PROVE  BooksEffect
      <3> DEFINE u == escrow[req[r].escrow].client
                 total == Total(req[r].escrow)
                 row == LockRow(req[r].key, req[r].escrow, u, escrow[req[r].escrow].amount)
      <3>1. /\ u \in Users /\ total \in Nat
            /\ balance' = [balance EXCEPT ![u] = Moved(balance[u], -total, total)]
        BY <1>0, <2>1, LockWriteMoves DEF IInv
      <3>2. row.type # "ESCROW_RELEASE" /\ txn' = txn \cup {row}
        BY <2>1 DEF LockWrite, LockRow
      <3> HIDE DEF u, total, row
      <3>3. PICK x \in Int : x = -total /\ -x = total
        BY <3>1
      <3>4. balance' = [balance EXCEPT ![u] = Moved(balance[u], x, -x)]
        BY <3>1, <3>3
      <3> QED
        BY <1>1, <3>1, <3>2, <3>4 DEF BooksEffect
    <2>2. ASSUME NEW e, NEW k, NEW c, NEW f, NEW a, Create(e, k, c, f, a)
          PROVE  BooksEffect
      BY <1>1, <2>2 DEF Create, LockRow, BooksEffect
    <2> QED
      BY <1>2, <1>4, <2>1, <2>2
      DEF ServiceNext, ServiceStep, Fund, Release, Refund, LockRead, LockConflict, Enqueue,
          RequestLost, BooksEffect
  <1>5. CASE ProcessorNext
    <2>1. PICK j \in JobIds : WorkerForms(j)
      BY <1>0, <1>5, StepForms DEF ProcessorNext
    <2>2. j[2] \in Escrows /\ j = <<j[1], j[2]>>
      BY DEF JobIds
    <2>3. CASE j[1] = "fund" /\ FundCommit(j[2])
      BY <1>0, <2>3, MarkingEarnsNothing DEF FundCommit, BooksEffect
    <2>4. CASE j[1] = "release" /\ ReleaseCommit(j[2])
      BY <2>2, <2>4 DEF BooksEffect
    <2>5. CASE j[1] = "refund" /\ RefundCommit(j[2])
      <3>1. j[2] \in DOMAIN escrow
        <4>1. run[j] # NoRun
          BY <2>2, <2>5, NotNoRun DEF RefundCommit
        <4> QED
          BY <1>0, <4>1, RunIsTyped
      <3>2. SettlementRow("refund", j[2], run[<<"refund", j[2]>>].contract).type # "ESCROW_RELEASE"
        BY DEF SettlementRow
      <3>3. SameReleases
        BY <1>1, <2>5, <3>2 DEF RefundCommit, Booking
      <3> QED
        BY <1>3, <2>5, <3>1, <3>3 DEF RefundCommit, BooksEffect
    <2>6. CASE Notify(j)
      BY <1>2, <2>6 DEF Notify, BooksEffect
    <2>7. CASE SideStep(j)
      <3>1. SameReleases
        BY <1>0, <1>2, <2>7, MarkingEarnsNothing DEF SideStep
      <3>2. CASE UNCHANGED balance
        BY <3>1, <3>2 DEF BooksEffect
      <3>3. CASE run[j].pc = "rollbackWrite" /\ balance' = GivenBack(j[2])
        <4>1. j[2] \in DOMAIN escrow
          BY <1>0, <3>3, RunIsTyped DEF NoRun
        <4> QED
          BY <1>3, <3>1, <3>3, <4>1 DEF BooksEffect
      <3> QED
        BY <2>7, <3>2, <3>3 DEF SideStep
    <2> QED
      BY <2>1, <2>3, <2>4, <2>5, <2>6, <2>7 DEF WorkerForms
  <1> QED
    BY <1>4, <1>5 DEF Next

(* A release moves the fee from what the client has to the platform.       *)
LEMMA ReleaseMoves ==
  ASSUME IInv, IsFiniteSet(txn), NEW e \in Escrows, ReleaseCommit(e)
  PROVE  Held(balance') + FeesEarned' = Held(balance) + FeesEarned
  <1> DEFINE j == <<"release", e>>
             c == escrow[e].client
             f == escrow[e].freelancer
             a == escrow[e].amount
             row == SettlementRow("release", e, run[j].contract)
             paid == [balance EXCEPT ![f] = Moved(balance[f], a, 0)]
  <1>0. Typed /\ TypeOK /\ balance \in [Users -> BalanceRow]
    BY DEF IInv, Typed, TypeOK
  <1>1. e \in DOMAIN escrow
    <2>1. j \in JobIds /\ run[j] # NoRun /\ j[2] = e
      BY NotNoRun DEF ReleaseCommit, JobIds, JobKinds, SettlementKinds
    <2> QED
      BY <1>0, <2>1, RunIsTyped
  <1>2. /\ c \in Users /\ f \in Users /\ c # f /\ a \in Nat /\ Fee(a) \in Nat
        /\ Total(e) = a + Fee(a)
    BY <1>0, <1>1, TotalIsNat, FeeIsNat DEF IInv, TwoParties, Total
  <1>3. row.type = "ESCROW_RELEASE" /\ row.amount = a
        /\ row.key = SettlementKey("release", e, run[j].contract)
    BY DEF SettlementRow
  <1>4. row \notin txn /\ txn' = txn \cup {row}
    <2>1. ~Used(SettlementKey("release", e, run[j].contract))
      BY DEF ReleaseCommit, Conflict
    <2>2. txn' = txn \cup {row}
      BY DEF ReleaseCommit, Booking
    <2> HIDE DEF row
    <2> QED
      BY <1>3, <2>1, <2>2 DEF Used
  <1>5. FeesEarned' = FeesEarned + Fee(a)
    <2> HIDE DEF row, a
    <2> QED
      BY <1>0, <1>2, <1>3, <1>4, FeesGrow
  <1>6. balance' = [paid EXCEPT ![c] = Moved(paid[c], 0, -Total(e))]
    <2>1. paid[c] = balance[c]
      BY <1>0, <1>2
    <2>2. balance' = [balance EXCEPT ![f] = Moved(balance[f], a, 0),
                                     ![c] = Moved(balance[c], 0, -Total(e))]
      BY DEF ReleaseCommit, PaidOut
    <2> QED
      BY <2>1, <2>2
  <1>7. paid \in [Users -> BalanceRow]
    BY <1>0, <1>2, RowIsMoved
  <1>8. Held(paid) = Held(balance) + (a + 0)
    <2>1. a \in Int /\ 0 \in Int
      BY <1>2
    <2>2. paid = [balance EXCEPT ![f] = Moved(balance[f], a, 0)]
      OBVIOUS
    <2> HIDE DEF a, f, c, paid
    <2> QED
      BY <1>0, <1>2, <2>1, <2>2, HeldMoves
  <1>9. Held(balance') = Held(paid) + (0 + (-Total(e)))
    <2>1. 0 \in Int /\ -Total(e) \in Int
      BY <1>2
    <2> HIDE DEF a, f, c, paid
    <2> QED
      BY <1>2, <1>6, <1>7, <2>1, HeldMoves
  <1>10. Held(balance) \in Int /\ FeesEarned \in Int
    BY <1>0, HeldIsInt, FeesAreInts
  <1> HIDE DEF a, f, c, paid
  <1> QED
    BY <1>2, <1>5, <1>8, <1>9, <1>10

LEMMA BooksKept ==
  ASSUME IInv, IsFiniteSet(txn), Next
  PROVE  /\ IsFiniteSet(txn')
         /\ (Holdings + FeesEarned)' = Holdings + FeesEarned
  <1>1. IsFiniteSet(txn')
    BY NextKeeps, RowsStayFinite DEF Effects
  <1>2. Holdings = Held(balance) /\ Holdings' = Held(balance')
    BY DEF Holdings, Held
  <1>3. SameReleases => FeesEarned' = FeesEarned
    BY DEF SameReleases, FeesEarned
  <1>4. ASSUME NEW u \in Users, NEW x \in Int,
               balance' = [balance EXCEPT ![u] = Moved(balance[u], x, -x)]
        PROVE  Held(balance') = Held(balance)
    <2>1. -x \in Int /\ x + (-x) = 0
      OBVIOUS
    <2>2. balance \in [Users -> BalanceRow]
      BY DEF IInv, TypeOK
    <2>3. Held(balance') = Held(balance) + (x + (-x)) /\ Held(balance) \in Int
      BY <1>4, <2>1, <2>2, HeldMoves, HeldIsInt
    <2> QED
      BY <2>1, <2>3
  <1>5. Held(balance') + FeesEarned' = Held(balance) + FeesEarned
    BY <1>3, <1>4, NextBooks, ReleaseMoves DEF BooksEffect
  <1> QED
    BY <1>1, <1>2, <1>5

LEMMA BooksOpen == Init => IsFiniteSet(txn) /\ BooksBalance
  <1> SUFFICES ASSUME Init PROVE IsFiniteSet(txn) /\ BooksBalance
    OBVIOUS
  <1>1. txn = {} /\ \A u \in Users : balance[u].available = Funds[u] /\ balance[u].reserved = 0
    BY DEF Init, InitEscrowStore, InitStore
  <1>2. FeesEarned = 0
    <2> DEFINE f == [row \in Rows("ESCROW_RELEASE") |-> Fee(row.amount)]
    <2>1. DOMAIN f = {}
      BY <1>1 DEF Rows
    <2> HIDE DEF f
    <2>2. SumFunction(f) = 0
      BY <2>1, FS_EmptySet, SumEquation DEF SumFunction
    <2> QED
      BY <2>2 DEF FeesEarned, f
  <1>3. Holdings = SumFunction(Funds) /\ SumFunction(Funds) \in Int
    <2> DEFINE f == [u \in Users |-> balance[u].available + balance[u].reserved]
    <2>1. /\ DOMAIN Funds = Users /\ DOMAIN f = Users /\ IsFiniteSet(Users)
          /\ \A u \in Users : f[u] = Funds[u] /\ Funds[u] \in Int
      BY <1>1, StoreAssumption
    <2> HIDE DEF f
    <2>2. SumFunction(f) = SumFunction(Funds)
      BY <2>1, SumsOfEqual
    <2>3. SumFunction(Funds) \in Int
      BY <2>1, SumOfInts
    <2> QED
      BY <2>2, <2>3 DEF Holdings, f
  <1>4. IsFiniteSet(txn)
    BY <1>1, FS_EmptySet
  <1> QED
    BY <1>2, <1>3, <1>4 DEF BooksBalance

(* Every unit that was topped up is somewhere in the books: with a user,   *)
(* available or reserved, or in the fee of a release that is booked.       *)
THEOREM BooksAlwaysBalance == Spec => []BooksBalance
  <1>1. IInv /\ IsFiniteSet(txn) /\ BooksBalance /\ [Next]_vars =>
          (IsFiniteSet(txn) /\ BooksBalance)'
    <2>1. UNCHANGED vars /\ IsFiniteSet(txn) /\ BooksBalance => (IsFiniteSet(txn) /\ BooksBalance)'
      BY DEF vars, storeVars, BooksBalance, Holdings, FeesEarned, Rows
    <2> QED
      BY <2>1, BooksKept DEF BooksBalance
  <1> QED
    BY <1>1, BooksOpen, InvariantHolds, PTL DEF Spec

-----------------------------------------------------------------------------
(* The runs of a fund job that failed or stalled are counted, once each.   *)
Counted(entry, this) ==
  entry.attempts + entry.stalled + (IF this.pc = "markFailed" THEN 1 ELSE 0)

LEMMA EndsAreCounted ==
  ASSUME NEW entry \in JobRecord, NEW this
  PROVE  /\ Counted(entry, this) \in Nat
         /\ Counted(Added(entry), this) = Counted(entry, this)
         /\ Counted(Failed(entry), NoRun) >= Counted(entry, this)
         /\ Counted(Stalled(entry), NoRun) >= Counted(entry, this)
         /\ this.pc # "markFailed" => /\ Counted(Completed(entry), NoRun) = Counted(entry, this)
                                      /\ Counted(Started(entry), this) = Counted(entry, this)
  <1>1. NoRun.pc # "markFailed"
    BY DEF NoRun
  <1> QED
    BY <1>1, EndIsCounted DEF Counted

LEMMA RunsAreCounted ==
  ASSUME IInv, Next, NEW e \in DOMAIN escrow
  PROVE  /\ FailedRuns(e) \in Nat /\ FailedRuns(e)' \in Nat
         /\ FailedRuns(e)' >= FailedRuns(e)
         /\ RollbackWrite(e) => FailedRuns(e)' >= FailedRuns(e) + 1
  <1> DEFINE f == <<"fund", e>>
  <1>0. /\ Typed /\ Typed' /\ f \in JobIds
        /\ job[f] \in JobRecord /\ job'[f] \in JobRecord
        /\ run \in [JobIds -> {NoRun} \cup ProcessorRun]
        /\ job \in [JobIds -> JobRecord]
    BY NextKeeps DEF IInv, Typed, TypeOK, JobIds, JobKinds
  <1>1. /\ FailedRuns(e) = Counted(job[f], run[f])
        /\ FailedRuns(e)' = Counted(job'[f], run'[f])
    BY DEF FailedRuns, Counted, At
  <1>2. Counted(job[f], run[f]) \in Nat /\ Counted(job'[f], run'[f]) \in Nat
    BY <1>0, EndsAreCounted
  <1>3. UNCHANGED <<job, run>> => Counted(job'[f], run'[f]) = Counted(job[f], run[f])
    OBVIOUS
  <1>4. ASSUME NEW j \in JobIds, NEW new, run' = [run EXCEPT ![j] = new], UNCHANGED job,
               run[j].pc # "markFailed"
        PROVE  Counted(job'[f], run'[f]) >= Counted(job[f], run[f])
    <2>1. run'[f] = IF j = f THEN new ELSE run[f]
      BY <1>0, <1>4
    <2>2. job[f].attempts \in Nat /\ job[f].stalled \in Nat
      BY <1>0, QueueAssumption DEF JobRecord
    <2> QED
      BY <1>4, <2>1, <2>2 DEF Counted
  <1>5. ASSUME NEW j \in JobIds,
               \/ End(j, Failed(job[j]))
               \/ End(j, Stalled(job[j]))
               \/ End(j, Completed(job[j])) /\ At(j, "notify")
        PROVE  Counted(job'[f], run'[f]) >= Counted(job[f], run[f])
    <2>1. CASE j # f
      <3>1. job'[f] = job[f] /\ run'[f] = run[f]
        BY <1>0, <1>5, <2>1 DEF End
      <3> QED
        BY <1>2, <3>1
    <2>2. CASE j = f
      <3>1. run'[f] = NoRun
        BY <1>0, <1>5, <2>2 DEF End
      <3>2. \/ job'[f] = Failed(job[f])
            \/ job'[f] = Stalled(job[f])
            \/ job'[f] = Completed(job[f]) /\ run[f].pc = "notify"
        BY <1>0, <1>5, <2>2 DEF End, At
      <3>3. Counted(Completed(job[f]), NoRun) = Counted(job[f], run[f]) =>
              Counted(Completed(job[f]), NoRun) >= Counted(job[f], run[f])
        BY <1>2
      <3> QED
        BY <1>0, <3>1, <3>2, <3>3, EndsAreCounted
    <2> QED
      BY <2>1, <2>2
  <1>6. ASSUME NEW j \in JobIds, NEW pc, pc # "markFailed", Take(j, pc)
        PROVE  Counted(job'[f], run'[f]) >= Counted(job[f], run[f])
    <2>1. CASE j # f
      <3>1. job'[f] = job[f] /\ run'[f] = run[f]
        BY <1>0, <1>6, <2>1 DEF Take
      <3> QED
        BY <1>2, <3>1
    <2>2. CASE j = f
      <3>1. run[f] = NoRun
        BY <1>0, <1>6, <2>2 DEF Typed, Running, Take
      <3>2. job'[f] = Started(job[f]) /\ run'[f].pc # "markFailed"
        BY <1>0, <1>6, <2>2 DEF Take
      <3>3. Counted(Started(job[f]), run'[f]) = Counted(Started(job[f]), NoRun)
        BY <3>2 DEF Counted, NoRun
      <3> QED
        BY <1>0, <1>2, <3>1, <3>2, <3>3, EndsAreCounted DEF NoRun
    <2> QED
      BY <2>1, <2>2
  <1>7. RollbackWrite(e) => Counted(job'[f], run'[f]) >= Counted(job[f], run[f]) + 1
    <2> SUFFICES ASSUME RollbackWrite(e) PROVE Counted(job'[f], run'[f]) = Counted(job[f], run[f]) + 1
      BY <1>2
    <2>1. run[f].pc = "rollbackWrite" /\ UNCHANGED job /\ run[f] \in ProcessorRun
      BY <1>0, RunIsTyped DEF RollbackWrite, At, NoRun
    <2>2. run' = [run EXCEPT ![f].pc = "markFailed"]
      BY DEF RollbackWrite, Goto
    <2>3. run'[f].pc = "markFailed"
      BY <1>0, <2>1, <2>2 DEF ProcessorRun
    <2>4. job[f].attempts \in Nat /\ job[f].stalled \in Nat
      BY <1>0, QueueAssumption DEF JobRecord
    <2> QED
      BY <2>1, <2>3, <2>4 DEF Counted
  <1> HIDE DEF f
  <1>a. SUFFICES Counted(job'[f], run'[f]) >= Counted(job[f], run[f])
    BY <1>1, <1>2, <1>7
  <1>8. CASE ServiceNext /\ UNCHANGED run
    <2>1. CASE UNCHANGED job
      BY <1>2, <1>3, <1>8, <2>1
    <2>2. ASSUME NEW r \in Requests, Enqueue(r)
          PROVE  Counted(job'[f], run'[f]) = Counted(job[f], run[f])
      <3> DEFINE j == <<req[r].kind, req[r].escrow>>
      <3>1. job' = [job EXCEPT ![j] = Added(job[j])]
        BY <2>2 DEF Enqueue
      <3>2. job'[f] = job[f] \/ job'[f] = Added(job[f])
        BY <1>0, <3>1
      <3> QED
        BY <1>0, <1>8, <3>2, EndsAreCounted
    <2>3. UNCHANGED job \/ \E r \in Requests : Enqueue(r)
      BY <1>8 DEF ServiceNext, ServiceStep, Create, Fund, Release, Refund, LockRead, LockWrite,
                  LockConflict, RequestLost
    <2> QED
      BY <1>2, <2>1, <2>2, <2>3
  <1>9. CASE ProcessorNext
    <2>0. PICK j \in JobIds : JobStep(j) \/ WorkerCrash(j)
      BY <1>9 DEF ProcessorNext
    <2>1. j = <<j[1], j[2]>>
      BY DEF JobIds
    <2>2. CASE j[1] = "fund" /\ FundStep(j[2])
      <3>1. CASE FundStart(j[2])
        BY <1>6, <2>1, <2>2, <3>1 DEF FundStart
      <3>2. CASE FundDeploy(j[2]) \/ FundCommit(j[2]) \/ FundThrows(j[2])
                 \/ RollbackRead(j[2]) \/ RollbackWrite(j[2])
        <4>1. run[j].pc # "markFailed" /\ UNCHANGED job
          BY <2>1, <2>2, <3>2
          DEF FundDeploy, FundCommit, FundThrows, RollbackRead, RollbackWrite, At
        <4>2. \E new : run' = [run EXCEPT ![j] = new]
          BY <2>1, <2>2, <3>2
          DEF FundDeploy, FundCommit, FundThrows, RollbackRead, RollbackWrite, Goto
        <4> QED
          BY <1>4, <4>1, <4>2
      <3>3. CASE MarkFailed(j[2]) \/ CatchThrows(j[2])
        BY <1>5, <2>1, <2>2, <3>3 DEF MarkFailed, CatchThrows
      <3> QED
        BY <2>2, <3>1, <3>2, <3>3 DEF FundStep
    <2>3. CASE j[1] \in SettlementKinds /\ SettleStep(j[1], j[2])
      <3>1. CASE SettleStart(j[1], j[2])
        BY <1>6, <2>1, <3>1 DEF SettleStart
      <3>2. CASE SettleRead(j[1], j[2]) \/ (j[1] = "release" /\ ReleaseCommit(j[2]))
                 \/ (j[1] = "refund" /\ RefundCommit(j[2]))
        <4>1. run[j].pc # "markFailed" /\ UNCHANGED job
          BY <2>1, <3>2 DEF SettleRead, ReleaseCommit, RefundCommit, At
        <4>2. \E new : run' = [run EXCEPT ![j] = new]
          <5>1. CASE SettleRead(j[1], j[2])
            BY <2>1, <5>1 DEF SettleRead, Goto
          <5>2. CASE j[1] = "release" /\ ReleaseCommit(j[2])
            BY <2>1, <5>2 DEF ReleaseCommit, Goto
          <5>3. CASE j[1] = "refund" /\ RefundCommit(j[2])
            BY <2>1, <5>3 DEF RefundCommit, Goto
          <5> QED
            BY <3>2, <5>1, <5>2, <5>3
        <4> QED
          BY <1>4, <4>1, <4>2
      <3>3. CASE SettleCall(j[1], j[2])
        <4>1. At(j, "call") /\ (End(j, Failed(job[j])) \/ (Goto(j, "tx") /\ UNCHANGED job))
          BY <2>1, <3>3 DEF SettleCall
        <4>2. CASE End(j, Failed(job[j]))
          BY <1>5, <4>2
        <4>3. CASE Goto(j, "tx") /\ UNCHANGED job
          <5>1. (\E new : run' = [run EXCEPT ![j] = new]) /\ run[j].pc # "markFailed"
            BY <4>1, <4>3 DEF Goto, At
          <5> QED
            BY <1>4, <4>3, <5>1
        <4> QED
          BY <4>1, <4>2, <4>3
      <3>4. CASE SettleRefused(j[1], j[2]) \/ SettleThrows(j[1], j[2])
        BY <1>5, <2>1, <3>4 DEF SettleRefused, SettleThrows
      <3> QED
        BY <2>3, <3>1, <3>2, <3>3, <3>4 DEF SettleStep
    <2>4. CASE Notify(j) \/ WorkerCrash(j)
      BY <1>5, <2>4 DEF Notify, WorkerCrash
    <2> QED
      BY <2>0, <2>2, <2>3, <2>4 DEF JobStep
  <1> QED
    BY <1>8, <1>9 DEF Next

(* What rows of the books add up to, with their fees.                      *)
Amounted(row) == row.amount + Fee(row.amount)

LEMMA RowsAddUp ==
  ASSUME NEW S, IsFiniteSet(S), \A row \in S : row.amount \in Nat
  PROVE  /\ RowsSum(S) \in Int
         /\ \A row \in S : Amounted(row) \in Nat
  <1> DEFINE f == [row \in S |-> row.amount + Fee(row.amount)]
  <1>1. \A row \in S : Amounted(row) \in Nat
    BY FeeIsNat DEF Amounted
  <1>2. DOMAIN f = S /\ \A row \in S : f[row] = Amounted(row)
    BY DEF Amounted
  <1>3. RowsSum(S) = SumFunction(f)
    BY DEF RowsSum
  <1> HIDE DEF f
  <1>4. SumFunction(f) \in Int
    BY <1>1, <1>2, SumOfInts
  <1> QED
    BY <1>1, <1>3, <1>4

LEMMA RowsSumGrows ==
  ASSUME NEW S, IsFiniteSet(S), NEW row, row \notin S,
         \A x \in S \cup {row} : x.amount \in Nat
  PROVE  RowsSum(S \cup {row}) = RowsSum(S) + Amounted(row)
  <1> DEFINE T == S \cup {row}
             f == [x \in S |-> x.amount + Fee(x.amount)]
             g == [x \in T |-> x.amount + Fee(x.amount)]
  <1>1. /\ DOMAIN f = S /\ DOMAIN g = DOMAIN f \cup {row}
        /\ \A x \in S : f[x] = Amounted(x)
        /\ \A x \in S \cup {row} : g[x] = Amounted(x)
    BY DEF Amounted
  <1>2. RowsSum(S) = SumFunction(f) /\ RowsSum(S \cup {row}) = SumFunction(g)
    BY DEF RowsSum
  <1> HIDE DEF f, g, T
  <1>3. \A x \in S \cup {row} : Amounted(x) \in Int
    BY FeeIsNat DEF Amounted
  <1>4. SumFunction(g) = SumFunction(f) + g[row]
    BY <1>1, <1>3, SumGrows
  <1> QED
    BY <1>1, <1>2, <1>4

(* Each row of S has its own row, with the same amount, in T.              *)
LEMMA RowsSumIsCovered ==
  ASSUME NEW S, NEW T, IsFiniteSet(S), IsFiniteSet(T), NEW h,
         \A row \in T : row.amount \in Nat,
         \A row \in S : h[row] \in T /\ row.amount = h[row].amount,
         \A x, y \in S : h[x] = h[y] => x = y
  PROVE  RowsSum(S) <= RowsSum(T)
  <1> DEFINE f == [x \in S |-> x.amount + Fee(x.amount)]
             g == [x \in T |-> x.amount + Fee(x.amount)]
  <1>1. /\ DOMAIN f = S /\ DOMAIN g = T
        /\ \A x \in S : f[x] = Amounted(x)
        /\ \A x \in T : g[x] = Amounted(x)
    BY DEF Amounted
  <1>2. RowsSum(S) = SumFunction(f) /\ RowsSum(T) = SumFunction(g)
    BY DEF RowsSum
  <1> HIDE DEF f, g
  <1>3. /\ \A x \in T : Amounted(x) \in Nat
        /\ \A x \in S : Amounted(x) = Amounted(h[x])
    BY FeeIsNat DEF Amounted
  <1>4. SumFunction(f) <= SumFunction(g)
    BY <1>1, <1>3, SumIsCovered
  <1> QED
    BY <1>2, <1>4

LockRows(u)  == {row \in Rows("ESCROW_LOCK") : row.user = u}
SpentRows(u) == {row \in txn : IsSettlement(row) /\ escrow[row.escrow].client = u}

(* The books, with what a proof about their sums needs to know.            *)
SettledKnown == \A row \in txn : IsSettlement(row) => row.escrow \in DOMAIN escrow

Countable == IsFiniteSet(txn) /\ IsFiniteSet(DOMAIN escrow) /\ SettledKnown

LEMMA BookRows ==
  ASSUME TypeOK, IsFiniteSet(txn), NEW u
  PROVE  /\ IsFiniteSet(LockRows(u)) /\ IsFiniteSet(SpentRows(u))
         /\ \A row \in LockRows(u) \cup SpentRows(u) : row.amount \in Nat
         /\ LockSum(u) = RowsSum(LockRows(u)) /\ SpentSum(u) = RowsSum(SpentRows(u))
         /\ LockSum(u) \in Int /\ SpentSum(u) \in Int
  <1>1. LockRows(u) \subseteq txn /\ SpentRows(u) \subseteq txn
    BY DEF LockRows, SpentRows, Rows
  <1>2. IsFiniteSet(LockRows(u)) /\ IsFiniteSet(SpentRows(u))
    BY <1>1, FS_Subset
  <1>3. ASSUME NEW row \in LockRows(u) \cup SpentRows(u) PROVE row.amount \in Nat
    <2>1. row \in txn /\ IsEscrowRow(row)
      BY <1>3 DEF LockRows, SpentRows, Rows, IsEscrowRow
    <2> QED
      BY <2>1, EscrowAssumption DEF TypeOK, TxnRow
  <1>4. RowsSum(LockRows(u)) \in Int /\ RowsSum(SpentRows(u)) \in Int
    BY <1>2, <1>3, RowsAddUp
  <1> QED
    BY <1>2, <1>3, <1>4 DEF LockSum, SpentSum, LockRows, SpentRows

(* Marking locks changes no sum.                                           *)
LEMMA MarkingMovesNothing ==
  ASSUME IInv, IsFiniteSet(txn), IsFiniteSet(txn'), NEW u,
         NEW e, NEW status, NEW c, txn' = LocksMarked(e, status, c)
  PROVE  LockSum(u)' = LockSum(u)
  <1>0. Typed /\ TypeOK /\ IsFiniteSet(txn)
    BY DEF IInv, Typed
  <1>1. \A old \in LockRows(u) : old \in txn /\ old \in TxnRow
    BY <1>0 DEF LockRows, Rows, TypeOK, IsEscrowRow
  <1>2. \A old \in txn : \/ old.type = "ESCROW_LOCK" /\ old \in TxnRow
                         \/ AfterMarking(old, e, status, c) = old
    BY <1>0 DEF TypeOK, IsEscrowRow, AfterMarking
  <1>3. ASSUME NEW old \in txn, old.type = "ESCROW_LOCK", old \in TxnRow
        PROVE  /\ AfterMarking(old, e, status, c).key = old.key
               /\ AfterMarking(old, e, status, c).type = old.type
               /\ AfterMarking(old, e, status, c).user = old.user
               /\ AfterMarking(old, e, status, c).amount = old.amount
    BY <1>3 DEF AfterMarking, TxnRow
  <1>4. \A old \in txn : /\ AfterMarking(old, e, status, c).key = old.key
                         /\ AfterMarking(old, e, status, c).type = old.type
                         /\ AfterMarking(old, e, status, c).user = old.user
                         /\ AfterMarking(old, e, status, c).amount = old.amount
    BY <1>2, <1>3
  <1>5. txn' = {AfterMarking(old, e, status, c) : old \in txn}
    BY DEF LocksMarked, AfterMarking
  <1> DEFINE h == [old \in LockRows(u) |-> AfterMarking(old, e, status, c)]
             k == [new \in LockRows(u)' |->
                     CHOOSE old \in txn : new = AfterMarking(old, e, status, c)]
  <1>6. /\ \A old \in LockRows(u) : h[old] \in LockRows(u)' /\ old.amount = h[old].amount
        /\ \A x, y \in LockRows(u) : h[x] = h[y] => x = y
    <2>1. \A old \in LockRows(u) : old \in txn /\ h[old] = AfterMarking(old, e, status, c)
      BY <1>1
    <2>2. LockRows(u)' = {row \in txn' : row.type = "ESCROW_LOCK" /\ row.user = u}
          /\ LockRows(u) = {row \in txn : row.type = "ESCROW_LOCK" /\ row.user = u}
      BY DEF LockRows, Rows
    <2> HIDE DEF h
    <2>3. \A x, y \in txn : x.key = y.key => x = y
      BY DEF IInv, Booked
    <2> QED
      BY <1>4, <1>5, <2>1, <2>2, <2>3
  <1>7. /\ \A new \in LockRows(u)' : k[new] \in LockRows(u) /\ new.amount = k[new].amount
        /\ \A x, y \in LockRows(u)' : k[x] = k[y] => x = y
    <2>1. \A new \in LockRows(u)' : k[new] \in txn /\ new = AfterMarking(k[new], e, status, c)
      BY <1>5 DEF LockRows, Rows
    <2>2. LockRows(u)' = {row \in txn' : row.type = "ESCROW_LOCK" /\ row.user = u}
          /\ LockRows(u) = {row \in txn : row.type = "ESCROW_LOCK" /\ row.user = u}
      BY DEF LockRows, Rows
    <2> HIDE DEF k
    <2> QED
      BY <1>4, <2>1, <2>2
  <1>8. /\ IsFiniteSet(LockRows(u)) /\ LockSum(u) = RowsSum(LockRows(u)) /\ LockSum(u) \in Int
        /\ \A row \in LockRows(u) : row.amount \in Nat
    BY <1>0, BookRows
  <1>9. /\ LockSum(u)' = RowsSum(LockRows(u)')
        /\ IsFiniteSet(LockRows(u)')
    <2>1. LockRows(u)' \subseteq txn'
      BY DEF LockRows, Rows
    <2>2. IsFiniteSet(LockRows(u)')
      BY <2>1, FS_Subset
    <2>3. LockSum(u)' = RowsSum(LockRows(u)')
      BY DEF LockSum, LockRows, RowsSum
    <2> QED
      BY <2>2, <2>3
  <1> HIDE DEF h, k
  <1>10. \A row \in LockRows(u)' : row.amount \in Nat
    BY <1>7, <1>8
  <1>11. RowsSum(LockRows(u)) <= RowsSum(LockRows(u)')
    BY <1>6, <1>8, <1>9, <1>10, RowsSumIsCovered
  <1>12. RowsSum(LockRows(u)') <= RowsSum(LockRows(u))
    BY <1>7, <1>8, <1>9, <1>10, RowsSumIsCovered
  <1>13. RowsSum(LockRows(u)') \in Int /\ RowsSum(LockRows(u)) \in Int
    BY <1>8, <1>9, <1>10, RowsAddUp
  <1> QED
    BY <1>8, <1>9, <1>11, <1>12, <1>13

(* Steps that leave the escrows, or the settlements, leave their sums.     *)
SameSettlements == {row \in txn' : IsSettlement(row)} = {row \in txn : IsSettlement(row)}

LEMMA SpentStays ==
  ASSUME EscrowKept, SettledKnown, SameSettlements, NEW u
  PROVE  SpentSum(u)' = SpentSum(u)
  <1>1. \A row \in txn : IsSettlement(row) =>
          escrow'[row.escrow].client = escrow[row.escrow].client
    BY DEF EscrowKept, SettledKnown
  <1>2. SpentRows(u)' = SpentRows(u)
    BY <1>1 DEF SpentRows, SameSettlements
  <1>3. SpentSum(u) = RowsSum(SpentRows(u)) /\ SpentSum(u)' = RowsSum(SpentRows(u)')
    BY DEF SpentSum, SpentRows, RowsSum
  <1> QED
    BY <1>2, <1>3

LEMMA MarkedSettlements ==
  ASSUME Typed, NEW e, NEW status, NEW c, txn' = LocksMarked(e, status, c)
  PROVE  SameSettlements
  <1>1. \A x \in txn' : IsSettlement(x) => x \in txn
    BY MarkedRows
  <1>2. \A x \in txn : IsSettlement(x) => x \in txn'
    BY DEF LocksMarked, IsSettlement
  <1> QED
    BY <1>1, <1>2 DEF SameSettlements, IsSettlement

LEMMA AddedLock ==
  ASSUME NEW row, ~IsSettlement(row), txn' = txn \cup {row}
  PROVE  SameSettlements
  BY DEF SameSettlements, IsSettlement

LEMMA EscrowSumsAreInts ==
  ASSUME TypeOK, IsFiniteSet(DOMAIN escrow), NEW u
  PROVE  /\ IsFiniteSet(EscrowsOf(u)) /\ CreatedSum(u) \in Int
         /\ EscrowsOf(u) \subseteq DOMAIN escrow
         /\ \A e \in EscrowsOf(u) : Total(e) \in Nat
  <1> DEFINE f == [e \in EscrowsOf(u) |-> Total(e)]
  <1>1. EscrowsOf(u) \subseteq DOMAIN escrow /\ DOMAIN f = EscrowsOf(u)
    BY DEF EscrowsOf
  <1>2. IsFiniteSet(DOMAIN f) /\ \A e \in DOMAIN f : Total(e) \in Nat /\ f[e] \in Int
    BY <1>1, FS_Subset, TotalIsNat
  <1>3. CreatedSum(u) = SumFunction(f)
    BY DEF CreatedSum
  <1> HIDE DEF f
  <1> QED
    BY <1>1, <1>2, <1>3, SumOfInts

LEMMA CreatedStays ==
  ASSUME TypeOK, EscrowKept, DOMAIN escrow' = DOMAIN escrow, IsFiniteSet(DOMAIN escrow), NEW u
  PROVE  CreatedSum(u)' = CreatedSum(u) /\ EscrowsOf(u)' = EscrowsOf(u)
  <1> DEFINE f == [e \in EscrowsOf(u) |-> Total(e)]
             g == [e \in EscrowsOf(u)' |-> Total(e)']
  <1>1. EscrowsOf(u)' = EscrowsOf(u)
    BY DEF EscrowsOf, EscrowKept
  <1>2. \A e \in EscrowsOf(u) : Total(e)' = Total(e)
    BY TotalIsKept DEF EscrowsOf
  <1>3. /\ DOMAIN f = EscrowsOf(u) /\ DOMAIN g = DOMAIN f
        /\ \A e \in DOMAIN f : f[e] = g[e]
    BY <1>1, <1>2
  <1>4. CreatedSum(u) = SumFunction(f) /\ CreatedSum(u)' = SumFunction(g)
    BY DEF CreatedSum
  <1> HIDE DEF f, g
  <1>5. IsFiniteSet(DOMAIN f)
    BY <1>3, EscrowSumsAreInts
  <1> QED
    BY <1>1, <1>3, <1>4, <1>5, SumsOfEqual

(* What an escrow's creation adds, for its client, on both sides.          *)
LEMMA CreatedGrows ==
  ASSUME Typed, EscrowKept, IsFiniteSet(DOMAIN escrow), NEW u \in Users,
         NEW e \in Escrows, NEW k \in Keys, NEW c \in Users, NEW f \in Users, NEW a \in Amounts,
         Create(e, k, c, f, a)
  PROVE  CreatedSum(u)' = CreatedSum(u) + (IF u = c THEN a + Fee(a) ELSE 0)
  <1>1. /\ e \notin DOMAIN escrow /\ DOMAIN escrow' = DOMAIN escrow \cup {e}
        /\ escrow'[e].client = c /\ escrow'[e].amount = a
        /\ \A x \in DOMAIN escrow : escrow'[x] = escrow[x]
    BY DEF Create
  <1>2. EscrowsOf(u)' = IF u = c THEN EscrowsOf(u) \cup {e} ELSE EscrowsOf(u)
    BY <1>1 DEF EscrowsOf
  <1>3. e \notin EscrowsOf(u) /\ \A x \in EscrowsOf(u) : Total(x)' = Total(x)
    BY <1>1 DEF EscrowsOf, Total
  <1>4. Total(e)' = a + Fee(a) /\ a + Fee(a) \in Nat
    BY <1>1, FeeIsNat, EscrowAssumption DEF Total
  <1>5. /\ IsFiniteSet(EscrowsOf(u)) /\ CreatedSum(u) \in Int
        /\ \A x \in EscrowsOf(u) : Total(x) \in Nat
    BY EscrowSumsAreInts DEF Typed
  <1> DEFINE sum == [x \in EscrowsOf(u) |-> Total(x)]
             new == [x \in EscrowsOf(u)' |-> Total(x)']
  <1>6. /\ DOMAIN sum = EscrowsOf(u) /\ DOMAIN new = EscrowsOf(u)'
        /\ \A x \in EscrowsOf(u) : sum[x] = Total(x)
        /\ \A x \in EscrowsOf(u)' : new[x] = Total(x)'
    OBVIOUS
  <1>7. CreatedSum(u) = SumFunction(sum) /\ CreatedSum(u)' = SumFunction(new)
    BY DEF CreatedSum
  <1> HIDE DEF sum, new
  <1>8. CASE u = c
    <2>1. /\ e \notin DOMAIN sum /\ DOMAIN new = DOMAIN sum \cup {e} /\ new[e] = a + Fee(a)
          /\ \A x \in DOMAIN sum : sum[x] \in Int /\ new[x] = sum[x]
      BY <1>2, <1>3, <1>4, <1>5, <1>6, <1>8
    <2>2. SumFunction(new) = SumFunction(sum) + new[e]
      BY <1>4, <1>5, <1>6, <2>1, SumGrows
    <2> QED
      BY <1>7, <1>8, <2>1, <2>2
  <1>9. CASE u # c
    <2>1. DOMAIN new = DOMAIN sum /\ \A x \in DOMAIN sum : sum[x] = new[x]
      BY <1>2, <1>3, <1>6, <1>9
    <2>2. SumFunction(sum) = SumFunction(new)
      BY <1>5, <1>6, <2>1, SumsOfEqual
    <2> QED
      BY <1>5, <1>7, <1>9, <2>2
  <1> QED
    BY <1>8, <1>9

(* What a new lock row adds.                                               *)
LEMMA LocksGrow ==
  ASSUME TypeOK, IsFiniteSet(txn), NEW u \in Users,
         NEW k, ~Used(k), NEW e, NEW c, NEW a \in Amounts,
         txn' = txn \cup {LockRow(k, e, c, a)}
  PROVE  LockSum(u)' = LockSum(u) + (IF u = c THEN a + Fee(a) ELSE 0)
  <1> DEFINE row == LockRow(k, e, c, a)
  <1>1. /\ row.type = "ESCROW_LOCK" /\ row.user = c /\ row.amount = a /\ row.key = k
        /\ a \in Nat
    BY EscrowAssumption DEF LockRow
  <1> HIDE DEF row
  <1>2. row \notin LockRows(u)
    BY <1>1 DEF Used, LockRows, Rows
  <1>3. LockRows(u)' = IF u = c THEN LockRows(u) \cup {row} ELSE LockRows(u)
    BY <1>1 DEF row, LockRows, Rows
  <1>4. /\ IsFiniteSet(LockRows(u)) /\ LockSum(u) = RowsSum(LockRows(u)) /\ LockSum(u) \in Int
        /\ \A x \in LockRows(u) : x.amount \in Nat
    BY BookRows
  <1>5. LockSum(u)' = RowsSum(LockRows(u)')
    BY DEF LockSum, LockRows, RowsSum
  <1>6. RowsSum(LockRows(u) \cup {row}) = RowsSum(LockRows(u)) + Amounted(row)
    BY <1>1, <1>2, <1>4, RowsSumGrows
  <1> QED
    BY <1>1, <1>3, <1>4, <1>5, <1>6 DEF Amounted

(* What a settlement adds to what its client has spent.                    *)
LEMMA SpentGrows ==
  ASSUME TypeOK, IsFiniteSet(txn), EscrowKept, SettledKnown, NEW u \in Users,
         NEW kind \in SettlementKinds, NEW e \in DOMAIN escrow,
         ~Used(SettlementKey(kind, e, run[<<kind, e>>].contract)), txn' = Booking(kind, e)
  PROVE  /\ SpentSum(u)' = SpentSum(u) + (IF u = escrow[e].client THEN Total(e) ELSE 0)
         /\ LockSum(u)' = LockSum(u)
         /\ SettledKnown'
  <1> DEFINE row == SettlementRow(kind, e, run[<<kind, e>>].contract)
  <1>1. /\ IsSettlement(row) /\ row.type # "ESCROW_LOCK" /\ row.escrow = e
        /\ row.amount = escrow[e].amount
        /\ row.key = SettlementKey(kind, e, run[<<kind, e>>].contract)
        /\ txn' = txn \cup {row}
    BY DEF SettlementRow, IsSettlement, Booking
  <1> HIDE DEF row
  <1>2. row \notin txn
    BY <1>1 DEF Used
  <1>3. escrow[e].amount \in Nat /\ Total(e) = Amounted(row) /\ Total(e) \in Nat
    BY <1>1, TotalIsNat DEF Total, Amounted
  <1>4. \A x \in txn : IsSettlement(x) => escrow'[x.escrow].client = escrow[x.escrow].client
    BY DEF EscrowKept, SettledKnown
  <1>5. escrow'[e].client = escrow[e].client /\ e \in DOMAIN escrow'
    BY DEF EscrowKept
  <1>6. SpentRows(u)' = IF u = escrow[e].client THEN SpentRows(u) \cup {row} ELSE SpentRows(u)
    BY <1>1, <1>4, <1>5 DEF SpentRows, IsSettlement
  <1>7. /\ IsFiniteSet(SpentRows(u)) /\ SpentSum(u) = RowsSum(SpentRows(u)) /\ SpentSum(u) \in Int
        /\ \A x \in SpentRows(u) : x.amount \in Nat
    BY BookRows
  <1>8. SpentSum(u)' = RowsSum(SpentRows(u)')
    BY DEF SpentSum, SpentRows, RowsSum
  <1>9. row \notin SpentRows(u)
    BY <1>2 DEF SpentRows
  <1>10. RowsSum(SpentRows(u) \cup {row}) = RowsSum(SpentRows(u)) + Amounted(row)
    BY <1>1, <1>3, <1>7, <1>9, RowsSumGrows
  <1>11. LockSum(u)' = LockSum(u)
    <2>1. Rows("ESCROW_LOCK")' = Rows("ESCROW_LOCK")
      BY <1>1 DEF Rows
    <2> QED
      BY <2>1 DEF LockSum, RowsSum
  <1>12. SettledKnown'
    BY <1>1, <1>5 DEF SettledKnown, IsSettlement, EscrowKept
  <1> QED
    BY <1>3, <1>6, <1>7, <1>8, <1>10, <1>11, <1>12

(* What is reserved without a run that has not given it back yet.          *)
Gap(u) == LockSum(u) - ((balance[u].reserved + SpentSum(u)) + CreatedSum(u))

LEMMA ReserveSumsAreInts ==
  ASSUME TypeOK, Countable, NEW u \in Users
  PROVE  /\ LockSum(u) \in Int /\ SpentSum(u) \in Int /\ CreatedSum(u) \in Int
         /\ balance[u].reserved \in Int
  BY BookRows, EscrowSumsAreInts DEF Countable, TypeOK, BalanceRow

LEMMA ReservedMoves ==
  ASSUME TypeOK, NEW u \in Users, NEW c \in Users, NEW x \in Int, NEW y \in Int,
         balance' = [balance EXCEPT ![c] = Moved(balance[c], x, y)]
  PROVE  balance'[u].reserved = balance[u].reserved + (IF u = c THEN y ELSE 0)
  <1>1. balance[u].reserved \in Int /\ balance \in [Users -> BalanceRow]
    BY DEF TypeOK, BalanceRow
  <1>2. CASE u = c
    BY <1>1, <1>2 DEF Moved
  <1>3. CASE u # c
    BY <1>1, <1>3
  <1> QED
    BY <1>2, <1>3

GapMoves(u) ==
  /\ SettledKnown'
  /\ \/ Gap(u)' = Gap(u)
     \/ \E e \in EscrowsOf(u) : RollbackWrite(e) /\ Gap(u)' = Gap(u) + Total(e)

LEMMA ServiceKeepsGap ==
  ASSUME IInv, Countable, EscrowKept, ServiceNext, NEW u \in Users
  PROVE  GapMoves(u)
  <1>0. /\ Typed /\ TypeOK /\ IsFiniteSet(txn) /\ IsFiniteSet(DOMAIN escrow) /\ SettledKnown
        /\ LockSum(u) \in Int /\ SpentSum(u) \in Int /\ CreatedSum(u) \in Int
        /\ balance[u].reserved \in Int
    BY ReserveSumsAreInts DEF IInv, Typed, Countable
  <1>1. CASE UNCHANGED <<balance, txn, escrow>>
    BY <1>0, <1>1
    DEF GapMoves, Gap, LockSum, SpentSum, CreatedSum, RowsSum, Rows, EscrowsOf, Total, SettledKnown
  <1>2. ASSUME SameSettlements
        PROVE  SettledKnown' /\ SpentSum(u)' = SpentSum(u)
    <2>1. SettledKnown'
      BY <1>0, <1>2 DEF SettledKnown, SameSettlements, EscrowKept
    <2> QED
      BY <1>0, <1>2, <2>1, SpentStays
  <1>3. ASSUME NEW e \in Escrows, NEW k \in Keys, NEW c \in Users, NEW f \in Users,
               NEW a \in Amounts, Create(e, k, c, f, a)
        PROVE  GapMoves(u)
    <2>1. ~Used(k) /\ UNCHANGED balance /\ txn' = txn \cup {LockRow(k, e, c, a)}
      BY <1>3 DEF Create
    <2>2. ~IsSettlement(LockRow(k, e, c, a))
      BY DEF LockRow, IsSettlement
    <2>3. SettledKnown' /\ SpentSum(u)' = SpentSum(u)
      BY <1>2, <2>1, <2>2, AddedLock
    <2>4. LockSum(u)' = LockSum(u) + (IF u = c THEN a + Fee(a) ELSE 0)
      BY <1>0, <2>1, LocksGrow
    <2>5. CreatedSum(u)' = CreatedSum(u) + (IF u = c THEN a + Fee(a) ELSE 0)
      BY <1>0, <1>3, CreatedGrows
    <2>6. a + Fee(a) \in Int
      BY FeeIsNat, EscrowAssumption
    <2> QED
      BY <1>0, <2>1, <2>3, <2>4, <2>5, <2>6 DEF GapMoves, Gap
  <1>4. ASSUME NEW r \in Requests, LockWrite(r)
        PROVE  GapMoves(u)
    <2> DEFINE e == req[r].escrow
               c == escrow[e].client
               a == escrow[e].amount
    <2>1. /\ e \in DOMAIN escrow /\ c \in Users /\ a \in Amounts /\ Total(e) \in Nat
          /\ Total(e) = a + Fee(a)
      <3>1. req[r].escrow \in DOMAIN escrow
        BY <1>0, <1>4, NotIdle, RequestIsTyped DEF LockWrite, Typed
      <3> QED
        BY <1>0, <3>1, TotalIsNat DEF Total, EscrowRow
    <2>2. /\ ~Used(req[r].key) /\ txn' = txn \cup {LockRow(req[r].key, e, c, a)}
          /\ UNCHANGED escrow
          /\ balance' = [balance EXCEPT ![c] = Moved(balance[c], -Total(e), Total(e))]
      BY <1>4 DEF LockWrite
    <2> HIDE DEF e, c, a
    <2>3. ~IsSettlement(LockRow(req[r].key, e, c, a))
      BY DEF LockRow, IsSettlement
    <2>4. SettledKnown' /\ SpentSum(u)' = SpentSum(u)
      BY <1>2, <2>2, <2>3, AddedLock
    <2>5. LockSum(u)' = LockSum(u) + (IF u = c THEN a + Fee(a) ELSE 0)
      BY <1>0, <2>1, <2>2, LocksGrow
    <2>6. CreatedSum(u)' = CreatedSum(u)
      BY <1>0, <2>2, CreatedStays
    <2>7. balance'[u].reserved = balance[u].reserved + (IF u = c THEN Total(e) ELSE 0)
      <3>1. Total(e) \in Int /\ -Total(e) \in Int
        BY <2>1
      <3> QED
        BY <1>0, <2>1, <2>2, <3>1, ReservedMoves
    <2> QED
      BY <1>0, <2>1, <2>4, <2>5, <2>6, <2>7 DEF GapMoves, Gap
  <1> QED
    BY <1>1, <1>3, <1>4
    DEF ServiceNext, ServiceStep, Fund, Release, Refund, LockRead, LockConflict, Enqueue,
        RequestLost

LEMMA SettlementKeepsGap ==
  ASSUME IInv, Countable, EscrowKept, NEW u \in Users,
         NEW kind \in SettlementKinds, NEW e \in Escrows,
         \/ kind = "release" /\ ReleaseCommit(e)
         \/ kind = "refund" /\ RefundCommit(e)
  PROVE  GapMoves(u)
  <1> DEFINE c == escrow[e].client
             f == escrow[e].freelancer
             a == escrow[e].amount
  <1>0. /\ Typed /\ TypeOK /\ IsFiniteSet(txn) /\ IsFiniteSet(DOMAIN escrow) /\ SettledKnown
        /\ LockSum(u) \in Int /\ SpentSum(u) \in Int /\ CreatedSum(u) \in Int
        /\ balance[u].reserved \in Int
    BY ReserveSumsAreInts DEF IInv, Typed, Countable
  <1>1. e \in DOMAIN escrow
    <2>1. run[<<kind, e>>].pc = "txWrite"
      BY DEF ReleaseCommit, RefundCommit, At
    <2>2. <<kind, e>> \in JobIds
      BY DEF JobIds, JobKinds
    <2> QED
      BY <1>0, <2>1, <2>2, RunIsTyped DEF NoRun
  <1>2. /\ c \in Users /\ f \in Users /\ c # f /\ a \in Nat /\ Total(e) \in Nat
    BY <1>0, <1>1, TotalIsNat DEF IInv, TwoParties
  <1>3. /\ ~Used(SettlementKey(kind, e, run[<<kind, e>>].contract)) /\ txn' = Booking(kind, e)
    BY DEF ReleaseCommit, RefundCommit, Conflict
  <1>4. /\ SpentSum(u)' = SpentSum(u) + (IF u = c THEN Total(e) ELSE 0)
        /\ LockSum(u)' = LockSum(u)
        /\ SettledKnown'
    BY <1>0, <1>1, <1>3, SpentGrows
  <1>5. CreatedSum(u)' = CreatedSum(u)
    <2>1. DOMAIN escrow' = DOMAIN escrow
      BY DEF ReleaseCommit, RefundCommit, Marked
    <2> QED
      BY <1>0, <2>1, CreatedStays
  <1>6. balance'[u].reserved = balance[u].reserved + (IF u = c THEN -Total(e) ELSE 0)
    <2>1. CASE kind = "refund" /\ RefundCommit(e)
      <3>1. balance' = [balance EXCEPT ![c] = Moved(balance[c], Total(e), -Total(e))]
        BY <2>1 DEF RefundCommit, GivenBack
      <3>2. Total(e) \in Int /\ -Total(e) \in Int
        BY <1>2
      <3> HIDE DEF c
      <3> QED
        BY <1>0, <1>2, <3>1, <3>2, ReservedMoves
    <2>2. CASE kind = "release" /\ ReleaseCommit(e)
      <3>1. balance' = [balance EXCEPT ![f] = Moved(balance[f], a, 0),
                                       ![c] = Moved(balance[c], 0, -Total(e))]
        BY <2>2 DEF ReleaseCommit, PaidOut
      <3> HIDE DEF a, c, f
      <3>2. balance \in [Users -> BalanceRow]
        BY <1>0 DEF TypeOK
      <3>3. CASE u = c
        BY <1>0, <1>2, <3>1, <3>2, <3>3 DEF Moved
      <3>4. CASE u = f
        BY <1>0, <1>2, <3>1, <3>2, <3>4 DEF Moved
      <3>5. CASE u # c /\ u # f
        BY <1>0, <1>2, <3>1, <3>2, <3>5
      <3> QED
        BY <3>3, <3>4, <3>5
    <2> QED
      BY <2>1, <2>2
  <1> HIDE DEF c
  <1> QED
    BY <1>0, <1>2, <1>4, <1>5, <1>6 DEF GapMoves, Gap

LEMMA FundingKeepsGap ==
  ASSUME IInv, Countable, EscrowKept, IsFiniteSet(txn'), NEW u \in Users,
         NEW e \in Escrows, FundStep(e)
  PROVE  GapMoves(u)
  <1>0. /\ Typed /\ TypeOK /\ IsFiniteSet(txn) /\ IsFiniteSet(DOMAIN escrow) /\ SettledKnown
        /\ LockSum(u) \in Int /\ SpentSum(u) \in Int /\ CreatedSum(u) \in Int
        /\ balance[u].reserved \in Int
    BY ReserveSumsAreInts DEF IInv, Typed, Countable
  <1>1. CASE UNCHANGED <<balance, txn, escrow>>
    BY <1>0, <1>1
    DEF GapMoves, Gap, LockSum, SpentSum, CreatedSum, RowsSum, Rows, EscrowsOf, Total, SettledKnown
  <1>2. ASSUME NEW status, NEW c, txn' = LocksMarked(e, status, c), UNCHANGED balance,
               DOMAIN escrow' = DOMAIN escrow
        PROVE  GapMoves(u)
    <2>1. SameSettlements
      BY <1>0, <1>2, MarkedSettlements
    <2>2. SettledKnown'
      BY <1>0, <2>1 DEF SettledKnown, SameSettlements, EscrowKept
    <2>3. SpentSum(u)' = SpentSum(u)
      BY <1>0, <2>1, SpentStays
    <2>4. LockSum(u)' = LockSum(u)
      BY <1>0, <1>2, MarkingMovesNothing
    <2>5. CreatedSum(u)' = CreatedSum(u)
      BY <1>0, <1>2, CreatedStays
    <2> QED
      BY <1>2, <2>2, <2>3, <2>4, <2>5 DEF GapMoves, Gap
  <1>3. CASE RollbackWrite(e)
    <2>1. e \in DOMAIN escrow
      <3>1. run[<<"fund", e>>].pc = "rollbackWrite" /\ <<"fund", e>> \in JobIds
        BY <1>3 DEF RollbackWrite, At, JobIds, JobKinds
      <3> QED
        BY <1>0, <3>1, RunIsTyped DEF NoRun
    <2>2. Total(e) \in Nat /\ escrow[e].client \in Users
      BY <1>0, <2>1, TotalIsNat
    <2>3. UNCHANGED <<txn, escrow>> /\ (UNCHANGED balance \/ balance' = GivenBack(e))
      BY <1>3 DEF RollbackWrite
    <2>4. /\ SettledKnown' /\ LockSum(u)' = LockSum(u) /\ SpentSum(u)' = SpentSum(u)
          /\ CreatedSum(u)' = CreatedSum(u)
      BY <1>0, <2>3
      DEF LockSum, SpentSum, CreatedSum, RowsSum, Rows, EscrowsOf, Total, SettledKnown
    <2>5. CASE UNCHANGED balance
      BY <2>4, <2>5 DEF GapMoves, Gap
    <2>6. CASE balance' = GivenBack(e)
      <3> DEFINE c == escrow[e].client
      <3>1. balance' = [balance EXCEPT ![c] = Moved(balance[c], Total(e), -Total(e))]
        BY <2>6 DEF GivenBack
      <3>2. Total(e) \in Int /\ -Total(e) \in Int /\ c \in Users
        BY <2>2
      <3>3. u = c => e \in EscrowsOf(u)
        BY <2>1 DEF EscrowsOf
      <3> HIDE DEF c
      <3>4. balance'[u].reserved = balance[u].reserved + (IF u = c THEN -Total(e) ELSE 0)
        BY <1>0, <3>1, <3>2, ReservedMoves
      <3>5. Gap(u)' = Gap(u) + (IF u = c THEN Total(e) ELSE 0) /\ Gap(u) \in Int
        BY <1>0, <2>2, <2>4, <3>4 DEF Gap
      <3> QED
        BY <1>3, <2>4, <3>3, <3>5 DEF GapMoves
    <2> QED
      BY <2>3, <2>5, <2>6
  <1>4. CASE FundCommit(e)
    <2>1. DOMAIN escrow' = DOMAIN escrow
      BY <1>4 DEF FundCommit, Funded
    <2> QED
      BY <1>2, <1>4, <2>1 DEF FundCommit
  <1>5. CASE MarkFailed(e)
    BY <1>2, <1>5 DEF MarkFailed
  <1> QED
    BY <1>1, <1>3, <1>4, <1>5
    DEF FundStep, FundStart, FundDeploy, FundThrows, RollbackRead, CatchThrows, Take

LEMMA GapsMove ==
  ASSUME IInv, Countable, EscrowKept, IsFiniteSet(txn'), Next, NEW u \in Users
  PROVE  GapMoves(u)
  <1>1. CASE ServiceNext
    BY <1>1, ServiceKeepsGap
  <1>2. CASE ProcessorNext
    <2>1. PICK j \in JobIds : JobStep(j) \/ WorkerCrash(j)
      BY <1>2 DEF ProcessorNext
    <2>2. j[2] \in Escrows /\ j = <<j[1], j[2]>>
      BY DEF JobIds
    <2>3. CASE j[1] = "fund" /\ FundStep(j[2])
      BY <2>2, <2>3, FundingKeepsGap
    <2>4. CASE j[1] \in SettlementKinds /\ \/ j[1] = "release" /\ ReleaseCommit(j[2])
                                           \/ j[1] = "refund" /\ RefundCommit(j[2])
      BY <2>2, <2>4, SettlementKeepsGap
    <2>5. CASE UNCHANGED <<balance, txn, escrow>>
      BY <2>5
      DEF Countable, GapMoves, Gap, LockSum, SpentSum, CreatedSum, RowsSum, Rows, EscrowsOf,
          Total, SettledKnown
    <2> QED
      BY <2>1, <2>3, <2>4, <2>5
      DEF JobStep, SettleStep, SettleStart, SettleCall, SettleRefused, SettleRead, SettleThrows,
          Take, Notify, WorkerCrash
  <1> QED
    BY <1>1, <1>2 DEF Next

(* The runs that failed never become fewer, and one more gives back a lock. *)
LEMMA ReturnsGrow ==
  ASSUME IInv, IsFiniteSet(DOMAIN escrow), IsFiniteSet(DOMAIN escrow'), EscrowKept, Next,
         NEW u \in Users
  PROVE  /\ ReturnedSum(u) \in Int /\ ReturnedSum(u)' \in Int
         /\ ReturnedSum(u)' >= ReturnedSum(u)
         /\ \A e \in EscrowsOf(u) :
              RollbackWrite(e) => ReturnedSum(u)' >= ReturnedSum(u) + Total(e)
  <1> DEFINE f == [e \in EscrowsOf(u) |-> FailedRuns(e) * Total(e)]
             g == [e \in EscrowsOf(u)' |-> FailedRuns(e)' * Total(e)']
  <1>0. TypeOK /\ TypeOK'
    BY NextKeeps DEF IInv
  <1>1. /\ EscrowsOf(u) \subseteq EscrowsOf(u)'
        /\ IsFiniteSet(EscrowsOf(u)) /\ IsFiniteSet(EscrowsOf(u)')
        /\ EscrowsOf(u) \subseteq DOMAIN escrow
    <2>1. EscrowsOf(u) \subseteq EscrowsOf(u)' /\ EscrowsOf(u) \subseteq DOMAIN escrow
          /\ EscrowsOf(u)' \subseteq DOMAIN escrow'
      BY DEF EscrowsOf, EscrowKept
    <2> QED
      BY <2>1, FS_Subset
  <1>2. \A e \in EscrowsOf(u) :
          /\ FailedRuns(e) \in Nat /\ FailedRuns(e)' \in Nat /\ Total(e) \in Nat
          /\ Total(e)' = Total(e)
          /\ FailedRuns(e)' >= FailedRuns(e)
          /\ RollbackWrite(e) => FailedRuns(e)' >= FailedRuns(e) + 1
    BY <1>0, <1>1, RunsAreCounted, TotalIsNat, TotalIsKept
  <1>3. \A e \in EscrowsOf(u)' : FailedRuns(e)' \in Nat /\ Total(e)' \in Nat
    <2> SUFFICES ASSUME NEW e \in EscrowsOf(u)' PROVE FailedRuns(e)' \in Nat /\ Total(e)' \in Nat
      OBVIOUS
    <2>1. e \in DOMAIN escrow'
      BY DEF EscrowsOf
    <2>2. Total(e)' \in Nat
      <3>1. escrow'[e].amount \in Nat
        BY <1>0, <2>1, EscrowAssumption DEF TypeOK, EscrowRow
      <3> QED
        BY <3>1, FeeIsNat DEF Total
    <2>3. FailedRuns(e)' \in Nat
      <3>1. <<"fund", e>> \in JobIds
        BY <1>0, <2>1 DEF TypeOK, JobIds, JobKinds
      <3>2. job'[<<"fund", e>>] \in JobRecord
        BY <1>0, <3>1 DEF TypeOK
      <3>3. job'[<<"fund", e>>].attempts \in Nat /\ job'[<<"fund", e>>].stalled \in Nat
        BY <3>2, QueueAssumption DEF JobRecord
      <3> QED
        BY <3>3 DEF FailedRuns, At
    <2> QED
      BY <2>2, <2>3
  <1>4. /\ DOMAIN f = EscrowsOf(u) /\ DOMAIN g = EscrowsOf(u)'
        /\ \A e \in EscrowsOf(u) : f[e] = FailedRuns(e) * Total(e)
        /\ \A e \in EscrowsOf(u)' : g[e] = FailedRuns(e)' * Total(e)'
    OBVIOUS
  <1>5. ReturnedSum(u) = SumFunction(f) /\ ReturnedSum(u)' = SumFunction(g)
    BY DEF ReturnedSum
  <1> HIDE DEF f, g
  <1>6. /\ \A e \in EscrowsOf(u) : f[e] \in Nat
        /\ \A e \in EscrowsOf(u)' : g[e] \in Nat
    BY <1>2, <1>3, <1>4, Products
  <1>7. \A e \in EscrowsOf(u) : f[e] <= g[e]
    <2> SUFFICES ASSUME NEW e \in EscrowsOf(u) PROVE f[e] <= g[e]
      OBVIOUS
    <2>1. FailedRuns(e) * Total(e) <= FailedRuns(e)' * Total(e)
      BY <1>2, Products
    <2> QED
      BY <1>1, <1>2, <1>4, <2>1
  <1>8. SumFunction(f) \in Int /\ SumFunction(g) \in Int
    BY <1>1, <1>4, <1>6, SumOfInts
  <1>9. SumFunction(f) <= SumFunction(g)
    BY <1>1, <1>4, <1>6, <1>7, SumIsBelow
  <1>10. ASSUME NEW e \in EscrowsOf(u), RollbackWrite(e)
         PROVE  SumFunction(f) + Total(e) <= SumFunction(g)
    <2> DEFINE t == Total(e)
               h == [x \in EscrowsOf(u) |-> IF x = e THEN f[e] + t ELSE f[x]]
    <2>1. t \in Nat /\ f[e] + t <= g[e]
      <3>1. FailedRuns(e) * Total(e) + Total(e) <= FailedRuns(e)' * Total(e)
        <4>1. FailedRuns(e) + 1 <= FailedRuns(e)'
          BY <1>2, <1>10
        <4> QED
          BY <1>2, <4>1, Products
      <3> QED
        BY <1>1, <1>2, <1>4, <3>1
    <2> HIDE DEF t
    <2>2. /\ DOMAIN h = EscrowsOf(u) /\ h[e] = f[e] + t
          /\ \A x \in EscrowsOf(u) : x # e => h[x] = f[x]
      OBVIOUS
    <2> HIDE DEF h
    <2>3. \A x \in EscrowsOf(u) : h[x] \in Int /\ h[x] <= g[x]
      BY <1>6, <1>7, <2>1, <2>2
    <2>4. SumFunction(h) = SumFunction(f) + (h[e] - f[e])
      BY <1>1, <1>4, <1>6, <2>2, <2>3, SumMoves
    <2>5. SumFunction(h) <= SumFunction(g)
      BY <1>1, <1>4, <1>6, <2>2, <2>3, SumIsBelow
    <2>6. h[e] - f[e] = t
      BY <1>6, <2>1, <2>2
    <2> QED
      BY <2>4, <2>5, <2>6 DEF t
  <1> QED
    BY <1>5, <1>8, <1>9, <1>10

LEMMA CountableStays ==
  ASSUME Countable, Effects
  PROVE  IsFiniteSet(txn') /\ IsFiniteSet(DOMAIN escrow')
  <1>1. IsFiniteSet(txn')
    BY RowsStayFinite DEF Countable, Effects
  <1>2. DOMAIN escrow' = DOMAIN escrow \/ \E e : DOMAIN escrow' = DOMAIN escrow \cup {e}
    BY DEF Effects, EscrowEffect, Create, Funded, Marked
  <1> QED
    BY <1>1, <1>2, FS_AddElement DEF Countable

(* The property, said of the gap; it holds of the next state as well.      *)
SaidOfGaps == TypeOK /\ Countable =>
  (ReserveIsExplained <=> \A u \in Users : 0 <= Gap(u) /\ Gap(u) <= ReturnedSum(u))

LEMMA Explained == SaidOfGaps
  <1> SUFFICES ASSUME TypeOK, Countable
               PROVE  ReserveIsExplained <=>
                        \A u \in Users : 0 <= Gap(u) /\ Gap(u) <= ReturnedSum(u)
    BY DEF SaidOfGaps
  <1>1. ASSUME NEW u \in Users
        PROVE  LET explained == balance[u].reserved + SpentSum(u) + CreatedSum(u)
               IN  /\ explained <= LockSum(u) <=> 0 <= Gap(u)
                   /\ ReturnedSum(u) \in Int =>
                        (LockSum(u) <= explained + ReturnedSum(u) <=> Gap(u) <= ReturnedSum(u))
    BY ReserveSumsAreInts DEF Gap
  <1>2. ASSUME NEW u \in Users PROVE ReturnedSum(u) \in Int
    <2> DEFINE f == [e \in EscrowsOf(u) |-> FailedRuns(e) * Total(e)]
    <2>1. /\ IsFiniteSet(EscrowsOf(u)) /\ EscrowsOf(u) \subseteq DOMAIN escrow
          /\ \A e \in EscrowsOf(u) : Total(e) \in Nat
      BY EscrowSumsAreInts DEF Countable
    <2>2. \A e \in EscrowsOf(u) : FailedRuns(e) \in Nat
      <3> SUFFICES ASSUME NEW e \in EscrowsOf(u) PROVE FailedRuns(e) \in Nat
        OBVIOUS
      <3>1. job[<<"fund", e>>] \in JobRecord
        BY <2>1 DEF TypeOK, JobIds, JobKinds
      <3>2. job[<<"fund", e>>].attempts \in Nat /\ job[<<"fund", e>>].stalled \in Nat
        BY <3>1, QueueAssumption DEF JobRecord
      <3> QED
        BY <3>2 DEF FailedRuns, At
    <2>3. IsFiniteSet(DOMAIN f) /\ \A e \in DOMAIN f : f[e] \in Int
      BY <2>1, <2>2, Products
    <2>4. ReturnedSum(u) = SumFunction(f)
      BY DEF ReturnedSum
    <2> HIDE DEF f
    <2> QED
      BY <2>3, <2>4, SumOfInts
  <1> QED
    BY <1>1, <1>2 DEF ReserveIsExplained

LEMMA ExplainedNext == SaidOfGaps'
  BY Explained, PTL

LEMMA ExplainedStays ==
  ASSUME IInv, Countable, ReserveIsExplained, Next
  PROVE  Countable' /\ ReserveIsExplained'
  <1>0. TypeOK /\ TypeOK' /\ EscrowKept /\ Effects
    BY NextKeeps DEF IInv
  <1>1. IsFiniteSet(txn') /\ IsFiniteSet(DOMAIN escrow')
    BY <1>0, CountableStays
  <1>2. Countable'
    <2>1. CASE Users = {}
      BY <1>0, <1>1, <2>1 DEF Countable, SettledKnown, TypeOK, TxnRow, IsEscrowRow
    <2>2. CASE Users # {}
      BY <1>0, <1>1, <2>2, GapsMove DEF GapMoves, Countable
    <2> QED
      BY <2>1, <2>2
  <1>3. ASSUME NEW u \in Users
        PROVE  0 <= Gap(u)' /\ Gap(u)' <= ReturnedSum(u)'
    <2>1. 0 <= Gap(u) /\ Gap(u) <= ReturnedSum(u) /\ Gap(u) \in Int
      <3>1. 0 <= Gap(u) /\ Gap(u) <= ReturnedSum(u)
        BY <1>0, Explained DEF SaidOfGaps
      <3> QED
        BY <1>0, <3>1, ReserveSumsAreInts DEF Gap
    <2>2. /\ ReturnedSum(u) \in Int /\ ReturnedSum(u)' \in Int
          /\ ReturnedSum(u)' >= ReturnedSum(u)
          /\ \A e \in EscrowsOf(u) :
               RollbackWrite(e) => ReturnedSum(u)' >= ReturnedSum(u) + Total(e)
      BY <1>0, <1>1, ReturnsGrow DEF Countable
    <2>3. CASE Gap(u)' = Gap(u)
      BY <2>1, <2>2, <2>3
    <2>4. ASSUME NEW e \in EscrowsOf(u), RollbackWrite(e), Gap(u)' = Gap(u) + Total(e)
          PROVE  0 <= Gap(u)' /\ Gap(u)' <= ReturnedSum(u)'
      <3>1. Total(e) \in Nat
        BY <1>0, EscrowSumsAreInts DEF Countable
      <3> QED
        BY <2>1, <2>2, <2>4, <3>1
    <2> QED
      BY <1>0, <1>1, <2>3, <2>4, GapsMove DEF GapMoves
  <1> QED
    BY <1>0, <1>2, <1>3, ExplainedNext DEF SaidOfGaps

LEMMA ExplainedInit ==
  ASSUME Init
  PROVE  Countable /\ ReserveIsExplained
  <1>1. /\ txn = {} /\ DOMAIN escrow = {} /\ TypeOK
        /\ \A u \in Users : balance[u].reserved = 0
    BY InitIInv DEF IInv, Init, InitEscrowStore, InitStore
  <1>2. Countable
    BY <1>1, FS_EmptySet DEF Countable, SettledKnown
  <1>3. \A f : DOMAIN f = {} => SumFunction(f) = 0
    BY FS_EmptySet, SumEquation DEF SumFunction
  <1>4. ASSUME NEW u \in Users PROVE Gap(u) = 0 /\ ReturnedSum(u) = 0
    <2> DEFINE locks == [row \in {x \in Rows("ESCROW_LOCK") : x.user = u} |-> Amounted(row)]
               spent == [row \in {x \in txn : IsSettlement(x) /\ escrow[x.escrow].client = u}
                           |-> Amounted(row)]
               created == [e \in EscrowsOf(u) |-> Total(e)]
               returned == [e \in EscrowsOf(u) |-> FailedRuns(e) * Total(e)]
    <2>1. /\ DOMAIN locks = {} /\ DOMAIN spent = {}
          /\ DOMAIN created = {} /\ DOMAIN returned = {}
      BY <1>1 DEF Rows, EscrowsOf
    <2>2. /\ LockSum(u) = SumFunction(locks) /\ SpentSum(u) = SumFunction(spent)
          /\ CreatedSum(u) = SumFunction(created) /\ ReturnedSum(u) = SumFunction(returned)
      BY DEF LockSum, SpentSum, CreatedSum, ReturnedSum, RowsSum, Amounted
    <2> HIDE DEF locks, spent, created, returned
    <2>3. /\ LockSum(u) = 0 /\ SpentSum(u) = 0 /\ CreatedSum(u) = 0 /\ ReturnedSum(u) = 0
      BY <1>3, <2>1, <2>2
    <2> QED
      BY <1>1, <2>3 DEF Gap
  <1> QED
    BY <1>1, <1>2, <1>4, Explained DEF SaidOfGaps

(* What a client has reserved is what was locked, less what was settled    *)
(* and what failed runs of fund jobs gave back, each at most once per run. *)
THEOREM ReserveAlwaysExplained == Spec => []ReserveIsExplained
  <1>1. IInv /\ Countable /\ ReserveIsExplained /\ [Next]_vars
          => (Countable /\ ReserveIsExplained)'
    <2>1. UNCHANGED vars /\ Countable /\ ReserveIsExplained
            => (Countable /\ ReserveIsExplained)'
      BY DEF vars, storeVars, Countable, SettledKnown, ReserveIsExplained, LockSum, SpentSum,
             CreatedSum, ReturnedSum, RowsSum, Rows, EscrowsOf, FailedRuns, At, Total
    <2> QED
      BY <2>1, ExplainedStays
  <1> QED
    BY <1>1, ExplainedInit, InvariantHolds, PTL DEF Spec
=============================================================================
