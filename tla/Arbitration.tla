----------------------------- MODULE Arbitration -----------------------------
(***************************************************************************)
(* The escrow life cycle together with disputes: requests to EscrowService *)
(* and to DisputesService and the escrow workers all run at once.          *)
(***************************************************************************)
EXTENDS Disputes

arbitrationVars == <<vars, disputeVars>>

ArbitrationInit == Init /\ InitDisputes

ArbitrationNext ==
  \/ Next /\ UNCHANGED disputeVars
  \/ DisputeNext /\ UNCHANGED <<req, run>>

ArbitrationSpec == ArbitrationInit /\ [][ArbitrationNext]_arbitrationVars

(* As in Escrow, the event loop resumes what waits and workers take jobs.  *)
ArbitrationFairness ==
  /\ \A r \in Requests :
       WF_arbitrationVars(ServiceStep(r) /\ UNCHANGED <<run, disputeVars>>)
  /\ \A j \in JobIds :
       WF_arbitrationVars(JobStep(j) /\ UNCHANGED <<req, disputeVars>>)
  /\ \A r \in DisputeRequests :
       WF_arbitrationVars(DisputeStep(r) /\ UNCHANGED <<req, run>>)

FairArbitration == ArbitrationSpec /\ ArbitrationFairness

-----------------------------------------------------------------------------
(* Escrow's types, and those of disputes; a dispute is about an escrow.    *)
DisputeTypeOK ==
  /\ TypeOK
  /\ DOMAIN dispute \subseteq DOMAIN escrow
  /\ dispute \in [DOMAIN dispute -> DisputeRow]
  /\ dreq \in [DisputeRequests -> {Idle} \cup DisputeRequest]

(* An escrow is settled one way, once: a release the client asked for, a   *)
(* refund by an admin and the outcome of a dispute, in whatever order      *)
(* their jobs run, never pay both sides.                                   *)
SettledOneWay ==
  \A x, y \in {row \in txn : IsSettlement(row)} : x.escrow = y.escrow => x = y

(* The money of every escrow with a contract and no settlement is still    *)
(* reserved, even when a dispute has overwritten the escrow's status.      *)
Unsettled(u) ==
  {e \in DOMAIN escrow : /\ escrow[e].client = u
                         /\ escrow[e].contract # 0
                         /\ ~ \E row \in txn : IsSettlement(row) /\ row.escrow = e}

UnsettledAreBacked ==
  \A u \in Users : balance[u].reserved >= SumFunction([e \in Unsettled(u) |-> Total(e)])

(* A dispute decided for one side is settled to that side, or the attempts *)
(* of the job that settles it are used up: the decision gets through to    *)
(* the queue, the contract and the books.  A job that had used up its      *)
(* attempts before the decision is left out, because queue.add does        *)
(* nothing then (ResolutionTriggers below).                                *)
DecidedFor(e, status, kind) ==
  /\ e \in DOMAIN dispute
  /\ dispute[e].status = status
  /\ job[<<kind, e>>].state # "failed"

CarriedOut(e, type, kind) ==
  \/ \E row \in txn : row.escrow = e /\ row.type = type
  \/ job[<<kind, e>>].state = "failed"

DecisionIsCarriedOut == \A e \in Escrows :
  /\ DecidedFor(e, "RESOLVED_CLIENT", "refund") ~> CarriedOut(e, "ESCROW_REFUND", "refund")
  /\ DecidedFor(e, "RESOLVED_FREELANCER", "release")
       ~> CarriedOut(e, "ESCROW_RELEASE", "release")

-----------------------------------------------------------------------------
(* "Dispute is already resolved": a decision is not replaced by another.   *)
ResolutionIsFinal ==
  [][\A e \in DOMAIN dispute :
       dispute[e].status \notin Undecided /\ dispute'[e].status \notin Undecided =>
         dispute'[e].status = dispute[e].status]_arbitrationVars

(* README "Resolve dispute, trigger release or refund": once resolve has   *)
(* called queue.add, the job of the decision is going to run, or has run.  *)
ResolutionTriggers ==
  [][\A r \in DisputeRequests :
       dreq[r].pc = "enqueue" /\ dreq'[r].pc = "notify" =>
         \A kind \in Triggered(dreq[r].resolution) :
           job'[<<kind, dreq[r].escrow>>].state # "failed"]_arbitrationVars
=============================================================================
