------------------------------ MODULE Disputes ------------------------------
(***************************************************************************)
(* DisputesService of the API.  An escrow has at most one dispute (a       *)
(* unique index), so a dispute is named by its escrow.  Every handler      *)
(* reads the rows it checks, awaits, and then writes without looking       *)
(* again; the writes are unconditional updates by id.                      *)
(***************************************************************************)
EXTENDS Escrow

CONSTANTS
  DisputeRequests,    \* dispute requests in progress at once
  Evidence,           \* keys of evidence documents
  Resolutions         \* values of dto.resolution that requests carry

DisputeStatus == {"OPEN", "UNDER_REVIEW", "RESOLVED_CLIENT", "RESOLVED_FREELANCER", "CLOSED"}

ASSUME DisputeAssumption == Resolutions \subseteq DisputeStatus

VARIABLES
  dispute,    \* the disputes table, defined for the escrows disputed so far
  dreq        \* what each dispute request in progress has done so far

disputeVars == <<dispute, dreq>>

DisputeRow == [status : DisputeStatus, evidence : SUBSET Evidence]

DisputeRequest ==
  [pc         : {"open", "evidence", "review", "resolve", "enqueue", "notify"},
   escrow     : Escrows,
   event      : {"DISPUTE_OPENED", "DISPUTE_RESOLVED"},
   resolution : DisputeStatus,          \* of a resolve request
   evidence   : SUBSET Evidence]        \* what an open or addEvidence will write

InitDisputes ==
  /\ dispute = << >>
  /\ dreq = [r \in DisputeRequests |-> Idle]

Undecided == {"OPEN", "UNDER_REVIEW"}

BeginDispute(r, pc, e, ev, resolution, evidence) ==
  /\ dreq[r] = Idle
  /\ dreq' = [dreq EXCEPT ![r] = [pc |-> pc, escrow |-> e, event |-> ev,
                                  resolution |-> resolution, evidence |-> evidence]]

GotoDispute(r, pc) == dreq' = [dreq EXCEPT ![r].pc = pc]

EndDispute(r) == dreq' = [dreq EXCEPT ![r] = Idle]

-----------------------------------------------------------------------------
(* open(): the escrow is funded, it has no dispute yet. *)
OpenDispute(r, e, evidence) ==
  /\ e \in DOMAIN escrow
  /\ escrow[e].status \in {"FUNDED", "ACTIVE"}
  /\ e \notin DOMAIN dispute
  /\ BeginDispute(r, "open", e, "DISPUTE_OPENED", "OPEN", evidence)
  /\ UNCHANGED <<storeVars, dispute>>

(* open(), the transaction: inserts the dispute and marks the escrow       *)
(* DISPUTED whatever its status is by now.                                 *)
OpenCommit(r) ==
  LET e == dreq[r].escrow
  IN  /\ dreq[r].pc = "open"
      /\ e \notin DOMAIN dispute
      /\ RowFree(e)
      /\ dispute' = [x \in DOMAIN dispute \cup {e} |->
                       IF x = e
                         THEN [status |-> "OPEN", evidence |-> dreq[r].evidence]
                         ELSE dispute[x]]
      /\ escrow' = [escrow EXCEPT ![e].status = "DISPUTED"]
      /\ GotoDispute(r, "notify")
      /\ UNCHANGED <<balance, txn, chain, job, event>>

(* open(): another request has inserted the dispute meanwhile. *)
OpenConflict(r) ==
  /\ dreq[r].pc = "open"
  /\ dreq[r].escrow \in DOMAIN dispute
  /\ EndDispute(r)
  /\ UNCHANGED <<storeVars, dispute>>

(* addEvidence(): merge into the evidence read, then write the merged value. *)
AddEvidence(r, e, x) ==
  /\ e \in DOMAIN dispute
  /\ dispute[e].status \in Undecided
  /\ BeginDispute(r, "evidence", e, "DISPUTE_OPENED", "OPEN", dispute[e].evidence \cup {x})
  /\ UNCHANGED <<storeVars, dispute>>

EvidenceWrite(r) ==
  /\ dreq[r].pc = "evidence"
  /\ dispute' = [dispute EXCEPT ![dreq[r].escrow].evidence = dreq[r].evidence]
  /\ EndDispute(r)
  /\ UNCHANGED storeVars

(* setUnderReview(). *)
SetUnderReview(r, e) ==
  /\ e \in DOMAIN dispute
  /\ dispute[e].status = "OPEN"
  /\ BeginDispute(r, "review", e, "DISPUTE_OPENED", "UNDER_REVIEW", {})
  /\ UNCHANGED <<storeVars, dispute>>

ReviewWrite(r) ==
  /\ dreq[r].pc = "review"
  /\ dispute' = [dispute EXCEPT ![dreq[r].escrow].status = "UNDER_REVIEW"]
  /\ EndDispute(r)
  /\ UNCHANGED storeVars

(* resolve(): the check, the transaction, the job it triggers, the event.  *)
Resolve(r, e, resolution) ==
  /\ e \in DOMAIN dispute
  /\ dispute[e].status \in Undecided
  /\ BeginDispute(r, "resolve", e, "DISPUTE_RESOLVED", resolution, {})
  /\ UNCHANGED <<storeVars, dispute>>

ResolveCommit(r) ==
  /\ dreq[r].pc = "resolve"
  /\ dispute' = [dispute EXCEPT ![dreq[r].escrow].status = dreq[r].resolution]
  /\ GotoDispute(r, "enqueue")
  /\ UNCHANGED storeVars

(* Mutant of Triggered: pays the other side.                               *)
TriggeredSwapped(resolution) ==
  CASE resolution = "RESOLVED_FREELANCER" -> {"refund"}
    [] resolution = "RESOLVED_CLIENT" -> {"release"}
    [] OTHER -> {}

Triggered(resolution) ==
  CASE resolution = "RESOLVED_FREELANCER" -> {"release"}
    [] resolution = "RESOLVED_CLIENT" -> {"refund"}
    [] OTHER -> {}

ResolveEnqueue(r) ==
  /\ dreq[r].pc = "enqueue"
  /\ job' = [j \in JobIds |->
               IF j[1] \in Triggered(dreq[r].resolution) /\ j[2] = dreq[r].escrow
                 THEN Added(job[j]) ELSE job[j]]
  /\ GotoDispute(r, "notify")
  /\ UNCHANGED <<balance, txn, chain, escrow, event, dispute>>

(* The webhook event, the last step of open() and resolve(). *)
DisputeNotify(r) ==
  /\ dreq[r].pc = "notify"
  /\ event' = event \cup {<<dreq[r].event, dreq[r].escrow>>}
  /\ EndDispute(r)
  /\ UNCHANGED <<balance, txn, chain, escrow, job, dispute>>

(* The API process dies, or a queue refuses: what was committed stays.     *)
DisputeLost(r) ==
  /\ dreq[r] # Idle
  /\ \/ "apiCrash" \in Faults
     \/ "queueFails" \in Faults /\ dreq[r].pc \in {"enqueue", "notify"}
  /\ EndDispute(r)
  /\ UNCHANGED <<storeVars, dispute>>

DisputeStep(r) ==
  \/ OpenCommit(r) \/ OpenConflict(r)
  \/ EvidenceWrite(r)
  \/ ReviewWrite(r)
  \/ ResolveCommit(r) \/ ResolveEnqueue(r)
  \/ DisputeNotify(r)

DisputeNext ==
  \E r \in DisputeRequests :
    \/ \E e \in Escrows :
         \/ \E evidence \in SUBSET Evidence : OpenDispute(r, e, evidence)
         \/ \E x \in Evidence : AddEvidence(r, e, x)
         \/ SetUnderReview(r, e)
         \/ \E resolution \in Resolutions : Resolve(r, e, resolution)
    \/ DisputeStep(r)
    \/ DisputeLost(r)
=============================================================================
