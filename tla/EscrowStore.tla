----------------------------- MODULE EscrowStore -----------------------------
(***************************************************************************)
(* What the escrow half of the API and the escrow worker share: the        *)
(* escrows table, the escrow queue and the webhook events they emit.       *)
(***************************************************************************)
EXTENDS Store, JobQueue, TrustlessWork

CONSTANTS
  Escrows,            \* escrow ids
  Clients,            \* users whose role may create and fund (CLIENT, MARKETPLACE)
  Amounts,            \* escrow amounts, in the table's smallest unit
  PLATFORM_FEE_BPS    \* the platform fee in basis points

ASSUME EscrowAssumption ==
  /\ Clients \subseteq Users
  /\ Amounts \subseteq Nat \ {0}
  /\ PLATFORM_FEE_BPS \in Nat

VARIABLES
  escrow,     \* the escrows table, defined for the escrows created so far
  job,        \* the escrow queue, one record per jobId
  event       \* webhook events handed to the webhook queue so far

EscrowStatus == {"PENDING", "FUNDED", "ACTIVE", "DISPUTED", "RELEASED", "REFUNDED", "CANCELLED"}

(* stellarContractId is null until the worker stores it; 0 stands for null. *)
EscrowRow == [status : EscrowStatus, client : Users, freelancer : Users,
              amount : Amounts, contract : Nat]

JobKinds == {"fund"} \cup SettlementKinds
JobIds   == JobKinds \X Escrows

EventName ==
  [fund |-> "ESCROW_FUNDED", release |-> "ESCROW_RELEASED", refund |-> "ESCROW_REFUNDED"]

WebhookEvents == {"ESCROW_FUNDED", "ESCROW_RELEASED", "ESCROW_REFUNDED",
                  "DISPUTE_OPENED", "DISPUTE_RESOLVED"}

(* amount * bps / 10000, rounded half up to the column's eight decimals.   *)
Fee(amount) == (amount * PLATFORM_FEE_BPS + 5000) \div 10000

Total(e) == escrow[e].amount + Fee(escrow[e].amount)

(* The rows the code writes to transactions.  A lock has the key the       *)
(* client sent, a settlement the key release-<escrow>-<hash> or            *)
(* refund-<escrow>-<hash>; reference is the hash, 0 for null.              *)
SettlementKey(kind, e, c) == <<kind, e, c>>

LockRow(key, e, u, amount) ==
  [key |-> key, type |-> "ESCROW_LOCK", status |-> "PENDING",
   user |-> u, amount |-> amount, escrow |-> e, reference |-> 0]

SettlementRow(kind, e, c) ==
  [key |-> SettlementKey(kind, e, c),
   type |-> IF kind = "release" THEN "ESCROW_RELEASE" ELSE "ESCROW_REFUND",
   status |-> "COMPLETED",
   user |-> IF kind = "release" THEN escrow[e].freelancer ELSE escrow[e].client,
   amount |-> escrow[e].amount, escrow |-> e, reference |-> c]

IsSettlement(row) == row.type \in {"ESCROW_RELEASE", "ESCROW_REFUND"}

IsEscrowRow(row) == row.type = "ESCROW_LOCK" \/ IsSettlement(row)

(* updateMany on the PENDING lock rows of an escrow. *)
LocksMarked(e, status, reference) ==
  { IF row.type = "ESCROW_LOCK" /\ row.escrow = e /\ row.status = "PENDING"
      THEN [row EXCEPT !.status = status, !.reference = reference]
      ELSE row : row \in txn }

InitEscrowStore ==
  /\ InitStore
  /\ InitChain
  /\ escrow = << >>
  /\ job = [j \in JobIds |-> NoJob]
  /\ event = {}
=============================================================================
