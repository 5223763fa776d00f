---------------------------- MODULE EscrowService ----------------------------
(***************************************************************************)
(* EscrowService of the API.  A request runs between two awaits without    *)
(* interruption; other requests and the workers run at every await.  The   *)
(* steps of a request that only read rows which never change (the escrow's *)
(* client, amount and fee) are merged with the next step, and so is the    *)
(* lookup of the idempotency key: a key found unused by the insert was     *)
(* unused at the lookup, and a request that finds it used changes nothing. *)
(***************************************************************************)
EXTENDS EscrowStore

CONSTANT Requests   \* requests in progress at once

VARIABLE req        \* what each request in progress has done so far

Idle == [pc |-> "idle"]

ServiceRequest ==
  [pc   : {"lockRead", "lockWrite", "enqueue"},
   kind : JobKinds,
   escrow : Escrows,
   key  : Keys,     \* only a fund request has one
   seen : Nat]      \* the version of the client's balance row it has read

InitService == req = [r \in Requests |-> Idle]

AnyKey == CHOOSE k \in Keys : TRUE

Begin(r, pc, kind, e, k) ==
  /\ req[r] = Idle
  /\ req' = [req EXCEPT ![r] = [pc |-> pc, kind |-> kind, escrow |-> e, key |-> k, seen |-> 0]]

(* create(): one transaction inserts the escrow and, under the client's    *)
(* key, a PENDING lock row, although nothing is locked yet.                *)
Create(e, k, c, f, amount) ==
  /\ ~Used(k)
  /\ e \notin DOMAIN escrow
  /\ c \in Clients
  /\ f # c
  /\ escrow' = [x \in DOMAIN escrow \cup {e} |->
                  IF x = e
                    THEN [status |-> "PENDING", client |-> c, freelancer |-> f,
                          amount |-> amount, contract |-> 0]
                    ELSE escrow[x]]
  /\ txn' = txn \cup {LockRow(k, e, c, amount)}
  /\ UNCHANGED <<balance, chain, job, event, req>>

(* fund(), up to its transaction: the key is new, the escrow is PENDING.   *)
Fund(r, e, k) ==
  /\ e \in DOMAIN escrow
  /\ ~Used(k)
  /\ escrow[e].status = "PENDING"
  /\ Begin(r, "lockRead", "fund", e, k)
  /\ UNCHANGED <<balance, txn, chain, escrow, job, event>>

(* fund(), the transaction's read of the client's balance. *)
LockRead(r) ==
  /\ req[r].pc = "lockRead"
  /\ LET row == balance[escrow[req[r].escrow].client]
     IN  IF row.available < Total(req[r].escrow)
           THEN req' = [req EXCEPT ![r] = Idle]
           ELSE req' = [req EXCEPT ![r].pc = "lockWrite", ![r].seen = row.version]
  /\ UNCHANGED <<balance, txn, chain, escrow, job, event>>

(* fund(), the rest of the transaction: the versioned update of the        *)
(* balance and the insert under the key commit together, or neither does.  *)
LockWrite(r) ==
  LET e == req[r].escrow
      u == escrow[e].client
  IN  /\ req[r].pc = "lockWrite"
      /\ Current(u, req[r].seen)
      /\ ~Used(req[r].key)
      /\ balance' = [balance EXCEPT ![u] = Moved(@, -Total(e), Total(e))]
      /\ txn' = txn \cup {LockRow(req[r].key, e, u, escrow[e].amount)}
      /\ req' = [req EXCEPT ![r].pc = "enqueue"]
      /\ UNCHANGED <<chain, escrow, job, event>>

(* fund(): the balance was modified concurrently or the key was taken.     *)
LockConflict(r) ==
  /\ req[r].pc = "lockWrite"
  /\ \/ ~Current(escrow[req[r].escrow].client, req[r].seen)
     \/ Used(req[r].key)
  /\ req' = [req EXCEPT ![r] = Idle]
  /\ UNCHANGED <<balance, txn, chain, escrow, job, event>>

(* release() and refund(), up to queue.add. *)
Release(r, e) ==
  /\ e \in DOMAIN escrow
  /\ escrow[e].status \in {"FUNDED", "ACTIVE"}
  /\ Begin(r, "enqueue", "release", e, AnyKey)
  /\ UNCHANGED <<balance, txn, chain, escrow, job, event>>

Refund(r, e) ==
  /\ e \in DOMAIN escrow
  /\ escrow[e].status \in {"FUNDED", "ACTIVE", "DISPUTED"}
  /\ Begin(r, "enqueue", "refund", e, AnyKey)
  /\ UNCHANGED <<balance, txn, chain, escrow, job, event>>

(* queue.add, the last step of the three handlers.                         *)
Enqueue(r) ==
  /\ req[r].pc = "enqueue"
  /\ LET j == <<req[r].kind, req[r].escrow>>
     IN  job' = [job EXCEPT ![j] = Added(@)]
  /\ req' = [req EXCEPT ![r] = Idle]
  /\ UNCHANGED <<balance, txn, chain, escrow, event>>

(* The API process dies, or queue.add throws: what was committed stays.    *)
RequestLost(r) ==
  /\ req[r] # Idle
  /\ \/ "apiCrash" \in Faults
     \/ "queueFails" \in Faults /\ req[r].pc = "enqueue"
  /\ req' = [req EXCEPT ![r] = Idle]
  /\ UNCHANGED <<balance, txn, chain, escrow, job, event>>

ServiceStep(r) ==
  LockRead(r) \/ LockWrite(r) \/ LockConflict(r) \/ Enqueue(r)

ServiceNext ==
  \/ \E e \in Escrows, k \in Keys, c \in Users, f \in Users, a \in Amounts :
       Create(e, k, c, f, a)
  \/ \E r \in Requests :
       \/ \E e \in Escrows, k \in Keys : Fund(r, e, k)
       \/ \E e \in Escrows : Release(r, e) \/ Refund(r, e)
       \/ ServiceStep(r)
       \/ RequestLost(r)
=============================================================================
