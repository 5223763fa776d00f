------------------------------- MODULE Store -------------------------------
(***************************************************************************)
(* The two PostgreSQL tables that every money-moving component shares: the *)
(* balances and the transactions.  A row of balances is only ever written  *)
(* by a compare-and-swap on its version (updateMany with the version in    *)
(* the WHERE clause, which also increments it), and a row of transactions  *)
(* is only inserted if its idempotency key is new (a unique index).  The   *)
(* database runs at READ COMMITTED, so between the read that yields a      *)
(* version and the write that checks it, other transactions may commit.    *)
(***************************************************************************)
EXTENDS Integers, FiniteSets

CONSTANTS
  Users,      \* users with a balance row
  Keys,       \* values clients send as X-Idempotency-Key
  Funds,      \* what each user has topped up before the behaviour starts
  Faults      \* the kinds of failure that may happen, see FaultKinds

FaultKinds ==
  { "callFails",    \* an HTTP call to a partner throws and had no effect
    "callLost",     \* an HTTP call takes effect but its answer is lost
    "dbFails",      \* a database statement or transaction of a worker throws
    "queueFails",   \* queue.add throws (Redis is unreachable)
    "workerCrash",  \* a worker process dies while it runs a job
    "apiCrash" }    \* the API process dies while it serves a request

ASSUME StoreAssumption ==
  /\ IsFiniteSet(Users)
  /\ Keys # {}
  /\ Funds \in [Users -> Nat]
  /\ Faults \subseteq FaultKinds

VARIABLES
  balance,    \* the balances table, one row per user
  txn         \* the transactions table, a set of rows

BalanceRow == [available : Int, reserved : Int, version : Nat]

TransactionStatus == {"PENDING", "COMPLETED", "FAILED"}

(* A user who topped up has had one versioned update of the balance row.   *)
InitStore ==
  /\ balance = [u \in Users |-> [available |-> Funds[u],
                                 reserved  |-> 0,
                                 version   |-> IF Funds[u] = 0 THEN 0 ELSE 1]]
  /\ txn = {}

(* The row that updateMany writes: both amounts move, the version advances. *)
Moved(row, available, reserved) ==
  [available |-> row.available + available,
   reserved  |-> row.reserved + reserved,
   version   |-> row.version + 1]

(* Mutants: no version in the WHERE clause; no unique index on the key.     *)
CurrentAlways(u, seen) == TRUE
UsedNever(key) == FALSE

(* The WHERE clause of that updateMany: nobody wrote since version seen.   *)
Current(u, seen) == balance[u].version = seen

(* transaction.findUnique({ where: { idempotencyKey } }), and what the     *)
(* unique index refuses.                                                   *)
Used(key) == \E row \in txn : row.key = key
=============================================================================
