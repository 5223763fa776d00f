---------------------------- MODULE TrustlessWork ----------------------------
(***************************************************************************)
(* The external Trustless Work API and the Stellar contracts it manages,   *)
(* as far as the worker relies on them.  Deploying returns a new contract  *)
(* every time; a contract pays out once, to one side.  The hash of the     *)
(* ledger transaction that settled a contract is a function of the         *)
(* contract and the side, so the model names it by those two.              *)
(***************************************************************************)
EXTENDS Naturals, Sequences

CONSTANT
  Replay      \* TRUE when repeating a settlement returns the first answer,
              \* FALSE when the API refuses a contract already settled

ASSUME ReplayAssumption == Replay \in BOOLEAN

VARIABLE chain   \* the contracts, in the order they were deployed

SettlementKinds == {"release", "refund"}

InitChain == chain = << >>

(* POST /escrow/deploy creates contract Len(chain) + 1. *)
Deployed(e) == Append(chain, [escrow |-> e, state |-> "held"])

(* POST /escrow/release and POST /escrow/refund. *)
Accepts(c, kind) ==
  \/ chain[c].state = "held"
  \/ Replay /\ chain[c].state = kind

Settled(c, kind) == [chain EXCEPT ![c].state = kind]
=============================================================================
