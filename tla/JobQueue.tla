------------------------------ MODULE JobQueue ------------------------------
(***************************************************************************)
(* A BullMQ queue as the services and processors use it: one record per    *)
(* jobId, kept after the job ends, so that adding a jobId that exists in   *)
(* any state changes nothing.  The exponential backoff between attempts    *)
(* only delays a job; a delayed job is "waiting" here.                     *)
(***************************************************************************)
EXTENDS Naturals

CONSTANTS
  MaxAttempts,   \* the attempts option of queue.add, 3 in the services
  MaxStalled,    \* BullMQ's maxStalledCount, 1 by default
  Workers        \* jobs that may run at once, over all worker processes

ASSUME QueueAssumption ==
  /\ MaxAttempts \in Nat \ {0}
  /\ MaxStalled \in Nat
  /\ Workers \in Nat \ {0}

NoJob == [state |-> "none", attempts |-> 0, stalled |-> 0]

JobRecord == [state    : {"none", "waiting", "active", "completed", "failed"},
              attempts : 0 .. MaxAttempts,
              stalled  : 0 .. MaxStalled + 1]

(* queue.add(name, data, { jobId }). *)
Added(entry) == IF entry.state = "none" THEN [entry EXCEPT !.state = "waiting"] ELSE entry

(* A worker takes the job, and the processor returns. *)
Started(entry)   == [entry EXCEPT !.state = "active"]
Completed(entry) == [entry EXCEPT !.state = "completed"]

(* Mutants of Failed: one attempt too many; an attempt that is not counted. *)
FailedOffByOne(entry) ==
  [entry EXCEPT !.attempts = @ + 1,
              !.state    = IF entry.attempts + 1 <= MaxAttempts THEN "waiting" ELSE "failed"]

FailedUncounted(entry) == [entry EXCEPT !.state = "waiting"]

(* The processor throws: retried until the attempts are used up. *)
Failed(entry) ==
  [entry EXCEPT !.attempts = @ + 1,
              !.state    = IF entry.attempts + 1 < MaxAttempts THEN "waiting" ELSE "failed"]

(* The worker that ran the job died and its lock expired: the job is run   *)
(* again from the start, without counting an attempt, MaxStalled times.    *)
Stalled(entry) ==
  [entry EXCEPT !.stalled = @ + 1,
              !.state   = IF entry.stalled < MaxStalled THEN "waiting" ELSE "failed"]
=============================================================================
