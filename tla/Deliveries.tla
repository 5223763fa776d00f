----------------------------- MODULE Deliveries -----------------------------
(***************************************************************************)
(* WebhooksService of the API and WebhookProcessor of the worker, over the *)
(* webhook_endpoints and webhook_deliveries tables and the webhook queue.  *)
(* A run delivers to all endpoints it found at once (Promise.allSettled),  *)
(* so its deliveries interleave with each other, with other jobs and with  *)
(* the requests that change endpoints.                                     *)
(***************************************************************************)
EXTENDS JobQueue, Sequences, FiniteSets

CONSTANTS
  Events,       \* the webhook events
  Hooks,        \* jobs handed to the webhook queue
  EventOf,      \* the event each of them is about
  Endpoints,    \* ids of the endpoints that may be created
  Requests,     \* requests of owners in progress at once
  MaxSecret,    \* bound on the rotations of a secret
  Faults        \* the kinds of failure that may happen

ASSUME DeliveriesAssumption ==
  /\ EventOf \in [Hooks -> Events]
  /\ Faults \subseteq {"dbFails", "workerCrash"}
  /\ MaxSecret \in Nat

VARIABLES
  endpoint,   \* webhook_endpoints, defined for those created so far
  delivery,   \* webhook_deliveries, in the order of the inserts
  hook,       \* the webhook queue
  part,       \* what each run has done so far for each endpoint
  received,   \* POSTs of each job that reached each endpoint
  change      \* what each request in progress is about to do

vars == <<endpoint, delivery, hook, part, received, change>>

DeliveryStatus == {"PENDING", "DELIVERED", "FAILED"}

(* The secret is named by the number of its rotations. *)
EndpointRow == [events : (SUBSET Events) \ {{}}, isActive : BOOLEAN, secret : 0 .. MaxSecret]

(* An endpoint that has been deleted: its id is never used again.          *)
Gone == [events |-> {}, isActive |-> FALSE, secret |-> 0]

Exists(ep) == ep \in DOMAIN endpoint /\ endpoint[ep] # Gone

(* retry: nextRetryAt is set.                                              *)
DeliveryRow == [endpoint : Endpoints, hook : Hooks, status : DeliveryStatus, retry : BOOLEAN]

(* deliver() of one endpoint: what it does next, the secret it signs with  *)
(* and its row.                                                            *)
Part == [pc : {"none", "create", "post", "markDelivered", "markFailed", "done"},
         secret : 0 .. MaxSecret, row : Nat]

NoPart == [pc |-> "none", secret |-> 0, row |-> 0]

NoChange == [kind |-> "none"]

Init ==
  /\ endpoint = << >>
  /\ delivery = << >>
  /\ hook = [h \in Hooks |-> NoJob]
  /\ part = [p \in Hooks \X Endpoints |-> NoPart]
  /\ received = [p \in Hooks \X Endpoints |-> 0]
  /\ change = [r \in Requests |-> NoChange]

-----------------------------------------------------------------------------
(* WebhooksService. *)

CreateEndpoint(ep, events) ==
  /\ ep \notin DOMAIN endpoint
  /\ endpoint' = [x \in DOMAIN endpoint \cup {ep} |->
                    IF x = ep THEN [events |-> events, isActive |-> TRUE, secret |-> 0]
                              ELSE endpoint[x]]
  /\ UNCHANGED <<delivery, hook, part, received, change>>

(* assertOwner(), the first step of the other three.                       *)
AssertOwner(r, c) ==
  /\ change[r] = NoChange
  /\ Exists(c.endpoint)
  /\ change' = [change EXCEPT ![r] = c]
  /\ UNCHANGED <<endpoint, delivery, hook, part, received>>

Change ==
  [kind : {"update"}, endpoint : Endpoints, events : (SUBSET Events) \ {{}}, isActive : BOOLEAN]
    \cup [kind : {"delete", "rotate"}, endpoint : Endpoints]

(* Mutant: no foreign key.                                                 *)
ReferredNever(ep) == FALSE

(* The foreign key of webhook_deliveries: no action on delete.             *)
Referred(ep) == \E d \in DOMAIN delivery : delivery[d].endpoint = ep

(* The second step.                                                        *)
Changed(c) ==
  CASE c.kind = "update" -> [endpoint[c.endpoint] EXCEPT !.events = c.events,
                                                         !.isActive = c.isActive]
    [] c.kind = "rotate" -> [endpoint[c.endpoint] EXCEPT !.secret = @ + 1]
    [] c.kind = "delete" -> Gone

(* It throws when the endpoint is gone meanwhile, or is referred to.       *)
Refused(c) == ~Exists(c.endpoint) \/ (c.kind = "delete" /\ Referred(c.endpoint))

ApplyChange(r) ==
  LET c == change[r]
  IN  /\ c # NoChange
      /\ c.kind = "rotate" => endpoint[c.endpoint].secret < MaxSecret
      /\ endpoint' = IF Refused(c) THEN endpoint
                                   ELSE [endpoint EXCEPT ![c.endpoint] = Changed(c)]
      /\ change' = [change EXCEPT ![r] = NoChange]
      /\ UNCHANGED <<delivery, hook, part, received>>

-----------------------------------------------------------------------------
(* WebhookProcessor. *)

(* webhookQueue.add, by whoever has something to announce.                 *)
Announce(h) ==
  /\ hook' = [hook EXCEPT ![h] = Added(@)]
  /\ UNCHANGED <<endpoint, delivery, part, received, change>>

(* Mutant: inactive endpoints too.                                         *)
Subscribed(h) == {ep \in DOMAIN endpoint : EventOf[h] \in endpoint[ep].events}

(* webhookEndpoint.findMany. *)
Targets(h) == {ep \in Subscribed(h) : endpoint[ep].isActive}

Running(h) == hook[h].state = "active"

(* Mutant: waits for every endpoint there may be.                          *)
BusyAll(h) == {ep \in Endpoints : part[<<h, ep>>].pc # "done"}

Busy(h) == {ep \in Endpoints : part[<<h, ep>>].pc \notin {"none", "done"}}

HookStart(h) ==
  /\ hook[h].state = "waiting"
  /\ Cardinality({i \in Hooks : Running(i)}) < Workers
  /\ hook' = [hook EXCEPT ![h] = Started(@)]
  /\ part' = [p \in Hooks \X Endpoints |->
                IF p[1] = h /\ p[2] \in Targets(h)
                  THEN [pc |-> "create", secret |-> endpoint[p[2]].secret, row |-> 0]
                  ELSE part[p]]
  /\ UNCHANGED <<endpoint, delivery, received, change>>

(* findMany throws: no attempts option is passed, so one failure is final. *)
HookThrows(h) ==
  /\ hook[h].state = "waiting"
  /\ "dbFails" \in Faults
  /\ hook' = [hook EXCEPT ![h] = Failed(@)]
  /\ UNCHANGED <<endpoint, delivery, part, received, change>>

PartTo(p, pc) == part' = [part EXCEPT ![p].pc = pc]

(* The row that precedes the POST; without it the delivery is given up.    *)
CreateRow(p) ==
  /\ part[p].pc = "create"
  /\ \/ /\ Exists(p[2])
        /\ delivery' = Append(delivery, [endpoint |-> p[2], hook |-> p[1],
                                         status |-> "PENDING", retry |-> FALSE])
        /\ part' = [part EXCEPT ![p].pc = "post", ![p].row = Len(delivery) + 1]
     \/ /\ ~Exists(p[2]) \/ "dbFails" \in Faults
        /\ delivery' = delivery
        /\ PartTo(p, "done")
  /\ UNCHANGED <<endpoint, hook, received, change>>

(* axios.post: accepted, or an error, which the endpoint may have sent     *)
(* itself or which took the place of its answer.                           *)
Post(p) ==
  /\ part[p].pc = "post"
  /\ \/ /\ received' = [received EXCEPT ![p] = @ + 1]
        /\ PartTo(p, "markDelivered")
     \/ /\ received' \in {received, [received EXCEPT ![p] = @ + 1]}
        /\ PartTo(p, "markFailed")
  /\ UNCHANGED <<endpoint, delivery, hook, change>>

(* Mutant: a delivery that failed is recorded as delivered.                *)
MarkedAlike(p) == [delivery EXCEPT ![part[p].row].status = "DELIVERED"]

MarkedFailed(p) ==
  [delivery EXCEPT ![part[p].row].status = "FAILED", ![part[p].row].retry = TRUE]

(* The update of the row; when it throws, the catch block makes it FAILED. *)
MarkDelivered(p) ==
  /\ part[p].pc = "markDelivered"
  /\ \/ /\ delivery' = [delivery EXCEPT ![part[p].row].status = "DELIVERED"]
        /\ PartTo(p, "done")
     \/ /\ "dbFails" \in Faults
        /\ delivery' = delivery
        /\ PartTo(p, "markFailed")
  /\ UNCHANGED <<endpoint, hook, received, change>>

(* The catch block.  Nothing reads nextRetryAt: the delivery ends here.    *)
MarkFailed(p) ==
  /\ part[p].pc = "markFailed"
  /\ \/ delivery' = MarkedFailed(p)
     \/ "dbFails" \in Faults /\ delivery' = delivery
  /\ PartTo(p, "done")
  /\ UNCHANGED <<endpoint, hook, received, change>>

RunOver(h, Outcome) ==
  /\ hook' = [hook EXCEPT ![h] = Outcome]
  /\ part' = [p \in Hooks \X Endpoints |-> IF p[1] = h THEN NoPart ELSE part[p]]
  /\ UNCHANGED <<endpoint, delivery, received, change>>

(* allSettled: the job completes however its deliveries ended.             *)
HookEnds(h) == Running(h) /\ Busy(h) = {} /\ RunOver(h, Completed(hook[h]))

(* The worker process dies; BullMQ finds the job stalled.                  *)
HookCrash(h) ==
  /\ "workerCrash" \in Faults
  /\ Running(h)
  /\ RunOver(h, Stalled(hook[h]))

DeliverStep(p) == CreateRow(p) \/ Post(p) \/ MarkDelivered(p) \/ MarkFailed(p)

HookStep(h) ==
  \/ HookStart(h) \/ HookThrows(h) \/ HookEnds(h)
  \/ \E ep \in Endpoints : DeliverStep(<<h, ep>>)

Next ==
  \/ \E ep \in Endpoints, events \in (SUBSET Events) \ {{}} : CreateEndpoint(ep, events)
  \/ \E r \in Requests : ApplyChange(r) \/ \E c \in Change : AssertOwner(r, c)
  \/ \E h \in Hooks : Announce(h) \/ HookStep(h) \/ HookCrash(h)

(* BullMQ hands every waiting job to a worker, and the worker goes on      *)
(* while it lives.                                                         *)
Fairness == \A h \in Hooks : WF_vars(HookStep(h))

Spec == Init /\ [][Next]_vars

FairSpec == Spec /\ Fairness

-----------------------------------------------------------------------------
TypeOK ==
  /\ DOMAIN endpoint \subseteq Endpoints
  /\ endpoint \in [DOMAIN endpoint -> EndpointRow \cup {Gone}]
  /\ delivery \in Seq(DeliveryRow)
  /\ hook \in [Hooks -> JobRecord]
  /\ part \in [Hooks \X Endpoints -> Part]
  /\ received \in [Hooks \X Endpoints -> Nat]
  /\ change \in [Requests -> {NoChange} \cup Change]

(* The delivery history an owner sees is about endpoints that exist, and a *)
(* run that is about to write a row writes its own.                        *)
HistoryWhole ==
  /\ \A d \in DOMAIN delivery : Exists(delivery[d].endpoint)
  /\ \A p \in Hooks \X Endpoints : part[p].pc \in {"post", "markDelivered", "markFailed"} =>
       /\ part[p].row \in DOMAIN delivery
       /\ delivery[part[p].row].endpoint = p[2]
       /\ delivery[part[p].row].hook = p[1]
       /\ delivery[part[p].row].status = "PENDING"

DeliveriesInv == TypeOK /\ HistoryWhole

Rows(p) == {d \in DOMAIN delivery : delivery[d].hook = p[1] /\ delivery[d].endpoint = p[2]}

(* The history tells the truth: an endpoint got an event at least as often *)
(* as it says DELIVERED, at most as often as there are rows, and a crash   *)
(* makes a run repeat itself no more than BullMQ allows.                   *)
HistoryTruthful == \A p \in Hooks \X Endpoints :
  /\ Cardinality({d \in Rows(p) : delivery[d].status = "DELIVERED"}) <= received[p]
  /\ received[p] <= Cardinality(Rows(p))
  /\ Cardinality(Rows(p)) <= MaxStalled + 1

(* An owner who has switched an endpoint off, or rotated its secret, sees  *)
(* only the deliveries that were on their way: nothing new is sent to it,  *)
(* or signed with the old secret.                                          *)
OnTheirWay(p) == IF part[p].pc \in {"create", "post"} THEN 1 ELSE 0

Signing(p, old) == part[p].pc \in {"create", "post"} /\ part[p].secret = old

ChangesTakeHold ==
  [][\A ep \in DOMAIN endpoint, h \in Hooks :
       LET p == <<h, ep>>
       IN  /\ ~endpoint[ep].isActive =>
                received'[p] + OnTheirWay(p)' <= received[p] + OnTheirWay(p)
           /\ \A old \in 0 .. endpoint[ep].secret - 1 : Signing(p, old)' => Signing(p, old)]_vars

(* Every event that was announced is dealt with, whatever endpoints answer *)
(* and however workers and statements fail.                                *)
HooksEnd == \A h \in Hooks :
  (hook[h].state \in {"waiting", "active"}) ~> (hook[h].state \in {"completed", "failed"})
=============================================================================
