-------------------------- MODULE DeliveriesProofs --------------------------
(***************************************************************************)
(* Theorems about Deliveries, for every value of its constants.            *)
(***************************************************************************)
EXTENDS Deliveries, SequenceTheorems, FiniteSetTheorems, TLAPS

Parts == Hooks \X Endpoints

(* A job that is still to run has an attempt left and may stall once more. *)
HooksCount == \A h \in Hooks : hook[h].state \in {"none", "waiting", "active"} =>
  hook[h].attempts < MaxAttempts /\ hook[h].stalled <= MaxStalled

(* The inductive invariant. *)
DInv == DeliveriesInv /\ HooksCount

LEMMA InitHolds == Init => DInv
  <1> SUFFICES ASSUME Init PROVE DInv
    OBVIOUS
  <1>1. TypeOK
    <2>1. NoJob \in JobRecord
      BY QueueAssumption DEF NoJob, JobRecord
    <2>2. NoPart \in Part
      BY DeliveriesAssumption DEF NoPart, Part
    <2> QED
      BY <2>1, <2>2 DEF Init, TypeOK
  <1>2. HistoryWhole
    BY DEF Init, HistoryWhole, NoPart
  <1>3. HooksCount
    BY QueueAssumption DEF Init, HooksCount, NoJob
  <1> QED
    BY <1>1, <1>2, <1>3 DEF DInv, DeliveriesInv

-----------------------------------------------------------------------------
(* What a step does to each variable, whatever the step is.                *)
EndpointsEffect ==
  \/ UNCHANGED endpoint
  \/ \E ep \in Endpoints \ DOMAIN endpoint, row \in EndpointRow :
       endpoint' = [x \in DOMAIN endpoint \cup {ep} |-> IF x = ep THEN row ELSE endpoint[x]]
  \/ \E ep \in DOMAIN endpoint, row \in EndpointRow \cup {Gone} :
       /\ row = Gone => ~Referred(ep)
       /\ Exists(ep)
       /\ endpoint' = [endpoint EXCEPT ![ep] = row]

LEMMA EndpointsStay ==
  ASSUME TypeOK, EndpointsEffect
  PROVE  /\ DOMAIN endpoint' \subseteq Endpoints
         /\ endpoint' \in [DOMAIN endpoint' -> EndpointRow \cup {Gone}]
         /\ \A ep : Exists(ep) => Exists(ep)' \/ ~Referred(ep)
  <1>0. /\ DOMAIN endpoint \subseteq Endpoints
        /\ endpoint \in [DOMAIN endpoint -> EndpointRow \cup {Gone}]
    BY DEF TypeOK
  <1>1. CASE UNCHANGED endpoint
    BY <1>0, <1>1 DEF Exists
  <1>2. ASSUME NEW ep \in Endpoints \ DOMAIN endpoint, NEW row \in EndpointRow,
               endpoint' = [x \in DOMAIN endpoint \cup {ep} |->
                              IF x = ep THEN row ELSE endpoint[x]]
        PROVE  /\ DOMAIN endpoint' = DOMAIN endpoint \cup {ep}
               /\ endpoint' \in [DOMAIN endpoint' -> EndpointRow \cup {Gone}]
               /\ \A x \in DOMAIN endpoint : endpoint'[x] = endpoint[x]
    BY <1>0, <1>2
  <1>3. ASSUME NEW ep \in DOMAIN endpoint, NEW row \in EndpointRow \cup {Gone},
               endpoint' = [endpoint EXCEPT ![ep] = row]
        PROVE  /\ DOMAIN endpoint' = DOMAIN endpoint
               /\ endpoint' \in [DOMAIN endpoint' -> EndpointRow \cup {Gone}]
               /\ endpoint'[ep] = row
               /\ \A x \in DOMAIN endpoint \ {ep} : endpoint'[x] = endpoint[x]
    BY <1>0, <1>3
  <1>4. CASE \E ep \in Endpoints \ DOMAIN endpoint, row \in EndpointRow :
               endpoint' = [x \in DOMAIN endpoint \cup {ep} |->
                              IF x = ep THEN row ELSE endpoint[x]]
    BY <1>0, <1>2, <1>4 DEF Exists
  <1>5. CASE \E ep \in DOMAIN endpoint, row \in EndpointRow \cup {Gone} :
               /\ row = Gone => ~Referred(ep)
               /\ Exists(ep)
               /\ endpoint' = [endpoint EXCEPT ![ep] = row]
    <2>1. PICK ep \in DOMAIN endpoint, row \in EndpointRow \cup {Gone} :
            /\ row = Gone => ~Referred(ep)
            /\ endpoint' = [endpoint EXCEPT ![ep] = row]
      BY <1>5
    <2> QED
      BY <1>0, <1>3, <2>1 DEF Exists
  <1> QED
    BY <1>1, <1>4, <1>5 DEF EndpointsEffect

(* The queue: one record changes.                                          *)
HooksEffect ==
  \/ UNCHANGED hook
  \/ \E h \in Hooks :
       \/ hook' = [hook EXCEPT ![h] = Added(hook[h])]
       \/ hook[h].state = "waiting" /\ hook' = [hook EXCEPT ![h] = Started(hook[h])]
       \/ /\ hook[h].state \in {"waiting", "active"}
          /\ \E outcome \in {Completed(hook[h]), Failed(hook[h]), Stalled(hook[h])} :
               hook' = [hook EXCEPT ![h] = outcome]

RecordOk(x) ==
  x.state \in {"none", "waiting", "active"} =>
    x.attempts < MaxAttempts /\ x.stalled <= MaxStalled

LEMMA HooksStay ==
  ASSUME TypeOK, HooksCount, HooksEffect
  PROVE  hook' \in [Hooks -> JobRecord] /\ HooksCount'
  <1>0. hook \in [Hooks -> JobRecord] /\ \A h \in Hooks : RecordOk(hook[h])
    BY DEF TypeOK, HooksCount, RecordOk
  <1>1. ASSUME NEW h \in Hooks, NEW x \in JobRecord, RecordOk(x), hook' = [hook EXCEPT ![h] = x]
        PROVE  hook' \in [Hooks -> JobRecord] /\ HooksCount'
    BY <1>0, <1>1 DEF HooksCount, RecordOk
  <1>2. ASSUME NEW h \in Hooks, hook' = [hook EXCEPT ![h] = Added(hook[h])]
        PROVE  hook' \in [Hooks -> JobRecord] /\ HooksCount'
    <2>1. Added(hook[h]) \in JobRecord /\ RecordOk(Added(hook[h]))
      BY <1>0 DEF Added, JobRecord, RecordOk
    <2> QED
      BY <1>1, <1>2, <2>1
  <1>3. ASSUME NEW h \in Hooks, hook[h].state = "waiting",
               hook' = [hook EXCEPT ![h] = Started(hook[h])]
        PROVE  hook' \in [Hooks -> JobRecord] /\ HooksCount'
    <2>1. Started(hook[h]) \in JobRecord /\ RecordOk(Started(hook[h]))
      BY <1>0, <1>3 DEF Started, JobRecord, RecordOk
    <2> QED
      BY <1>1, <1>3, <2>1
  <1>4. ASSUME NEW h \in Hooks, hook[h].state \in {"waiting", "active"},
               NEW outcome \in {Completed(hook[h]), Failed(hook[h]), Stalled(hook[h])},
               hook' = [hook EXCEPT ![h] = outcome]
        PROVE  hook' \in [Hooks -> JobRecord] /\ HooksCount'
    <2>1. /\ hook[h] \in JobRecord
          /\ hook[h].attempts + 1 \in 0 .. MaxAttempts
          /\ hook[h].stalled + 1 \in 0 .. MaxStalled + 1
      BY <1>0, <1>4, QueueAssumption DEF RecordOk, JobRecord
    <2>2. outcome \in JobRecord /\ RecordOk(outcome)
      <3>1. CASE outcome = Completed(hook[h])
        BY <2>1, <3>1 DEF Completed, JobRecord, RecordOk
      <3>2. CASE outcome = Failed(hook[h])
        BY <1>0, <1>4, <2>1, <3>2 DEF Failed, JobRecord, RecordOk
      <3>3. CASE outcome = Stalled(hook[h])
        <4>1. outcome \in JobRecord
          BY <2>1, <3>3 DEF Stalled, JobRecord
        <4>2. hook[h].attempts < MaxAttempts
          BY <1>0, <1>4 DEF RecordOk
        <4> QED
          BY <2>1, <3>3, <4>1, <4>2, QueueAssumption DEF Stalled, JobRecord, RecordOk
      <3> QED
        BY <1>4, <3>1, <3>2, <3>3
    <2> QED
      BY <1>1, <1>4, <2>2
  <1> QED
    BY <1>0, <1>2, <1>3, <1>4 DEF HooksEffect, HooksCount

(* The history: no row is written, one is inserted by the run that is      *)
(* about to post, or the run that posted writes its own row and is done.   *)
Writing == {"post", "markDelivered", "markFailed"}

OwnRow(p) ==
  /\ part[p].row \in DOMAIN delivery
  /\ delivery[part[p].row].endpoint = p[2]
  /\ delivery[part[p].row].hook = p[1]
  /\ delivery[part[p].row].status = "PENDING"

Unwritten ==
  /\ UNCHANGED delivery
  /\ part' \in [Parts -> Part]
  /\ \A p \in Parts : part'[p].pc \in Writing =>
       part[p].pc \in Writing /\ part'[p].row = part[p].row

Inserts(p) ==
  /\ Exists(p[2]) /\ UNCHANGED endpoint
  /\ delivery' = Append(delivery, [endpoint |-> p[2], hook |-> p[1],
                                   status |-> "PENDING", retry |-> FALSE])
  /\ part' = [part EXCEPT ![p].pc = "post", ![p].row = Len(delivery) + 1]

Writes(p) ==
  /\ part[p].pc \in Writing
  /\ \/ delivery' = [delivery EXCEPT ![part[p].row].status = "DELIVERED"]
     \/ delivery' = MarkedFailed(p)
  /\ PartTo(p, "done")

HistoryEffect == Unwritten \/ \E p \in Parts : Inserts(p) \/ Writes(p)

LEMMA WritersOwn ==
  ASSUME DeliveriesInv, NEW p \in Parts, part[p].pc \in Writing
  PROVE  OwnRow(p)
  BY DEF DeliveriesInv, HistoryWhole, Parts, Writing, OwnRow

(* Two runs that write do not share a row.                                 *)
LEMMA RowsApart ==
  ASSUME DeliveriesInv, NEW p \in Parts, NEW q \in Parts,
         part[p].pc \in Writing, part[q].pc \in Writing, part[p].row = part[q].row
  PROVE  p = q
  <1>1. OwnRow(p) /\ OwnRow(q)
    BY WritersOwn
  <1>2. p[1] = q[1] /\ p[2] = q[2]
    BY <1>1 DEF OwnRow
  <1> QED
    BY <1>2 DEF Parts

LEMMA InsertStays ==
  ASSUME DeliveriesInv, NEW p \in Parts, Inserts(p)
  PROVE  /\ delivery' \in Seq(DeliveryRow) /\ part' \in [Parts -> Part]
         /\ \A d \in DOMAIN delivery' : Exists(delivery[d].endpoint)'
         /\ \A q \in Parts : part'[q].pc \in Writing => OwnRow(q)'
  <1>0. /\ delivery \in Seq(DeliveryRow) /\ part \in [Parts -> Part] /\ part[p] \in Part
        /\ \A d \in DOMAIN delivery : Exists(delivery[d].endpoint)
    BY DEF DeliveriesInv, TypeOK, HistoryWhole, Parts
  <1> DEFINE new == [endpoint |-> p[2], hook |-> p[1], status |-> "PENDING", retry |-> FALSE]
             n == Len(delivery) + 1
             mine == [part[p] EXCEPT !.pc = "post", !.row = n]
  <1>1. /\ new \in DeliveryRow /\ new.endpoint = p[2] /\ new.hook = p[1]
        /\ new.status = "PENDING"
    BY DEF DeliveryRow, DeliveryStatus, Parts
  <1>2. mine \in Part /\ mine.row = n
    <2>1. n \in Nat
      BY <1>0
    <2>2. PICK m \in Nat : m = n
      BY <2>1
    <2>3. mine = [part[p] EXCEPT !.pc = "post", !.row = m]
      BY <2>2
    <2> HIDE DEF mine
    <2> QED
      BY <1>0, <2>2, <2>3 DEF Part
  <1>3. delivery' = Append(delivery, new) /\ part' = [part EXCEPT ![p] = mine]
    BY <1>0 DEF Inserts
  <1> HIDE DEF new, mine
  <1>4. /\ delivery' \in Seq(DeliveryRow)
        /\ DOMAIN delivery' = DOMAIN delivery \cup {n} /\ n \notin DOMAIN delivery
        /\ delivery'[n] = new /\ \A d \in DOMAIN delivery : delivery'[d] = delivery[d]
    BY <1>0, <1>1, <1>3
  <1>5. part' \in [Parts -> Part] /\ part'[p] = mine /\ \A q \in Parts \ {p} : part'[q] = part[q]
    BY <1>0, <1>2, <1>3
  <1>6. \A d \in DOMAIN delivery' : Exists(delivery[d].endpoint)'
    BY <1>0, <1>1, <1>4 DEF Inserts, Exists
  <1>7. ASSUME NEW q \in Parts, part'[q].pc \in Writing PROVE OwnRow(q)'
    <2>1. CASE q = p
      BY <1>1, <1>2, <1>4, <1>5, <2>1 DEF OwnRow
    <2>2. CASE q # p
      <3>1. OwnRow(q)
        BY <1>5, <1>7, <2>2, WritersOwn
      <3> QED
        BY <1>4, <1>5, <2>2, <3>1 DEF OwnRow
    <2> QED
      BY <2>1, <2>2
  <1> QED
    BY <1>4, <1>5, <1>6, <1>7

LEMMA WriteStays ==
  ASSUME DeliveriesInv, NEW p \in Parts, Writes(p)
  PROVE  /\ delivery' \in Seq(DeliveryRow) /\ part' \in [Parts -> Part]
         /\ DOMAIN delivery' = DOMAIN delivery
         /\ \A d \in DOMAIN delivery : delivery'[d].endpoint = delivery[d].endpoint
         /\ \A q \in Parts : part'[q].pc \in Writing => OwnRow(q)'
  <1>0. /\ delivery \in Seq(DeliveryRow) /\ part \in [Parts -> Part] /\ part[p] \in Part
    BY DEF DeliveriesInv, TypeOK, Parts
  <1>1. PICK d \in DOMAIN delivery : d = part[p].row
    BY WritersOwn DEF Writes, OwnRow
  <1>2. delivery[d] \in DeliveryRow
    BY <1>0
  <1>3. PICK new \in DeliveryRow : /\ delivery' = [delivery EXCEPT ![d] = new]
                                   /\ new.endpoint = delivery[d].endpoint
    <2>1. CASE delivery' = [delivery EXCEPT ![part[p].row].status = "DELIVERED"]
      <3>1. PICK new : new = [delivery[d] EXCEPT !.status = "DELIVERED"]
        OBVIOUS
      <3>2. new \in DeliveryRow /\ new.endpoint = delivery[d].endpoint
        BY <1>2, <3>1 DEF DeliveryRow, DeliveryStatus
      <3>3. delivery' = [delivery EXCEPT ![d] = new]
        BY <1>1, <2>1, <3>1
      <3> QED
        BY <3>2, <3>3
    <2>2. CASE delivery' = MarkedFailed(p)
      <3>1. PICK new : new = [delivery[d] EXCEPT !.status = "FAILED", !.retry = TRUE]
        OBVIOUS
      <3>2. new \in DeliveryRow /\ new.endpoint = delivery[d].endpoint
        BY <1>2, <3>1 DEF DeliveryRow, DeliveryStatus
      <3>3. delivery' = [delivery EXCEPT ![d] = new]
        BY <1>0, <1>1, <2>2, <3>1 DEF MarkedFailed
      <3> QED
        BY <3>2, <3>3
    <2> QED
      BY <2>1, <2>2 DEF Writes
  <1>4. /\ delivery' \in Seq(DeliveryRow) /\ DOMAIN delivery' = DOMAIN delivery
        /\ \A x \in DOMAIN delivery : /\ delivery'[x].endpoint = delivery[x].endpoint
                                      /\ x # d => delivery'[x] = delivery[x]
    BY <1>0, <1>3
  <1>5. /\ part' \in [Parts -> Part] /\ part'[p].pc = "done"
        /\ \A q \in Parts \ {p} : part'[q] = part[q]
    BY <1>0 DEF Writes, PartTo, Part
  <1>6. ASSUME NEW q \in Parts, part'[q].pc \in Writing PROVE OwnRow(q)'
    <2>1. q # p /\ part'[q] = part[q] /\ part[q].pc \in Writing
      BY <1>5, <1>6 DEF Writing
    <2>2. OwnRow(q) /\ part[q].row # d
      BY <1>1, <2>1, WritersOwn, RowsApart DEF Writes
    <2> QED
      BY <1>4, <2>1, <2>2 DEF OwnRow
  <1> QED
    BY <1>4, <1>5, <1>6

LEMMA HistoryStays ==
  ASSUME DeliveriesInv, EndpointsEffect, HistoryEffect
  PROVE  /\ delivery' \in Seq(DeliveryRow) /\ part' \in [Parts -> Part]
         /\ HistoryWhole'
  <1>0. /\ delivery \in Seq(DeliveryRow)
        /\ \A d \in DOMAIN delivery : /\ Exists(delivery[d].endpoint)
                                      /\ Referred(delivery[d].endpoint)
    BY DEF DeliveriesInv, TypeOK, HistoryWhole, Referred
  <1>1. \A d \in DOMAIN delivery : \E ep : delivery[d].endpoint = ep /\ Exists(ep)'
    BY <1>0, EndpointsStay DEF DeliveriesInv
  <1>2. CASE Unwritten
    <2>1. \A d \in DOMAIN delivery' : Exists(delivery[d].endpoint)'
      BY <1>1, <1>2 DEF Unwritten, Exists
    <2>2. ASSUME NEW q \in Parts, part'[q].pc \in Writing PROVE OwnRow(q)'
      BY <1>2, <2>2, WritersOwn DEF Unwritten, OwnRow
    <2> QED
      BY <1>0, <1>2, <2>1, <2>2 DEF Unwritten, HistoryWhole, OwnRow, Writing, Parts
  <1>3. ASSUME NEW p \in Parts, Inserts(p) PROVE HistoryWhole'
    BY <1>3, InsertStays DEF HistoryWhole, OwnRow, Writing, Parts
  <1>4. ASSUME NEW p \in Parts, Writes(p) PROVE HistoryWhole'
    <2>1. \A d \in DOMAIN delivery' : Exists(delivery[d].endpoint)'
      BY <1>1, <1>4, WriteStays DEF Exists
    <2> QED
      BY <1>4, <2>1, WriteStays DEF HistoryWhole, OwnRow, Writing, Parts
  <1> QED
    BY <1>0, <1>2, <1>3, <1>4, InsertStays, WriteStays DEF HistoryEffect, Unwritten

-----------------------------------------------------------------------------
(* Every step has these effects. *)

StepEffects ==
  /\ EndpointsEffect /\ HooksEffect /\ HistoryEffect
  /\ received' \in [Parts -> Nat]
  /\ change' \in [Requests -> {NoChange} \cup Change]

LEMMA Untouched ==
  ASSUME DeliveriesInv
  PROVE  /\ UNCHANGED <<delivery, part>> => HistoryEffect
         /\ UNCHANGED received => received' \in [Parts -> Nat]
         /\ UNCHANGED change => change' \in [Requests -> {NoChange} \cup Change]
         /\ part \in [Parts -> Part]
  BY DEF DeliveriesInv, TypeOK, HistoryEffect, Unwritten, Parts

LEMMA CreateEndpointEffects ==
  ASSUME DeliveriesInv, NEW ep \in Endpoints, NEW events \in (SUBSET Events) \ {{}},
         CreateEndpoint(ep, events)
  PROVE  StepEffects
  <1>1. PICK row : row = [events |-> events, isActive |-> TRUE, secret |-> 0]
    OBVIOUS
  <1>2. row \in EndpointRow
    BY <1>1, DeliveriesAssumption DEF EndpointRow
  <1>3. EndpointsEffect
    BY <1>1, <1>2 DEF CreateEndpoint, EndpointsEffect
  <1> QED
    BY <1>3, Untouched DEF CreateEndpoint, StepEffects, HooksEffect

LEMMA AssertOwnerEffects ==
  ASSUME DeliveriesInv, NEW r \in Requests, NEW c \in Change, AssertOwner(r, c)
  PROVE  StepEffects
  <1>1. change' \in [Requests -> {NoChange} \cup Change]
    BY DEF DeliveriesInv, TypeOK, AssertOwner
  <1> QED
    BY <1>1, Untouched DEF AssertOwner, StepEffects, EndpointsEffect, HooksEffect

LEMMA ChangedIsRow ==
  ASSUME DeliveriesInv, NEW c \in Change, ~Refused(c),
         c.kind = "rotate" => endpoint[c.endpoint].secret < MaxSecret
  PROVE  /\ c.endpoint \in DOMAIN endpoint /\ Exists(c.endpoint)
         /\ Changed(c) \in EndpointRow \cup {Gone}
         /\ Changed(c) = Gone => ~Referred(c.endpoint)
  <1>1. PICK row \in EndpointRow : row = endpoint[c.endpoint]
    BY DEF DeliveriesInv, TypeOK, Refused, Exists
  <1>2. row # Gone /\ row.events # {} /\ row.secret \in 0 .. MaxSecret
    BY <1>1 DEF EndpointRow, Gone
  <1>3. CASE c.kind = "update"
    <2>1. PICK events \in (SUBSET Events) \ {{}}, active \in BOOLEAN :
            events = c.events /\ active = c.isActive
      BY <1>3 DEF Change
    <2>2. Changed(c) = [row EXCEPT !.events = events, !.isActive = active]
      BY <1>1, <1>3, <2>1 DEF Changed
    <2>3. PICK new : new = [row EXCEPT !.events = events, !.isActive = active]
      OBVIOUS
    <2>4. new \in EndpointRow /\ new.events = events
      BY <1>1, <2>1, <2>3 DEF EndpointRow
    <2>5. new # Gone
      BY <2>1, <2>4 DEF Gone
    <2> QED
      BY <2>2, <2>3, <2>4, <2>5 DEF Refused, Exists
  <1>4. CASE c.kind = "rotate"
    <2>1. PICK s \in 0 .. MaxSecret : s = row.secret + 1
      BY <1>1, <1>2, <1>4, DeliveriesAssumption
    <2>2. Changed(c) = [row EXCEPT !.secret = s]
      BY <1>1, <1>4, <2>1 DEF Changed
    <2>3. PICK new : new = [row EXCEPT !.secret = s]
      OBVIOUS
    <2>4. new \in EndpointRow /\ new.events = row.events
      BY <1>1, <2>1, <2>3 DEF EndpointRow
    <2>5. new # Gone
      BY <1>2, <2>4 DEF Gone
    <2> QED
      BY <2>2, <2>3, <2>4, <2>5 DEF Refused, Exists
  <1>5. CASE c.kind = "delete"
    BY <1>5 DEF Changed, Refused, Exists
  <1> QED
    BY <1>3, <1>4, <1>5 DEF Change

LEMMA ApplyChangeEffects ==
  ASSUME DeliveriesInv, NEW r \in Requests, ApplyChange(r)
  PROVE  StepEffects
  <1>1. PICK c \in Change : c = change[r]
    BY DEF DeliveriesInv, TypeOK, ApplyChange
  <1>2. EndpointsEffect
    <2>1. CASE Refused(c)
      BY <1>1, <2>1 DEF ApplyChange, EndpointsEffect
    <2>2. CASE ~Refused(c)
      <3>1. PICK ep \in DOMAIN endpoint, row \in EndpointRow \cup {Gone} :
              /\ ep = c.endpoint /\ row = Changed(c) /\ Exists(ep)
              /\ row = Gone => ~Referred(ep)
        BY <1>1, <2>2, ChangedIsRow DEF ApplyChange
      <3>2. endpoint' = [endpoint EXCEPT ![ep] = row]
        BY <1>1, <2>2, <3>1 DEF ApplyChange
      <3> QED
        BY <3>1, <3>2 DEF EndpointsEffect
    <2> QED
      BY <2>1, <2>2
  <1>3. change' \in [Requests -> {NoChange} \cup Change]
    BY DEF DeliveriesInv, TypeOK, ApplyChange
  <1> QED
    BY <1>2, <1>3, Untouched DEF ApplyChange, StepEffects, HooksEffect

LEMMA QueueEffects ==
  ASSUME DeliveriesInv, NEW h \in Hooks, Announce(h) \/ HookThrows(h)
  PROVE  StepEffects
  BY Untouched DEF Announce, HookThrows, StepEffects, EndpointsEffect, HooksEffect

LEMMA HookStartEffects ==
  ASSUME DeliveriesInv, NEW h \in Hooks, HookStart(h)
  PROVE  StepEffects
  <1>1. /\ part \in [Parts -> Part]
        /\ endpoint \in [DOMAIN endpoint -> EndpointRow \cup {Gone}]
    BY DEF DeliveriesInv, TypeOK, Parts
  <1>2. ASSUME NEW p \in Parts
        PROVE  \/ part'[p] = part[p]
               \/ part'[p] \in Part /\ part'[p].pc = "create"
    <2>1. part'[p] = IF p[1] = h /\ p[2] \in Targets(h)
                       THEN [pc |-> "create", secret |-> endpoint[p[2]].secret, row |-> 0]
                       ELSE part[p]
      BY DEF HookStart, Parts
    <2>2. CASE p[1] = h /\ p[2] \in Targets(h)
      <3>1. PICK s \in 0 .. MaxSecret : s = endpoint[p[2]].secret
        BY <1>1, <2>2, DeliveriesAssumption DEF Targets, Subscribed, EndpointRow, Gone
      <3> QED
        BY <2>1, <2>2, <3>1 DEF Part
    <2> QED
      BY <2>1, <2>2
  <1>3. part' \in [Parts -> Part]
    BY <1>1, <1>2 DEF HookStart, Parts
  <1>4. HistoryEffect
    BY <1>2, <1>3 DEF HookStart, HistoryEffect, Unwritten, Writing
  <1> QED
    BY <1>4, Untouched DEF HookStart, StepEffects, EndpointsEffect, HooksEffect

LEMMA RunOverEffects ==
  ASSUME DeliveriesInv, NEW h \in Hooks, HookEnds(h) \/ HookCrash(h)
  PROVE  StepEffects
  <1>1. part \in [Parts -> Part] /\ NoPart \in Part /\ NoPart.pc = "none"
    BY DeliveriesAssumption DEF DeliveriesInv, TypeOK, Parts, NoPart, Part
  <1>2. part' = [p \in Parts |-> IF p[1] = h THEN NoPart ELSE part[p]] /\ UNCHANGED delivery
    BY DEF HookEnds, HookCrash, RunOver, Parts
  <1>3. HistoryEffect
    BY <1>1, <1>2 DEF HistoryEffect, Unwritten, Writing
  <1>4. HooksEffect
    BY DEF HookEnds, HookCrash, RunOver, Running, HooksEffect
  <1> QED
    BY <1>3, <1>4, Untouched DEF HookEnds, HookCrash, RunOver, StepEffects, EndpointsEffect

LEMMA PartToMoves ==
  ASSUME DeliveriesInv, NEW p \in Parts, UNCHANGED delivery,
         NEW pc \in {"markDelivered", "markFailed", "done"}, PartTo(p, pc),
         pc # "done" => part[p].pc \in Writing
  PROVE  HistoryEffect
  <1>1. part \in [Parts -> Part] /\ part[p] \in Part
    BY DEF DeliveriesInv, TypeOK, Parts
  <1>2. PICK new : new = [part[p] EXCEPT !.pc = pc]
    OBVIOUS
  <1>3. new \in Part /\ new.row = part[p].row /\ new.pc = pc
    BY <1>1, <1>2 DEF Part
  <1>4. part' = [part EXCEPT ![p] = new]
    BY <1>2 DEF PartTo
  <1> QED
    BY <1>1, <1>3, <1>4 DEF HistoryEffect, Unwritten, Writing

LEMMA DeliverEffects ==
  ASSUME DeliveriesInv, NEW p \in Parts, DeliverStep(p)
  PROVE  StepEffects
  <1>1. CASE CreateRow(p)
    <2>1. HistoryEffect
      <3>1. CASE Inserts(p)
        BY <3>1 DEF HistoryEffect
      <3>2. CASE UNCHANGED delivery /\ PartTo(p, "done")
        BY <3>2, PartToMoves
      <3> QED
        BY <1>1, <3>1, <3>2 DEF CreateRow, Inserts
    <2> QED
      BY <1>1, <2>1, Untouched DEF CreateRow, StepEffects, EndpointsEffect, HooksEffect
  <1>2. CASE Post(p)
    <2>1. HistoryEffect
      BY <1>2, PartToMoves DEF Post, Writing
    <2>2. received \in [Parts -> Nat]
      BY DEF DeliveriesInv, TypeOK, Parts
    <2>3. received' \in {received, [received EXCEPT ![p] = received[p] + 1]}
      BY <1>2 DEF Post
    <2>4. received' \in [Parts -> Nat]
      BY <2>2, <2>3
    <2> QED
      BY <1>2, <2>1, <2>4, Untouched DEF Post, StepEffects, EndpointsEffect, HooksEffect
  <1>3. CASE MarkDelivered(p)
    <2>1. HistoryEffect
      <3>1. CASE Writes(p)
        BY <3>1 DEF HistoryEffect
      <3>2. CASE UNCHANGED delivery /\ PartTo(p, "markFailed")
        BY <1>3, <3>2, PartToMoves DEF MarkDelivered, Writing
      <3> QED
        BY <1>3, <3>1, <3>2 DEF MarkDelivered, Writes, Writing
    <2> QED
      BY <1>3, <2>1, Untouched DEF MarkDelivered, StepEffects, EndpointsEffect, HooksEffect
  <1>4. CASE MarkFailed(p)
    <2>1. HistoryEffect
      <3>1. CASE Writes(p)
        BY <3>1 DEF HistoryEffect
      <3>2. CASE UNCHANGED delivery
        BY <1>4, <3>2, PartToMoves DEF MarkFailed
      <3> QED
        BY <1>4, <3>1, <3>2 DEF MarkFailed, Writes, Writing
    <2> QED
      BY <1>4, <2>1, Untouched DEF MarkFailed, StepEffects, EndpointsEffect, HooksEffect
  <1> QED
    BY <1>1, <1>2, <1>3, <1>4 DEF DeliverStep

LEMMA NextEffects ==
  ASSUME DeliveriesInv, Next
  PROVE  StepEffects
  <1>1. ASSUME NEW h \in Hooks, HookStep(h)
        PROVE  StepEffects
    <2>1. ASSUME NEW ep \in Endpoints, DeliverStep(<<h, ep>>)
          PROVE  StepEffects
      BY <2>1, DeliverEffects DEF Parts
    <2> QED
      BY <1>1, <2>1, HookStartEffects, QueueEffects, RunOverEffects DEF HookStep
  <1> QED
    BY <1>1, CreateEndpointEffects, AssertOwnerEffects, ApplyChangeEffects, QueueEffects,
       RunOverEffects DEF Next

LEMMA StepHolds == DInv /\ [Next]_vars => DInv'
  <1>1. ASSUME DInv, StepEffects PROVE DInv'
    <2>1. /\ DOMAIN endpoint' \subseteq Endpoints
          /\ endpoint' \in [DOMAIN endpoint' -> EndpointRow \cup {Gone}]
      BY <1>1, EndpointsStay DEF DInv, DeliveriesInv, StepEffects
    <2>2. hook' \in [Hooks -> JobRecord] /\ HooksCount'
      BY <1>1, HooksStay DEF DInv, DeliveriesInv, StepEffects
    <2>3. delivery' \in Seq(DeliveryRow) /\ part' \in [Parts -> Part] /\ HistoryWhole'
      BY <1>1, HistoryStays DEF DInv, StepEffects
    <2> QED
      BY <1>1, <2>1, <2>2, <2>3 DEF DInv, DeliveriesInv, TypeOK, StepEffects, Parts
  <1>2. ASSUME DInv, UNCHANGED vars PROVE StepEffects
    BY <1>2, Untouched DEF DInv, vars, StepEffects, EndpointsEffect, HooksEffect
  <1> QED
    BY <1>1, <1>2, NextEffects DEF DInv

(* Whatever runs, crashes, failing statements and changes of endpoints     *)
(* interleave, every row of the history is about an endpoint that exists,  *)
(* and a run only ever updates the row it has inserted itself.             *)
THEOREM DeliveriesInvariant == Spec => []DeliveriesInv
  <1>1. Spec => []DInv
    BY InitHolds, StepHolds, PTL DEF Spec
  <1> QED
    BY <1>1, PTL DEF DInv

-----------------------------------------------------------------------------
(* What a step does to one delivery: it is over, it goes on, or it starts. *)

Sending == {"create", "post"}

Over(p) == /\ part'[p].pc \notin Sending
           /\ received'[p] <= received[p] + OnTheirWay(p)

GoesOn(p) == /\ part'[p].pc \in Sending /\ part[p].pc \in Sending
             /\ part'[p].secret = part[p].secret
             /\ received'[p] = received[p]

Starts(p) == /\ part'[p].pc = "create"
             /\ p[2] \in DOMAIN endpoint
             /\ endpoint[p[2]].isActive
             /\ part'[p].secret = endpoint[p[2]].secret
             /\ received'[p] = received[p]

DeliveryEffect(p) == Over(p) \/ GoesOn(p) \/ Starts(p)

LEMMA StillEffect ==
  ASSUME DeliveriesInv, NEW p \in Parts, part'[p] = part[p], received'[p] = received[p]
  PROVE  DeliveryEffect(p)
  <1>1. received[p] \in Nat
    BY DEF DeliveriesInv, TypeOK, Parts
  <1> QED
    BY <1>1 DEF DeliveryEffect, Over, GoesOn, OnTheirWay, Sending

LEMMA HookStartStarts ==
  ASSUME DeliveriesInv, NEW h \in Hooks, HookStart(h), NEW p \in Parts
  PROVE  DeliveryEffect(p)
  <1>1. CASE p[1] = h /\ p[2] \in Targets(h)
    <2>1. PICK new : new = [pc |-> "create", secret |-> endpoint[p[2]].secret, row |-> 0]
      OBVIOUS
    <2>2. part'[p] = new /\ UNCHANGED received
      BY <1>1, <2>1 DEF HookStart, Parts
    <2> QED
      BY <1>1, <2>1, <2>2 DEF DeliveryEffect, Starts, Targets, Subscribed
  <1>2. CASE ~(p[1] = h /\ p[2] \in Targets(h))
    BY <1>2, StillEffect DEF HookStart, Parts
  <1> QED
    BY <1>1, <1>2

LEMMA RunOverEnds ==
  ASSUME DeliveriesInv, NEW h \in Hooks, HookEnds(h) \/ HookCrash(h), NEW p \in Parts
  PROVE  DeliveryEffect(p)
  <1>1. /\ part' = [q \in Parts |-> IF q[1] = h THEN NoPart ELSE part[q]]
        /\ UNCHANGED received
    BY DEF HookEnds, HookCrash, RunOver, Parts
  <1>2. received[p] \in Nat
    BY DEF DeliveriesInv, TypeOK, Parts
  <1>3. CASE p[1] = h
    BY <1>1, <1>2, <1>3 DEF DeliveryEffect, Over, OnTheirWay, NoPart, Sending
  <1>4. CASE p[1] # h
    BY <1>1, <1>4, StillEffect
  <1> QED
    BY <1>3, <1>4

LEMMA DeliverGoesOn ==
  ASSUME DeliveriesInv, NEW q \in Parts, DeliverStep(q), NEW p \in Parts
  PROVE  DeliveryEffect(p)
  <1>1. /\ part \in [Parts -> Part] /\ part[q] \in Part
        /\ received \in [Parts -> Nat] /\ received[q] \in Nat
    BY DEF DeliveriesInv, TypeOK, Parts
  <1>2. /\ part'[q].secret = part[q].secret
        /\ part'[q].pc \in {"done", "post", "markDelivered", "markFailed"}
        /\ part'[q].pc = "post" => part[q].pc = "create" /\ UNCHANGED received
        /\ received' # received =>
             part[q].pc = "post" /\ received' = [received EXCEPT ![q] = received[q] + 1]
        /\ \A x \in Parts \ {q} : part'[x] = part[x]
    <2>1. \A pc : PartTo(q, pc) => /\ part'[q].pc = pc /\ part'[q].secret = part[q].secret
                                 /\ \A x \in Parts \ {q} : part'[x] = part[x]
      BY <1>1 DEF PartTo, Part
    <2>2. CASE CreateRow(q)
      <3>1. CASE PartTo(q, "done")
        BY <2>1, <2>2, <3>1 DEF CreateRow
      <3>2. CASE part' = [part EXCEPT ![q].pc = "post", ![q].row = Len(delivery) + 1]
        BY <1>1, <2>2, <3>2 DEF CreateRow, Part
      <3> QED
        BY <2>2, <3>1, <3>2 DEF CreateRow
    <2>3. CASE Post(q)
      BY <2>1, <2>3 DEF Post
    <2>4. CASE MarkDelivered(q)
      BY <2>1, <2>4 DEF MarkDelivered
    <2>5. CASE MarkFailed(q)
      BY <2>1, <2>5 DEF MarkFailed
    <2> QED
      BY <2>2, <2>3, <2>4, <2>5 DEF DeliverStep
  <1>3. CASE p # q
    BY <1>1, <1>2, <1>3, StillEffect
  <1>4. CASE p = q
    <2>1. received'[p] <= received[p] + OnTheirWay(p)
      BY <1>1, <1>2, <1>4 DEF OnTheirWay
    <2>2. CASE part'[p].pc = "post"
      BY <1>2, <1>4, <2>2 DEF DeliveryEffect, GoesOn, Sending
    <2>3. CASE part'[p].pc # "post"
      BY <1>2, <1>4, <2>1, <2>3 DEF DeliveryEffect, Over, Sending
    <2> QED
      BY <2>2, <2>3
  <1> QED
    BY <1>3, <1>4

LEMMA NextDelivers ==
  ASSUME DeliveriesInv, [Next]_vars, NEW p \in Parts
  PROVE  DeliveryEffect(p)
  <1>1. ASSUME UNCHANGED <<part, received>> PROVE DeliveryEffect(p)
    BY <1>1, StillEffect
  <1>2. ASSUME NEW h \in Hooks, HookStep(h)
        PROVE  DeliveryEffect(p)
    <2>1. ASSUME NEW ep \in Endpoints, DeliverStep(<<h, ep>>)
          PROVE  DeliveryEffect(p)
      BY <2>1, DeliverGoesOn DEF Parts
    <2>2. CASE HookThrows(h)
      BY <1>1, <2>2 DEF HookThrows
    <2> QED
      BY <1>2, <2>1, <2>2, HookStartStarts, RunOverEnds DEF HookStep
  <1>3. ASSUME NEW h \in Hooks, Announce(h) PROVE DeliveryEffect(p)
    BY <1>1, <1>3 DEF Announce
  <1>4. ASSUME NEW r \in Requests, ApplyChange(r) \/ \E c \in Change : AssertOwner(r, c)
        PROVE  DeliveryEffect(p)
    BY <1>1, <1>4 DEF ApplyChange, AssertOwner
  <1>5. ASSUME \E ep \in Endpoints, events \in (SUBSET Events) \ {{}} :
                 CreateEndpoint(ep, events)
        PROVE  DeliveryEffect(p)
    BY <1>1, <1>5 DEF CreateEndpoint
  <1>6. CASE UNCHANGED vars
    BY <1>1, <1>6 DEF vars
  <1> QED
    BY <1>2, <1>3, <1>4, <1>5, <1>6, RunOverEnds DEF Next

LEMMA EffectHolds ==
  ASSUME DeliveriesInv, NEW ep \in DOMAIN endpoint, NEW h \in Hooks, NEW p \in Parts,
         p = <<h, ep>>, DeliveryEffect(p), received'[p] \in Nat
  PROVE  /\ ~endpoint[ep].isActive =>
              received'[p] + OnTheirWay(p)' <= received[p] + OnTheirWay(p)
         /\ \A old \in 0 .. endpoint[ep].secret - 1 : Signing(p, old)' => Signing(p, old)
  <1>1. received[p] \in Nat /\ endpoint[ep].secret \in Nat /\ p[2] = ep
    BY DeliveriesAssumption DEF DeliveriesInv, TypeOK, Parts, EndpointRow, Gone
  <1>2. CASE Over(p)
    BY <1>1, <1>2 DEF Over, OnTheirWay, Signing, Sending
  <1>3. CASE GoesOn(p)
    BY <1>1, <1>3 DEF GoesOn, OnTheirWay, Signing, Sending
  <1>4. CASE Starts(p)
    <2>1. endpoint[ep].isActive /\ part'[p].secret = endpoint[ep].secret
      BY <1>1, <1>4 DEF Starts
    <2>2. ASSUME NEW old \in 0 .. endpoint[ep].secret - 1 PROVE ~Signing(p, old)'
      <3>1. old # endpoint[ep].secret
        BY <1>1
      <3> QED
        BY <2>1, <3>1 DEF Signing
    <2> QED
      BY <2>1, <2>2
  <1> QED
    BY <1>2, <1>3, <1>4 DEF DeliveryEffect

ChangeHolds ==
  \A ep \in DOMAIN endpoint, h \in Hooks :
    LET p == <<h, ep>>
    IN  /\ ~endpoint[ep].isActive =>
             received'[p] + OnTheirWay(p)' <= received[p] + OnTheirWay(p)
        /\ \A old \in 0 .. endpoint[ep].secret - 1 : Signing(p, old)' => Signing(p, old)

LEMMA StepObeys ==
  ASSUME DeliveriesInv, DeliveriesInv', [Next]_vars
  PROVE  ChangeHolds
  <1>1. SUFFICES ASSUME NEW ep \in DOMAIN endpoint, NEW h \in Hooks, NEW p \in Parts,
                        p = <<h, ep>>
                 PROVE  /\ ~endpoint[ep].isActive =>
                             received'[p] + OnTheirWay(p)' <= received[p] + OnTheirWay(p)
                        /\ \A old \in 0 .. endpoint[ep].secret - 1 :
                             Signing(p, old)' => Signing(p, old)
    BY DEF ChangeHolds, DeliveriesInv, TypeOK, Parts
  <1>2. DeliveryEffect(p) /\ received'[p] \in Nat
    BY NextDelivers DEF DeliveriesInv, TypeOK, Parts
  <1> QED
    BY <1>1, <1>2, EffectHolds

(* Once a change of an owner is in the table, no run that starts or starts *)
(* over takes the endpoint as it was: what still reaches an endpoint that  *)
(* is off, or bears a rotated secret, was on its way before.               *)
THEOREM ChangesAreObeyed == Spec => ChangesTakeHold
  <1>1. DeliveriesInv /\ DeliveriesInv' /\ [Next]_vars => [ChangeHolds]_vars
    BY StepObeys
  <1> QED
    BY <1>1, DeliveriesInvariant, PTL DEF Spec, ChangesTakeHold, ChangeHolds

-----------------------------------------------------------------------------
(* The history is counted: what it says of an endpoint, and how often the  *)
(* endpoint and BullMQ were asked.                                         *)
Delivered(p) == {d \in Rows(p) : delivery[d].status = "DELIVERED"}

One(condition) == IF condition THEN 1 ELSE 0

(* A POST that was accepted is written down after it was received, and a   *)
(* row precedes the POST.                                                  *)
RowsCount(p) ==
  /\ Cardinality(Delivered(p)) + One(part[p].pc = "markDelivered") <= received[p]
  /\ received[p] + One(part[p].pc = "post") <= Cardinality(Rows(p))

(* A run inserts one row at most, and starts over only when it stalled.    *)
RunsCount(p) ==
  LET x == hook[p[1]]
  IN  /\ x.state \in {"none", "waiting", "failed"} => Cardinality(Rows(p)) <= x.stalled
      /\ x.state \in {"active", "completed"} =>
           /\ Cardinality(Rows(p)) + One(part[p].pc = "create") <= x.stalled + 1
           /\ x.stalled <= MaxStalled
      /\ part[p].pc # "none" => x.state = "active"

HistoryCounted == \A p \in Parts : RowsCount(p) /\ RunsCount(p)

LEMMA RowsAreFinite ==
  ASSUME TypeOK, NEW p
  PROVE  /\ IsFiniteSet(Rows(p)) /\ Cardinality(Rows(p)) \in Nat
         /\ IsFiniteSet(Delivered(p)) /\ Cardinality(Delivered(p)) \in Nat
  <1>1. IsFiniteSet(DOMAIN delivery)
    <2>1. Len(delivery) \in Nat /\ DOMAIN delivery = 1 .. Len(delivery)
      BY DEF TypeOK
    <2> QED
      BY <2>1, FS_Interval
  <1>2. IsFiniteSet(Rows(p))
    BY <1>1, FS_Subset DEF Rows
  <1>3. IsFiniteSet(Delivered(p))
    BY <1>2, FS_Subset DEF Delivered
  <1> QED
    BY <1>2, <1>3, FS_CardinalityType

SameRows(p) == Rows(p)' = Rows(p) /\ Delivered(p)' = Delivered(p)

LEMMA NoInsert ==
  ASSUME UNCHANGED delivery, NEW p
  PROVE  SameRows(p)
  BY DEF SameRows, Rows, Delivered

LEMMA InsertCounts ==
  ASSUME DeliveriesInv, NEW q \in Parts, Inserts(q), NEW p \in Parts
  PROVE  /\ Delivered(p)' = Delivered(p)
         /\ p # q => Rows(p)' = Rows(p)
         /\ p = q => Cardinality(Rows(p)') = Cardinality(Rows(p)) + 1
  <1>0. delivery \in Seq(DeliveryRow)
    BY DEF DeliveriesInv, TypeOK
  <1> DEFINE new == [endpoint |-> q[2], hook |-> q[1], status |-> "PENDING", retry |-> FALSE]
             n == Len(delivery) + 1
  <1>1. delivery' = Append(delivery, new)
    BY DEF Inserts
  <1>2. new.endpoint = q[2] /\ new.hook = q[1] /\ new.status = "PENDING"
    OBVIOUS
  <1> HIDE DEF new
  <1>3. /\ DOMAIN delivery' = DOMAIN delivery \cup {n} /\ n \notin DOMAIN delivery
        /\ delivery'[n] = new /\ \A d \in DOMAIN delivery : delivery'[d] = delivery[d]
    BY <1>0, <1>1
  <1> HIDE DEF n
  <1>4. p # q => ~(q[1] = p[1] /\ q[2] = p[2])
    BY DEF Parts
  <1>5. Delivered(p)' = Delivered(p)
    BY <1>2, <1>3 DEF Delivered, Rows
  <1>6. p # q => Rows(p)' = Rows(p)
    BY <1>2, <1>3, <1>4 DEF Rows
  <1>7. ASSUME p = q PROVE Cardinality(Rows(p)') = Cardinality(Rows(p)) + 1
    <2>1. Rows(p)' = Rows(p) \cup {n} /\ n \notin Rows(p)
      BY <1>2, <1>3, <1>7 DEF Rows
    <2>2. IsFiniteSet(Rows(p))
      BY RowsAreFinite DEF DeliveriesInv
    <2> QED
      BY <2>1, <2>2, FS_AddElement
  <1> QED
    BY <1>5, <1>6, <1>7

(* The update of a run's own row.                                          *)
LEMMA WriteCounts ==
  ASSUME DeliveriesInv, NEW q \in Parts, Writes(q), NEW p \in Parts
  PROVE  /\ Rows(p)' = Rows(p)
         /\ p # q => Delivered(p)' = Delivered(p)
         /\ delivery' = MarkedFailed(q) => Delivered(p)' = Delivered(p)
         /\ Cardinality(Delivered(p)') <= Cardinality(Delivered(p)) + 1
  <1>0. delivery \in Seq(DeliveryRow)
    BY DEF DeliveriesInv, TypeOK
  <1>1. OwnRow(q)
    BY WritersOwn DEF Writes
  <1>2. PICK d \in DOMAIN delivery : d = part[q].row
    BY <1>1 DEF OwnRow
  <1>3. /\ delivery[d].endpoint = q[2] /\ delivery[d].hook = q[1] /\ delivery[d].status = "PENDING"
        /\ delivery[d] \in DeliveryRow
    BY <1>0, <1>1, <1>2 DEF OwnRow
  <1>4. /\ DOMAIN delivery' = DOMAIN delivery
        /\ \A x \in DOMAIN delivery : x # d => delivery'[x] = delivery[x]
        /\ delivery'[d].endpoint = q[2] /\ delivery'[d].hook = q[1]
        /\ delivery' = MarkedFailed(q) => delivery'[d].status = "FAILED"
    <2>1. CASE delivery' = [delivery EXCEPT ![part[q].row].status = "DELIVERED"]
      <3>1. delivery' = [delivery EXCEPT ![d] = [delivery[d] EXCEPT !.status = "DELIVERED"]]
        BY <1>2, <2>1
      <3>2. /\ DOMAIN delivery' = DOMAIN delivery
            /\ \A x \in DOMAIN delivery : x # d => delivery'[x] = delivery[x]
            /\ delivery'[d] = [delivery[d] EXCEPT !.status = "DELIVERED"]
        BY <1>0, <3>1
      <3>3. delivery'[d].endpoint = q[2] /\ delivery'[d].hook = q[1]
        BY <1>3, <3>2 DEF DeliveryRow
      <3>4. delivery' = MarkedFailed(q) => delivery'[d].status = "FAILED"
        BY <1>0, <1>2, <1>3 DEF MarkedFailed, DeliveryRow
      <3> QED
        BY <3>2, <3>3, <3>4
    <2>2. CASE delivery' = MarkedFailed(q)
      <3>1. delivery' = [delivery EXCEPT ![d] =
                           [delivery[d] EXCEPT !.status = "FAILED", !.retry = TRUE]]
        BY <1>0, <1>2, <2>2 DEF MarkedFailed
      <3>2. /\ DOMAIN delivery' = DOMAIN delivery
            /\ \A x \in DOMAIN delivery : x # d => delivery'[x] = delivery[x]
            /\ delivery'[d] = [delivery[d] EXCEPT !.status = "FAILED", !.retry = TRUE]
        BY <1>0, <3>1
      <3> QED
        BY <1>3, <3>2 DEF DeliveryRow
    <2> QED
      BY <2>1, <2>2 DEF Writes
  <1>5. Rows(p)' = Rows(p)
    BY <1>3, <1>4 DEF Rows
  <1>6. p # q => Delivered(p)' = Delivered(p)
    <2>1. p # q => ~(q[1] = p[1] /\ q[2] = p[2])
      BY DEF Parts
    <2> QED
      BY <1>3, <1>4, <1>5, <2>1 DEF Delivered, Rows
  <1>7. delivery' = MarkedFailed(q) => Delivered(p)' = Delivered(p)
    BY <1>3, <1>4, <1>5 DEF Delivered, Rows
  <1>8. Cardinality(Delivered(p)') <= Cardinality(Delivered(p)) + 1
    <2>1. Delivered(p)' \subseteq Delivered(p) \cup {d}
      BY <1>4, <1>5 DEF Delivered, Rows
    <2>2. IsFiniteSet(Delivered(p)) /\ Cardinality(Delivered(p)) \in Nat
      BY RowsAreFinite DEF DeliveriesInv
    <2>3. /\ IsFiniteSet(Delivered(p) \cup {d})
          /\ Cardinality(Delivered(p) \cup {d}) \in Nat
          /\ Cardinality(Delivered(p) \cup {d}) <= Cardinality(Delivered(p)) + 1
      <3> DEFINE grown == Delivered(p) \cup {d}
      <3>1. /\ IsFiniteSet(grown)
            /\ Cardinality(grown) = IF d \in Delivered(p) THEN Cardinality(Delivered(p))
                                                          ELSE Cardinality(Delivered(p)) + 1
        BY <2>2, FS_AddElement
      <3> HIDE DEF grown
      <3>2. Cardinality(grown) \in Nat /\ Cardinality(grown) <= Cardinality(Delivered(p)) + 1
        BY <2>2, <3>1
      <3> QED
        BY <3>1, <3>2 DEF grown
    <2>4. /\ Cardinality(Delivered(p)') <= Cardinality(Delivered(p) \cup {d})
          /\ IsFiniteSet(Delivered(p)')
      BY <2>1, <2>3, FS_Subset
    <2>5. Cardinality(Delivered(p)') \in Nat
      BY <2>4, FS_CardinalityType
    <2> QED
      BY <2>2, <2>3, <2>4, <2>5
  <1> QED
    BY <1>5, <1>6, <1>7, <1>8

-----------------------------------------------------------------------------
(* What a step does to the counts of one delivery and of its run.          *)
Counted(p) == RowsCount(p) /\ RunsCount(p)

CountTypes(p) ==
  /\ part[p] \in Part /\ received[p] \in Nat
  /\ Cardinality(Rows(p)) \in Nat /\ Cardinality(Delivered(p)) \in Nat
  /\ hook[p[1]] \in JobRecord

LEMMA CountsAreNumbers ==
  ASSUME TypeOK, NEW p \in Parts
  PROVE  CountTypes(p)
  BY RowsAreFinite DEF TypeOK, Parts, CountTypes

SameHook(p) == hook'[p[1]] = hook[p[1]]

SamePart(p) == part'[p] = part[p] /\ received'[p] = received[p]

LEMMA StillCounted ==
  ASSUME NEW p, Counted(p), SameRows(p), SameHook(p), SamePart(p)
  PROVE  Counted(p)'
  BY DEF Counted, RowsCount, RunsCount, SameRows, SameHook, SamePart, One

(* The job is announced, or another job's record changes.                  *)
LEMMA AnnounceCounted ==
  ASSUME DInv, HistoryCounted, NEW h \in Hooks, Announce(h), NEW p \in Parts
  PROVE  Counted(p)'
  <1>1. Counted(p) /\ SameRows(p) /\ SamePart(p) /\ CountTypes(p)
    BY NoInsert, CountsAreNumbers
       DEF DInv, DeliveriesInv, HistoryCounted, Counted, Announce, SamePart
  <1>2. hook' = [hook EXCEPT ![h] = Added(hook[h])] /\ hook \in [Hooks -> JobRecord]
    BY DEF Announce, DInv, DeliveriesInv, TypeOK
  <1>3. CASE p[1] # h \/ hook[h].state # "none"
    BY <1>1, <1>2, <1>3, StillCounted DEF SameHook, Added, Parts
  <1>4. CASE p[1] = h /\ hook[h].state = "none"
    <2>1. hook'[p[1]] = [hook[p[1]] EXCEPT !.state = "waiting"]
      BY <1>2, <1>4 DEF Added
    <2>2. hook'[p[1]].state = "waiting" /\ hook'[p[1]].stalled = hook[p[1]].stalled
      BY <1>1, <2>1 DEF CountTypes, JobRecord
    <2> QED
      BY <1>1, <1>4, <2>2 DEF Counted, RowsCount, RunsCount, SameRows, SamePart, One
  <1> QED
    BY <1>3, <1>4

LEMMA ThrowsCounted ==
  ASSUME DInv, HistoryCounted, NEW h \in Hooks, HookThrows(h), NEW p \in Parts
  PROVE  Counted(p)'
  <1>1. Counted(p) /\ SameRows(p) /\ SamePart(p) /\ CountTypes(p)
    BY NoInsert, CountsAreNumbers
       DEF DInv, DeliveriesInv, HistoryCounted, Counted, HookThrows, SamePart
  <1>2. /\ hook' = [hook EXCEPT ![h] = Failed(hook[h])] /\ hook \in [Hooks -> JobRecord]
        /\ hook[h].state = "waiting"
    BY DEF HookThrows, DInv, DeliveriesInv, TypeOK
  <1>3. CASE p[1] # h
    BY <1>1, <1>2, <1>3, StillCounted DEF SameHook, Parts
  <1>4. CASE p[1] = h
    <2>1. /\ hook'[p[1]].state \in {"waiting", "failed"}
          /\ hook'[p[1]].stalled = hook[p[1]].stalled
      BY <1>1, <1>2, <1>4 DEF CountTypes, JobRecord, Failed
    <2> QED
      BY <1>1, <1>2, <1>4, <2>1 DEF Counted, RowsCount, RunsCount, SameRows, SamePart, One
  <1> QED
    BY <1>3, <1>4

(* A run starts: it may insert one row for each of its targets.            *)
LEMMA StartCounted ==
  ASSUME DInv, HistoryCounted, NEW h \in Hooks, HookStart(h), NEW p \in Parts
  PROVE  Counted(p)'
  <1>1. Counted(p) /\ SameRows(p) /\ received'[p] = received[p] /\ CountTypes(p)
    BY NoInsert, CountsAreNumbers
       DEF DInv, DeliveriesInv, HistoryCounted, Counted, HookStart
  <1>2. /\ hook' = [hook EXCEPT ![h] = Started(hook[h])] /\ hook \in [Hooks -> JobRecord]
        /\ hook[h].state = "waiting" /\ hook[h].stalled <= MaxStalled
    BY DEF HookStart, DInv, DeliveriesInv, TypeOK, HooksCount
  <1>3. part'[p] = IF p[1] = h /\ p[2] \in Targets(h)
                     THEN [pc |-> "create", secret |-> endpoint[p[2]].secret, row |-> 0]
                     ELSE part[p]
    BY DEF HookStart, Parts
  <1>4. CASE p[1] # h
    BY <1>1, <1>2, <1>3, <1>4, StillCounted DEF SameHook, SamePart, Parts
  <1>5. CASE p[1] = h
    <2>1. hook'[p[1]].state = "active" /\ hook'[p[1]].stalled = hook[p[1]].stalled
      BY <1>1, <1>2, <1>5 DEF CountTypes, JobRecord, Started
    <2>2. part[p].pc = "none" /\ part'[p].pc \in {"none", "create"}
      BY <1>1, <1>2, <1>3, <1>5 DEF Counted, RunsCount
    <2>3. RowsCount(p)'
      BY <1>1, <2>2 DEF Counted, RowsCount, SameRows, One
    <2>4. /\ Cardinality(Rows(p)) <= hook[p[1]].stalled /\ hook[p[1]].stalled \in Nat
      BY <1>1, <1>2, <1>5 DEF Counted, RunsCount, CountTypes, JobRecord
    <2>5. RunsCount(p)'
      BY <1>1, <1>2, <1>5, <2>1, <2>2, <2>4 DEF RunsCount, SameRows, One, CountTypes
    <2> QED
      BY <2>3, <2>5 DEF Counted
  <1> QED
    BY <1>4, <1>5

(* The run is over: every delivery of it is done, or it died and is        *)
(* counted among the job's stalls.                                         *)
LEMMA OverCounted ==
  ASSUME DInv, HistoryCounted, NEW h \in Hooks, HookEnds(h) \/ HookCrash(h), NEW p \in Parts
  PROVE  Counted(p)'
  <1>1. Counted(p) /\ SameRows(p) /\ received'[p] = received[p] /\ CountTypes(p)
    BY NoInsert, CountsAreNumbers
       DEF DInv, DeliveriesInv, HistoryCounted, Counted, HookEnds, HookCrash, RunOver
  <1>2. /\ hook' \in {[hook EXCEPT ![h] = Completed(hook[h])], [hook EXCEPT ![h] = Stalled(hook[h])]}
        /\ hook \in [Hooks -> JobRecord] /\ hook[h].state = "active"
    BY DEF HookEnds, HookCrash, RunOver, Running, DInv, DeliveriesInv, TypeOK
  <1>3. part'[p] = IF p[1] = h THEN NoPart ELSE part[p]
    BY DEF HookEnds, HookCrash, RunOver, Parts
  <1>4. CASE p[1] # h
    BY <1>1, <1>2, <1>3, <1>4, StillCounted DEF SameHook, SamePart, Parts
  <1>5. CASE p[1] = h
    <2>1. part'[p].pc = "none"
      BY <1>3, <1>5 DEF NoPart
    <2>2. RowsCount(p)'
      BY <1>1, <2>1 DEF Counted, RowsCount, SameRows, One, CountTypes
    <2>3. /\ Cardinality(Rows(p)) <= hook[p[1]].stalled + 1 /\ hook[p[1]].stalled \in Nat
          /\ hook[p[1]].stalled <= MaxStalled
      BY <1>1, <1>2, <1>5 DEF Counted, RunsCount, CountTypes, JobRecord, One
    <2>4. CASE hook' = [hook EXCEPT ![h] = Completed(hook[h])]
      <3>1. hook'[p[1]].state = "completed" /\ hook'[p[1]].stalled = hook[p[1]].stalled
        BY <1>1, <1>2, <1>5, <2>4 DEF CountTypes, JobRecord, Completed
      <3> QED
        BY <1>1, <2>1, <2>2, <2>3, <3>1 DEF Counted, RunsCount, SameRows, One, CountTypes
    <2>5. CASE hook' = [hook EXCEPT ![h] = Stalled(hook[h])]
      <3>1. /\ hook'[p[1]].state \in {"waiting", "failed"}
            /\ hook'[p[1]].stalled = hook[p[1]].stalled + 1
        BY <1>1, <1>2, <1>5, <2>5 DEF CountTypes, JobRecord, Stalled
      <3> QED
        BY <1>1, <2>1, <2>2, <2>3, <3>1 DEF Counted, RunsCount, SameRows, One, CountTypes
    <2> QED
      BY <1>2, <2>4, <2>5
  <1> QED
    BY <1>4, <1>5

-----------------------------------------------------------------------------
(* The steps of one delivery.                                              *)
LEMMA RunningParts ==
  ASSUME DInv, HistoryCounted, NEW q \in Parts, part[q].pc # "none"
  PROVE  hook[q[1]].state = "active"
  BY DEF HistoryCounted, RunsCount

LEMMA OtherCounted ==
  ASSUME DInv, HistoryCounted, NEW q \in Parts, DeliverStep(q), NEW p \in Parts, p # q
  PROVE  Counted(p)'
  <1>1. Counted(p) /\ UNCHANGED hook
    BY DEF HistoryCounted, Counted, DeliverStep, CreateRow, Post, MarkDelivered, MarkFailed
  <1>2. SamePart(p)
    BY DEF DeliverStep, CreateRow, Post, MarkDelivered, MarkFailed, PartTo, SamePart,
           DInv, DeliveriesInv, TypeOK, Parts
  <1>3. SameRows(p)
    <2>1. CASE UNCHANGED delivery
      BY <2>1, NoInsert
    <2>2. CASE Inserts(q)
      BY <2>2, InsertCounts DEF SameRows, DInv
    <2>3. CASE Writes(q)
      BY <2>3, WriteCounts DEF SameRows, DInv
    <2> QED
      BY <2>1, <2>2, <2>3
         DEF DeliverStep, CreateRow, Post, MarkDelivered, MarkFailed, Inserts, Writes, Writing
  <1> QED
    BY <1>1, <1>2, <1>3, StillCounted DEF SameHook

LEMMA CreateCounted ==
  ASSUME DInv, HistoryCounted, NEW p \in Parts, CreateRow(p)
  PROVE  Counted(p)'
  <1>1. /\ Counted(p) /\ CountTypes(p) /\ part[p].pc = "create"
        /\ UNCHANGED <<hook, received>> /\ part \in [Parts -> Part]
    BY CountsAreNumbers
       DEF DInv, DeliveriesInv, HistoryCounted, Counted, CreateRow, TypeOK, Parts
  <1>2. /\ Cardinality(Delivered(p)) <= received[p] /\ received[p] <= Cardinality(Rows(p))
        /\ Cardinality(Rows(p)) + 1 <= hook[p[1]].stalled + 1
        /\ hook[p[1]].state = "active" /\ hook[p[1]].stalled <= MaxStalled
        /\ hook[p[1]].stalled \in Nat
    BY <1>1, RunningParts DEF Counted, RowsCount, RunsCount, One, CountTypes, JobRecord
  <1>3. CASE Inserts(p)
    <2>1. part'[p].pc = "post"
      BY <1>1, <1>3 DEF Inserts, Part
    <2>2. /\ Cardinality(Rows(p)') = Cardinality(Rows(p)) + 1
          /\ Delivered(p)' = Delivered(p)
      BY <1>3, InsertCounts DEF DInv
    <2> QED
      BY <1>1, <1>2, <2>1, <2>2 DEF Counted, RowsCount, RunsCount, One, CountTypes
  <1>4. CASE UNCHANGED delivery /\ PartTo(p, "done")
    <2>1. part'[p].pc = "done"
      BY <1>1, <1>4 DEF PartTo, Part
    <2>2. SameRows(p)
      BY <1>4, NoInsert
    <2> QED
      BY <1>1, <1>2, <2>1, <2>2 DEF Counted, RowsCount, RunsCount, One, CountTypes, SameRows
  <1> QED
    BY <1>3, <1>4 DEF CreateRow, Inserts

LEMMA PostCounted ==
  ASSUME DInv, HistoryCounted, NEW p \in Parts, Post(p)
  PROVE  Counted(p)'
  <1>1. /\ Counted(p) /\ CountTypes(p) /\ part[p].pc = "post" /\ SameRows(p)
        /\ UNCHANGED hook /\ part \in [Parts -> Part] /\ received \in [Parts -> Nat]
    BY CountsAreNumbers, NoInsert
       DEF DInv, DeliveriesInv, HistoryCounted, Counted, Post, TypeOK, Parts
  <1>2. /\ Cardinality(Delivered(p)) <= received[p] /\ received[p] + 1 <= Cardinality(Rows(p))
        /\ Cardinality(Rows(p)) <= hook[p[1]].stalled + 1
        /\ hook[p[1]].state = "active" /\ hook[p[1]].stalled <= MaxStalled
        /\ hook[p[1]].stalled \in Nat
    BY <1>1, RunningParts DEF Counted, RowsCount, RunsCount, One, CountTypes, JobRecord
  <1>3. \/ received'[p] = received[p] + 1 /\ part'[p].pc = "markDelivered"
        \/ received'[p] \in {received[p], received[p] + 1} /\ part'[p].pc = "markFailed"
    BY <1>1 DEF Post, PartTo, Part
  <1> QED
    BY <1>1, <1>2, <1>3 DEF Counted, RowsCount, RunsCount, One, CountTypes, SameRows

AllNumbers == \A p \in Parts : CountTypes(p)

LEMMA NumbersHold == TypeOK' => AllNumbers'
  <1>1. TypeOK => AllNumbers
    BY CountsAreNumbers DEF AllNumbers
  <1> QED
    BY <1>1, PTL

LEMMA MarkCounted ==
  ASSUME DInv, HistoryCounted, NEW p \in Parts, MarkDelivered(p) \/ MarkFailed(p)
  PROVE  Counted(p)'
  <1>1. /\ Counted(p) /\ CountTypes(p) /\ part[p].pc \in {"markDelivered", "markFailed"}
        /\ UNCHANGED <<hook, received>> /\ part \in [Parts -> Part]
        /\ CountTypes(p)'
    <2>1. DeliveriesInv'
      <3>1. PICK h \in Hooks, ep \in Endpoints : p = <<h, ep>>
        BY DEF Parts
      <3>2. DeliverStep(<<h, ep>>)
        BY <3>1 DEF DeliverStep
      <3>3. Next
        BY <3>2 DEF Next, HookStep
      <3> QED
        BY <3>3, StepHolds DEF DInv
    <2>2. CountTypes(p)'
      BY <2>1, NumbersHold DEF DeliveriesInv, AllNumbers
    <2> QED
      BY <2>2, CountsAreNumbers
         DEF DInv, DeliveriesInv, HistoryCounted, Counted, MarkDelivered, MarkFailed, TypeOK, Parts
  <1>2. /\ Cardinality(Delivered(p)) + One(part[p].pc = "markDelivered") <= received[p]
        /\ received[p] <= Cardinality(Rows(p))
        /\ Cardinality(Rows(p)) <= hook[p[1]].stalled + 1
        /\ hook[p[1]].state = "active" /\ hook[p[1]].stalled <= MaxStalled
        /\ hook[p[1]].stalled \in Nat
    BY <1>1, RunningParts DEF Counted, RowsCount, RunsCount, One, CountTypes, JobRecord
  <1>3. part'[p].pc \in {"markFailed", "done"}
    BY <1>1 DEF MarkDelivered, MarkFailed, PartTo, Part
  <1>4. CASE UNCHANGED delivery
    <2>1. SameRows(p)
      BY <1>4, NoInsert
    <2> QED
      BY <1>1, <1>2, <1>3, <2>1 DEF Counted, RowsCount, RunsCount, One, CountTypes, SameRows
  <1>5. CASE Writes(p)
    <2>1. /\ Rows(p)' = Rows(p)
          /\ delivery' = MarkedFailed(p) => Delivered(p)' = Delivered(p)
          /\ Cardinality(Delivered(p)') <= Cardinality(Delivered(p)) + 1
      BY <1>5, WriteCounts DEF DInv
    <2>2. Cardinality(Delivered(p)') <= received[p]
      <3>1. CASE part[p].pc = "markDelivered"
        BY <1>1, <1>2, <2>1, <3>1 DEF One, CountTypes
      <3>2. CASE part[p].pc # "markDelivered"
        <4>1. Delivered(p)' = Delivered(p)
          BY <1>4, <2>1, <3>2, NoInsert DEF MarkDelivered, MarkFailed, SameRows
        <4> QED
          BY <1>1, <1>2, <4>1, <3>2 DEF One, CountTypes
      <3> QED
        BY <3>1, <3>2
    <2> QED
      BY <1>1, <1>2, <1>3, <2>1, <2>2 DEF Counted, RowsCount, RunsCount, One, CountTypes
  <1> QED
    BY <1>4, <1>5 DEF MarkDelivered, MarkFailed, Writes, Writing

LEMMA NextCounted == DInv /\ HistoryCounted /\ [Next]_vars => HistoryCounted'
  <1> SUFFICES ASSUME DInv, HistoryCounted, [Next]_vars, NEW p \in Parts
               PROVE  Counted(p)'
    BY DEF HistoryCounted, Counted, Parts
  <1>1. ASSUME UNCHANGED <<delivery, hook, part, received>> PROVE Counted(p)'
    BY <1>1, StillCounted, NoInsert DEF SameHook, SamePart, HistoryCounted, Counted
  <1>2. ASSUME NEW h \in Hooks, HookStep(h) PROVE Counted(p)'
    <2>1. ASSUME NEW ep \in Endpoints, DeliverStep(<<h, ep>>) PROVE Counted(p)'
      <3>1. CASE p # <<h, ep>>
        BY <2>1, <3>1, OtherCounted DEF Parts
      <3>2. CASE p = <<h, ep>>
        BY <2>1, <3>2, CreateCounted, PostCounted, MarkCounted DEF DeliverStep
      <3> QED
        BY <3>1, <3>2
    <2> QED
      BY <1>2, <2>1, StartCounted, ThrowsCounted, OverCounted DEF HookStep
  <1>3. ASSUME NEW r \in Requests, ApplyChange(r) \/ \E c \in Change : AssertOwner(r, c)
        PROVE  Counted(p)'
    BY <1>1, <1>3 DEF ApplyChange, AssertOwner
  <1>4. ASSUME \E ep \in Endpoints, events \in (SUBSET Events) \ {{}} :
                 CreateEndpoint(ep, events)
        PROVE  Counted(p)'
    BY <1>1, <1>4 DEF CreateEndpoint
  <1>5. CASE UNCHANGED vars
    BY <1>1, <1>5 DEF vars
  <1> QED
    BY <1>2, <1>3, <1>4, <1>5, AnnounceCounted, OverCounted DEF Next

LEMMA InitCounted == Init => HistoryCounted
  <1> SUFFICES ASSUME Init, NEW p \in Parts PROVE Counted(p)
    BY DEF HistoryCounted, Counted
  <1>1. /\ hook[p[1]].state = "none" /\ hook[p[1]].stalled = 0
        /\ part[p].pc = "none" /\ received[p] = 0
    BY DEF Init, Parts, NoJob, NoPart
  <1>2. Rows(p) = {} /\ Delivered(p) = {}
    BY DEF Init, Rows, Delivered
  <1> QED
    BY <1>1, <1>2, FS_EmptySet DEF Counted, RowsCount, RunsCount, One

LEMMA CountedIsTruthful == DInv /\ HistoryCounted => HistoryTruthful
  <1> SUFFICES ASSUME DInv, HistoryCounted, NEW p \in Parts
               PROVE  /\ Cardinality(Delivered(p)) <= received[p]
                      /\ received[p] <= Cardinality(Rows(p))
                      /\ Cardinality(Rows(p)) <= MaxStalled + 1
    BY DEF HistoryTruthful, Delivered, Parts
  <1>1. Counted(p) /\ CountTypes(p) /\ hook[p[1]].stalled \in 0 .. MaxStalled + 1
    BY CountsAreNumbers DEF DInv, DeliveriesInv, HistoryCounted, Counted, CountTypes, JobRecord
  <1>2. hook[p[1]].state \in {"none", "waiting", "active", "completed", "failed"}
    BY <1>1 DEF CountTypes, JobRecord
  <1> QED
    BY <1>1, <1>2, QueueAssumption DEF Counted, RowsCount, RunsCount, CountTypes, One

(* Whatever is lost, fails or starts over, an endpoint got an event at     *)
(* least as often as its history says DELIVERED and at most as often as    *)
(* the history has rows, and the rows are no more than BullMQ's runs.      *)
THEOREM HistoryIsTruthful == Spec => []HistoryTruthful
  <1>1. Spec => [](DInv /\ HistoryCounted)
    BY InitHolds, StepHolds, InitCounted, NextCounted, PTL DEF Spec
  <1> QED
    BY <1>1, CountedIsTruthful, PTL
=============================================================================
