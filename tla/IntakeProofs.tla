--------------------------- MODULE IntakeProofs ----------------------------
(***************************************************************************)
(* What holds of what is observed and reported, for every set of agents,   *)
(* turns, records, calls, observers, machines and events, and for every    *)
(* number of faults.  For each of the six components an inductive          *)
(* invariant, that the initial states have it and every action keeps it,   *)
(* and what follows from it; the theorems at the end are about the         *)
(* composition of Intake.                                                  *)
(***************************************************************************)
EXTENDS Intake, FiniteSetTheorems, TLAPS

-----------------------------------------------------------------------------
(* The notification registration (installer.py).                               *)

NTyped == art \in [N!Files -> {"none", "ours", "theirs"}]

\* The shortcut and the record stay, whatever becomes of the receipt.
LEMMA ArtifactsStay ==
    ASSUME NTyped, UNCHANGED art
    PROVE  NTyped' /\ N!ForeignIsKept
  BY DEF NTyped, N!ForeignIsKept

\* The helper that registers fills only what is empty.
LEMMA RegisterKeeps ==
    ASSUME NTyped, NEW answer \in {"CONFLICT", "NO_EFFECT", "UNKNOWN", "REGISTERED"},
           N!_run_register(answer)
    PROVE  NTyped' /\ N!ForeignIsKept
<1>1. CASE answer \in {"CONFLICT", "NO_EFFECT"}
  <2>1. UNCHANGED art
    BY <1>1 DEF N!_run_register
  <2> QED BY <2>1, ArtifactsStay
<1>2. CASE answer = "UNKNOWN"
  <2>1. PICK made \in SUBSET N!Files :
            art' = [f \in N!Files |-> IF f \in made /\ art[f] = "none" THEN "ours" ELSE art[f]]
    BY <1>2 DEF N!_run_register
  <2> QED BY <2>1 DEF NTyped, N!ForeignIsKept
<1>3. CASE answer = "REGISTERED"
  <2>1. art = N!Nothing /\ art' = [f \in N!Files |-> "ours"]
    BY <1>3 DEF N!_run_register
  <2> QED BY <2>1 DEF NTyped, N!ForeignIsKept, N!Nothing
<1> QED BY <1>1, <1>2, <1>3

\* The helper that unregisters refuses both files when one of them is not ours.
LEMMA UnregisterKeeps ==
    ASSUME NTyped, NEW answer \in {"REMOVED", "UNKNOWN"}, N!_run_unregister(answer)
    PROVE  NTyped' /\ N!ForeignIsKept
<1>1. CASE answer = "REMOVED" /\ \A f \in N!Files : art[f] # "theirs"
  <2>1. art' = N!Nothing
    BY <1>1 DEF N!_run_unregister
  <2> QED BY <1>1, <2>1 DEF NTyped, N!ForeignIsKept, N!Nothing
<1>2. CASE answer = "REMOVED" /\ \E f \in N!Files : art[f] = "theirs"
  <2>1. UNCHANGED art
    BY <1>2 DEF N!_run_unregister
  <2> QED BY <2>1, ArtifactsStay
<1>3. CASE answer = "UNKNOWN"
  <2>1. PICK gone \in SUBSET {f \in N!Files : art[f] = "ours"} :
            art' = [f \in N!Files |-> IF f \in gone THEN "none" ELSE art[f]]
    BY <1>3 DEF N!_run_unregister
  <2> QED BY <2>1 DEF NTyped, N!ForeignIsKept
<1> QED BY <1>1, <1>2, <1>3

LEMMA NInit == N!Init => NTyped
  BY DEF N!Init, N!Nothing, NTyped

LEMMA NStep == NTyped /\ [N!Next]_(N!vars) => NTyped' /\ N!ForeignIsKept
<1> SUFFICES ASSUME NTyped, [N!Next]_(N!vars)
             PROVE  NTyped' /\ N!ForeignIsKept
  OBVIOUS
<1>1. CASE UNCHANGED N!vars
  BY <1>1, ArtifactsStay DEF N!vars
<1>2. CASE N!Step
  <2>1. CASE N!_recover_pending_transactions
    BY <2>1, ArtifactsStay DEF N!_recover_pending_transactions
  <2>2. CASE N!_ensure_windows_notification_registration
    BY <2>2, ArtifactsStay DEF N!_ensure_windows_notification_registration
  <2>3. CASE \E answer \in {"CONFLICT", "NO_EFFECT", "UNKNOWN", "REGISTERED"} : N!_run_register(answer)
    BY <2>3, RegisterKeeps
  <2>4. CASE \E ok \in BOOLEAN : N!SaveRegistered(ok)
    BY <2>4, ArtifactsStay DEF N!SaveRegistered
  <2>5. CASE N!CommitRegistered
    BY <2>5, ArtifactsStay DEF N!CommitRegistered
  <2>6. CASE N!_remove_windows_notification_registration
    BY <2>6, ArtifactsStay DEF N!_remove_windows_notification_registration
  <2>7. CASE \E answer \in {"REMOVED", "UNKNOWN"} : N!_run_unregister(answer)
    BY <2>7, UnregisterKeeps
  <2>8. CASE N!Cleanup
    BY <2>8, ArtifactsStay DEF N!Cleanup
  <2> QED BY <1>2, <2>1, <2>2, <2>3, <2>4, <2>5, <2>6, <2>7, <2>8 DEF N!Step
<1>3. CASE N!Start
  BY <1>3, ArtifactsStay DEF N!Start, N!Uninstall, N!Setup
<1>4. CASE N!Die
  BY <1>4, ArtifactsStay DEF N!Die
<1>5. ASSUME NEW f \in N!Files, N!Foreign(f)
      PROVE  NTyped' /\ N!ForeignIsKept
  BY <1>5 DEF N!Foreign, NTyped, N!ForeignIsKept
<1> QED BY <1>1, <1>2, <1>3, <1>4, <1>5 DEF N!Next

-----------------------------------------------------------------------------
(* The team store and its outbox (team_routing.py, team_outbox.py).            *)

Verdicts == {"none", "ELIGIBLE", "NOT_ELIGIBLE", "DEFERRED", "FAILED"}
Deliveries == [pc : {"scan", "append", "rename", "deliver", "release", "unref"}, event : Events]
TTyped ==
    /\ receipt \in [Events -> {"none", "PENDING", "DEFERRED", "FAILED", "DELIVERED"}]
    /\ spool \in [Events -> {"none", "there", "expired", "collected"}]
    /\ prepared \in [Events -> Verdicts]
    /\ deliver \in [Events -> {"idle", "append", "rename", "readback", "enqueue", "receipt", "handed"}]
    /\ result \in [Events -> Verdicts \cup {"RECORDED", "HANDED"}]
    /\ drain \in [Machines -> {T!Idle} \cup Deliveries]
\* A receipt says DELIVERED, and a drain goes on to say so or to delete the ciphertext, only
\* for an event that is in the store; a drain works on a receipt.
Delivering ==
    /\ \A e \in Events : receipt[e] = "DELIVERED" => e \in store
    /\ \A m \in Machines : drain[m].pc # "idle" => receipt[drain[m].event] # "none"
    /\ \A m \in Machines : drain[m].pc \in {"deliver", "release", "unref"} => drain[m].event \in store
\* A receipt, and one that is about to be written, has its ciphertext or an event in the store.
Backed ==
    \A e \in Events : receipt[e] # "none" \/ deliver[e] = "receipt" \/ result[e] = "HANDED"
                         => e \in store \/ spool[e] # "none"
Recorded == \A e \in Events : result[e] = "RECORDED" => e \in store
TInv == TTyped /\ Delivering /\ Backed /\ Recorded

LEMMA TInit == T!Init => TInv
<1> SUFFICES ASSUME T!Init
             PROVE  TInv
  OBVIOUS
<1>1. TTyped
  BY DEF T!Init, TTyped, Verdicts
<1>2. Delivering
  BY DEF T!Init, Delivering, T!Idle
<1>3. Backed /\ Recorded
  BY DEF T!Init, Backed, Recorded
<1> QED BY <1>1, <1>2, <1>3 DEF TInv

LEMMA TReported == TInv => T!ReportIsDurable /\ T!ReleasedIsStored
<1> SUFFICES ASSUME TInv
             PROVE  T!ReportIsDurable /\ T!ReleasedIsStored
  OBVIOUS
<1>1. \A e \in Events : spool[e] \in {"none", "there", "expired", "collected"}
  BY DEF TInv, TTyped
<1> QED BY <1>1 DEF TInv, Backed, Recorded, T!Overdue, T!ReportIsDurable, T!ReleasedIsStored

\* A ciphertext that ages, and is deleted when it is old, was there.
BodiesAge ==
    /\ spool' \in [Events -> {"none", "there", "expired", "collected"}]
    /\ \A e \in Events : spool[e] # "none" => spool'[e] # "none"

LEMMA SpoolStays == TInv /\ UNCHANGED spool => BodiesAge
  BY DEF TInv, TTyped, BodiesAge

LEMMA ReadingAges == ASSUME TInv, NEW e \in Events, T!read_spool(e) PROVE BodiesAge
<1>1. CASE spool[e] = "expired"
  <2>1. spool' = [spool EXCEPT ![e] = "collected"]
    BY <1>1 DEF T!read_spool
  <2> QED BY <2>1 DEF TInv, TTyped, BodiesAge
<1>2. CASE spool[e] # "expired"
  <2>1. UNCHANGED spool
    BY <1>2 DEF T!read_spool
  <2> QED BY <2>1, SpoolStays
<1> QED BY <1>1, <1>2

LEMMA BodyAges ==
    ASSUME TInv, BodiesAge, UNCHANGED <<store, receipt, prepared, deliver, result, drain>>
    PROVE  TInv'
<1>1. TTyped' /\ Delivering'
  BY DEF TInv, TTyped, Delivering, BodiesAge
<1>2. Backed' /\ Recorded'
  BY DEF TInv, Backed, Recorded, BodiesAge
<1> QED BY <1>1, <1>2 DEF TInv

\* What is in the store stays there; a step that leaves outbox, drains and reports alone.
LEMMA StoreGrows ==
    ASSUME TInv, store \subseteq store', UNCHANGED <<receipt, spool, prepared, deliver, result, drain>>
    PROVE  TInv'
<1>1. TTyped' /\ Delivering'
  BY DEF TInv, TTyped, Delivering
<1>2. Backed' /\ Recorded'
  BY DEF TInv, Backed, Recorded
<1> QED BY <1>1, <1>2 DEF TInv

\* A step of the delivery of one event that reports nothing.
LEMMA DeliveryGoes ==
    ASSUME TInv, NEW e \in Events,
           NEW pc \in {"idle", "append", "rename", "readback", "enqueue", "handed"},
           T!DeliverTo(e, pc), store \subseteq store', UNCHANGED <<receipt, spool, prepared, result, drain>>
    PROVE  TInv'
<1>1. deliver' = [deliver EXCEPT ![e] = pc]
  BY DEF T!DeliverTo
<1>2. TTyped'
  BY <1>1 DEF TInv, TTyped
<1>3. \A d \in Events : deliver'[d] = "receipt" => deliver[d] = "receipt"
  BY <1>1 DEF TInv, TTyped
<1>4. Delivering' /\ Backed' /\ Recorded'
  BY <1>3 DEF TInv, Delivering, Backed, Recorded
<1> QED BY <1>2, <1>4 DEF TInv

\* A delivery that ends with a verdict.
LEMMA DeliveryReports ==
    ASSUME TInv, NEW e \in Events, NEW v \in Verdicts \cup {"RECORDED", "HANDED"}, T!Report(e, v),
           v = "RECORDED" => e \in store, v = "HANDED" => spool[e] # "none", BodiesAge,
           UNCHANGED <<store, receipt, prepared, drain>>
    PROVE  TInv'
<1>1. deliver' = [deliver EXCEPT ![e] = "idle"] /\ result' = [result EXCEPT ![e] = v]
  BY DEF T!Report
<1>2. TTyped'
  BY <1>1 DEF TInv, TTyped, BodiesAge
<1>3. /\ \A d \in Events : deliver'[d] = "receipt" => deliver[d] = "receipt"
      /\ \A d \in Events : result'[d] \in {"RECORDED", "HANDED"} => result'[d] = result[d] \/ (d = e /\ result'[d] = v)
  BY <1>1 DEF TInv, TTyped
<1>4. Delivering' /\ Recorded'
  BY <1>3 DEF TInv, Delivering, Recorded
<1>5. Backed'
  BY <1>3 DEF TInv, Backed, BodiesAge
<1> QED BY <1>2, <1>4, <1>5 DEF TInv

LEMMA DeliverKeeps ==
    ASSUME TInv, NEW e \in Events, T!Deliver(e)
    PROVE  TInv'
<1>1. CASE T!append_team_event(e)
  <2>1. UNCHANGED <<store, receipt, spool, prepared, result, drain>>
    BY <1>1 DEF T!append_team_event, T!outbox
  <2>2. T!DeliverTo(e, "readback") \/ T!DeliverTo(e, "rename") \/ T!DeliverTo(e, "enqueue")
    BY <1>1 DEF T!append_team_event, T!FoundOrPartial
  <2> QED BY <2>1, <2>2, DeliveryGoes
<1>2. CASE T!RenameDirect(e)
  <2>1. UNCHANGED <<receipt, spool, prepared, result, drain>> /\ store \subseteq store'
    BY <1>2 DEF T!RenameDirect, T!outbox, T!Publish
  <2>2. T!DeliverTo(e, "readback") \/ T!DeliverTo(e, "enqueue")
    BY <1>2 DEF T!RenameDirect
  <2> QED BY <2>1, <2>2, DeliveryGoes
<1>3. CASE T!ReadBack(e)
  <2>1. UNCHANGED <<store, receipt, spool, prepared, drain>>
    BY <1>3 DEF T!ReadBack, T!outbox, T!shared
  <2>2. CASE online /\ e \in store
    <3>1. T!Report(e, "RECORDED")
      BY <1>3, <2>2 DEF T!ReadBack
    <3> QED BY <2>1, <2>2, <3>1, SpoolStays, DeliveryReports
  <2>3. CASE ~(online /\ e \in store)
    <3>1. T!DeliverTo(e, "enqueue") /\ UNCHANGED result
      BY <1>3, <2>3 DEF T!ReadBack
    <3> QED BY <2>1, <3>1, DeliveryGoes
  <2> QED BY <2>2, <2>3
<1>4. CASE T!enqueue_team_event(e)
  <2>1. UNCHANGED <<store, receipt, prepared, drain>>
    BY <1>4 DEF T!enqueue_team_event, T!shared
  <2>2. CASE receipt[e] # "none"
    <3>1. T!DeliverTo(e, "handed") /\ UNCHANGED <<spool, result>>
      BY <1>4, <2>2 DEF T!enqueue_team_event
    <3> QED BY <2>1, <3>1, DeliveryGoes
  <2>3. CASE receipt[e] = "none" /\ spool[e] = "expired"
    <3>1. T!Report(e, "FAILED") /\ UNCHANGED spool
      BY <1>4, <2>3 DEF T!enqueue_team_event
    <3>2. "FAILED" \in Verdicts \cup {"RECORDED", "HANDED"}
      BY DEF Verdicts
    <3> QED BY <2>1, <3>1, <3>2, SpoolStays, DeliveryReports
  <2>4. CASE receipt[e] = "none" /\ spool[e] # "expired"
    <3>1. spool' = [spool EXCEPT ![e] = "there"] /\ deliver' = [deliver EXCEPT ![e] = "receipt"] /\ UNCHANGED result
      BY <1>4, <2>4 DEF T!enqueue_team_event, T!DeliverTo
    <3>2. TTyped'
      BY <2>1, <3>1 DEF TInv, TTyped
    <3>3. /\ spool'[e] = "there"
          /\ \A d \in Events : d # e => spool'[d] = spool[d] /\ deliver'[d] = deliver[d]
      BY <3>1 DEF TInv, TTyped
    <3>4. Delivering' /\ Recorded' /\ Backed'
      BY <2>1, <3>1, <3>3 DEF TInv, Delivering, Recorded, Backed
    <3> QED BY <3>2, <3>4 DEF TInv
  <2> QED BY <2>2, <2>3, <2>4
<1>5. CASE T!WriteReceipt(e)
  <2>1. /\ receipt' = [receipt EXCEPT ![e] = "PENDING"] /\ deliver' = [deliver EXCEPT ![e] = "handed"]
        /\ deliver[e] = "receipt" /\ UNCHANGED <<store, spool, prepared, result, drain>>
    BY <1>5 DEF T!WriteReceipt, T!DeliverTo, T!shared
  <2>2. TTyped'
    BY <2>1 DEF TInv, TTyped
  <2>3. /\ receipt'[e] = "PENDING" /\ deliver'[e] = "handed"
        /\ \A d \in Events : d # e => receipt'[d] = receipt[d] /\ deliver'[d] = deliver[d]
    BY <2>1 DEF TInv, TTyped
  <2>4. Delivering' /\ Recorded' /\ Backed'
    BY <2>1, <2>3 DEF TInv, Delivering, Recorded, Backed
  <2> QED BY <2>2, <2>4 DEF TInv
<1>6. CASE T!read_team_outbox_receipt(e)
  <2>1. UNCHANGED <<store, receipt, prepared, drain>>
    BY <1>6 DEF T!read_team_outbox_receipt, T!shared
  <2>0. BodiesAge
    <3>1. UNCHANGED spool \/ T!read_spool(e)
      BY <1>6 DEF T!read_team_outbox_receipt
    <3> QED BY <3>1, SpoolStays, ReadingAges
  <2> DEFINE good == receipt[e] \in {"PENDING", "DEFERRED"} /\ e \in ref /\ spool[e] = "there"
  <2>2. CASE good
    <3>1. T!Report(e, "HANDED")
      BY <1>6, <2>2 DEF T!read_team_outbox_receipt
    <3> QED BY <2>0, <2>1, <2>2, <3>1, DeliveryReports
  <2>3. CASE ~good /\ receipt[e] = "DELIVERED"
    <3>1. T!Report(e, "RECORDED")
      BY <1>6, <2>3 DEF T!read_team_outbox_receipt
    <3>2. e \in store
      BY <2>3 DEF TInv, Delivering
    <3> QED BY <2>0, <2>1, <3>1, <3>2, DeliveryReports
  <2>4. CASE ~good /\ receipt[e] # "DELIVERED"
    <3>1. T!Report(e, "FAILED")
      BY <1>6, <2>4 DEF T!read_team_outbox_receipt
    <3>2. "FAILED" \in Verdicts \cup {"RECORDED", "HANDED"}
      BY DEF Verdicts
    <3> QED BY <2>0, <2>1, <3>1, <3>2, DeliveryReports
  <2> QED BY <2>2, <2>3, <2>4
<1> QED BY <1>1, <1>2, <1>3, <1>4, <1>5, <1>6 DEF T!Deliver

\* The frozen decision, and the start of its delivery.
LEMMA RoutingKeeps ==
    ASSUME TInv, NEW e \in Events, T!prepare_team_routing(e) \/ T!deliver_prepared_team_routing(e)
    PROVE  TInv'
<1>1. CASE T!prepare_team_routing(e)
  <2>1. PICK may \in BOOLEAN, identity \in BOOLEAN, valid \in BOOLEAN,
             answer \in {"ELIGIBLE", "NOT_ELIGIBLE", "DEFERRED", "FAILED"} :
            prepared' = [prepared EXCEPT ![e] =
                IF identity THEN T!decide_team_routing(may, answer, valid) ELSE "FAILED"]
    BY <1>1 DEF T!prepare_team_routing
  <2> DEFINE v == IF identity THEN T!decide_team_routing(may, answer, valid) ELSE "FAILED"
  <2>2. v \in Verdicts
    <3>1. CASE ~may
      BY <3>1 DEF T!decide_team_routing, Verdicts
    <3>2. CASE may
      BY <3>2 DEF T!decide_team_routing, Verdicts
    <3> QED BY <3>1, <3>2
  <2>3. prepared' = [prepared EXCEPT ![e] = v]
    BY <2>1
  <2> HIDE DEF v
  <2>4. UNCHANGED <<store, receipt, spool, deliver, result, drain>>
    BY <1>1 DEF T!prepare_team_routing, T!shared, T!outbox
  <2>5. TTyped'
    BY <2>2, <2>3, <2>4 DEF TInv, TTyped
  <2>6. Delivering' /\ Recorded' /\ Backed'
    BY <2>4 DEF TInv, Delivering, Recorded, Backed
  <2> QED BY <2>5, <2>6 DEF TInv
<1>2. CASE T!deliver_prepared_team_routing(e)
  <2>1. UNCHANGED <<store, receipt, spool, prepared, drain>>
    BY <1>2 DEF T!deliver_prepared_team_routing, T!shared, T!outbox
  <2>2. CASE prepared[e] # "ELIGIBLE"
    <3>1. T!Report(e, prepared[e]) /\ prepared[e] \in Verdicts
      BY <1>2, <2>2 DEF T!deliver_prepared_team_routing, TInv, TTyped
    <3>2. prepared[e] \notin {"RECORDED", "HANDED"}
      BY <3>1 DEF Verdicts
    <3> QED BY <2>1, <3>1, <3>2, SpoolStays, DeliveryReports
  <2>3. CASE prepared[e] = "ELIGIBLE" /\ Owner[e] \notin bound
    <3>1. T!Report(e, "FAILED") /\ "FAILED" \in Verdicts
      BY <1>2, <2>3 DEF T!deliver_prepared_team_routing, Verdicts
    <3> QED BY <2>1, <3>1, SpoolStays, DeliveryReports
  <2>4. CASE prepared[e] = "ELIGIBLE" /\ ~(Owner[e] \notin bound)
    <3>1. (T!DeliverTo(e, "append") \/ T!DeliverTo(e, "enqueue")) /\ UNCHANGED result
      BY <1>2, <2>4 DEF T!deliver_prepared_team_routing
    <3> QED BY <2>1, <3>1, DeliveryGoes
  <2> QED BY <2>2, <2>3, <2>4
<1> QED BY <1>1, <1>2

\* A step of a drain that leaves the receipts alone.
LEMMA DrainGoes ==
    ASSUME TInv, NEW m \in Machines, NEW d \in {T!Idle} \cup Deliveries, drain' = [drain EXCEPT ![m] = d],
           d.pc # "idle" => receipt[d.event] # "none",
           d.pc \in {"deliver", "release", "unref"} => d.event \in store',
           store \subseteq store', BodiesAge, UNCHANGED <<receipt, prepared, deliver, result>>
    PROVE  TInv'
<1>1. TTyped'
  BY DEF TInv, TTyped, BodiesAge
<1>2. drain'[m] = d /\ \A n \in Machines : n # m => drain'[n] = drain[n]
  BY DEF TInv, TTyped
<1>3. Delivering'
  BY <1>2 DEF TInv, Delivering
<1>4. Backed' /\ Recorded'
  BY DEF TInv, Backed, Recorded, BodiesAge
<1> QED BY <1>1, <1>3, <1>4 DEF TInv

\* A drain that settles a receipt which is there.
LEMMA DrainSettles ==
    ASSUME TInv, NEW m \in Machines, NEW d \in {T!Idle} \cup Deliveries, drain' = [drain EXCEPT ![m] = d],
           NEW e \in Events, NEW status \in {"DEFERRED", "FAILED", "DELIVERED"}, T!Settle(e, status),
           receipt[e] # "none", status = "DELIVERED" => e \in store,
           d.pc # "idle" => d.event = e,
           d.pc \in {"deliver", "release", "unref"} => e \in store,
           BodiesAge, UNCHANGED <<store, prepared, deliver, result>>
    PROVE  TInv'
<1>1. receipt' = [receipt EXCEPT ![e] = status]
  BY DEF T!Settle
<1>2. TTyped'
  BY <1>1 DEF TInv, TTyped, BodiesAge
<1>3. drain'[m] = d /\ \A n \in Machines : n # m => drain'[n] = drain[n]
  BY DEF TInv, TTyped
<1>4. receipt'[e] = status /\ \A f \in Events : f # e => receipt'[f] = receipt[f]
  BY <1>1 DEF TInv, TTyped
<1>5. \A n \in Machines : drain[n].pc # "idle" => drain[n].event \in Events
  BY DEF TInv, TTyped, T!Idle, Deliveries
<1>6. Delivering'
  BY <1>3, <1>4, <1>5 DEF TInv, Delivering
<1>7. Backed' /\ Recorded'
  BY <1>4 DEF TInv, Backed, Recorded, BodiesAge
<1> QED BY <1>2, <1>6, <1>7 DEF TInv

\* A drain whose position is not idle is a delivery; it goes on by changing its position.
LEMMA DrainAt ==
    ASSUME TInv, NEW m \in Machines, drain[m].pc # "idle"
    PROVE  /\ drain[m] \in Deliveries /\ drain[m].event \in Events
           /\ \A pc : T!Goto(m, pc) =>
                 drain' = [drain EXCEPT ![m] = [pc |-> pc, event |-> drain[m].event]]
<1>1. drain[m] \in Deliveries /\ drain[m].event \in Events
  BY DEF TInv, TTyped, T!Idle, Deliveries
<1>2. ASSUME NEW pc, T!Goto(m, pc)
      PROVE  drain' = [drain EXCEPT ![m] = [pc |-> pc, event |-> drain[m].event]]
  <2>1. drain' = [drain EXCEPT ![m] = [drain[m] EXCEPT !.pc = pc]]
    BY <1>2 DEF T!Goto
  <2>2. [drain[m] EXCEPT !.pc = pc] = [pc |-> pc, event |-> drain[m].event]
    BY <1>1 DEF Deliveries
  <2> QED BY <2>1, <2>2
<1> QED BY <1>1, <1>2

LEMMA IdleIsTyped == T!Idle \in {T!Idle} \cup Deliveries /\ T!Idle.pc = "idle"
  BY DEF T!Idle

LEMMA DeliveryIsTyped ==
    ASSUME NEW pc \in {"scan", "append", "rename", "deliver", "release", "unref"}, NEW e \in Events
    PROVE  /\ [pc |-> pc, event |-> e] \in {T!Idle} \cup Deliveries
           /\ [pc |-> pc, event |-> e].pc = pc /\ [pc |-> pc, event |-> e].event = e
  BY DEF Deliveries

\* A drain that goes on to another position, and one that gives up, with the same outbox.
LEMMA DrainGoesOn ==
    ASSUME TInv, NEW m \in Machines, drain[m].pc # "idle",
           NEW pc \in {"append", "rename", "deliver", "release", "unref"}, T!Goto(m, pc),
           pc \in {"deliver", "release", "unref"} => drain[m].event \in store',
           store \subseteq store', UNCHANGED <<receipt, spool, prepared, deliver, result>>
    PROVE  TInv'
<1> DEFINE d == [pc |-> pc, event |-> drain[m].event]
<1>1. drain' = [drain EXCEPT ![m] = d] /\ drain[m].event \in Events
  BY DrainAt
<1>2. d \in {T!Idle} \cup Deliveries /\ d.pc = pc /\ d.event = drain[m].event
  BY <1>1, DeliveryIsTyped
<1>3. receipt[drain[m].event] # "none"
  BY DEF TInv, Delivering
<1> HIDE DEF d
<1> QED BY <1>1, <1>2, <1>3, SpoolStays, DrainGoes

LEMMA DrainGivesUp ==
    ASSUME TInv, NEW m \in Machines, T!Finish(m), store \subseteq store',
           BodiesAge, UNCHANGED <<receipt, prepared, deliver, result>>
    PROVE  TInv'
<1>1. drain' = [drain EXCEPT ![m] = T!Idle]
  BY DEF T!Finish
<1> QED BY <1>1, IdleIsTyped, DrainGoes

\* A drain that ends with the receipt of its event settled.
LEMMA DrainEnds ==
    ASSUME TInv, NEW m \in Machines, drain[m].pc # "idle", T!Finish(m),
           NEW status \in {"DEFERRED", "FAILED"}, T!Settle(drain[m].event, status),
           UNCHANGED <<store, spool, prepared, deliver, result>>
    PROVE  TInv'
<1>1. drain' = [drain EXCEPT ![m] = T!Idle]
  BY DEF T!Finish
<1>2. drain[m].event \in Events /\ receipt[drain[m].event] # "none"
  BY DrainAt DEF TInv, Delivering
<1> QED BY <1>1, <1>2, IdleIsTyped, SpoolStays, DrainSettles

LEMMA DrainStepKeeps ==
    ASSUME TInv, NEW m \in Machines, T!DrainStep(m)
    PROVE  TInv'
<1> DEFINE e == drain[m].event
<1>1. CASE T!_already_recorded(m)
  <2>1. drain[m].pc # "idle" /\ UNCHANGED <<store, spool, prepared, deliver, result>>
    BY <1>1 DEF T!_already_recorded, T!At, T!shared, T!tasks
  <2> DEFINE found == e \in T!scan_team_events.events
  <2>2. CASE found
    <3>1. T!Goto(m, "deliver") /\ UNCHANGED receipt
      BY <1>1, <2>2 DEF T!_already_recorded
    <3>2. e \in store
      BY <2>2 DEF T!scan_team_events
    <3> QED BY <2>1, <3>1, <3>2, DrainGoesOn
  <2>3. CASE ~found /\ T!scan_team_events.issues
    <3>1. T!Settle(e, "DEFERRED") /\ T!Finish(m)
      BY <1>1, <2>3 DEF T!_already_recorded
    <3> QED BY <2>1, <3>1, DrainEnds
  <2>4. CASE ~found /\ ~T!scan_team_events.issues
    <3>1. T!Goto(m, "append") /\ UNCHANGED receipt
      BY <1>1, <2>4 DEF T!_already_recorded
    <3> QED BY <2>1, <3>1, DrainGoesOn
  <2> QED BY <2>2, <2>3, <2>4
<1>2. CASE T!AppendFromOutbox(m)
  <2>1. drain[m].pc # "idle" /\ UNCHANGED <<store, spool, prepared, deliver, result>>
    BY <1>2 DEF T!AppendFromOutbox, T!At, T!tasks
  <2>2. CASE ~T!inspect_team_store
    <3>1. T!Settle(e, "FAILED") /\ T!Finish(m)
      BY <1>2, <2>2 DEF T!AppendFromOutbox
    <3> QED BY <2>1, <3>1, DrainEnds
  <2>3. CASE T!inspect_team_store /\ e \in store
    <3>1. T!Goto(m, "deliver") /\ UNCHANGED receipt
      BY <1>2, <2>3 DEF T!AppendFromOutbox, T!FoundOrPartial
    <3> QED BY <2>1, <2>3, <3>1, DrainGoesOn
  <2>4. CASE T!inspect_team_store /\ e \notin store
    <3>1. T!Goto(m, "rename") /\ UNCHANGED receipt
      BY <1>2, <2>4 DEF T!AppendFromOutbox, T!FoundOrPartial
    <3> QED BY <2>1, <3>1, DrainGoesOn
  <2> QED BY <2>2, <2>3, <2>4
<1>3. CASE T!RenameFromOutbox(m)
  <2>1. drain[m].pc # "idle" /\ UNCHANGED <<spool, prepared, deliver, result>>
    BY <1>3 DEF T!RenameFromOutbox, T!At, T!tasks
  <2>2. CASE online
    <3>1. T!Goto(m, "deliver") /\ UNCHANGED receipt /\ store' = store \cup {e}
      BY <1>3, <2>2 DEF T!RenameFromOutbox, T!Publish
    <3> QED BY <2>1, <3>1, DrainGoesOn
  <2>3. CASE ~online
    <3>1. T!Settle(e, "FAILED") /\ T!Finish(m) /\ UNCHANGED store
      BY <1>3, <2>3 DEF T!RenameFromOutbox
    <3> QED BY <2>1, <3>1, DrainEnds
  <2> QED BY <2>2, <2>3
<1>4. CASE T!Delivered(m)
  <2>1. /\ drain[m].pc = "deliver" /\ UNCHANGED <<store, spool, prepared, deliver, result>>
        /\ T!Settle(e, "DELIVERED") /\ T!Goto(m, "release")
    BY <1>4 DEF T!Delivered, T!At, T!tasks, T!shared
  <2> DEFINE d == [pc |-> "release", event |-> e]
  <2>2. e \in store /\ receipt[e] # "none"
    BY <2>1 DEF TInv, Delivering
  <2>3. drain' = [drain EXCEPT ![m] = d] /\ e \in Events
    BY <2>1, DrainAt
  <2>4. d \in {T!Idle} \cup Deliveries /\ d.event = e
    BY <2>3, DeliveryIsTyped
  <2> HIDE DEF d
  <2> QED BY <2>1, <2>2, <2>3, <2>4, SpoolStays, DrainSettles
<1>5. CASE T!_release_delivered(m)
  <2>1. drain[m].pc = "release" /\ UNCHANGED <<store, receipt, prepared, deliver, result>>
    BY <1>5 DEF T!_release_delivered, T!At, T!tasks, T!shared
  <2>2. e \in store /\ e \in Events /\ receipt[e] # "none"
    BY <2>1, DrainAt DEF TInv, Delivering
  <2> DEFINE found == ~T!_binding_error(m) /\ spool[e] # "expired" /\ e \in T!scan_team_events.events
  <2>3. CASE found
    <3>1. spool' = [spool EXCEPT ![e] = "none"] /\ T!Goto(m, "unref")
      BY <1>5, <2>3 DEF T!_release_delivered
    <3> DEFINE d == [pc |-> "unref", event |-> e]
    <3>2. drain' = [drain EXCEPT ![m] = d]
      BY <2>1, <3>1, DrainAt
    <3>3. d \in {T!Idle} \cup Deliveries /\ d.pc = "unref" /\ d.event = e
      BY <2>2, DeliveryIsTyped
    <3> HIDE DEF d
    <3>4. TTyped'
      BY <2>1, <2>2, <3>1, <3>2, <3>3 DEF TInv, TTyped
    <3>5. drain'[m] = d /\ \A n \in Machines : n # m => drain'[n] = drain[n]
      BY <3>2 DEF TInv, TTyped
    <3>6. \A f \in Events : f # e => spool'[f] = spool[f]
      BY <3>1 DEF TInv, TTyped
    <3>7. Delivering'
      BY <2>1, <2>2, <3>3, <3>5 DEF TInv, Delivering
    <3>8. Backed' /\ Recorded'
      BY <2>1, <2>2, <3>6 DEF TInv, Backed, Recorded
    <3> QED BY <3>4, <3>7, <3>8 DEF TInv
  <2>4. CASE ~found
    <3>1. T!Finish(m) /\ (UNCHANGED spool \/ T!read_spool(e))
      BY <1>5, <2>4 DEF T!_release_delivered
    <3>2. BodiesAge
      BY <2>2, <3>1, SpoolStays, ReadingAges
    <3> QED BY <2>1, <3>1, <3>2, DrainGivesUp
  <2> QED BY <2>3, <2>4
<1>6. CASE T!Unref(m)
  BY <1>6, SpoolStays, DrainGivesUp DEF T!Unref, T!tasks, T!shared
<1> QED BY <1>1, <1>2, <1>3, <1>4, <1>5, <1>6 DEF T!DrainStep

\* A drain takes up an event whose receipt waits, or whose ciphertext is still referred to.
LEMMA DrainStarts ==
    ASSUME TInv, NEW m \in Machines, NEW e \in Events,
           T!drain_team_outbox(m, e) \/ T!ReadFails(m, e) \/ T!ResumeRelease(m, e)
    PROVE  TInv'
<1>1. CASE T!drain_team_outbox(m, e)
  <2>1. /\ drain[m].pc = "idle" /\ receipt[e] # "none"
        /\ UNCHANGED <<store, prepared, deliver, result>>
    BY <1>1 DEF T!drain_team_outbox, T!At, T!tasks, T!shared
  <2>0. BodiesAge
    <3>1. UNCHANGED spool \/ T!read_spool(e)
      BY <1>1 DEF T!drain_team_outbox
    <3> QED BY <3>1, SpoolStays, ReadingAges
  <2> DEFINE d == [pc |-> "scan", event |-> e]
  <2>2. drain[m] = T!Idle /\ d \in {T!Idle} \cup Deliveries /\ d.pc = "scan" /\ d.event = e
    BY <2>1, DeliveryIsTyped DEF TInv, TTyped, Deliveries
  <2>3. CASE T!_binding_error(m) \/ spool[e] # "there"
    <3>1. /\ UNCHANGED drain
          /\ T!Settle(e, "DEFERRED") \/ T!Settle(e, "FAILED")
      BY <1>1, <2>3 DEF T!drain_team_outbox
    <3>2. drain' = [drain EXCEPT ![m] = T!Idle]
      BY <2>2, <3>1 DEF TInv, TTyped
    <3> QED BY <2>0, <2>1, <3>1, <3>2, IdleIsTyped, DrainSettles
  <2>4. CASE ~T!_binding_error(m) /\ spool[e] = "there"
    <3>1. drain' = [drain EXCEPT ![m] = d] /\ UNCHANGED receipt
      BY <1>1, <2>4 DEF T!drain_team_outbox
    <3> HIDE DEF d
    <3> QED BY <2>0, <2>1, <2>2, <3>1, DrainGoes
  <2> QED BY <2>3, <2>4
<1>2. CASE T!ReadFails(m, e)
  <2>1. /\ drain[m].pc = "idle" /\ receipt[e] # "none" /\ T!Settle(e, "FAILED")
        /\ UNCHANGED <<store, spool, prepared, deliver, result, drain>>
    BY <1>2 DEF T!ReadFails, T!At, T!tasks, T!shared
  <2>2. drain' = [drain EXCEPT ![m] = T!Idle]
    BY <2>1 DEF TInv, TTyped, Deliveries
  <2> QED BY <2>1, <2>2, IdleIsTyped, SpoolStays, DrainSettles
<1>3. CASE T!ResumeRelease(m, e)
  <2> DEFINE d == [pc |-> "release", event |-> e]
  <2>1. /\ receipt[e] = "DELIVERED" /\ T!read_spool(e)
        /\ UNCHANGED drain \/ drain' = [drain EXCEPT ![m] = d]
        /\ UNCHANGED <<store, receipt, prepared, deliver, result>>
    BY <1>3 DEF T!ResumeRelease, T!tasks, T!shared
  <2>2. d \in {T!Idle} \cup Deliveries /\ d.pc = "release" /\ d.event = e
    BY DeliveryIsTyped
  <2>3. e \in store
    BY <2>1 DEF TInv, Delivering
  <2>4. BodiesAge
    BY <2>1, ReadingAges
  <2> HIDE DEF d
  <2> QED BY <2>1, <2>2, <2>3, <2>4, BodyAges, DrainGoes
<1> QED BY <1>1, <1>2, <1>3

\* Outages, deaths, failed writes and expiries.
LEMMA TeamFaultKeeps ==
    ASSUME TInv,
           \/ \E e \in Events : T!WriteFailsDirect(e) \/ T!DeliverDies(e) \/ T!Expire(e) \/ T!gc_expired_spool(e)
           \/ \E m \in Machines : T!WriteFailsFromOutbox(m) \/ T!DrainDies(m)
    PROVE  TInv'
<1>1. ASSUME NEW e \in Events, T!WriteFailsDirect(e)
      PROVE  TInv'
  BY <1>1, DeliveryGoes DEF T!WriteFailsDirect, T!outbox
<1>2. ASSUME NEW e \in Events, T!DeliverDies(e)
      PROVE  TInv'
  BY <1>2, DeliveryGoes DEF T!DeliverDies, T!outbox
<1>3. ASSUME NEW e \in Events, T!Expire(e) \/ T!gc_expired_spool(e)
      PROVE  TInv'
  <2>1. /\ spool' = [spool EXCEPT ![e] = "expired"] \/ spool' = [spool EXCEPT ![e] = "collected"]
        /\ UNCHANGED <<store, receipt, prepared, deliver, result, drain>>
    BY <1>3 DEF T!Expire, T!gc_expired_spool, T!tasks, T!shared
  <2>2. BodiesAge
    BY <2>1 DEF TInv, TTyped, BodiesAge
  <2> QED BY <2>1, <2>2, BodyAges
<1>4. ASSUME NEW m \in Machines, T!WriteFailsFromOutbox(m)
      PROVE  TInv'
  BY <1>4, DrainEnds DEF T!WriteFailsFromOutbox, T!tasks, T!At
<1>5. ASSUME NEW m \in Machines, T!DrainDies(m)
      PROVE  TInv'
  BY <1>5, SpoolStays, DrainGivesUp DEF T!DrainDies, T!tasks, T!outbox
<1> QED BY <1>1, <1>2, <1>3, <1>4, <1>5

LEMMA TStep == TInv /\ [T!Next]_(T!vars) => TInv'
<1> SUFFICES ASSUME TInv, [T!Next]_(T!vars)
             PROVE  TInv'
  OBVIOUS
<1>1. CASE UNCHANGED T!vars
  BY <1>1, StoreGrows DEF T!vars
<1>2. ASSUME NEW e \in Events,
             T!prepare_team_routing(e) \/ T!deliver_prepared_team_routing(e) \/ T!Deliver(e)
      PROVE  TInv'
  BY <1>2, RoutingKeeps, DeliverKeeps
<1>3. ASSUME NEW e \in Events, T!WriteFailsDirect(e) \/ T!DeliverDies(e) \/ T!Expire(e) \/ T!gc_expired_spool(e)
      PROVE  TInv'
  BY <1>3, TeamFaultKeeps
<1>4. ASSUME NEW m \in Machines, T!WriteFailsFromOutbox(m) \/ T!DrainDies(m)
      PROVE  TInv'
  BY <1>4, TeamFaultKeeps
<1>5. ASSUME NEW m \in Machines, T!DrainStep(m)
      PROVE  TInv'
  BY <1>5, DrainStepKeeps
<1>6. ASSUME NEW m \in Machines, NEW e \in Events, T!drain_team_outbox(m, e) \/ T!ReadFails(m, e) \/ T!ResumeRelease(m, e)
      PROVE  TInv'
  BY <1>6, DrainStarts
<1>7. ASSUME NEW m \in Machines, T!Rebind(m) \/ T!BindBack(m)
      PROVE  TInv'
  BY <1>7, StoreGrows DEF T!Rebind, T!BindBack, T!tasks, T!outbox
<1>8. ASSUME NEW r \in DOMAIN Readers, T!refresh_team_projection(r) \/ T!project_events(r)
      PROVE  TInv'
  BY <1>8, StoreGrows DEF T!refresh_team_projection, T!project_events, T!tasks, T!outbox, T!shared
<1>9. CASE T!Outage \/ T!Return
  BY <1>9, StoreGrows DEF T!Outage, T!Return, T!tasks, T!outbox
<1> QED BY <1>1, <1>2, <1>3, <1>4, <1>5, <1>6, <1>7, <1>8, <1>9 DEF T!Next

-----------------------------------------------------------------------------
(* Captures of an agent and the hook at the end of a turn (capture.py,         *)
(* hook_entry.py).                                                             *)

HTyped ==
    /\ events \in [Keys -> Nat] /\ intent \in [Keys -> {"none", "reserved", "secured"}]
    /\ DOMAIN agent = Agents
    /\ \A a \in Agents : agent[a] = [pc |-> agent[a].pc, key |-> agent[a].key, trusted |-> agent[a].trusted]
    /\ \A a \in Agents : agent[a].pc # "idle" => agent[a].key \in Keys
    /\ named \in BOOLEAN /\ faults \in Nat
    /\ target \in [Turns -> {"none", "WAITING", "UNAVAILABLE"}] /\ unknown \subseteq Turns
    /\ binding \subseteq Turns /\ scoped \subseteq Turns
    /\ DOMAIN hook = Turns
    /\ \A t \in Turns : hook[t] = [pc |-> hook[t].pc, identity |-> hook[t].identity, answer |-> hook[t].answer]
\* A call that completes an intent has reserved it.
Reserved == \A a \in Agents : agent[a].pc = "complete" => intent[agent[a].key] # "none"
\* A key is in one of the two stores, and not twice.
OneRoute == \A k \in Keys : events[k] <= 1 /\ (events[k] = 1 => intent[k] = "none")
\* A hook passes a step of the registration only when it is done, binds only what is proven,
\* and misses no binding as long as nothing fails and the namespace stays.
TurnFits(t) ==
    /\ hook[t].pc \in {"scope", "bind", "queue"} \/ hook[t].answer = "ok" => H!Registered(t)
    /\ hook[t].pc = "bind" => hook[t].identity /\ t \in scoped
    /\ t \in binding => t \in scoped /\ target[t] # "none"
    /\ faults = 0 =>
          /\ hook[t].pc # "idle" => hook[t].identity = named
          /\ target[t] # "UNAVAILABLE"
          /\ (hook[t].pc = "queue" \/ hook[t].answer = "ok") /\ named /\ t \in scoped => t \in binding
Registering == \A t \in Turns : TurnFits(t)
HInv == HTyped /\ Reserved /\ OneRoute /\ Registering /\ H!SessionLimit

LEMMA CapturedIsFinite == IsFiniteSet(H!Captured) /\ Cardinality(H!Captured) \in Nat
<1>1. H!Captured \subseteq Keys
  BY DEF H!Captured
<1> QED BY <1>1, ObservationsAreFinite, FS_Subset, FS_CardinalityType

LEMMA SameSize == \A S1 : H!Cardinality(S1) = Cardinality(S1)
  BY DEF H!Cardinality, Cardinality

LEMMA HInit == H!Init => HInv
<1> SUFFICES ASSUME H!Init
             PROVE  HInv
  OBVIOUS
<1>1. HTyped
  BY DEF H!Init, HTyped, H!Idle
<1>2. Reserved /\ OneRoute /\ Registering
  BY DEF H!Init, Reserved, OneRoute, Registering, TurnFits, H!Idle
<1>3. H!Captured = {}
  BY DEF H!Init, H!Captured
<1>4. H!SessionLimit
  <2>1. H!Cardinality(H!Captured) = 0
    BY <1>3, SameSize, FS_EmptySet
  <2> QED BY <2>1, ObservationsAreFinite DEF H!SessionLimit
<1> QED BY <1>1, <1>2, <1>4 DEF HInv

LEMMA HFits == HInv => H!SessionLimit /\ H!CapturedOnce /\ H!OkIsRegistered
<1> SUFFICES ASSUME HInv
             PROVE  H!SessionLimit /\ H!CapturedOnce /\ H!OkIsRegistered
  OBVIOUS
<1>1. ASSUME NEW k \in Keys
      PROVE  events[k] + (IF intent[k] = "none" THEN 0 ELSE 1) <= 1
  <2>1. events[k] \in Nat /\ events[k] <= 1 /\ (events[k] = 1 => intent[k] = "none")
    BY DEF HInv, HTyped, OneRoute
  <2> QED BY <2>1
<1>2. H!OkIsRegistered
  <2>1. ASSUME NEW t \in Turns
        PROVE  /\ hook[t].answer = "ok" => H!Registered(t)
               /\ t \in binding => t \in scoped /\ target[t] # "none"
               /\ t \in scoped /\ hook[t].answer = "ok" /\ named /\ faults = 0 => t \in binding
    BY DEF HInv, Registering, TurnFits
  <2>2. binding \subseteq Turns /\ scoped \subseteq Turns
    BY DEF HInv, HTyped
  <2> QED BY <2>1, <2>2 DEF H!OkIsRegistered
<1> QED BY <1>1, <1>2 DEF HInv, H!CapturedOnce

\* Nothing is captured: the limit and the routes stay.
LEMMA StoresStay ==
    ASSUME HInv, UNCHANGED <<events, intent>>
    PROVE  OneRoute' /\ H!SessionLimit'
<1>1. H!Captured' = H!Captured
  BY DEF H!Captured
<1> QED BY <1>1 DEF HInv, OneRoute, H!SessionLimit

\* What the agents do, and a change of the namespace, leave the turns what they are.
Elsewhere ==
    /\ UNCHANGED <<target, unknown, scoped, binding, hook>>
    /\ named' \in BOOLEAN /\ faults' \in Nat
    /\ UNCHANGED <<named, faults>> \/ faults' # 0

LEMMA AgentsAreElsewhere ==
    ASSUME HInv, UNCHANGED H!hookState, UNCHANGED <<named, faults>> \/ (named' \in BOOLEAN /\ H!Fault)
    PROVE  Elsewhere
<1>1. named \in BOOLEAN /\ faults \in Nat
  BY DEF HInv, HTyped
<1>2. H!Fault => faults' \in Nat /\ faults' # 0
  BY <1>1 DEF H!Fault
<1> QED BY <1>1, <1>2 DEF Elsewhere, H!hookState

LEMMA TurnsStay == ASSUME HInv, Elsewhere PROVE Registering'
<1> SUFFICES ASSUME NEW t \in Turns
             PROVE  TurnFits(t)'
  BY DEF Registering
<1>1. TurnFits(t) /\ (H!Registered(t)' <=> H!Registered(t))
  BY DEF HInv, Registering, Elsewhere, H!Registered
<1> QED BY <1>1 DEF TurnFits, Elsewhere

\* A call that goes on to another position, or starts for an observation, and captures nothing.
LEMMA CallGoes ==
    ASSUME HInv, NEW a \in Agents, NEW v, H!Becomes(a, v), UNCHANGED <<events, intent>>, Elsewhere,
           v = [pc |-> v.pc, key |-> v.key, trusted |-> v.trusted],
           v.pc # "idle" => v.key \in Keys, v.pc = "complete" => intent[v.key] # "none"
    PROVE  HInv'
<1>1. agent' = [agent EXCEPT ![a] = v]
  BY DEF H!Becomes
<1>2. agent'[a] = v /\ (\A b \in Agents : b # a => agent'[b] = agent[b]) /\ DOMAIN agent' = Agents
  BY <1>1 DEF HInv, HTyped
<1>3. HTyped'
  BY <1>2 DEF HInv, HTyped, Elsewhere
<1>4. Reserved'
  BY <1>2 DEF HInv, Reserved
<1>5. Registering'
  BY TurnsStay
<1> QED BY <1>3, <1>4, <1>5, StoresStay DEF HInv

\* A change of position is a change of the call's record.
LEMMA PositionOf ==
    ASSUME HInv, NEW a \in Agents, NEW pc, H!Goto(a, pc)
    PROVE  H!Becomes(a, [pc |-> pc, key |-> agent[a].key, trusted |-> agent[a].trusted])
<1>1. agent' = [agent EXCEPT ![a] = [agent[a] EXCEPT !.pc = pc]]
  BY DEF H!Goto
<1>2. [agent[a] EXCEPT !.pc = pc] = [pc |-> pc, key |-> agent[a].key, trusted |-> agent[a].trusted]
  BY DEF HInv, HTyped
<1> QED BY <1>1, <1>2 DEF H!Becomes

LEMMA CallIsRecord ==
    ASSUME NEW pc, NEW k, NEW b
    PROVE  LET v == [pc |-> pc, key |-> k, trusted |-> b]
           IN  v = [pc |-> v.pc, key |-> v.key, trusted |-> v.trusted] /\ v.pc = pc /\ v.key = k
  OBVIOUS

LEMMA PositionGoes ==
    ASSUME HInv, NEW a \in Agents, NEW pc, H!Goto(a, pc), agent[a].pc # "idle",
           pc = "complete" => intent[agent[a].key] # "none",
           UNCHANGED <<events, intent>>, Elsewhere
    PROVE  HInv'
<1> DEFINE v == [pc |-> pc, key |-> agent[a].key, trusted |-> agent[a].trusted]
<1>1. H!Becomes(a, v)
  BY PositionOf
<1>2. v = [pc |-> v.pc, key |-> v.key, trusted |-> v.trusted] /\ v.pc = pc /\ v.key = agent[a].key
  OBVIOUS
<1>3. agent[a].key \in Keys
  BY DEF HInv, HTyped
<1> HIDE DEF v
<1> QED BY <1>1, <1>2, <1>3, CallGoes

LEMMA CallEnds ==
    ASSUME HInv, NEW a \in Agents, H!Becomes(a, H!Idle), UNCHANGED <<events, intent>>, Elsewhere
    PROVE  HInv'
<1>1. H!Idle = [pc |-> H!Idle.pc, key |-> H!Idle.key, trusted |-> H!Idle.trusted] /\ H!Idle.pc = "idle"
  BY DEF H!Idle
<1> QED BY <1>1, CallGoes

\* A capture of a key that is new is one below the limit.
LEMMA OneMore ==
    ASSUME HInv, NEW k \in Keys, H!Admission(k), intent[k] = "none",
           H!Captured' \subseteq H!Captured \cup {k}
    PROVE  H!SessionLimit'
<1>1. Cardinality(H!Captured) < MaxPerSession
  BY SameSize DEF H!Admission
<1>2. IsFiniteSet(H!Captured \cup {k}) /\ Cardinality(H!Captured \cup {k}) <= Cardinality(H!Captured) + 1
  <2>1. IsFiniteSet(H!Captured) /\ Cardinality(H!Captured) \in Nat
    BY CapturedIsFinite
  <2>2. /\ IsFiniteSet(H!Captured \cup {k})
        /\ \/ Cardinality(H!Captured \cup {k}) = Cardinality(H!Captured)
           \/ Cardinality(H!Captured \cup {k}) = Cardinality(H!Captured) + 1
    BY <2>1, FS_AddElement
  <2> QED BY <2>1, <2>2
<1>3. Cardinality(H!Captured') <= Cardinality(H!Captured \cup {k}) /\ Cardinality(H!Captured') \in Nat
  BY <1>2, FS_Subset, FS_CardinalityType
<1>4. Cardinality(H!Captured \cup {k}) \in Nat
  BY <1>2, FS_CardinalityType
<1>5. Cardinality(H!Captured') <= MaxPerSession
  BY <1>1, <1>2, <1>3, <1>4, CapturedIsFinite, ObservationsAreFinite
<1> QED BY <1>5, SameSize DEF H!SessionLimit

LEMMA ReserveKeeps ==
    ASSUME HInv, NEW a \in Agents, H!ReserveIntent(a)
    PROVE  HInv'
<1> DEFINE k == agent[a].key
<1>1. /\ agent[a].pc = "record" /\ events[k] = 0 /\ H!Admission(k)
      /\ intent' = [intent EXCEPT ![k] = IF intent[k] = "none" THEN "reserved" ELSE intent[k]]
      /\ H!Goto(a, "complete") /\ UNCHANGED events /\ Elsewhere
  BY AgentsAreElsewhere DEF H!ReserveIntent, H!At, H!hookState
<1>2. k \in Keys
  BY <1>1 DEF HInv, HTyped
<1>3. CASE intent[k] # "none"
  <2>1. UNCHANGED intent
    BY <1>1, <1>2, <1>3 DEF HInv, HTyped
  <2> QED BY <1>1, <1>3, <2>1, PositionGoes
<1>4. CASE intent[k] = "none"
  <2>1. intent' = [intent EXCEPT ![k] = "reserved"]
    BY <1>1, <1>4
  <2>2. intent'[k] = "reserved" /\ \A q \in Keys : q # k => intent'[q] = intent[q]
    BY <1>2, <2>1 DEF HInv, HTyped
  <2> DEFINE v == [pc |-> "complete", key |-> k, trusted |-> agent[a].trusted]
  <2>3. agent' = [agent EXCEPT ![a] = v]
    BY <1>1, PositionOf DEF H!Becomes
  <2>4. v = [pc |-> v.pc, key |-> v.key, trusted |-> v.trusted] /\ v.key = k
    OBVIOUS
  <2> HIDE DEF v
  <2>5. agent'[a] = v /\ (\A b \in Agents : b # a => agent'[b] = agent[b]) /\ DOMAIN agent' = Agents
    BY <2>3 DEF HInv, HTyped
  <2>6. intent' \in [Keys -> {"none", "reserved", "secured"}]
    BY <2>1 DEF HInv, HTyped
  <2>7. HTyped'
    BY <1>1, <1>2, <2>4, <2>5, <2>6 DEF HInv, HTyped, Elsewhere
  <2>8. \A b \in Agents : agent[b].pc = "complete" => agent[b].key \in Keys
    BY DEF HInv, HTyped
  <2>9. Reserved'
    BY <1>2, <2>2, <2>4, <2>5, <2>8 DEF HInv, Reserved
  <2>10. OneRoute' /\ Registering'
    BY <1>1, <2>2, TurnsStay DEF HInv, OneRoute
  <2>11. H!Captured' \subseteq H!Captured \cup {k}
    BY <1>1, <2>2 DEF H!Captured
  <2>12. H!SessionLimit'
    BY <1>1, <1>2, <1>4, <2>11, OneMore
  <2> QED BY <2>7, <2>9, <2>10, <2>12 DEF HInv
<1> QED BY <1>3, <1>4

LEMMA CompleteKeeps ==
    ASSUME HInv, NEW a \in Agents, H!CompleteIntent(a)
    PROVE  HInv'
<1> DEFINE k == agent[a].key
<1>1. /\ agent[a].pc = "complete" /\ intent' = [intent EXCEPT ![k] = "secured"]
      /\ agent' = [agent EXCEPT ![a] = H!Idle] /\ UNCHANGED events /\ Elsewhere
  BY AgentsAreElsewhere DEF H!CompleteIntent, H!Return, H!Becomes, H!At, H!hookState
<1>2. k \in Keys /\ intent[k] # "none"
  BY <1>1 DEF HInv, HTyped, Reserved
<1>3. intent'[k] = "secured" /\ \A q \in Keys : q # k => intent'[q] = intent[q]
  BY <1>1, <1>2 DEF HInv, HTyped
<1>4. agent'[a] = H!Idle /\ (\A b \in Agents : b # a => agent'[b] = agent[b]) /\ DOMAIN agent' = Agents
  BY <1>1 DEF HInv, HTyped
<1>5. H!Idle = [pc |-> H!Idle.pc, key |-> H!Idle.key, trusted |-> H!Idle.trusted] /\ H!Idle.pc = "idle"
  BY DEF H!Idle
<1>6. intent' \in [Keys -> {"none", "reserved", "secured"}]
  BY <1>1 DEF HInv, HTyped
<1>7. HTyped'
  BY <1>1, <1>4, <1>5, <1>6 DEF HInv, HTyped, Elsewhere
<1>8. \A b \in Agents : agent[b].pc = "complete" => agent[b].key \in Keys
  BY DEF HInv, HTyped
<1>9. Reserved'
  BY <1>3, <1>4, <1>5, <1>8 DEF HInv, Reserved
<1>10. OneRoute' /\ Registering'
  BY <1>1, <1>2, <1>3, TurnsStay DEF HInv, HTyped, OneRoute
<1>11. H!Captured' = H!Captured
  BY <1>1, <1>2, <1>3 DEF H!Captured
<1>12. H!SessionLimit'
  BY <1>11 DEF HInv, H!SessionLimit
<1> QED BY <1>7, <1>9, <1>10, <1>12 DEF HInv

LEMMA AppendKeeps ==
    ASSUME HInv, NEW a \in Agents, H!AppendEvent(a)
    PROVE  HInv'
<1> DEFINE k == agent[a].key
<1>1. /\ agent[a].pc = "record" /\ events[k] = 0 /\ H!Admission(k)
      /\ events' = IF intent[k] = "none" THEN [events EXCEPT ![k] = events[k] + 1] ELSE events
      /\ H!Becomes(a, H!Idle) /\ UNCHANGED intent /\ Elsewhere
  BY AgentsAreElsewhere DEF H!AppendEvent, H!Return, H!At, H!hookState
<1>2. CASE intent[k] # "none"
  <2>1. UNCHANGED events
    BY <1>1, <1>2
  <2> QED BY <1>1, <2>1, CallEnds
<1>3. CASE intent[k] = "none"
  <2>1. k \in Keys
    BY <1>1 DEF HInv, HTyped
  <2>2. events' = [events EXCEPT ![k] = 1]
    BY <1>1, <1>3
  <2>3. events'[k] = 1 /\ (\A q \in Keys : q # k => events'[q] = events[q]) /\ events' \in [Keys -> Nat]
    BY <2>1, <2>2 DEF HInv, HTyped
  <2>4. agent'[a] = H!Idle /\ (\A b \in Agents : b # a => agent'[b] = agent[b]) /\ DOMAIN agent' = Agents
    BY <1>1 DEF HInv, HTyped, H!Becomes
  <2>5. H!Idle = [pc |-> H!Idle.pc, key |-> H!Idle.key, trusted |-> H!Idle.trusted] /\ H!Idle.pc = "idle"
    BY DEF H!Idle
  <2>6. HTyped'
    BY <1>1, <2>3, <2>4, <2>5 DEF HInv, HTyped, Elsewhere
  <2>7. Reserved' /\ OneRoute' /\ Registering'
    BY <1>1, <1>3, <2>1, <2>3, <2>4, <2>5, TurnsStay DEF HInv, Reserved, OneRoute
  <2>8. H!Captured' \subseteq H!Captured \cup {k}
    BY <1>1, <2>3 DEF H!Captured
  <2>9. H!SessionLimit'
    BY <1>1, <1>3, <2>1, <2>8, OneMore
  <2> QED BY <2>6, <2>7, <2>9 DEF HInv
<1> QED BY <1>2, <1>3

\* A hook that goes on: what it leaves of its turn fits, and the other turns are left alone.
LEMMA HookGoes ==
    ASSUME HInv, NEW t \in Turns, NEW pc, NEW id, NEW answer,
           hook' = [hook EXCEPT ![t] = [pc |-> pc, identity |-> id, answer |-> answer]],
           UNCHANGED <<named, scoped, events, intent, agent>>,
           target' \in [Turns -> {"none", "WAITING", "UNAVAILABLE"}], unknown' \subseteq Turns,
           binding' \subseteq Turns, faults' \in Nat, faults' = 0 => faults = 0,
           \A u \in Turns \ {t} : target'[u] = target[u] /\ (u \in unknown' <=> u \in unknown) /\ (u \in binding' <=> u \in binding),
           TurnFits(t)'
    PROVE  HInv'
<1>0. \A u \in Turns : u # t => target'[u] = target[u] /\ (u \in unknown' <=> u \in unknown) /\ (u \in binding' <=> u \in binding)
  OBVIOUS
<1>1. /\ hook'[t] = [pc |-> pc, identity |-> id, answer |-> answer]
      /\ (\A u \in Turns : u # t => hook'[u] = hook[u]) /\ DOMAIN hook' = Turns
  BY DEF HInv, HTyped
<1>2. HTyped'
  BY <1>1 DEF HInv, HTyped
<1>3. Reserved'
  BY DEF HInv, Reserved
<1>4. ASSUME NEW u \in Turns, u # t
      PROVE  TurnFits(u)'
  <2>1. TurnFits(u) /\ faults \in Nat
    BY <1>4 DEF HInv, HTyped, Registering
  <2>0. hook'[u] = hook[u]
    BY <1>1, <1>4
  <2>2. target'[u] = target[u] /\ (u \in unknown' <=> u \in unknown) /\ (u \in binding' <=> u \in binding)
    BY <1>0, <1>4
  <2>3. H!Registered(u)' <=> H!Registered(u)
    BY <2>0, <2>2 DEF H!Registered
  <2> QED BY <2>0, <2>1, <2>2, <2>3 DEF TurnFits
<1>5. Registering'
  BY <1>4 DEF Registering
<1> QED BY <1>2, <1>3, <1>5, StoresStay DEF HInv

\* The same where the ledger and the bindings stay.
LEMMA HookGoesOn ==
    ASSUME HInv, NEW t \in Turns, NEW pc, NEW id, NEW answer,
           hook' = [hook EXCEPT ![t] = [pc |-> pc, identity |-> id, answer |-> answer]],
           UNCHANGED <<named, scoped, events, intent, agent, target, unknown, binding>>,
           UNCHANGED faults \/ H!Fault,
           hook'[t] = [pc |-> pc, identity |-> id, answer |-> answer] => TurnFits(t)'
    PROVE  HInv'
<1>1. faults' \in Nat /\ (faults' = 0 => faults = 0)
  <2>1. faults \in Nat
    BY DEF HInv, HTyped
  <2> QED BY <2>1 DEF H!Fault
<1>2. /\ target' \in [Turns -> {"none", "WAITING", "UNAVAILABLE"}] /\ unknown' \subseteq Turns
      /\ binding' \subseteq Turns
  BY DEF HInv, HTyped
<1>3. hook'[t] = [pc |-> pc, identity |-> id, answer |-> answer]
  BY DEF HInv, HTyped
<1> QED BY <1>1, <1>2, <1>3, HookGoes

LEMMA StepIs ==
    ASSUME HInv, NEW t \in Turns, NEW from, NEW to, H!Step(t, from, to)
    PROVE  /\ hook[t].pc = from
           /\ hook' = [hook EXCEPT ![t] = [pc |-> to, identity |-> hook[t].identity, answer |-> hook[t].answer]]
           /\ hook'[t] = [pc |-> to, identity |-> hook[t].identity, answer |-> hook[t].answer]
<1>1. hook[t].pc = from /\ hook' = [hook EXCEPT ![t] = [hook[t] EXCEPT !.pc = to]]
  BY DEF H!Step
<1>2. [hook[t] EXCEPT !.pc = to] = [pc |-> to, identity |-> hook[t].identity, answer |-> hook[t].answer]
  BY DEF HInv, HTyped
<1> QED BY <1>1, <1>2 DEF HInv, HTyped

LEMMA AnswerIs ==
    ASSUME HInv, NEW t \in Turns, NEW status, H!Answer(t, status)
    PROVE  hook' = [hook EXCEPT ![t] = [pc |-> "done", identity |-> hook[t].identity, answer |-> status]]
<1>0. PICK done : done = "done"
  OBVIOUS
<1>1. hook' = [hook EXCEPT ![t] = [hook[t] EXCEPT !.pc = done, !.answer = status]]
  BY <1>0 DEF H!Answer
<1>2. [hook[t] EXCEPT !.pc = done, !.answer = status] = [pc |-> done, identity |-> hook[t].identity, answer |-> status]
  <2>1. PICK h, q, x, y : h = hook[t] /\ q = h.pc /\ x = h.identity /\ y = h.answer
    OBVIOUS
  <2>2. h = [pc |-> q, identity |-> x, answer |-> y]
    BY <2>1 DEF HInv, HTyped
  <2>3. [h EXCEPT !.pc = done] = [pc |-> done, identity |-> x, answer |-> y]
    BY <2>2
  <2>4. [h EXCEPT !.pc = done, !.answer = status] = [[h EXCEPT !.pc = done] EXCEPT !.answer = status]
    BY <2>2
  <2>5. [[pc |-> done, identity |-> x, answer |-> y] EXCEPT !.answer = status] = [pc |-> done, identity |-> x, answer |-> status]
    OBVIOUS
  <2> QED BY <2>1, <2>3, <2>4, <2>5
<1> QED BY <1>0, <1>1, <1>2

LEMMA RegisterTargetKeeps ==
    ASSUME HInv, NEW t \in Turns, H!RegisterTarget(t)
    PROVE  HInv'
<1>1. /\ H!Step(t, "target", "scope")
      /\ UNCHANGED <<named, scoped, events, intent, agent, binding, faults>>
  BY DEF H!RegisterTarget, H!captureState
<1>2. /\ hook[t].pc = "target"
      /\ hook' = [hook EXCEPT ![t] = [pc |-> "scope", identity |-> hook[t].identity, answer |-> hook[t].answer]]
      /\ hook'[t] = [pc |-> "scope", identity |-> hook[t].identity, answer |-> hook[t].answer]
  BY <1>1, StepIs
<1>3. /\ target \in [Turns -> {"none", "WAITING", "UNAVAILABLE"}] /\ unknown \subseteq Turns
      /\ binding \subseteq Turns /\ faults \in Nat /\ TurnFits(t)
  BY DEF HInv, HTyped, Registering
<1>4. CASE hook[t].identity
  <2>0. PICK x : x = IF target[t] = "none" THEN "WAITING" ELSE target[t]
    OBVIOUS
  <2>1. target' = [target EXCEPT ![t] = x] /\ UNCHANGED unknown
    BY <1>4, <2>0 DEF H!RegisterTarget
  <2>2. /\ target' \in [Turns -> {"none", "WAITING", "UNAVAILABLE"}]
        /\ target'[t] # "none" /\ (target'[t] = "UNAVAILABLE" => target[t] = "UNAVAILABLE")
        /\ \A u \in Turns \ {t} : target'[u] = target[u]
    BY <1>3, <2>0, <2>1
  <2>3. H!Registered(t)'
    BY <1>2, <1>4, <2>2 DEF H!Registered
  <2>4. TurnFits(t)'
    BY <1>1, <1>2, <1>3, <2>2, <2>3 DEF TurnFits
  <2> QED BY <1>1, <1>2, <1>3, <2>1, <2>2, <2>4, HookGoes
<1>5. CASE ~hook[t].identity
  <2>1. unknown' = unknown \cup {t} /\ UNCHANGED target
    BY <1>5 DEF H!RegisterTarget
  <2>2. unknown' \subseteq Turns /\ t \in unknown' /\ \A u \in Turns \ {t} : (u \in unknown' <=> u \in unknown)
    BY <1>3, <2>1
  <2>3. H!Registered(t)'
    BY <1>2, <1>5, <2>2 DEF H!Registered
  <2>4. TurnFits(t)'
    BY <1>1, <1>2, <1>3, <2>1, <2>3 DEF TurnFits
  <2> QED BY <1>1, <1>2, <1>3, <2>1, <2>2, <2>4, HookGoes
<1> QED BY <1>4, <1>5

LEMMA BindingKeeps ==
    ASSUME HInv, NEW t \in Turns, H!register_adapter_target(t)
    PROVE  HInv'
<1>1. /\ H!Step(t, "bind", "queue")
      /\ UNCHANGED <<named, scoped, events, intent, agent, target, unknown, faults>>
      /\ binding' = IF target[t] = "WAITING" THEN binding \cup {t} ELSE binding
  BY DEF H!register_adapter_target, H!captureState
<1>2. /\ hook[t].pc = "bind"
      /\ hook' = [hook EXCEPT ![t] = [pc |-> "queue", identity |-> hook[t].identity, answer |-> hook[t].answer]]
      /\ hook'[t] = [pc |-> "queue", identity |-> hook[t].identity, answer |-> hook[t].answer]
  BY <1>1, StepIs
<1>3. /\ target \in [Turns -> {"none", "WAITING", "UNAVAILABLE"}] /\ unknown \subseteq Turns
      /\ binding \subseteq Turns /\ faults \in Nat /\ TurnFits(t)
  BY DEF HInv, HTyped, Registering
<1>4. hook[t].identity /\ t \in scoped /\ target[t] # "none"
  BY <1>2, <1>3 DEF TurnFits, H!Registered
<1>5. faults = 0 => target[t] = "WAITING"
  BY <1>3, <1>4 DEF TurnFits
<1>6. H!Registered(t)'
  BY <1>1, <1>2, <1>4 DEF H!Registered
<1>7. /\ binding' \subseteq Turns /\ (faults = 0 => t \in binding')
      /\ \A u \in Turns \ {t} : u \in binding' <=> u \in binding
  BY <1>1, <1>3, <1>5
<1>8. TurnFits(t)'
  <2>1. hook'[t].pc = "queue" /\ hook'[t].identity = hook[t].identity
    BY <1>2
  <2>2. faults = 0 => hook[t].identity = named /\ target[t] # "UNAVAILABLE"
    BY <1>2, <1>3 DEF TurnFits
  <2> QED BY <1>1, <1>4, <1>5, <1>6, <1>7, <2>1, <2>2 DEF TurnFits
<1> QED BY <1>1, <1>2, <1>3, <1>7, <1>8, HookGoes

LEMMA HookKeeps ==
    ASSUME HInv, NEW t \in Turns, H!run_hook(t) \/ H!CallAgain(t) \/ H!Handle(t) \/ H!FailOpen(t)
    PROVE  HInv'
<1>1. TurnFits(t) /\ faults \in Nat /\ named \in BOOLEAN
  BY DEF HInv, HTyped, Registering
<1>2. CASE H!run_hook(t) \/ H!CallAgain(t)
  <2>1. /\ hook' = [hook EXCEPT ![t] = [pc |-> "receipt", identity |-> named, answer |-> "none"]]
        /\ UNCHANGED <<named, scoped, events, intent, agent, target, unknown, binding>>
        /\ UNCHANGED faults \/ H!Fault
    BY <1>2 DEF H!run_hook, H!CallAgain, H!Called, H!captureState
  <2>2. ASSUME hook'[t] = [pc |-> "receipt", identity |-> named, answer |-> "none"]
        PROVE  TurnFits(t)'
    <3>1. faults' = 0 => faults = 0
      BY <1>1, <2>1 DEF H!Fault
    <3> QED BY <1>1, <2>1, <2>2, <3>1 DEF TurnFits
  <2> QED BY <2>1, <2>2, HookGoesOn
<1>3. CASE H!_write_receipt(t)
  <2>1. /\ H!Step(t, "receipt", "target")
        /\ UNCHANGED <<named, scoped, events, intent, agent, target, unknown, binding, faults>>
    BY <1>3 DEF H!_write_receipt, H!captureState
  <2>2. /\ hook[t].pc = "receipt"
        /\ hook' = [hook EXCEPT ![t] = [pc |-> "target", identity |-> hook[t].identity, answer |-> hook[t].answer]]
        /\ hook'[t] = [pc |-> "target", identity |-> hook[t].identity, answer |-> hook[t].answer]
    BY <2>1, StepIs
  <2>3. TurnFits(t)'
    BY <1>1, <2>1, <2>2 DEF TurnFits, H!Registered
  <2> QED BY <2>1, <2>2, <2>3, HookGoesOn
<1>4. CASE H!RegisterTarget(t)
  BY <1>4, RegisterTargetKeeps
<1>5. CASE H!ProveScope(t)
  <2>0. PICK to : to = IF hook[t].identity /\ named /\ t \in scoped THEN "bind" ELSE "queue"
    OBVIOUS
  <2>1. /\ H!Step(t, "scope", to)
        /\ UNCHANGED <<named, scoped, events, intent, agent, target, unknown, binding, faults>>
    BY <1>5, <2>0 DEF H!ProveScope, H!captureState
  <2>2. /\ hook[t].pc = "scope"
        /\ hook' = [hook EXCEPT ![t] = [pc |-> to, identity |-> hook[t].identity, answer |-> hook[t].answer]]
        /\ hook'[t] = [pc |-> to, identity |-> hook[t].identity, answer |-> hook[t].answer]
    BY <2>1, StepIs
  <2>3. H!Registered(t)'
    BY <1>1, <2>1, <2>2 DEF TurnFits, H!Registered
  <2>4. to = "queue" /\ faults = 0 /\ named => t \notin scoped
    BY <1>1, <2>0, <2>2 DEF TurnFits
  <2>5. to = "bind" => hook[t].identity /\ t \in scoped
    BY <2>0
  <2>6. TurnFits(t)'
    BY <1>1, <2>0, <2>1, <2>2, <2>3, <2>4, <2>5 DEF TurnFits
  <2> QED BY <2>1, <2>2, <2>6, HookGoesOn
<1>6. CASE H!register_adapter_target(t)
  BY <1>6, BindingKeeps
<1>7. CASE H!_write_turn_receipt(t)
  <2>1. /\ hook[t].pc = "queue" /\ H!Answer(t, "ok")
        /\ UNCHANGED <<named, scoped, events, intent, agent, target, unknown, binding, faults>>
    BY <1>7 DEF H!_write_turn_receipt, H!captureState
  <2>2. hook' = [hook EXCEPT ![t] = [pc |-> "done", identity |-> hook[t].identity, answer |-> "ok"]]
    BY <2>1, AnswerIs
  <2>3. ASSUME hook'[t] = [pc |-> "done", identity |-> hook[t].identity, answer |-> "ok"]
        PROVE  TurnFits(t)'
    BY <1>1, <2>1, <2>3 DEF TurnFits, H!Registered
  <2> QED BY <2>1, <2>2, <2>3, HookGoesOn
<1>8. CASE H!LockTimeout(t) \/ H!FailOpen(t)
  <2>1. /\ hook[t].pc # "idle" /\ H!Answer(t, "failopen")
        /\ UNCHANGED <<named, scoped, events, intent, agent, target, unknown, binding>>
        /\ UNCHANGED faults \/ H!Fault
    BY <1>8 DEF H!LockTimeout, H!FailOpen, H!captureState
  <2>2. hook' = [hook EXCEPT ![t] = [pc |-> "done", identity |-> hook[t].identity, answer |-> "failopen"]]
    BY <2>1, AnswerIs
  <2>3. ASSUME hook'[t] = [pc |-> "done", identity |-> hook[t].identity, answer |-> "failopen"]
        PROVE  TurnFits(t)'
    <3>1. faults' = 0 => faults = 0
      BY <1>1, <2>1 DEF H!Fault
    <3> QED BY <1>1, <2>1, <2>3, <3>1 DEF TurnFits
  <2> QED BY <2>1, <2>2, <2>3, HookGoesOn
<1> QED BY <1>2, <1>3, <1>4, <1>5, <1>6, <1>7, <1>8 DEF H!Handle

LEMMA LostReceiptKeeps ==
    ASSUME HInv, NEW t \in Turns, H!ReceiptLost(t)
    PROVE  HInv'
<1>1. /\ target[t] = "WAITING" /\ target' = [target EXCEPT ![t] = "UNAVAILABLE"] /\ H!Fault
      /\ UNCHANGED <<named, events, intent, agent, unknown, scoped, binding, hook>>
  BY DEF H!ReceiptLost, H!captureState
<1>2. faults' \in Nat /\ faults' # 0
  <2>1. faults \in Nat
    BY DEF HInv, HTyped
  <2> QED BY <1>1, <2>1 DEF H!Fault
<1>3. /\ target' \in [Turns -> {"none", "WAITING", "UNAVAILABLE"}]
      /\ \A u \in Turns : target'[u] # "none" <=> target[u] # "none"
  BY <1>1 DEF HInv, HTyped
<1>4. HTyped' /\ Reserved'
  BY <1>1, <1>2, <1>3 DEF HInv, HTyped, Reserved
<1>5. ASSUME NEW u \in Turns
      PROVE  TurnFits(u)'
  <2>1. TurnFits(u) /\ (H!Registered(u)' <=> H!Registered(u))
    BY <1>1, <1>3 DEF HInv, Registering, H!Registered
  <2> QED BY <1>1, <1>2, <1>3, <2>1 DEF TurnFits
<1> QED BY <1>1, <1>4, <1>5, StoresStay DEF HInv, Registering

LEMMA HStep == HInv /\ [H!Next]_(H!vars) => HInv'
<1> SUFFICES ASSUME HInv, [H!Next]_(H!vars)
             PROVE  HInv'
  OBVIOUS
<1>1. ASSUME UNCHANGED <<events, intent, agent>>, Elsewhere
      PROVE  HInv'
  <2>1. HTyped' /\ Reserved' /\ Registering'
    BY <1>1, TurnsStay DEF HInv, HTyped, Reserved, Elsewhere
  <2> QED BY <1>1, <2>1, StoresStay DEF HInv
<1>2. CASE UNCHANGED H!vars
  <2>1. UNCHANGED <<events, intent, agent, named, faults>> /\ UNCHANGED H!hookState
    BY <1>2 DEF H!vars, H!hookState
  <2> QED BY <1>1, <2>1, AgentsAreElsewhere
<1>3. ASSUME NEW a \in Agents, NEW k \in Keys, H!record_agent_observation(a, k)
      PROVE  HInv'
  <2> DEFINE v == [pc |-> "acquire", key |-> k, trusted |-> named]
  <2>1. H!Becomes(a, v) /\ UNCHANGED <<events, intent>> /\ Elsewhere
    BY <1>3, AgentsAreElsewhere DEF H!record_agent_observation, H!hookState
  <2>2. v = [pc |-> v.pc, key |-> v.key, trusted |-> v.trusted] /\ v.pc = "acquire" /\ v.key = k
    OBVIOUS
  <2> HIDE DEF v
  <2> QED BY <2>1, <2>2, CallGoes
<1>4. ASSUME NEW a \in Agents, H!Record(a)
      PROVE  HInv'
  <2>1. CASE H!Acquire(a)
    BY <2>1, PositionGoes, AgentsAreElsewhere DEF H!Acquire, H!At
  <2>2. CASE H!ReplayEvent(a)
    BY <2>2, PositionGoes, AgentsAreElsewhere DEF H!ReplayEvent, H!At
  <2>3. CASE H!Refuse(a)
    BY <2>3, CallEnds, AgentsAreElsewhere DEF H!Refuse, H!Return
  <2>4. CASE H!_associate_receipt(a)
    BY <2>4, CallEnds, AgentsAreElsewhere DEF H!_associate_receipt
  <2> QED BY <1>4, <2>1, <2>2, <2>3, <2>4, ReserveKeeps, CompleteKeeps, AppendKeeps DEF H!Record
<1>5. ASSUME NEW a \in Agents, H!CaptureFails(a)
      PROVE  HInv'
  <2>1. named \in BOOLEAN
    BY DEF HInv, HTyped
  <2> QED BY <1>5, <2>1, CallEnds, AgentsAreElsewhere DEF H!CaptureFails
<1>6. CASE H!NamespaceChanges
  <2>1. UNCHANGED <<events, intent, agent>> /\ UNCHANGED H!hookState /\ named' \in BOOLEAN /\ H!Fault
    BY <1>6 DEF H!NamespaceChanges
  <2> QED BY <1>1, <2>1, AgentsAreElsewhere
<1>7. ASSUME NEW t \in Turns, H!run_hook(t) \/ H!CallAgain(t) \/ H!Handle(t) \/ H!FailOpen(t)
      PROVE  HInv'
  BY <1>7, HookKeeps
<1> QED BY <1>2, <1>3, <1>4, <1>5, <1>6, <1>7, LostReceiptKeeps DEF H!Next

-----------------------------------------------------------------------------
(* The sources and their cursors (capture_recovery.py, ingest.py).             *)

\* A record that was stored, or that the privacy gate refuses.
Settled(r, st) == (\E s \in st : s[1] = r) \/ r \in Private

\* A record is stored under the identity its plan fixes, and a capture's plan needs a version.
RoutesFit(pl, bd, st) ==
    /\ pl \in [S!Records -> {"none", "capture", "event"}] /\ DOMAIN bd = S!Records
    /\ \A r \in S!Records : pl[r] = "capture" => bd[r] # <<>>
    /\ \A s \in st : /\ s = <<s[1], s[2]>> /\ s[1] \in S!Records /\ pl[s[1]] # "none"
                     /\ s[2] = IF pl[s[1]] = "capture" THEN bd[s[1]] ELSE S!AsEvent

\* What lies behind a cursor is settled.
CursorsFit(cs, st) ==
    /\ DOMAIN cs = S!Modes
    /\ \A m \in S!Modes : /\ cs[m].offset \in Nat
                          /\ \A i \in 1..cs[m].offset : Settled(cs[m].version[i], st)
SeenFits(sn, st) == \A r \in sn.fps : Settled(r, st)

\* A run has a record at hand, whose route is fixed when it is to be stored and which is
\* stored when it is to be passed; a recovery has settled what it passed.
RunFits(r, pl, st) ==
    /\ r = [who |-> r.who, mode |-> r.mode, content |-> r.content, idx |-> r.idx, pc |-> r.pc,
            scanned |-> r.scanned, fps |-> r.fps, deferred |-> r.deferred]
    /\ r.who \in {"none", "recover", "ingest"} /\ r.mode \in S!Modes /\ r.idx \in Nat /\ r.idx >= 1
    /\ r.who # "none" => r.content \in Contents
    /\ r.who # "none" /\ r.pc \in {"bind", "plan", "store", "save"} => r.idx <= Len(r.content)
    /\ r.who # "none" /\ r.pc = "store" => pl[r.content[r.idx]] # "none"
    /\ r.who # "none" /\ r.pc = "save" => Settled(r.content[r.idx], st)
    /\ r.who = "recover" => \A i \in 1..(r.idx - 1) : Settled(r.content[i], st)
    /\ \A x \in r.fps : Settled(x, st)

SInv ==
    /\ file \in Contents \cup {Missing}
    /\ RoutesFit(plan, bound, stored) /\ CursorsFit(cursor, stored) /\ SeenFits(seen, stored)
    /\ RunFits(run, plan, stored)

LEMMA NobodyFits == \A pl, st : RunFits(S!Nobody, pl, st)
  BY DEF S!Nobody, RunFits, S!Modes

LEMMA NoCursorFits ==
    ASSUME NEW st
    PROVE  S!NoCursor.offset \in Nat /\ \A i \in 1..S!NoCursor.offset : Settled(S!NoCursor.version[i], st)
  BY DEF S!NoCursor

LEMMA SInit == S!Init => SInv
<1> SUFFICES ASSUME S!Init
             PROVE  SInv
  OBVIOUS
<1>1. RoutesFit(plan, bound, stored)
  BY DEF S!Init, RoutesFit
<1>2. CursorsFit(cursor, stored)
  BY NoCursorFits DEF S!Init, CursorsFit
<1>3. SeenFits(seen, stored) /\ RunFits(run, plan, stored) /\ file \in Contents \cup {Missing}
  BY NobodyFits DEF S!Init, SeenFits
<1> QED BY <1>1, <1>2, <1>3 DEF SInv

LEMMA SFits == SInv => S!StoredOnce /\ S!SkippedIsSettled
<1> SUFFICES ASSUME SInv
             PROVE  S!StoredOnce /\ S!SkippedIsSettled
  OBVIOUS
<1>1. ASSUME NEW s \in stored, NEW t \in stored, s[1] = t[1]
      PROVE  s = t
  <2>1. /\ s = <<s[1], s[2]>> /\ s[2] = IF plan[s[1]] = "capture" THEN bound[s[1]] ELSE S!AsEvent
        /\ t = <<t[1], t[2]>> /\ t[2] = IF plan[t[1]] = "capture" THEN bound[t[1]] ELSE S!AsEvent
    BY DEF SInv, RoutesFit
  <2>2. s[2] = t[2]
    BY <1>1, <2>1
  <2> QED BY <1>1, <2>1, <2>2
<1>2. ASSUME NEW m \in S!Modes, NEW i \in 1..cursor[m].offset
      PROVE  S!Stored(cursor[m].version[i]) \/ cursor[m].version[i] \in Private
  BY DEF SInv, CursorsFit, Settled, S!Stored
<1>3. ASSUME NEW r \in seen.fps
      PROVE  S!Stored(r) \/ r \in Private
  BY DEF SInv, SeenFits, Settled, S!Stored
<1> QED BY <1>1, <1>2, <1>3 DEF S!StoredOnce, S!SkippedIsSettled

\* What was settled stays so.
LEMMA FitsStays ==
    ASSUME NEW st, NEW st2, st \subseteq st2, NEW pl, NEW pl2,
           \A x \in S!Records : pl[x] # "none" => pl2[x] # "none"
    PROVE  /\ \A x : Settled(x, st) => Settled(x, st2)
           /\ \A cs : CursorsFit(cs, st) => CursorsFit(cs, st2)
           /\ \A sn : SeenFits(sn, st) => SeenFits(sn, st2)
           /\ \A r : RunFits(r, pl, st) => RunFits(r, pl2, st2)
<1>1. \A x : Settled(x, st) => Settled(x, st2)
  BY DEF Settled
<1>2. ASSUME NEW r, RunFits(r, pl, st)
      PROVE  RunFits(r, pl2, st2)
  <2>1. r.who # "none" /\ r.pc = "store" => pl2[r.content[r.idx]] # "none"
    <3> SUFFICES ASSUME r.who # "none", r.pc = "store"
                 PROVE  pl2[r.content[r.idx]] # "none"
      OBVIOUS
    <3>1. r.content \in Seq(S!Records) /\ r.idx \in Nat /\ r.idx >= 1 /\ r.idx <= Len(r.content)
      BY <1>2, ContentsAreSequences DEF RunFits
    <3>2. r.content[r.idx] \in S!Records
      BY <3>1
    <3> QED BY <1>2, <3>2 DEF RunFits
  <2> QED BY <1>1, <1>2, <2>1 DEF RunFits
<1> QED BY <1>1, <1>2 DEF CursorsFit, SeenFits

\* The record at hand.
LEMMA RecordAtHand ==
    ASSUME SInv, run.who # "none", run.idx <= Len(run.content)
    PROVE  S!Record \in S!Records /\ S!Record = run.content[run.idx]
<1>1. run.content \in Seq(S!Records) /\ run.idx \in Nat /\ run.idx >= 1
  BY ContentsAreSequences DEF SInv, RunFits
<1>2. run.content[run.idx] \in S!Records
  BY <1>1
<1> QED BY <1>2 DEF S!Record

LEMMA AtHand ==
    ASSUME SInv, NEW pc \in {"bind", "plan", "store", "save"}, S!Holds(pc)
    PROVE  /\ S!Record \in S!Records /\ S!Record = run.content[run.idx]
           /\ run.who # "none" /\ run.pc = pc /\ run.idx <= Len(run.content)
<1>1. run.who # "none" /\ run.pc = pc
  BY DEF S!Holds
<1>2. run.idx <= Len(run.content)
  BY <1>1 DEF SInv, RunFits
<1> QED BY <1>1, <1>2, RecordAtHand

\* The run goes on with the record at hand.
LEMMA RunMoves ==
    ASSUME SInv, NEW pc, run.who # "none",
           pc \in {"bind", "plan", "store", "save"} => run.idx <= Len(run.content),
           pc = "store" => plan[run.content[run.idx]] # "none",
           pc = "save" => Settled(run.content[run.idx], stored),
           NEW r, r = [run EXCEPT !.pc = pc]
    PROVE  RunFits(r, plan, stored)
<1>1. r = [who |-> run.who, mode |-> run.mode, content |-> run.content, idx |-> run.idx, pc |-> pc,
           scanned |-> run.scanned, fps |-> run.fps, deferred |-> run.deferred]
  BY DEF SInv, RunFits
<1> QED BY <1>1 DEF SInv, RunFits

\* The run passes the record at hand, which a recovery has settled.
LEMMA RunPasses ==
    ASSUME SInv, run.who # "none", run.who = "recover" => Settled(run.content[run.idx], stored),
           NEW fps, \A x \in fps : Settled(x, stored), NEW deferred, NEW scanned, NEW r,
           r = [who |-> run.who, mode |-> run.mode, content |-> run.content, idx |-> run.idx + 1,
                pc |-> "record", scanned |-> scanned, fps |-> fps, deferred |-> deferred]
    PROVE  RunFits(r, plan, stored)
<1>1. /\ r.who = run.who /\ r.mode = run.mode /\ r.content = run.content /\ r.idx = run.idx + 1
      /\ r.pc = "record" /\ r.fps = fps /\ run.idx \in Nat /\ run.idx >= 1
      /\ r = [who |-> r.who, mode |-> r.mode, content |-> r.content, idx |-> r.idx, pc |-> r.pc,
              scanned |-> r.scanned, fps |-> r.fps, deferred |-> r.deferred]
  BY DEF SInv, RunFits
<1>2. r.idx \in Nat /\ r.idx >= 1
  BY <1>1
<1>3. ASSUME r.who = "recover"
      PROVE  \A i \in 1..(r.idx - 1) : Settled(r.content[i], stored)
  <2>1. \A i \in 1..(run.idx - 1) : Settled(run.content[i], stored)
    BY <1>1, <1>3 DEF SInv, RunFits
  <2>2. \A i \in 1..(r.idx - 1) : i = run.idx \/ i \in 1..(run.idx - 1)
    BY <1>1
  <2> QED BY <1>1, <1>3, <2>1, <2>2
<1>4. /\ r.who \in {"none", "recover", "ingest"} /\ r.mode \in S!Modes
      /\ r.who # "none" => r.content \in Contents
  BY <1>1 DEF SInv, RunFits
<1> QED BY <1>1, <1>2, <1>3, <1>4 DEF RunFits

LEMMA PassedIs ==
    ASSUME SInv
    PROVE  \E e : S!Passed = [who |-> run.who, mode |-> run.mode, content |-> run.content, idx |-> run.idx + 1,
                              pc |-> "record", scanned |-> e, fps |-> run.fps, deferred |-> run.deferred]
<1>1. PICK r, w, m, c, k, q, b, f, d, e, i :
          /\ r = run /\ w = r.who /\ m = r.mode /\ c = r.content /\ k = r.idx /\ q = r.pc
          /\ b = r.scanned /\ f = r.fps /\ d = r.deferred /\ e = TRUE /\ i = run.idx + 1
  OBVIOUS
<1>2. r = [who |-> w, mode |-> m, content |-> c, idx |-> k, pc |-> q,
           scanned |-> b, fps |-> f, deferred |-> d]
  BY <1>1 DEF SInv, RunFits
<1>3. S!Passed = [r EXCEPT !.idx = i, !.pc = "record", !.scanned = e]
  BY <1>1 DEF S!Passed
<1> DEFINE x == [r EXCEPT !.idx = i]
           y == [x EXCEPT !.pc = "record"]
<1>4. x = [who |-> w, mode |-> m, content |-> c, idx |-> i, pc |-> q,
           scanned |-> b, fps |-> f, deferred |-> d]
  BY <1>2
<1>5. [r EXCEPT !.idx = i, !.pc = "record", !.scanned = e] = [y EXCEPT !.scanned = e]
  BY <1>2
<1> HIDE DEF x
<1>6. y = [who |-> w, mode |-> m, content |-> c, idx |-> i, pc |-> "record",
           scanned |-> b, fps |-> f, deferred |-> d]
  BY <1>4
<1> HIDE DEF y
<1>7. [y EXCEPT !.scanned = e] = [who |-> w, mode |-> m, content |-> c, idx |-> i, pc |-> "record",
           scanned |-> e, fps |-> f, deferred |-> d]
  BY <1>6
<1> QED BY <1>1, <1>3, <1>5, <1>7

\* The cursor comes to stand behind the record at hand.
LEMMA OffsetFits ==
    ASSUME SInv, run.who = "recover", Settled(run.content[run.idx], stored), S!SaveOffset
    PROVE  CursorsFit(cursor', stored)
<1> DEFINE c == [version |-> run.content, offset |-> run.idx]
<1>1. run.idx \in Nat /\ run.idx >= 1 /\ run.mode \in S!Modes
  BY DEF SInv, RunFits
<1>2. \A i \in 1..run.idx : Settled(run.content[i], stored)
  <2>1. \A i \in 1..(run.idx - 1) : Settled(run.content[i], stored)
    BY DEF SInv, RunFits
  <2>2. \A i \in 1..run.idx : i = run.idx \/ i \in 1..(run.idx - 1)
    BY <1>1
  <2> QED BY <2>1, <2>2
<1>3. c.version = run.content /\ c.offset = run.idx
  OBVIOUS
<1>4. cursor' = [cursor EXCEPT ![run.mode] = c]
  BY DEF S!SaveOffset
<1> HIDE DEF c
<1>5. cursor'[run.mode] = c /\ (\A m \in S!Modes : m # run.mode => cursor'[m] = cursor[m]) /\ DOMAIN cursor' = S!Modes
  BY <1>1, <1>4 DEF SInv, CursorsFit
<1> QED BY <1>1, <1>2, <1>3, <1>5 DEF SInv, CursorsFit

\* An ingestion keeps the fingerprint too, or defers the source.
LEMMA PassedKeeping ==
    ASSUME SInv
    PROVE  \E e : [S!Passed EXCEPT !.fps = S!Passed.fps \cup {S!Record}]
                  = [who |-> run.who, mode |-> run.mode, content |-> run.content, idx |-> run.idx + 1,
                     pc |-> "record", scanned |-> e, fps |-> run.fps \cup {S!Record}, deferred |-> run.deferred]
<1>1. PICK e : S!Passed = [who |-> run.who, mode |-> run.mode, content |-> run.content, idx |-> run.idx + 1,
                           pc |-> "record", scanned |-> e, fps |-> run.fps, deferred |-> run.deferred]
  BY PassedIs
<1>2. PICK w, m, c, i, f, d, x :
          /\ w = run.who /\ m = run.mode /\ c = run.content /\ i = run.idx + 1 /\ f = run.fps
          /\ d = run.deferred /\ x = f \cup {S!Record}
  OBVIOUS
<1>3. S!Passed = [who |-> w, mode |-> m, content |-> c, idx |-> i, pc |-> "record",
                  scanned |-> e, fps |-> f, deferred |-> d]
  BY <1>1, <1>2
<1>4. /\ S!Passed.fps = f
      /\ [S!Passed EXCEPT !.fps = x] = [who |-> w, mode |-> m, content |-> c, idx |-> i, pc |-> "record",
                                        scanned |-> e, fps |-> x, deferred |-> d]
  BY <1>3
<1> QED BY <1>2, <1>4

LEMMA PassedDeferred ==
    ASSUME SInv
    PROVE  \E e, d : [S!Passed EXCEPT !.deferred = TRUE]
                  = [who |-> run.who, mode |-> run.mode, content |-> run.content, idx |-> run.idx + 1,
                     pc |-> "record", scanned |-> e, fps |-> run.fps, deferred |-> d]
<1>1. PICK e : S!Passed = [who |-> run.who, mode |-> run.mode, content |-> run.content, idx |-> run.idx + 1,
                           pc |-> "record", scanned |-> e, fps |-> run.fps, deferred |-> run.deferred]
  BY PassedIs
<1>2. PICK w, m, c, i, f, d, b :
          /\ w = run.who /\ m = run.mode /\ c = run.content /\ i = run.idx + 1 /\ f = run.fps
          /\ b = run.deferred /\ d = TRUE
  OBVIOUS
<1>3. S!Passed = [who |-> w, mode |-> m, content |-> c, idx |-> i, pc |-> "record",
                  scanned |-> e, fps |-> f, deferred |-> b]
  BY <1>1, <1>2
<1>4. [S!Passed EXCEPT !.deferred = d] = [who |-> w, mode |-> m, content |-> c, idx |-> i, pc |-> "record",
                                          scanned |-> e, fps |-> f, deferred |-> d]
  BY <1>3
<1> QED BY <1>2, <1>4

LEMMA PageKeeps ==
    ASSUME SInv, S!recover_page
    PROVE  SInv'
<1> DEFINE mode == IF named THEN "trusted" ELSE "legacy"
<1>1. mode \in S!Modes
  BY DEF S!Modes
<1>2. UNCHANGED <<file, seen, plan, bound, stored>>
  BY DEF S!recover_page
<1>3. CASE file = Missing
  <2>1. cursor' = [cursor EXCEPT ![mode] = S!NoCursor] /\ UNCHANGED run
    BY <1>3 DEF S!recover_page
  <2> HIDE DEF mode
  <2>2. cursor'[mode] = S!NoCursor /\ (\A m \in S!Modes : m # mode => cursor'[m] = cursor[m]) /\ DOMAIN cursor' = S!Modes
    BY <1>1, <2>1 DEF SInv, CursorsFit
  <2>3. CursorsFit(cursor', stored)
    BY <2>2, NoCursorFits DEF SInv, CursorsFit
  <2> QED BY <1>2, <2>1, <2>3 DEF SInv
<1>4. CASE file # Missing
  <2> DEFINE first == IF cursor[mode].version = file THEN cursor[mode].offset + 1 ELSE 1
  <2>1. /\ run' = [S!Nobody EXCEPT !.who = "recover", !.mode = mode, !.content = file, !.idx = first]
        /\ UNCHANGED cursor
    BY <1>4 DEF S!recover_page, S!Becomes
  <2>2. file \in Contents
    BY <1>4 DEF SInv
  <2>3. cursor[mode].offset \in Nat /\ \A i \in 1..cursor[mode].offset : Settled(cursor[mode].version[i], stored)
    BY <1>1 DEF SInv, CursorsFit
  <2>4. first \in Nat /\ first >= 1 /\ \A i \in 1..(first - 1) : Settled(file[i], stored)
    BY <2>3
  <2>5. PICK j, m, b, w, l, c, k, q, f :
            /\ j = first /\ m = mode /\ b = FALSE
            /\ w = "none" /\ l = "legacy" /\ c = <<>> /\ k = 1 /\ q = "record" /\ f = {}
    OBVIOUS
  <2> HIDE DEF first, mode
  <2>6. S!Nobody = [who |-> w, mode |-> l, content |-> c, idx |-> k, pc |-> q,
                    scanned |-> b, fps |-> f, deferred |-> b]
    BY <2>5 DEF S!Nobody
  <2> DEFINE x == [S!Nobody EXCEPT !.who = "recover"]
             y == [x EXCEPT !.mode = m]
             z == [y EXCEPT !.content = file]
  <2>7. run' = [z EXCEPT !.idx = j]
    BY <2>1, <2>5, <2>6
  <2>8. x = [who |-> "recover", mode |-> l, content |-> c, idx |-> k, pc |-> q,
             scanned |-> b, fps |-> f, deferred |-> b]
    BY <2>6
  <2> HIDE DEF x
  <2>9. y = [who |-> "recover", mode |-> m, content |-> c, idx |-> k, pc |-> q,
             scanned |-> b, fps |-> f, deferred |-> b]
    BY <2>8
  <2> HIDE DEF y
  <2>10. z = [who |-> "recover", mode |-> m, content |-> file, idx |-> k, pc |-> q,
              scanned |-> b, fps |-> f, deferred |-> b]
    BY <2>9
  <2> HIDE DEF z
  <2>11. run' = [who |-> "recover", mode |-> m, content |-> file, idx |-> j, pc |-> q,
                 scanned |-> b, fps |-> f, deferred |-> b]
    BY <2>7, <2>10
  <2>12. RunFits(run', plan, stored)
    BY <1>1, <2>2, <2>4, <2>5, <2>11 DEF RunFits
  <2> QED BY <1>2, <2>1, <2>12 DEF SInv
<1> QED BY <1>3, <1>4

LEMMA IngestStarts ==
    ASSUME SInv, S!ingest_sources
    PROVE  SInv'
<1>1. /\ run' = [S!Nobody EXCEPT !.who = "ingest", !.content = file] /\ file # Missing
      /\ UNCHANGED <<file, cursor, seen, plan, bound, stored>>
  BY DEF S!ingest_sources, S!Becomes, S!stores
<1>2. PICK b, w, l, c, k, q, f :
          b = FALSE /\ w = "none" /\ l = "legacy" /\ c = <<>> /\ k = 1 /\ q = "record" /\ f = {}
  OBVIOUS
<1>3. S!Nobody = [who |-> w, mode |-> l, content |-> c, idx |-> k, pc |-> q,
                  scanned |-> b, fps |-> f, deferred |-> b]
  BY <1>2 DEF S!Nobody
<1> DEFINE x == [S!Nobody EXCEPT !.who = "ingest"]
<1>4. run' = [x EXCEPT !.content = file]
  BY <1>1, <1>3
<1>5. x = [who |-> "ingest", mode |-> l, content |-> c, idx |-> k, pc |-> q,
           scanned |-> b, fps |-> f, deferred |-> b]
  BY <1>3
<1> HIDE DEF x
<1>6. run' = [who |-> "ingest", mode |-> l, content |-> file, idx |-> k, pc |-> q,
              scanned |-> b, fps |-> f, deferred |-> b]
  BY <1>4, <1>5
<1>7. "legacy" \in S!Modes /\ file \in Contents
  BY <1>1 DEF S!Modes, SInv
<1>8. RunFits(run', plan, stored)
  BY <1>2, <1>6, <1>7 DEF RunFits
<1> QED BY <1>1, <1>8 DEF SInv

LEMMA NextRecoveredKeeps ==
    ASSUME SInv, S!NextRecovered
    PROVE  SInv'
<1>1. /\ run.who = "recover" /\ run.who # "none" /\ run.idx <= Len(run.content)
      /\ UNCHANGED <<file, seen, plan, bound, stored>>
  BY DEF S!NextRecovered, S!Holds, S!More
<1>2. S!Record = run.content[run.idx]
  BY DEF S!Record
<1>3. CASE run.mode = "legacy" /\ S!Record \in Private
  <2>1. S!SaveOffset /\ run' = S!Passed
    BY <1>3 DEF S!NextRecovered, S!Becomes
  <2>2. Settled(run.content[run.idx], stored)
    BY <1>2, <1>3 DEF Settled
  <2>3. CursorsFit(cursor', stored)
    BY <1>1, <2>1, <2>2, OffsetFits
  <2>4. \A x \in run.fps : Settled(x, stored)
    BY DEF SInv, RunFits
  <2>5. RunFits(run', plan, stored)
    BY <1>1, <2>1, <2>2, <2>4, PassedIs, RunPasses
  <2> QED BY <1>1, <2>3, <2>5 DEF SInv
<1>4. CASE ~(run.mode = "legacy" /\ S!Record \in Private)
  <2>1. run' = [run EXCEPT !.pc = "bind"] /\ UNCHANGED cursor
    BY <1>4 DEF S!NextRecovered, S!Goto, S!Becomes
  <2>2. RunFits(run', plan, stored)
    BY <1>1, <2>1, RunMoves
  <2> QED BY <1>1, <2>1, <2>2 DEF SInv
<1> QED BY <1>3, <1>4

LEMMA NextIngestedKeeps ==
    ASSUME SInv, S!NextIngested
    PROVE  SInv'
<1>1. /\ run.who # "none" /\ run.who # "recover" /\ run.idx <= Len(run.content)
      /\ UNCHANGED <<file, cursor, seen, plan, bound, stored>>
  BY DEF S!NextIngested, S!Holds, S!More, S!stores
<1>2. CASE S!Record \in Private \cup seen.fps
  <2>1. run' = [S!Passed EXCEPT !.fps = S!Passed.fps \cup {S!Record}]
    BY <1>2 DEF S!NextIngested, S!Becomes
  <2>2. Settled(S!Record, stored)
    BY <1>2 DEF SInv, SeenFits, Settled
  <2>3. \A x \in run.fps \cup {S!Record} : Settled(x, stored)
    BY <2>2 DEF SInv, RunFits
  <2>4. RunFits(run', plan, stored)
    BY <1>1, <2>1, <2>3, PassedKeeping, RunPasses
  <2> QED BY <1>1, <2>4 DEF SInv
<1>3. CASE ~(S!Record \in Private \cup seen.fps)
  <2>1. run' = [run EXCEPT !.pc = "bind"]
    BY <1>3 DEF S!NextIngested, S!Becomes
  <2>2. RunFits(run', plan, stored)
    BY <1>1, <2>1, RunMoves
  <2> QED BY <1>1, <2>2 DEF SInv
<1> QED BY <1>2, <1>3

LEMMA BindKeeps ==
    ASSUME SInv, S!_bound_identity
    PROVE  SInv'
<1>1. S!Holds("bind") /\ run' = [run EXCEPT !.pc = "plan"] /\ UNCHANGED <<file, cursor, seen, plan, stored>>
  BY DEF S!_bound_identity, S!Goto, S!Becomes
<1>2. S!Record \in S!Records /\ run.who # "none" /\ run.idx <= Len(run.content)
  BY <1>1, AtHand
<1>3. RunFits(run', plan, stored)
  BY <1>1, <1>2, RunMoves
<1>4. \/ UNCHANGED bound
      \/ bound[S!Record] = <<>> /\ bound' = [bound EXCEPT ![S!Record] = run.content]
  BY DEF S!_bound_identity
<1>5. RoutesFit(plan, bound', stored)
  <2>1. CASE UNCHANGED bound
    BY <2>1 DEF SInv
  <2>2. CASE bound[S!Record] = <<>> /\ bound' = [bound EXCEPT ![S!Record] = run.content]
    <3>1. /\ DOMAIN bound' = S!Records
          /\ \A r \in S!Records : bound[r] # <<>> => bound'[r] = bound[r]
      BY <1>2, <2>2 DEF SInv, RoutesFit
    <3>2. \A r \in S!Records : plan[r] = "capture" => bound'[r] = bound[r]
      BY <3>1 DEF SInv, RoutesFit
    <3> QED BY <3>1, <3>2 DEF SInv, RoutesFit
  <2> QED BY <1>4, <2>1, <2>2
<1> QED BY <1>1, <1>3, <1>5 DEF SInv

LEMMA PlanKeeps ==
    ASSUME SInv, S!WritePlan
    PROVE  SInv'
<1>1. S!Holds("plan") /\ UNCHANGED <<file, cursor, seen, bound, stored>>
  BY DEF S!WritePlan
<1>2. /\ S!Record \in S!Records /\ S!Record = run.content[run.idx]
      /\ run.who # "none" /\ run.idx <= Len(run.content)
  BY <1>1, AtHand
<1>3. CASE S!EvidenceUnknown(S!Record)
  <2>1. run' = S!Nobody /\ UNCHANGED plan
    BY <1>3 DEF S!WritePlan, S!Becomes
  <2> QED BY <1>1, <2>1, NobodyFits DEF SInv
<1>4. CASE ~S!EvidenceUnknown(S!Record)
  <2>1. run' = [run EXCEPT !.pc = "store"]
    BY <1>4 DEF S!WritePlan, S!Goto, S!Becomes
  <2>2. CASE plan[S!Record] # "none"
    <3>1. UNCHANGED plan
      BY <1>4, <2>2 DEF S!WritePlan
    <3>2. RunFits(run', plan, stored)
      BY <1>2, <2>1, <2>2, RunMoves
    <3> QED BY <1>1, <3>1, <3>2 DEF SInv
  <2>3. CASE plan[S!Record] = "none"
    <3> DEFINE route == IF bound[S!Record] # <<>> /\ ~S!HasEvent(S!Record) THEN "capture" ELSE "event"
    <3>1. plan' = [plan EXCEPT ![S!Record] = route]
      BY <1>4, <2>3 DEF S!WritePlan
    <3>2. route \in {"capture", "event"} /\ (route = "capture" => bound[S!Record] # <<>>)
      OBVIOUS
    <3> HIDE DEF route
    <3>3. /\ plan' \in [S!Records -> {"none", "capture", "event"}] /\ plan'[S!Record] = route
          /\ \A r \in S!Records : r # S!Record => plan'[r] = plan[r]
      BY <1>2, <3>1, <3>2 DEF SInv, RoutesFit
    <3>4. \A s \in stored : s[1] # S!Record
      BY <2>3 DEF SInv, RoutesFit
    <3>5. RoutesFit(plan', bound, stored)
      BY <3>2, <3>3, <3>4 DEF SInv, RoutesFit
    <3>6. \A x \in S!Records : plan[x] # "none" => plan'[x] # "none"
      BY <2>3, <3>3
    <3>7. RunFits(run, plan', stored)
      BY <3>6, FitsStays DEF SInv
    <3>8. plan'[run.content[run.idx]] # "none"
      BY <1>2, <3>2, <3>3
    <3>9. RunFits(run', plan', stored)
      <4>1. run' = [who |-> run.who, mode |-> run.mode, content |-> run.content, idx |-> run.idx, pc |-> "store",
                    scanned |-> run.scanned, fps |-> run.fps, deferred |-> run.deferred]
        BY <2>1, <3>7 DEF RunFits
      <4> QED BY <1>2, <3>7, <3>8, <4>1 DEF RunFits
    <3> QED BY <1>1, <3>5, <3>9 DEF SInv
  <2> QED BY <2>2, <2>3
<1> QED BY <1>3, <1>4

LEMMA StoreKeeps ==
    ASSUME SInv, S!StoreRecord
    PROVE  SInv'
<1> DEFINE identity == IF plan[S!Record] = "capture" THEN bound[S!Record] ELSE S!AsEvent
<1>1. /\ S!Holds("store") /\ run' = [run EXCEPT !.pc = "save"]
      /\ stored' = stored \cup {<<S!Record, identity>>} /\ UNCHANGED <<file, cursor, seen, plan, bound>>
  BY DEF S!StoreRecord, S!Goto, S!Becomes
<1>2. /\ S!Record \in S!Records /\ S!Record = run.content[run.idx]
      /\ run.who # "none" /\ run.idx <= Len(run.content) /\ run.pc = "store"
  BY <1>1, AtHand
<1>3. plan[S!Record] # "none"
  BY <1>2 DEF SInv, RunFits
<1>4. RoutesFit(plan, bound, stored')
  <2>1. ASSUME NEW s \in stored'
        PROVE  /\ s = <<s[1], s[2]>> /\ s[1] \in S!Records /\ plan[s[1]] # "none"
               /\ s[2] = IF plan[s[1]] = "capture" THEN bound[s[1]] ELSE S!AsEvent
    <3>1. CASE s \in stored
      BY <3>1 DEF SInv, RoutesFit
    <3>2. CASE s = <<S!Record, identity>>
      BY <1>2, <1>3, <3>2
    <3> QED BY <1>1, <2>1, <3>1, <3>2
  <2> QED BY <2>1 DEF SInv, RoutesFit
<1>5. Settled(S!Record, stored')
  <2>1. <<S!Record, identity>>[1] = S!Record
    OBVIOUS
  <2> HIDE DEF identity
  <2> QED BY <1>1, <2>1 DEF Settled
<1> HIDE DEF identity
<1>6. stored \subseteq stored'
  BY <1>1
<1>7. CursorsFit(cursor, stored') /\ SeenFits(seen, stored') /\ RunFits(run, plan, stored')
  BY <1>6, FitsStays DEF SInv
<1>8. run' = [who |-> run.who, mode |-> run.mode, content |-> run.content, idx |-> run.idx, pc |-> "save",
              scanned |-> run.scanned, fps |-> run.fps, deferred |-> run.deferred]
  BY <1>1, <1>7 DEF RunFits
<1>9. RunFits(run', plan, stored')
  BY <1>2, <1>5, <1>7, <1>8 DEF RunFits
<1> QED BY <1>1, <1>4, <1>7, <1>9 DEF SInv

LEMMA NotSecuredKeeps ==
    ASSUME SInv, S!NotSecured
    PROVE  SInv'
<1>1. S!Holds("store") /\ UNCHANGED <<file, seen, plan, bound, stored>>
  BY DEF S!NotSecured
<1>2. S!Record = run.content[run.idx] /\ run.who # "none"
  BY <1>1, AtHand
<1>3. \A x \in run.fps : Settled(x, stored)
  BY DEF SInv, RunFits
<1>4. CASE run.who = "ingest"
  <2>1. UNCHANGED cursor /\ (run' = S!Nobody \/ run' = [S!Passed EXCEPT !.deferred = TRUE])
    BY <1>4 DEF S!NotSecured, S!Becomes
  <2>2. RunFits(run', plan, stored)
    <3>1. CASE run' = S!Nobody
      BY <3>1, NobodyFits
    <3>2. CASE run' = [S!Passed EXCEPT !.deferred = TRUE]
      BY <1>2, <1>3, <1>4, <3>2, PassedDeferred, RunPasses
    <3> QED BY <2>1, <3>1, <3>2
  <2> QED BY <1>1, <2>1, <2>2 DEF SInv
<1>5. CASE run.who # "ingest" /\ run.mode = "trusted" /\ S!Record \in Private
  <2>1. run' = S!Passed /\ S!SaveOffset
    BY <1>5 DEF S!NotSecured, S!Becomes
  <2>2. run.who = "recover" /\ Settled(run.content[run.idx], stored)
    BY <1>2, <1>5 DEF SInv, RunFits, Settled
  <2>3. CursorsFit(cursor', stored)
    BY <2>1, <2>2, OffsetFits
  <2>4. RunFits(run', plan, stored)
    BY <1>2, <1>3, <2>1, <2>2, PassedIs, RunPasses
  <2> QED BY <1>1, <2>3, <2>4 DEF SInv
<1>6. CASE run.who # "ingest" /\ ~(run.mode = "trusted" /\ S!Record \in Private)
  <2>1. run' = S!Nobody /\ UNCHANGED cursor
    BY <1>6 DEF S!NotSecured, S!Becomes
  <2> QED BY <1>1, <2>1, NobodyFits DEF SInv
<1> QED BY <1>4, <1>5, <1>6

LEMMA SaveKeeps ==
    ASSUME SInv, S!SaveRecord
    PROVE  SInv'
<1>1. S!Holds("save") /\ UNCHANGED <<file, seen, plan, bound, stored>>
  BY DEF S!SaveRecord
<1>2. S!Record = run.content[run.idx] /\ run.who # "none" /\ run.pc = "save"
  BY <1>1, AtHand
<1>3. Settled(run.content[run.idx], stored) /\ \A x \in run.fps : Settled(x, stored)
  BY <1>2 DEF SInv, RunFits
<1>4. CASE run.who = "recover"
  <2>1. run' = S!Passed /\ S!SaveOffset
    BY <1>4 DEF S!SaveRecord, S!Becomes
  <2>2. CursorsFit(cursor', stored)
    BY <1>3, <1>4, <2>1, OffsetFits
  <2>3. RunFits(run', plan, stored)
    BY <1>2, <1>3, <2>1, PassedIs, RunPasses
  <2> QED BY <1>1, <2>2, <2>3 DEF SInv
<1>5. CASE run.who # "recover"
  <2>1. run' = [S!Passed EXCEPT !.fps = S!Passed.fps \cup {S!Record}] /\ UNCHANGED cursor
    BY <1>5 DEF S!SaveRecord, S!Becomes
  <2>2. \A x \in run.fps \cup {S!Record} : Settled(x, stored)
    BY <1>2, <1>3
  <2>3. RunFits(run', plan, stored)
    BY <1>2, <1>3, <2>1, <2>2, PassedKeeping, RunPasses
  <2> QED BY <1>1, <2>1, <2>3 DEF SInv
<1> QED BY <1>4, <1>5

LEMMA SourcesStep == SInv /\ [S!Next]_(S!vars) => SInv'
<1> SUFFICES ASSUME SInv, [S!Next]_(S!vars)
             PROVE  SInv'
  OBVIOUS
<1>1. CASE UNCHANGED S!vars
  BY <1>1 DEF S!vars, SInv
<1>2. CASE S!FileDone
  <2>1. cursor' = [cursor EXCEPT ![run.mode] = S!NoCursor] /\ run' = S!Nobody /\ UNCHANGED <<file, seen, plan, bound, stored>>
    BY <1>2 DEF S!FileDone, S!Becomes
  <2>2. run.mode \in S!Modes
    BY DEF SInv, RunFits
  <2>3. cursor'[run.mode] = S!NoCursor /\ (\A m \in S!Modes : m # run.mode => cursor'[m] = cursor[m]) /\ DOMAIN cursor' = S!Modes
    BY <2>1, <2>2 DEF SInv, CursorsFit
  <2>4. CursorsFit(cursor', stored)
    BY <2>3, NoCursorFits DEF SInv, CursorsFit
  <2> QED BY <2>1, <2>4, NobodyFits DEF SInv
<1>3. CASE S!PageLimit \/ S!Die
  BY <1>3, NobodyFits DEF S!PageLimit, S!Die, S!Becomes, S!stores, SInv
<1>4. CASE S!IngestDone
  <2>1. /\ run' = S!Nobody /\ UNCHANGED <<file, cursor, plan, bound, stored>>
        /\ seen' = seen \/ seen' = [version |-> run.content, fps |-> run.fps]
    BY <1>4 DEF S!IngestDone, S!Becomes
  <2>2. \A x \in run.fps : Settled(x, stored)
    BY DEF SInv, RunFits
  <2>3. SeenFits(seen', stored)
    BY <2>1, <2>2 DEF SInv, SeenFits
  <2> QED BY <2>1, <2>3, NobodyFits DEF SInv
<1>5. CASE S!FileChanges
  BY <1>5 DEF S!FileChanges, S!stores, SInv
<1>6. CASE S!NamespaceChanges \/ S!CaptureExpires
  BY <1>6 DEF S!NamespaceChanges, S!CaptureExpires, S!stores, SInv
<1>7. CASE S!Progress
  BY <1>2, <1>4, <1>7, NextRecoveredKeeps, NextIngestedKeeps, BindKeeps, PlanKeeps, StoreKeeps,
     SaveKeeps, NotSecuredKeeps DEF S!Progress
<1> QED BY <1>1, <1>3, <1>5, <1>6, <1>7, PageKeeps, IngestStarts DEF S!Next

-----------------------------------------------------------------------------
(* The close-out (closeout_association.py, closeout_store.py).                 *)

IsRecord(r) == DOMAIN r = {"status", "content", "decision", "ref", "witness", "spool", "team"}
\* The positions of a call that has seen every proof.
Late == {"team", "summary", "delete", "finish"}
CTyped ==
    /\ IsRecord(rec) /\ DOMAIN call = C!Calls /\ DOMAIN acked = C!Calls
    /\ \A p \in C!Calls : IsRecord(call[p].r)
    /\ DOMAIN receipts = Targets /\ \A t \in Targets : DOMAIN receipts[t] = {"state", "own", "proof"}
    /\ DOMAIN binding = Targets
Decidedly ==
    \A t \in Targets :
        /\ receipts[t].state = "SECURED" => receipts[t].own \/ (marked /\ rec.decision = "YES")
        /\ receipts[t].proof => receipts[t].state # "WAITING"
\* A decision is taken once: a stale copy that says YES is of a record that says so still.
Undecided == {"none", "PREPARING"}
Agreed ==
    /\ rec.status \in Undecided => rec.decision # "YES"
    /\ \A p \in C!Calls : call[p].r.decision = "YES" => rec.decision = "YES"
\* What a new version s of the record r keeps of the decision.
Firm(r, s) == (r.decision = "YES" => s.decision = "YES") /\ (s.status \in Undecided => s.decision # "YES")
\* Neither the record nor a call's copy of it says DELIVERED of what the team does not have.
HandedOver ==
    /\ rec.team = "DELIVERED" => delivered
    /\ \A p \in C!Calls : call[p].r.team = "DELIVERED" => delivered
\* Proofs stay, so a call that has seen them all finishes with them all.
Witnessed ==
    \A p \in C!Calls : call[p].pc \in Late => \A t \in Targets : receipts[t].proof /\ binding[t] = "proof"
Confessed == \A p \in C!Calls : call[p].pc = "finishlost" => incident
CInv == CTyped /\ Decidedly /\ Agreed /\ HandedOver /\ Witnessed /\ Confessed
\* What a step owes.
CStep == CInv' /\ C!LossIsReported /\ \A p \in C!Calls : C!AckIsComplete(p)

LEMMA NoRecordIs ==
    IsRecord(C!NoRecord) /\ C!NoRecord.team = "none" /\ C!NoRecord.status = "none" /\ C!NoRecord.decision = "none"
  BY DEF IsRecord, C!NoRecord

LEMMA CInit == C!Init => CInv
<1> SUFFICES ASSUME C!Init
             PROVE  CInv
  OBVIOUS
<1>1. /\ rec = C!NoRecord /\ receipts = [t \in Targets |-> C!Waiting] /\ binding = [t \in Targets |-> "none"]
      /\ call = [p \in C!Calls |-> C!Rest] /\ acked = [p \in C!Calls |-> FALSE]
  BY DEF C!Init
<1>2. C!Rest.r = C!NoRecord /\ C!Rest.pc = "rest"
  BY DEF C!Rest
<1>3. DOMAIN C!Waiting = {"state", "own", "proof"} /\ C!Waiting.state = "WAITING" /\ ~C!Waiting.proof
  BY DEF C!Waiting
<1>4. CTyped
  BY <1>1, <1>2, <1>3, NoRecordIs DEF CTyped
<1>5. Decidedly
  BY <1>1, <1>3 DEF Decidedly
<1>6. Agreed /\ HandedOver /\ Witnessed /\ Confessed
  BY <1>1, <1>2, NoRecordIs DEF Agreed, HandedOver, Witnessed, Confessed, Late
<1> QED BY <1>4, <1>5, <1>6 DEF CInv

\* The journal's marker, the delivery and the incident are never taken back.
Onward == (marked => marked') /\ (delivered => delivered') /\ (incident => incident')
RecordGoes == IsRecord(rec') /\ (rec'.team = "DELIVERED" => delivered') /\ Firm(rec, rec')
Unlisted == ~(store.listed /\ ~store'.listed)

\* A call that goes on with a record.
LEMMA CloseoutGoes ==
    ASSUME CInv, NEW p \in C!Calls, NEW pc, NEW r, C!Go(p, pc, r), Onward, RecordGoes, Unlisted,
           UNCHANGED <<receipts, binding>>,
           IsRecord(r), r.team = "DELIVERED" => delivered', r.decision = "YES" => rec'.decision = "YES",
           pc \in Late => \A t \in Targets : receipts[t].proof /\ binding[t] = "proof",
           pc = "finishlost" => incident'
    PROVE  CStep
<1> DEFINE v == [pc |-> pc, r |-> r]
<1>1. call' = [call EXCEPT ![p] = v] /\ UNCHANGED acked
  BY DEF C!Go
<1>2. v.pc = pc /\ v.r = r
  OBVIOUS
<1> HIDE DEF v
<1>3. call'[p] = v /\ (\A q \in C!Calls : q # p => call'[q] = call[q]) /\ DOMAIN call' = C!Calls
  BY <1>1 DEF CInv, CTyped
<1>4. CTyped'
  BY <1>1, <1>2, <1>3 DEF CInv, CTyped, RecordGoes
<1>5. Decidedly' /\ Agreed'
  <2>1. Decidedly'
    BY DEF CInv, Decidedly, Onward, RecordGoes, Firm
  <2>2. Agreed'
    BY <1>2, <1>3 DEF CInv, Agreed, RecordGoes, Firm
  <2> QED BY <2>1, <2>2
<1>6. HandedOver'
  BY <1>2, <1>3 DEF CInv, HandedOver, Onward, RecordGoes
<1>7. Witnessed'
  BY <1>2, <1>3 DEF CInv, Witnessed
<1>8. Confessed'
  BY <1>2, <1>3 DEF CInv, Confessed, Onward
<1>9. C!LossIsReported
  BY DEF Unlisted, C!LossIsReported
<1>10. \A q \in C!Calls : C!AckIsComplete(q)
  BY <1>1 DEF C!AckIsComplete
<1> QED BY <1>4, <1>5, <1>6, <1>7, <1>8, <1>9, <1>10 DEF CInv, CStep

\* The receipts and bindings may get proofs while the call ends or goes on.
ReceiptsGo ==
    /\ DOMAIN receipts' = Targets /\ \A t \in Targets : DOMAIN receipts'[t] = {"state", "own", "proof"}
    /\ DOMAIN binding' = Targets
    /\ Decidedly'
    /\ \A t \in Targets : /\ receipts[t].proof => receipts'[t].proof
                          /\ binding[t] = "proof" => binding'[t] = "proof"

LEMMA ReceiptsStay ==
    ASSUME CInv, Onward, RecordGoes, UNCHANGED <<receipts, binding>>
    PROVE  ReceiptsGo
  BY DEF CInv, CTyped, Decidedly, Onward, ReceiptsGo, RecordGoes, Firm

\* A call that ends without an acknowledgement, or with one that is complete.
LEMMA CloseoutReturns ==
    ASSUME CInv, NEW p \in C!Calls, NEW a, C!Return(p, a), Onward, RecordGoes, ReceiptsGo, C!LossIsReported,
           a = "COMMITTED" => call[p].pc \in Late /\ UNCHANGED <<receipts, binding>>
    PROVE  CStep
<1>1. call' = [call EXCEPT ![p] = C!Rest] /\ acked' = [acked EXCEPT ![p] = (a = "COMMITTED")]
  BY DEF C!Return
<1>2. C!Rest.r = C!NoRecord /\ C!Rest.pc = "rest"
  BY DEF C!Rest
<1>3. call'[p] = C!Rest /\ (\A q \in C!Calls : q # p => call'[q] = call[q]) /\ DOMAIN call' = C!Calls
  BY <1>1 DEF CInv, CTyped
<1>4. /\ DOMAIN acked' = C!Calls /\ \A q \in C!Calls : q # p => acked'[q] = acked[q]
      /\ acked'[p] = (a = "COMMITTED")
  BY <1>1 DEF CInv, CTyped
<1>5. CTyped'
  BY <1>2, <1>3, <1>4, NoRecordIs DEF CInv, CTyped, RecordGoes, ReceiptsGo
<1>6. HandedOver' /\ Agreed'
  <2>1. HandedOver'
    BY <1>2, <1>3, NoRecordIs DEF CInv, HandedOver, Onward, RecordGoes
  <2>2. Agreed'
    BY <1>2, <1>3, NoRecordIs DEF CInv, Agreed, RecordGoes, Firm
  <2> QED BY <2>1, <2>2
<1>7. Witnessed'
  BY <1>2, <1>3 DEF CInv, Witnessed, ReceiptsGo, Late
<1>8. Confessed'
  BY <1>2, <1>3 DEF CInv, Confessed, Onward
<1>9. ASSUME NEW q \in C!Calls
      PROVE  C!AckIsComplete(q)
  <2> SUFFICES ASSUME acked'[q], ~acked[q]
               PROVE  /\ \A t \in Targets : receipts[t].proof /\ binding[t] = "proof"
                      /\ C!R(q).team = "DELIVERED" => delivered
    BY DEF C!AckIsComplete
  <2>1. q = p
    BY <1>4
  <2>2. a = "COMMITTED"
    BY <1>4, <2>1
  <2>3. call[p].pc \in Late
    BY <2>2
  <2> QED BY <2>1, <2>3 DEF CInv, Witnessed, HandedOver, C!R
<1> QED BY <1>5, <1>6, <1>7, <1>8, <1>9 DEF CInv, CStep, ReceiptsGo

\* The plain cases: everything but the call stays.
LEMMA QuietReturn ==
    ASSUME CInv, NEW p \in C!Calls, NEW a, C!Return(p, a), a # "COMMITTED", UNCHANGED <<store, rec, C!World>>
    PROVE  CStep
<1>1. Onward /\ RecordGoes /\ C!LossIsReported
  BY DEF C!World, Onward, RecordGoes, Firm, CInv, CTyped, HandedOver, Agreed, C!LossIsReported
<1> QED BY <1>1, ReceiptsStay, CloseoutReturns DEF C!World

LEMMA QuietGo ==
    ASSUME CInv, NEW p \in C!Calls, NEW pc, NEW r, C!Go(p, pc, r), UNCHANGED <<store, rec, C!World>>,
           r = rec \/ r = call[p].r,
           pc \in Late => \A t \in Targets : receipts[t].proof /\ binding[t] = "proof",
           pc = "finishlost" => incident
    PROVE  CStep
<1>1. Onward /\ RecordGoes /\ Unlisted
  BY DEF C!World, Onward, RecordGoes, Firm, CInv, CTyped, HandedOver, Agreed, Unlisted
<1>2. IsRecord(r) /\ (r.team = "DELIVERED" => delivered') /\ (r.decision = "YES" => rec'.decision = "YES")
  BY DEF CInv, CTyped, HandedOver, Agreed, C!World
<1> QED BY <1>1, <1>2, CloseoutGoes DEF C!World

\* The record is replaced, and the call goes on with it.
LEMMA RewrittenGo ==
    ASSUME CInv, NEW p \in C!Calls, NEW pc, C!Go(p, pc, rec'), UNCHANGED <<store, C!World>>,
           IsRecord(rec'), rec'.team \in {rec.team, "none", "EXPIRED"}, Firm(rec, rec'),
           pc \notin Late \cup {"finishlost"}
    PROVE  CStep
<1>1. Onward /\ RecordGoes /\ Unlisted
  BY DEF C!World, Onward, RecordGoes, CInv, HandedOver, Unlisted
<1>2. PICK r : r = rec'
  OBVIOUS
<1>3. C!Go(p, pc, r)
  BY <1>2 DEF C!Go
<1> QED BY <1>1, <1>2, <1>3, CloseoutGoes DEF RecordGoes, C!World

LEMMA Rewritten ==
    ASSUME NEW r, IsRecord(r)
    PROVE  /\ LET q == [r EXCEPT !.ref = TRUE]
              IN  IsRecord(q) /\ q.team = r.team /\ q.status = r.status /\ q.decision = r.decision
           /\ \A s : LET q == [r EXCEPT !.status = s, !.witness = TRUE]
                     IN  IsRecord(q) /\ q.team = r.team /\ q.status = s /\ q.decision = r.decision
           /\ \A s : LET q == [r EXCEPT !.status = s]
                     IN  IsRecord(q) /\ q.team = r.team /\ q.status = s /\ q.decision = r.decision
           /\ \A m : LET q == [r EXCEPT !.team = m]
                     IN  IsRecord(q) /\ q.team = m /\ q.status = r.status /\ q.decision = r.decision
           /\ LET q == [r EXCEPT !.spool = FALSE]
              IN  IsRecord(q) /\ q.team = r.team /\ q.status = r.status /\ q.decision = r.decision
  BY DEF IsRecord

LEMMA NewRecords ==
    \A d : /\ LET q == [C!NoRecord EXCEPT !.content = d]
              IN  IsRecord(q) /\ q.team = "none" /\ q.status = "none" /\ q.decision = "none"
           /\ LET q == C!_new_intent(d)
              IN  IsRecord(q) /\ q.team = "none" /\ q.status = "PREPARING" /\ q.decision = "none"
  BY DEF IsRecord, C!NoRecord, C!_new_intent

LEMMA ProcessKeeps ==
    ASSUME CInv, NEW p \in C!Calls, C!process_closeout(p)
    PROVE  CStep
<1>1. UNCHANGED <<store, rec, C!World>>
  BY DEF C!process_closeout, C!Disk
<1>2. CASE \E d \in {"YES", "NO"} : C!Go(p, "request", [C!NoRecord EXCEPT !.content = d])
  <2>1. PICK d : C!Go(p, "request", [C!NoRecord EXCEPT !.content = d])
    BY <1>2
  <2>2. PICK r : r = [C!NoRecord EXCEPT !.content = d]
    OBVIOUS
  <2>3. IsRecord(r) /\ r.team = "none" /\ r.decision = "none" /\ C!Go(p, "request", r)
    BY <2>1, <2>2, NewRecords
  <2>4. Onward /\ RecordGoes /\ Unlisted /\ UNCHANGED <<receipts, binding>>
    BY <1>1 DEF C!World, Onward, RecordGoes, Firm, CInv, CTyped, HandedOver, Agreed, Unlisted
  <2> QED BY <2>3, <2>4, CloseoutGoes DEF Late
<1>3. CASE \E why \in {"DEFERRED", "FAILED", "CLOSEOUT_PRIVACY_REJECTED"} : C!Return(p, why)
  BY <1>1, <1>3, QuietReturn
<1> QED BY <1>2, <1>3 DEF C!process_closeout

LEMMA ReservationKeeps ==
    ASSUME CInv, NEW p \in C!Calls, C!reserve(p)
    PROVE  CStep
<1>1. /\ rec = C!NoRecord /\ store' = [files |-> TRUE, listed |-> TRUE] /\ UNCHANGED C!World
      /\ \/ rec' = C!_new_intent(C!R(p).content) /\ C!Go(p, "prepare", rec')
         \/ C!Return(p, "died") /\ UNCHANGED rec
  BY DEF C!reserve
<1>2. Onward /\ Unlisted /\ C!LossIsReported /\ UNCHANGED <<receipts, binding>>
  BY <1>1 DEF C!World, Onward, Unlisted, C!LossIsReported
<1>3. CASE rec' = C!_new_intent(C!R(p).content) /\ C!Go(p, "prepare", rec')
  <2>1. PICK r : r = rec'
    OBVIOUS
  <2>2. IsRecord(r) /\ r.team = "none" /\ r.decision = "none" /\ C!Go(p, "prepare", r) /\ RecordGoes
    BY <1>1, <1>3, <2>1, NewRecords, NoRecordIs DEF RecordGoes, Firm, C!Go
  <2> QED BY <1>2, <2>2, CloseoutGoes DEF Late
<1>4. CASE C!Return(p, "died") /\ UNCHANGED rec
  <2>1. RecordGoes
    BY <1>2, <1>4 DEF RecordGoes, Firm, CInv, CTyped, HandedOver, Agreed, Onward
  <2> QED BY <1>2, <1>4, <2>1, ReceiptsStay, CloseoutReturns
<1> QED BY <1>1, <1>3, <1>4

LEMMA ApplyKeeps ==
    ASSUME CInv, NEW p \in C!Calls, C!apply_associated_closeout(p) \/ C!Prepare(p) \/ C!Recover(p) \/ C!Resume(p)
    PROVE  CStep
<1>1. UNCHANGED <<store, rec, C!World>>
  BY DEF C!apply_associated_closeout, C!Prepare, C!Recover, C!Resume, C!Disk
<1>2. CASE C!apply_associated_closeout(p)
  BY <1>1, <1>2, QuietReturn, QuietGo DEF C!apply_associated_closeout, Late
<1>3. CASE C!Prepare(p)
  BY <1>1, <1>3, QuietReturn, QuietGo DEF C!Prepare, Late, C!R
<1>4. CASE C!Recover(p)
  <2>1. C!Return(p, "CLOSEOUT_INDEX_UNKNOWN") \/ C!Go(p, "resume", rec)
    BY <1>4 DEF C!Recover, C!active_records
  <2> QED BY <1>1, <2>1, QuietReturn, QuietGo DEF Late
<1>5. CASE C!Resume(p)
  <2>1. \/ \E pc \in {"cleanup", "lost", "commit", "persist", "apply", "expire"} : C!Go(p, pc, call[p].r)
        \/ C!Return(p, "CLOSEOUT_CACHE_PENDING")
    <3> DEFINE r == call[p].r
    <3>1. CASE r.status = "COMMITTED"
      BY <1>5, <3>1 DEF C!Resume, C!R
    <3>2. CASE r.status = "LOST"
      BY <1>5, <3>2 DEF C!Resume, C!R
    <3>3. CASE r.status = "APPLIED"
      BY <1>5, <3>3 DEF C!Resume, C!R
    <3>4. CASE r.status = "PREPARING" /\ C!Readable
      BY <1>5, <3>4 DEF C!Resume, C!R
    <3>5. CASE r.status = "PREPARED" /\ C!Readable
      BY <1>5, <3>5 DEF C!Resume, C!R
    <3>6. CASE /\ r.status # "COMMITTED" /\ r.status # "LOST" /\ r.status # "APPLIED"
               /\ ~(r.status = "PREPARING" /\ C!Readable) /\ ~(r.status = "PREPARED" /\ C!Readable)
      BY <1>5, <3>6 DEF C!Resume, C!R
    <3> QED BY <3>1, <3>2, <3>3, <3>4, <3>5, <3>6
  <2> QED BY <1>1, <2>1, QuietReturn, QuietGo DEF Late
<1> QED BY <1>2, <1>3, <1>4, <1>5

LEMMA PersistKeeps ==
    ASSUME CInv, NEW p \in C!Calls, C!_persist_prepared(p) \/ C!_persist_application_ref(p)
    PROVE  CStep
<1>1. UNCHANGED <<store, C!World>> /\ IsRecord(rec)
  BY DEF C!_persist_prepared, C!_persist_application_ref, CInv, CTyped
<1>2. CASE C!_persist_prepared(p)
  <2>1. CASE rec.status \in {"PREPARING", "PREPARED"}
    <3>1. ((rec.status = "PREPARING" /\ rec' = C!Prepared(rec)) \/ rec' = rec) /\ C!Go(p, "apply", rec')
      BY <1>2, <2>1 DEF C!_persist_prepared
    <3>2. IsRecord(rec') /\ rec'.team = rec.team /\ Firm(rec, rec')
      <4>1. CASE rec.status = "PREPARING" /\ rec' = C!Prepared(rec)
        <5>1. IsRecord(rec') /\ rec'.team = rec.team /\ rec'.status = "PREPARED"
          BY <1>1, <4>1 DEF C!Prepared, IsRecord
        <5> QED BY <4>1, <5>1 DEF Firm, CInv, Agreed, Undecided
      <4>2. CASE rec' = rec
        BY <1>1, <4>2 DEF Firm, CInv, Agreed
      <4> QED BY <3>1, <4>1, <4>2
    <3> QED BY <1>1, <3>1, <3>2, RewrittenGo DEF Late
  <2>2. CASE rec.status \notin {"PREPARING", "PREPARED"}
    BY <1>1, <1>2, <2>2, QuietReturn DEF C!_persist_prepared
  <2> QED BY <2>1, <2>2
<1>3. CASE C!_persist_application_ref(p)
  <2>1. \/ C!Go(p, "verify", rec) /\ UNCHANGED rec
        \/ rec' = [rec EXCEPT !.ref = TRUE] /\ C!Go(p, "verify", rec')
        \/ C!Return(p, "CLOSEOUT_APPLICATION_REF_PENDING") /\ UNCHANGED rec
    BY <1>3 DEF C!_persist_application_ref
  <2>2. CASE rec' = [rec EXCEPT !.ref = TRUE] /\ C!Go(p, "verify", rec')
    <3>1. IsRecord(rec') /\ rec'.team = rec.team /\ Firm(rec, rec')
      BY <1>1, <2>2, Rewritten DEF Firm, CInv, Agreed, Undecided
    <3> QED BY <1>1, <2>2, <3>1, RewrittenGo DEF Late
  <2> QED BY <1>1, <2>1, <2>2, QuietReturn, QuietGo DEF Late
<1> QED BY <1>2, <1>3

LEMMA ChangeSetKeeps ==
    ASSUME CInv, NEW p \in C!Calls, C!_apply_prepared(p) \/ C!ApplyFails(p)
    PROVE  CStep
<1>1. CASE C!_apply_prepared(p)
  <2>1. UNCHANGED <<store, rec, receipts, binding, delivered, incident>>
    BY <1>1 DEF C!_apply_prepared, C!Disk
  <2>2. /\ marked' = TRUE \/ UNCHANGED marked
        /\ \/ \E pc \in {"commit", "verify", "reference"}, r \in {rec, call[p].r} : C!Go(p, pc, r)
           \/ \E a \in {"PENDING", "CLOSEOUT_PROOF_CONFLICT"} : C!Return(p, a)
    <3>1. CASE ~C!_revalidate_context_under_lock
      BY <1>1, <3>1 DEF C!_apply_prepared
    <3>2. CASE C!_revalidate_context_under_lock /\ C!R(p).decision = "NO"
      BY <1>1, <3>2 DEF C!_apply_prepared
    <3>3. CASE C!_revalidate_context_under_lock /\ C!R(p).decision # "NO"
      BY <1>1, <3>3 DEF C!_apply_prepared, C!R
    <3> QED BY <3>1, <3>2, <3>3
  <2>3. Onward /\ RecordGoes /\ Unlisted /\ C!LossIsReported
    BY <2>1, <2>2 DEF Onward, RecordGoes, Firm, CInv, CTyped, HandedOver, Agreed, Unlisted, C!LossIsReported
  <2>4. CASE \E pc \in {"commit", "verify", "reference"}, r \in {rec, call[p].r} : C!Go(p, pc, r)
    <3>1. PICK pc \in {"commit", "verify", "reference"}, r \in {rec, call[p].r} : C!Go(p, pc, r)
      BY <2>4
    <3>2. IsRecord(r) /\ (r.team = "DELIVERED" => delivered') /\ (r.decision = "YES" => rec'.decision = "YES")
      BY <2>1, <3>1 DEF CInv, CTyped, HandedOver, Agreed
    <3> QED BY <2>1, <2>3, <3>1, <3>2, CloseoutGoes DEF Late
  <2>5. CASE \E a \in {"PENDING", "CLOSEOUT_PROOF_CONFLICT"} : C!Return(p, a)
    BY <2>1, <2>3, <2>5, ReceiptsStay, CloseoutReturns
  <2> QED BY <2>2, <2>4, <2>5
<1>2. CASE C!ApplyFails(p)
  BY <1>2, QuietReturn DEF C!ApplyFails, C!Disk
<1> QED BY <1>1, <1>2

LEMMA WitnessKeeps ==
    ASSUME CInv, NEW p \in C!Calls, C!_persist_verified_witness(p) \/ C!_commit_closeout(p)
    PROVE  CStep
<1>1. UNCHANGED <<store, C!World>> /\ IsRecord(rec)
  BY DEF C!_persist_verified_witness, C!_commit_closeout, CInv, CTyped
<1>2. CASE C!_persist_verified_witness(p)
  <2>1. \/ \E a \in {"PENDING", "CLOSEOUT_WITNESS_PENDING"} : C!Return(p, a) /\ UNCHANGED rec
        \/ C!Go(p, "commit", rec) /\ UNCHANGED rec
        \/ rec' = [rec EXCEPT !.status = "APPLIED", !.witness = TRUE] /\ C!Go(p, "commit", rec')
    BY <1>2 DEF C!_persist_verified_witness
  <2>2. CASE rec' = [rec EXCEPT !.status = "APPLIED", !.witness = TRUE] /\ C!Go(p, "commit", rec')
    <3>1. IsRecord(rec') /\ rec'.team = rec.team /\ rec'.status = "APPLIED" /\ rec'.decision = rec.decision
      BY <1>1, <2>2 DEF IsRecord
    <3>2. Firm(rec, rec')
      BY <3>1 DEF Firm, Undecided
    <3> QED BY <1>1, <2>2, <3>1, <3>2, RewrittenGo DEF Late
  <2> QED BY <1>1, <2>1, <2>2, QuietReturn, QuietGo DEF Late
<1>3. CASE C!_commit_closeout(p)
  <2>1. \/ C!Return(p, "CLOSEOUT_STATE_CONFLICT") /\ UNCHANGED rec
        \/ rec' = [rec EXCEPT !.status = "COMMITTED"] /\ C!Go(p, "cleanup", rec')
    BY <1>3 DEF C!_commit_closeout
  <2>2. CASE rec' = [rec EXCEPT !.status = "COMMITTED"] /\ C!Go(p, "cleanup", rec')
    <3>1. IsRecord(rec') /\ rec'.team = rec.team /\ rec'.status = "COMMITTED" /\ rec'.decision = rec.decision
      BY <1>1, <2>2 DEF IsRecord
    <3>2. Firm(rec, rec')
      BY <3>1 DEF Firm, Undecided
    <3> QED BY <1>1, <2>2, <3>1, <3>2, RewrittenGo DEF Late
  <2> QED BY <1>1, <2>1, <2>2, QuietReturn
<1> QED BY <1>2, <1>3

LEMMA DecidedIs ==
    ASSUME NEW r, NEW t
    PROVE  DOMAIN receipts[t] = {"state", "own", "proof"}
             => /\ DOMAIN C!Decided(r, t) = {"state", "own", "proof"} /\ C!Decided(r, t).proof
                /\ C!Decided(r, t).own = receipts[t].own
                /\ C!Decided(r, t).state \in {"SECURED", "EVALUATED_NONE"}
                /\ C!Decided(r, t).state = "SECURED" => r.decision = "YES" \/ receipts[t].own
  BY DEF C!Decided

LEMMA ReceiptsKeep ==
    ASSUME CInv, NEW p \in C!Calls, C!_commit_receipts(p)
    PROVE  CStep
<1>1. UNCHANGED <<store, rec, marked, delivered, incident>>
  BY DEF C!_commit_receipts, C!Disk
<1>2. Onward /\ RecordGoes /\ Unlisted /\ C!LossIsReported
  BY <1>1 DEF Onward, RecordGoes, Firm, CInv, CTyped, HandedOver, Agreed, Unlisted, C!LossIsReported
<1> DEFINE ready == C!_verify_saved_yes(C!R(p)) /\ C!_preflight_closeout_targets
<1>3. CASE ~ready
  <2>1. C!Return(p, "PENDING") /\ UNCHANGED <<receipts, binding>>
    BY <1>3 DEF C!_commit_receipts
  <2> QED BY <1>2, <2>1, ReceiptsStay, CloseoutReturns
<1>4. CASE ready
  <2>1. C!R(p).decision = "YES" => marked /\ rec.decision = "YES"
    BY <1>4 DEF C!_verify_saved_yes, C!R, CInv, Agreed
  <2>2. ASSUME NEW done \in SUBSET Targets, NEW shown \in SUBSET Targets,
               receipts' = [u \in Targets |-> IF u \in done THEN C!Decided(C!R(p), u) ELSE receipts[u]],
               binding' = [u \in Targets |-> IF u \in shown THEN "proof" ELSE binding[u]]
        PROVE  ReceiptsGo
    <3>1. ASSUME NEW t \in Targets
          PROVE  /\ DOMAIN receipts'[t] = {"state", "own", "proof"}
                 /\ receipts'[t].state = "SECURED" => receipts'[t].own \/ (marked' /\ rec'.decision = "YES")
                 /\ receipts'[t].proof => receipts'[t].state # "WAITING"
                 /\ receipts[t].proof => receipts'[t].proof
      <4>1. CASE t \in done
        <5>1. receipts'[t] = C!Decided(C!R(p), t)
          BY <2>2, <4>1
        <5>2. DOMAIN receipts[t] = {"state", "own", "proof"}
          BY DEF CInv, CTyped
        <5> QED BY <1>1, <2>1, <5>1, <5>2, DecidedIs
      <4>2. CASE t \notin done
        <5>1. receipts'[t] = receipts[t]
          BY <2>2, <4>2
        <5> QED BY <1>1, <5>1 DEF CInv, CTyped, Decidedly
      <4> QED BY <4>1, <4>2
    <3>2. DOMAIN receipts' = Targets /\ DOMAIN binding' = Targets
      BY <2>2
    <3>3. \A t \in Targets : binding[t] = "proof" => binding'[t] = "proof"
      BY <2>2
    <3> QED BY <3>1, <3>2, <3>3 DEF ReceiptsGo, Decidedly
  <2>3. CASE /\ receipts' = [t \in Targets |-> C!Decided(C!R(p), t)]
             /\ binding' = [t \in Targets |-> "proof"] /\ C!Go(p, "committed", C!R(p))
    <3>1. receipts' = [u \in Targets |-> IF u \in Targets THEN C!Decided(C!R(p), u) ELSE receipts[u]]
      BY <2>3
    <3>2. binding' = [u \in Targets |-> IF u \in Targets THEN "proof" ELSE binding[u]]
      BY <2>3
    <3>3. ReceiptsGo
      BY <2>2, <3>1, <3>2
    <3> DEFINE v == [pc |-> "committed", r |-> call[p].r]
    <3>4. call' = [call EXCEPT ![p] = v] /\ UNCHANGED acked
      BY <2>3 DEF C!Go, C!R
    <3>5. v.pc = "committed" /\ v.r = call[p].r
      OBVIOUS
    <3> HIDE DEF v, ready
    <3>6. call'[p] = v /\ (\A q \in C!Calls : q # p => call'[q] = call[q]) /\ DOMAIN call' = C!Calls
      BY <3>4 DEF CInv, CTyped
    <3>7. CTyped'
      BY <1>1, <3>3, <3>4, <3>5, <3>6 DEF CInv, CTyped, ReceiptsGo
    <3>8. HandedOver' /\ Agreed'
      BY <1>1, <3>5, <3>6 DEF CInv, HandedOver, Agreed
    <3>9. Witnessed'
      BY <3>3, <3>5, <3>6 DEF CInv, Witnessed, ReceiptsGo, Late
    <3>10. Confessed'
      BY <1>1, <3>5, <3>6 DEF CInv, Confessed
    <3>11. \A q \in C!Calls : C!AckIsComplete(q)
      BY <3>4 DEF C!AckIsComplete
    <3> QED BY <1>2, <3>3, <3>7, <3>8, <3>9, <3>10, <3>11 DEF CInv, CStep, ReceiptsGo
  <2>4. CASE /\ \E done \in SUBSET Targets, t \in Targets :
                   /\ receipts' = [u \in Targets |-> IF u \in done \cup {t} THEN C!Decided(C!R(p), u) ELSE receipts[u]]
                   /\ binding' = [u \in Targets |-> IF u \in done THEN "proof" ELSE binding[u]]
             /\ C!Return(p, "CLOSEOUT_RECEIPT_PENDING")
    <3>1. ReceiptsGo
      BY <2>2, <2>4
    <3> QED BY <1>2, <2>4, <3>1, CloseoutReturns
  <2> QED BY <1>4, <2>3, <2>4 DEF C!_commit_receipts
<1> QED BY <1>3, <1>4

LEMMA CleanupKeeps ==
    ASSUME CInv, NEW p \in C!Calls, C!_cleanup_committed(p) \/ C!DeleteBody(p)
    PROVE  CStep
<1>1. UNCHANGED <<store, rec, C!World>>
  BY DEF C!_cleanup_committed, C!DeleteBody, C!Disk
<1>2. CASE C!_cleanup_committed(p)
  <2>1. CASE ~C!ProofsAreThere(C!R(p))
    BY <1>1, <1>2, <2>1, QuietReturn DEF C!_cleanup_committed
  <2>2. CASE C!ProofsAreThere(C!R(p))
    <3>1. \A t \in Targets : receipts[t].proof /\ binding[t] = "proof"
      BY <2>2 DEF C!ProofsAreThere
    <3>2. \E pc \in {"delete", "expire", "team"} : C!Go(p, pc, call[p].r)
      BY <1>2, <2>2 DEF C!_cleanup_committed, C!R
    <3> QED BY <1>1, <3>1, <3>2, QuietGo
  <2> QED BY <2>1, <2>2
<1>3. CASE C!DeleteBody(p)
  <2>1. \A t \in Targets : receipts[t].proof /\ binding[t] = "proof"
    BY <1>3 DEF C!DeleteBody, C!At, CInv, Witnessed, Late
  <2>2. C!Go(p, "finish", call[p].r) \/ C!Return(p, "CLOSEOUT_CLEANUP_PENDING")
    BY <1>3 DEF C!DeleteBody, C!R
  <2> QED BY <1>1, <2>1, <2>2, QuietReturn, QuietGo
<1> QED BY <1>2, <1>3

LEMMA HandoffKeeps ==
    ASSUME CInv, NEW p \in C!Calls, C!_finalize_team_handoff(p)
    PROVE  CStep
<1>1. PICK status \in C!TeamStatuses(C!R(p)) :
          /\ delivered' = (delivered \/ status = "ELIGIBLE")
          /\ C!Go(p, "summary", [C!R(p) EXCEPT !.team = C!_team_summary(status)])
  BY DEF C!_finalize_team_handoff
<1>2. call[p].pc = "team" /\ UNCHANGED <<store, rec, marked, receipts, binding, incident>>
  BY DEF C!_finalize_team_handoff, C!At, C!Disk
<1>3. Onward /\ Unlisted
  BY <1>1, <1>2 DEF Onward, Unlisted
<1>4. RecordGoes
  BY <1>2, <1>3 DEF RecordGoes, Firm, Onward, CInv, CTyped, HandedOver, Agreed
<1>5. C!_team_summary(status) = "DELIVERED" => status = "ELIGIBLE"
  BY DEF C!_team_summary
<1>6. PICK r : r = [C!R(p) EXCEPT !.team = C!_team_summary(status)]
  OBVIOUS
<1>7. IsRecord(C!R(p))
  BY DEF CInv, CTyped, C!R
<1>8. IsRecord(r) /\ r.team = C!_team_summary(status) /\ r.decision = call[p].r.decision
  <2>1. PICK m : m = C!_team_summary(status)
    OBVIOUS
  <2>2. r = [C!R(p) EXCEPT !.team = m]
    BY <1>6, <2>1
  <2>3. PICK o : o = C!R(p)
    OBVIOUS
  <2>4. IsRecord(r) /\ r.team = m /\ r.decision = C!R(p).decision
    BY <1>7, <2>2, <2>3 DEF IsRecord
  <2> QED BY <2>1, <2>4 DEF C!R
<1>12. r.decision = "YES" => rec'.decision = "YES"
  BY <1>2, <1>8 DEF CInv, Agreed
<1>9. r.team = "DELIVERED" => delivered'
  BY <1>1, <1>5, <1>8
<1>10. \A t \in Targets : receipts[t].proof /\ binding[t] = "proof"
  BY <1>2 DEF CInv, Witnessed, Late
<1>11. C!Go(p, "summary", r)
  BY <1>1, <1>6
<1> QED BY <1>2, <1>3, <1>4, <1>8, <1>9, <1>10, <1>11, <1>12, CloseoutGoes

LEMMA SummaryKeeps ==
    ASSUME CInv, NEW p \in C!Calls, C!_persist_team_summary(p)
    PROVE  CStep
<1>1. call[p].pc = "summary" /\ UNCHANGED <<store, C!World>>
  BY DEF C!_persist_team_summary, C!At
<1>2. CASE rec.status # "COMMITTED"
  BY <1>1, <1>2, QuietReturn DEF C!_persist_team_summary
<1>3. CASE rec.status = "COMMITTED"
  <2>1. /\ rec' = [rec EXCEPT !.team = call[p].r.team]
        /\ C!Go(p, "delete", call[p].r) \/ C!Return(p, "PENDING")
    BY <1>3 DEF C!_persist_team_summary, C!R
  <2>2. IsRecord(rec') /\ rec'.team = call[p].r.team /\ rec'.status = rec.status /\ rec'.decision = rec.decision
    <3>1. PICK m : m = call[p].r.team
      OBVIOUS
    <3>2. rec' = [rec EXCEPT !.team = m] /\ IsRecord(rec)
      BY <2>1, <3>1 DEF CInv, CTyped
    <3>3. IsRecord(rec') /\ rec'.team = m /\ rec'.status = rec.status /\ rec'.decision = rec.decision
      BY <3>2 DEF IsRecord
    <3> QED BY <3>1, <3>3
  <2>3. Onward /\ Unlisted /\ C!LossIsReported /\ UNCHANGED <<receipts, binding>>
    BY <1>1 DEF C!World, Onward, Unlisted, C!LossIsReported
  <2>4. RecordGoes
    BY <2>2, <2>3 DEF RecordGoes, Firm, Onward, CInv, HandedOver, Agreed
  <2>5. /\ IsRecord(call[p].r) /\ (call[p].r.team = "DELIVERED" => delivered')
        /\ call[p].r.decision = "YES" => rec'.decision = "YES"
    BY <2>2, <2>3 DEF Onward, CInv, CTyped, HandedOver, Agreed
  <2>6. \A t \in Targets : receipts[t].proof /\ binding[t] = "proof"
    BY <1>1 DEF CInv, Witnessed, Late
  <2>7. CASE C!Go(p, "delete", call[p].r)
    BY <2>3, <2>4, <2>5, <2>6, <2>7, CloseoutGoes
  <2>8. CASE C!Return(p, "PENDING")
    BY <2>3, <2>4, <2>8, ReceiptsStay, CloseoutReturns
  <2> QED BY <2>1, <2>7, <2>8
<1> QED BY <1>2, <1>3

LEMMA FinishKeeps ==
    ASSUME CInv, NEW p \in C!Calls, C!FinishCommitted(p) \/ C!FinishLost(p)
    PROVE  CStep
<1>1. UNCHANGED C!World /\ IsRecord(rec)
  BY DEF C!FinishCommitted, C!FinishLost, CInv, CTyped
<1>2. Onward /\ UNCHANGED <<receipts, binding>>
  BY <1>1 DEF C!World, Onward
<1>3. CASE C!FinishCommitted(p)
  <2>1. CASE rec.status = "COMMITTED"
    <3>1. /\ call[p].pc = "finish" /\ rec' = [rec EXCEPT !.spool = FALSE]
          /\ C!Return(p, IF store'.listed THEN "died" ELSE "COMMITTED")
      BY <1>3, <2>1 DEF C!FinishCommitted, C!finish, C!At
    <3>2. IsRecord(rec') /\ rec'.team = rec.team /\ rec'.status = rec.status /\ rec'.decision = rec.decision
      BY <1>1, <3>1, Rewritten
    <3>3. RecordGoes /\ C!LossIsReported
      BY <1>2, <2>1, <3>2 DEF RecordGoes, Firm, Onward, CInv, HandedOver, Agreed, C!LossIsReported
    <3>4. call[p].pc \in Late
      BY <3>1 DEF Late
    <3> QED BY <1>2, <3>1, <3>3, <3>4, ReceiptsStay, CloseoutReturns
  <2>2. CASE rec.status # "COMMITTED"
    BY <1>1, <1>3, <2>2, QuietReturn DEF C!FinishCommitted
  <2> QED BY <2>1, <2>2
<1>4. CASE C!FinishLost(p)
  <2> DEFINE gone == rec.status = "LOST" /\ ~rec.spool
  <2>1. CASE gone
    <3>1. PICK a : /\ a \in {"died", "NOT_APPLIED", "EVALUATED_NONE", "APPLIED", "UNKNOWN"}
                   /\ C!Return(p, a) /\ UNCHANGED rec /\ call[p].pc = "finishlost"
      BY <1>4, <2>1 DEF C!FinishLost, C!finish, C!At, C!_lost_personal_knowledge
    <3>2. incident
      BY <3>1 DEF CInv, Confessed
    <3>3. RecordGoes /\ C!LossIsReported
      BY <1>1, <1>2, <3>1, <3>2 DEF RecordGoes, Firm, Onward, CInv, HandedOver, Agreed, C!LossIsReported
    <3> QED BY <1>2, <3>1, <3>3, ReceiptsStay, CloseoutReturns
  <2>2. CASE ~gone
    BY <1>1, <1>4, <2>2, QuietReturn DEF C!FinishLost
  <2> QED BY <2>1, <2>2
<1> QED BY <1>3, <1>4

LEMMA LossKeeps ==
    ASSUME CInv, NEW p \in C!Calls,
           \/ C!_expire_lost_closeout(p) \/ C!DeleteLostBody(p) \/ C!_cleanup_lost_closeout(p) \/ C!RecordLoss(p)
    PROVE  CStep
<1>1. UNCHANGED store /\ IsRecord(rec)
  BY DEF C!_expire_lost_closeout, C!DeleteLostBody, C!_cleanup_lost_closeout, C!RecordLoss, C!Disk, CInv, CTyped
<1>2. CASE C!_expire_lost_closeout(p)
  <2>1. UNCHANGED C!World
    BY <1>2 DEF C!_expire_lost_closeout
  <2>2. \/ C!Go(p, "lost", rec) /\ UNCHANGED rec
        \/ C!Return(p, "CLOSEOUT_STATE_CONFLICT") /\ UNCHANGED rec
        \/ /\ rec' = [rec EXCEPT !.status = "LOST", !.team = IF rec.status = "COMMITTED" THEN "EXPIRED" ELSE rec.team]
           /\ C!Go(p, "lost", rec')
    BY <1>2 DEF C!_expire_lost_closeout
  <2>3. CASE /\ rec' = [rec EXCEPT !.status = "LOST", !.team = IF rec.status = "COMMITTED" THEN "EXPIRED" ELSE rec.team]
             /\ C!Go(p, "lost", rec')
    <3>1. IsRecord(rec') /\ rec'.team \in {rec.team, "EXPIRED"} /\ Firm(rec, rec')
      <4>1. PICK m : m = IF rec.status = "COMMITTED" THEN "EXPIRED" ELSE rec.team
        OBVIOUS
      <4>2. rec' = [rec EXCEPT !.status = "LOST", !.team = m]
        BY <2>3, <4>1
      <4>3. IsRecord(rec') /\ rec'.team = m /\ rec'.status = "LOST" /\ rec'.decision = rec.decision
        BY <1>1, <4>2 DEF IsRecord
      <4> QED BY <4>1, <4>3 DEF Firm, Undecided
    <3> QED BY <1>1, <2>1, <2>3, <3>1, RewrittenGo DEF Late
  <2> QED BY <1>1, <2>1, <2>2, <2>3, QuietReturn, QuietGo DEF Late
<1>3. CASE C!DeleteLostBody(p)
  <2>1. UNCHANGED <<rec, C!World>>
    BY <1>3 DEF C!DeleteLostBody
  <2>2. C!Go(p, "forget", call[p].r) \/ C!Return(p, "CLOSEOUT_CLEANUP_PENDING")
    BY <1>3 DEF C!DeleteLostBody, C!R
  <2> QED BY <1>1, <2>1, <2>2, QuietReturn, QuietGo DEF Late
<1>4. CASE C!_cleanup_lost_closeout(p)
  <2>1. UNCHANGED C!World
    BY <1>4 DEF C!_cleanup_lost_closeout
  <2>2. \/ C!Return(p, "CLOSEOUT_RECORD_CONFLICT") /\ UNCHANGED rec
        \/ rec' = [rec EXCEPT !.spool = FALSE] /\ C!Go(p, "incident", rec')
    BY <1>4 DEF C!_cleanup_lost_closeout
  <2>3. CASE rec' = [rec EXCEPT !.spool = FALSE] /\ C!Go(p, "incident", rec')
    <3>1. IsRecord(rec') /\ rec'.team = rec.team /\ Firm(rec, rec')
      BY <1>1, <2>3, Rewritten DEF Firm, CInv, Agreed, Undecided
    <3> QED BY <1>1, <2>1, <2>3, <3>1, RewrittenGo DEF Late
  <2> QED BY <1>1, <2>1, <2>2, <2>3, QuietReturn
<1>5. CASE C!RecordLoss(p)
  <2>1. incident' /\ C!Go(p, "finishlost", call[p].r) /\ UNCHANGED <<rec, marked, receipts, binding, delivered>>
    BY <1>5 DEF C!RecordLoss, C!R, C!Disk
  <2>2. Onward /\ RecordGoes /\ Unlisted
    BY <1>1, <2>1 DEF Onward, RecordGoes, Firm, CInv, HandedOver, Agreed, Unlisted
  <2>3. /\ IsRecord(call[p].r) /\ (call[p].r.team = "DELIVERED" => delivered')
        /\ call[p].r.decision = "YES" => rec'.decision = "YES"
    BY <2>1 DEF CInv, CTyped, HandedOver, Agreed
  <2> QED BY <2>1, <2>2, <2>3, CloseoutGoes DEF Late
<1> QED BY <1>2, <1>3, <1>4, <1>5

LEMMA CloseoutStep == CInv /\ [C!Next]_(C!vars) => CStep
<1> SUFFICES ASSUME CInv, [C!Next]_(C!vars)
             PROVE  CStep
  OBVIOUS
<1>1. ASSUME UNCHANGED <<rec, marked, delivered, incident, call, acked>>, Unlisted, ReceiptsGo
      PROVE  CStep
  <2>1. CTyped' /\ HandedOver' /\ Agreed' /\ Witnessed' /\ Confessed' /\ Decidedly'
    BY <1>1 DEF CInv, CTyped, HandedOver, Agreed, Witnessed, Confessed, ReceiptsGo
  <2>2. C!LossIsReported /\ \A p \in C!Calls : C!AckIsComplete(p)
    BY <1>1 DEF Unlisted, C!LossIsReported, C!AckIsComplete
  <2> QED BY <2>1, <2>2 DEF CInv, CStep
<1>2. CASE UNCHANGED C!vars
  <2>1. Onward /\ Unlisted /\ RecordGoes
    BY <1>2 DEF C!vars, Onward, Unlisted, RecordGoes, Firm, CInv, CTyped, HandedOver, Agreed
  <2> QED BY <1>1, <1>2, <2>1, ReceiptsStay DEF C!vars
<1>3. CASE C!Expire
  <2>1. Onward /\ Unlisted /\ RecordGoes
    BY <1>3 DEF C!Expire, Onward, Unlisted, C!Disk, RecordGoes, Firm, CInv, CTyped, HandedOver, Agreed
  <2> QED BY <1>1, <1>3, <2>1, ReceiptsStay DEF C!Expire, C!Disk
<1>4. ASSUME NEW t \in Targets, C!TargetSecured(t) \/ C!TargetLost(t)
      PROVE  CStep
  <2>1. PICK v : /\ receipts' = [receipts EXCEPT ![t] = v]
                 /\ \/ v = [receipts[t] EXCEPT !.state = "SECURED", !.own = TRUE]
                    \/ v = [receipts[t] EXCEPT !.state = "UNAVAILABLE"]
    BY <1>4 DEF C!TargetSecured, C!TargetLost, C!Pending
  <2>2. UNCHANGED <<store, rec, marked, binding, delivered, incident, call, acked>>
    BY <1>4 DEF C!TargetSecured, C!TargetLost, C!Pending, C!Disk
  <2>3. /\ DOMAIN v = {"state", "own", "proof"} /\ v.proof = receipts[t].proof /\ v.state # "WAITING"
        /\ v.state = "SECURED" => v.own
    BY <2>1 DEF CInv, CTyped
  <2>4. receipts'[t] = v /\ DOMAIN receipts' = Targets /\ \A u \in Targets : u # t => receipts'[u] = receipts[u]
    BY <2>1 DEF CInv, CTyped
  <2>5. ReceiptsGo
    BY <2>2, <2>3, <2>4 DEF CInv, CTyped, Decidedly, ReceiptsGo
  <2> QED BY <1>1, <2>2, <2>5 DEF Unlisted
<1>5. ASSUME NEW t \in Targets, C!register_adapter_target(t)
      PROVE  CStep
  <2>1. /\ binding[t] = "none" /\ binding' = [binding EXCEPT ![t] = "plain"]
        /\ UNCHANGED <<store, rec, marked, receipts, delivered, incident, call, acked>>
    BY <1>5 DEF C!register_adapter_target, C!Disk
  <2>2. DOMAIN binding' = Targets /\ \A u \in Targets : binding[u] = "proof" => binding'[u] = "proof"
    BY <2>1 DEF CInv, CTyped
  <2>3. ReceiptsGo
    BY <2>1, <2>2 DEF CInv, CTyped, Decidedly, ReceiptsGo
  <2> QED BY <1>1, <2>1, <2>3 DEF Unlisted
<1>6. ASSUME NEW p \in C!Calls, C!Die(p)
      PROVE  CStep
  BY <1>6, QuietReturn DEF C!Die, C!Disk
<1>7. ASSUME NEW p \in C!Calls, C!Work(p)
      PROVE  CStep
  BY <1>7, ApplyKeeps, PersistKeeps, ChangeSetKeeps, WitnessKeeps, ReceiptsKeep, CleanupKeeps, HandoffKeeps,
     SummaryKeeps, FinishKeeps, LossKeeps DEF C!Work
<1>8. ASSUME NEW p \in C!Calls, C!process_closeout(p) \/ C!reserve(p) \/ C!Recover(p) \/ C!ApplyFails(p)
      PROVE  CStep
  BY <1>8, ProcessKeeps, ReservationKeeps, ApplyKeeps, ChangeSetKeeps
<1> QED BY <1>2, <1>3, <1>4, <1>5, <1>6, <1>7, <1>8 DEF C!Next

LEMMA CFits == CInv => C!ProofMeansDecided
  BY DEF CInv, Decidedly, C!ProofMeansDecided

-----------------------------------------------------------------------------
(* Incidents and notifications (operation_runtime.py, incidents.py).           *)

Leases == [gen : Nat, occ : Nat, by : O!Observers]
Tries == [attempt : 0..2, result : {"NONE", "UNKNOWN", "FAILED", "SUCCESS"}, succ : Nat, succAge : 0..2]
Incidents == [status : {"NONE", "OPEN", "RESOLVED"}, sev : 0..2, gen : Nat, occ : Nat, del : Tries,
              lease : Leases, prev : Tries]
IsObserver(v) ==
    /\ DOMAIN v = {"pc", "before", "binding", "issue", "resolved", "lease"}
    /\ v.before \in Int /\ v.binding \in Int /\ v.issue \in 0..2 /\ v.lease \in Leases

\* A count with a binding that holds is of the trouble that is there: nothing of it is older
\* than the last change.
CacheFits(c, ver, tr) ==
    c.binding \in Int /\ c.issue \in 0..2 /\ c.binding <= ver /\ (c.binding = ver /\ c.issue > 0 => c.issue = tr)
CountFits(v, ver, tr) ==
    /\ v.pc = "count" => v.before <= ver /\ v.binding = -1
    /\ v.pc = "bind" => v.before <= ver /\ v.binding = -1 /\ (v.before = ver => v.issue = tr)
    /\ v.pc = "write" => v.binding <= ver /\ (v.binding = ver /\ v.issue > 0 => v.issue = tr)
Counting ==
    /\ version \in Nat /\ trouble \in 0..2
    /\ CacheFits(cache, version, trouble) /\ CountFits(proc[Maintenance], version, trouble)

\* What was shown within the hour is on record as a success of this hour.
Recent(d, st) == \A s \in st : s[2] = 0 => s[1] <= d.succ /\ d.succAge = 0
WasShown(n, st) == n > 0 => \E s \in st : s[1] = n
Pending(d) == d.result \in {"UNKNOWN", "FAILED"} /\ d.attempt = 0
\* The incident is readable; what was shown within the hour is on record as a success, or as
\* an attempt of this hour.
IncidentFits(i, st) ==
    /\ i.occ <= i.gen /\ i.del.succ <= i.gen /\ i.prev.succ <= i.gen
    /\ \/ i.lease = O!NoLease
       \/ /\ 1 <= i.lease.gen /\ i.lease.gen <= i.gen /\ 1 <= i.lease.occ /\ i.lease.occ <= i.lease.gen
          /\ i.del.result = "UNKNOWN"
    /\ i.status = "NONE" => i = O!NoIncident /\ st = {}
    /\ i.status # "NONE" => i.gen >= 1 /\ i.occ >= 1
    /\ WasShown(i.del.succ, st) /\ WasShown(i.prev.succ, st)
    /\ \A s \in st : s[1] <= i.gen
    /\ Recent(i.del, st) \/ Pending(i.del)
\* An observer that has claimed is on record, and what it is about to show was not shown
\* within the hour.
Busy(v) == v.pc \in {"send", "settle"}
ClaimFits(v, i, st) ==
    /\ Busy(v) => /\ i.status # "NONE" /\ i.del.result = "UNKNOWN" /\ i.del.attempt = 0
                  /\ 1 <= v.lease.gen /\ v.lease.gen <= i.gen
    /\ v.pc = "send" => Recent(i.prev, st) /\ \A s \in st : s[2] = 0 => s[1] < v.lease.gen
    /\ v.pc = "settle" => WasShown(v.lease.gen, st)
Claiming ==
    /\ IncidentFits(inc, sent)
    /\ \A o \in O!Observers : ClaimFits(proc[o], inc, sent)
    /\ \A o, q \in O!Observers : Busy(proc[o]) /\ Busy(proc[q]) => o = q
OTyped ==
    /\ inc \in Incidents /\ sent \subseteq Nat \X (0..2)
    /\ DOMAIN proc = O!Observers /\ \A o \in O!Observers : IsObserver(proc[o])
OInv == OTyped /\ Counting /\ Claiming
OStep == OInv' /\ O!IssueIsCurrent /\ O!ShownOncePerHour

LEMMA Constants ==
    /\ O!NoLease \in Leases /\ O!NoLease.gen = 0 /\ O!NoIncident \in Incidents
    /\ Maintenance \in O!Observers /\ O!Untried \in Tries
    /\ IsObserver(O!Idle) /\ O!Idle.pc = "rest" /\ O!Idle.issue = 0 /\ O!Idle.binding = -1
    /\ O!Idle.lease = O!NoLease
<1>1. O!NoLease \in Leases /\ O!NoLease.gen = 0 /\ Maintenance \in O!Observers
  BY DEF O!NoLease, Leases, O!Observers
<1>2. O!Untried \in Tries
  BY DEF O!Untried, O!Old, Tries
<1>3. O!NoIncident \in Incidents
  BY <1>1, <1>2 DEF O!NoIncident, Incidents
<1>4. /\ DOMAIN O!Idle = {"pc", "before", "binding", "issue", "resolved", "lease"}
      /\ O!Idle.before = -1 /\ O!Idle.binding = -1 /\ O!Idle.issue = 0 /\ O!Idle.lease = O!NoLease
      /\ O!Idle.pc = "rest"
  BY DEF O!Idle
<1> QED BY <1>1, <1>2, <1>3, <1>4 DEF IsObserver

LEMMA FirstIncidentFits == IncidentFits(O!NoIncident, {})
<1>1. /\ O!NoIncident.status = "NONE" /\ O!NoIncident.gen = 0 /\ O!NoIncident.occ = 0
      /\ O!NoIncident.del = O!Untried /\ O!NoIncident.prev = O!Untried /\ O!NoIncident.lease = O!NoLease
  BY DEF O!NoIncident
<1>2. O!Untried.succ = 0
  BY DEF O!Untried
<1> QED BY <1>1, <1>2 DEF IncidentFits, WasShown, Recent

LEMMA OInit == O!Init => OInv
<1> SUFFICES ASSUME O!Init
             PROVE  OInv
  OBVIOUS
<1>1. /\ version = 0 /\ trouble = 0 /\ cache = O!NoCache /\ inc = O!NoIncident /\ sent = {}
      /\ proc = [o \in O!Observers |-> O!Idle]
  BY DEF O!Init
<1>2. OTyped
  BY <1>1, Constants DEF OTyped
<1>3. O!NoCache.binding = -1 /\ O!NoCache.issue = 0
  BY DEF O!NoCache
<1>4. Counting
  BY <1>1, <1>3, Constants DEF Counting, CacheFits, CountFits
<1>5. Claiming
  BY <1>1, FirstIncidentFits, Constants DEF Claiming, ClaimFits, Busy
<1> QED BY <1>2, <1>4, <1>5 DEF OInv

LEMMA OFits == OInv => O!IncidentIsReadable /\ O!SuccessWasShown
<1> SUFFICES ASSUME OInv
             PROVE  O!IncidentIsReadable /\ O!SuccessWasShown
  OBVIOUS
<1>1. IncidentFits(inc, sent) /\ inc \in Incidents
  BY DEF OInv, OTyped, Claiming
<1>2. inc.lease \in Leases /\ inc.gen \in Nat
  BY <1>1 DEF Incidents
<1>3. inc.lease.gen \in Nat /\ inc.lease.occ \in Nat
  BY <1>2 DEF Leases
<1>4. O!_validate_incident(inc)
  BY <1>1, <1>2, <1>3 DEF IncidentFits, O!_validate_incident
<1>5. O!SuccessWasShown
  BY <1>1 DEF IncidentFits, WasShown, O!SuccessWasShown
<1> QED BY <1>4, <1>5 DEF O!IncidentIsReadable

\* One observer takes a step.
LEMMA ObserverGoes ==
    ASSUME OInv, NEW o \in O!Observers, NEW v, O!Becomes(o, v), IsObserver(v),
           inc' \in Incidents, sent' \subseteq Nat \X (0..2), UNCHANGED <<version, trouble>>,
           CacheFits(cache', version, trouble), o = Maintenance => CountFits(v, version, trouble),
           IncidentFits(inc', sent'), ClaimFits(v, inc', sent'),
           \A q \in O!Observers \ {o} : ClaimFits(proc[q], inc', sent'),
           Busy(v) => \A q \in O!Observers \ {o} : ~Busy(proc[q]),
           O!At(o, "read") /\ v.pc = "update" /\ v.issue > 0 => v.issue = trouble,
           O!At(o, "send") /\ v.pc = "settle" => <<proc[o].lease.gen, O!Fresh>> \notin sent
    PROVE  OStep
<1>1. proc' = [proc EXCEPT ![o] = v]
  BY DEF O!Becomes
<1>2. proc'[o] = v /\ (\A q \in O!Observers : q # o => proc'[q] = proc[q]) /\ DOMAIN proc' = O!Observers
  BY <1>1 DEF OInv, OTyped
<1>3. OTyped'
  BY <1>2 DEF OInv, OTyped
<1>4. Counting'
  <2>1. CountFits(proc'[Maintenance], version, trouble)
    BY <1>2, Constants DEF OInv, Counting
  <2> QED BY <2>1 DEF OInv, Counting
<1>5. Claiming'
  <2>1. \A q \in O!Observers : ClaimFits(proc'[q], inc', sent')
    BY <1>2
  <2>2. \A p, q \in O!Observers : Busy(proc'[p]) /\ Busy(proc'[q]) => p = q
    BY <1>2 DEF OInv, Claiming
  <2> QED BY <2>1, <2>2 DEF Claiming
<1>6. O!IssueIsCurrent
  BY <1>2 DEF O!IssueIsCurrent, O!At
<1>7. O!ShownOncePerHour
  BY <1>2 DEF O!ShownOncePerHour, O!At
<1> QED BY <1>3, <1>4, <1>5, <1>6, <1>7 DEF OInv, OStep

LEMMA UnclaimedFits ==
    ASSUME NEW v, v.pc \notin {"send", "settle"}
    PROVE  ~Busy(v) /\ \A i, st : ClaimFits(v, i, st)
  BY DEF Busy, ClaimFits

LEMMA UncountedFits ==
    ASSUME NEW v, v.pc \notin {"count", "bind", "write"}
    PROVE  \A ver, tr : CountFits(v, ver, tr)
  BY DEF CountFits

\* One that leaves the incident, what was shown and the cache alone, and claims nothing.
LEMMA ObserverMoves ==
    ASSUME OInv, NEW o \in O!Observers, NEW v, O!Becomes(o, v), IsObserver(v),
           UNCHANGED <<version, trouble, cache, inc, sent>>,
           o = Maintenance => CountFits(v, version, trouble), v.pc \notin {"send", "settle"},
           O!At(o, "read") /\ v.pc = "update" /\ v.issue > 0 => v.issue = trouble
    PROVE  OStep
<1>1. /\ inc' \in Incidents /\ sent' \subseteq Nat \X (0..2) /\ CacheFits(cache', version, trouble)
      /\ IncidentFits(inc', sent') /\ \A q \in O!Observers : ClaimFits(proc[q], inc', sent')
  BY DEF OInv, OTyped, Counting, Claiming
<1>2. ~Busy(v) /\ ClaimFits(v, inc', sent')
  BY UnclaimedFits
<1>3. v.pc # "settle"
  OBVIOUS
<1> QED BY <1>1, <1>2, <1>3, ObserverGoes

\* The record of an observer that changes its position only.
LEMMA PositionIs ==
    ASSUME OInv, NEW o \in O!Observers, NEW pc, NEW v, v = [proc[o] EXCEPT !.pc = pc]
    PROVE  /\ IsObserver(v) /\ v.pc = pc /\ v.lease = proc[o].lease /\ v.issue = proc[o].issue
           /\ v.binding = proc[o].binding /\ v.before = proc[o].before
<1>1. IsObserver(proc[o])
  BY DEF OInv, OTyped
<1>2. PICK p : p = proc[o]
  OBVIOUS
<1>3. IsObserver(p) /\ v = [p EXCEPT !.pc = pc]
  BY <1>1, <1>2
<1>4. DOMAIN v = DOMAIN p /\ v.pc = pc /\ v.lease = p.lease /\ v.issue = p.issue /\ v.binding = p.binding /\ v.before = p.before
  BY <1>3 DEF IsObserver
<1> QED BY <1>2, <1>3, <1>4 DEF IsObserver

LEMMA IdleKeeps ==
    ASSUME OInv, NEW o \in O!Observers, O!Becomes(o, O!Idle), UNCHANGED <<version, trouble, cache, inc, sent>>
    PROVE  OStep
  BY Constants, ObserverMoves, UncountedFits

-----------------------------------------------------------------------------
(* The steps of one observer that claims nothing.                              *)

\* The record of an observer after an assignment of one more field.
LEMMA BeforeIs ==
    ASSUME NEW q, IsObserver(q), NEW x \in Int, NEW v, v = [q EXCEPT !.before = x]
    PROVE  /\ IsObserver(v) /\ v.before = x
           /\ v.pc = q.pc /\ v.binding = q.binding /\ v.issue = q.issue /\ v.lease = q.lease
<1>1. DOMAIN v = DOMAIN q /\ v.before = x /\ v.pc = q.pc /\ v.binding = q.binding /\ v.issue = q.issue /\ v.lease = q.lease
  BY DEF IsObserver
<1> QED BY <1>1 DEF IsObserver

LEMMA BindingIs ==
    ASSUME NEW q, IsObserver(q), NEW x \in Int, NEW v, v = [q EXCEPT !.binding = x]
    PROVE  /\ IsObserver(v) /\ v.binding = x
           /\ v.pc = q.pc /\ v.before = q.before /\ v.issue = q.issue /\ v.lease = q.lease
<1>1. DOMAIN v = DOMAIN q /\ v.binding = x /\ v.pc = q.pc /\ v.before = q.before /\ v.issue = q.issue /\ v.lease = q.lease
  BY DEF IsObserver
<1> QED BY <1>1 DEF IsObserver

LEMMA IssueIs ==
    ASSUME NEW q, IsObserver(q), NEW x \in 0..2, NEW v, v = [q EXCEPT !.issue = x]
    PROVE  /\ IsObserver(v) /\ v.issue = x
           /\ v.pc = q.pc /\ v.before = q.before /\ v.binding = q.binding /\ v.lease = q.lease
<1>1. DOMAIN v = DOMAIN q /\ v.issue = x /\ v.pc = q.pc /\ v.before = q.before /\ v.binding = q.binding /\ v.lease = q.lease
  BY DEF IsObserver
<1> QED BY <1>1 DEF IsObserver

LEMMA LeaseIs ==
    ASSUME NEW q, IsObserver(q), NEW x \in Leases, NEW v, v = [q EXCEPT !.lease = x]
    PROVE  /\ IsObserver(v) /\ v.lease = x
           /\ v.pc = q.pc /\ v.before = q.before /\ v.binding = q.binding /\ v.issue = q.issue
<1>1. DOMAIN v = DOMAIN q /\ v.lease = x /\ v.pc = q.pc /\ v.before = q.before /\ v.binding = q.binding /\ v.issue = q.issue
  BY DEF IsObserver
<1> QED BY <1>1 DEF IsObserver

LEMMA PcIs ==
    ASSUME NEW q, IsObserver(q), NEW pc, NEW v, v = [q EXCEPT !.pc = pc]
    PROVE  /\ IsObserver(v) /\ v.pc = pc
           /\ v.before = q.before /\ v.binding = q.binding /\ v.issue = q.issue /\ v.lease = q.lease
<1>1. /\ DOMAIN v = DOMAIN q /\ v.pc = pc
      /\ v.before = q.before /\ v.binding = q.binding /\ v.issue = q.issue /\ v.lease = q.lease
  BY DEF IsObserver
<1> QED BY <1>1 DEF IsObserver

LEMMA BindingFits == OInv /\ O!_stat_binding => OStep
<1> SUFFICES ASSUME OInv, O!_stat_binding
             PROVE  OStep
  OBVIOUS
<1>1. PICK q : q = [O!Idle EXCEPT !.pc = "count"]
  OBVIOUS
<1>1b. PICK v : v = [q EXCEPT !.before = version]
  OBVIOUS
<1>2. O!Becomes(Maintenance, v) /\ UNCHANGED <<version, trouble, cache, inc, sent>>
  BY <1>1, <1>1b DEF O!_stat_binding
<1>3. version \in Nat
  BY DEF OInv, Counting
<1>3a. IsObserver(q) /\ q.pc = "count" /\ q.binding = O!Idle.binding
  BY <1>1, Constants, PcIs
<1>3b. version \in Int
  BY <1>3
<1>3c. IsObserver(v) /\ v.pc = q.pc /\ v.before = version /\ v.binding = q.binding
  BY <1>1b, <1>3a, <1>3b, BeforeIs
<1>4. IsObserver(v) /\ v.pc = "count" /\ v.before = version /\ v.binding = -1
  BY <1>3a, <1>3c, Constants
<1>5. CountFits(v, version, trouble)
  BY <1>3, <1>4 DEF CountFits
<1> QED BY <1>2, <1>4, <1>5, Constants, ObserverMoves

LEMMA CountFitsAfter == OInv /\ O!CountCustody => OStep
<1> SUFFICES ASSUME OInv, O!CountCustody
             PROVE  OStep
  OBVIOUS
<1>1. PICK p : p = proc[Maintenance]
  OBVIOUS
<1>2. PICK q : q = [p EXCEPT !.pc = "bind"]
  OBVIOUS
<1>2b. PICK v : v = [q EXCEPT !.issue = trouble]
  OBVIOUS
<1>3. O!Becomes(Maintenance, v) /\ UNCHANGED <<version, trouble, cache, inc, sent>> /\ p.pc = "count"
  BY <1>1, <1>2, <1>2b DEF O!CountCustody, O!At
<1>4. IsObserver(p) /\ trouble \in 0..2 /\ CountFits(p, version, trouble)
  BY <1>1, Constants DEF OInv, OTyped, Counting
<1>4a. /\ IsObserver(q) /\ q.pc = "bind" /\ q.before = p.before /\ q.binding = p.binding
       /\ q.issue = p.issue /\ q.lease = p.lease
  BY <1>2, <1>4, PcIs
<1>4b. IsObserver(v) /\ v.pc = q.pc /\ v.issue = trouble /\ v.before = q.before /\ v.binding = q.binding
  BY <1>2b, <1>4, <1>4a, IssueIs
<1>5. IsObserver(v) /\ v.pc = "bind" /\ v.issue = trouble /\ v.before = p.before /\ v.binding = p.binding
  BY <1>4a, <1>4b
<1>6. CountFits(v, version, trouble)
  BY <1>3, <1>4, <1>5 DEF CountFits
<1> QED BY <1>3, <1>5, <1>6, Constants, ObserverMoves

LEMMA BindFits == OInv /\ O!BindCount => OStep
<1> SUFFICES ASSUME OInv, O!BindCount
             PROVE  OStep
  OBVIOUS
<1>1. PICK p : p = proc[Maintenance]
  OBVIOUS
<1>2. IsObserver(p) /\ trouble \in 0..2 /\ version \in Nat /\ CountFits(p, version, trouble) /\ p.pc = "bind"
  BY <1>1, Constants DEF OInv, OTyped, Counting, O!BindCount, O!At
<1>3. p.before <= version /\ p.binding = -1 /\ (p.before = version => p.issue = trouble) /\ p.issue \in 0..2
  BY <1>2 DEF CountFits, IsObserver
<1>4. UNCHANGED <<version, trouble, cache, inc, sent>>
  BY DEF O!BindCount
<1>5. CASE version = p.before
  <2>1. PICK e : e = (p.issue = 0)
    OBVIOUS
  <2>2. PICK q : q = [p EXCEPT !.pc = "write"]
    OBVIOUS
  <2>2b. PICK u : u = [q EXCEPT !.binding = version]
    OBVIOUS
  <2>2c. /\ IsObserver(q) /\ q.pc = "write" /\ q.before = p.before /\ q.binding = p.binding
         /\ q.issue = p.issue /\ q.lease = p.lease
    BY <1>2, <2>2, PcIs
  <2>2d. version \in Int
    BY <1>2
  <2>2e. IsObserver(u) /\ u.pc = q.pc /\ u.binding = version /\ u.issue = q.issue
    BY <2>2b, <2>2c, <2>2d, BindingIs
  <2>3. IsObserver(u) /\ u.pc = "write" /\ u.binding = version /\ u.issue = p.issue
    BY <2>2c, <2>2e
  <2>4. PICK v : v = [u EXCEPT !.resolved = e]
    OBVIOUS
  <2>5. DOMAIN v = DOMAIN u /\ v.pc = u.pc /\ v.binding = u.binding /\ v.issue = u.issue /\ v.before = u.before /\ v.lease = u.lease
    BY <2>3, <2>4 DEF IsObserver
  <2>6. v = [p EXCEPT !.pc = "write", !.binding = version, !.resolved = e]
    BY <2>2, <2>2b, <2>4
  <2>7. v = [p EXCEPT !.pc = "write", !.binding = version, !.resolved = p.issue = 0]
    BY <2>1, <2>6
  <2>8. O!Becomes(Maintenance, v)
    BY <1>1, <1>5, <2>7 DEF O!BindCount
  <2>9. IsObserver(v)
    BY <2>3, <2>5 DEF IsObserver
  <2>10. CountFits(v, version, trouble)
    BY <1>2, <1>3, <1>5, <2>3, <2>5 DEF CountFits
  <2> QED BY <1>4, <2>3, <2>5, <2>8, <2>9, <2>10, Constants, ObserverMoves
<1>6. CASE version # p.before
  <2>1. PICK q : q = [p EXCEPT !.pc = "write"]
    OBVIOUS
  <2>1b. PICK v : v = [q EXCEPT !.issue = 0]
    OBVIOUS
  <2>2. O!Becomes(Maintenance, v)
    BY <1>1, <1>6, <2>1, <2>1b DEF O!BindCount
  <2>2a. /\ IsObserver(q) /\ q.pc = "write" /\ q.before = p.before /\ q.binding = p.binding
         /\ q.issue = p.issue /\ q.lease = p.lease
    BY <1>2, <2>1, PcIs
  <2>2b. 0 \in 0..2
    OBVIOUS
  <2>2c. IsObserver(v) /\ v.pc = q.pc /\ v.issue = 0 /\ v.binding = q.binding
    BY <2>1b, <2>2a, <2>2b, IssueIs
  <2>3. IsObserver(v) /\ v.pc = "write" /\ v.issue = 0 /\ v.binding = p.binding
    BY <2>2a, <2>2c
  <2>4. CountFits(v, version, trouble)
    BY <1>2, <1>3, <2>3 DEF CountFits
  <2> QED BY <1>4, <2>2, <2>3, <2>4, Constants, ObserverMoves
<1> QED BY <1>5, <1>6

LEMMA WriteFits == OInv /\ O!write_operation_snapshot => OStep
<1> SUFFICES ASSUME OInv, O!write_operation_snapshot
             PROVE  OStep
  OBVIOUS
<1>1. PICK p : p = proc[Maintenance]
  OBVIOUS
<1>2. PICK v : v = [proc[Maintenance] EXCEPT !.pc = "read"]
  OBVIOUS
<1>3. IsObserver(v) /\ v.pc = "read" /\ IsObserver(p) /\ p.pc = "write"
  BY <1>1, <1>2, Constants, PositionIs DEF OInv, OTyped, O!write_operation_snapshot, O!At
<1>4. O!Becomes(Maintenance, v) /\ cache' = [binding |-> p.binding, issue |-> p.issue] /\ UNCHANGED <<version, trouble, inc, sent>>
  <2>1. proc' = [proc EXCEPT ![Maintenance] = v]
    BY <1>2 DEF O!write_operation_snapshot, O!Goto
  <2> QED BY <1>1, <2>1 DEF O!write_operation_snapshot, O!Becomes
<1>5. CountFits(p, version, trouble)
  BY <1>1 DEF OInv, Counting
<1>6. CacheFits(cache', version, trouble)
  BY <1>3, <1>4, <1>5 DEF CacheFits, CountFits, IsObserver
<1>7. /\ inc' \in Incidents /\ sent' \subseteq Nat \X (0..2)
      /\ IncidentFits(inc', sent') /\ \A q \in O!Observers : ClaimFits(proc[q], inc', sent')
  BY <1>4 DEF OInv, OTyped, Claiming
<1>8. ~Busy(v) /\ ClaimFits(v, inc', sent') /\ CountFits(v, version, trouble)
  BY <1>3, UnclaimedFits, UncountedFits
<1> QED BY <1>3, <1>4, <1>6, <1>7, <1>8, Constants, ObserverGoes

LEMMA StartFits == ASSUME OInv, NEW h \in HookCalls, O!StartHook(h) PROVE OStep
<1>1. PICK v : v = [O!Idle EXCEPT !.pc = "read"]
  OBVIOUS
<1>2. h \in O!Observers
  BY DEF O!Observers
<1>3. O!Becomes(h, v) /\ UNCHANGED <<version, trouble, cache, inc, sent>>
  BY <1>1 DEF O!StartHook
<1>4. PICK p : p = O!Idle
  OBVIOUS
<1>5. IsObserver(p) /\ v = [p EXCEPT !.pc = "read"]
  BY <1>1, <1>4, Constants
<1>6. DOMAIN v = DOMAIN p /\ v.pc = "read" /\ v.issue = p.issue /\ v.before = p.before /\ v.binding = p.binding /\ v.lease = p.lease
  BY <1>5 DEF IsObserver
<1>7. IsObserver(v)
  BY <1>5, <1>6 DEF IsObserver
<1> QED BY <1>2, <1>3, <1>6, <1>7, ObserverMoves, UncountedFits

LEMMA SnapshotFits == ASSUME OInv, NEW o \in O!Observers, O!_snapshot(o) PROVE OStep
<1>1. PICK e : e = O!evaluate_health(cache.binding = version, cache.issue)
  OBVIOUS
<1>2. e \in 0..2 /\ (e > 0 => e = trouble)
  BY <1>1 DEF O!evaluate_health, OInv, Counting, CacheFits
<1>3. PICK p : p = proc[o]
  OBVIOUS
<1>4. PICK q : q = [p EXCEPT !.pc = "update"]
  OBVIOUS
<1>4b. PICK v : v = [q EXCEPT !.issue = e]
  OBVIOUS
<1>5. IsObserver(p)
  BY <1>3 DEF OInv, OTyped
<1>6. IsObserver(v) /\ v.pc = "update" /\ v.issue = e
  <2>1. IsObserver(q) /\ q.pc = "update"
    BY <1>4, <1>5, PcIs
  <2>2. IsObserver(v) /\ v.pc = q.pc /\ v.issue = e
    BY <1>2, <1>4b, <2>1, IssueIs
  <2> QED BY <2>1, <2>2
<1>7. O!Becomes(o, v) /\ UNCHANGED <<version, trouble, cache, inc, sent>>
  BY <1>1, <1>3, <1>4, <1>4b DEF O!_snapshot
<1> QED BY <1>2, <1>6, <1>7, ObserverMoves, UncountedFits

-----------------------------------------------------------------------------
(* Observations of the incident, and claims.                                   *)

\* What an observation makes of the incident: a generation that is not older, of the same
\* deliveries and the same lease.
Advances(i, j) ==
    /\ j \in Incidents /\ j.status # "NONE" /\ j.gen >= i.gen /\ j.occ >= 1 /\ j.occ <= j.gen
    /\ j.del = i.del /\ j.prev = i.prev /\ j.lease = i.lease

LEMMA AdvanceFits ==
    ASSUME NEW i \in Incidents, NEW st \in SUBSET (Nat \X (0..2)), IncidentFits(i, st), NEW j, Advances(i, j)
    PROVE  IncidentFits(j, st) /\ \A v : IsObserver(v) /\ ClaimFits(v, i, st) => ClaimFits(v, j, st)
<1>1. /\ i.gen \in Nat /\ j.gen \in Nat /\ j.occ \in Nat /\ i.lease.gen \in Nat /\ i.lease.occ \in Nat
      /\ i.del.succ \in Nat /\ i.prev.succ \in Nat
  BY DEF Advances, Incidents, Leases, Tries
<1>2. j.gen >= i.gen /\ j.occ >= 1 /\ j.occ <= j.gen /\ j.status # "NONE"
  BY DEF Advances
<1>3. j.del = i.del /\ j.prev = i.prev /\ j.lease = i.lease
  BY DEF Advances
<1>4. \A s \in st : s[1] \in Nat
  OBVIOUS
<1>5. IncidentFits(j, st)
  <2>1. j.del.succ <= j.gen /\ j.prev.succ <= j.gen /\ j.gen >= 1
    BY <1>1, <1>2, <1>3 DEF IncidentFits
  <2>2. \/ j.lease = O!NoLease
        \/ /\ 1 <= j.lease.gen /\ j.lease.gen <= j.gen /\ 1 <= j.lease.occ /\ j.lease.occ <= j.lease.gen
           /\ j.del.result = "UNKNOWN"
    BY <1>1, <1>2, <1>3 DEF IncidentFits
  <2>3. \A s \in st : s[1] <= j.gen
    BY <1>1, <1>2, <1>4 DEF IncidentFits
  <2>4. WasShown(j.del.succ, st) /\ WasShown(j.prev.succ, st) /\ (Recent(j.del, st) \/ Pending(j.del))
    BY <1>3 DEF IncidentFits
  <2> QED BY <1>2, <2>1, <2>2, <2>3, <2>4 DEF IncidentFits
<1>6. ASSUME NEW v, IsObserver(v), ClaimFits(v, i, st)
      PROVE  ClaimFits(v, j, st)
  <2>1. Busy(v) => /\ i.del.result = "UNKNOWN" /\ i.del.attempt = 0
                   /\ 1 <= v.lease.gen /\ v.lease.gen <= i.gen
    BY <1>6 DEF ClaimFits
  <2>2. Busy(v) => v.lease.gen <= j.gen
    <3>1. v.lease.gen \in Nat
      BY <1>6 DEF IsObserver, Leases
    <3> QED BY <1>1, <1>2, <2>1, <3>1
  <2> QED BY <1>2, <1>3, <1>6, <2>1, <2>2 DEF ClaimFits
<1> QED BY <1>5, <1>6

LEMMA ObservedAdvances ==
    ASSUME NEW i \in Incidents, NEW st, IncidentFits(i, st), NEW sev \in 1..2
    PROVE  O!Observed(i, sev) = i \/ Advances(i, O!Observed(i, sev))
<1>1. PICK j : j = O!Observed(i, sev)
  OBVIOUS
<1>2. i.gen \in Nat /\ i.occ \in Nat /\ i.sev \in 0..2 /\ sev \in 0..2
  BY DEF Incidents
<1>3. CASE i.status = "NONE"
  <2>1. i = O!NoIncident
    BY <1>3 DEF IncidentFits
  <2>2. j = [i EXCEPT !.status = "OPEN", !.sev = sev, !.gen = 1, !.occ = 1]
    BY <1>1, <1>3, <2>1 DEF O!Observed
  <2>3. /\ j \in Incidents /\ j.status = "OPEN" /\ j.gen = 1 /\ j.occ = 1
        /\ j.del = i.del /\ j.prev = i.prev /\ j.lease = i.lease
    BY <1>2, <2>2 DEF Incidents
  <2>4. i.gen = 0
    BY <2>1 DEF O!NoIncident
  <2> QED BY <1>1, <2>3, <2>4 DEF Advances
<1>4. CASE i.status = "RESOLVED"
  <2>1. PICK g : g = i.gen + 1
    OBVIOUS
  <2>1a. g \in Nat
    BY <1>2, <2>1
  <2>2. j = [i EXCEPT !.status = "OPEN", !.sev = sev, !.gen = g, !.occ = g]
    BY <1>1, <1>4, <2>1 DEF O!Observed
  <2>3. /\ j \in Incidents /\ j.status = "OPEN" /\ j.gen = g /\ j.occ = g
        /\ j.del = i.del /\ j.prev = i.prev /\ j.lease = i.lease
    BY <1>2, <2>1a, <2>2 DEF Incidents
  <2> QED BY <1>1, <1>2, <2>1, <2>3 DEF Advances
<1>5. CASE i.status = "OPEN" /\ sev > i.sev
  <2>1. PICK g : g = i.gen + 1
    OBVIOUS
  <2>1a. g \in Nat
    BY <1>2, <2>1
  <2>2. j = [i EXCEPT !.sev = sev, !.gen = g]
    BY <1>1, <1>5, <2>1 DEF O!Observed
  <2>3. /\ j \in Incidents /\ j.status = "OPEN" /\ j.gen = g /\ j.occ = i.occ
        /\ j.del = i.del /\ j.prev = i.prev /\ j.lease = i.lease
    BY <1>2, <1>5, <2>1a, <2>2 DEF Incidents
  <2>4. i.occ >= 1 /\ i.occ <= i.gen
    BY <1>2, <1>5 DEF IncidentFits
  <2> QED BY <1>1, <1>2, <2>1, <2>3, <2>4 DEF Advances
<1>6. CASE i.status = "OPEN" /\ ~(sev > i.sev)
  BY <1>6 DEF O!Observed
<1>7. i.status \in {"NONE", "OPEN", "RESOLVED"}
  BY DEF Incidents
<1> QED BY <1>3, <1>4, <1>5, <1>6, <1>7

LEMMA ResolvedAdvances ==
    ASSUME NEW i \in Incidents, NEW st, IncidentFits(i, st), i.status = "OPEN",
           NEW j, j = [i EXCEPT !.status = "RESOLVED", !.gen = i.gen + 1]
    PROVE  Advances(i, j)
<1>1. i.gen \in Nat /\ i.occ \in Nat /\ i.occ >= 1 /\ i.occ <= i.gen
  BY DEF Incidents, IncidentFits
<1>1a. PICK g : g = i.gen + 1
  OBVIOUS
<1>1b. g \in Nat /\ j = [i EXCEPT !.status = "RESOLVED", !.gen = g]
  BY <1>1, <1>1a
<1>2. /\ j \in Incidents /\ j.status = "RESOLVED" /\ j.gen = g /\ j.occ = i.occ
      /\ j.del = i.del /\ j.prev = i.prev /\ j.lease = i.lease
  BY <1>1, <1>1b DEF Incidents
<1> QED BY <1>1, <1>1a, <1>2 DEF Advances

LEMMA UpdateFits == ASSUME OInv, NEW o \in O!Observers, O!update_incidents(o) PROVE OStep
<1>1. PICK p : p = proc[o]
  OBVIOUS
<1>2. PICK v : v = [proc[o] EXCEPT !.pc = "claim"]
  OBVIOUS
<1>3. /\ IsObserver(p) /\ inc \in Incidents /\ sent \in SUBSET (Nat \X (0..2)) /\ IncidentFits(inc, sent)
      /\ CacheFits(cache, version, trouble) /\ \A q \in O!Observers : IsObserver(proc[q]) /\ ClaimFits(proc[q], inc, sent)
  BY <1>1 DEF OInv, OTyped, Counting, Claiming
<1>4. IsObserver(v) /\ v.pc = "claim"
  BY <1>2, PositionIs
<1>5. O!Becomes(o, v) /\ UNCHANGED <<version, trouble, cache, sent>>
  <2>1. proc' = [proc EXCEPT ![o] = v]
    BY <1>2 DEF O!update_incidents, O!Goto
  <2> QED BY <2>1 DEF O!update_incidents, O!Becomes
<1>6. inc' = inc \/ Advances(inc, inc')
  <2>1. CASE p.issue > 0
    <3>1. p.issue \in 1..2
      BY <1>3, <2>1 DEF IsObserver
    <3>2. inc' = O!Observed(inc, p.issue)
      BY <1>1, <2>1 DEF O!update_incidents
    <3> QED BY <1>3, <3>1, <3>2, ObservedAdvances
  <2>2. CASE ~(p.issue > 0) /\ p.resolved /\ inc.status = "OPEN"
    <3>1. inc' = [inc EXCEPT !.status = "RESOLVED", !.gen = inc.gen + 1]
      BY <1>1, <2>2 DEF O!update_incidents
    <3> QED BY <1>3, <2>2, <3>1, ResolvedAdvances
  <2>3. CASE ~(p.issue > 0) /\ ~(p.resolved /\ inc.status = "OPEN")
    BY <1>1, <2>3 DEF O!update_incidents
  <2> QED BY <2>1, <2>2, <2>3
<1>7. /\ inc' \in Incidents /\ IncidentFits(inc', sent') /\ \A q \in O!Observers : ClaimFits(proc[q], inc', sent')
  <2>1. CASE inc' = inc
    BY <1>3, <1>5, <2>1
  <2>2. CASE Advances(inc, inc')
    <3>1. IncidentFits(inc', sent) /\ \A x : IsObserver(x) /\ ClaimFits(x, inc, sent) => ClaimFits(x, inc', sent)
      BY <1>3, <2>2, AdvanceFits
    <3>2. inc' \in Incidents
      BY <2>2 DEF Advances
    <3> QED BY <1>3, <1>5, <3>1, <3>2
  <2> QED BY <1>6, <2>1, <2>2
<1>8. ~Busy(v) /\ ClaimFits(v, inc', sent') /\ CountFits(v, version, trouble)
  BY <1>4, UnclaimedFits, UncountedFits
<1>9. sent' \subseteq Nat \X (0..2) /\ CacheFits(cache', version, trouble)
  BY <1>3, <1>5
<1> QED BY <1>4, <1>5, <1>7, <1>8, <1>9, ObserverGoes

\* What is entered in the incident that keeps its generation and its status.
Enters(i, j) ==
    j \in Incidents /\ j.status = i.status /\ j.gen = i.gen /\ j.occ = i.occ

LEMMA ClaimFitsAfter == ASSUME OInv, NEW o \in O!Observers, O!claim_notification(o) PROVE OStep
<1>1. /\ IsObserver(proc[o]) /\ inc \in Incidents /\ sent \in SUBSET (Nat \X (0..2)) /\ IncidentFits(inc, sent)
      /\ CacheFits(cache, version, trouble) /\ \A q \in O!Observers : ClaimFits(proc[q], inc, sent)
  BY DEF OInv, OTyped, Counting, Claiming
<1>2. UNCHANGED <<version, trouble, cache, sent>>
  BY DEF O!claim_notification
<1>3. CASE ~O!notification_due(inc)
  <2>1. O!Becomes(o, O!Idle) /\ inc' = inc
    BY <1>3 DEF O!claim_notification
  <2> QED BY <1>2, <2>1, IdleKeeps
<1>4. CASE O!notification_due(inc)
  <2>1. PICK l : l = O!Leased(o)
    OBVIOUS
  <2>2. l \in Leases /\ l.gen = inc.gen /\ l.occ = inc.occ
    BY <1>1, <2>1 DEF O!Leased, Leases, Incidents
  <2>3. PICK d : d = [inc.del EXCEPT !.attempt = 0, !.result = "UNKNOWN"]
    OBVIOUS
  <2>4. inc.del \in Tries
    BY <1>1 DEF Incidents
  <2>5. /\ d \in Tries /\ d.attempt = 0 /\ d.result = "UNKNOWN" /\ d.succ = inc.del.succ
        /\ d.succAge = inc.del.succAge
    <3>1. PICK r : r = inc.del
      OBVIOUS
    <3>2. r \in Tries /\ d = [r EXCEPT !.attempt = 0, !.result = "UNKNOWN"]
      BY <2>3, <2>4, <3>1
    <3>2a. PICK a : a = [r EXCEPT !.attempt = 0]
      OBVIOUS
    <3>2b. a \in Tries /\ a.attempt = 0 /\ a.succ = r.succ /\ a.succAge = r.succAge
      BY <3>2, <3>2a DEF Tries
    <3>2c. d = [a EXCEPT !.result = "UNKNOWN"]
      BY <3>2, <3>2a
    <3>3. d \in Tries /\ d.attempt = 0 /\ d.result = "UNKNOWN" /\ d.succ = r.succ /\ d.succAge = r.succAge
      BY <3>2b, <3>2c DEF Tries
    <3> QED BY <3>1, <3>3
  <2>6. inc' = [inc EXCEPT !.lease = l, !.prev = inc.del, !.del = d]
    <3>1. inc' = [inc EXCEPT !.lease = l, !.prev = inc.del, !.del.attempt = 0, !.del.result = "UNKNOWN"]
      BY <1>4, <2>1 DEF O!claim_notification, O!Fresh
    <3> QED BY <1>1, <2>3, <2>4, <3>1 DEF Incidents, Tries
  <2>7. Enters(inc, inc') /\ inc'.lease = l /\ inc'.prev = inc.del /\ inc'.del = d
    BY <1>1, <2>2, <2>4, <2>5, <2>6 DEF Incidents, Enters
  <2>8. PICK q : q = [proc[o] EXCEPT !.pc = "send"]
    OBVIOUS
  <2>9. PICK v : v = [q EXCEPT !.lease = l]
    OBVIOUS
  <2>10. O!Becomes(o, v)
    BY <1>4, <2>1, <2>8, <2>9 DEF O!claim_notification
  <2>11. IsObserver(q) /\ q.pc = "send"
    BY <1>1, <2>8, PcIs
  <2>12. IsObserver(v) /\ v.pc = q.pc /\ v.lease = l
    BY <2>2, <2>9, <2>11, LeaseIs
  <2>13. inc.status # "NONE" /\ ~Pending(inc.del) /\ (inc.del.succ < inc.gen \/ inc.del.succAge = 2)
    BY <1>4 DEF O!notification_due, Pending, O!Fresh, O!Old
  <2>14. Recent(inc.del, sent)
    BY <1>1, <2>13 DEF IncidentFits
  <2>15. inc.gen \in Nat /\ inc.occ \in Nat /\ inc.del.succ \in Nat /\ inc.gen >= 1 /\ inc.occ >= 1 /\ inc.occ <= inc.gen
    BY <1>1, <2>4, <2>13 DEF Incidents, Tries, IncidentFits
  <2>16. \A s \in sent : s[2] = 0 => s[1] < l.gen
    <3>1. SUFFICES ASSUME NEW s \in sent, s[2] = 0
                   PROVE  s[1] < l.gen
      OBVIOUS
    <3>2. s[1] <= inc.del.succ /\ inc.del.succAge = 0 /\ s[1] \in Nat
      BY <1>1, <2>14, <3>1 DEF Recent
    <3> QED BY <2>2, <2>13, <2>15, <3>2
  <2>17. IncidentFits(inc', sent)
    <3>1. Pending(d) /\ WasShown(d.succ, sent) /\ WasShown(inc.del.succ, sent)
      BY <1>1, <2>5 DEF Pending, IncidentFits
    <3>2. d.succ <= inc.gen /\ \A s \in sent : s[1] <= inc.gen
      BY <1>1, <2>5 DEF IncidentFits
    <3>3. inc'.status # "NONE" /\ inc'.gen = inc.gen /\ inc'.occ = inc.occ
      BY <2>7, <2>13 DEF Enters
    <3>4. 1 <= l.gen /\ l.gen <= inc.gen /\ 1 <= l.occ /\ l.occ <= l.gen
      BY <2>2, <2>15
    <3> QED BY <1>1, <2>5, <2>7, <2>15, <3>1, <3>2, <3>3, <3>4 DEF IncidentFits
  <2>18. ClaimFits(v, inc', sent)
    <3>1. inc'.status # "NONE" /\ inc'.gen = inc.gen
      BY <2>7, <2>13 DEF Enters
    <3>2. v.pc = "send" /\ v.pc # "settle"
      BY <2>11, <2>12
    <3> QED BY <2>2, <2>5, <2>7, <2>12, <2>14, <2>15, <2>16, <3>1, <3>2 DEF ClaimFits
  <2>19. \A q2 \in O!Observers : ~Busy(proc[q2])
    BY <1>1, <2>13 DEF ClaimFits, Pending
  <2>20. \A q2 \in O!Observers : ClaimFits(proc[q2], inc', sent')
    BY <2>19 DEF ClaimFits, Busy
  <2>21. v.pc \notin {"count", "bind", "write", "update", "settle"}
    BY <2>11, <2>12
  <2>22. CountFits(v, version, trouble)
    BY <2>21, UncountedFits
  <2>23. /\ inc' \in Incidents /\ sent' \subseteq Nat \X (0..2) /\ CacheFits(cache', version, trouble)
         /\ IncidentFits(inc', sent') /\ ClaimFits(v, inc', sent')
    BY <1>1, <1>2, <2>7, <2>17, <2>18 DEF Enters
  <2> QED BY <1>2, <2>10, <2>12, <2>19, <2>20, <2>21, <2>22, <2>23, ObserverGoes
<1> QED BY <1>3, <1>4

LEMMA SendFits == ASSUME OInv, NEW o \in O!Observers, O!send_native_notification(o) PROVE OStep
<1>1. PICK p : p = proc[o]
  OBVIOUS
<1>2. PICK v : v = [proc[o] EXCEPT !.pc = "settle"]
  OBVIOUS
<1>3. /\ IsObserver(p) /\ inc \in Incidents /\ sent \in SUBSET (Nat \X (0..2)) /\ IncidentFits(inc, sent)
      /\ CacheFits(cache, version, trouble) /\ ClaimFits(p, inc, sent)
  BY <1>1 DEF OInv, OTyped, Counting, Claiming
<1>4. IsObserver(v) /\ v.pc = "settle" /\ v.lease = p.lease
  BY <1>1, <1>2, PositionIs
<1>5. O!Becomes(o, v) /\ UNCHANGED <<version, trouble, cache, inc>> /\ p.pc = "send"
  <2>1. proc' = [proc EXCEPT ![o] = v]
    BY <1>2 DEF O!send_native_notification, O!Goto
  <2> QED BY <1>1, <2>1 DEF O!send_native_notification, O!Becomes, O!At
<1>6. PICK g : g = p.lease.gen
  OBVIOUS
<1>7. g \in Nat /\ g >= 1 /\ g <= inc.gen /\ inc.status # "NONE" /\ Pending(inc.del)
  BY <1>3, <1>5, <1>6 DEF IsObserver, Leases, ClaimFits, Busy, Pending
<1>8. sent' = sent \cup {<<g, 0>>}
  BY <1>1, <1>6 DEF O!send_native_notification, O!Fresh
<1>9. sent' \subseteq Nat \X (0..2)
  BY <1>3, <1>7, <1>8
<1>10. IncidentFits(inc', sent')
  <2>1. \A n : WasShown(n, sent) => WasShown(n, sent')
    BY <1>8 DEF WasShown
  <2>2. \A s \in sent' : s[1] <= inc.gen
    BY <1>3, <1>7, <1>8 DEF IncidentFits
  <2> QED BY <1>3, <1>5, <1>7, <2>1, <2>2 DEF IncidentFits
<1>11. ClaimFits(v, inc', sent')
  <2>1. WasShown(g, sent')
    <3>1. <<g, 0>> \in sent' /\ <<g, 0>>[1] = g
      BY <1>8
    <3> QED BY <3>1 DEF WasShown
  <2> QED BY <1>3, <1>4, <1>5, <1>6, <1>7, <2>1 DEF ClaimFits, Busy
<1>12. \A q \in O!Observers \ {o} : ~Busy(proc[q])
  BY <1>1, <1>5 DEF OInv, Claiming, Busy
<1>13. \A q \in O!Observers \ {o} : ClaimFits(proc[q], inc', sent')
  BY <1>12 DEF ClaimFits, Busy
<1>14. <<p.lease.gen, O!Fresh>> \notin sent
  <2>1. <<g, 0>> \notin sent
    <3>1. SUFFICES ASSUME <<g, 0>> \in sent PROVE FALSE
      OBVIOUS
    <3>2. <<g, 0>>[2] = 0 /\ <<g, 0>>[1] = g
      OBVIOUS
    <3>3. g < g
      BY <1>3, <1>5, <1>6, <3>1, <3>2 DEF ClaimFits
    <3> QED BY <1>7, <3>3
  <2> QED BY <1>6, <2>1 DEF O!Fresh
<1>15. v.pc \notin {"count", "bind", "write", "update"} /\ CountFits(v, version, trouble)
  BY <1>4, UncountedFits
<1>16. inc' \in Incidents /\ CacheFits(cache', version, trouble)
  BY <1>3, <1>5
<1> QED BY <1>1, <1>4, <1>5, <1>9, <1>10, <1>11, <1>12, <1>13, <1>14, <1>15, <1>16, ObserverGoes

\* A claim that ends, whatever is entered for it.
LEMMA ClaimEnds ==
    ASSUME OInv, NEW o \in O!Observers, O!Becomes(o, O!Idle), Busy(proc[o]),
           UNCHANGED <<version, trouble, cache, sent>>,
           NEW d \in Tries, inc' = [inc EXCEPT !.del = d, !.lease = O!NoLease],
           d.succ <= inc.gen, WasShown(d.succ, sent), Recent(d, sent) \/ Pending(d)
    PROVE  OStep
<1>1. /\ inc \in Incidents /\ sent \in SUBSET (Nat \X (0..2)) /\ IncidentFits(inc, sent)
      /\ CacheFits(cache, version, trouble) /\ ClaimFits(proc[o], inc, sent)
  BY DEF OInv, OTyped, Counting, Claiming
<1>2. Enters(inc, inc') /\ inc'.del = d /\ inc'.lease = O!NoLease /\ inc'.prev = inc.prev
  BY <1>1, Constants DEF Enters, Incidents
<1>3. inc.status # "NONE"
  BY <1>1 DEF ClaimFits
<1>4. IncidentFits(inc', sent)
  BY <1>1, <1>2, <1>3 DEF IncidentFits, Enters
<1>5. \A q \in O!Observers \ {o} : ~Busy(proc[q])
  BY DEF OInv, Claiming
<1>6. \A q \in O!Observers \ {o} : ClaimFits(proc[q], inc', sent')
  BY <1>5 DEF ClaimFits, Busy
<1>7. ~Busy(O!Idle) /\ ClaimFits(O!Idle, inc', sent') /\ CountFits(O!Idle, version, trouble)
  BY Constants, UnclaimedFits, UncountedFits
<1>8. inc' \in Incidents /\ sent' \subseteq Nat \X (0..2) /\ CacheFits(cache', version, trouble) /\ IncidentFits(inc', sent')
  BY <1>1, <1>2, <1>4 DEF Enters
<1> QED BY <1>6, <1>7, <1>8, Constants, ObserverGoes

LEMMA SettleFits == ASSUME OInv, NEW o \in O!Observers, O!settle_notification(o) PROVE OStep
<1>1. O!Becomes(o, O!Idle) /\ UNCHANGED <<version, trouble, cache, sent>> /\ proc[o].pc = "settle"
  BY DEF O!settle_notification, O!At
<1>2. CASE ~O!_matching_lease(o)
  <2>1. inc' = inc
    BY <1>2 DEF O!settle_notification
  <2> QED BY <1>1, <2>1, IdleKeeps
<1>3. CASE O!_matching_lease(o)
  <2>1. PICK g : g = proc[o].lease.gen
    OBVIOUS
  <2>2. g \in Nat /\ inc.gen = g /\ Busy(proc[o]) /\ WasShown(g, sent)
    BY <1>1, <1>3, <2>1 DEF O!_matching_lease, OInv, OTyped, Claiming, IsObserver, Leases, Busy, ClaimFits
  <2>3. PICK r : r = inc.del
    OBVIOUS
  <2>4. PICK d : d = [r EXCEPT !.result = "SUCCESS", !.succ = g, !.succAge = 0]
    OBVIOUS
  <2>5. r \in Tries
    BY <2>3 DEF OInv, OTyped, Incidents
  <2>6. d \in Tries /\ d.succ = g /\ d.succAge = 0
    <3>1. PICK a : a = [r EXCEPT !.result = "SUCCESS"]
      OBVIOUS
    <3>2. a \in Tries
      BY <2>5, <3>1 DEF Tries
    <3>3. PICK b : b = [a EXCEPT !.succ = g]
      OBVIOUS
    <3>4. b \in Tries /\ b.succ = g
      BY <2>2, <3>2, <3>3 DEF Tries
    <3>5. d = [b EXCEPT !.succAge = 0]
      BY <2>4, <3>1, <3>3
    <3> QED BY <3>4, <3>5 DEF Tries
  <2>7. inc' = [inc EXCEPT !.del = d, !.lease = O!NoLease]
    <3>1. inc' = [inc EXCEPT !.lease = O!NoLease, !.del.result = "SUCCESS", !.del.succ = g, !.del.succAge = 0]
      BY <1>3, <2>1 DEF O!settle_notification, O!Fresh
    <3>2. inc \in Incidents
      BY DEF OInv, OTyped
    <3> QED BY <2>3, <2>4, <2>5, <3>1, <3>2 DEF Incidents, Tries
  <2>8. \A s \in sent : s[1] <= g
    BY <2>2 DEF OInv, Claiming, IncidentFits
  <2>9. Recent(d, sent)
    BY <2>6, <2>8 DEF Recent
  <2>10. d.succ <= inc.gen /\ WasShown(d.succ, sent)
    BY <2>2, <2>6
  <2> QED BY <1>1, <2>2, <2>6, <2>7, <2>9, <2>10, ClaimEnds
<1> QED BY <1>2, <1>3

LEMMA FailureFits == ASSUME OInv, NEW o \in O!Observers, O!SendFails(o) PROVE OStep
<1>1. O!Becomes(o, O!Idle) /\ UNCHANGED <<version, trouble, cache, sent>> /\ Busy(proc[o])
  BY DEF O!SendFails, O!At, Busy
<1>2. CASE ~O!_matching_lease(o)
  <2>1. inc' = inc
    BY <1>2 DEF O!SendFails
  <2> QED BY <1>1, <2>1, IdleKeeps
<1>3. CASE O!_matching_lease(o)
  <2>3. PICK r : r = inc.del
    OBVIOUS
  <2>4. PICK d : d = [r EXCEPT !.result = "FAILED"]
    OBVIOUS
  <2>5. /\ r \in Tries /\ r.attempt = 0 /\ r.succ <= inc.gen /\ WasShown(r.succ, sent)
    BY <1>1, <2>3 DEF OInv, OTyped, Incidents, Claiming, IncidentFits, ClaimFits
  <2>6. d \in Tries /\ d.succ = r.succ /\ d.attempt = 0 /\ d.result = "FAILED"
    BY <2>4, <2>5 DEF Tries
  <2>7. inc' = [inc EXCEPT !.del = d, !.lease = O!NoLease]
    <3>1. inc' = [inc EXCEPT !.lease = O!NoLease, !.del.result = "FAILED"]
      BY <1>3 DEF O!SendFails
    <3>2. inc \in Incidents
      BY DEF OInv, OTyped
    <3> QED BY <2>3, <2>4, <2>5, <3>1, <3>2 DEF Incidents, Tries
  <2>8. Pending(d) /\ d.succ <= inc.gen /\ WasShown(d.succ, sent)
    BY <2>5, <2>6 DEF Pending
  <2> QED BY <1>1, <2>6, <2>7, <2>8, ClaimEnds
<1> QED BY <1>2, <1>3

LEMMA AbortFits == ASSUME OInv, NEW o \in O!Observers, O!abort_notification(o) PROVE OStep
<1>1. O!Becomes(o, O!Idle) /\ UNCHANGED <<version, trouble, cache, sent>> /\ proc[o].pc = "send" /\ Busy(proc[o])
  BY DEF O!abort_notification, O!At, Busy
<1>2. CASE ~O!_matching_lease(o)
  <2>1. inc' = inc
    BY <1>2 DEF O!abort_notification
  <2> QED BY <1>1, <2>1, IdleKeeps
<1>3. CASE O!_matching_lease(o)
  <2>1. inc' = [inc EXCEPT !.del = inc.prev, !.lease = O!NoLease]
    BY <1>3 DEF O!abort_notification
  <2>2. /\ inc.prev \in Tries /\ inc.prev.succ <= inc.gen /\ WasShown(inc.prev.succ, sent)
        /\ Recent(inc.prev, sent)
    BY <1>1 DEF OInv, OTyped, Incidents, Claiming, IncidentFits, ClaimFits
  <2> QED BY <1>1, <2>1, <2>2, ClaimEnds
<1> QED BY <1>2, <1>3

LEMMA DeathFits == ASSUME OInv, NEW o \in O!Observers, O!Die(o) PROVE OStep
<1>1. O!Becomes(o, O!Idle) /\ UNCHANGED <<version, trouble, cache, inc, sent>>
  BY DEF O!Die
<1> QED BY <1>1, IdleKeeps

-----------------------------------------------------------------------------
(* Time, and the stores.                                                       *)

\* A step of the surroundings.
LEMMA ObserversRest ==
    ASSUME OInv, proc' = proc, inc' \in Incidents, sent' \subseteq Nat \X (0..2),
           version' \in Nat, trouble' \in 0..2,
           CacheFits(cache', version', trouble'), CountFits(proc[Maintenance], version', trouble'),
           IncidentFits(inc', sent'), \A o \in O!Observers : ClaimFits(proc[o], inc', sent')
    PROVE  OStep
<1>1. OTyped'
  BY DEF OInv, OTyped
<1>2. Counting'
  BY DEF Counting
<1>3. Claiming'
  BY DEF OInv, Claiming
<1>4. O!IssueIsCurrent /\ O!ShownOncePerHour
  BY DEF O!IssueIsCurrent, O!ShownOncePerHour, O!At
<1> QED BY <1>1, <1>2, <1>3, <1>4 DEF OInv, OStep

LEMMA CustodyFits == OInv /\ O!CustodyChanges => OStep
<1> SUFFICES ASSUME OInv, O!CustodyChanges
             PROVE  OStep
  OBVIOUS
<1>1. version \in Nat /\ version' = version + 1 /\ trouble' \in 0..2 /\ UNCHANGED <<cache, inc, proc, sent>>
  BY DEF OInv, Counting, O!CustodyChanges, O!Severities
<1>2. CacheFits(cache', version', trouble')
  BY <1>1 DEF OInv, Counting, CacheFits
<1>3. IsObserver(proc[Maintenance]) /\ CountFits(proc[Maintenance], version, trouble)
  BY Constants DEF OInv, OTyped, Counting
<1>4. CountFits(proc[Maintenance], version', trouble')
  BY <1>1, <1>3 DEF CountFits, IsObserver
<1>5. /\ inc' \in Incidents /\ sent' \subseteq Nat \X (0..2) /\ version' \in Nat
      /\ IncidentFits(inc', sent') /\ \A o \in O!Observers : ClaimFits(proc[o], inc', sent')
  BY <1>1 DEF OInv, OTyped, Claiming
<1> QED BY <1>1, <1>2, <1>4, <1>5, ObserversRest

LEMMA OlderIs ==
    ASSUME NEW a \in 0..2
    PROVE  O!Older(a) \in 1..2 /\ (a = 2 => O!Older(a) = 2)
  BY DEF O!Older, O!Old

\* An hour later.
Aged(t) == [t EXCEPT !.attempt = O!Older(@), !.succAge = O!Older(@)]

LEMMA AgedIs ==
    ASSUME NEW t \in Tries
    PROVE  /\ Aged(t) \in Tries /\ Aged(t).succ = t.succ /\ Aged(t).result = t.result
           /\ (t = O!Untried => Aged(t) = t)
<1>1. PICK a : a = O!Older(t.attempt)
  OBVIOUS
<1>2. PICK b : b = O!Older(t.succAge)
  OBVIOUS
<1>3. t.attempt \in 0..2 /\ t.succAge \in 0..2
  BY DEF Tries
<1>4. a \in 1..2 /\ b \in 1..2 /\ (t.attempt = 2 => a = 2) /\ (t.succAge = 2 => b = 2)
  BY <1>1, <1>2, <1>3, OlderIs
<1>5. PICK u : u = [t EXCEPT !.attempt = a]
  OBVIOUS
<1>6. a \in 0..2 /\ b \in 0..2
  BY <1>4
<1>7. u \in Tries /\ u.succ = t.succ /\ u.result = t.result /\ u.succAge = t.succAge
  BY <1>5, <1>6 DEF Tries
<1>8. PICK v : v = [u EXCEPT !.succAge = b]
  OBVIOUS
<1>9. v \in Tries /\ v.succ = u.succ /\ v.result = u.result
  BY <1>6, <1>7, <1>8 DEF Tries
<1>10. v = Aged(t)
  BY <1>1, <1>2, <1>5, <1>8 DEF Aged
<1>11. ASSUME t = O!Untried
       PROVE  v = t
  <2>1. t.attempt = 2 /\ t.succAge = 2
    BY <1>11 DEF O!Untried, O!Old
  <2>2. a = t.attempt /\ b = t.succAge
    BY <1>4, <2>1
  <2>3. u = t
    BY <1>5, <2>2 DEF Tries
  <2> QED BY <1>8, <2>2, <2>3 DEF Tries
<1> QED BY <1>7, <1>9, <1>10, <1>11

LEMMA TickFits == OInv /\ O!Tick => OStep
<1> SUFFICES ASSUME OInv, O!Tick
             PROVE  OStep
  OBVIOUS
<1>1. UNCHANGED <<version, trouble, proc>>
  BY DEF O!Tick
<1>2. /\ inc \in Incidents /\ sent \in SUBSET (Nat \X (0..2)) /\ IncidentFits(inc, sent)
      /\ version \in Nat /\ trouble \in 0..2
      /\ CacheFits(cache, version, trouble) /\ CountFits(proc[Maintenance], version, trouble)
  BY DEF OInv, OTyped, Counting, Claiming
<1>3. inc.del \in Tries /\ inc.prev \in Tries
  BY <1>2 DEF Incidents
<1>4. PICK d : d = Aged(inc.del)
  OBVIOUS
<1>5. PICK p : p = Aged(inc.prev)
  OBVIOUS
<1>6. /\ d \in Tries /\ d.succ = inc.del.succ /\ d.result = inc.del.result
      /\ p \in Tries /\ p.succ = inc.prev.succ
      /\ (inc.del = O!Untried => d = inc.del) /\ (inc.prev = O!Untried => p = inc.prev)
  BY <1>3, <1>4, <1>5, AgedIs
<1>7. inc' = [inc EXCEPT !.del = d, !.prev = p]
  <2>1. inc' = [inc EXCEPT !.del.attempt = O!Older(inc.del.attempt), !.del.succAge = O!Older(inc.del.succAge),
                           !.prev.attempt = O!Older(inc.prev.attempt), !.prev.succAge = O!Older(inc.prev.succAge)]
    BY DEF O!Tick
  <2> QED BY <1>2, <1>3, <1>4, <1>5, <2>1 DEF Incidents, Tries, Aged
<1>8. Enters(inc, inc') /\ inc'.del = d /\ inc'.prev = p /\ inc'.lease = inc.lease
  BY <1>2, <1>6, <1>7 DEF Enters, Incidents
<1>9. sent' = {<<s[1], O!Older(s[2])>> : s \in sent}
  BY DEF O!Tick
<1>10. \A s \in sent : s[1] \in Nat /\ O!Older(s[2]) \in 1..2
  BY <1>2, OlderIs
<1>11. \A r \in sent' : \E s \in sent : r[1] = s[1] /\ r[2] \in 1..2 /\ r \in Nat \X (0..2)
  <2>1. SUFFICES ASSUME NEW r \in sent'
                 PROVE  \E s \in sent : r[1] = s[1] /\ r[2] \in 1..2 /\ r \in Nat \X (0..2)
    OBVIOUS
  <2>2. PICK s \in sent : r = <<s[1], O!Older(s[2])>>
    BY <1>9, <2>1
  <2>3. PICK a : a = O!Older(s[2])
    OBVIOUS
  <2>4. a \in 1..2 /\ s[1] \in Nat /\ r = <<s[1], a>>
    BY <1>10, <2>2, <2>3
  <2> QED BY <2>4
<1>12. sent' \subseteq Nat \X (0..2)
  BY <1>11
<1>13. \A n : WasShown(n, sent) => WasShown(n, sent')
  <2>1. SUFFICES ASSUME NEW n, WasShown(n, sent)
                 PROVE  WasShown(n, sent')
    OBVIOUS
  <2>2. SUFFICES ASSUME n > 0
                 PROVE  \E r \in sent' : r[1] = n
    BY DEF WasShown
  <2>3. PICK s \in sent : s[1] = n
    BY <2>1, <2>2 DEF WasShown
  <2>4. <<s[1], O!Older(s[2])>> \in sent'
    BY <1>9, <2>3
  <2>5. <<s[1], O!Older(s[2])>>[1] = s[1]
    OBVIOUS
  <2> QED BY <2>3, <2>4, <2>5
<1>14. Recent(d, sent')
  BY <1>11 DEF Recent
<1>15. inc.status = "NONE" => inc' = O!NoIncident /\ sent' = {}
  <2>1. SUFFICES ASSUME inc.status = "NONE"
                 PROVE  inc' = O!NoIncident /\ sent' = {}
    OBVIOUS
  <2>2. inc = O!NoIncident /\ sent = {}
    BY <1>2, <2>1 DEF IncidentFits
  <2>3. inc.del = O!Untried /\ inc.prev = O!Untried
    BY <2>2 DEF O!NoIncident
  <2>4. d = inc.del /\ p = inc.prev
    BY <1>6, <2>3
  <2>5. inc' = inc
    BY <1>2, <1>7, <2>4 DEF Incidents
  <2> QED BY <1>9, <2>2, <2>5
<1>16. IncidentFits(inc', sent')
  <2>1. \A r \in sent' : r[1] <= inc.gen
    BY <1>2, <1>11 DEF IncidentFits
  <2>2. WasShown(d.succ, sent') /\ WasShown(p.succ, sent')
    BY <1>2, <1>6, <1>13 DEF IncidentFits
  <2> QED BY <1>2, <1>6, <1>8, <1>14, <1>15, <2>1, <2>2 DEF IncidentFits, Enters
<1>17. \A o \in O!Observers : ClaimFits(proc[o], inc', sent')
  BY DEF O!Tick, O!At, ClaimFits, Busy
<1>18. CacheFits(cache', version', trouble')
  <2>1. cache' = cache \/ cache' = O!NoCache
    BY DEF O!Tick
  <2>2. O!NoCache.binding = -1 /\ O!NoCache.issue = 0
    BY DEF O!NoCache
  <2> QED BY <1>1, <1>2, <2>1, <2>2 DEF CacheFits
<1> QED BY <1>1, <1>2, <1>8, <1>12, <1>16, <1>17, <1>18, ObserversRest DEF Enters

LEMMA OperationStep == OInv /\ [O!Next]_(O!vars) => OStep
<1> SUFFICES ASSUME OInv, [O!Next]_(O!vars)
             PROVE  OStep
  OBVIOUS
<1>1. ASSUME NEW o \in O!Observers, O!Service(o)
      PROVE  OStep
  BY <1>1, SnapshotFits, UpdateFits, ClaimFitsAfter, SendFits, SettleFits DEF O!Service
<1>2. CASE O!Maintain
  BY <1>1, <1>2, Constants, BindingFits, CountFitsAfter, BindFits, WriteFits DEF O!Maintain
<1>3. ASSUME NEW h \in HookCalls, O!StartHook(h) \/ O!Service(h)
      PROVE  OStep
  <2>1. h \in O!Observers
    BY DEF O!Observers
  <2> QED BY <1>1, <1>3, <2>1, StartFits
<1>4. ASSUME NEW o \in O!Observers, O!abort_notification(o) \/ O!SendFails(o) \/ O!Die(o)
      PROVE  OStep
  BY <1>4, AbortFits, FailureFits, DeathFits
<1>5. CASE UNCHANGED O!vars
  <2>1. UNCHANGED <<version, trouble, cache, inc, proc, sent>>
    BY <1>5 DEF O!vars
  <2> QED BY <2>1, ObserversRest DEF OInv, OTyped, Counting, Claiming
<1> QED BY <1>2, <1>3, <1>4, <1>5, TickFits, CustodyFits DEF O!Next

-----------------------------------------------------------------------------
(* The composition: a behaviour is one of the component its part names.        *)

LEMMA Starts ==
    Init => /\ part = "hooks" => H!Init
            /\ part = "sources" => S!Init
            /\ part = "closeout" => C!Init
            /\ part = "operation" => O!Init
            /\ part = "team" => T!Init
            /\ part = "notification" => N!Init
  BY DEF Init

\* The variables beside the component of the behaviour stay, and so does part.
LEMMA Steps ==
    [Next]_vars => /\ part' = part
                   /\ part = "hooks" => [H!Next]_(H!vars)
                   /\ part = "sources" => [S!Next]_(S!vars)
                   /\ part = "closeout" => [C!Next]_(C!vars)
                   /\ part = "operation" => [O!Next]_(O!vars)
                   /\ part = "team" => [T!Next]_(T!vars)
                   /\ part = "notification" => [N!Next]_(N!vars)
<1> SUFFICES ASSUME [Next]_vars
             PROVE  /\ part' = part
                    /\ part = "hooks" => [H!Next]_(H!vars)
                    /\ part = "sources" => [S!Next]_(S!vars)
                    /\ part = "closeout" => [C!Next]_(C!vars)
                    /\ part = "operation" => [O!Next]_(O!vars)
                    /\ part = "team" => [T!Next]_(T!vars)
                    /\ part = "notification" => [N!Next]_(N!vars)
  OBVIOUS
<1>1. CASE Next
  BY <1>1 DEF Next, BesideH, BesideS, BesideC, BesideO, BesideT, BesideN
<1>2. CASE UNCHANGED vars
  <2>1. part' = part /\ UNCHANGED H!vars
    BY <1>2 DEF vars, H!vars
  <2>2. UNCHANGED S!vars
    BY <1>2 DEF vars, S!vars
  <2>3. UNCHANGED C!vars
    BY <1>2 DEF vars, C!vars
  <2>4. UNCHANGED O!vars
    BY <1>2 DEF vars, O!vars
  <2>5. UNCHANGED T!vars
    BY <1>2 DEF vars, T!vars
  <2>6. UNCHANGED N!vars
    BY <1>2 DEF vars, N!vars
  <2> QED BY <2>1, <2>2, <2>3, <2>4, <2>5, <2>6
<1> QED BY <1>1, <1>2

\* _record_agent_locked, handle_hook and coordinate_record, for any agents, turns, keys and
\* sources, however often a hook is called again, a source changes or a run dies: what two
\* routes observe is stored once, a session keeps to its limit, "ok" is answered of what is on
\* record, bound or not, and no cursor passes a record that is neither stored nor refused for good.
THEOREM ObservationStaysOnce == Spec => []ObservedIsStoredOnce
<1> DEFINE J == (part = "hooks" => HInv) /\ (part = "sources" => SInv)
<1>1. Init => J
  BY Starts, HInit, SInit
<1>2. J /\ [Next]_vars => J'
  BY Steps, HStep, SourcesStep
<1>3. J => ObservedIsStoredOnce
  BY HFits, SFits DEF ObservedIsStoredOnce
<1> QED BY <1>1, <1>2, <1>3, PTL DEF Spec

\* _commit_receipts, _finalize_team_handoff and _cleanup_lost_closeout, with any number of
\* live calls, recoveries, deaths, failed writes and pending captures of the targets' own: a
\* secured target has a candidate of its own or an applied YES, a close-out is acknowledged
\* when all of it is durable, and a loss is reported before it leaves the index.
THEOREM CloseoutStaysProven == Spec => CloseoutIsProven
<1> DEFINE J == part = "closeout" => CInv
<1>1. Init => J
  BY Starts, CInit
<1>2. J /\ [Next]_vars => J'
  BY Steps, CloseoutStep DEF CStep
<1>3. J => (part = "closeout" => C!ProofMeansDecided)
  BY CFits
<1>4. J /\ [Next]_vars =>
         (part = "closeout" => C!LossIsReported /\ \A p \in C!Calls : C!AckIsComplete(p))
  BY Steps, CloseoutStep DEF CStep
<1> QED BY <1>1, <1>2, <1>3, <1>4, PTL DEF Spec, CloseoutIsProven

\* claim_notification, settle_notification, abort_notification and update_incidents, run by
\* any number of hooks beside maintenance: the incident file stays readable, a success on
\* record was shown, nothing is shown twice within the hour, and what a cached count calls an
\* issue is one.
THEOREM IncidentsStayTrue == Spec => IncidentsAreTrue
<1> DEFINE J == part = "operation" => OInv
<1>1. Init => J
  BY Starts, OInit
<1>2. J /\ [Next]_vars => J'
  BY Steps, OperationStep DEF OStep
<1>3. J => (part = "operation" => O!IncidentIsReadable /\ O!SuccessWasShown)
  BY OFits
<1>4. J /\ [Next]_vars => (part = "operation" => O!ShownOncePerHour /\ O!IssueIsCurrent)
  BY Steps, OperationStep DEF OStep
<1> QED BY <1>1, <1>2, <1>3, <1>4, PTL DEF Spec, IncidentsAreTrue

\* append_team_event and drain_team_outbox for any machines and events, while the shared root
\* comes and goes and writes fail: an event reported as recorded is in the shared store, one
\* handed over is there or in the outbox while the time of its ciphertext lasts, and within
\* it that is not deleted before the event is in the store.
THEOREM ReportStaysDurable == Spec => []ReportIsDurable
<1> DEFINE J == part = "team" => TInv
<1>1. Init => J
  BY Starts, TInit
<1>2. J /\ [Next]_vars => J'
  BY Steps, TStep
<1>3. J => ReportIsDurable
  BY TReported DEF ReportIsDurable
<1> QED BY <1>1, <1>2, <1>3, PTL DEF Spec

\* _ensure_windows_notification_registration and the removal, whatever dies in between and
\* whenever somebody else writes: a shortcut or record of theirs is left as it is.
THEOREM ForeignStaysKept == Spec => ForeignIsKept
<1> DEFINE J == part = "notification" => NTyped
<1>1. Init => J
  BY Starts, NInit
<1>2. J /\ [Next]_vars => J'
  BY Steps, NStep
<1>3. J /\ [Next]_vars => (part = "notification" => N!ForeignIsKept)
  BY Steps, NStep
<1> QED BY <1>1, <1>2, <1>3, PTL DEF Spec, ForeignIsKept
=============================================================================
