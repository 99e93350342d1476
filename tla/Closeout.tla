------------------------------ MODULE Closeout ------------------------------
(***************************************************************************)
(* Associated close-out: closeout_association.py with its record store     *)
(* (closeout_store.py), its context checks (closeout_context.py) and the   *)
(* entry closeout_service.py.                                              *)
(*                                                                         *)
(* One close-out of a session and the turns it covers (Targets).  A live   *)
(* call of the host and the recovery of a maintenance run work on the same *)
(* record: each section under the capture lock is one step here, and what  *)
(* a call read in one section may be stale in the next.  A death inside a  *)
(* section that writes several files is a step that writes only the first. *)
(* apply_changeset is one step: Journal models its inside.                 *)
(***************************************************************************)
EXTENDS Naturals, FiniteSets

CONSTANTS Live,         \* processes of hosts that close out
          Maint,        \* the maintenance run (maintenance.lock admits one)
          Targets,      \* the turns the close-out covers
          OwnCaptures,  \* those of them that made a capture of their own
          MaxFaults     \* bound: deaths and failed steps

VARIABLES store,        \* the index: are its files there, is the record listed
          rec,          \* the record file
          body,         \* the prepared result in the spool: NoBody, "YES" or "NO"
          expired,      \* expires_at has passed
          marked,       \* the journal has the marker of the change set
          receipts,     \* [Targets -> receipt]
          binding,      \* [Targets -> binding file: "none", "plain" or with the "proof"]
          delivered,    \* the team has the item
          incident,     \* the loss is recorded as an incident
          call,         \* [Calls -> where it is and the record as it read it]
          acked,        \* [Calls -> whether its last result was an acknowledgement]
          faults
vars == <<store, rec, body, expired, marked, receipts, binding, delivered, incident, call, acked, faults>>

Calls == Live \cup Maint
NoBody == "none"
NoRecord == [status |-> "none", content |-> "none", decision |-> "none", ref |-> FALSE, witness |-> FALSE,
             spool |-> FALSE, team |-> "none"]
_new_intent(d) == [NoRecord EXCEPT !.status = "PREPARING", !.content = d]
\* A capture receipt: its state, whether the turn's own pending capture is one of its
\* candidates, and the close-out's proof.
Waiting == [state |-> "WAITING", own |-> FALSE, proof |-> FALSE]
Rest == [pc |-> "rest", r |-> NoRecord]

Init == /\ store = [files |-> FALSE, listed |-> FALSE]
        /\ rec = NoRecord /\ body = NoBody /\ expired = FALSE /\ marked = FALSE
        /\ receipts = [t \in Targets |-> Waiting]
        /\ binding = [t \in Targets |-> "none"]
        /\ delivered = FALSE /\ incident = FALSE
        /\ call = [p \in Calls |-> Rest]
        /\ acked = [p \in Calls |-> FALSE]
        /\ faults = 0

Fault == faults < MaxFaults /\ faults' = faults + 1
Go(p, pc, r) == call' = [call EXCEPT ![p] = [pc |-> pc, r |-> r]] /\ UNCHANGED acked
Return(p, a) == call' = [call EXCEPT ![p] = Rest] /\ acked' = [acked EXCEPT ![p] = (a = "COMMITTED")]
At(p, pc) == call[p].pc = pc
R(p) == call[p].r
Disk == <<store, rec, body>>
World == <<expired, marked, receipts, binding, delivered, incident>>

(* closeout_context.py *)
_receipt_is_usable(t) == receipts[t].state \in {"WAITING", "SECURED", "EVALUATED_NONE"}
_revalidate_context_under_lock == \A t \in Targets : binding[t] # "none" /\ _receipt_is_usable(t)
_revalidate_persisted_context_under_lock == \A t \in Targets : binding[t] # "none" /\ _receipt_is_usable(t)
validate_adapter_context == \A t \in Targets : binding[t] # "none" /\ _receipt_is_usable(t)
register_adapter_target(t) ==
    /\ binding[t] = "none" /\ _receipt_is_usable(t)
    /\ binding' = [binding EXCEPT ![t] = "plain"]
    /\ UNCHANGED <<Disk, expired, marked, receipts, delivered, incident, call, acked, faults>>

(* closeout_store.py: an inventory that is not complete refuses everything. *)
_inventory == store.files /\ (store.listed => rec # NoRecord)
active_records == IF store.files /\ store.listed THEN {rec} ELSE {}

\* _team_summary_valid: only a final outcome is one.
_team_summary_valid(r) == r.team \in {"DELIVERED", "NOT_ELIGIBLE"}
Readable == body # NoBody /\ ~expired

----------------------------------------------------------------------------
(* process_closeout: only a decision taken before, for a valid context, is  *)
(* associated; the others end here and leave no record.                     *)
process_closeout(p) ==
    /\ p \in Live /\ At(p, "rest") /\ validate_adapter_context
    /\ \/ \E d \in {"YES", "NO"} : Go(p, "request", [NoRecord EXCEPT !.content = d])
       \/ \E why \in {"DEFERRED", "FAILED", "CLOSEOUT_PRIVACY_REJECTED"} : Return(p, why)
    /\ UNCHANGED <<Disk, World, faults>>

(* apply_associated_closeout *)
_request_conflict_reason(p) == rec.content # R(p).content
\* CloseoutStore.reserve writes the index before the record: a death between
\* them leaves a listed record that is missing.
reserve(p) ==
    /\ At(p, "request") /\ _revalidate_context_under_lock /\ rec = NoRecord /\ ~store.listed
    /\ store' = [files |-> TRUE, listed |-> TRUE]
    /\ \/ /\ rec' = _new_intent(R(p).content)
          /\ Go(p, "prepare", rec') /\ UNCHANGED faults
       \/ Fault /\ Return(p, "died") /\ UNCHANGED rec
    /\ UNCHANGED <<body, World>>
apply_associated_closeout(p) ==
    /\ At(p, "request")
    /\ IF ~_revalidate_context_under_lock THEN Return(p, "REJECTED")
       ELSE /\ store.listed \/ rec # NoRecord
            /\ IF ~_inventory THEN Return(p, "CLOSEOUT_INDEX_UNKNOWN")
               ELSE IF _request_conflict_reason(p) THEN Return(p, "CLOSEOUT_CONTENT_CONFLICT")
               ELSE Go(p, "resume", rec)
    /\ UNCHANGED <<Disk, World, faults>>

\* prepare() evaluates and curates once; its result goes to the spool under the
\* name the intent has fixed.
Prepare(p) ==
    /\ At(p, "prepare")
    /\ \/ /\ ~expired /\ body' = R(p).content
          /\ Go(p, "persist", R(p)) /\ UNCHANGED faults
       \/ Fault /\ Return(p, "CLOSEOUT_PREPARE_PENDING") /\ UNCHANGED body
    /\ UNCHANGED <<store, rec, World>>
Prepared(r) == [r EXCEPT !.status = "PREPARED", !.spool = TRUE, !.decision = body]
\* _persist_prepared, and _load_prepared for a record that is still PREPARING.
_persist_prepared(p) ==
    /\ At(p, "persist")
    /\ IF rec.status \in {"PREPARING", "PREPARED"}
       THEN /\ rec' = IF rec.status = "PREPARING" THEN Prepared(rec) ELSE rec
            /\ Go(p, "apply", rec')
       ELSE Return(p, "CLOSEOUT_STATE_CONFLICT") /\ UNCHANGED rec
    /\ UNCHANGED <<store, body, World, faults>>

(* recover_closeout_associations *)
Recover(p) ==
    /\ p \in Maint /\ At(p, "rest")
    /\ IF ~_inventory /\ store.files THEN Return(p, "CLOSEOUT_INDEX_UNKNOWN")
       ELSE /\ _revalidate_persisted_context_under_lock
            /\ \E r \in active_records : Go(p, "resume", r)
    /\ UNCHANGED <<Disk, World, faults>>

\* Mutant: a record whose body has expired keeps waiting for it.
ResumeWaits(p) ==
    /\ At(p, "resume")
    /\ LET r == R(p)
       IN CASE r.status = "COMMITTED" -> Go(p, "cleanup", r)
            [] r.status = "LOST" -> Go(p, "lost", r)
            [] r.status = "APPLIED" -> Go(p, "commit", r)
            [] r.status = "PREPARING" /\ Readable -> Go(p, "persist", r)
            [] r.status = "PREPARED" /\ Readable -> Go(p, "apply", r)
            [] OTHER -> Return(p, "CLOSEOUT_CACHE_PENDING")
    /\ UNCHANGED <<Disk, World, faults>>
\* What a record that is there already needs next.
Resume(p) ==
    /\ At(p, "resume")
    /\ LET r == R(p)
       IN CASE r.status = "COMMITTED" -> Go(p, "cleanup", r)
            [] r.status = "LOST" -> Go(p, "lost", r)
            [] r.status = "APPLIED" -> Go(p, "commit", r)
            [] r.status = "PREPARING" /\ Readable -> Go(p, "persist", r)
            [] r.status = "PREPARED" /\ Readable -> Go(p, "apply", r)
            [] OTHER -> IF expired THEN Go(p, "expire", r)
                        ELSE Return(p, "CLOSEOUT_CACHE_PENDING")
    /\ UNCHANGED <<Disk, World, faults>>

(* _apply_prepared *)
_apply_prepared(p) ==
    /\ At(p, "apply")
    /\ IF ~_revalidate_context_under_lock THEN Return(p, "PENDING") /\ UNCHANGED marked
       ELSE IF R(p).decision = "NO"
       THEN /\ IF rec.decision = "NO" THEN Go(p, "commit", rec) ELSE Return(p, "CLOSEOUT_PROOF_CONFLICT")
            /\ UNCHANGED marked
       ELSE IF R(p).ref THEN Go(p, "verify", R(p)) /\ UNCHANGED marked
       ELSE marked' = TRUE /\ Go(p, "reference", R(p))
    /\ UNCHANGED <<Disk, expired, receipts, binding, delivered, incident, faults>>
ApplyFails(p) == /\ At(p, "apply") /\ R(p).decision = "YES" /\ Fault
                 /\ Return(p, "NOT_APPLIED") /\ UNCHANGED <<Disk, World>>
_persist_application_ref(p) ==
    /\ At(p, "reference")
    /\ IF rec.ref THEN Go(p, "verify", rec) /\ UNCHANGED rec
       ELSE IF rec.status = "PREPARED"
       THEN rec' = [rec EXCEPT !.ref = TRUE] /\ Go(p, "verify", rec')
       ELSE Return(p, "CLOSEOUT_APPLICATION_REF_PENDING") /\ UNCHANGED rec
    /\ UNCHANGED <<store, body, World, faults>>
\* _verify_yes reads the proof back; _persist_verified_witness records it.
_verify_yes == marked
_persist_verified_witness(p) ==
    /\ At(p, "verify")
    /\ IF ~_verify_yes THEN Return(p, "PENDING") /\ UNCHANGED rec
       ELSE IF rec.status = "APPLIED" THEN Go(p, "commit", rec) /\ UNCHANGED rec
       ELSE IF rec.status = "PREPARED" /\ rec.ref
       THEN rec' = [rec EXCEPT !.status = "APPLIED", !.witness = TRUE] /\ Go(p, "commit", rec')
       ELSE Return(p, "CLOSEOUT_WITNESS_PENDING") /\ UNCHANGED rec
    /\ UNCHANGED <<store, body, World, faults>>

(* _commit_closeout *)
_verify_saved_yes(r) == r.decision = "YES" => r.ref /\ r.witness /\ marked
\* Mutant: a target that was evaluated without a candidate counts as secured.
DecidedSecured(r, t) == [receipts[t] EXCEPT !.state = "SECURED", !.proof = TRUE]
\* merge_receipt: a target with a candidate of its own is SECURED whatever the decision.
Decided(r, t) ==
    [receipts[t] EXCEPT !.state = IF r.decision = "YES" \/ receipts[t].own THEN "SECURED" ELSE "EVALUATED_NONE",
                        !.proof = TRUE]
_preflight_closeout_targets == _revalidate_context_under_lock
\* A death leaves some targets with their receipt and some with the binding too.
_commit_receipts(p) ==
    /\ At(p, "commit")
    /\ IF ~_verify_saved_yes(R(p)) \/ ~_preflight_closeout_targets
       THEN Return(p, "PENDING") /\ UNCHANGED <<receipts, binding, faults>>
       ELSE \/ /\ receipts' = [t \in Targets |-> Decided(R(p), t)]
               /\ binding' = [t \in Targets |-> "proof"]
               /\ Go(p, "committed", R(p)) /\ UNCHANGED faults
            \/ /\ Fault
               /\ \E done \in SUBSET Targets, t \in Targets :
                     /\ receipts' = [u \in Targets |-> IF u \in done \cup {t} THEN Decided(R(p), u)
                                                       ELSE receipts[u]]
                     /\ binding' = [u \in Targets |-> IF u \in done THEN "proof" ELSE binding[u]]
               /\ Return(p, "CLOSEOUT_RECEIPT_PENDING")
    /\ UNCHANGED <<Disk, expired, marked, delivered, incident>>
_commit_closeout(p) ==
    /\ At(p, "committed")
    /\ IF rec.status \in {"PREPARED", "APPLIED", "COMMITTED"}
       THEN rec' = [rec EXCEPT !.status = "COMMITTED"] /\ Go(p, "cleanup", rec')
       ELSE Return(p, "CLOSEOUT_STATE_CONFLICT") /\ UNCHANGED rec
    /\ UNCHANGED <<store, body, World, faults>>

(* _cleanup_committed: the proofs once more, the team, then the body. *)
ProofsAreThere(r) ==
    /\ _verify_saved_yes(r) /\ _preflight_closeout_targets
    /\ \A t \in Targets : /\ receipts[t].proof /\ binding[t] = "proof"
                          /\ r.decision = "YES" => receipts[t].state = "SECURED"
                          /\ r.decision = "NO" => receipts[t].state \in {"EVALUATED_NONE", "SECURED"}
_cleanup_committed(p) ==
    /\ At(p, "cleanup")
    /\ IF ~ProofsAreThere(R(p)) THEN Return(p, "PENDING")
       ELSE IF _team_summary_valid(R(p)) THEN Go(p, "delete", R(p))
       ELSE IF expired THEN Go(p, "expire", R(p))
       ELSE Go(p, "team", R(p))
    /\ UNCHANGED <<Disk, World, faults>>
\* The status of deliver_prepared_team_routing as the record keeps it.
_team_summary(status) == CASE status = "ELIGIBLE" -> "DELIVERED"
                           [] status \in {"NOT_ELIGIBLE", "DEFERRED"} -> status
                           [] OTHER -> "UNKNOWN"
TeamStatuses(r) == IF ~(r.spool /\ Readable) THEN {"none"}
                   ELSE IF r.decision = "NO" THEN {"NOT_ELIGIBLE"}
                   ELSE {"ELIGIBLE", "NOT_ELIGIBLE"}
                        \cup (IF faults < MaxFaults THEN {"DEFERRED"} ELSE {})
_finalize_team_handoff(p) ==
    /\ At(p, "team")
    /\ \E status \in TeamStatuses(R(p)) :
          /\ faults' = IF status = "DEFERRED" THEN faults + 1 ELSE faults
          /\ delivered' = (delivered \/ status = "ELIGIBLE")
          /\ Go(p, "summary", [R(p) EXCEPT !.team = _team_summary(status)])
    /\ UNCHANGED <<Disk, expired, marked, receipts, binding, incident>>
_persist_team_summary(p) ==
    /\ At(p, "summary")
    /\ IF rec.status # "COMMITTED" THEN Return(p, "TEAM_RESULT_PERSIST_PENDING") /\ UNCHANGED rec
       ELSE /\ rec' = [rec EXCEPT !.team = R(p).team]
            /\ IF _team_summary_valid(R(p)) THEN Go(p, "delete", R(p)) ELSE Return(p, "PENDING")
    /\ UNCHANGED <<store, body, World, faults>>
DeleteBody(p) ==
    /\ At(p, "delete")
    /\ \/ /\ body' = IF R(p).spool THEN NoBody ELSE body
          /\ Go(p, "finish", R(p)) /\ UNCHANGED faults
       \/ R(p).spool /\ Fault /\ Return(p, "CLOSEOUT_CLEANUP_PENDING") /\ UNCHANGED body
    /\ UNCHANGED <<store, rec, World>>
\* CloseoutStore.finish: the record, then the index, then the cursor.
finish(r) == /\ rec' = r
             /\ \/ store' = [store EXCEPT !.listed = FALSE] /\ UNCHANGED faults
                \/ Fault /\ UNCHANGED store
FinishCommitted(p) ==
    /\ At(p, "finish")
    /\ IF rec.status = "COMMITTED"
       THEN /\ finish([rec EXCEPT !.spool = FALSE])
            /\ Return(p, IF store'.listed THEN "died" ELSE "COMMITTED")
       ELSE Return(p, "CLOSEOUT_RECORD_CONFLICT") /\ UNCHANGED <<store, rec, faults>>
    /\ UNCHANGED <<body, World>>

(* _expire_lost_closeout and _cleanup_lost_closeout *)
_expire_lost_closeout(p) ==
    /\ At(p, "expire")
    /\ IF rec.status = "LOST" THEN Go(p, "lost", rec) /\ UNCHANGED rec
       ELSE IF \/ rec.status \in {"PREPARING", "PREPARED"}
               \/ rec.status = "COMMITTED" /\ ~_team_summary_valid(rec)
       THEN /\ rec' = [rec EXCEPT !.status = "LOST",
                                  !.team = IF rec.status = "COMMITTED" THEN "EXPIRED" ELSE @]
            /\ Go(p, "lost", rec')
       ELSE Return(p, "CLOSEOUT_STATE_CONFLICT") /\ UNCHANGED rec
    /\ UNCHANGED <<store, body, World, faults>>
DeleteLostBody(p) ==
    /\ At(p, "lost")
    /\ \/ body' = (IF R(p).spool THEN NoBody ELSE body) /\ Go(p, "forget", R(p)) /\ UNCHANGED faults
       \/ R(p).spool /\ Fault /\ Return(p, "CLOSEOUT_CLEANUP_PENDING") /\ UNCHANGED body
    /\ UNCHANGED <<store, rec, World>>
_cleanup_lost_closeout(p) ==
    /\ At(p, "forget")
    /\ IF rec.status = "LOST" /\ rec.spool = R(p).spool
       THEN rec' = [rec EXCEPT !.spool = FALSE] /\ Go(p, "incident", rec')
       ELSE Return(p, "CLOSEOUT_RECORD_CONFLICT") /\ UNCHANGED rec
    /\ UNCHANGED <<store, body, World, faults>>
RecordLoss(p) ==
    /\ At(p, "incident") /\ incident' = TRUE /\ Go(p, "finishlost", R(p))
    /\ UNCHANGED <<Disk, expired, marked, receipts, binding, delivered, faults>>
_lost_personal_knowledge(r) ==
    IF r.team # "EXPIRED" THEN "NOT_APPLIED"
    ELSE IF r.decision = "NO" THEN "EVALUATED_NONE"
    ELSE IF r.ref /\ r.witness THEN "APPLIED" ELSE "UNKNOWN"
FinishLost(p) ==
    /\ At(p, "finishlost")
    /\ IF rec.status = "LOST" /\ ~rec.spool
       THEN finish(rec) /\ Return(p, IF store'.listed THEN "died" ELSE _lost_personal_knowledge(rec))
       ELSE Return(p, "CLOSEOUT_RECORD_CONFLICT") /\ UNCHANGED <<store, rec, faults>>
    /\ UNCHANGED <<body, World>>

----------------------------------------------------------------------------
(* Around it: the clock, the pending captures of the turns, a deadline or a *)
(* death between two sections.                                             *)
Expire == ~expired /\ expired' = TRUE /\ store.listed
          /\ UNCHANGED <<Disk, marked, receipts, binding, delivered, incident, call, acked, faults>>
Pending(t, v) == /\ receipts' = [receipts EXCEPT ![t] = v]
                 /\ UNCHANGED <<Disk, expired, marked, binding, delivered, incident, call, acked>>
\* The turn's own capture becomes an item of the queue, before or after the decision (_complete).
TargetSecured(t) == /\ t \in OwnCaptures /\ receipts[t].state # "UNAVAILABLE" /\ ~receipts[t].own
                    /\ Pending(t, [receipts[t] EXCEPT !.state = "SECURED", !.own = TRUE])
                    /\ UNCHANGED faults
\* It expires unfinished, before or after: what else the receipt proves stays in it (_expire).
TargetLost(t) == /\ t \in OwnCaptures /\ receipts[t].state # "UNAVAILABLE" /\ Fault
                 /\ Pending(t, [receipts[t] EXCEPT !.state = "UNAVAILABLE"])
Die(p) == ~At(p, "rest") /\ Fault /\ Return(p, "died") /\ UNCHANGED <<Disk, World>>

Work(p) == \/ apply_associated_closeout(p) \/ Prepare(p) \/ _persist_prepared(p) \/ Resume(p) \/ _apply_prepared(p)
           \/ _persist_application_ref(p) \/ _persist_verified_witness(p) \/ _commit_receipts(p)
           \/ _commit_closeout(p) \/ _cleanup_committed(p) \/ _finalize_team_handoff(p)
           \/ _persist_team_summary(p) \/ DeleteBody(p) \/ FinishCommitted(p)
           \/ _expire_lost_closeout(p) \/ DeleteLostBody(p) \/ _cleanup_lost_closeout(p)
           \/ RecordLoss(p) \/ FinishLost(p)
Next == \/ \E p \in Calls : process_closeout(p) \/ reserve(p) \/ Recover(p) \/ Work(p) \/ ApplyFails(p) \/ Die(p)
        \/ \E t \in Targets : TargetSecured(t) \/ TargetLost(t) \/ register_adapter_target(t)
        \/ Expire
Spec == Init /\ [][Next]_vars
\* Maintenance runs again and again, and the clock does not stop.
FairSpec == Spec /\ WF_vars(Expire) /\ \A p \in Calls : WF_vars(Work(p)) /\ WF_vars(Recover(p))

----------------------------------------------------------------------------
\* A target counts as secured only if it has a candidate: one of its own, or the item of a
\* close-out that was decided YES and has its marker in the journal.  A close-out decided NO
\* secures nothing, whatever stale copy of the record a call works on, and a target with a
\* close-out's proof waits no longer.
ProofMeansDecided ==
    \A t \in Targets :
        /\ receipts[t].state = "SECURED" => receipts[t].own \/ (marked /\ rec.decision = "YES")
        /\ receipts[t].proof => receipts[t].state # "WAITING"

\* An acknowledged close-out is complete: every target has its proof in receipt
\* and binding, the team's outcome is final and no body is left.
AckIsComplete(p) ==
    acked'[p] /\ ~acked[p]
      => /\ \A t \in Targets : receipts[t].proof /\ binding[t] = "proof"
         /\ R(p).team = "DELIVERED" => delivered

\* A loss leaves the index only when the incident that reports it is recorded.
LossIsReported == store.listed /\ ~store'.listed /\ rec'.status = "LOST" => incident

\* As long as its targets stay usable and no reservation died, every close-out
\* leaves the index in the end.
Ended == rec = NoRecord \/ ~store.listed \/ ~_revalidate_context_under_lock
=============================================================================
