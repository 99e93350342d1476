----------------------------- MODULE Activation -----------------------------
(***************************************************************************)
(* What the program may claim about a host: the canary receipts a real     *)
(* hook leaves (canary.py), the hook status and the certification read     *)
(* from them (certification.py), and the operation evidence of             *)
(* verify_operation (operation_activation.py, setup_activation.py), which  *)
(* keeps the sending of a test notification and its display apart.  No     *)
(* lock keeps the doctor, the setups and the certifications apart: each    *)
(* reads the files, and later replaces them.  The host, the operating      *)
(* system and the hook file change in between; the receipts may be         *)
(* unreadable; a process may die, or fail to write.                        *)
(***************************************************************************)
EXTENDS Naturals, FiniteSets

CONSTANTS
    Procs,       \* the processes that may run at a time
    Required,    \* HOOK_REQUIRED_EVENTS
    Outcomes,    \* what the OS may say of a message: "SENT", "DENIED", "UNAVAILABLE", "FAILED"
    Fallback,    \* does the global context carry the managed block?
    Ttl,         \* canary_receipt_ttl_seconds
    MaxTime,     \* bound on the clock
    MaxChanges,  \* bound on the changes of the hook file and the OS
    MaxStarts,   \* bound on the commands
    MaxFaults    \* bound on deaths and failed writes

VARIABLES
    now,
    hookfile,    \* "valid", "invalid" (or its feature unknown), or "disabled"
    os,          \* the operating system's version
    receipts,    \* canary-receipts.jsonl: event -> when its last real receipt was left
    oldest,      \* when the oldest receipt, real or not, was left
    snapshot,    \* the host's status in hook-status.json
    certificate, \* the last result of certify_host
    doc,         \* the notification row of the operation state
    run,        \* process -> what it does and has read
    sends,       \* history: OS version -> test notifications the OS accepted
    unsaved,     \* history: OS version -> losses of a verification that had sent
    overlapped,  \* history: the OS versions on which two verifications overlapped
    seen,        \* history: the OS versions on which the user confirmed the display
    changes, started, faults

vars == <<now, hookfile, os, receipts, oldest, snapshot, certificate, doc, run,
          sends, unsaved, overlapped, seen, changes, started, faults>>
world == <<now, hookfile, os, receipts, oldest, changes>>
history == <<sends, unsaved, overlapped, seen>>

NoDoc == [send |-> "none", display |-> "UNVERIFIED", os |-> 0]
Unobserved == [real |-> FALSE, ages |-> {}]
Idle == [pc |-> "idle", for |-> "status", prev |-> "none", status |-> "none", readable |-> TRUE,
         observed |-> Unobserved, row |-> NoDoc, allow |-> FALSE, confirmed |-> FALSE, sent |-> FALSE]
Versions == 0..MaxChanges
Never == MaxTime + Ttl + 1

Goes(p, r) ==
    /\ run[p].pc = "idle" => started < MaxStarts
    /\ started' = IF run[p].pc = "idle" THEN started + 1 ELSE started
    /\ run' = [run EXCEPT ![p] = r]

-----------------------------------------------------------------------------
(* Canary receipts and the hook's status.                                  *)

\* A hook that runs leaves a receipt of its event, real or of a fixture.
record_canary(e, mode) ==
    /\ hookfile = "valid"
    /\ receipts' = IF mode = "real" THEN [receipts EXCEPT ![e] = now] ELSE receipts
    /\ oldest' = IF oldest = Never THEN now ELSE oldest
    /\ UNCHANGED <<now, hookfile, os, changes, snapshot, certificate, doc, run, started, faults>>
    /\ UNCHANGED history

Fresh(at) == at # Never /\ now - at <= Ttl

\* The events with a real receipt within its time to live; none, when the file
\* cannot be read.
_read_receipts(readable) == {e \in Required : readable /\ Fresh(receipts[e])}

Expired(readable) == readable /\ oldest # Never /\ now - oldest > Ttl

static_canary == hookfile = "valid"

\* The status the files and the previous one amount to.
HookStatus(prev, readable) ==
    CASE hookfile = "disabled" -> IF prev = "HOOK_VERIFIED" THEN "BROKEN" ELSE "DISABLED"
      [] ~static_canary /\ hookfile # "disabled" ->
            IF prev = "HOOK_VERIFIED" THEN "BROKEN" ELSE "HOOK_UNVERIFIED"
      [] static_canary /\ Required \subseteq _read_receipts(readable) -> "HOOK_VERIFIED"
      [] OTHER -> IF prev = "HOOK_VERIFIED" /\ Expired(readable) THEN "BROKEN" ELSE "HOOK_UNVERIFIED"

\* A managed block in the global context takes over from a hook that is gone.
WithFallback(s) == IF Fallback /\ s \in {"DISABLED", "BROKEN"} THEN "INSTRUCTION_FALLBACK" ELSE s

\* The previous status, "none" when the document cannot be read.
_previous_status == {snapshot, "none"}

\* The doctor, the setup and its refresh, and a certification on its way, read
\* the status, and
read_hook_status(p, prev, readable) ==
    /\ run[p].pc \in {"idle", "hook"}
    /\ Goes(p, [run[p] EXCEPT !.pc = "save", !.prev = prev, !.readable = readable,
                               !.status = WithFallback(HookStatus(prev, readable))])
    /\ UNCHANGED <<snapshot, certificate, doc, faults>> /\ UNCHANGED world /\ UNCHANGED history

\* or, for another host's status, the document this host's row is in.
ReadDocument(p, row) ==
    /\ run[p].pc = "idle"
    /\ Goes(p, [Idle EXCEPT !.pc = "save", !.for = "another host", !.status = row])
    /\ UNCHANGED <<snapshot, certificate, doc, faults>> /\ UNCHANGED world /\ UNCHANGED history

\* The whole document is replaced, without a lock.
_write_status_snapshot(p) ==
    /\ run[p].pc = "save"
    /\ snapshot' = run[p].status
    /\ Goes(p, IF run[p].for = "certification" THEN [run[p] EXCEPT !.pc = "issue", !.prev = "none", !.readable = TRUE]
               ELSE Idle)
    /\ UNCHANGED <<certificate, doc, faults>> /\ UNCHANGED world /\ UNCHANGED history

-----------------------------------------------------------------------------
(* Certification.                                                          *)

\* Every required event was observed, each at some age.
_read_real_events(readable) ==
    IF Required \subseteq _read_receipts(readable)
    THEN [real |-> TRUE, ages |-> {now - receipts[e] : e \in Required}] ELSE Unobserved

\* certify_host reads the events before it asks for the status.
ReadEvents(p, readable) ==
    /\ run[p].pc = "idle"
    /\ Goes(p, [Idle EXCEPT !.pc = "hook", !.for = "certification", !.observed = _read_real_events(readable)])
    /\ UNCHANGED <<snapshot, certificate, doc, faults>> /\ UNCHANGED world /\ UNCHANGED history

\* ready: the skill was discovered, the host's version is known and its
\* executable is there.
Certified(r, ready) == r.observed.real /\ r.status = "HOOK_VERIFIED" /\ ready

\* A certificate rests on the events observed, each of some age.
_missing_receipt == [status |-> "MISSING", ages |-> {}]
Result(r, ready) ==
    IF Certified(r, ready) THEN [status |-> "PASSED", ages |-> r.observed.ages] ELSE _missing_receipt

certify_host(p, ready) ==
    /\ run[p].pc = "issue"
    /\ certificate' = Result(run[p], ready)
    /\ Goes(p, Idle)
    /\ UNCHANGED <<snapshot, doc, faults>> /\ UNCHANGED world /\ UNCHANGED history

-----------------------------------------------------------------------------
(* Operation evidence.                                                     *)

_valid_operation_document(n) == n.display = "VERIFIED" => n.send = "SENT"

\* Mutant: a notification counts on whatever system it was sent and seen.
KeepEvidence(n) == n

\* The notification was sent and seen on the operating system it names.
invalidate_operation_evidence(n) ==
    IF n.send # "none" /\ n.os # os THEN [n EXCEPT !.send = "UNVERIFIED", !.display = "UNVERIFIED"] ELSE n

\* A test is sent with consent, unless one is waiting to be confirmed.
MaySend(n, allow) == allow /\ n.display # "VERIFIED" /\ n.send # "SENT"

Verifying(r) == r.pc \in {"collect", "send", "write"}

\* verify_operation reads the operation state.  The certification of the hosts
\* that follows is one like any other.
Start(p, allow, confirmed) ==
    /\ Goes(p, [Idle EXCEPT !.pc = "collect", !.for = "verification", !.row = doc,
                            !.allow = allow, !.confirmed = confirmed])
    /\ overlapped' = IF \E q \in Procs \ {p} : Verifying(run[q]) THEN overlapped \cup {os} ELSE overlapped
    /\ UNCHANGED <<snapshot, certificate, doc, sends, unsaved, faults>> /\ UNCHANGED world

\* Consent to a test notification is given per run.
StartVerify(p, allow) ==
    /\ run[p].pc = "idle"
    /\ Start(p, allow, FALSE) /\ UNCHANGED seen

\* The display is confirmed in a run of its own, in the setup that sent a
\* message, however late the user answers and whatever was written meanwhile.
ConfirmDisplay(p) ==
    /\ run[p].pc = "ask"
    /\ Start(p, FALSE, TRUE) /\ seen' = seen \cup {os}

Decline(p) ==
    /\ run[p].pc = "ask"
    /\ Goes(p, Idle)
    /\ UNCHANGED <<snapshot, certificate, doc, faults>> /\ UNCHANGED world /\ UNCHANGED history

verify_operation(p) ==
    /\ run[p].pc = "collect"
    /\ LET n == invalidate_operation_evidence(run[p].row)
           shown == run[p].confirmed /\ n.send = "SENT"
       IN  Goes(p, [Idle EXCEPT !.pc = IF MaySend(n, run[p].allow) /\ ~shown THEN "send" ELSE "write",
                                !.for = "verification",
                                !.row = IF shown THEN [n EXCEPT !.display = "VERIFIED"] ELSE n])
    /\ UNCHANGED <<snapshot, certificate, doc, faults>> /\ UNCHANGED world /\ UNCHANGED history

\* The OS takes the message, or says why not.
send_native_notification(p, s) ==
    /\ run[p].pc = "send"
    /\ Goes(p, [run[p] EXCEPT !.pc = "write", !.sent = (s = "SENT"),
                               !.row = [send |-> s, display |-> "UNVERIFIED", os |-> os]])
    /\ sends' = [sends EXCEPT ![os] = IF s = "SENT" THEN @ + 1 ELSE @]
    /\ UNCHANGED <<unsaved, overlapped, seen, snapshot, certificate, doc, faults>> /\ UNCHANGED world

\* The setup that sent a message asks whether it was seen.
Ask(r) == IF r.sent THEN [Idle EXCEPT !.pc = "ask", !.for = "verification"] ELSE Idle

_write_operation_document(p) ==
    /\ run[p].pc = "write"
    /\ _valid_operation_document(run[p].row)
    /\ doc' = run[p].row
    /\ Goes(p, Ask(run[p]))
    /\ UNCHANGED <<snapshot, certificate, faults>> /\ UNCHANGED world /\ UNCHANGED history

Unsaved(r) == r.pc = "write" /\ r.sent

\* A document cannot be written: of a status it is lost, and the certificate
\* with it; of the operation the answer says so.
FailToWrite(p) ==
    /\ run[p].pc \in {"save", "write"} /\ faults < MaxFaults
    /\ faults' = faults + 1
    /\ Goes(p, IF run[p].pc = "write" THEN Ask(run[p])
               ELSE IF run[p].for = "certification" THEN [run[p] EXCEPT !.pc = "issue", !.prev = "none",
                                                                !.readable = TRUE, !.status = "none"]
               ELSE Idle)
    /\ unsaved' = [unsaved EXCEPT ![os] = IF Unsaved(run[p]) THEN @ + 1 ELSE @]
    /\ UNCHANGED <<snapshot, certificate, doc, sends, overlapped, seen>> /\ UNCHANGED world

Die(p) ==
    /\ run[p].pc # "idle" /\ faults < MaxFaults
    /\ faults' = faults + 1
    /\ Goes(p, Idle)
    /\ unsaved' = [unsaved EXCEPT ![os] = IF Unsaved(run[p]) THEN @ + 1 ELSE @]
    /\ UNCHANGED <<snapshot, certificate, doc, sends, overlapped, seen>> /\ UNCHANGED world

-----------------------------------------------------------------------------
(* The environment.                                                        *)

Tick ==
    /\ now < MaxTime /\ now' = now + 1
    /\ UNCHANGED <<hookfile, os, receipts, oldest, changes, snapshot, certificate, doc, run, started, faults>>
    /\ UNCHANGED history

ChangeHook(h) ==
    /\ changes < MaxChanges /\ changes' = changes + 1
    /\ hookfile # h /\ hookfile' = h
    /\ UNCHANGED <<now, os, receipts, oldest, snapshot, certificate, doc, run, started, faults>>
    /\ UNCHANGED history

\* No process outlives the operating system it runs on.
Upgrade ==
    /\ changes < MaxChanges /\ changes' = changes + 1
    /\ os' = os + 1
    /\ run' = [p \in Procs |-> Idle]
    /\ unsaved' = [unsaved EXCEPT ![os] = IF \E p \in Procs : Unsaved(run[p]) THEN @ + 1 ELSE @]
    /\ UNCHANGED <<now, hookfile, receipts, oldest, snapshot, certificate, doc, sends, overlapped, seen, started, faults>>

Init ==
    /\ now = 0 /\ hookfile = "valid" /\ os = 0
    /\ receipts = [e \in Required |-> Never] /\ oldest = Never /\ snapshot = "none"
    /\ certificate = _missing_receipt
    /\ doc = NoDoc /\ run = [p \in Procs |-> Idle]
    /\ sends = [v \in Versions |-> 0] /\ unsaved = [v \in Versions |-> 0]
    /\ overlapped = {} /\ seen = {}
    /\ changes = 0 /\ started = 0 /\ faults = 0

Step(p) ==
    \/ \E prev \in _previous_status, readable \in BOOLEAN : read_hook_status(p, prev, readable)
    \/ \E row \in _previous_status : ReadDocument(p, row)
    \/ _write_status_snapshot(p)
    \/ \E readable \in BOOLEAN : ReadEvents(p, readable)
    \/ \E ready \in BOOLEAN : certify_host(p, ready)
    \/ \E allow \in BOOLEAN : StartVerify(p, allow)
    \/ ConfirmDisplay(p) \/ Decline(p) \/ verify_operation(p)
    \/ \E s \in Outcomes : send_native_notification(p, s)
    \/ _write_operation_document(p) \/ FailToWrite(p) \/ Die(p)

Next ==
    \/ \E p \in Procs : Step(p)
    \/ \E e \in Required, m \in {"real", "fixture"} : record_canary(e, m)
    \/ \E h \in {"valid", "invalid", "disabled"} : ChangeHook(h)
    \/ Tick \/ Upgrade

Spec == Init /\ [][Next]_vars

-----------------------------------------------------------------------------
(* Properties.                                                             *)

\* A certificate is backed by a real receipt, within its time to live when the
\* certification read it, of every required event.
CertificateIsBacked ==
    certificate.status = "PASSED" => certificate.ages \subseteq 0..Ttl

\* A verification that records the display as verified records what the user
\* confirmed on the operating system it runs on, whatever was kept from before.
DisplayIsCurrent ==
    \A p \in Procs : run[p].pc = "write" /\ run[p].row.display = "VERIFIED" => os \in seen

\* A test notification is sent once per operating system, and once more for each
\* that could not be recorded, where no two verifications overlapped.
SendsAreBounded == \A v \in Versions \ overlapped : sends[v] <= 1 + unsaved[v]

\* A verified hook is replaced by a lesser status only by a report that it is
\* broken, or by a process that had not found it verified, could not read the
\* receipts, or came with an old row.
Knowing(r) == r.for # "another host" /\ r.prev = "HOOK_VERIFIED" /\ r.readable
LossOfHookIsReported ==
    snapshot = "HOOK_VERIFIED" =>
        \/ snapshot' \in {"HOOK_VERIFIED", "BROKEN", "INSTRUCTION_FALLBACK"}
        \/ \E p \in Procs : run[p].pc = "save" /\ ~Knowing(run[p]) /\ snapshot' = run[p].status
=============================================================================
