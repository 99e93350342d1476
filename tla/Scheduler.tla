------------------------------- MODULE Scheduler -------------------------------
(***************************************************************************)
(* The maintenance job of the operating system (src/ei/task_scheduler.py): *)
(* registration through the installer script, inspection, removal, and the *)
(* monitor that counts the runs a timer missed.  Shown for systemd, which  *)
(* has the most steps: two unit files, a timer that is enabled or not, and *)
(* the state file that says what was registered.  The script is            *)
(* scripts/install-systemd-user.sh; the timer is the operating system's.   *)
(***************************************************************************)
EXTENDS Integers

CONSTANTS
    Actions,       \* what the settings may ask the job to do
    Interval,      \* the interval of the timer, in ticks of the awake clock
    Allowance,     \* accuracy plus random delay of the timer
    MaxFaults,     \* bound: failures, deaths, foreign files, restarts and changed settings
    MaxTime        \* bound on the clock

VARIABLES
    want,    \* the action the settings ask for
    state,   \* scheduler-state.json: [action, registered], or none
    unit,    \* the service and the timer file: none, foreign, or the action they were made from
    job,     \* the timer is enabled
    run,     \* the register or unregister that is running, and its last result
    mon,     \* clocks, activations of the job, the stored sample and the last count
    faults

jobVars == <<want, state, unit, job, run>>
vars == <<want, state, unit, job, run, mon, faults>>

None == "none"
Foreign == "foreign"
Units == {"service", "timer"}
NoState == [action |-> None, registered |-> FALSE]
NoSample == [boot |-> -1, awake |-> 0, asleep |-> 0, active |-> 0, runs |-> 0]
Registered(s) == s.registered
Idle(result) == [pc |-> "idle", seen |-> <<>>, result |-> result]

Unmonitored == [boot |-> 0, awake |-> 0, asleep |-> 0, active |-> 0, runs |-> 0, sample |-> NoSample, missed |-> -1]

Init ==
    /\ want \in Actions /\ state = NoState /\ job = FALSE /\ run = Idle(None) /\ faults = 0
    /\ unit = [u \in Units |-> None]
    /\ mon = Unmonitored

Fault == faults < MaxFaults /\ faults' = faults + 1
Goto(pc) == run' = [run EXCEPT !.pc = pc]
End(result) == run' = Idle(result)

-----------------------------------------------------------------------------
(* What the settings, the state and the machine say of the job.            *)

\* build_maintenance_action: the settings decide what the job does.
build_maintenance_action(a) ==
    want' = a /\ a # want /\ run.pc = "idle" /\ Fault /\ UNCHANGED <<state, unit, job, run, mon>>

\* The unit files rendered from an action, compared byte by byte.
build_systemd_user_unit(a) == a

\* Only unit files made from the recorded action may be replaced; a registered job has both.
_systemd_artifacts_are_owned ==
    \/ \A u \in Units : unit[u] = None
    \/ /\ state # NoState
       /\ \A u \in Units : unit[u] \in {None, build_systemd_user_unit(state.action)}
       /\ state.registered => \A u \in Units : unit[u] # None

\* The recorded action is still what the settings ask for.
_state_action_checks == state.action = want

\* identity_verified: what is recorded, what is asked for and what is on disk are the same.
Identity == _state_action_checks /\ \A u \in Units : unit[u] = build_systemd_user_unit(state.action)
inspect_registered_task == Registered(state) /\ Identity /\ job

-----------------------------------------------------------------------------
(* register_scheduler.                                                     *)

register_scheduler ==
    /\ run.pc = "idle"
    /\ CASE ~_systemd_artifacts_are_owned -> End("REGISTRATION_BLOCKED")
         [] _systemd_artifacts_are_owned /\ Registered(state) /\ state.action = want /\ inspect_registered_task ->
                End("ALREADY_CURRENT")
         [] OTHER -> run' = [pc |-> "service", seen |-> unit, result |-> None]
    /\ UNCHANGED <<want, state, unit, job, mon, faults>>

\* The script writes the service, then the timer, over whatever is there, and enables the timer.
WriteUnit(u) ==
    /\ run.pc = u
    /\ unit' = [unit EXCEPT ![u] = build_systemd_user_unit(want)]
    /\ Goto(IF u = "service" THEN "timer" ELSE "enable")
    /\ UNCHANGED <<want, state, job, mon, faults>>
Enable == run.pc = "enable" /\ job' = TRUE /\ Goto("save") /\ UNCHANGED <<want, state, unit, mon, faults>>

write_scheduler_state(registered) == state' = [action |-> want, registered |-> registered]

\* The script ends well: the registration is recorded and then inspected.
SaveRegistered ==
    /\ run.pc = "save"
    /\ write_scheduler_state(TRUE) /\ Goto("verify")
    /\ UNCHANGED <<want, unit, job, mon, faults>>

\* The script fails or takes too long, after any of its steps: the job is recorded as not registered.
ScriptFails ==
    /\ run.pc \in {"service", "timer", "enable", "save"} /\ Fault
    /\ write_scheduler_state(FALSE) /\ End("REGISTRATION_FAILED")
    /\ UNCHANGED <<want, unit, job, mon>>

\* Mutant: the script's exit code is taken as the registration.
VerifyNothing(query) ==
    /\ run.pc = "verify" /\ query
    /\ End("REGISTERED") /\ UNCHANGED <<want, state, unit, job, mon, faults>>

VerifyRegistered(query) ==
    /\ run.pc = "verify"
    /\ IF query /\ inspect_registered_task THEN End("REGISTERED") /\ UNCHANGED <<state, faults>>
       ELSE /\ write_scheduler_state(FALSE) /\ End("VERIFICATION_FAILED")
            /\ IF query THEN UNCHANGED faults ELSE Fault
    /\ UNCHANGED <<want, unit, job, mon>>

-----------------------------------------------------------------------------
(* unregister_scheduler.                                                   *)

\* Nothing recorded: nothing to do.  Recorded as not registered: only the record goes.
\* Otherwise the job must be the recorded one; what was seen is what may be removed.
unregister_scheduler(query) ==
    /\ run.pc = "idle" /\ (query \/ Registered(state))
    /\ CASE state = NoState -> End("NOT_REGISTERED") /\ UNCHANGED <<state, faults>>
         [] state # NoState /\ ~Registered(state) -> state' = NoState /\ End("UNREGISTERED") /\ UNCHANGED faults
         [] Registered(state) /\ ~query -> Fault /\ End("UNREGISTER_BLOCKED") /\ UNCHANGED state
         [] Registered(state) /\ query /\ ~Identity -> End("UNREGISTER_BLOCKED") /\ UNCHANGED <<state, faults>>
         [] OTHER -> /\ run' = [pc |-> IF job THEN "disable" ELSE "remove", seen |-> unit, result |-> None]
                     /\ UNCHANGED <<state, faults>>
    /\ UNCHANGED <<want, unit, job, mon>>
Disable(ok) ==
    /\ run.pc = "disable"
    /\ IF ok THEN job' = FALSE /\ Goto("remove") /\ UNCHANGED faults
             ELSE Fault /\ End("UNREGISTER_FAILED") /\ UNCHANGED job
    /\ UNCHANGED <<want, state, unit, mon>>

\* The files go one by one, each only if it is the one that was inspected; then the record.
_remove_owned_scheduler_file ==
    /\ run.pc = "remove"
    /\ CASE \E u \in Units : unit[u] # None /\ unit[u] # run.seen[u] -> End("UNREGISTER_FAILED") /\ UNCHANGED <<state, unit>>
         [] \A u \in Units : unit[u] = None -> state' = NoState /\ End("UNREGISTERED") /\ UNCHANGED unit
         [] OTHER -> \E u \in Units : unit[u] # None /\ unit' = [unit EXCEPT ![u] = None] /\ UNCHANGED <<state, run>>
    /\ UNCHANGED <<want, job, mon, faults>>

\* Somebody else replaces a unit file, or stops the timer, at any moment.
Replace(u) ==
    Fault /\ unit' = [unit EXCEPT ![u] = Foreign] /\ UNCHANGED <<want, state, job, run, mon>>
Stop == job /\ Fault /\ job' = FALSE /\ UNCHANGED <<want, state, unit, run, mon>>
Die == run.pc # "idle" /\ Fault /\ End("DIED") /\ UNCHANGED <<want, state, unit, job, mon>>

-----------------------------------------------------------------------------
(* The monitor: two points are armed after every activation, one and two   *)
(* intervals later; a timer that works fires within the allowance.         *)

Tick == mon.awake < MaxTime /\ mon' = [mon EXCEPT !.awake = @ + 1] /\ UNCHANGED <<jobVars, faults>>
Sleep == Fault /\ mon' = [mon EXCEPT !.asleep = @ + 1] /\ UNCHANGED jobVars
Reboot ==
    /\ Fault /\ UNCHANGED jobVars
    /\ mon' = [mon EXCEPT !.boot = @ + 1, !.awake = 0, !.asleep = 0, !.active = 0, !.runs = 0]
Trigger ==
    /\ mon.awake >= mon.active + Interval
    /\ mon' = [mon EXCEPT !.active = mon.awake, !.runs = @ + 1] /\ UNCHANGED <<jobVars, faults>>

\* _native_scheduler_sample: what identifies the run of the machine, the clocks and the activation.
_native_scheduler_sample == [boot |-> mon.boot, awake |-> mon.awake, asleep |-> mon.asleep, active |-> mon.active, runs |-> mon.runs]

Due(s) == {s.active + Interval, s.active + 2 * Interval}

\* The count of missed points and whether the baseline is retained; -1 where nothing is known.
_linux_opportunities(old, new) ==
    LET missed == {d \in Due(new) : new.awake > d + Allowance} IN
    CASE old = NoSample -> <<-1, FALSE>>
      [] old # NoSample /\ (old.boot # new.boot \/ new.awake < old.awake \/ new.asleep # old.asleep) -> <<-1, FALSE>>
      [] old # NoSample /\ old.boot = new.boot /\ new.awake >= old.awake /\ new.asleep = old.asleep ->
            CASE new.active > old.active -> <<0, FALSE>>
              [] new.active = old.active /\ \E d \in Due(new) : d <= old.awake -> <<-1, FALSE>>
              [] OTHER -> <<IF missed = {} THEN 0 ELSE IF new.active + 2 * Interval \in missed THEN 2 ELSE 1, TRUE>>

inspect_scheduler_opportunities ==
    LET new == _native_scheduler_sample
        count == _linux_opportunities(mon.sample, new) IN
    /\ Registered(state) /\ _state_action_checks
    /\ mon' = [mon EXCEPT !.sample = IF count[2] THEN @ ELSE new, !.missed = count[1]]
    /\ UNCHANGED <<jobVars, faults>>

-----------------------------------------------------------------------------
Register == register_scheduler \/ (\E u \in Units : WriteUnit(u)) \/ Enable \/ SaveRegistered
            \/ \E q \in BOOLEAN : VerifyRegistered(q)
Unregister == (\E q \in BOOLEAN : unregister_scheduler(q) \/ Disable(q)) \/ _remove_owned_scheduler_file
Environment == ScriptFails \/ Stop \/ Die \/ (\E u \in Units : Replace(u)) \/ \E a \in Actions : build_maintenance_action(a)
Clock == Tick \/ Sleep \/ Reboot \/ Trigger \/ inspect_scheduler_opportunities
\* Bound: once the clock of a registered job runs, the job is no longer changed.
Next ==
    \/ mon = Unmonitored /\ (Register \/ Unregister \/ Environment)
    \/ run.result = "REGISTERED" /\ Clock
Spec == Init /\ [][Next]_vars

-----------------------------------------------------------------------------
(* Properties.                                                             *)

\* A registration that reports success leaves a job that is enabled, made from what the
\* settings ask for, and recorded, whatever happened before or during it.
ReportedIsRegistered ==
    run'.result \in {"REGISTERED", "ALREADY_CURRENT"} /\ run' # run =>
        job' /\ Registered(state') /\ state'.action = want /\ \A u \in Units : unit'[u] = want

\* A unit file somebody else put there is never removed, also when it appears between the
\* inspection and the removal; and it is replaced only by the script of a registration whose
\* inspection did not see it: what appears after that inspection and before the script's
\* write is lost.
ForeignUnitIsKept ==
    \A u \in Units : unit[u] = Foreign /\ unit'[u] # Foreign =>
        run.pc = u /\ run.seen[u] # Foreign /\ unit'[u] = want

\* Every missed point that is counted passed while the machine was awake, with no run of the
\* job since the stored sample: a sleep, a restart or a late sample is not held against the timer.
MissedIsReal ==
    mon'.missed > 0 /\ mon'.missed # mon.missed =>
        /\ mon.sample.boot = mon.boot /\ mon.sample.runs = mon.runs /\ mon.sample.asleep = mon.asleep
        /\ mon.awake - mon.active > mon'.missed * Interval + Allowance
================================================================================
