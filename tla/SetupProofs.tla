---------------------------- MODULE SetupProofs ----------------------------
(***************************************************************************)
(* What holds of what is installed, for every set of actions, files,       *)
(* records and events, and for every number of edits, faults and deaths.   *)
(* For the scheduler, the two migrations and the activation an inductive   *)
(* invariant, that the initial states have it and every action keeps it,   *)
(* and what follows from it; the theorems at the end are about the         *)
(* composition of Setup.                                                   *)
(***************************************************************************)
EXTENDS Setup, TLAPS

-----------------------------------------------------------------------------
(* The scheduler (task_scheduler.py).                                          *)

UnitValues == Actions \cup {"none", "foreign"}
\* What an inspection let pass was nobody else's; a run has no result yet.
Registering ==
    /\ run = [pc |-> run.pc, seen |-> run.seen, result |-> run.result]
    /\ run.pc # "idle" => run.result = "none"
    /\ run.pc \in {"service", "timer", "disable", "remove"} =>
          \A u \in D!Units : run.seen[u] # "foreign"
Samples == [boot : Int, awake : Nat, asleep : Nat, active : Nat, runs : Nat]
Monitors == [boot : Nat, awake : Nat, asleep : Nat, active : Nat, runs : Nat, sample : Samples, missed : Int]
\* Within one run of the machine every activation is later than the one before, so a sample
\* with the same activation has the same number of runs.
Sampled ==
    /\ mon \in Monitors /\ mon.active <= mon.awake
    /\ mon.sample.boot <= mon.boot
    /\ mon.sample.boot = mon.boot => /\ mon.sample.active <= mon.active
                                     /\ mon.sample.active = mon.active => mon.sample.runs = mon.runs
DTyped ==
    /\ want \in Actions /\ unit \in [D!Units -> UnitValues]
    /\ state \in [action : Actions \cup {"none"}, registered : BOOLEAN]
DInv == DTyped /\ Registering /\ Sampled

LEMMA DInit == D!Init => DInv
<1> SUFFICES ASSUME D!Init
             PROVE  DInv
  OBVIOUS
<1>1. DTyped
  BY DEF D!Init, DTyped, UnitValues, D!NoState, D!None
<1>2. Registering
  BY DEF D!Init, Registering, D!Idle, D!None
<1>3. Sampled
  BY DEF D!Init, Sampled, Monitors, Samples, D!Unmonitored, D!NoSample
<1> QED BY <1>1, <1>2, <1>3 DEF DInv

LEMMA RegistrationIsTyped ==
    ASSUME NEW a \in Actions, NEW b \in BOOLEAN
    PROVE  [action |-> a, registered |-> b] \in [action : Actions \cup {"none"}, registered : BOOLEAN]
  OBVIOUS

LEMMA NothingRegistered == D!NoState \in [action : Actions \cup {"none"}, registered : BOOLEAN]
  BY DEF D!NoState, D!None

\* The steps that change the registration leave the monitor alone.
LEMMA ChangeKeeps ==
    ASSUME DInv, UNCHANGED mon, DTyped', Registering',
           D!ReportedIsRegistered, D!ForeignUnitIsKept
    PROVE  DInv' /\ D!ReportedIsRegistered /\ D!ForeignUnitIsKept /\ D!MissedIsReal
<1>1. Sampled'
  BY DEF DInv, Sampled
<1>2. D!MissedIsReal
  BY DEF D!MissedIsReal
<1> QED BY <1>1, <1>2 DEF DInv

\* An invocation that ends without success.
LEMMA EndsWithout ==
    ASSUME DInv, UNCHANGED mon, DTyped', D!ForeignUnitIsKept, NEW r, D!End(r),
           r \notin {"REGISTERED", "ALREADY_CURRENT"}
    PROVE  DInv' /\ D!ReportedIsRegistered /\ D!ForeignUnitIsKept /\ D!MissedIsReal
<1>1. run' = [pc |-> "idle", seen |-> <<>>, result |-> r] /\ run'.pc = "idle" /\ run'.result = r
  BY DEF D!End, D!Idle
<1>2. Registering'
  BY <1>1 DEF Registering
<1>3. D!ReportedIsRegistered
  BY <1>1 DEF D!ReportedIsRegistered
<1> QED BY <1>2, <1>3, ChangeKeeps

\* One that ends with success, and the job it reports.
LEMMA EndsRegistered ==
    ASSUME DInv, UNCHANGED <<mon, want, state, unit, job>>, NEW r, D!End(r), D!inspect_registered_task
    PROVE  DInv' /\ D!ReportedIsRegistered /\ D!ForeignUnitIsKept /\ D!MissedIsReal
<1>1. run' = [pc |-> "idle", seen |-> <<>>, result |-> r] /\ run'.pc = "idle" /\ run'.result = r
  BY DEF D!End, D!Idle
<1>2. Registering'
  BY <1>1 DEF Registering
<1>3. DTyped' /\ D!ForeignUnitIsKept
  BY DEF DInv, DTyped, D!ForeignUnitIsKept
<1>4. job' /\ D!Registered(state') /\ state'.action = want /\ \A u \in D!Units : unit'[u] = want
  BY DEF D!inspect_registered_task, D!Registered, D!Identity, D!_state_action_checks,
     D!build_systemd_user_unit
<1>5. D!ReportedIsRegistered
  BY <1>4 DEF D!ReportedIsRegistered
<1> QED BY <1>2, <1>3, <1>5, ChangeKeeps

\* One that goes on, without a result.
LEMMA GoesOn ==
    ASSUME DInv, UNCHANGED mon, DTyped', D!ForeignUnitIsKept,
           run' = [pc |-> run'.pc, seen |-> run'.seen, result |-> run'.result],
           run'.result = "none",
           run'.pc \in {"service", "timer", "disable", "remove"} =>
              \A u \in D!Units : run'.seen[u] # "foreign"
    PROVE  DInv' /\ D!ReportedIsRegistered /\ D!ForeignUnitIsKept /\ D!MissedIsReal
<1>1. Registering'
  BY DEF Registering
<1>2. D!ReportedIsRegistered
  BY DEF D!ReportedIsRegistered
<1> QED BY <1>1, <1>2, ChangeKeeps

LEMMA RegisterKeeps ==
    ASSUME DInv, D!Register
    PROVE  DInv' /\ D!ReportedIsRegistered /\ D!ForeignUnitIsKept /\ D!MissedIsReal
<1>0. DTyped /\ Registering
  BY DEF DInv
<1>1. CASE D!register_scheduler
  <2>1. UNCHANGED <<want, state, unit, job, mon>>
    BY <1>1 DEF D!register_scheduler
  <2>2. DTyped' /\ D!ForeignUnitIsKept
    BY <1>0, <2>1 DEF DTyped, D!ForeignUnitIsKept
  <2>3. CASE ~D!_systemd_artifacts_are_owned
    <3>1. D!End("REGISTRATION_BLOCKED")
      BY <1>1, <2>3 DEF D!register_scheduler
    <3> QED BY <2>1, <2>2, <3>1, EndsWithout
  <2>4. CASE D!_systemd_artifacts_are_owned /\ D!inspect_registered_task
    <3>1. D!Registered(state) /\ state.action = want
      BY <2>4 DEF D!inspect_registered_task, D!Identity, D!_state_action_checks
    <3>2. D!End("ALREADY_CURRENT")
      BY <1>1, <2>4, <3>1 DEF D!register_scheduler
    <3> QED BY <2>1, <2>4, <3>2, EndsRegistered
  <2>5. CASE D!_systemd_artifacts_are_owned /\ ~D!inspect_registered_task
    <3>1. run' = [pc |-> "service", seen |-> unit, result |-> "none"]
      BY <1>1, <2>5 DEF D!register_scheduler, D!None
    <3>2. /\ run' = [pc |-> run'.pc, seen |-> run'.seen, result |-> run'.result]
          /\ run'.pc = "service" /\ run'.seen = unit /\ run'.result = "none"
      BY <3>1
    <3>3. \A u \in D!Units : unit[u] # "foreign"
      BY <1>0, <2>5, ActionsAreNamed DEF DTyped, D!_systemd_artifacts_are_owned, D!None,
         D!build_systemd_user_unit
    <3> QED BY <2>1, <2>2, <3>2, <3>3, GoesOn
  <2> QED BY <2>3, <2>4, <2>5
<1>2. ASSUME NEW u \in D!Units, D!WriteUnit(u)
      PROVE  DInv' /\ D!ReportedIsRegistered /\ D!ForeignUnitIsKept /\ D!MissedIsReal
  <2>0. u \in {"service", "timer"}
    BY DEF D!Units
  <2>1. /\ run.pc = u /\ unit' = [unit EXCEPT ![u] = want]
        /\ UNCHANGED <<want, state, job, mon>>
    BY <1>2 DEF D!WriteUnit, D!build_systemd_user_unit
  <2>2. DTyped'
    BY <1>0, <2>1 DEF DTyped, UnitValues
  <2>3. D!ForeignUnitIsKept
    BY <1>0, <2>0, <2>1 DEF D!ForeignUnitIsKept, D!Foreign, Registering, DTyped
  <2>4. PICK p \in {"timer", "enable"} : run' = [run EXCEPT !.pc = p]
    BY <1>2 DEF D!WriteUnit, D!Goto
  <2>5. /\ run' = [pc |-> run'.pc, seen |-> run'.seen, result |-> run'.result]
        /\ run'.seen = run.seen /\ run'.result = "none"
    BY <1>0, <2>0, <2>1, <2>4 DEF Registering
  <2> QED BY <1>0, <2>0, <2>1, <2>2, <2>3, <2>5, GoesOn DEF Registering
<1>3. CASE D!Enable \/ D!SaveRegistered
  <2>1. /\ run.pc \in {"enable", "save"} /\ UNCHANGED <<want, unit, mon>>
        /\ run' = [run EXCEPT !.pc = "save"] \/ run' = [run EXCEPT !.pc = "verify"]
    BY <1>3 DEF D!Enable, D!SaveRegistered, D!Goto
  <2>2. DTyped'
    <3>1. state' = state \/ state' = [action |-> want, registered |-> TRUE]
      BY <1>3 DEF D!Enable, D!SaveRegistered, D!write_scheduler_state
    <3>2. state' \in [action : Actions \cup {"none"}, registered : BOOLEAN]
      <4>1. state \in [action : Actions \cup {"none"}, registered : BOOLEAN] /\ want \in Actions
        BY <1>0 DEF DTyped
      <4>2. [action |-> want, registered |-> TRUE] \in [action : Actions \cup {"none"}, registered : BOOLEAN]
        BY <4>1, RegistrationIsTyped
      <4> QED BY <3>1, <4>1, <4>2, Zenon
    <3>3. want' \in Actions /\ unit' \in [D!Units -> UnitValues]
      BY <1>0, <2>1 DEF DTyped
    <3> QED BY <3>2, <3>3 DEF DTyped
  <2>3. run' = [pc |-> run'.pc, seen |-> run'.seen, result |-> run'.result] /\ run'.pc \in {"save", "verify"} /\ run'.result = "none"
    BY <1>0, <2>1 DEF Registering
  <2> QED BY <2>1, <2>2, <2>3, GoesOn DEF D!ForeignUnitIsKept
<1>4. ASSUME NEW q \in BOOLEAN, D!VerifyRegistered(q)
      PROVE  DInv' /\ D!ReportedIsRegistered /\ D!ForeignUnitIsKept /\ D!MissedIsReal
  <2>1. UNCHANGED <<want, unit, job, mon>>
    BY <1>4 DEF D!VerifyRegistered
  <2>2. CASE q /\ D!inspect_registered_task
    <3>1. D!End("REGISTERED") /\ UNCHANGED state
      BY <1>4, <2>2 DEF D!VerifyRegistered
    <3> QED BY <2>1, <2>2, <3>1, EndsRegistered
  <2>3. CASE ~(q /\ D!inspect_registered_task)
    <3>1. D!End("VERIFICATION_FAILED") /\ D!write_scheduler_state(FALSE)
      BY <1>4, <2>3 DEF D!VerifyRegistered
    <3>2. DTyped' /\ D!ForeignUnitIsKept
      BY <1>0, <2>1, <3>1 DEF DTyped, D!write_scheduler_state, D!ForeignUnitIsKept
    <3> QED BY <2>1, <3>1, <3>2, EndsWithout
  <2> QED BY <2>2, <2>3
<1> QED BY <1>1, <1>2, <1>3, <1>4 DEF D!Register

LEMMA UnregisterKeeps ==
    ASSUME DInv, D!Unregister
    PROVE  DInv' /\ D!ReportedIsRegistered /\ D!ForeignUnitIsKept /\ D!MissedIsReal
<1>0. DTyped /\ Registering
  BY DEF DInv
<1>1. ASSUME NEW q \in BOOLEAN, D!unregister_scheduler(q)
      PROVE  DInv' /\ D!ReportedIsRegistered /\ D!ForeignUnitIsKept /\ D!MissedIsReal
  <2>1. UNCHANGED <<want, unit, job, mon>>
    BY <1>1 DEF D!unregister_scheduler
  <2>2. D!ForeignUnitIsKept
    BY <2>1 DEF D!ForeignUnitIsKept
  <2>3. DTyped'
    <3>1. state' = state \/ state' = D!NoState
      BY <1>1 DEF D!unregister_scheduler
    <3> QED BY <1>0, <2>1, <3>1, NothingRegistered DEF DTyped
  <2>4. CASE state = D!NoState \/ ~D!Registered(state) \/ ~q \/ ~D!Identity
    <3>1. \E r \in {"NOT_REGISTERED", "UNREGISTERED", "UNREGISTER_BLOCKED"} : D!End(r)
      BY <1>1, <2>4 DEF D!unregister_scheduler
    <3> QED BY <2>1, <2>2, <2>3, <3>1, EndsWithout
  <2>5. CASE ~(state = D!NoState \/ ~D!Registered(state) \/ ~q \/ ~D!Identity)
    <3>1. run' = [pc |-> IF job THEN "disable" ELSE "remove", seen |-> unit, result |-> "none"]
      BY <1>1, <2>5 DEF D!unregister_scheduler, D!None
    <3>2. /\ run' = [pc |-> run'.pc, seen |-> run'.seen, result |-> run'.result]
          /\ run'.pc \in {"disable", "remove"} /\ run'.seen = unit /\ run'.result = "none"
      BY <3>1
    <3>3. \A u \in D!Units : unit[u] # "foreign"
      BY <1>0, <2>5, ActionsAreNamed DEF DTyped, D!Identity, D!_state_action_checks,
         D!build_systemd_user_unit
    <3> QED BY <2>1, <2>2, <2>3, <3>2, <3>3, GoesOn
  <2> QED BY <2>4, <2>5
<1>2. ASSUME NEW q \in BOOLEAN, D!Disable(q)
      PROVE  DInv' /\ D!ReportedIsRegistered /\ D!ForeignUnitIsKept /\ D!MissedIsReal
  <2>1. run.pc = "disable" /\ UNCHANGED <<want, state, unit, mon>>
    BY <1>2 DEF D!Disable
  <2>2. D!ForeignUnitIsKept /\ DTyped'
    BY <1>0, <1>2, <2>1 DEF D!ForeignUnitIsKept, DTyped, D!Disable
  <2>3. CASE ~q
    <3>1. D!End("UNREGISTER_FAILED")
      BY <1>2, <2>3 DEF D!Disable
    <3> QED BY <2>1, <2>2, <3>1, EndsWithout
  <2>4. CASE q
    <3>1. run' = [run EXCEPT !.pc = "remove"]
      BY <1>2, <2>4 DEF D!Disable, D!Goto
    <3>2. /\ run' = [pc |-> run'.pc, seen |-> run'.seen, result |-> run'.result]
          /\ run'.pc = "remove" /\ run'.seen = run.seen /\ run'.result = "none"
      BY <1>0, <2>1, <3>1 DEF Registering
    <3> QED BY <1>0, <2>1, <2>2, <3>2, GoesOn DEF Registering
  <2> QED BY <2>3, <2>4
<1>3. CASE D!_remove_owned_scheduler_file
  <2>1. run.pc = "remove" /\ UNCHANGED <<want, job, mon>>
    BY <1>3 DEF D!_remove_owned_scheduler_file
  <2>2. CASE UNCHANGED unit
    <3>0. state' = state \/ state' = D!NoState
      BY <1>3 DEF D!_remove_owned_scheduler_file
    <3>1. DTyped' /\ D!ForeignUnitIsKept
      BY <1>0, <2>1, <2>2, <3>0, NothingRegistered DEF DTyped, D!ForeignUnitIsKept
    <3>2. CASE D!End("UNREGISTER_FAILED") \/ D!End("UNREGISTERED")
      BY <2>1, <3>1, <3>2, EndsWithout
    <3>3. CASE UNCHANGED run
      BY <1>0, <2>1, <2>2, <3>1, <3>3, GoesOn DEF Registering
    <3> QED BY <1>3, <3>2, <3>3 DEF D!_remove_owned_scheduler_file
  <2>3. CASE unit' # unit
    <3>1. PICK u \in D!Units : /\ unit[u] # "none" /\ unit' = [unit EXCEPT ![u] = "none"]
                               /\ UNCHANGED <<state, run>>
                               /\ unit[u] = run.seen[u]
      BY <1>3, <2>3 DEF D!_remove_owned_scheduler_file, D!None
    <3>2. DTyped'
      BY <1>0, <2>1, <3>1 DEF DTyped, UnitValues
    <3>3. D!ForeignUnitIsKept
      BY <1>0, <2>1, <3>1 DEF D!ForeignUnitIsKept, D!Foreign, Registering, DTyped
    <3> QED BY <1>0, <2>1, <3>1, <3>2, <3>3, GoesOn DEF Registering
  <2> QED BY <2>2, <2>3
<1> QED BY <1>1, <1>2, <1>3 DEF D!Unregister

LEMMA OutsideKeeps ==
    ASSUME DInv, D!Environment
    PROVE  DInv' /\ D!ReportedIsRegistered /\ D!ForeignUnitIsKept /\ D!MissedIsReal
<1>0. DTyped /\ Registering
  BY DEF DInv
<1>1. CASE D!ScriptFails \/ D!Die
  <2>1. UNCHANGED <<want, unit, job, mon>> /\ (D!End("REGISTRATION_FAILED") \/ D!End("DIED"))
    BY <1>1 DEF D!ScriptFails, D!Die
  <2>2. DTyped'
    <3>1. state' = state \/ state' = [action |-> want, registered |-> FALSE]
      BY <1>1 DEF D!ScriptFails, D!Die, D!write_scheduler_state
    <3>2. state' \in [action : Actions \cup {"none"}, registered : BOOLEAN]
      <4>1. state \in [action : Actions \cup {"none"}, registered : BOOLEAN] /\ want \in Actions
        BY <1>0 DEF DTyped
      <4>2. [action |-> want, registered |-> FALSE] \in [action : Actions \cup {"none"}, registered : BOOLEAN]
        BY <4>1, RegistrationIsTyped
      <4> QED BY <3>1, <4>1, <4>2, Zenon
    <3>3. want' \in Actions /\ unit' \in [D!Units -> UnitValues]
      BY <1>0, <2>1 DEF DTyped
    <3> QED BY <3>2, <3>3 DEF DTyped
  <2>3. D!ForeignUnitIsKept
    BY <2>1 DEF D!ForeignUnitIsKept
  <2> QED BY <2>1, <2>2, <2>3, EndsWithout
<1>2. CASE D!Stop \/ \E a \in Actions : D!build_maintenance_action(a)
  <2>1. UNCHANGED <<unit, run, mon, state>>
    BY <1>2 DEF D!Stop, D!build_maintenance_action
  <2>2. DTyped' /\ D!ForeignUnitIsKept
    BY <1>0, <1>2, <2>1 DEF DTyped, D!Stop, D!build_maintenance_action, D!ForeignUnitIsKept
  <2>3. Registering'
    BY <1>0, <2>1 DEF Registering
  <2>4. D!ReportedIsRegistered
    BY <2>1 DEF D!ReportedIsRegistered
  <2> QED BY <2>1, <2>2, <2>3, <2>4, ChangeKeeps
<1>3. ASSUME NEW u \in D!Units, D!Replace(u)
      PROVE  DInv' /\ D!ReportedIsRegistered /\ D!ForeignUnitIsKept /\ D!MissedIsReal
  <2>1. /\ unit' = [unit EXCEPT ![u] = "foreign"]
        /\ UNCHANGED <<want, state, job, run, mon>>
    BY <1>3 DEF D!Replace, D!Foreign
  <2>2. DTyped' /\ D!ForeignUnitIsKept
    BY <1>0, <2>1 DEF DTyped, UnitValues, D!ForeignUnitIsKept, D!Foreign
  <2>3. Registering'
    BY <1>0, <2>1 DEF Registering
  <2>4. D!ReportedIsRegistered
    BY <2>1 DEF D!ReportedIsRegistered
  <2> QED BY <2>1, <2>2, <2>3, <2>4, ChangeKeeps
<1> QED BY <1>1, <1>2, <1>3 DEF D!Environment

\* A step of the clock, which counts nothing.
LEMMA ClockStep ==
    ASSUME DInv, UNCHANGED D!jobVars, mon' \in Monitors, mon'.missed = mon.missed,
           mon'.active <= mon'.awake, mon'.sample = mon.sample, mon.boot <= mon'.boot,
           mon'.boot = mon.boot => /\ mon.active <= mon'.active
                                   /\ mon'.active = mon.active => mon'.runs = mon.runs,
           mon.sample.boot = mon'.boot => mon'.boot = mon.boot
    PROVE  DInv' /\ D!ReportedIsRegistered /\ D!ForeignUnitIsKept /\ D!MissedIsReal
<1>1. DTyped' /\ Registering' /\ D!ReportedIsRegistered /\ D!ForeignUnitIsKept
  BY DEF D!jobVars, DInv, DTyped, Registering, D!ReportedIsRegistered, D!ForeignUnitIsKept
<1>2. D!MissedIsReal
  BY DEF D!MissedIsReal
<1>3. PICK o \in Samples : o = mon.sample
  BY DEF Monitors
<1>5. o.boot \in Int /\ o.active \in Int
  BY DEF Samples
<1>6. PICK s \in Int : s = o.boot
  BY <1>5
<1>7. PICK x \in Int : x = o.active
  BY <1>5
<1>8. mon.boot \in Int /\ mon'.boot \in Int /\ mon.active \in Int /\ mon'.active \in Int
  BY DEF DInv, Sampled, Monitors
<1>9. PICK b \in Int : b = mon.boot
  BY <1>8
<1>10. PICK c \in Int : c = mon'.boot
  BY <1>8
<1>11. PICK y \in Int : y = mon.active
  BY <1>8
<1>12. PICK z \in Int : z = mon'.active
  BY <1>8
<1>13. s <= b /\ (s = b => x <= y /\ (x = y => o.runs = mon.runs))
  BY <1>3, <1>6, <1>7, <1>9, <1>11 DEF DInv, Sampled
<1>14. s <= c /\ (s = c => x <= z /\ (x = z => o.runs = mon'.runs))
  BY <1>3, <1>6, <1>9, <1>10, <1>11, <1>12, <1>13
<1>4. Sampled'
  BY <1>3, <1>6, <1>7, <1>10, <1>12, <1>14 DEF Sampled
<1> QED BY <1>1, <1>2, <1>4 DEF DInv

LEMMA ClockKeeps ==
    ASSUME DInv, D!Clock
    PROVE  DInv' /\ D!ReportedIsRegistered /\ D!ForeignUnitIsKept /\ D!MissedIsReal
<1>0. mon \in Monitors
  BY DEF DInv, Sampled
<1>n. PICK n \in Nat : n = mon.awake
  BY <1>0 DEF Monitors
<1>a. PICK k \in Nat : k = mon.active /\ k <= n
  BY <1>0, <1>n DEF Monitors, DInv, Sampled
<1>b. PICK b \in Nat : b = mon.boot /\ mon.sample.boot <= b
  BY <1>0 DEF Monitors, DInv, Sampled
<1>r. PICK r \in Nat : r = mon.runs
  BY <1>0 DEF Monitors
<1>s. PICK s \in Nat : s = mon.asleep
  BY <1>0 DEF Monitors
<1>1. CASE D!Tick
  <2>1. mon' = [mon EXCEPT !.awake = n + 1] /\ UNCHANGED D!jobVars
    BY <1>1, <1>n DEF D!Tick
  <2>2. /\ mon' \in Monitors /\ mon'.missed = mon.missed /\ mon'.awake = n + 1 /\ mon'.active = mon.active
        /\ mon'.boot = mon.boot /\ mon'.runs = mon.runs /\ mon'.sample = mon.sample
    BY <1>0, <2>1 DEF Monitors
  <2> QED BY <1>a, <1>b, <2>1, <2>2, ClockStep
<1>2. CASE D!Sleep
  <2>1. mon' = [mon EXCEPT !.asleep = s + 1] /\ UNCHANGED D!jobVars
    BY <1>2, <1>s DEF D!Sleep
  <2>2. /\ mon' \in Monitors /\ mon'.missed = mon.missed /\ mon'.awake = n /\ mon'.active = mon.active
        /\ mon'.boot = mon.boot /\ mon'.runs = mon.runs /\ mon'.sample = mon.sample
    BY <1>0, <1>n, <2>1 DEF Monitors
  <2> QED BY <1>a, <1>b, <2>1, <2>2, ClockStep
<1>3. CASE D!Reboot
  <2>0. PICK c \in Nat : c = b + 1
    OBVIOUS
  <2>1. /\ mon' = [mon EXCEPT !.boot = c, !.awake = 0, !.asleep = 0, !.active = 0, !.runs = 0]
        /\ UNCHANGED D!jobVars
    BY <1>3, <1>b, <2>0 DEF D!Reboot
  <2>2. /\ mon' \in Monitors /\ mon'.missed = mon.missed /\ mon'.awake = 0 /\ mon'.active = 0
        /\ mon'.boot = c /\ mon'.sample = mon.sample
    BY <1>0, <2>1 DEF Monitors
  <2>3. PICK o \in Int : o = mon.sample.boot
    BY <1>0 DEF Monitors, Samples
  <2>4. mon.boot <= mon'.boot /\ mon'.boot # mon.boot /\ mon.sample.boot # mon'.boot /\ mon'.active <= mon'.awake
    BY <1>b, <2>0, <2>2, <2>3
  <2> QED BY <2>1, <2>2, <2>4, ClockStep
<1>4. CASE D!Trigger
  <2>0. PICK q \in Nat : q = r + 1
    OBVIOUS
  <2>1. mon' = [mon EXCEPT !.active = n, !.runs = q] /\ UNCHANGED D!jobVars /\ n >= k + Interval
    BY <1>4, <1>n, <1>a, <1>r, <2>0 DEF D!Trigger
  <2>2. /\ mon' \in Monitors /\ mon'.missed = mon.missed /\ mon'.awake = n /\ mon'.active = n
        /\ mon'.boot = mon.boot /\ mon'.sample = mon.sample
    BY <1>0, <1>n, <2>1 DEF Monitors
  <2>3. n # k /\ k <= n
    BY <2>1, TimerHasPeriod
  <2> QED BY <1>a, <1>b, <2>1, <2>2, <2>3, ClockStep
<1>5. CASE D!inspect_scheduler_opportunities
  <2> DEFINE new == D!_native_scheduler_sample
  <2>1. /\ new \in Samples /\ new.boot = b /\ new.awake = n /\ new.asleep = s /\ new.active = k
        /\ new.runs = r
    BY <1>n, <1>a, <1>b, <1>r, <1>s DEF D!_native_scheduler_sample, Samples
  <2>2. PICK old \in Samples : old = mon.sample
    BY <1>0 DEF Monitors
  <2>3. PICK count : count = D!_linux_opportunities(old, new)
    OBVIOUS
  <2>4. PICK t \in {old, new} : mon' = [mon EXCEPT !.sample = t, !.missed = count[1]]
    BY <1>5, <2>2, <2>3 DEF D!inspect_scheduler_opportunities
  <2>5. UNCHANGED D!jobVars
    BY <1>5 DEF D!inspect_scheduler_opportunities
  <2>6. PICK i \in Nat \ {0} : i = Interval
    BY TimerHasPeriod
  <2>7. PICK a \in Nat : a = Allowance
    BY TimerHasPeriod
  <2> HIDE DEF new
  <2>8. /\ count[1] \in {-1, 0, 1, 2}
        /\ count[1] > 0 => /\ old # D!NoSample /\ old.boot = b /\ old.asleep = s /\ ~(k > old.active)
                           /\ count[1] = 1 => n > k + i + a
                           /\ count[1] = 2 => n > k + 2 * i + a
    <3> DEFINE late == {d \in D!Due(new) : n > d + Allowance}
    <3>1. D!Due(new) = {k + i, k + 2 * i}
      BY <2>1, <2>6 DEF D!Due
    <3>2. late # {} /\ ~(k + 2 * i \in late) => n > k + i + a
      BY <2>7, <3>1
    <3>3. k + 2 * i \in late => n > k + 2 * i + a
      BY <2>7, <3>1
    <3>4. \/ count = <<-1, FALSE>> \/ count = <<0, FALSE>>
          \/ /\ old # D!NoSample /\ old.boot = new.boot /\ new.asleep = old.asleep /\ ~(new.active > old.active)
             /\ count = <<IF late = {} THEN 0 ELSE IF new.active + 2 * Interval \in late THEN 2 ELSE 1, TRUE>>
      <4>1. late = {d \in D!Due(new) : new.awake > d + Allowance}
        BY <2>1
      <4>2. CASE old = D!NoSample \/ old.boot # new.boot \/ new.awake < old.awake \/ new.asleep # old.asleep
        <5>0. new.awake < old.awake => ~(new.awake >= old.awake)
          BY <2>1 DEF Samples
        <5>1. count = <<-1, FALSE>>
          BY <2>3, <4>2, <5>0, Zenon DEF D!_linux_opportunities
        <5> QED BY <5>1
      <4>3. CASE ~(old = D!NoSample \/ old.boot # new.boot \/ new.awake < old.awake \/ new.asleep # old.asleep)
        <5>1. new.awake >= old.awake
          BY <2>1, <4>3 DEF Samples
        <5>2. CASE new.active > old.active
          <6>0. ~(new.active = old.active)
            BY <2>1, <5>2 DEF Samples
          <6>1. count = <<0, FALSE>>
            BY <2>3, <4>3, <5>1, <5>2, <6>0, Zenon DEF D!_linux_opportunities
          <6> QED BY <6>1
        <5>3. CASE ~(new.active > old.active) /\ new.active = old.active /\ \E d \in D!Due(new) : d <= old.awake
          <6>1. count = <<-1, FALSE>>
            BY <2>3, <4>3, <5>1, <5>3, Zenon DEF D!_linux_opportunities
          <6> QED BY <6>1
        <5>4. CASE ~(new.active > old.active) /\ ~(new.active = old.active /\ \E d \in D!Due(new) : d <= old.awake)
          <6> HIDE DEF late
          <6>1. count = <<IF late = {} THEN 0 ELSE IF new.active + 2 * Interval \in late THEN 2 ELSE 1, TRUE>>
            BY <2>3, <4>1, <4>3, <5>1, <5>4 DEF D!_linux_opportunities
          <6> QED BY <4>3, <5>4, <6>1
        <5> QED BY <5>2, <5>3, <5>4
      <4> QED BY <4>2, <4>3
    <3> HIDE DEF late
    <3>5. CASE count = <<-1, FALSE>> \/ count = <<0, FALSE>>
      <4>1. count[1] = -1 \/ count[1] = 0
        <5>1. PICK y \in {-1, 0} : count = <<y, FALSE>>
          BY <3>5, Zenon
        <5>2. count[1] = y
          BY <5>1
        <5> QED BY <5>2
      <4> QED BY <4>1
    <3>6. CASE /\ old # D!NoSample /\ old.boot = new.boot /\ new.asleep = old.asleep /\ ~(new.active > old.active)
               /\ count = <<IF late = {} THEN 0 ELSE IF new.active + 2 * Interval \in late THEN 2 ELSE 1, TRUE>>
      <4>1. count[1] = IF late = {} THEN 0 ELSE IF k + 2 * i \in late THEN 2 ELSE 1
        BY <2>1, <2>6, <3>6
      <4> QED BY <2>1, <3>2, <3>3, <3>6, <4>1
    <3> QED BY <3>4, <3>5, <3>6
  <2>9. /\ mon' \in Monitors /\ mon'.missed = count[1] /\ mon'.sample = t /\ mon'.awake = n
        /\ mon'.active = k /\ mon'.boot = b /\ mon'.runs = r
    <3>1. PICK c \in Int : c = count[1]
      BY <2>8
    <3>2. t \in Samples
      BY <2>1
    <3>3. mon' = [mon EXCEPT !.sample = t, !.missed = c]
      BY <2>4, <3>1
    <3> QED BY <1>0, <1>n, <1>a, <1>b, <1>r, <3>1, <3>2, <3>3 DEF Monitors
  <2>10. Sampled'
    <3>1. CASE t = old
      BY <1>a, <1>b, <1>r, <2>2, <2>9, <3>1 DEF DInv, Sampled
    <3>2. CASE t = new
      BY <1>a, <2>1, <2>9, <3>2 DEF Sampled
    <3> QED BY <2>4, <3>1, <3>2
  <2>11. D!MissedIsReal
    <3> SUFFICES ASSUME count[1] > 0
                 PROVE  /\ old.boot = b /\ old.runs = r /\ old.asleep = s
                        /\ n - k > count[1] * Interval + Allowance
      BY <1>n, <1>a, <1>b, <1>r, <1>s, <2>2, <2>9 DEF D!MissedIsReal
    <3>1. PICK x \in Nat : x = old.active
      BY DEF Samples
    <3>2. x = k
      BY <1>a, <1>b, <2>2, <2>8, <3>1 DEF DInv, Sampled
    <3>3. old.runs = r
      BY <1>a, <1>b, <1>r, <2>2, <2>8, <3>1, <3>2 DEF DInv, Sampled
    <3>4. CASE count[1] = 1
      BY <2>6, <2>7, <2>8, <3>3, <3>4
    <3>5. CASE count[1] = 2
      BY <2>6, <2>7, <2>8, <3>3, <3>5
    <3> QED BY <2>8, <3>4, <3>5
  <2>12. DTyped' /\ Registering' /\ D!ReportedIsRegistered /\ D!ForeignUnitIsKept
    BY <2>5 DEF D!jobVars, DInv, DTyped, Registering, D!ReportedIsRegistered, D!ForeignUnitIsKept
  <2> QED BY <2>10, <2>11, <2>12 DEF DInv
<1> QED BY <1>1, <1>2, <1>3, <1>4, <1>5 DEF D!Clock

LEMMA DStep ==
    DInv /\ [D!Next]_(D!vars) => DInv' /\ D!ReportedIsRegistered /\ D!ForeignUnitIsKept /\ D!MissedIsReal
<1> SUFFICES ASSUME DInv, [D!Next]_(D!vars)
             PROVE  DInv' /\ D!ReportedIsRegistered /\ D!ForeignUnitIsKept /\ D!MissedIsReal
  OBVIOUS
<1>1. CASE UNCHANGED D!vars
  <2>1. UNCHANGED <<want, state, unit, job, run, mon>>
    BY <1>1 DEF D!vars
  <2>2. DTyped' /\ Registering' /\ D!ReportedIsRegistered /\ D!ForeignUnitIsKept
    BY <2>1 DEF DInv, DTyped, Registering, D!ReportedIsRegistered, D!ForeignUnitIsKept
  <2> QED BY <2>1, <2>2, ChangeKeeps
<1> QED BY <1>1, RegisterKeeps, UnregisterKeeps, OutsideKeeps, ClockKeeps DEF D!Next

-----------------------------------------------------------------------------
(* The import (migrate.py).  A run reads the journal once, and nobody else     *)
(* imports: what it takes for known is what is there.                          *)

\* A sequence, of whatever.
Listed(s) == \E E : s \in Seq(E)
Imported == {events[i].record : i \in 1..Len(events)}
Importable(r) == KindOf[r] \in {"external", "policy", "observation"}
\* What may be skipped is in the journal if it was to be imported.
Skippable(done) == \A r \in done : Importable(r) => r \in Imported
Importing == [pc |-> run.pc, plan |-> run.plan, left |-> run.left, done |-> run.done, ids |-> run.ids,
              known |-> run.known]

MInv ==
    /\ Listed(events)
    /\ src \in M!Sources /\ DOMAIN checkpoints = M!Sources
    /\ run = Importing
    /\ M!ImportedOnce
    /\ run.pc # "idle" => run.plan \in M!Sources /\ run.known = Imported /\ Skippable(run.done)
    /\ \A s \in M!Sources : Skippable(checkpoints[s].done)

LEMMA Fingerprints == ASSUME Listed(events) PROVE M!_existing_record_fingerprints = Imported
<1>1. PICK E : events \in Seq(E)
  BY DEF Listed
<1>2. DOMAIN events = 1..Len(events)
  BY <1>1
<1> QED BY <1>2 DEF M!_existing_record_fingerprints, M!Range, Imported

LEMMA Appended ==
    ASSUME Listed(events), NEW e, events' = Append(events, e)
    PROVE  /\ Listed(events)' /\ Len(events) \in Nat /\ Len(events') = Len(events) + 1
           /\ \A i \in 1..Len(events) : events'[i] = events[i]
           /\ events'[Len(events) + 1] = e
           /\ Imported' = Imported \cup {e.record}
<1>1. PICK E : events \in Seq(E)
  BY DEF Listed
<1>2. PICK F : F = E \cup {e}
  OBVIOUS
<1>3. events \in Seq(F) /\ e \in F
  BY <1>1, <1>2
<1>4. events' \in Seq(F)
  BY <1>3
<1>5. Listed(events)'
  BY <1>4 DEF Listed
<1>6. /\ Len(events) \in Nat /\ Len(events') = Len(events) + 1
      /\ \A i \in 1..Len(events) : events'[i] = events[i]
      /\ events'[Len(events) + 1] = e
  BY <1>3
<1>7. Imported' = Imported \cup {e.record}
  BY <1>6 DEF Imported
<1> QED BY <1>5, <1>6, <1>7

LEMMA MInit == M!Init => MInv
<1> SUFFICES ASSUME M!Init
             PROVE  MInv
  OBVIOUS
<1>1. events = <<>> /\ Len(events) = 0 /\ Listed(events)
  BY DEF M!Init, M!InitWith, Listed
<1>2. src \in M!Sources /\ checkpoints = [s \in M!Sources |-> M!NoCheckpoint] /\ run = M!Idle
  BY DEF M!Init, M!InitWith
<1>3. run = Importing /\ run.pc = "idle"
  BY <1>2 DEF M!Idle, Importing
<1>4. \A s \in M!Sources : Skippable(checkpoints[s].done)
  BY <1>2 DEF M!NoCheckpoint, Skippable
<1>5. M!ImportedOnce
  BY <1>1 DEF M!ImportedOnce
<1> QED BY <1>1, <1>2, <1>3, <1>4, <1>5 DEF MInv

\* A step that leaves the journal alone: what it writes to a checkpoint may be skipped.
LEMMA LeavesJournal ==
    ASSUME MInv, UNCHANGED events, src' \in M!Sources, DOMAIN checkpoints' = M!Sources,
           \A s \in M!Sources : checkpoints'[s].done = checkpoints[s].done \/ Skippable(checkpoints'[s].done),
           run' = Importing',
           run'.pc # "idle" => /\ run'.plan \in M!Sources /\ run'.known = Imported
                               /\ Skippable(run'.done)
    PROVE  MInv'
<1>1. Imported' = Imported
  BY DEF Imported
<1>2. \A d : Skippable(d)' <=> Skippable(d)
  BY <1>1 DEF Skippable
<1>3. Listed(events)' /\ M!ImportedOnce'
  BY DEF MInv, Listed, M!ImportedOnce
<1>4. \A s \in M!Sources : Skippable(checkpoints[s].done)
  BY DEF MInv
<1>5. \A s \in M!Sources : Skippable(checkpoints'[s].done)
  BY <1>4
<1>6. (\A s \in M!Sources : Skippable(checkpoints[s].done))'
  BY <1>1, <1>5 DEF Skippable
<1>7. (run.pc # "idle" => run.plan \in M!Sources /\ run.known = Imported /\ Skippable(run.done))'
  BY <1>1 DEF Skippable
<1> QED BY <1>3, <1>6, <1>7 DEF MInv

LEMMA MStep == MInv /\ [M!Next]_(M!vars) => MInv'
<1> SUFFICES ASSUME MInv, [M!Next]_(M!vars)
             PROVE  MInv'
  OBVIOUS
<1>0. /\ src \in M!Sources /\ DOMAIN checkpoints = M!Sources /\ run = Importing
      /\ run.pc # "idle" => run.plan \in M!Sources /\ run.known = Imported /\ Skippable(run.done)
      /\ \A s \in M!Sources : Skippable(checkpoints[s].done)
  BY DEF MInv
<1>1. CASE M!StartRun
  <2>1. PICK cp : cp = M!_load_checkpoint(src)
    OBVIOUS
  <2>2. Skippable(cp.done)
    BY <1>0, <2>1 DEF M!_load_checkpoint, M!NoCheckpoint, Skippable
  <2>3. PICK c : c = [cp EXCEPT !.status = "in_progress"]
    OBVIOUS
  <2>4. cp.done = c.done
    BY <1>0, <2>1, <2>3 DEF M!_load_checkpoint, M!NoCheckpoint
  <2>5. /\ checkpoints' = [checkpoints EXCEPT ![src] = c]
        /\ run' = [pc |-> "item", plan |-> src, left |-> M!_plan_from_inventory(src),
                   done |-> cp.done, ids |-> cp.ids, known |-> M!_existing_record_fingerprints]
        /\ UNCHANGED <<src, events>>
    BY <1>1, <2>1, <2>3 DEF M!StartRun
  <2>6. run'.known = Imported
    BY <2>5, Fingerprints DEF MInv
  <2>7. run' = Importing' /\ run'.plan = src /\ run'.done = cp.done
    BY <2>5 DEF Importing
  <2>8. \A s \in M!Sources : checkpoints'[s].done = checkpoints[s].done \/ Skippable(checkpoints'[s].done)
    BY <1>0, <2>2, <2>4, <2>5
  <2>9. DOMAIN checkpoints' = M!Sources
    BY <1>0, <2>5
  <2> QED BY <1>0, <2>2, <2>5, <2>6, <2>7, <2>8, <2>9, LeavesJournal
<1>2. CASE M!RefuseRun
  <2>1. UNCHANGED <<src, checkpoints, events, run>>
    BY <1>2 DEF M!RefuseRun
  <2> QED BY <1>0, <2>1, LeavesJournal DEF Importing
<1>3. CASE M!AppendItem
  <2>0. PICK x : x = M!Item
    OBVIOUS
  <2>1. run.pc = "item" /\ UNCHANGED <<src, checkpoints>>
    BY <1>3 DEF M!AppendItem
  <2>2. CASE M!NeedsEvent(M!Item)
    <3>0. PICK n : n = Len(events) + 1
      OBVIOUS
    <3>1. PICK e : e = M!ImportedEvent(M!Item) /\ e.record = x
      <4>1. [record |-> x, id |-> n].record = x
        OBVIOUS
      <4>2. M!ImportedEvent(M!Item) = [record |-> x, id |-> n]
        BY <2>0, <3>0, Zenon DEF M!ImportedEvent
      <4> QED BY <4>1, <4>2
    <3>2. /\ events' = Append(events, e)
          /\ run' = [run EXCEPT !.pc = "checkpoint", !.known = @ \cup {x}, !.ids = @ \cup {e.id},
                                !.done = @ \cup {x}]
      BY <1>3, <2>0, <2>2, <3>1 DEF M!AppendItem
    <3>3. /\ Listed(events)' /\ Len(events) \in Nat /\ Len(events') = Len(events) + 1
          /\ \A i \in 1..Len(events) : events'[i] = events[i]
          /\ events'[Len(events) + 1] = e
          /\ Imported' = Imported \cup {x}
      BY <3>1, <3>2, Appended DEF MInv
    <3>4. x \notin Imported
      BY <1>0, <2>0, <2>1, <2>2 DEF M!NeedsEvent
    <3>5. M!ImportedOnce'
      <4> SUFFICES ASSUME NEW i \in 1..Len(events'), NEW j \in 1..Len(events'),
                          events'[i].record = events'[j].record
                   PROVE  i = j
        BY DEF M!ImportedOnce
      <4>1. \A k \in 1..Len(events) : events[k].record # x
        BY <3>4 DEF Imported
      <4>2. \A k \in 1..Len(events') : k \in 1..Len(events) \/ k = Len(events) + 1
        BY <3>3
      <4>3. CASE i \in 1..Len(events) /\ j \in 1..Len(events)
        BY <3>3, <4>3 DEF MInv, M!ImportedOnce
      <4> QED BY <3>1, <3>3, <4>1, <4>2, <4>3
    <3>6. run' = Importing' /\ run'.plan = run.plan /\ run'.known = Imported' /\ run'.done = run.done \cup {x}
      BY <1>0, <2>1, <3>2, <3>3 DEF Importing
    <3>7. Skippable(run.done)' /\ \A s \in M!Sources : Skippable(checkpoints[s].done)'
      <4>1. \A r \in run'.done : Importable(r) => r \in Imported'
        BY <1>0, <2>1, <3>3, <3>6 DEF Skippable
      <4> QED BY <1>0, <2>1, <3>3, <4>1 DEF Skippable
    <3> QED BY <1>0, <2>1, <3>3, <3>5, <3>6, <3>7 DEF MInv
  <2>3. CASE ~M!NeedsEvent(M!Item)
    <3>1. run' = [run EXCEPT !.pc = "checkpoint", !.done = @ \cup {x}] /\ UNCHANGED events
      BY <1>3, <2>0, <2>3 DEF M!AppendItem
    <3>2. Importable(x) => x \in Imported
      BY <1>0, <2>0, <2>1, <2>3 DEF M!NeedsEvent, Importable
    <3>3. run' = Importing' /\ run'.plan = run.plan /\ run'.known = run.known /\ run'.done = run.done \cup {x}
      BY <1>0, <3>1 DEF Importing
    <3>4. Skippable(run'.done)
      BY <1>0, <2>1, <3>2, <3>3 DEF Skippable
    <3> QED BY <1>0, <2>1, <3>1, <3>3, <3>4, LeavesJournal
  <2> QED BY <2>2, <2>3
<1>4. CASE M!SkipItem
  <2>1. run.pc = "item" /\ UNCHANGED <<src, checkpoints, events>> /\ run' = [run EXCEPT !.left = Tail(@)]
    BY <1>4 DEF M!SkipItem
  <2>2. run' = Importing' /\ run'.plan = run.plan /\ run'.known = run.known /\ run'.done = run.done
    BY <1>0, <2>1 DEF Importing
  <2> QED BY <1>0, <2>1, <2>2, LeavesJournal
<1>5. CASE M!WriteCheckpoint
  <2>1. /\ run.pc = "checkpoint" /\ UNCHANGED <<src, events>> /\ run' = [run EXCEPT !.pc = "manifest"]
        /\ checkpoints' = [checkpoints EXCEPT ![run.plan] =
                              [status |-> "in_progress", done |-> run.done, ids |-> run.ids]]
    BY <1>5 DEF M!WriteCheckpoint
  <2>2. run' = Importing' /\ run'.plan = run.plan /\ run'.known = run.known /\ run'.done = run.done
    BY <1>0, <2>1 DEF Importing
  <2>3. \A s \in M!Sources : checkpoints'[s].done = checkpoints[s].done \/ Skippable(checkpoints'[s].done)
    BY <1>0, <2>1
  <2>4. DOMAIN checkpoints' = M!Sources
    BY <1>0, <2>1
  <2> QED BY <1>0, <2>1, <2>2, <2>3, <2>4, LeavesJournal
<1>6. CASE M!_write_rollback
  <2>1. /\ run.pc = "manifest" /\ UNCHANGED <<src, checkpoints, events>>
        /\ run' = [run EXCEPT !.pc = "item", !.left = Tail(@)]
    BY <1>6 DEF M!_write_rollback
  <2>2. run' = Importing' /\ run'.plan = run.plan /\ run'.known = run.known /\ run'.done = run.done
    BY <1>0, <2>1 DEF Importing
  <2> QED BY <1>0, <2>1, <2>2, LeavesJournal
<1>7. CASE M!FinishRun
  <2>1. /\ run.pc = "item" /\ UNCHANGED <<src, events>> /\ run' = M!Idle
        /\ checkpoints' = [checkpoints EXCEPT ![run.plan] =
                              [status |-> "complete", done |-> run.done, ids |-> run.ids]]
    BY <1>7 DEF M!FinishRun
  <2>2. run' = Importing' /\ run'.pc = "idle"
    BY <2>1 DEF Importing, M!Idle
  <2>3. \A s \in M!Sources : checkpoints'[s].done = checkpoints[s].done \/ Skippable(checkpoints'[s].done)
    BY <1>0, <2>1
  <2>4. DOMAIN checkpoints' = M!Sources
    BY <1>0, <2>1
  <2> QED BY <1>0, <2>1, <2>2, <2>3, <2>4, LeavesJournal
<1>8. ASSUME NEW p \in Paths, M!Edit(p) PROVE MInv'
  <2>1. UNCHANGED <<checkpoints, events, run>>
    BY <1>8 DEF M!Edit
  <2>2. src' \in M!Sources
    BY <1>0, <1>8 DEF M!Edit, M!Sources
  <2> QED BY <1>0, <2>1, <2>2, LeavesJournal DEF Importing
<1>9. CASE M!Die
  <2>1. UNCHANGED <<src, checkpoints, events>> /\ run' = M!Idle
    BY <1>9 DEF M!Die
  <2>2. run' = Importing' /\ run'.pc = "idle"
    BY <2>1 DEF Importing, M!Idle
  <2> QED BY <1>0, <2>1, <2>2, LeavesJournal
<1>10. CASE UNCHANGED M!vars
  <2>1. UNCHANGED <<src, checkpoints, events, run>>
    BY <1>10 DEF M!vars
  <2> QED BY <1>0, <2>1, LeavesJournal DEF Importing
<1> QED BY <1>1, <1>2, <1>3, <1>4, <1>5, <1>6, <1>7, <1>8, <1>9, <1>10 DEF M!Next, M!Execute

LEMMA MImported == MInv => M!ImportedOnce /\ M!CompletedIsImported
  BY Fingerprints DEF MInv, M!CompletedIsImported, Skippable, Importable

-----------------------------------------------------------------------------
(* The move of the root (migrate.py from line 786).  Every edit gives a file a *)
(* content it never had, so a file that still is what the plan says has not    *)
(* been edited since, and a backup taken meanwhile has it too.                 *)

TTyped ==
    /\ src \in R!Tree /\ latest \in R!Tree /\ edits \in Nat
    /\ backup \in R!Tree \cup {R!NoTree} /\ plan \in R!Tree \cup {R!NoTree}
    /\ cmd = [pc |-> cmd.pc, at |-> cmd.at, digest |-> cmd.digest] /\ cmd.at \in Nat
Numbered == \A f \in R!Files : src[f] < edits + 2 /\ (plan \in R!Tree => plan[f] < edits + 2)
\* What is not in the old root any more is in the backup, as it was last, or a
\* JSON file was believed that said so.
BackedUp(f) == backup \in R!Tree /\ backup[f] = latest[f]
Stated(f) == \E t \in stated : t[f] = latest[f]
KeptSomewhere ==
    \A f \in R!Files : IF src[f] = 0 THEN BackedUp(f) \/ Stated(f) ELSE src[f] = latest[f]
\* A file that is as planned when a cleanup comes to it is in the backup.
Covered == backup \in R!Tree /\ \A f \in R!Files : src[f] = plan[f] => backup[f] = plan[f]
Cleaning == cmd.pc = "cleanup" => plan \in R!Tree /\ (plan \in stated \/ Covered)
\* What has been copied is as planned.
Copying ==
    /\ cmd.pc \in {"owner", "copy", "project", "move"} => plan \in R!Tree /\ stage \in R!Tree
    /\ cmd.pc = "owner" => cmd.at = 1
    /\ cmd.pc = "copy" => \A g \in R!Files : g < cmd.at => stage[g] = plan[g]
    /\ cmd.pc \in {"project", "move"} => stage = plan

TInv == TTyped /\ Numbered /\ KeptSomewhere /\ Cleaning /\ Copying

LEMMA TreesExist == ASSUME NEW t \in R!Tree, NEW f \in R!Files PROVE R!Exists(t)
<1>1. DOMAIN t = R!Files /\ DOMAIN R!NoTree = {}
  BY DEF R!Tree, R!NoTree
<1> QED BY <1>1 DEF R!Exists

LEMMA TInit == R!Init => TInv
<1> SUFFICES ASSUME R!Init
             PROVE  TInv
  OBVIOUS
<1>1. src = [f \in R!Files |-> 1] /\ latest = src /\ src \in R!Tree
  BY DEF R!Init, R!Tree
<1>2. cmd = R!Idle /\ cmd.pc = "idle" /\ cmd.at = 1 /\ cmd = [pc |-> cmd.pc, at |-> cmd.at, digest |-> cmd.digest]
  BY DEF R!Init, R!Idle
<1>3. edits = 0 /\ backup = R!NoTree /\ plan = R!NoTree
  BY DEF R!Init
<1>4. plan \in R!Tree => R!Files = {}
  BY <1>3 DEF R!Tree, R!NoTree
<1>5. TTyped
  BY <1>1, <1>2, <1>3 DEF TTyped
<1>6. Numbered /\ KeptSomewhere
  BY <1>1, <1>3, <1>4 DEF Numbered, KeptSomewhere
<1>7. Cleaning /\ Copying
  BY <1>2 DEF Cleaning, Copying
<1> QED BY <1>5, <1>6, <1>7 DEF TInv

\* A step of a command that leaves the old root, the backup and the plan alone.
LEMMA RootStays ==
    ASSUME TInv, UNCHANGED <<src, latest, edits, backup, plan>>, stated \subseteq stated',
           cmd' = [pc |-> cmd'.pc, at |-> cmd'.at, digest |-> cmd'.digest], cmd'.at \in Nat,
           cmd'.pc = "cleanup" => cmd.pc = "cleanup" \/ (plan \in R!Tree /\ (plan \in stated' \/ backup = plan)),
           Copying'
    PROVE  TInv'
<1>1. TTyped'
  BY DEF TInv, TTyped
<1>2. Numbered'
  BY DEF TInv, Numbered
<1>3. KeptSomewhere'
  BY DEF TInv, KeptSomewhere, BackedUp, Stated
<1>4. Cleaning'
  BY DEF TInv, Cleaning, Covered
<1> QED BY <1>1, <1>2, <1>3, <1>4 DEF TInv

\* A command that ends leaves nothing to rely on.
LEMMA RootIdles ==
    ASSUME TInv, UNCHANGED <<src, latest, edits, stated, backup, plan>>, cmd' = R!Idle
    PROVE  TInv'
<1>1. cmd'.pc = "idle" /\ cmd'.at = 1 /\ cmd' = [pc |-> cmd'.pc, at |-> cmd'.at, digest |-> cmd'.digest]
  BY DEF R!Idle
<1>2. Copying'
  BY <1>1 DEF Copying
<1> QED BY <1>1, <1>2, RootStays

\* A command that goes on to a step that relies on nothing.
LEMMA RootGoesOn ==
    ASSUME TInv, UNCHANGED <<src, latest, edits, stated, backup, plan>>,
           NEW p \in {"unown", "receipt", "rollback", "rolled"},
           cmd' = [cmd EXCEPT !.pc = p] \/ cmd' = [R!Idle EXCEPT !.pc = p]
    PROVE  TInv'
<1>1. cmd'.pc = p /\ cmd'.at \in Nat /\ cmd' = [pc |-> cmd'.pc, at |-> cmd'.at, digest |-> cmd'.digest]
  BY DEF R!Idle, TInv, TTyped
<1>2. Copying'
  BY <1>1 DEF Copying
<1> QED BY <1>1, <1>2, RootStays

LEMMA ApplyKeeps ==
    ASSUME TInv,
           \/ R!StartApply \/ R!write_ownership_record \/ R!_verify_projection
           \/ R!MoveStage \/ R!UnlinkOwner \/ R!WriteReceipt \/ R!AbortApply
           \/ \E f \in R!Files : R!CopyFile(f)
    PROVE  TInv' /\ R!AppearsWhole
<1>0. src \in R!Tree /\ cmd.at \in Nat /\ cmd = [pc |-> cmd.pc, at |-> cmd.at, digest |-> cmd.digest]
  BY DEF TInv, TTyped
<1> USE DEF R!history, R!files
<1>1. CASE R!StartApply
  <2>1. UNCHANGED <<src, latest, edits, stated, backup, plan, dest>>
    BY <1>1 DEF R!StartApply, R!Say
  <2>2. CASE cmd' = R!Idle
    BY <2>1, <2>2, RootIdles DEF R!AppearsWhole
  <2>3. CASE cmd' # R!Idle
    <3>1. stage' = R!Empty /\ cmd' = [R!Idle EXCEPT !.pc = "owner"] /\ plan = src
      BY <1>1, <2>3 DEF R!StartApply, R!Say, R!_load_root_migration_plan
    <3>2. /\ cmd'.pc = "owner" /\ cmd'.at = 1
          /\ cmd' = [pc |-> cmd'.pc, at |-> cmd'.at, digest |-> cmd'.digest]
      BY <3>1 DEF R!Idle
    <3>3. stage' \in R!Tree
      BY <3>1 DEF R!Empty, R!Tree
    <3>4. Copying'
      BY <1>0, <2>1, <3>1, <3>2, <3>3 DEF Copying
    <3> QED BY <2>1, <3>2, <3>4, RootStays DEF R!AppearsWhole
  <2> QED BY <2>2, <2>3
<1>2. CASE R!write_ownership_record
  <2>1. /\ cmd.pc = "owner" /\ cmd' = [cmd EXCEPT !.pc = "copy"]
        /\ UNCHANGED <<src, latest, edits, stated, backup, plan, dest, stage>>
    BY <1>2 DEF R!write_ownership_record
  <2>2. /\ cmd'.pc = "copy" /\ cmd'.at = cmd.at
        /\ cmd' = [pc |-> cmd'.pc, at |-> cmd'.at, digest |-> cmd'.digest]
    BY <1>0, <2>1
  <2>3. Copying'
    BY <2>1, <2>2 DEF TInv, Copying, R!Files
  <2> QED BY <1>0, <2>1, <2>2, <2>3, RootStays DEF R!AppearsWhole
<1>3. CASE R!_verify_projection
  <2>1. /\ cmd.pc = "project" /\ cmd' = [cmd EXCEPT !.pc = "move", !.digest = stage]
        /\ UNCHANGED <<src, latest, edits, stated, backup, plan, dest, stage>>
    BY <1>3 DEF R!_verify_projection
  <2>2. /\ cmd'.pc = "move" /\ cmd'.at = cmd.at
        /\ cmd' = [pc |-> cmd'.pc, at |-> cmd'.at, digest |-> cmd'.digest]
    BY <1>0, <2>1
  <2>3. Copying'
    BY <2>1, <2>2 DEF TInv, Copying
  <2> QED BY <1>0, <2>1, <2>2, <2>3, RootStays DEF R!AppearsWhole
<1>4. CASE R!MoveStage
  <2>1. /\ cmd.pc = "move" /\ cmd' = [cmd EXCEPT !.pc = "unown"] /\ dest' = stage
        /\ UNCHANGED <<src, latest, edits, stated, backup, plan>>
    BY <1>4 DEF R!MoveStage
  <2>2. dest' = plan
    BY <2>1 DEF TInv, Copying
  <2> QED BY <2>1, <2>2, RootGoesOn DEF R!AppearsWhole
<1>5. CASE R!UnlinkOwner
  <2>1. cmd' = [cmd EXCEPT !.pc = "receipt"] /\ UNCHANGED <<src, latest, edits, stated, backup, plan, dest>>
    BY <1>5 DEF R!UnlinkOwner
  <2> QED BY <2>1, RootGoesOn DEF R!AppearsWhole
<1>6. CASE R!WriteReceipt
  <2>1. cmd' = R!Idle /\ UNCHANGED <<src, latest, edits, stated, backup, plan, dest>>
    BY <1>6 DEF R!WriteReceipt
  <2> QED BY <2>1, RootIdles DEF R!AppearsWhole
<1>7. CASE R!AbortApply
  <2>1. cmd' = R!Idle /\ dest' \in {dest, R!NoTree} /\ UNCHANGED <<src, latest, edits, stated, backup, plan>>
    BY <1>7 DEF R!AbortApply
  <2> QED BY <2>1, RootIdles DEF R!AppearsWhole, R!Exists
<1>8. ASSUME NEW f \in R!Files, R!CopyFile(f) PROVE TInv' /\ R!AppearsWhole
  <2>1. /\ cmd.pc = "copy" /\ cmd.at = f /\ src[f] = plan[f] /\ stage' = [stage EXCEPT ![f] = src[f]]
        /\ cmd' = IF f = Authorised THEN [cmd EXCEPT !.pc = "project"] ELSE [cmd EXCEPT !.at = f + 1]
        /\ UNCHANGED <<src, latest, edits, stated, backup, plan, dest>>
    BY <1>8 DEF R!CopyFile
  <2>2. f \in Nat /\ f + 1 \in Nat
    BY FilesAreCounted DEF R!Files
  <2>3. /\ plan \in R!Tree /\ stage \in R!Tree
        /\ \A g \in R!Files : g < f => stage[g] = plan[g]
    BY <2>1 DEF TInv, Copying
  <2>4. stage' \in R!Tree /\ \A g \in R!Files : g < f + 1 => stage'[g] = plan[g]
    <3>1. \A g \in R!Files : g < f + 1 => g < f \/ g = f
      BY <2>2, FilesAreCounted DEF R!Files
    <3>2. stage' \in R!Tree
      BY <1>0, <2>1, <2>3 DEF R!Tree
    <3> QED BY <2>1, <2>3, <3>1, <3>2 DEF R!Tree
  <2>5. CASE f = Authorised
    <3>1. cmd'.pc = "project" /\ cmd'.at = cmd.at /\ cmd' = [pc |-> cmd'.pc, at |-> cmd'.at, digest |-> cmd'.digest]
      BY <1>0, <2>1, <2>5
    <3>2. \A g \in R!Files : g < f + 1
      BY <2>5, FilesAreCounted DEF R!Files
    <3>3. stage' = plan
      BY <2>3, <2>4, <3>2 DEF R!Tree
    <3>4. Copying'
      BY <2>1, <2>3, <3>1, <3>3 DEF Copying
    <3> QED BY <1>0, <2>1, <3>1, <3>4, RootStays DEF R!AppearsWhole
  <2>6. CASE f # Authorised
    <3>1. cmd'.pc = "copy" /\ cmd'.at = f + 1 /\ cmd' = [pc |-> cmd'.pc, at |-> cmd'.at, digest |-> cmd'.digest]
      BY <1>0, <2>1, <2>6
    <3>2. Copying'
      BY <2>1, <2>3, <2>4, <3>1 DEF Copying
    <3> QED BY <2>1, <2>2, <3>1, <3>2, RootStays DEF R!AppearsWhole
  <2> QED BY <2>5, <2>6
<1> QED BY <1>1, <1>2, <1>3, <1>4, <1>5, <1>6, <1>7, <1>8

\* Rollback and the recovery of staging do not touch the old root.
LEMMA RollbackKeeps ==
    ASSUME TInv,
           \/ R!recover_root_migration_staging \/ R!CheckRollback \/ R!RemoveDestination
           \/ R!rollback_root_migration
    PROVE  TInv' /\ R!AppearsWhole
<1> USE DEF R!history, R!files
<1>1. CASE R!recover_root_migration_staging
  <2>1. UNCHANGED <<src, latest, edits, stated, backup, plan, dest, cmd, stage>>
    BY <1>1 DEF R!recover_root_migration_staging
  <2> QED BY <2>1, RootStays DEF R!AppearsWhole, TInv, TTyped, Copying
<1>2. CASE R!CheckRollback
  <2>1. /\ UNCHANGED <<src, latest, edits, stated, backup, plan, dest>>
        /\ cmd' = R!Idle \/ cmd' = [R!Idle EXCEPT !.pc = "rollback"]
    BY <1>2 DEF R!CheckRollback, R!Say
  <2> QED BY <2>1, RootIdles, RootGoesOn DEF R!AppearsWhole
<1>3. CASE R!RemoveDestination
  <2>1. /\ UNCHANGED <<src, latest, edits, stated, backup, plan>> /\ dest' = R!NoTree
        /\ cmd' = [cmd EXCEPT !.pc = "rolled"]
    BY <1>3 DEF R!RemoveDestination
  <2> QED BY <2>1, RootGoesOn DEF R!AppearsWhole, R!Exists
<1>4. CASE R!rollback_root_migration
  <2>1. UNCHANGED <<src, latest, edits, stated, backup, plan, dest>> /\ cmd' = R!Idle
    BY <1>4 DEF R!rollback_root_migration
  <2> QED BY <2>1, RootIdles DEF R!AppearsWhole
<1> QED BY <1>1, <1>2, <1>3, <1>4

LEMMA CleanupKeeps ==
    ASSUME TInv,
           \/ R!build_root_migration_plan \/ R!StopCleanup
           \/ \E json \in BOOLEAN : R!StartCleanup(json) \/ R!CleanupCommand(json)
           \/ \E f \in R!Files : R!RemoveLegacy(f)
    PROVE  TInv' /\ R!AppearsWhole
<1>0. /\ src \in R!Tree /\ cmd.at \in Nat /\ cmd = [pc |-> cmd.pc, at |-> cmd.at, digest |-> cmd.digest]
      /\ plan \in R!Tree \cup {R!NoTree}
  BY DEF TInv, TTyped
<1> USE DEF R!history, R!files
<1>1. CASE R!build_root_migration_plan
  <2>1. cmd.pc = "idle" /\ plan' = src /\ UNCHANGED <<src, latest, edits, stated, backup, dest, cmd, stage>>
    BY <1>1 DEF R!build_root_migration_plan
  <2>2. TTyped' /\ KeptSomewhere'
    BY <2>1 DEF TInv, TTyped, KeptSomewhere, BackedUp, Stated
  <2>3. Numbered'
    BY <2>1 DEF TInv, Numbered
  <2>4. Cleaning' /\ Copying'
    BY <2>1 DEF Cleaning, Copying
  <2> QED BY <2>1, <2>2, <2>3, <2>4 DEF TInv, R!AppearsWhole
<1>2. ASSUME NEW json \in BOOLEAN, R!StartCleanup(json) \/ R!CleanupCommand(json)
      PROVE  TInv' /\ R!AppearsWhole
  <2>1. /\ R!Exists(plan) /\ UNCHANGED <<src, latest, edits, backup, plan, dest>>
        /\ \/ cmd' = R!Idle /\ UNCHANGED stated
           \/ /\ cmd' = [R!Idle EXCEPT !.pc = "cleanup"] /\ stated \subseteq stated'
              /\ plan \in stated' \/ backup = plan
    BY <1>2 DEF R!StartCleanup, R!CleanupCommand, R!Cleanup, R!Say, R!CleanupAllowed, R!_verify_legacy_backup
  <2>2. CASE cmd' = R!Idle /\ UNCHANGED stated
    BY <2>1, <2>2, RootIdles DEF R!AppearsWhole
  <2>3. CASE /\ cmd' = [R!Idle EXCEPT !.pc = "cleanup"] /\ stated \subseteq stated'
             /\ plan \in stated' \/ backup = plan
    <3>1. plan \in R!Tree
      BY <1>0, <2>1 DEF R!Exists
    <3>2. cmd'.pc = "cleanup" /\ cmd'.at = 1 /\ cmd' = [pc |-> cmd'.pc, at |-> cmd'.at, digest |-> cmd'.digest]
      BY <2>3 DEF R!Idle
    <3>3. Copying'
      BY <3>2 DEF Copying
    <3> QED BY <2>1, <2>3, <3>1, <3>2, <3>3, RootStays DEF R!AppearsWhole
  <2> QED BY <2>1, <2>2, <2>3
<1>3. CASE R!StopCleanup
  <2>1. UNCHANGED <<src, latest, edits, stated, backup, plan, dest>> /\ cmd' = R!Idle
    BY <1>3 DEF R!StopCleanup, R!Say
  <2> QED BY <2>1, RootIdles DEF R!AppearsWhole
<1>4. ASSUME NEW f \in R!Files, R!RemoveLegacy(f) PROVE TInv' /\ R!AppearsWhole
  <2>1. /\ cmd.pc = "cleanup" /\ src[f] = plan[f] /\ src' = [src EXCEPT ![f] = 0]
        /\ cmd' = R!Idle \/ cmd' = [cmd EXCEPT !.at = f + 1]
        /\ UNCHANGED <<latest, edits, stated, backup, plan, dest, stage>>
    BY <1>4 DEF R!RemoveLegacy
  <2>2. f + 1 \in Nat
    BY FilesAreCounted DEF R!Files
  <2>3. /\ cmd' = [pc |-> cmd'.pc, at |-> cmd'.at, digest |-> cmd'.digest] /\ cmd'.at \in Nat
        /\ cmd'.pc \in {"idle", "cleanup"}
    BY <1>0, <2>1, <2>2 DEF R!Idle
  <2>4. src' \in R!Tree /\ src'[f] = 0 /\ \A g \in R!Files \ {f} : src'[g] = src[g]
    BY <1>0, <2>1 DEF R!Tree
  <2>5. plan \in R!Tree /\ (plan \in stated \/ Covered)
    BY <2>1 DEF TInv, Cleaning
  <2>6. TTyped'
    BY <2>1, <2>3, <2>4 DEF TInv, TTyped
  <2>7. Numbered'
    BY <2>1, <2>4 DEF TInv, TTyped, Numbered
  <2>8. KeptSomewhere'
    <3>1. \A g \in R!Files \ {f} : BackedUp(g)' <=> BackedUp(g)
      BY <2>1 DEF BackedUp
    <3>2. \A g \in R!Files \ {f} : Stated(g)' <=> Stated(g)
      BY <2>1 DEF Stated
    <3>3. src[f] # 0 => BackedUp(f)' \/ Stated(f)'
      <4>1. src[f] # 0 => latest'[f] = plan[f]
        BY <2>1 DEF TInv, KeptSomewhere
      <4> QED BY <2>1, <2>5, <4>1 DEF Covered, BackedUp, Stated
    <3>4. src[f] = 0 => BackedUp(f)' \/ Stated(f)'
      BY <2>1 DEF TInv, KeptSomewhere, BackedUp, Stated
    <3> QED BY <2>1, <2>4, <3>1, <3>2, <3>3, <3>4 DEF TInv, KeptSomewhere
  <2>9. Cleaning'
    <3>1. \A g \in R!Files : src'[g] = plan[g] => src[g] = plan[g]
      BY <2>1, <2>4
    <3> QED BY <2>1, <2>5, <3>1 DEF Cleaning, Covered
  <2>10. Copying'
    BY <2>3 DEF Copying
  <2> QED BY <2>1, <2>6, <2>7, <2>8, <2>9, <2>10 DEF TInv, R!AppearsWhole
<1> QED BY <1>1, <1>2, <1>3, <1>4

\* The user's edits, the backup and deaths.
LEMMA UserKeeps ==
    ASSUME TInv,
           \/ \E f \in R!Files : R!EditSource(f) \/ R!EditDestination(f)
           \/ R!TakeBackup \/ R!Die
    PROVE  TInv' /\ R!AppearsWhole
<1>0. /\ src \in R!Tree /\ latest \in R!Tree /\ edits \in Nat
  BY DEF TInv, TTyped
<1> USE DEF R!history, R!files
<1>1. ASSUME NEW f \in R!Files, R!EditSource(f) PROVE TInv' /\ R!AppearsWhole
  <2>1. /\ src[f] # 0 /\ src' = [src EXCEPT ![f] = edits + 2] /\ latest' = [latest EXCEPT ![f] = edits + 2]
        /\ edits' = edits + 1 /\ UNCHANGED <<stated, backup, plan, dest, stage, cmd>>
    BY <1>1 DEF R!EditSource
  <2>2. /\ src' \in R!Tree /\ src'[f] = edits + 2 /\ \A g \in R!Files \ {f} : src'[g] = src[g]
        /\ latest' \in R!Tree /\ latest'[f] = edits + 2 /\ \A g \in R!Files \ {f} : latest'[g] = latest[g]
        /\ edits + 2 # 0 /\ edits + 1 \in Nat
    BY <1>0, <2>1 DEF R!Tree
  <2>3. TTyped'
    BY <2>1, <2>2 DEF TInv, TTyped
  <2>7. KeptSomewhere'
    <3>1. \A g \in R!Files \ {f} : (BackedUp(g)' <=> BackedUp(g)) /\ (Stated(g)' <=> Stated(g))
      BY <2>1, <2>2 DEF BackedUp, Stated
    <3> QED BY <2>1, <2>2, <3>1 DEF TInv, KeptSomewhere
  <2>4. Numbered'
    <3>1. \A g \in R!Files : src[g] \in Nat /\ (plan \in R!Tree => plan[g] \in Nat)
      BY <1>0 DEF R!Tree
    <3> QED BY <1>0, <2>1, <2>2, <3>1 DEF TInv, Numbered
  <2>5. Cleaning'
    <3>1. plan \in R!Tree => plan[f] # edits + 2
      BY <1>0 DEF TInv, Numbered, R!Tree
    <3> QED BY <2>1, <2>2, <3>1 DEF TInv, Cleaning, Covered
  <2>6. Copying'
    BY <2>1 DEF TInv, Copying
  <2> QED BY <2>1, <2>3, <2>4, <2>5, <2>6, <2>7 DEF TInv, R!AppearsWhole
<1>2. ASSUME NEW f \in R!Files, R!EditDestination(f) PROVE TInv' /\ R!AppearsWhole
  <2>1. R!Exists(dest) /\ edits' = edits + 1 /\ UNCHANGED <<src, latest, stated, backup, plan, stage, cmd>>
    BY <1>2 DEF R!EditDestination
  <2>2. TTyped' /\ KeptSomewhere' /\ Cleaning' /\ Copying'
    BY <1>0, <2>1 DEF TInv, TTyped, KeptSomewhere, BackedUp, Stated, Cleaning, Covered, Copying
  <2>3. Numbered'
    <3>1. \A g \in R!Files : src[g] \in Nat /\ (plan \in R!Tree => plan[g] \in Nat)
      BY <1>0 DEF R!Tree
    <3> QED BY <1>0, <2>1, <3>1 DEF TInv, Numbered
  <2> QED BY <2>1, <2>2, <2>3 DEF TInv, R!AppearsWhole
<1>3. CASE R!TakeBackup
  <2>1. /\ \A f \in R!Files : src[f] # 0
        /\ backup' = src /\ UNCHANGED <<src, latest, edits, plan, dest, stage, cmd>>
    BY <1>3 DEF R!TakeBackup
  <2>2. TTyped' /\ KeptSomewhere' /\ Numbered' /\ Copying'
    BY <2>1 DEF TInv, TTyped, KeptSomewhere, Stated, Numbered, Copying
  <2>3. Cleaning'
    BY <1>0, <2>1 DEF TInv, Cleaning, Covered
  <2> QED BY <2>1, <2>2, <2>3 DEF TInv, R!AppearsWhole
<1>4. CASE R!Die
  <2>1. UNCHANGED <<src, latest, edits, stated, backup, plan, dest>> /\ cmd' = R!Idle
    BY <1>4 DEF R!Die
  <2> QED BY <2>1, RootIdles DEF R!AppearsWhole
<1> QED BY <1>1, <1>2, <1>3, <1>4

LEMMA TStep == TInv /\ [R!Next]_(R!vars) => TInv' /\ R!AppearsWhole
<1> SUFFICES ASSUME TInv, [R!Next]_(R!vars)
             PROVE  TInv' /\ R!AppearsWhole
  OBVIOUS
<1>1. CASE UNCHANGED R!vars
  <2>1. UNCHANGED <<src, latest, edits, stated, backup, plan, dest, stage, cmd>>
    BY <1>1 DEF R!vars
  <2> QED BY <2>1, RootStays DEF R!AppearsWhole, TInv, TTyped, Copying
<1> QED BY <1>1, ApplyKeeps, RollbackKeeps, CleanupKeeps, UserKeeps DEF R!Next, R!Commands

LEMMA TKept == TInv => R!NothingIsLost
<1> SUFFICES ASSUME TInv, NEW f \in R!Files
             PROVE  \/ \E t \in {src, dest, backup} : R!Exists(t) /\ t[f] = latest[f]
                    \/ \E t \in stated : t[f] = latest[f]
  BY DEF R!NothingIsLost
<1> QED BY TreesExist DEF TInv, TTyped, KeptSomewhere, BackedUp, Stated

-----------------------------------------------------------------------------
(* The activation (canary.py, certification.py, operation_activation.py).      *)

Times == 0..ActivationTime
Moments == Times \cup {A!Never}
Notes == [send : Outcomes \cup {"none", "UNVERIFIED"}, display : {"UNVERIFIED", "VERIFIED"}, os : A!Versions]
Statuses == {"none", "HOOK_VERIFIED", "BROKEN", "DISABLED", "HOOK_UNVERIFIED", "INSTRUCTION_FALLBACK"}
Observations == [real : BOOLEAN, ages : SUBSET (0..Ttl)]
Runs == [pc : {"idle", "save", "hook", "issue", "collect", "send", "write", "ask"},
         for : {"status", "another host", "certification", "verification"},
         prev : Statuses, status : Statuses, readable : BOOLEAN, observed : Observations,
         row : Notes, allow : BOOLEAN, confirmed : BOOLEAN, sent : BOOLEAN]
ATyped ==
    /\ now \in Times /\ receipts \in [Required -> Moments] /\ oldest \in Moments
    /\ snapshot \in Statuses /\ run \in [Procs -> Runs]
    /\ os \in A!Versions /\ changes \in A!Versions /\ os <= changes
    /\ doc \in Notes
    /\ sends \in [A!Versions -> Nat] /\ unsaved \in [A!Versions -> Nat]

\* A verified hook has a receipt of every required event, and the oldest receipt is no
\* younger than any of them: when one of them is too old, so is the oldest.
Left == \A e \in Required : receipts[e] # A!Never
Aloud == {"HOOK_VERIFIED", "BROKEN", "INSTRUCTION_FALLBACK"}
Reads(r) ==
    r.pc = "save" => /\ r.status = "HOOK_VERIFIED" => Left
                     /\ A!Knowing(r) => r.status \in Aloud
Receipted ==
    /\ oldest # A!Never => oldest <= now
    /\ \A e \in Required : receipts[e] # A!Never =>
          receipts[e] <= now /\ oldest # A!Never /\ oldest <= receipts[e]
    /\ snapshot = "HOOK_VERIFIED" => Left
    /\ \A p \in Procs : Reads(run[p])
    /\ A!CertificateIsBacked

\* A notification that came out and that no lost verification accounts for; the one a row
\* names; what a row says was seen was seen on the system it names.
Owed(v) == sends[v] > unsaved[v]
Recorded(n, v) == n.send = "SENT" /\ n.os = v
Told(n) == n.display = "VERIFIED" => n.send = "SENT" /\ n.os \in seen
\* While no verifications have overlapped on the system, what is owed is in the document or
\* about to be written to it, and whoever verifies knows of it.
Alone == os \notin overlapped
Verifies(r) ==
    /\ Told(r.row)
    /\ r.pc = "write" /\ r.row.send = "SENT" => r.row.os = os
    /\ r.pc = "send" => r.row.send # "SENT"
    /\ r.confirmed => os \in seen
    /\ A!Verifying(r) /\ Alone /\ Owed(os) => Recorded(r.row, os)
Sending ==
    /\ \A v \in A!Versions \ overlapped : sends[v] <= unsaved[v] + 1
    /\ \A v \in A!Versions : v > os => sends[v] = 0
    /\ Alone => \A p, q \in Procs : A!Verifying(run[p]) /\ A!Verifying(run[q]) => p = q
    /\ Alone /\ Owed(os) => Recorded(doc, os) \/ \E p \in Procs : A!Unsaved(run[p])
    /\ Told(doc)
    /\ \A p \in Procs : Verifies(run[p])
AInv == ATyped /\ Receipted /\ Sending

LEMMA TimesAreNumbers ==
    /\ Ttl \in Nat /\ ActivationTime \in Nat /\ MaxChanges \in Nat
    /\ A!Never \in Nat /\ A!Never > ActivationTime /\ A!Versions \subseteq Nat
    /\ Times \subseteq Nat /\ Moments \subseteq Nat /\ A!Never \notin Times
  BY TimesAreCounted DEF A!Never, A!Versions, Times, Moments

LEMMA IdleIsTyped ==
    /\ A!Idle \in Runs /\ A!Idle.pc = "idle" /\ A!Idle.for = "status" /\ A!Idle.prev = "none"
    /\ A!Idle.sent = FALSE /\ A!Idle.confirmed = FALSE /\ A!Idle.row = A!NoDoc
    /\ A!NoDoc \in Notes /\ A!NoDoc.send = "none" /\ A!NoDoc.display = "UNVERIFIED"
    /\ A!Unobserved \in Observations
<1>1. A!NoDoc \in Notes
  BY TimesAreCounted DEF Notes, A!NoDoc, A!Versions
<1>2. A!Unobserved \in Observations
  BY DEF Observations, A!Unobserved
<1>3. A!Idle \in Runs
  BY <1>1, <1>2 DEF Runs, A!Idle, Statuses
<1>4. /\ A!Idle.pc = "idle" /\ A!Idle.for = "status" /\ A!Idle.prev = "none"
      /\ A!Idle.sent = FALSE /\ A!Idle.confirmed = FALSE /\ A!Idle.row = A!NoDoc
  BY DEF A!Idle
<1>5. A!NoDoc.send = "none" /\ A!NoDoc.display = "UNVERIFIED"
  BY DEF A!NoDoc
<1> QED BY <1>1, <1>2, <1>3, <1>4, <1>5

\* A process that is idle, or about to start, has nothing to answer for.
LEMMA IdleFits == Reads(A!Idle) /\ Verifies(A!Idle) /\ ~A!Verifying(A!Idle) /\ ~A!Unsaved(A!Idle)
  BY IdleIsTyped DEF Reads, Verifies, Told, A!Verifying, A!Unsaved

LEMMA AInit == A!Init => AInv
<1> SUFFICES ASSUME A!Init
             PROVE  AInv
  OBVIOUS
<1>1. \A p \in Procs : run[p] = A!Idle
  BY DEF A!Init
<1>2. ATyped
  BY IdleIsTyped, TimesAreNumbers DEF A!Init, ATyped, A!Versions, Times, Moments, Statuses
<1>3. Receipted
  BY <1>1, IdleFits DEF A!Init, Receipted, A!CertificateIsBacked, A!_missing_receipt
<1>4. Sending
  <2>1. \A v \in A!Versions : sends[v] = 0 /\ unsaved[v] = 0
    BY DEF A!Init
  <2>2. os \in A!Versions /\ doc.display = "UNVERIFIED"
    BY IdleIsTyped, TimesAreCounted DEF A!Init, A!Versions
  <2> QED BY <1>1, <2>1, <2>2, IdleFits DEF Sending, Owed, Told
<1> QED BY <1>2, <1>3, <1>4 DEF AInv

\* A process takes a step.
LEMMA Goes ==
    ASSUME ATyped, NEW p \in Procs, NEW r \in Runs, A!Goes(p, r)
    PROVE  run' \in [Procs -> Runs] /\ run'[p] = r /\ \A q \in Procs \ {p} : run'[q] = run[q]
  BY DEF A!Goes, ATyped

-----------------------------------------------------------------------------
(* Receipts, the hook's status and the certificate.                            *)

LEMMA ReadsOn ==
    ASSUME NEW r, Reads(r), Left => Left'
    PROVE  Reads(r)'
  BY DEF Reads, A!Knowing

\* What the status is read as.
LEMMA StatusIsRead ==
    ASSUME ATyped, Receipted, NEW prev \in A!_previous_status, NEW readable \in BOOLEAN,
           NEW s, s = A!WithFallback(A!HookStatus(prev, readable))
    PROVE  /\ s \in Statuses
           /\ s = "HOOK_VERIFIED" => Left
           /\ prev = "HOOK_VERIFIED" /\ readable => s \in Aloud
<1>1. PICK h : h = A!HookStatus(prev, readable)
  OBVIOUS
<1>2. h \in Statuses /\ h # "INSTRUCTION_FALLBACK"
  BY <1>1 DEF A!HookStatus, Statuses, A!static_canary
<1>3. s = h \/ s = "INSTRUCTION_FALLBACK"
  BY <1>1 DEF A!WithFallback
<1>4. ASSUME h = "HOOK_VERIFIED"
      PROVE  Left
  <2>1. Required \subseteq A!_read_receipts(readable)
    BY <1>1, <1>4 DEF A!HookStatus, A!static_canary
  <2> QED BY <2>1 DEF A!_read_receipts, A!Fresh, Left
<1>5. ASSUME prev = "HOOK_VERIFIED", readable
      PROVE  h \in {"HOOK_VERIFIED", "BROKEN"}
  <2>1. CASE Required \subseteq A!_read_receipts(readable)
    BY <1>1, <1>5, <2>1 DEF A!HookStatus
  <2>2. CASE ~(Required \subseteq A!_read_receipts(readable))
    <3>1. PICK e \in Required : ~A!Fresh(receipts[e])
      BY <1>5, <2>2 DEF A!_read_receipts
    <3>2. receipts[e] # A!Never /\ receipts[e] <= now /\ oldest # A!Never /\ oldest <= receipts[e]
      BY <1>5 DEF Receipted, Left, A!_previous_status
    <3>3. receipts[e] \in Nat /\ oldest \in Nat /\ now \in Nat
      BY TimesAreNumbers DEF ATyped
    <3>4. now - receipts[e] > Ttl
      BY <3>1, <3>2, <3>3, TimesAreNumbers DEF A!Fresh
    <3>5. A!Expired(readable)
      BY <1>5, <3>2, <3>3, <3>4, TimesAreNumbers DEF A!Expired
    <3> QED BY <1>1, <1>5, <2>2, <3>5 DEF A!HookStatus
  <2> QED BY <2>1, <2>2
<1> QED BY <1>2, <1>3, <1>4, <1>5 DEF Statuses, Aloud

LEMMA EventsAreObserved ==
    ASSUME ATyped, Receipted, NEW readable \in BOOLEAN
    PROVE  A!_read_real_events(readable) \in Observations
<1>1. CASE ~(Required \subseteq A!_read_receipts(readable))
  BY <1>1, IdleIsTyped DEF A!_read_real_events
<1>2. CASE Required \subseteq A!_read_receipts(readable)
  <2>1. \A e \in Required : now - receipts[e] \in 0..Ttl
    <3> SUFFICES ASSUME NEW e \in Required
                 PROVE  now - receipts[e] \in 0..Ttl
      OBVIOUS
    <3>1. A!Fresh(receipts[e])
      BY <1>2 DEF A!_read_receipts
    <3>2. receipts[e] \in Nat /\ now \in Nat
      BY TimesAreNumbers DEF ATyped
    <3>3. receipts[e] <= now
      BY <3>1 DEF Receipted, A!Fresh
    <3> QED BY <3>1, <3>2, <3>3, TimesAreNumbers DEF A!Fresh
  <2>2. {now - receipts[e] : e \in Required} \in SUBSET (0..Ttl)
    BY <2>1
  <2> QED BY <1>2, <2>2 DEF A!_read_real_events, Observations
<1> QED BY <1>1, <1>2

\* A step of one process that leaves the receipts and the clock.
LEMMA ReceiptedOn ==
    ASSUME ATyped, Receipted, UNCHANGED <<now, receipts, oldest>>,
           NEW p \in Procs, NEW r \in Runs, A!Goes(p, r), Reads(r),
           snapshot' = "HOOK_VERIFIED" => Left, A!CertificateIsBacked'
    PROVE  Receipted'
<1>1. run'[p] = r /\ \A q \in Procs \ {p} : run'[q] = run[q]
  BY Goes
<1>2. Left' <=> Left
  BY DEF Left
<1>3. Reads(r)'
  BY <1>2, ReadsOn
<1>4. ASSUME NEW q \in Procs
      PROVE  Reads(run[q])'
  <2>1. PICK s : s = run'[q]
    OBVIOUS
  <2>2. Reads(s)
    BY <1>1, <2>1 DEF Receipted
  <2>3. Reads(s)'
    BY <1>2, <2>2, ReadsOn
  <2> QED BY <2>1, <2>3 DEF Reads, A!Knowing, Left
<1> QED BY <1>2, <1>4 DEF Receipted

\* A step of the environment that may leave a receipt, or time may pass.
LEMMA WorldGoesOn ==
    ASSUME ATyped, Receipted, now' \in Times, now' >= now, UNCHANGED <<snapshot, certificate, run>>,
           \/ UNCHANGED <<receipts, oldest>>
           \/ \E e \in Required : /\ receipts' = receipts \/ receipts' = [receipts EXCEPT ![e] = now]
                                  /\ oldest' = IF oldest = A!Never THEN now ELSE oldest
    PROVE  Receipted' /\ receipts' \in [Required -> Moments] /\ oldest' \in Moments
<1>0. now \in Nat /\ now' \in Nat /\ now \in Times /\ now # A!Never /\ oldest \in Nat
  BY TimesAreNumbers DEF ATyped
<1>1. receipts' \in [Required -> Moments] /\ oldest' \in Moments
  BY <1>0 DEF ATyped, Moments
<1>2. \A e \in Required : receipts'[e] = receipts[e] \/ receipts'[e] = now
  BY DEF ATyped
<1>3. oldest' = oldest \/ (oldest = A!Never /\ oldest' = now)
  OBVIOUS
<1>4. oldest' # A!Never => oldest' <= now'
  BY <1>0, <1>3 DEF Receipted
<1>5. (\E e \in Required : receipts'[e] # receipts[e]) => oldest' # A!Never
  BY <1>0
<1>6. ASSUME NEW e \in Required, receipts'[e] # A!Never
      PROVE  receipts'[e] <= now' /\ oldest' # A!Never /\ oldest' <= receipts'[e]
  <2>1. receipts[e] \in Nat /\ receipts'[e] \in Nat /\ oldest' \in Nat
    BY <1>1, TimesAreNumbers DEF ATyped
  <2>2. CASE receipts'[e] = receipts[e]
    BY <1>0, <1>3, <1>6, <2>1, <2>2 DEF Receipted
  <2>3. CASE receipts'[e] # receipts[e]
    <3>1. receipts'[e] = now /\ oldest' # A!Never
      BY <1>2, <1>5, <2>3
    <3> QED BY <1>0, <1>3, <2>1, <3>1 DEF Receipted
  <2> QED BY <2>2, <2>3
<1>7. Left => Left'
  BY <1>0, <1>2 DEF Left
<1>8. ASSUME NEW q \in Procs
      PROVE  Reads(run[q])'
  <2>1. PICK s : s = run[q]
    OBVIOUS
  <2>2. Reads(s)'
    BY <1>7, <2>1, ReadsOn DEF Receipted
  <2> QED BY <2>1, <2>2 DEF Reads, A!Knowing, Left
<1>9. A!CertificateIsBacked'
  BY DEF Receipted, A!CertificateIsBacked
<1> QED BY <1>1, <1>4, <1>6, <1>7, <1>8, <1>9 DEF Receipted

-----------------------------------------------------------------------------
(* The notification.                                                           *)

\* What a process verifies with still holds as long as nothing is sent, nothing comes into
\* doubt and what was seen was seen.
LEMMA VerifiesOn ==
    ASSUME NEW r, Verifies(r), os' = os, seen \subseteq seen', A!Verifying(r) /\ Alone' => Alone,
           A!Verifying(r) /\ Alone' /\ Owed(os)' => Owed(os)
    PROVE  Verifies(r)'
  BY DEF Verifies, Told, Recorded, A!Verifying

\* A step of one process that does not verify.
LEMMA SendingOn ==
    ASSUME ATyped, Sending, UNCHANGED <<os, doc, sends, unsaved, overlapped, seen>>,
           NEW p \in Procs, NEW r \in Runs, A!Goes(p, r), Verifies(r), ~A!Verifying(r),
           ~A!Verifying(run[p])
    PROVE  Sending'
<1>1. run'[p] = r /\ \A q \in Procs \ {p} : run'[q] = run[q]
  BY Goes
<1>2. ASSUME NEW q \in Procs
      PROVE  Verifies(run[q])'
  <2>1. PICK s : s = run'[q]
    OBVIOUS
  <2>2. Verifies(s)
    BY <1>1, <2>1 DEF Sending
  <2>3. Verifies(s)'
    BY <2>2, VerifiesOn DEF Alone, Owed
  <2> QED BY <2>1, <2>3 DEF Verifies, Told, Alone, Owed, Recorded, A!Verifying
<1>3. \A q \in Procs : A!Verifying(run'[q]) => q # p /\ A!Verifying(run[q])
  BY <1>1
<1>4. ~A!Unsaved(run[p])
  BY DEF A!Unsaved, A!Verifying
<1>5. \A q \in Procs : A!Unsaved(run[q]) => A!Unsaved(run'[q])
  BY <1>1, <1>4
<1>6. /\ \A v \in A!Versions \ overlapped' : sends'[v] <= unsaved'[v] + 1
      /\ \A v \in A!Versions : v > os' => sends'[v] = 0
  BY DEF Sending
<1>7. Alone' => \A q1, q2 \in Procs : A!Verifying(run'[q1]) /\ A!Verifying(run'[q2]) => q1 = q2
  BY <1>3 DEF Sending, Alone
<1>8. Alone' /\ Owed(os)' => Recorded(doc, os)' \/ \E q \in Procs : A!Unsaved(run'[q])
  BY <1>5 DEF Sending, Alone, Owed, Recorded
<1>9. Told(doc)'
  BY DEF Sending, Told
<1> QED BY <1>2, <1>6, <1>7, <1>8, <1>9 DEF Sending, A!Verifying, A!Unsaved

\* A verification starts, with what the document says.
LEMMA StartKeeps ==
    ASSUME ATyped, Sending, NEW p \in Procs, NEW allow \in BOOLEAN, NEW confirmed \in BOOLEAN,
           A!Start(p, allow, confirmed), run[p].pc \in {"idle", "ask"},
           seen' = IF confirmed THEN seen \cup {os} ELSE seen
    PROVE  Sending' /\ run' \in [Procs -> Runs]
           /\ \E r \in Runs : A!Goes(p, r) /\ r.pc = "collect"
<1> USE DEF A!world
<1>1. PICK r : r = [A!Idle EXCEPT !.pc = "collect", !.for = "verification", !.row = doc,
                                   !.allow = allow, !.confirmed = confirmed]
  OBVIOUS
<1>2. /\ r \in Runs /\ r.pc = "collect" /\ r.row = doc /\ r.for = "verification" /\ r.sent = FALSE
     /\ r.confirmed = confirmed
  BY <1>1, IdleIsTyped DEF Runs, ATyped
<1>3. A!Goes(p, r) /\ UNCHANGED <<os, doc, sends, unsaved>>
  BY <1>1 DEF A!Start
<1>4. run' \in [Procs -> Runs] /\ run'[p] = r /\ \A q \in Procs \ {p} : run'[q] = run[q]
  BY <1>2, <1>3, Goes
<1>5. /\ overlapped' = overlapped \/ overlapped' = overlapped \cup {os}
      /\ Alone' => Alone /\ \A q \in Procs \ {p} : ~A!Verifying(run[q])
  BY <1>3 DEF A!Start, Alone
<1>6. ~A!Verifying(run[p]) /\ ~A!Unsaved(run[p])
  BY DEF A!Verifying, A!Unsaved
<1>7. Alone' => \A q \in Procs : ~A!Unsaved(run[q])
  BY <1>5, <1>6 DEF A!Unsaved, A!Verifying
<1>8. Alone' /\ Owed(os)' => Recorded(doc, os)
  BY <1>3, <1>5, <1>7 DEF Sending, Owed
<1>9. Verifies(r)'
  BY <1>2, <1>3, <1>8 DEF Verifies, Told, Recorded, Sending
<1>10. ASSUME NEW q \in Procs
       PROVE  Verifies(run[q])'
  <2>1. CASE q = p
    BY <1>4, <1>9, <2>1 DEF Verifies, Told, Alone, Owed, Recorded, A!Verifying
  <2>2. CASE q # p
    <3>1. PICK s : s = run[q]
      OBVIOUS
    <3>2. Verifies(s)
      BY <3>1 DEF Sending
    <3>3. Verifies(s)'
      BY <1>3, <1>5, <3>2, VerifiesOn DEF Owed
    <3>4. run'[q] = s
      BY <1>4, <2>2, <3>1
    <3> QED BY <3>3, <3>4 DEF Verifies, Told, Alone, Owed, Recorded, A!Verifying
  <2> QED BY <2>1, <2>2
<1>11. Alone' => \A q1, q2 \in Procs : A!Verifying(run'[q1]) /\ A!Verifying(run'[q2]) => q1 = q2
  BY <1>4, <1>5
<1>12. /\ \A v \in A!Versions \ overlapped' : sends'[v] <= unsaved'[v] + 1
       /\ \A v \in A!Versions : v > os' => sends'[v] = 0
  BY <1>3, <1>5 DEF Sending
<1>13. Alone' /\ Owed(os)' => Recorded(doc, os)'
  BY <1>3, <1>8 DEF Recorded
<1>14. Told(doc)'
  BY <1>3 DEF Sending, Told
<1>15. Sending'
  BY <1>10, <1>11, <1>12, <1>13, <1>14 DEF Sending, A!Verifying, A!Unsaved
<1> QED BY <1>2, <1>3, <1>4, <1>15

\* A step of a process that verifies: when verifications have not overlapped, it is the
\* only one.
LEMMA VerifierKeeps ==
    ASSUME ATyped, Sending, UNCHANGED <<os, overlapped, seen>>,
           NEW p \in Procs, NEW r \in Runs, A!Goes(p, r), A!Verifying(run[p]),
           Told(doc)', Verifies(r)',
           \A v \in A!Versions \ {os} : sends'[v] = sends[v] /\ unsaved'[v] = unsaved[v],
           Alone => sends'[os] <= unsaved'[os] + 1,
           Alone /\ Owed(os)' => Recorded(doc, os)' \/ A!Unsaved(r)
    PROVE  Sending' /\ run' \in [Procs -> Runs]
<1>1. run' \in [Procs -> Runs] /\ run'[p] = r /\ \A q \in Procs \ {p} : run'[q] = run[q]
  BY Goes
<1>2. Alone => \A q \in Procs \ {p} : ~A!Verifying(run[q])
  BY DEF Sending
<1>3. ASSUME NEW q \in Procs
      PROVE  Verifies(run[q])'
  <2>1. CASE q = p
    BY <1>1, <2>1 DEF Verifies, Told, Alone, Owed, Recorded, A!Verifying
  <2>2. CASE q # p
    <3>1. PICK s : s = run[q]
      OBVIOUS
    <3>2. Verifies(s) /\ (Alone => ~A!Verifying(s))
      BY <1>2, <2>2, <3>1 DEF Sending
    <3>3. Verifies(s)'
      BY <3>2, VerifiesOn DEF Alone, A!Verifying
    <3>4. run'[q] = s
      BY <1>1, <2>2, <3>1
    <3> QED BY <3>3, <3>4 DEF Verifies, Told, Alone, Owed, Recorded, A!Verifying
  <2> QED BY <2>1, <2>2
<1>4. Alone' => \A q1, q2 \in Procs : A!Verifying(run'[q1]) /\ A!Verifying(run'[q2]) => q1 = q2
  BY <1>1, <1>2 DEF Alone
<1>5. ASSUME NEW v \in A!Versions \ overlapped'
      PROVE  sends'[v] <= unsaved'[v] + 1
  BY DEF Sending, Alone
<1>6. ASSUME NEW v \in A!Versions, v > os'
      PROVE  sends'[v] = 0
  <2>1. v # os
    BY <1>6, TimesAreNumbers DEF ATyped
  <2> QED BY <1>6, <2>1 DEF Sending
<1>7. Alone' /\ Owed(os)' => Recorded(doc, os)' \/ \E q \in Procs : A!Unsaved(run'[q])
  BY <1>1 DEF Alone
<1>8. Sending'
  BY <1>3, <1>4, <1>5, <1>6, <1>7 DEF Sending, A!Verifying, A!Unsaved
<1> QED BY <1>1, <1>8

\* A row for this system survives the invalidation; no other one claims to be sent.
LEMMA EvidenceIsInvalidated ==
    ASSUME ATyped, NEW n \in Notes, Told(n), NEW m, m = A!invalidate_operation_evidence(n)
    PROVE  /\ m \in Notes /\ Told(m) /\ (m.send = "SENT" => m.os = os)
           /\ Recorded(n, os) => m = n
<1>1. CASE n.send # "none" /\ n.os # os
  <2>1. m = [n EXCEPT !.send = "UNVERIFIED", !.display = "UNVERIFIED"]
    BY <1>1 DEF A!invalidate_operation_evidence
  <2>2. m \in Notes /\ m.send = "UNVERIFIED" /\ m.display = "UNVERIFIED"
    BY <2>1 DEF Notes
  <2> QED BY <1>1, <2>2 DEF Told, Recorded
<1>2. CASE ~(n.send # "none" /\ n.os # os)
  <2>1. m = n
    BY <1>2 DEF A!invalidate_operation_evidence
  <2> QED BY <1>2, <2>1 DEF Recorded
<1> QED BY <1>1, <1>2

\* A verification looks at the notification.
LEMMA CollectKeeps ==
    ASSUME ATyped, Sending, NEW p \in Procs, A!verify_operation(p)
    PROVE  Sending' /\ \E r \in Runs : A!Goes(p, r) /\ r.pc \in {"send", "write"}
<1> USE DEF A!world, A!history
<1>0. run[p] \in Runs /\ Verifies(run[p]) /\ run[p].pc = "collect" /\ A!Verifying(run[p])
  BY DEF ATyped, Sending, A!verify_operation, A!Verifying
<1>1. PICK o \in Notes, allow \in BOOLEAN, c \in BOOLEAN :
          o = run[p].row /\ allow = run[p].allow /\ c = run[p].confirmed
  BY <1>0 DEF Runs
<1>2. PICK n : n = A!invalidate_operation_evidence(o)
  OBVIOUS
<1>3. Told(o) /\ (Alone /\ Owed(os) => Recorded(o, os))
  BY <1>0, <1>1 DEF Verifies
<1>4. n \in Notes /\ Told(n) /\ (n.send = "SENT" => n.os = os) /\ (Recorded(o, os) => n = o)
  BY <1>2, <1>3, EvidenceIsInvalidated
<1>5. PICK shown : shown = (c /\ n.send = "SENT")
  OBVIOUS
<1>6. PICK m : m = IF shown THEN [n EXCEPT !.display = "VERIFIED"] ELSE n
  OBVIOUS
<1>7. PICK pc : pc = IF A!MaySend(n, allow) /\ ~shown THEN "send" ELSE "write"
  OBVIOUS
<1>8. PICK r : r = [A!Idle EXCEPT !.pc = pc, !.for = "verification", !.row = m]
  OBVIOUS
<1>9. A!Goes(p, r) /\ UNCHANGED <<os, doc, sends, unsaved, overlapped, seen>>
  BY <1>1, <1>2, <1>5, <1>6, <1>7, <1>8 DEF A!verify_operation
<1>10. m \in Notes /\ m.send = n.send /\ m.os = n.os /\ (m.display = "VERIFIED" => shown \/ n.display = "VERIFIED")
  BY <1>4, <1>6 DEF Notes
<1>11. pc \in {"send", "write"} /\ (pc = "send" => m.send # "SENT")
  BY <1>7, <1>10 DEF A!MaySend
<1>12. r \in Runs /\ r.pc = pc /\ r.row = m /\ r.sent = FALSE /\ r.confirmed = FALSE
  BY <1>8, <1>10, <1>11, IdleIsTyped DEF Runs
<1>13. A!Verifying(run[p]) /\ ~A!Unsaved(run[p])
  BY <1>0 DEF A!Unsaved
<1>14. Alone /\ Owed(os) => Recorded(doc, os)
  BY <1>13 DEF Sending, A!Unsaved, A!Verifying
<1>15. Told(m)
  <2>1. shown => os \in seen
    BY <1>0, <1>1, <1>5 DEF Verifies
  <2> QED BY <1>4, <1>5, <1>10, <2>1 DEF Told
<1>17. Verifies(r)'
  BY <1>3, <1>4, <1>9, <1>10, <1>11, <1>12, <1>15 DEF Verifies, Told, Recorded, Alone, Owed
<1>18. Told(doc)'
  BY <1>9 DEF Sending, Told
<1>19. Sending'
  BY <1>9, <1>12, <1>13, <1>14, <1>17, <1>18, VerifierKeeps DEF Owed, Recorded, Sending, Alone, ATyped
<1> QED BY <1>9, <1>11, <1>12, <1>19

\* The OS answers.
LEMMA SendKeeps ==
    ASSUME ATyped, Sending, NEW p \in Procs, NEW s \in Outcomes, A!send_native_notification(p, s)
    PROVE  /\ Sending' /\ sends' \in [A!Versions -> Nat]
           /\ \E r \in Runs : A!Goes(p, r) /\ r.pc = "write"
<1> USE DEF A!world
<1>0. run[p] \in Runs /\ Verifies(run[p]) /\ run[p].pc = "send" /\ A!Verifying(run[p]) /\ os \in A!Versions
  BY DEF ATyped, Sending, A!send_native_notification, A!Verifying
<1>1. PICK n : n = [send |-> s, display |-> "UNVERIFIED", os |-> os]
  OBVIOUS
<1>2. PICK r : r = [run[p] EXCEPT !.pc = "write", !.sent = (s = "SENT"), !.row = n]
  OBVIOUS
<1>3. A!Goes(p, r) /\ UNCHANGED <<os, doc, unsaved, overlapped, seen>>
  BY <1>1, <1>2 DEF A!send_native_notification
<1>4. n \in Notes /\ n.send = s /\ n.os = os /\ n.display = "UNVERIFIED"
  BY <1>0, <1>1 DEF Notes
<1>5. r \in Runs /\ r.pc = "write" /\ r.sent = (s = "SENT") /\ r.row = n /\ r.confirmed = run[p].confirmed
  BY <1>0, <1>2, <1>4 DEF Runs
<1>6. sends' = [sends EXCEPT ![os] = IF s = "SENT" THEN sends[os] + 1 ELSE sends[os]]
  BY DEF A!send_native_notification
<1>7. /\ sends' \in [A!Versions -> Nat] /\ \A v \in A!Versions \ {os} : sends'[v] = sends[v]
      /\ sends'[os] = IF s = "SENT" THEN sends[os] + 1 ELSE sends[os]
  BY <1>0, <1>6 DEF ATyped
<1>8. Alone => ~Owed(os)
  BY <1>0 DEF Verifies, Recorded
<1>9. Alone => sends'[os] <= unsaved'[os] + 1
  <2>1. sends[os] \in Nat /\ unsaved[os] \in Nat
    BY <1>0 DEF ATyped
  <2> QED BY <1>3, <1>7, <1>8, <2>1 DEF Owed
<1>10. Alone /\ Owed(os)' => s = "SENT"
  BY <1>3, <1>7, <1>8 DEF Owed
<1>11. Alone /\ Owed(os)' => A!Unsaved(r)
  BY <1>5, <1>10 DEF A!Unsaved
<1>12. Verifies(r)'
  BY <1>0, <1>3, <1>4, <1>5, <1>10 DEF Verifies, Told, Recorded, Alone
<1>13. Told(doc)'
  BY <1>3 DEF Sending, Told
<1>14. Sending'
  BY <1>0, <1>3, <1>5, <1>7, <1>9, <1>11, <1>12, <1>13, VerifierKeeps
<1> QED BY <1>3, <1>5, <1>7, <1>14

LEMMA AsksOrEnds ==
    ASSUME NEW r
    PROVE  /\ A!Ask(r) \in Runs /\ A!Ask(r).pc \in {"idle", "ask"}
           /\ Verifies(A!Ask(r)) /\ Verifies(A!Ask(r))' /\ ~A!Verifying(A!Ask(r)) /\ Reads(A!Ask(r))
<1>1. PICK a : a = [A!Idle EXCEPT !.pc = "ask", !.for = "verification"]
  OBVIOUS
<1>2. a \in Runs /\ a.pc = "ask" /\ a.row = A!NoDoc /\ a.confirmed = FALSE
  BY <1>1, IdleIsTyped DEF Runs
<1>3. PICK b \in {a, A!Idle} : b = A!Ask(r)
  BY <1>1 DEF A!Ask
<1>4. /\ b \in Runs /\ b.pc \in {"idle", "ask"} /\ b.row = A!NoDoc /\ b.confirmed = FALSE
  BY <1>2, <1>3, IdleIsTyped
<1>5. A!NoDoc.display # "VERIFIED"
  BY IdleIsTyped
<1>6. Verifies(b) /\ Verifies(b)' /\ ~A!Verifying(b) /\ Reads(b)
  BY <1>4, <1>5 DEF Verifies, Told, A!Verifying, Reads
<1> QED BY <1>3, <1>4, <1>6

\* The document is written.
LEMMA WriteKeeps ==
    ASSUME ATyped, Sending, NEW p \in Procs, A!_write_operation_document(p)
    PROVE  Sending' /\ doc' \in Notes
<1> USE DEF A!world, A!history
<1>0. run[p] \in Runs /\ Verifies(run[p]) /\ run[p].pc = "write" /\ A!Verifying(run[p])
  BY DEF ATyped, Sending, A!_write_operation_document, A!Verifying
<1>1. PICK r : r = A!Ask(run[p])
  OBVIOUS
<1>2. PICK n \in Notes : n = run[p].row
  BY <1>0 DEF Runs
<1>3. A!Goes(p, r) /\ doc' = n /\ UNCHANGED <<os, sends, unsaved, overlapped, seen>>
  BY <1>1, <1>2 DEF A!_write_operation_document
<1>4. r \in Runs /\ Verifies(r)' /\ ~A!Verifying(r)
  BY <1>1, AsksOrEnds
<1>5. Told(n) /\ (Alone /\ Owed(os) => Recorded(n, os))
  BY <1>0, <1>2 DEF Verifies
<1>6. Told(doc)' /\ (Alone /\ Owed(os)' => Recorded(doc, os)')
  BY <1>3, <1>5 DEF Told, Owed, Recorded
<1>7. Alone => sends'[os] <= unsaved'[os] + 1
  BY <1>3 DEF Sending, Alone, ATyped
<1>8. Sending'
  BY <1>0, <1>3, <1>4, <1>6, <1>7, VerifierKeeps
<1> QED BY <1>3, <1>8

\* A verification is lost, and what it sent with it.
LEMMA LossKeeps ==
    ASSUME ATyped, Sending, NEW p \in Procs, A!Verifying(run[p]), NEW r \in Runs, A!Goes(p, r),
           Verifies(r)', UNCHANGED <<os, doc, sends, overlapped, seen>>,
           unsaved' = [unsaved EXCEPT ![os] = IF A!Unsaved(run[p]) THEN @ + 1 ELSE @]
    PROVE  Sending' /\ unsaved' \in [A!Versions -> Nat]
<1>0. os \in A!Versions /\ sends[os] \in Nat /\ unsaved[os] \in Nat
  BY DEF ATyped
<1>1. /\ unsaved' \in [A!Versions -> Nat] /\ \A v \in A!Versions \ {os} : unsaved'[v] = unsaved[v]
      /\ unsaved'[os] = IF A!Unsaved(run[p]) THEN unsaved[os] + 1 ELSE unsaved[os]
  BY <1>0 DEF ATyped
<1>2. Alone => sends[os] <= unsaved[os] + 1
  BY <1>0 DEF Sending, Alone
<1>3. Alone /\ Owed(os)' => Owed(os) /\ ~A!Unsaved(run[p])
  BY <1>0, <1>1, <1>2 DEF Owed
<1>4. Alone /\ ~A!Unsaved(run[p]) => \A q \in Procs : ~A!Unsaved(run[q])
  BY DEF Sending, A!Unsaved, A!Verifying
<1>5. Alone /\ Owed(os)' => Recorded(doc, os)'
  BY <1>3, <1>4 DEF Sending, Recorded
<1>6. Told(doc)'
  BY DEF Sending, Told
<1>7. Alone => sends'[os] <= unsaved'[os] + 1
  BY <1>0, <1>1, <1>2
<1>8. Sending'
  BY <1>1, <1>5, <1>6, <1>7, VerifierKeeps
<1> QED BY <1>1, <1>8

\* The operating system is replaced.
LEMMA UpgradeKeeps ==
    ASSUME ATyped, Sending, A!Upgrade
    PROVE  /\ Sending' /\ os' \in A!Versions /\ changes' \in A!Versions /\ os' <= changes'
           /\ unsaved' \in [A!Versions -> Nat] /\ \A p \in Procs : run'[p] = A!Idle
<1>0. /\ os \in Nat /\ changes \in Nat /\ os <= changes /\ changes < MaxChanges /\ os \in A!Versions
      /\ os' = os + 1 /\ changes' = changes + 1
  BY TimesAreNumbers DEF ATyped, A!Upgrade
<1>1. os' \in A!Versions /\ changes' \in A!Versions /\ os' <= changes' /\ os' > os
  BY <1>0, TimesAreNumbers DEF A!Versions
<1>2. /\ UNCHANGED <<doc, sends, overlapped, seen>> /\ run' = [p \in Procs |-> A!Idle]
      /\ unsaved' = [unsaved EXCEPT ![os] = IF \E p \in Procs : A!Unsaved(run[p]) THEN unsaved[os] + 1 ELSE unsaved[os]]
  BY DEF A!Upgrade
<1>3. /\ unsaved' \in [A!Versions -> Nat] /\ \A v \in A!Versions : unsaved'[v] >= unsaved[v]
  BY <1>2 DEF ATyped
<1>4. \A v \in A!Versions : sends[v] \in Nat /\ unsaved[v] \in Nat /\ unsaved'[v] \in Nat
  BY <1>3 DEF ATyped
<1>5. \A v \in A!Versions \ overlapped' : sends'[v] <= unsaved'[v] + 1
  BY <1>2, <1>3, <1>4 DEF Sending
<1>6. \A v \in A!Versions : v > os' => sends'[v] = 0
  BY <1>0, <1>2, TimesAreNumbers DEF Sending
<1>7. ~Owed(os)'
  BY <1>1, <1>2, <1>4 DEF Sending, Owed
<1>8. \A p \in Procs : run'[p] = A!Idle
  BY <1>2
<1>9. PICK i : i = A!Idle
  OBVIOUS
<1>10. Verifies(i)' /\ ~A!Verifying(i)
  BY <1>9, IdleIsTyped DEF Verifies, Told, A!Verifying
<1>11. ASSUME NEW p \in Procs
       PROVE  Verifies(run[p])' /\ ~A!Verifying(run'[p])
  <2>1. run'[p] = i
    BY <1>8, <1>9
  <2> QED BY <1>10, <2>1 DEF Verifies, Told, Alone, Owed, Recorded, A!Verifying
<1>12. Told(doc)'
  BY <1>2 DEF Sending, Told
<1>13. Sending'
  BY <1>5, <1>6, <1>7, <1>11, <1>12 DEF Sending, A!Verifying
<1> QED BY <1>1, <1>3, <1>8, <1>13

-----------------------------------------------------------------------------
(* Every step.                                                                 *)

\* A step of a process that does not verify, and leaves everything but itself, the status
\* and the certificate.
LEMMA AsideKeeps ==
    ASSUME AInv, NEW p \in Procs, NEW r \in Runs, A!Goes(p, r), ~A!Verifying(run[p]),
           Reads(r), Verifies(r), ~A!Verifying(r),
           snapshot' \in Statuses, snapshot' = "HOOK_VERIFIED" => Left, A!CertificateIsBacked',
           UNCHANGED <<now, receipts, oldest, changes, os, doc, sends, unsaved, overlapped, seen>>
    PROVE  AInv'
<1>1. ATyped /\ Receipted /\ Sending
  BY DEF AInv
<1>2. run' \in [Procs -> Runs]
  BY <1>1, Goes
<1>3. Receipted'
  BY <1>1, ReceiptedOn
<1>4. Sending'
  BY <1>1, SendingOn
<1>5. ATyped'
  BY <1>1, <1>2 DEF ATyped
<1> QED BY <1>3, <1>4, <1>5 DEF AInv

\* A status, a row or the events are read.
LEMMA ReadingKeeps ==
    ASSUME AInv, NEW p \in Procs,
           \/ \E prev \in A!_previous_status, readable \in BOOLEAN : A!read_hook_status(p, prev, readable)
           \/ \E row \in A!_previous_status : A!ReadDocument(p, row)
           \/ \E readable \in BOOLEAN : A!ReadEvents(p, readable)
    PROVE  AInv' /\ snapshot' = snapshot
<1> USE DEF A!world, A!history
<1>0. /\ ATyped /\ Receipted /\ Sending /\ run[p] \in Runs /\ Verifies(run[p])
      /\ A!_previous_status \subseteq Statuses
      /\ snapshot \in Statuses /\ (snapshot = "HOOK_VERIFIED" => Left)
  BY DEF AInv, ATyped, Sending, Receipted, A!_previous_status, Statuses
<1>1. ASSUME NEW prev \in A!_previous_status, NEW readable \in BOOLEAN, A!read_hook_status(p, prev, readable)
      PROVE  AInv' /\ snapshot' = snapshot
  <2>1. PICK s : s = A!WithFallback(A!HookStatus(prev, readable))
    OBVIOUS
  <2>2. /\ s \in Statuses /\ (s = "HOOK_VERIFIED" => Left)
        /\ prev = "HOOK_VERIFIED" /\ readable => s \in Aloud
    BY <1>0, <2>1, StatusIsRead
  <2>3. PICK r : r = [run[p] EXCEPT !.pc = "save", !.prev = prev, !.readable = readable, !.status = s]
    OBVIOUS
  <2>4. /\ A!Goes(p, r) /\ run[p].pc \in {"idle", "hook"}
        /\ UNCHANGED <<now, receipts, oldest, changes, os, doc, sends, unsaved, overlapped, seen, snapshot, certificate>>
    BY <1>1, <2>1, <2>3 DEF A!read_hook_status
  <2>5. /\ r \in Runs /\ r.pc = "save" /\ r.prev = prev /\ r.readable = readable /\ r.status = s
        /\ r.row = run[p].row /\ r.confirmed = run[p].confirmed
    BY <1>0, <2>2, <2>3 DEF Runs
  <2>6. Reads(r)
    BY <2>2, <2>5 DEF Reads, A!Knowing
  <2>7. Verifies(r) /\ ~A!Verifying(r) /\ ~A!Verifying(run[p])
    BY <1>0, <2>4, <2>5 DEF Verifies, A!Verifying
  <2>8. A!CertificateIsBacked'
    BY <1>0, <2>4 DEF Receipted, A!CertificateIsBacked
  <2>9. AInv'
    BY <1>0, <2>4, <2>5, <2>6, <2>7, <2>8, AsideKeeps
  <2> QED BY <2>4, <2>9
<1>2. ASSUME NEW row \in A!_previous_status, A!ReadDocument(p, row)
      PROVE  AInv' /\ snapshot' = snapshot
  <2>3. PICK r : r = [A!Idle EXCEPT !.pc = "save", !.for = "another host", !.status = row]
    OBVIOUS
  <2>4. /\ A!Goes(p, r) /\ run[p].pc = "idle"
        /\ UNCHANGED <<now, receipts, oldest, changes, os, doc, sends, unsaved, overlapped, seen, snapshot, certificate>>
    BY <1>2, <2>3 DEF A!ReadDocument
  <2>5. /\ r \in Runs /\ r.pc = "save" /\ r.for = "another host" /\ r.status = row
        /\ r.row = A!NoDoc /\ r.confirmed = FALSE
    BY <1>0, <2>3, IdleIsTyped DEF Runs
  <2>6. Reads(r)
    BY <1>0, <2>5 DEF Reads, A!Knowing, A!_previous_status
  <2>7. Verifies(r) /\ ~A!Verifying(r) /\ ~A!Verifying(run[p])
    BY <2>4, <2>5, IdleIsTyped DEF Verifies, Told, A!Verifying
  <2>8. A!CertificateIsBacked'
    BY <1>0, <2>4 DEF Receipted, A!CertificateIsBacked
  <2>9. AInv'
    BY <1>0, <2>4, <2>5, <2>6, <2>7, <2>8, AsideKeeps
  <2> QED BY <2>4, <2>9
<1>3. ASSUME NEW readable \in BOOLEAN, A!ReadEvents(p, readable)
      PROVE  AInv' /\ snapshot' = snapshot
  <2>1. PICK o \in Observations : o = A!_read_real_events(readable)
    BY <1>0, EventsAreObserved
  <2>3. PICK r : r = [A!Idle EXCEPT !.pc = "hook", !.for = "certification", !.observed = o]
    OBVIOUS
  <2>4. /\ A!Goes(p, r) /\ run[p].pc = "idle"
        /\ UNCHANGED <<now, receipts, oldest, changes, os, doc, sends, unsaved, overlapped, seen, snapshot, certificate>>
    BY <1>3, <2>1, <2>3 DEF A!ReadEvents
  <2>5. r \in Runs /\ r.pc = "hook" /\ r.row = A!NoDoc /\ r.confirmed = FALSE
    BY <2>3, IdleIsTyped DEF Runs
  <2>7. Reads(r) /\ Verifies(r) /\ ~A!Verifying(r) /\ ~A!Verifying(run[p])
    BY <2>4, <2>5, IdleIsTyped DEF Reads, Verifies, Told, A!Verifying
  <2>8. A!CertificateIsBacked'
    BY <1>0, <2>4 DEF Receipted, A!CertificateIsBacked
  <2>9. AInv'
    BY <1>0, <2>4, <2>5, <2>7, <2>8, AsideKeeps
  <2> QED BY <2>4, <2>9
<1> QED BY <1>1, <1>2, <1>3

\* What a certification goes on with when its status is written or could not be.
LEMMA Issues ==
    ASSUME NEW c \in Runs, Verifies(c), c.pc = "save", NEW r,
           \/ r = [c EXCEPT !.pc = "issue", !.prev = "none", !.readable = TRUE]
           \/ r = [c EXCEPT !.pc = "issue", !.prev = "none", !.readable = TRUE, !.status = "none"]
           \/ r = A!Idle
    PROVE  r \in Runs /\ Reads(r) /\ Verifies(r) /\ ~A!Verifying(r)
<1>1. CASE r = A!Idle
  BY <1>1, IdleIsTyped, IdleFits
<1>2. CASE r # A!Idle
  <2>1. r \in Runs /\ r.pc = "issue" /\ r.row = c.row /\ r.confirmed = c.confirmed
    BY <1>2 DEF Runs, Statuses
  <2> QED BY <2>1 DEF Reads, Verifies, A!Verifying
<1> QED BY <1>1, <1>2

\* The status is written, without a lock: a verified one is lost aloud by whoever knows of it.
LEMMA SnapshotKeeps ==
    ASSUME AInv, NEW p \in Procs, A!_write_status_snapshot(p)
    PROVE  AInv' /\ A!LossOfHookIsReported
<1> USE DEF A!world, A!history
<1>0. /\ ATyped /\ Receipted /\ run[p] \in Runs /\ Verifies(run[p]) /\ Reads(run[p]) /\ run[p].pc = "save"
  BY DEF AInv, ATyped, Sending, Receipted, A!_write_status_snapshot
<1>1. PICK r : r = IF run[p].for = "certification"
                   THEN [run[p] EXCEPT !.pc = "issue", !.prev = "none", !.readable = TRUE] ELSE A!Idle
  OBVIOUS
<1>2. /\ A!Goes(p, r) /\ snapshot' = run[p].status
      /\ UNCHANGED <<now, receipts, oldest, changes, os, doc, sends, unsaved, overlapped, seen, certificate>>
  BY <1>1 DEF A!_write_status_snapshot
<1>3. r \in Runs /\ Reads(r) /\ Verifies(r) /\ ~A!Verifying(r)
  BY <1>0, <1>1, Issues
<1>4. snapshot' \in Statuses /\ (snapshot' = "HOOK_VERIFIED" => Left) /\ ~A!Verifying(run[p])
  BY <1>0, <1>2 DEF Runs, Reads, A!Verifying
<1>5. A!CertificateIsBacked'
  BY <1>0, <1>2 DEF Receipted, A!CertificateIsBacked
<1>6. AInv'
  BY <1>2, <1>3, <1>4, <1>5, AsideKeeps
<1>7. A!LossOfHookIsReported
  BY <1>0, <1>2 DEF A!LossOfHookIsReported, Reads, Aloud
<1> QED BY <1>6, <1>7

LEMMA CertificateKeeps ==
    ASSUME AInv, NEW p \in Procs, NEW ready \in BOOLEAN, A!certify_host(p, ready)
    PROVE  AInv' /\ snapshot' = snapshot
<1> USE DEF A!world, A!history
<1>0. ATyped /\ Receipted /\ run[p] \in Runs /\ run[p].pc = "issue"
  BY DEF AInv, ATyped, A!certify_host
<1>1. /\ A!Goes(p, A!Idle) /\ certificate' = A!Result(run[p], ready)
      /\ UNCHANGED <<now, receipts, oldest, changes, os, doc, sends, unsaved, overlapped, seen, snapshot>>
  BY DEF A!certify_host
<1>2. run[p].observed.ages \subseteq 0..Ttl
  BY <1>0 DEF Runs, Observations
<1>3. A!CertificateIsBacked'
  BY <1>1, <1>2 DEF A!CertificateIsBacked, A!Result, A!_missing_receipt
<1>4. snapshot' \in Statuses /\ (snapshot' = "HOOK_VERIFIED" => Left) /\ ~A!Verifying(run[p])
  BY <1>0, <1>1 DEF ATyped, Receipted, A!Verifying
<1>5. AInv'
  BY <1>1, <1>3, <1>4, IdleIsTyped, IdleFits, AsideKeeps
<1> QED BY <1>1, <1>5

\* A step of a verification leaves the receipts alone.
LEMMA VerificationKeeps ==
    ASSUME AInv, NEW p \in Procs, NEW r \in Runs, A!Goes(p, r), r.pc # "save", Sending',
           doc' \in Notes, sends' \in [A!Versions -> Nat], unsaved' \in [A!Versions -> Nat],
           UNCHANGED <<now, receipts, oldest, changes, os, snapshot, certificate>>
    PROVE  AInv'
<1>1. ATyped /\ Receipted
  BY DEF AInv
<1>2. run' \in [Procs -> Runs]
  BY <1>1, Goes
<1>3. Reads(r)
  BY DEF Reads
<1>4. Receipted'
  BY <1>1, <1>3, ReceiptedOn DEF Receipted, A!CertificateIsBacked
<1>5. ATyped'
  BY <1>1, <1>2 DEF ATyped
<1> QED BY <1>4, <1>5 DEF AInv

LEMMA VerifyKeeps ==
    ASSUME AInv, NEW p \in Procs,
           \/ \E allow \in BOOLEAN : A!StartVerify(p, allow)
           \/ A!ConfirmDisplay(p) \/ A!Decline(p) \/ A!verify_operation(p)
           \/ \E s \in Outcomes : A!send_native_notification(p, s)
           \/ A!_write_operation_document(p)
    PROVE  AInv' /\ snapshot' = snapshot
<1> USE DEF A!world, A!history
<1>0. ATyped /\ Receipted /\ Sending
  BY DEF AInv
<1>1. ASSUME NEW allow \in BOOLEAN, NEW confirmed \in BOOLEAN, A!Start(p, allow, confirmed),
             run[p].pc \in {"idle", "ask"}, seen' = IF confirmed THEN seen \cup {os} ELSE seen
      PROVE  AInv' /\ snapshot' = snapshot
  <2>1. UNCHANGED <<now, receipts, oldest, changes, os, snapshot, certificate, doc, sends, unsaved>>
    BY <1>1 DEF A!Start
  <2>2. PICK r \in Runs : A!Goes(p, r) /\ r.pc = "collect"
    BY <1>0, <1>1, StartKeeps
  <2>3. Sending'
    BY <1>0, <1>1, StartKeeps
  <2>4. doc' \in Notes /\ sends' \in [A!Versions -> Nat] /\ unsaved' \in [A!Versions -> Nat]
    BY <1>0, <2>1 DEF ATyped
  <2> QED BY <2>1, <2>2, <2>3, <2>4, VerificationKeeps
<1>2. ASSUME NEW allow \in BOOLEAN, A!StartVerify(p, allow)
      PROVE  AInv' /\ snapshot' = snapshot
  <2>1. A!Start(p, allow, FALSE) /\ run[p].pc = "idle" /\ seen' = seen
    BY <1>2 DEF A!StartVerify
  <2> QED BY <1>1, <2>1
<1>3. CASE A!ConfirmDisplay(p)
  <2>1. A!Start(p, FALSE, TRUE) /\ run[p].pc = "ask" /\ seen' = seen \cup {os}
    BY <1>3 DEF A!ConfirmDisplay
  <2> QED BY <1>1, <2>1
<1>4. CASE A!Decline(p)
  <2>1. /\ A!Goes(p, A!Idle) /\ run[p].pc = "ask"
        /\ UNCHANGED <<now, receipts, oldest, changes, os, doc, sends, unsaved, overlapped, seen, snapshot, certificate>>
    BY <1>4 DEF A!Decline
  <2>2. ~A!Verifying(run[p])
    BY <2>1 DEF A!Verifying
  <2>3. Sending'
    BY <1>0, <2>1, <2>2, IdleIsTyped, IdleFits, SendingOn
  <2>4. doc' \in Notes /\ sends' \in [A!Versions -> Nat] /\ unsaved' \in [A!Versions -> Nat]
    BY <1>0, <2>1 DEF ATyped
  <2> QED BY <2>1, <2>3, <2>4, IdleIsTyped, VerificationKeeps
<1>5. CASE A!verify_operation(p)
  <2>1. UNCHANGED <<now, receipts, oldest, changes, os, snapshot, certificate, doc, sends, unsaved>>
    BY <1>5 DEF A!verify_operation
  <2>2. PICK r \in Runs : A!Goes(p, r) /\ r.pc \in {"send", "write"}
    BY <1>0, <1>5, CollectKeeps
  <2>3. Sending'
    BY <1>0, <1>5, CollectKeeps
  <2>4. doc' \in Notes /\ sends' \in [A!Versions -> Nat] /\ unsaved' \in [A!Versions -> Nat]
    BY <1>0, <2>1 DEF ATyped
  <2> QED BY <2>1, <2>2, <2>3, <2>4, VerificationKeeps
<1>6. ASSUME NEW s \in Outcomes, A!send_native_notification(p, s)
      PROVE  AInv' /\ snapshot' = snapshot
  <2>1. UNCHANGED <<now, receipts, oldest, changes, os, snapshot, certificate, doc, unsaved>>
    BY <1>6 DEF A!send_native_notification
  <2>2. PICK r \in Runs : A!Goes(p, r) /\ r.pc = "write"
    BY <1>0, <1>6, SendKeeps
  <2>3. Sending' /\ sends' \in [A!Versions -> Nat]
    BY <1>0, <1>6, SendKeeps
  <2>4. doc' \in Notes /\ unsaved' \in [A!Versions -> Nat]
    BY <1>0, <2>1 DEF ATyped
  <2> QED BY <2>1, <2>2, <2>3, <2>4, VerificationKeeps
<1>7. CASE A!_write_operation_document(p)
  <2>1. /\ UNCHANGED <<now, receipts, oldest, changes, os, snapshot, certificate, sends, unsaved>>
        /\ A!Goes(p, A!Ask(run[p]))
    BY <1>7 DEF A!_write_operation_document
  <2>2. PICK r : r = A!Ask(run[p])
    OBVIOUS
  <2>3. r \in Runs /\ r.pc # "save" /\ A!Goes(p, r)
    BY <2>1, <2>2, AsksOrEnds
  <2>4. Sending' /\ doc' \in Notes
    BY <1>0, <1>7, WriteKeeps
  <2>5. sends' \in [A!Versions -> Nat] /\ unsaved' \in [A!Versions -> Nat]
    BY <1>0, <2>1 DEF ATyped
  <2> QED BY <2>1, <2>3, <2>4, <2>5, VerificationKeeps
<1> QED BY <1>2, <1>3, <1>4, <1>5, <1>6, <1>7

\* A process dies, or cannot write.
LEMMA FailureKeeps ==
    ASSUME AInv, NEW p \in Procs, A!FailToWrite(p) \/ A!Die(p)
    PROVE  AInv' /\ snapshot' = snapshot
<1> USE DEF A!world
<1>0. ATyped /\ Receipted /\ Sending /\ run[p] \in Runs /\ Verifies(run[p])
  BY DEF AInv, ATyped, Sending
<1>1. PICK r : /\ A!Goes(p, r)
               /\ \/ r = A!Idle
                  \/ r = A!Ask(run[p]) /\ run[p].pc = "write"
                  \/ /\ r = [run[p] EXCEPT !.pc = "issue", !.prev = "none", !.readable = TRUE, !.status = "none"]
                     /\ run[p].pc = "save"
  BY DEF A!FailToWrite, A!Die
<1>2. /\ unsaved' = [unsaved EXCEPT ![os] = IF A!Unsaved(run[p]) THEN unsaved[os] + 1 ELSE unsaved[os]]
      /\ UNCHANGED <<now, receipts, oldest, changes, os, doc, sends, overlapped, seen, snapshot, certificate>>
  BY DEF A!FailToWrite, A!Die
<1>3. r \in Runs /\ Reads(r) /\ Verifies(r) /\ ~A!Verifying(r) /\ r.pc # "save"
  <2>1. CASE r = A!Idle
    BY <2>1, IdleIsTyped, IdleFits
  <2>2. CASE r = A!Ask(run[p])
    BY <2>2, AsksOrEnds
  <2>3. CASE /\ r = [run[p] EXCEPT !.pc = "issue", !.prev = "none", !.readable = TRUE, !.status = "none"]
             /\ run[p].pc = "save"
    <3>1. r \in Runs /\ Reads(r) /\ Verifies(r) /\ ~A!Verifying(r)
      BY <1>0, <2>3, Issues
    <3>2. r.pc = "issue"
      BY <1>0, <2>3 DEF Runs
    <3> QED BY <3>1, <3>2
  <2> QED BY <1>1, <2>1, <2>2, <2>3
<1>4. snapshot' \in Statuses /\ (snapshot' = "HOOK_VERIFIED" => Left) /\ A!CertificateIsBacked'
  BY <1>0, <1>2 DEF ATyped, Receipted, A!CertificateIsBacked
<1>5. CASE ~A!Verifying(run[p])
  <2>1. unsaved' = unsaved
    BY <1>0, <1>2, <1>5 DEF A!Unsaved, A!Verifying, ATyped
  <2>2. AInv'
    BY <1>1, <1>2, <1>3, <1>4, <1>5, <2>1, AsideKeeps
  <2> QED BY <1>2, <2>2
<1>6. CASE A!Verifying(run[p])
  <2>1. Verifies(r)'
    BY <1>2, <1>3, VerifiesOn DEF Alone
  <2>2. Sending' /\ unsaved' \in [A!Versions -> Nat]
    BY <1>0, <1>1, <1>2, <1>3, <1>6, <2>1, LossKeeps
  <2>3. doc' \in Notes /\ sends' \in [A!Versions -> Nat]
    BY <1>0, <1>2 DEF ATyped
  <2>4. AInv'
    BY <1>1, <1>2, <1>3, <2>2, <2>3, VerificationKeeps
  <2> QED BY <1>2, <2>4
<1> QED BY <1>5, <1>6

\* The environment: hooks, edits of the hook file, time and upgrades.
LEMMA WorldKeeps ==
    ASSUME AInv,
           \/ \E e \in Required, m \in {"real", "fixture"} : A!record_canary(e, m)
           \/ \E h \in {"valid", "invalid", "disabled"} : A!ChangeHook(h)
           \/ A!Tick \/ A!Upgrade \/ UNCHANGED A!vars
    PROVE  AInv' /\ snapshot' = snapshot
<1> USE DEF A!history
<1>0. ATyped /\ Receipted /\ Sending /\ now \in Times /\ now \in Nat /\ now >= now
  BY TimesAreNumbers DEF AInv, ATyped
<1>1. ASSUME now' \in Times, now' >= now, UNCHANGED <<snapshot, certificate, run, os>>, changes' \in A!Versions,
             changes' >= changes, UNCHANGED <<doc, sends, unsaved, overlapped, seen>>,
             \/ UNCHANGED <<receipts, oldest>>
             \/ \E e \in Required : /\ receipts' = receipts \/ receipts' = [receipts EXCEPT ![e] = now]
                                    /\ oldest' = IF oldest = A!Never THEN now ELSE oldest
      PROVE  AInv' /\ snapshot' = snapshot
  <2>1. Receipted' /\ receipts' \in [Required -> Moments] /\ oldest' \in Moments
    BY <1>0, <1>1, WorldGoesOn
  <2>2. Sending'
    BY <1>0, <1>1 DEF Sending, Verifies, Told, Alone, Owed, Recorded
  <2>3. os' <= changes'
    BY <1>0, <1>1, TimesAreNumbers DEF ATyped
  <2>4. ATyped'
    BY <1>0, <1>1, <2>1, <2>3 DEF ATyped
  <2> QED BY <1>1, <2>1, <2>2, <2>4 DEF AInv
<1>2. changes \in A!Versions /\ changes \in Nat /\ changes >= changes
  BY <1>0, TimesAreNumbers DEF ATyped
<1>3. ASSUME NEW e \in Required, NEW m \in {"real", "fixture"}, A!record_canary(e, m)
      PROVE  AInv' /\ snapshot' = snapshot
  <2>1. /\ receipts' = receipts \/ receipts' = [receipts EXCEPT ![e] = now]
        /\ oldest' = IF oldest = A!Never THEN now ELSE oldest
        /\ UNCHANGED <<now, snapshot, certificate, run, os, changes, doc, sends, unsaved, overlapped, seen>>
    BY <1>3 DEF A!record_canary
  <2> QED BY <1>0, <1>1, <1>2, <2>1
<1>4. ASSUME NEW h, A!ChangeHook(h)
      PROVE  AInv' /\ snapshot' = snapshot
  <2>1. /\ changes < MaxChanges /\ changes' = changes + 1
        /\ UNCHANGED <<now, receipts, oldest, snapshot, certificate, run, os, doc, sends, unsaved, overlapped, seen>>
    BY <1>4 DEF A!ChangeHook
  <2>2. changes' \in A!Versions /\ changes' >= changes
    BY <1>2, <2>1, TimesAreNumbers DEF A!Versions
  <2> QED BY <1>0, <1>1, <2>1, <2>2
<1>5. CASE A!Tick
  <2>1. /\ now < ActivationTime /\ now' = now + 1
        /\ UNCHANGED <<receipts, oldest, snapshot, certificate, run, os, changes, doc, sends, unsaved, overlapped, seen>>
    BY <1>5 DEF A!Tick
  <2>2. now' \in Times /\ now' >= now
    BY <1>0, <2>1, TimesAreNumbers DEF Times
  <2> QED BY <1>1, <1>2, <2>1, <2>2
<1>6. CASE A!Upgrade
  <2>1. UNCHANGED <<now, receipts, oldest, snapshot, certificate, doc, sends, overlapped, seen>>
    BY <1>6 DEF A!Upgrade
  <2>2. /\ Sending' /\ os' \in A!Versions /\ changes' \in A!Versions /\ os' <= changes'
        /\ unsaved' \in [A!Versions -> Nat] /\ \A p \in Procs : run'[p] = A!Idle
    BY <1>0, <1>6, UpgradeKeeps
  <2>3. run' = [p \in Procs |-> A!Idle]
    BY <1>6 DEF A!Upgrade
  <2>4. ATyped'
    BY <1>0, <2>1, <2>2, <2>3, IdleIsTyped DEF ATyped
  <2>5. \A p \in Procs : run'[p].pc = "idle"
    BY <2>2, IdleIsTyped
  <2>6. Receipted'
    BY <1>0, <2>1, <2>5 DEF Receipted, Left, Reads, A!CertificateIsBacked
  <2> QED BY <2>1, <2>2, <2>4, <2>6 DEF AInv
<1>7. CASE UNCHANGED A!vars
  <2>1. UNCHANGED <<now, receipts, oldest, snapshot, certificate, run, os, changes, doc, sends, unsaved, overlapped, seen>>
    BY <1>7 DEF A!vars
  <2> QED BY <1>0, <1>1, <1>2, <2>1
<1> QED BY <1>3, <1>4, <1>5, <1>6, <1>7

LEMMA AStep == AInv /\ [A!Next]_(A!vars) => AInv' /\ A!LossOfHookIsReported
<1> SUFFICES ASSUME AInv, [A!Next]_(A!vars)
             PROVE  AInv' /\ A!LossOfHookIsReported
  OBVIOUS
<1>1. snapshot' = snapshot => A!LossOfHookIsReported
  BY DEF A!LossOfHookIsReported
<1>2. ASSUME NEW p \in Procs, A!Step(p)
      PROVE  AInv' /\ A!LossOfHookIsReported
  <2>1. CASE A!_write_status_snapshot(p)
    BY <2>1, SnapshotKeeps
  <2>2. ASSUME NEW ready \in BOOLEAN, A!certify_host(p, ready)
        PROVE  AInv' /\ A!LossOfHookIsReported
    BY <1>1, <2>2, CertificateKeeps
  <2>3. CASE A!FailToWrite(p) \/ A!Die(p)
    BY <1>1, <2>3, FailureKeeps
  <2> QED BY <1>1, <1>2, <2>1, <2>2, <2>3, ReadingKeeps, VerifyKeeps DEF A!Step
<1>3. ASSUME ~\E p \in Procs : A!Step(p)
      PROVE  AInv' /\ A!LossOfHookIsReported
  BY <1>1, <1>3, WorldKeeps DEF A!Next
<1> QED BY <1>2, <1>3

LEMMA AFits == AInv => A!CertificateIsBacked /\ A!SendsAreBounded /\ A!DisplayIsCurrent
<1> SUFFICES ASSUME AInv
             PROVE  A!CertificateIsBacked /\ A!SendsAreBounded /\ A!DisplayIsCurrent
  OBVIOUS
<1>1. A!CertificateIsBacked
  BY DEF AInv, Receipted
<1>2. ASSUME NEW v \in A!Versions \ overlapped
      PROVE  sends[v] <= 1 + unsaved[v]
  BY DEF AInv, Sending, ATyped
<1>3. ASSUME NEW p \in Procs, run[p].pc = "write", run[p].row.display = "VERIFIED"
      PROVE  os \in seen
  BY <1>3 DEF AInv, Sending, Verifies, Told
<1> QED BY <1>1, <1>2, <1>3 DEF A!SendsAreBounded, A!DisplayIsCurrent

-----------------------------------------------------------------------------
(* The composition: a behaviour is one of the component its part names.    *)

LEMMA Starts ==
    Init => /\ part = "scheduler" => D!Init
            /\ part = "migration" => M!Init
            /\ part = "root" => R!Init
            /\ part = "activation" => A!Init
  BY DEF Init

\* The variables beside the component of the behaviour stay, and so does part.
LEMMA Steps ==
    [Next]_vars => /\ part' = part
                   /\ part = "scheduler" => [D!Next]_(D!vars)
                   /\ part = "migration" => [M!Next]_(M!vars)
                   /\ part = "root" => [R!Next]_(R!vars)
                   /\ part = "activation" => [A!Next]_(A!vars)
<1> SUFFICES ASSUME [Next]_vars
             PROVE  /\ part' = part
                    /\ part = "scheduler" => [D!Next]_(D!vars)
                    /\ part = "migration" => [M!Next]_(M!vars)
                    /\ part = "root" => [R!Next]_(R!vars)
                    /\ part = "activation" => [A!Next]_(A!vars)
  OBVIOUS
<1>1. CASE Next
  BY <1>1 DEF Next, BesideI, BesideD, BesideM, BesideR, BesideA
<1>2. CASE UNCHANGED vars
  <2>1. part' = part /\ UNCHANGED D!vars
    BY <1>2 DEF vars, D!vars
  <2>2. UNCHANGED M!vars
    BY <1>2 DEF vars, M!vars
  <2>3. UNCHANGED R!vars
    BY <1>2 DEF vars, R!vars
  <2>4. UNCHANGED A!vars
    BY <1>2 DEF vars, A!vars
  <2> QED BY <2>1, <2>2, <2>3, <2>4
<1> QED BY <1>1, <1>2

\* register_scheduler, unregister_scheduler and inspect_scheduler_opportunities, with any set
\* of actions, interval and allowance and any number of faults, and with somebody else's
\* unit file appearing at any moment, the script's two writes included: a registration that
\* reports success leaves the job asked for, a unit file somebody else made is replaced only
\* when it appeared after the registration had looked, and a point that counts as missed
\* passed while the machine was awake and the job did not run.
THEOREM RegistrationStaysReal == Spec => RegistrationIsReal
<1> DEFINE J == part = "scheduler" => DInv
<1>1. Init => J
  BY Starts, DInit
<1>2. J /\ [Next]_vars => J'
  BY Steps, DStep
<1>3. J /\ [Next]_vars =>
         (part = "scheduler" => D!ReportedIsRegistered /\ D!ForeignUnitIsKept /\ D!MissedIsReal)
  BY Steps, DStep
<1> QED BY <1>1, <1>2, <1>3, PTL DEF Spec, RegistrationIsReal

\* execute_migration over any files and records, however often the sources change and a run
\* dies: a record is imported once, and what a checkpoint lets a later run skip was imported.
THEOREM ImportStaysOnce == Spec => []ImportedOnce
<1> DEFINE J == part = "migration" => MInv
<1>1. Init => J
  BY Starts, MInit
<1>2. J /\ [Next]_vars => J'
  BY Steps, MStep
<1>3. J => ImportedOnce
  BY MImported DEF ImportedOnce
<1> QED BY <1>1, <1>2, <1>3, PTL DEF Spec

\* apply_root_migration, rollback_root_migration and cleanup_legacy_root over any number of
\* files, edits and deaths: the user's last content of a file is in the old root, the new one
\* or the backup, or in a plan whose cleanup believed a JSON file instead of a backup, and
\* the new root appears whole, as planned.
THEOREM ContentStaysSomewhere == Spec => NothingIsLost
<1> DEFINE J == part = "root" => TInv
<1>1. Init => J
  BY Starts, TInit
<1>2. J /\ [Next]_vars => J'
  BY Steps, TStep
<1>3. J => (part = "root" => R!NothingIsLost)
  BY TKept
<1>4. J /\ [Next]_vars => (part = "root" => R!AppearsWhole)
  BY Steps, TStep
<1> QED BY <1>1, <1>2, <1>3, <1>4, PTL DEF Spec, NothingIsLost

\* certify_host, verify_operation and read_hook_status for any number of processes, required
\* events, time to live and outcomes of a notification, with any number of upgrades, unreadable
\* files, failed writes and deaths: a certificate is backed by recent receipts of every required
\* event; a test notification is sent once per operating system unless it could not be recorded
\* or verifications overlapped there; the display is verified only on a system on which the
\* user confirmed it; and a process that found the hook verified and can read its receipts
\* reports the loss of it.
THEOREM EvidenceStaysCurrent == Spec => EvidenceIsCurrent
<1> DEFINE J == part = "activation" => AInv
<1>1. Init => J
  BY Starts, AInit
<1>2. J /\ [Next]_vars => J'
  BY Steps, AStep
<1>3. J => (part = "activation" =>
                A!CertificateIsBacked /\ A!SendsAreBounded /\ A!DisplayIsCurrent)
  BY AFits
<1>4. J /\ [Next]_vars => (part = "activation" => A!LossOfHookIsReported)
  BY Steps, AStep
<1> QED BY <1>1, <1>2, <1>3, <1>4, PTL DEF Spec, EvidenceIsCurrent
=============================================================================
