--------------------------- MODULE RuntimeStatus ---------------------------
(***************************************************************************)
(* The runtime status file of a device.  The capture supervisor, the       *)
(* capture loop, the transmit thread, the start-up probe and the listener  *)
(* each replace the whole file; whoever writes last is what the desktop    *)
(* window and the diagnostics show.                                        *)
(***************************************************************************)
EXTENDS Naturals

CONSTANTS
    Targets,        \* devices of the layout
    MaxRuns,        \* bound: times the capture loop is started
    MaxFailures,    \* bound: failures of the capture loop, probes, sends and writes
    MaxChanges      \* bound: changes of the role and of who is online

ASSUME RuntimeStatusAssumption ==
    /\ MaxRuns \in Nat \ {0} /\ MaxFailures \in Nat /\ MaxChanges \in Nat

Runs == 1..MaxRuns

VARIABLES
    role, online,   \* the configured role; targets a fresh desktop state has online
    run,            \* number of the present run of the capture loop
    capture,        \* "deciding", "armed", "waiting", "changed", "observing" or "failed"
    plan,           \* the plan of the run: set of targets
    offered,        \* the channel of the refresh worker: at most one plan
    flag,           \* run -> counters.transmit_failed
    queued,         \* run -> an event waits for the transmit thread
    transmit,       \* run -> transmit thread: pc, failed, senders
    probe,          \* run -> start-up probe: "off", "probing", "failed"
    listening,      \* a status the listener writes next, or "none"
    file,           \* [state, by, run, targets]
    unwritten,      \* history: statuses that could not be written since the file last was
    failures, changes

runtimeVars == <<role, online, run, capture, plan, offered, flag, queued, transmit, probe,
                 listening, file, unwritten, failures, changes>>
envVars == <<role, online, changes>>
fileVars == <<file, unwritten>>
captureVars == <<run, capture, plan, offered>>
threadVars == <<flag, queued, transmit, probe>>

Status(state, by, r, targets) == [state |-> state, by |-> by, run |-> r, targets |-> targets]

RuntimeInit ==
    /\ role \in {"master", "client"} /\ online \in SUBSET Targets
    /\ run = 0 /\ capture = "deciding" /\ plan = {} /\ offered = {}
    /\ flag = [r \in Runs |-> FALSE] /\ queued = [r \in Runs |-> FALSE]
    /\ transmit = [r \in Runs |-> [pc |-> "ended", failed |-> FALSE, senders |-> {}]]
    /\ probe = [r \in Runs |-> "off"]
    /\ listening = "none"
    /\ file = Status("Unknown", "none", 0, {}) /\ unwritten = {}
    /\ failures = 0 /\ changes = 0

\* write_desktop_sync_runtime_status replaces the file as a whole, or fails and leaves it as
\* it is, which every writer logs and otherwise ignores.
Write(status) ==
    \/ file' = status /\ unwritten' = {} /\ UNCHANGED failures
    \/ /\ failures < MaxFailures /\ failures' = failures + 1
       /\ unwritten' = unwritten \cup {status}
       /\ UNCHANGED file

\* The user changes the role; devices come and go.
Change ==
    /\ changes < MaxChanges /\ changes' = changes + 1
    /\ \/ role' \in {"master", "client"} \ {role} /\ UNCHANGED online
       \/ online' \in SUBSET Targets \ {online} /\ UNCHANGED role
    /\ UNCHANGED <<captureVars, threadVars, listening, fileVars, failures>>

\* desktop_capture_plan_from_state
FreshPlan == IF role = "master" THEN online ELSE {}

PlanStatus(p) ==
    IF p = {} THEN Status("Idle", "capture", run, {}) ELSE Status("Armed", "capture", run, p)

-----------------------------------------------------------------------------
(* The capture supervisor and the capture loop.                            *)

\* A device that is no master leaves the file alone; one without targets says so.
SuperviseIdle ==
    /\ capture = "deciding" /\ role = "master" /\ FreshPlan = {}
    /\ Write(PlanStatus({}))
    /\ UNCHANGED <<envVars, captureVars, threadVars, listening>>

StartRun ==
    /\ capture = "deciding" /\ FreshPlan # {} /\ run < MaxRuns
    /\ run' = run + 1
    /\ plan' = FreshPlan /\ offered' = {}
    /\ capture' = "armed"
    /\ UNCHANGED <<envVars, threadVars, listening, fileVars, failures>>

\* The armed status is written before the threads of the run start.
Arm ==
    /\ capture = "armed"
    /\ Write(PlanStatus(plan))
    /\ probe' = [probe EXCEPT ![run] = "probing"]
    /\ transmit' = [transmit EXCEPT ![run].pc = "waiting"]
    /\ capture' = "waiting"
    /\ UNCHANGED <<envVars, run, plan, offered, flag, queued, listening>>

\* The refresh worker: a plan that was not taken yet keeps its place.
Refresh ==
    /\ capture \in {"waiting", "changed", "observing"} /\ offered = {}
    /\ FreshPlan # plan
    /\ offered' = {FreshPlan}
    /\ UNCHANGED <<envVars, threadVars, run, capture, plan, listening, fileVars, failures>>

\* A captured event first takes over a new plan, whose status is written whether or not the
\* last send failed.
TakePlan ==
    /\ capture = "waiting" /\ offered # {}
    /\ plan' \in offered /\ offered' = {}
    /\ capture' = "changed"
    /\ UNCHANGED <<envVars, threadVars, run, listening, fileVars, failures>>

WritePlan ==
    /\ capture = "changed"
    /\ Write(PlanStatus(plan))
    /\ capture' = "waiting"
    /\ UNCHANGED <<envVars, threadVars, run, plan, offered, listening>>

\* The event is routed, and queued when control is remote.
Route ==
    /\ capture = "waiting" /\ offered = {} /\ plan # {} /\ ~queued[run]
    /\ queued' = [queued EXCEPT ![run] = TRUE]
    /\ UNCHANGED <<envVars, captureVars, flag, transmit, probe, listening, fileVars, failures>>

\* desktop_capture_observed_runtime_status, when a progress write is due: nothing after a
\* failed send.  The flag is looked at before the file is written.
Observe ==
    /\ capture = "waiting" /\ offered = {} /\ ~flag[run]
    /\ capture' = "observing"
    /\ UNCHANGED <<envVars, threadVars, run, plan, offered, listening, fileVars, failures>>

WriteObserved ==
    /\ capture = "observing"
    /\ Write(Status("Armed", "capture", run, plan))
    /\ capture' = "waiting"
    /\ UNCHANGED <<envVars, threadVars, run, plan, offered, listening>>

\* The platform's capture loop fails; the supervisor starts over.
CaptureFails ==
    /\ capture = "waiting" /\ failures < MaxFailures
    /\ failures' = failures + 1 /\ capture' = "failed"
    /\ UNCHANGED <<envVars, threadVars, run, plan, offered, listening, fileVars>>

WriteCaptureFailed ==
    /\ capture = "failed"
    /\ Write(Status("Failed", "capture", run, plan))
    /\ capture' = "deciding"
    /\ UNCHANGED <<envVars, threadVars, run, plan, offered, listening>>

-----------------------------------------------------------------------------
(* The start-up probe of a run, and its transmit thread.                   *)

ProbeEnds(r) ==
    /\ probe[r] = "probing"
    /\ \/ probe' = [probe EXCEPT ![r] = "off"] /\ UNCHANGED failures
       \/ /\ failures < MaxFailures /\ failures' = failures + 1
          /\ probe' = [probe EXCEPT ![r] = "failed"]
    /\ UNCHANGED <<envVars, captureVars, flag, queued, transmit, listening, fileVars>>

WriteProbe(r) ==
    /\ probe[r] = "failed" /\ probe' = [probe EXCEPT ![r] = "off"]
    /\ \E targets \in SUBSET Targets : Write(Status("Failed", "probe", r, targets))
    /\ UNCHANGED <<envVars, captureVars, flag, queued, transmit, listening>>

\* A send fails: the flag first, then the file.  The sender of the target is forgotten.
SendFails(r, t) ==
    /\ transmit[r].pc = "waiting" /\ queued[r]
    /\ failures < MaxFailures /\ failures' = failures + 1
    /\ queued' = [queued EXCEPT ![r] = FALSE]
    /\ flag' = [flag EXCEPT ![r] = TRUE]
    /\ transmit' = [transmit EXCEPT ![r] = [pc |-> "failing", failed |-> TRUE,
                                            senders |-> @.senders \ {t}]]
    /\ UNCHANGED <<envVars, captureVars, probe, listening, fileVars>>

WriteSendFailed(r) ==
    /\ transmit[r].pc = "failing"
    /\ \E t \in Targets \ transmit[r].senders : Write(Status("Failed", "transmit", r, {t}))
    /\ transmit' = [transmit EXCEPT ![r].pc = "waiting"]
    /\ UNCHANGED <<envVars, captureVars, flag, queued, probe, listening>>

\* A send succeeds: the file is written after a failure, or when that is due.
MutantDue(r) == {TRUE, FALSE}

Due(r) == IF transmit[r].failed THEN {TRUE} ELSE {TRUE, FALSE}

ClearFlag(r) == [flag EXCEPT ![r] = FALSE]

SendSucceeds(r, t) ==
    /\ transmit[r].pc = "waiting" /\ queued[r]
    /\ queued' = [queued EXCEPT ![r] = FALSE]
    /\ flag' = ClearFlag(r)
    /\ \E due \in Due(r) :
          transmit' = [transmit EXCEPT
                         ![r] = [pc |-> IF due THEN "progress" ELSE "waiting",
                                 failed |-> @.failed /\ ~due,
                                 senders |-> @.senders \cup {t}]]
    /\ UNCHANGED <<envVars, captureVars, probe, listening, fileVars, failures>>

\* The targets are those with a sender, whatever the plan is.
WriteProgress(r) ==
    /\ transmit[r].pc = "progress"
    /\ Write(Status("Armed", "transmit", r, transmit[r].senders))
    /\ transmit' = [transmit EXCEPT ![r].pc = "waiting"]
    /\ UNCHANGED <<envVars, captureVars, flag, queued, probe, listening>>

\* The run that made the thread has ended and with it the other end of its queue.
TransmitEnds(r) ==
    /\ transmit[r].pc = "waiting" /\ ~queued[r]
    /\ r < run \/ capture \in {"failed", "deciding"}
    /\ transmit' = [transmit EXCEPT ![r].pc = "ended"]
    /\ UNCHANGED <<envVars, captureVars, flag, queued, probe, listening, fileVars, failures>>

-----------------------------------------------------------------------------
(* The listener: it runs in either role and writes in one, which it reads  *)
(* from the configuration just before.                                     *)

ListenerReports ==
    /\ listening = "none" /\ role = "client"
    /\ listening' \in {"Listening", "Failed"}
    /\ UNCHANGED <<envVars, captureVars, threadVars, fileVars, failures>>

WriteListener ==
    /\ listening # "none" /\ listening' = "none"
    /\ Write(Status(listening, "listener", 0, {}))
    /\ UNCHANGED <<envVars, captureVars, threadVars>>

-----------------------------------------------------------------------------

RuntimeNext ==
    \/ Change \/ SuperviseIdle \/ StartRun \/ Arm \/ Refresh \/ TakePlan \/ WritePlan \/ Route
    \/ Observe \/ WriteObserved \/ CaptureFails \/ WriteCaptureFailed
    \/ \E r \in Runs : \/ ProbeEnds(r) \/ WriteProbe(r) \/ WriteSendFailed(r)
                       \/ WriteProgress(r) \/ TransmitEnds(r)
                       \/ \E t \in Targets : SendFails(r, t) \/ SendSucceeds(r, t)
    \/ ListenerReports \/ WriteListener

\* Threads run, the user keeps producing input, and progress writes are due again and again.
RuntimeFairness ==
    /\ WF_runtimeVars(SuperviseIdle) /\ WF_runtimeVars(StartRun) /\ WF_runtimeVars(Arm)
    /\ WF_runtimeVars(Refresh) /\ SF_runtimeVars(TakePlan) /\ WF_runtimeVars(WritePlan)
    /\ SF_runtimeVars(Route) /\ SF_runtimeVars(Observe) /\ WF_runtimeVars(WriteObserved)
    /\ WF_runtimeVars(WriteCaptureFailed) /\ WF_runtimeVars(WriteListener)
    /\ \A r \in Runs : /\ WF_runtimeVars(ProbeEnds(r)) /\ WF_runtimeVars(WriteProbe(r))
                       /\ WF_runtimeVars(WriteSendFailed(r)) /\ WF_runtimeVars(WriteProgress(r))
                       /\ WF_runtimeVars(TransmitEnds(r))
                       /\ WF_runtimeVars(\E t \in Targets : SendSucceeds(r, t))

RuntimeSpec == RuntimeInit /\ [][RuntimeNext]_runtimeVars /\ RuntimeFairness

-----------------------------------------------------------------------------
(* Properties.                                                             *)

\* A failed send is not shown any more once its thread has handled a later success,
\* whatever the other threads and the runs after it write, unless the status of a success
\* could not be written: the thread takes it for written, and nobody has replaced the file.
RecoveryShows ==
    \A r \in Runs :
        file.by = "transmit" /\ file.run = r /\ file.state = "Failed" =>
            \/ flag[r] \/ transmit[r].pc = "progress"
            \/ \E s \in unwritten : s.by = "transmit" /\ s.run = r /\ s.state = "Armed"

\* Failures of the probe, the capture loop and the sends are shown for a while only: as
\* long as there are targets, the loop's own status with all of them comes back.
ArmedComesBack ==
    (<>[](role = "master" /\ FreshPlan # {})) =>
        []<>(file = Status("Armed", "capture", run, FreshPlan)
             \/ (run = MaxRuns /\ capture = "deciding"))

\* A device configured as a client shows its listener, not its capture loop.
StatusFollowsRole ==
    [][role = "client" /\ file.by = "listener" => file'.by = "listener"]_file
============================================================================
