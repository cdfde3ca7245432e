--------------------------- MODULE Service_proofs ---------------------------
(***************************************************************************)
(* The core service: its runtime status file, for any targets and any      *)
(* number of runs, failures and changes, and the causes that end its       *)
(* process, for any capacities and any components that are started again;  *)
(* and what the window beside it shows, for any threads that build a view. *)
(***************************************************************************)
EXTENDS RuntimeStatus, Listener, DesktopConfig, TLAPS

-----------------------------------------------------------------------------
(* The runtime status file.                                                *)

TransmitType == [pc : {"ended", "waiting", "failing", "progress"}, failed : BOOLEAN,
                 senders : SUBSET Targets]

ThreadsTypeOK ==
    /\ run \in 0..MaxRuns /\ (capture = "armed" => run # 0)
    /\ flag \in [Runs -> BOOLEAN]
    /\ transmit \in [Runs -> TransmitType]

\* The file says that a send of run r failed.
ShowsFailedSend(r) == file.by = "transmit" /\ file.run = r /\ file.state = "Failed"

\* A success of run r that could not be written, since the file last was.
LostSuccess(r) ==
    \E s \in unwritten : s.by = "transmit" /\ s.run = r /\ s.state = "Armed"

\* A transmit thread starts in the run that is armed, and only there.
NotStartedEarly ==
    \A r \in Runs : r > run \/ (r = run /\ capture = "armed") => transmit[r].pc = "ended"

\* The flag is raised before the failure is written, and the thread remembers the failure
\* until it has a success to write, or has had one.
FailureRemembered ==
    \A r \in Runs :
        /\ transmit[r].pc = "failing" => flag[r] /\ transmit[r].failed
        /\ ShowsFailedSend(r) =>
              \/ transmit[r].pc = "progress"
              \/ flag[r] /\ transmit[r].failed
              \/ LostSuccess(r)

RecoveryInv == ThreadsTypeOK /\ NotStartedEarly /\ FailureRemembered

LEMMA InitRecovery == RuntimeInit => RecoveryInv
  BY RuntimeStatusAssumption
  DEF RuntimeInit, RecoveryInv, ThreadsTypeOK, NotStartedEarly, FailureRemembered,
      ShowsFailedSend, Runs, TransmitType, Status

\* Steps that leave the transmit threads and their flags alone, and write at most a status
\* that is not a failed send.
LEMMA OthersKeepRecovery ==
  ASSUME RecoveryInv, UNCHANGED <<flag, transmit, run>>,
         capture' = "armed" => capture = "armed",
         (file' = file /\ unwritten \subseteq unwritten') \/ file'.by # "transmit"
  PROVE  RecoveryInv'
  BY DEF RecoveryInv, ThreadsTypeOK, NotStartedEarly, FailureRemembered, ShowsFailedSend,
         LostSuccess

LEMMA CaptureKeepsRecovery ==
  ASSUME RecoveryInv,
         \/ SuperviseIdle \/ Refresh \/ TakePlan \/ WritePlan \/ Route \/ Observe
         \/ WriteObserved \/ CaptureFails \/ WriteCaptureFailed
  PROVE  RecoveryInv'
<1>1. UNCHANGED <<flag, transmit, run>> /\ (capture' = "armed" => capture = "armed")
  BY DEF SuperviseIdle, Refresh, TakePlan, WritePlan, Route, Observe, WriteObserved,
         CaptureFails, WriteCaptureFailed, envVars, captureVars, threadVars
<1>2. (file' = file /\ unwritten \subseteq unwritten') \/ file'.by # "transmit"
  BY DEF SuperviseIdle, Refresh, TakePlan, WritePlan, Route, Observe, WriteObserved,
         CaptureFails, WriteCaptureFailed, Write, PlanStatus, Status, fileVars
<1> QED BY <1>1, <1>2, OthersKeepRecovery

LEMMA ListenerKeepsRecovery ==
  ASSUME RecoveryInv, Change \/ ListenerReports \/ WriteListener
  PROVE  RecoveryInv'
<1>1. UNCHANGED <<flag, transmit, run, capture>>
  BY DEF Change, ListenerReports, WriteListener, envVars, captureVars, threadVars
<1>2. (file' = file /\ unwritten \subseteq unwritten') \/ file'.by # "transmit"
  BY DEF Change, ListenerReports, WriteListener, Write, Status, fileVars
<1> QED BY <1>1, <1>2, OthersKeepRecovery

LEMMA ProbeKeepsRecovery ==
  ASSUME RecoveryInv, NEW r \in Runs, ProbeEnds(r) \/ WriteProbe(r)
  PROVE  RecoveryInv'
<1>1. UNCHANGED <<flag, transmit, run, capture>>
  BY DEF ProbeEnds, WriteProbe, envVars, captureVars
<1>2. (file' = file /\ unwritten \subseteq unwritten') \/ file'.by # "transmit"
  BY DEF ProbeEnds, WriteProbe, Write, Status, fileVars
<1> QED BY <1>1, <1>2, OthersKeepRecovery

\* A run starts: its number is new, so its thread has not run.
LEMMA StartKeepsRecovery ==
  ASSUME RecoveryInv, StartRun
  PROVE  RecoveryInv'
<1>1. run' = run + 1 /\ UNCHANGED <<flag, transmit, fileVars>> /\ run \in Nat
      /\ run' \in 0..MaxRuns /\ run' # 0
  BY RuntimeStatusAssumption DEF StartRun, envVars, threadVars, RecoveryInv, ThreadsTypeOK
<1>2. \A r \in Runs : r > run' \/ r = run' => r > run
  BY <1>1 DEF Runs
<1> QED BY <1>1, <1>2
        DEF RecoveryInv, ThreadsTypeOK, NotStartedEarly, FailureRemembered, ShowsFailedSend,
            LostSuccess, fileVars

\* What happens to one thread: t is what it becomes, g its flag.
LEMMA ThreadKeepsRecovery ==
  ASSUME RecoveryInv, NEW r \in Runs, NEW t \in TransmitType, NEW g \in BOOLEAN,
         transmit' = [transmit EXCEPT ![r] = t], flag' = [flag EXCEPT ![r] = g],
         UNCHANGED run, capture' = "armed" => capture = "armed",
         r > run \/ (r = run /\ capture' = "armed") => t.pc = "ended",
         t.pc = "failing" => g /\ t.failed,
         \/ /\ file' = file /\ unwritten \subseteq unwritten'
            /\ ShowsFailedSend(r) =>
                  t.pc = "progress" \/ (g /\ t.failed) \/ LostSuccess(r)'
         \/ file'.state # "Failed"
         \/ file'.run = r /\ g /\ t.failed
  PROVE  RecoveryInv'
<1>1. /\ transmit' \in [Runs -> TransmitType] /\ flag' \in [Runs -> BOOLEAN]
      /\ transmit'[r] = t /\ flag'[r] = g /\ run' \in 0..MaxRuns
      /\ \A q \in Runs \ {r} : transmit'[q] = transmit[q] /\ flag'[q] = flag[q]
  BY DEF RecoveryInv, ThreadsTypeOK
<1>2. NotStartedEarly'
  BY <1>1 DEF RecoveryInv, NotStartedEarly
<1>3. FailureRemembered'
  <2> SUFFICES ASSUME NEW q \in Runs
               PROVE  /\ transmit'[q].pc = "failing" => flag'[q] /\ transmit'[q].failed
                      /\ ShowsFailedSend(q)' =>
                           \/ transmit'[q].pc = "progress"
                           \/ (flag'[q] /\ transmit'[q].failed) \/ LostSuccess(q)'
    BY DEF FailureRemembered
  <2>1. CASE q = r
    BY <1>1, <2>1 DEF ShowsFailedSend
  <2>2. CASE q # r
    BY <1>1, <2>2 DEF ShowsFailedSend, RecoveryInv, FailureRemembered, LostSuccess
  <2> QED BY <2>1, <2>2
<1> QED BY <1>1, <1>2, <1>3 DEF RecoveryInv, ThreadsTypeOK

LEMMA ArmKeepsRecovery ==
  ASSUME RecoveryInv, Arm
  PROVE  RecoveryInv'
<1> DEFINE t == [transmit[run] EXCEPT !.pc = "waiting"]
<1>1. /\ transmit' = [transmit EXCEPT ![run] = t] /\ capture = "armed" /\ capture' = "waiting"
      /\ UNCHANGED <<flag, run>>
      /\ (file' = file /\ unwritten \subseteq unwritten') \/ file'.by = "capture"
  BY DEF Arm, envVars, Write, PlanStatus, Status
<1>2. transmit[run] \in TransmitType /\ flag \in [Runs -> BOOLEAN]
      /\ run \in Runs /\ run \in 0..MaxRuns /\ transmit \in [Runs -> TransmitType]
  <2>1. run \in Runs
    BY <1>1, RuntimeStatusAssumption DEF RecoveryInv, ThreadsTypeOK, Runs
  <2> QED BY <2>1 DEF RecoveryInv, ThreadsTypeOK
<1>3. t \in TransmitType /\ t.pc = "waiting" /\ t.failed = transmit[run].failed
  BY <1>2 DEF TransmitType
<1> HIDE DEF t
<1>4. transmit' \in [Runs -> TransmitType] /\ transmit'[run].pc = "waiting"
      /\ \A q \in Runs \ {run} : transmit'[q] = transmit[q]
  BY <1>1, <1>2, <1>3
<1>5. NotStartedEarly'
  BY <1>1, <1>2, <1>4 DEF NotStartedEarly, RecoveryInv
<1>6. ASSUME NEW q \in Runs
      PROVE  /\ transmit'[q].pc = "failing" => flag'[q] /\ transmit'[q].failed
             /\ ShowsFailedSend(q)' =>
                  \/ transmit'[q].pc = "progress"
                  \/ flag'[q] /\ transmit'[q].failed
                  \/ LostSuccess(q)'
  <2>1. transmit'[q].pc \in {"failing", "progress"} => transmit'[q] = transmit[q]
    BY <1>1, <1>2, <1>3, <1>4
  <2>2. transmit'[q].failed = transmit[q].failed
    BY <1>1, <1>2, <1>3, <1>4, <1>6
  <2>3. transmit[q].pc = "progress" => transmit'[q] = transmit[q]
    BY <1>1, <1>2, <1>4, <1>6 DEF RecoveryInv, NotStartedEarly
  <2>4. LostSuccess(q) /\ unwritten \subseteq unwritten' => LostSuccess(q)'
    BY DEF LostSuccess
  <2>5. ShowsFailedSend(q)' => ShowsFailedSend(q) /\ unwritten \subseteq unwritten'
    BY <1>1 DEF ShowsFailedSend
  <2> QED BY <1>1, <2>1, <2>2, <2>3, <2>4, <2>5, <1>6 DEF RecoveryInv, FailureRemembered
<1>7. FailureRemembered'
  BY <1>6 DEF FailureRemembered
<1> QED BY <1>1, <1>2, <1>4, <1>5, <1>7 DEF RecoveryInv, ThreadsTypeOK

LEMMA SendFailsKeepsRecovery ==
  ASSUME RecoveryInv, NEW r \in Runs, NEW d \in Targets, SendFails(r, d)
  PROVE  RecoveryInv'
<1> DEFINE t == [pc |-> "failing", failed |-> TRUE, senders |-> transmit[r].senders \ {d}]
<1>1. transmit[r] \in TransmitType /\ transmit[r].pc = "waiting"
  BY DEF SendFails, RecoveryInv, ThreadsTypeOK
<1>2. /\ transmit' = [transmit EXCEPT ![r] = t] /\ flag' = [flag EXCEPT ![r] = TRUE]
      /\ UNCHANGED <<run, capture, fileVars>>
  BY DEF SendFails, envVars, captureVars, RecoveryInv, ThreadsTypeOK
<1>3. t \in TransmitType /\ t.failed
  BY <1>1 DEF TransmitType
<1>4. ~ (r > run \/ (r = run /\ capture' = "armed"))
  BY <1>1, <1>2 DEF RecoveryInv, NotStartedEarly
<1> HIDE DEF t
<1> QED BY <1>2, <1>3, <1>4, ThreadKeepsRecovery DEF fileVars

LEMMA WriteFailedKeepsRecovery ==
  ASSUME RecoveryInv, NEW r \in Runs, WriteSendFailed(r)
  PROVE  RecoveryInv'
<1> DEFINE t == [transmit[r] EXCEPT !.pc = "waiting"]
<1>1. transmit[r] \in TransmitType /\ transmit[r].pc = "failing" /\ flag[r] = TRUE
      /\ transmit[r].failed
  BY DEF WriteSendFailed, RecoveryInv, ThreadsTypeOK, FailureRemembered
<1>2. /\ transmit' = [transmit EXCEPT ![r] = t] /\ flag' = [flag EXCEPT ![r] = TRUE]
      /\ UNCHANGED <<run, capture>>
      /\ (file' = file /\ unwritten \subseteq unwritten') \/ file'.run = r
  BY <1>1 DEF WriteSendFailed, envVars, captureVars, Write, Status, RecoveryInv, ThreadsTypeOK
<1>3. t \in TransmitType /\ t.failed /\ t.pc = "waiting"
  BY <1>1 DEF TransmitType
<1>4. ~ (r > run \/ (r = run /\ capture' = "armed"))
  BY <1>1, <1>2 DEF RecoveryInv, NotStartedEarly
<1> HIDE DEF t
<1> QED BY <1>2, <1>3, <1>4, ThreadKeepsRecovery

\* A success after a failure is always written, and the flag is lowered before that.
LEMMA SendSucceedsKeepsRecovery ==
  ASSUME RecoveryInv, NEW r \in Runs, NEW d \in Targets, SendSucceeds(r, d)
  PROVE  RecoveryInv'
<1>1. transmit[r] \in TransmitType /\ transmit[r].pc = "waiting"
  BY DEF SendSucceeds, RecoveryInv, ThreadsTypeOK
<1>2. PICK due \in Due(r) :
        transmit' = [transmit EXCEPT ![r] = [pc |-> IF due THEN "progress" ELSE "waiting",
                                             failed |-> transmit[r].failed /\ ~due,
                                             senders |-> transmit[r].senders \cup {d}]]
  BY DEF SendSucceeds, RecoveryInv, ThreadsTypeOK
<1> DEFINE t == [pc |-> IF due THEN "progress" ELSE "waiting",
                 failed |-> transmit[r].failed /\ ~due,
                 senders |-> transmit[r].senders \cup {d}]
<1>3. /\ transmit' = [transmit EXCEPT ![r] = t] /\ flag' = [flag EXCEPT ![r] = FALSE]
      /\ UNCHANGED <<run, capture, fileVars>>
  BY <1>2 DEF SendSucceeds, ClearFlag, envVars, captureVars
<1>4. due \in BOOLEAN /\ (transmit[r].failed => due)
  BY <1>2 DEF Due
<1>5. t \in TransmitType /\ t.pc # "failing" /\ (due => t.pc = "progress")
  BY <1>1, <1>4 DEF TransmitType
<1>6. ~ (r > run \/ (r = run /\ capture' = "armed"))
  BY <1>1, <1>3 DEF RecoveryInv, NotStartedEarly
<1>7. ShowsFailedSend(r) => t.pc = "progress" \/ LostSuccess(r)'
  BY <1>1, <1>3, <1>4, <1>5 DEF RecoveryInv, FailureRemembered, LostSuccess, fileVars
<1> HIDE DEF t
<1> QED BY <1>3, <1>5, <1>6, <1>7, ThreadKeepsRecovery DEF fileVars

LEMMA WriteProgressKeepsRecovery ==
  ASSUME RecoveryInv, NEW r \in Runs, WriteProgress(r) \/ TransmitEnds(r)
  PROVE  RecoveryInv'
<1> DEFINE t == [transmit[r] EXCEPT !.pc = IF WriteProgress(r) THEN "waiting" ELSE "ended"]
<1>1. transmit[r] \in TransmitType /\ transmit[r].pc # "ended" /\ flag[r] \in BOOLEAN
      /\ (~WriteProgress(r) => transmit[r].pc = "waiting")
  BY DEF WriteProgress, TransmitEnds, RecoveryInv, ThreadsTypeOK
<1>2. /\ transmit' = [transmit EXCEPT ![r] = t] /\ flag' = [flag EXCEPT ![r] = flag[r]]
      /\ UNCHANGED <<run, capture>>
      /\ \/ file'.state # "Failed"
         \/ /\ file' = file /\ unwritten \subseteq unwritten'
            /\ WriteProgress(r) => LostSuccess(r)'
  <2>1. /\ transmit' = [transmit EXCEPT ![r] = t] /\ UNCHANGED <<flag, run, capture>>
    BY DEF WriteProgress, TransmitEnds, envVars, captureVars
  <2>2. flag' = [flag EXCEPT ![r] = flag[r]]
    BY <2>1 DEF RecoveryInv, ThreadsTypeOK
  <2>3. ASSUME WriteProgress(r)
        PROVE  \/ file'.state # "Failed"
               \/ file' = file /\ unwritten \subseteq unwritten' /\ LostSuccess(r)'
    <3> DEFINE status == Status("Armed", "transmit", r, transmit[r].senders)
    <3>1. status.state = "Armed" /\ status.by = "transmit" /\ status.run = r
      BY DEF Status
    <3>2. Write(status)
      BY <2>3 DEF WriteProgress
    <3> HIDE DEF status
    <3> QED BY <3>1, <3>2 DEF Write, LostSuccess
  <2>4. ~WriteProgress(r) => UNCHANGED fileVars
    BY DEF TransmitEnds
  <2> QED BY <2>1, <2>2, <2>3, <2>4 DEF fileVars
<1>3. t \in TransmitType /\ t.pc # "failing" /\ t.failed = transmit[r].failed
  BY <1>1 DEF TransmitType
<1>4. ~ (r > run \/ (r = run /\ capture' = "armed"))
  BY <1>1, <1>2 DEF RecoveryInv, NotStartedEarly
<1>5. ~WriteProgress(r) /\ ShowsFailedSend(r) => (flag[r] /\ t.failed) \/ LostSuccess(r)
  BY <1>1, <1>3 DEF RecoveryInv, FailureRemembered
<1>6. unwritten \subseteq unwritten' /\ LostSuccess(r) => LostSuccess(r)'
  BY DEF LostSuccess
<1> HIDE DEF t
<1> QED BY <1>1, <1>2, <1>3, <1>4, <1>5, <1>6, ThreadKeepsRecovery

LEMMA RecoveryStep == RecoveryInv /\ [RuntimeNext]_runtimeVars => RecoveryInv'
<1> SUFFICES ASSUME RecoveryInv, [RuntimeNext]_runtimeVars PROVE RecoveryInv'
  OBVIOUS
<1>1. CASE UNCHANGED runtimeVars
  BY <1>1, OthersKeepRecovery DEF runtimeVars
<1>2. CASE StartRun \/ Arm
  BY <1>2, StartKeepsRecovery, ArmKeepsRecovery
<1>3. ASSUME NEW r \in Runs,
             \/ ProbeEnds(r) \/ WriteProbe(r) \/ WriteSendFailed(r)
             \/ WriteProgress(r) \/ TransmitEnds(r)
             \/ \E t \in Targets : SendFails(r, t) \/ SendSucceeds(r, t)
      PROVE  RecoveryInv'
  BY <1>3, ProbeKeepsRecovery, WriteFailedKeepsRecovery, WriteProgressKeepsRecovery,
     SendFailsKeepsRecovery, SendSucceedsKeepsRecovery
<1> QED BY <1>1, <1>2, <1>3, CaptureKeepsRecovery, ListenerKeepsRecovery DEF RuntimeNext

\* A failed send gives way to the next success of its thread, whatever the capture loop, the
\* probes, the listener and later runs write and whichever writes fail, unless it is the
\* success's own status that could not be written (transmit_desktop_capture_events).
THEOREM RecoveryIsShown == RuntimeSpec => []RecoveryShows
<1>1. RecoveryInv => RecoveryShows
  BY DEF RecoveryInv, FailureRemembered, RecoveryShows, ShowsFailedSend, LostSuccess
<1> QED BY InitRecovery, RecoveryStep, <1>1, PTL DEF RuntimeSpec

-----------------------------------------------------------------------------
(* The threads of the core service.                                        *)

\* Every report that stops the service has its cause, which stays.
Caused(c) ==
    \/ listener = "bind_failed"
    \/ \E w \in Workers : worker[w] = "failed"
    \/ c = "local_ipc" /\ component["local_ipc"] = "ended"

CauseInv ==
    /\ component \in [Components -> {"running", "ended"}]
    /\ worker \in [Workers -> {"idle", "running", "failed"}]
    /\ reports \in Seq(Components \cup {"data_plane"})
    /\ results \in Seq({"receive"} \cup Workers)
    /\ listener = "binding" => \A w \in Workers : worker[w] = "idle"
    /\ \A i \in DOMAIN results : results[i] = "receive" \/ worker[results[i]] = "failed"
    /\ \A i \in DOMAIN reports : StopsService(reports[i]) => Caused(reports[i])
    /\ StopsOnlyForCause

LEMMA SequenceSteps ==
  ASSUME NEW S, NEW s \in Seq(S)
  PROVE  /\ \A x \in S : /\ Append(s, x) \in Seq(S)
                         /\ \A i \in DOMAIN Append(s, x) :
                               Append(s, x)[i] = x \/ (i \in DOMAIN s /\ Append(s, x)[i] = s[i])
         /\ s # <<>> => /\ Tail(s) \in Seq(S) /\ 1 \in DOMAIN s /\ Head(s) = s[1] /\ Head(s) \in S
                        /\ \A i \in DOMAIN Tail(s) : i + 1 \in DOMAIN s /\ Tail(s)[i] = s[i + 1]
  OBVIOUS

LEMMA CauseInit == ListenerInit => CauseInv
<1> SUFFICES ASSUME ListenerInit PROVE CauseInv
  OBVIOUS
<1>1. /\ component = [c \in Components |-> "running"] /\ worker = [w \in Workers |-> "idle"]
      /\ reports = <<>> /\ results = <<>> /\ service = "running"
  BY DEF ListenerInit
<1> QED BY <1>1 DEF CauseInv, StopsOnlyForCause

\* What stays a cause: a failed worker, a listener that could not be bound.
LEMMA CausesStay ==
  ASSUME CauseInv, listener = "bind_failed" => listener' = "bind_failed",
         \A w \in Workers : worker[w] = "failed" => worker'[w] = "failed",
         component["local_ipc"] = "ended" => component'["local_ipc"] = "ended",
         NEW c, Caused(c)
  PROVE  Caused(c)'
  BY DEF Caused

\* A step that neither reports nor stops anything.
LEMMA QuietKeepsCause ==
  ASSUME CauseInv, UNCHANGED <<reports, results, service, listener, worker>>,
         component' \in [Components -> {"running", "ended"}],
         component["local_ipc"] = "ended" => component'["local_ipc"] = "ended"
  PROVE  CauseInv'
<1>1. \A c : Caused(c) => Caused(c)'
  BY DEF Caused
<1>2. StopsOnlyForCause'
  BY DEF CauseInv, StopsOnlyForCause
<1>3. \A c : StopsService(c)' <=> StopsService(c)
  BY DEF StopsService
<1> QED BY <1>1, <1>2, <1>3 DEF CauseInv

LEMMA StartKeepsCause ==
  ASSUME CauseInv, StartListener
  PROVE  CauseInv'
<1>1. /\ listener = "binding" /\ listener' = "waiting"
      /\ worker' = [w \in Workers |-> "running"]
      /\ UNCHANGED <<service, component, reports, results>> /\ service = "running"
  BY DEF StartListener, serviceVars, Running
<1>2. \A i \in DOMAIN results : results[i] = "receive"
  <2>1. \A i \in DOMAIN results : results[i] \in {"receive"} \cup Workers
    BY DEF CauseInv
  <2>2. \A w \in Workers : worker[w] # "failed"
    BY <1>1 DEF CauseInv
  <2> QED BY <2>1, <2>2 DEF CauseInv
<1>3. \A c : Caused(c) => Caused(c)'
  BY <1>1 DEF Caused, CauseInv
<1>4. \A c : StopsService(c)' <=> StopsService(c)
  BY DEF StopsService
<1> QED BY <1>1, <1>2, <1>3, <1>4 DEF CauseInv, StopsOnlyForCause

\* A step that adds one report whose cause is there.
LEMMA ReportKeepsCause ==
  ASSUME CauseInv, service = "running", service' = "running",
         NEW c \in Components \cup {"data_plane"}, reports' = Append(reports, c),
         component' \in [Components -> {"running", "ended"}],
         component["local_ipc"] = "ended" => component'["local_ipc"] = "ended",
         listener = "bind_failed" => listener' = "bind_failed", listener' # "binding",
         UNCHANGED worker, results' \in Seq({"receive"} \cup Workers),
         \A i \in DOMAIN results' : results'[i] = "receive" \/ worker[results'[i]] = "failed",
         StopsService(c) => Caused(c)'
  PROVE  CauseInv'
<1>1. \A d : Caused(d) => Caused(d)'
  BY DEF Caused
<1>2. \A d : StopsService(d)' <=> StopsService(d)
  BY DEF StopsService
<1>3. reports' \in Seq(Components \cup {"data_plane"})
      /\ \A i \in DOMAIN reports' :
           reports'[i] = c \/ (i \in DOMAIN reports /\ reports'[i] = reports[i])
  BY SequenceSteps DEF CauseInv
<1>4. (\A i \in DOMAIN reports : StopsService(reports[i]) => Caused(reports[i]))'
  BY <1>1, <1>2, <1>3 DEF CauseInv
<1> QED BY <1>3, <1>4 DEF CauseInv, StopsOnlyForCause

LEMMA BindFailsKeepsCause ==
  ASSUME CauseInv, BindFails
  PROVE  CauseInv'
<1>1. /\ service = "running" /\ listener' = "bind_failed"
      /\ reports' = Append(reports, "data_plane")
      /\ UNCHANGED <<service, component, results, worker>>
  BY DEF BindFails, Running
<1> QED BY <1>1, ReportKeepsCause DEF CauseInv, Caused

\* The first result that ends the wait is that of a worker that failed.
LEMMA WaitKeepsCause ==
  ASSUME CauseInv, WaitListener
  PROVE  CauseInv'
<1>1. /\ service = "running" /\ listener = "waiting" /\ results # <<>>
      /\ results' = Tail(results) /\ UNCHANGED <<service, component, worker>>
  BY DEF WaitListener, Running
<1>2. /\ results \in Seq({"receive"} \cup Workers) /\ results' \in Seq({"receive"} \cup Workers)
      /\ \A i \in DOMAIN results' : i + 1 \in DOMAIN results /\ results'[i] = results[i + 1]
      /\ 1 \in DOMAIN results /\ Head(results) = results[1]
      /\ results[1] \in {"receive"} \cup Workers
  BY <1>1, SequenceSteps DEF CauseInv
<1>3. \A i \in DOMAIN results' : results'[i] = "receive" \/ worker[results'[i]] = "failed"
  BY <1>2 DEF CauseInv
<1>4. CASE EndsListener(Head(results))
  <2>1. listener' = "returned" /\ reports' = Append(reports, "data_plane")
    BY <1>4 DEF WaitListener
  <2>2. worker[results[1]] = "failed" /\ results[1] \in Workers
    BY <1>2, <1>4 DEF EndsListener, CauseInv
  <2>3. Caused("data_plane")'
    BY <1>1, <2>2 DEF Caused
  <2> QED BY <1>1, <1>2, <1>3, <2>1, <2>3, ReportKeepsCause DEF CauseInv
<1>5. CASE ~EndsListener(Head(results))
  <2>1. UNCHANGED <<listener, reports>>
    BY <1>5 DEF WaitListener
  <2>2. \A c : (Caused(c)' <=> Caused(c)) /\ (StopsService(c)' <=> StopsService(c))
    BY <1>1, <2>1 DEF Caused, StopsService
  <2> QED BY <1>1, <1>2, <1>3, <2>1, <2>2 DEF CauseInv, StopsOnlyForCause
<1> QED BY <1>4, <1>5

LEMMA ComponentKeepsCause ==
  ASSUME CauseInv, NEW c \in Components, ComponentEnds(c) \/ ComponentRestarts(c)
  PROVE  CauseInv'
<1>1. CASE ComponentEnds(c)
  <2>1. /\ service = "running" /\ component' = [component EXCEPT ![c] = "ended"]
        /\ reports' = Append(reports, c)
        /\ UNCHANGED <<service, listener, results, worker>>
    BY <1>1 DEF ComponentEnds, Running, receiveVars
  <2>2. /\ component' \in [Components -> {"running", "ended"}]
        /\ component["local_ipc"] = "ended" => component'["local_ipc"] = "ended"
        /\ component'[c] = "ended"
    BY <2>1 DEF CauseInv, Components
  <2>3. StopsService(c) => c = "local_ipc" /\ Caused(c)'
    BY <2>2 DEF StopsService, Components, Caused
  <2>4. \A d : (Caused(d) => Caused(d)') /\ (StopsService(d)' <=> StopsService(d))
    BY <2>1, <2>2 DEF Caused, StopsService
  <2>5. reports' \in Seq(Components \cup {"data_plane"})
        /\ \A i \in DOMAIN reports' :
             reports'[i] = c \/ (i \in DOMAIN reports /\ reports'[i] = reports[i])
    BY <2>1, SequenceSteps DEF CauseInv
  <2>6. (\A i \in DOMAIN reports : StopsService(reports[i]) => Caused(reports[i]))'
    BY <2>3, <2>4, <2>5 DEF CauseInv
  <2> QED BY <2>1, <2>2, <2>5, <2>6 DEF CauseInv, StopsOnlyForCause
<1>2. CASE ComponentRestarts(c)
  <2>1. /\ c \in Retried /\ component' = [component EXCEPT ![c] = "running"]
        /\ UNCHANGED <<reports, results, service, listener, worker>>
    BY <1>2 DEF ComponentRestarts, receiveVars
  <2>2. c # "local_ipc"
    BY <2>1, ListenerAssumption
  <2> QED BY <2>1, <2>2, QuietKeepsCause DEF CauseInv, Components
<1> QED BY <1>1, <1>2

LEMMA WaitCoreKeepsCause ==
  ASSUME CauseInv, WaitCore
  PROVE  CauseInv'
<1>1. /\ service = "running" /\ reports # <<>> /\ reports' = Tail(reports)
      /\ service' = IF StopsService(Head(reports)) THEN "stopped" ELSE service
      /\ UNCHANGED <<component, listener, results, worker>>
  BY DEF WaitCore, Running, receiveVars
<1>2. /\ reports' \in Seq(Components \cup {"data_plane"})
      /\ \A i \in DOMAIN reports' : i + 1 \in DOMAIN reports /\ reports'[i] = reports[i + 1]
      /\ 1 \in DOMAIN reports /\ Head(reports) = reports[1]
  BY <1>1, SequenceSteps DEF CauseInv
<1>3. \A c : (Caused(c)' <=> Caused(c)) /\ (StopsService(c)' <=> StopsService(c))
  BY <1>1 DEF Caused, StopsService
<1>4. StopsService(Head(reports)) => StopsOnlyForCause'
  BY <1>1, <1>2 DEF CauseInv, Caused, StopsOnlyForCause
<1>5. ~StopsService(Head(reports)) => StopsOnlyForCause'
  BY <1>1 DEF StopsOnlyForCause
<1> QED BY <1>1, <1>2, <1>3, <1>4, <1>5 DEF CauseInv

\* A result is added: the receive thread's, or that of a worker that has just failed.
LEMMA ResultKeepsCause ==
  ASSUME CauseInv, NEW r \in {"receive"} \cup Workers,
         results' = results \/ results' = Append(results, r),
         worker' \in [Workers -> {"idle", "running", "failed"}],
         \A w \in Workers : worker[w] = "failed" => worker'[w] = "failed",
         r = "receive" \/ worker'[r] = "failed",
         listener = "binding" => worker' = worker,
         UNCHANGED <<service, component, reports, listener>>
  PROVE  CauseInv'
<1>1. /\ results' \in Seq({"receive"} \cup Workers)
      /\ \A i \in DOMAIN results' :
           results'[i] = r \/ (i \in DOMAIN results /\ results'[i] = results[i])
  <2>1. results \in Seq({"receive"} \cup Workers)
    BY DEF CauseInv
  <2>2. CASE results' = results
    BY <2>1, <2>2
  <2>3. CASE results' = Append(results, r)
    BY <2>1, <2>3, SequenceSteps
  <2> QED BY <2>2, <2>3
<1>2. \A i \in DOMAIN results : results[i] \in {"receive"} \cup Workers
  BY DEF CauseInv
<1>3. \A i \in DOMAIN results' : results'[i] = "receive" \/ worker'[results'[i]] = "failed"
  BY <1>1, <1>2 DEF CauseInv
<1>4. \A c : (Caused(c) => Caused(c)') /\ (StopsService(c)' <=> StopsService(c))
  BY DEF Caused, StopsService
<1> QED BY <1>1, <1>3, <1>4 DEF CauseInv, StopsOnlyForCause

LEMMA LinkKeepsCause ==
  ASSUME CauseInv, NEW l \in Links,
         LinkFails(l) \/ Dispatch(l) \/ DispatchFails(l) \/ \E k \in Kinds : TakeFrame(l, k)
  PROVE  CauseInv'
<1>1. CASE LinkFails(l) \/ DispatchFails(l)
  <2>1. results' = results \/ results' = Append(results, "receive")
    BY <1>1 DEF LinkFails, DispatchFails, EndReceive
  <2>2. UNCHANGED <<service, component, reports, listener, worker>>
    BY <1>1 DEF LinkFails, DispatchFails, serviceVars
  <2> QED BY <2>1, <2>2, ResultKeepsCause DEF CauseInv
<1>2. CASE Dispatch(l) \/ \E k \in Kinds : TakeFrame(l, k)
  <2>1. UNCHANGED <<service, component, reports, results, listener, worker>>
    BY <1>2 DEF Dispatch, TakeFrame, serviceVars
  <2> QED BY <2>1, QuietKeepsCause DEF CauseInv
<1> QED BY <1>1, <1>2

LEMMA WorkKeepsCause ==
  ASSUME CauseInv, NEW w \in Workers, Work(w) \/ WorkFails(w)
  PROVE  CauseInv'
<1>1. CASE Work(w)
  <2>1. UNCHANGED <<service, component, reports, results, listener, worker>>
    BY <1>1 DEF Work, serviceVars
  <2> QED BY <2>1, QuietKeepsCause DEF CauseInv
<1>2. CASE WorkFails(w)
  <2>1. /\ worker' = [worker EXCEPT ![w] = "failed"] /\ worker[w] = "running"
        /\ results' = Append(results, w)
        /\ UNCHANGED <<service, component, reports, listener>>
    BY <1>2 DEF WorkFails, serviceVars
  <2>2. listener # "binding"
    BY <2>1 DEF CauseInv
  <2>3. /\ worker' \in [Workers -> {"idle", "running", "failed"}] /\ worker'[w] = "failed"
        /\ \A v \in Workers : worker[v] = "failed" => worker'[v] = "failed"
    BY <2>1 DEF CauseInv
  <2> QED BY <2>1, <2>2, <2>3, ResultKeepsCause
<1> QED BY <1>1, <1>2

LEMMA CauseStep == CauseInv /\ [ListenerNext]_listenerVars => CauseInv'
<1> SUFFICES ASSUME CauseInv, [ListenerNext]_listenerVars PROVE CauseInv'
  OBVIOUS
<1>1. CASE UNCHANGED listenerVars \/ RelayConnects
  <2>1. UNCHANGED <<service, component, reports, results, listener, worker>>
    BY <1>1 DEF listenerVars, serviceVars, RelayConnects
  <2> QED BY <2>1, QuietKeepsCause DEF CauseInv
<1> QED BY <1>1, StartKeepsCause, BindFailsKeepsCause, WaitKeepsCause, WaitCoreKeepsCause,
           LinkKeepsCause, WorkKeepsCause, ComponentKeepsCause DEF ListenerNext

\* The process ends only when the endpoint cannot be bound, a worker has failed or local
\* requests cannot be served: no failure of a link, of a heartbeat or of the capture ends it
\* (core_service_action_for_worker_result, wait_for_listener_threads).
THEOREM StopsForCause == ListenerSpec => []StopsOnlyForCause
<1>1. CauseInv => StopsOnlyForCause
  BY DEF CauseInv
<1> QED BY CauseInit, CauseStep, <1>1, PTL DEF ListenerSpec

-----------------------------------------------------------------------------
(* The desktop window.                                                     *)

\* What thread b has read was read after the last save of the window.
ReadFresh(b) ==
  /\ builder[b].pc = "fetching" => builder[b].since = saves
  /\ builder[b].pc \in {"reading", "writing"} => builder[b].view.since = saves
  /\ builder[b].pc = "built" => \A view \in builder[b].view : view.since = saves

\* So has the refresh the window listens to, until the window has saved again; from then on
\* until its own build is there, the window listens to none.
FreshInv ==
  /\ DOMAIN builder = Builders /\ DOMAIN built = Refreshers
  /\ receiver \in Refreshers \cup {Nobody}
  /\ ui.pc \in {"idle", "writing"} /\ receiver # Nobody =>
       /\ ReadFresh(receiver)
       /\ \A result \in built[receiver] : \A view \in result : view.since = saves
  /\ builder["window"] # Resting => ui.pc = "reloading" /\ ReadFresh("window")

LEMMA InitFresh == ConfigInit => FreshInv
  BY DesktopConfigAssumption DEF ConfigInit, FreshInv, Builders

\* Steps of other threads than b, and of what none of them has read.
LEMMA OthersKeepFresh ==
  ASSUME FreshInv, UNCHANGED <<builder, built, receiver, saves>>, ui'.pc = ui.pc
  PROVE  FreshInv'
  BY DEF FreshInv, ReadFresh

\* A thread that goes on with what it has read.
LEMMA BuilderKeepsFresh ==
  ASSUME FreshInv, NEW b \in Builders, builder[b].pc # "resting",
         DOMAIN builder' = Builders, \A c \in Builders \ {b} : builder'[c] = builder[c],
         ReadFresh(b) => ReadFresh(b)', UNCHANGED <<built, receiver, ui, saves>>
  PROVE  FreshInv'
<1>1. \A c \in Builders : ReadFresh(c) => ReadFresh(c)'
  BY DEF ReadFresh
<1>2. builder'["window"] # Resting => builder["window"] # Resting
  BY DEF Resting, Builders
<1>3. Refreshers \subseteq Builders /\ "window" \in Builders
  BY DEF Builders
<1> QED BY <1>1, <1>2, <1>3 DEF FreshInv

LEMMA BuildKeepsFresh ==
  ASSUME FreshInv, NEW b \in Builders,
         \/ FetchTopology(b) \/ ReadText(b) \/ WriteText(b)
         \/ BuildOffline(b) \/ BuildFails(b)
  PROVE  FreshInv'
<1>1. DOMAIN builder = Builders
  BY DEF FreshInv
<1>2. CASE FetchTopology(b) \/ ReadText(b)
  <2>1. /\ builder[b].pc # "resting" /\ DOMAIN builder' = Builders
        /\ \A c \in Builders \ {b} : builder'[c] = builder[c]
        /\ UNCHANGED <<built, receiver, ui, saves>>
    BY <1>1, <1>2 DEF FetchTopology, ReadText, windowVars, countVars
  <2>2. ReadFresh(b) => ReadFresh(b)'
    BY <1>1, <1>2 DEF FetchTopology, ReadText, windowVars, countVars, ReadFresh, View
  <2> QED BY <2>1, <2>2, BuilderKeepsFresh
<1>3. CASE WriteText(b) \/ BuildOffline(b) \/ BuildFails(b)
  <2>1. PICK views : /\ Built(b, views)
                     /\ ReadFresh(b) => \A view \in views : view.since = saves
    <3>1. CASE WriteText(b)
      <4>1. Built(b, {builder[b].view}) /\ builder[b].pc = "writing"
        BY <3>1 DEF WriteText
      <4> QED BY <4>1 DEF ReadFresh
    <3>2. CASE BuildOffline(b)
      <4>1. builder[b].pc = "fetching"
            /\ Built(b, {View(builder[b].config.endpoint, builder[b].config,
                              builder[b].since, FALSE)})
        BY <3>2 DEF BuildOffline
      <4> QED BY <4>1 DEF ReadFresh, View
    <3>3. CASE BuildFails(b)
      BY <3>3 DEF BuildFails
    <3> QED BY <1>3, <3>1, <3>2, <3>3
  <2>2. builder[b].pc # "resting" /\ UNCHANGED <<built, receiver, ui, saves>>
    BY <1>3 DEF WriteText, BuildOffline, BuildFails, windowVars, countVars
  <2>3. /\ DOMAIN builder' = Builders
        /\ \A c \in Builders \ {b} : builder'[c] = builder[c]
        /\ builder'[b] = Resting \/ builder'[b] = [pc |-> "built", view |-> views]
    BY <1>1, <2>1 DEF Built
  <2>4. ReadFresh(b) => ReadFresh(b)'
    BY <2>1, <2>2, <2>3 DEF ReadFresh, Resting
  <2> QED BY <2>2, <2>3, <2>4, BuilderKeepsFresh
<1> QED BY <1>2, <1>3

\* A build begins in a thread the window does not listen to.
LEMMA LoadKeepsFresh ==
  ASSUME FreshInv, NEW b \in {"service", "ipc"}, Load(b),
         UNCHANGED <<built, receiver, ui, saves>>
  PROVE  FreshInv'
<1>1. DOMAIN builder' = Builders /\ \A c \in Builders \ {b} : builder'[c] = builder[c]
  BY DEF FreshInv, Load
<1>2. \A r \in Refreshers : r \in Builders \ {b}
  BY DesktopConfigAssumption DEF Builders
<1>3. "window" \in Builders \ {b}
  BY DEF Builders
<1> QED BY <1>1, <1>2, <1>3 DEF FreshInv, ReadFresh

\* The companions' steps, and those of the window that begin a save or pass on what it saves.
LEMMA SurroundingsKeepFresh ==
  ASSUME FreshInv,
         \/ ServiceBuilds \/ IpcReads \/ IpcWrites \/ IpcBuilds \/ IpcAnswers
         \/ OtherComputerSaves \/ Outage \/ Edit
  PROVE  FreshInv'
<1>1. CASE ServiceBuilds \/ IpcBuilds
  BY <1>1, LoadKeepsFresh DEF ServiceBuilds, IpcBuilds, windowVars, countVars
<1>2. CASE IpcAnswers
  <2>1. "ipc" \in Builders
    BY DEF Builders
  <2>2. /\ builder["ipc"].pc # "resting" /\ builder' = [builder EXCEPT !["ipc"] = Resting]
        /\ UNCHANGED <<built, receiver, ui, saves>>
    BY <1>2 DEF IpcAnswers, windowVars, countVars
  <2>3. DOMAIN builder = Builders
    BY DEF FreshInv
  <2>4. /\ DOMAIN builder' = Builders /\ ReadFresh("ipc")'
        /\ \A c \in Builders \ {"ipc"} : builder'[c] = builder[c]
    BY <2>1, <2>2, <2>3 DEF ReadFresh, Resting
  <2> QED BY <2>1, <2>2, <2>4, BuilderKeepsFresh
<1>3. CASE IpcReads \/ IpcWrites \/ OtherComputerSaves \/ Outage \/ Edit
  BY <1>3, OthersKeepFresh
     DEF IpcReads, IpcWrites, OtherComputerSaves, Outage, Edit, windowVars, countVars
<1> QED BY <1>1, <1>2, <1>3

LEMMA SaveKeepsFresh ==
  ASSUME FreshInv,
         \/ SaveEndpoint \/ Save("device") \/ Save("layout") \/ \E p \in Peers : Delete(p)
         \/ WindowWrites \/ AskLayout \/ Push \/ Reload
  PROVE  FreshInv'
<1>1. CASE \/ SaveEndpoint \/ Save("device") \/ Save("layout")
           \/ \E p \in Peers : Delete(p)
  <2>1. ui.pc = "idle" /\ ui'.pc = "writing" /\ UNCHANGED <<builder, built, receiver, saves>>
    BY <1>1 DEF SaveEndpoint, Save, Delete, Saving, countVars
  <2> QED BY <2>1 DEF FreshInv, ReadFresh
<1>2. CASE WindowWrites
  <2>1. ui.pc = "writing" /\ UNCHANGED <<builder, built, receiver>>
    BY <1>2 DEF WindowWrites
  <2>2. ui'.pc \in {"reloading", "pushing", "asking"}
    BY <1>2 DEF WindowWrites
  <2> QED BY <2>1, <2>2 DEF FreshInv
<1>3. CASE AskLayout \/ Push
  <2>1. ui.pc \in {"asking", "pushing"} /\ ui'.pc \in {"pushing", "reloading"}
        /\ UNCHANGED <<builder, built, receiver, saves>>
    BY <1>3 DEF AskLayout, Push, countVars
  <2> QED BY <2>1 DEF FreshInv
<1>4. CASE Reload
  <2>1. ui.pc = "reloading" /\ UNCHANGED <<built, receiver, ui, saves>>
    BY <1>4 DEF Reload, windowVars, countVars
  <2>2. DOMAIN builder = Builders /\ "window" \in Builders
    BY DEF FreshInv, Builders
  <2>3. DOMAIN builder' = Builders /\ ReadFresh("window")'
    BY <1>4, <2>1, <2>2 DEF Reload, Load, ReadFresh
  <2> QED BY <2>1, <2>3 DEF FreshInv
<1> QED BY <1>1, <1>2, <1>3, <1>4

LEMMA RefreshKeepsFresh ==
  ASSUME FreshInv, NEW r \in Refreshers, StartRefresh(r) \/ RefreshEnds(r)
  PROVE  FreshInv'
<1>1. /\ r \in Builders \ {"service", "ipc", "window"} /\ "window" \in Builders \ {r}
      /\ r # Nobody /\ Refreshers \subseteq Builders
  BY DesktopConfigAssumption DEF Builders
<1>2. CASE StartRefresh(r)
  <2>1. /\ ui.pc = "idle" /\ receiver' = r /\ UNCHANGED <<ui, saves>>
        /\ built' = [built EXCEPT ![r] = {}]
    BY <1>2 DEF StartRefresh, countVars
  <2>2. /\ DOMAIN builder' = Builders /\ builder'["window"] = builder["window"]
        /\ builder'[r].pc = "fetching" /\ builder'[r].since = saves
    BY <1>1, <1>2 DEF StartRefresh, Load, FreshInv
  <2>3. ReadFresh(r)' /\ (ReadFresh("window") => ReadFresh("window")')
    BY <2>1, <2>2 DEF ReadFresh
  <2> QED BY <1>1, <2>1, <2>2, <2>3 DEF FreshInv
<1>3. CASE RefreshEnds(r)
  <2>1. /\ builder[r].pc = "built" /\ builder' = [builder EXCEPT ![r] = Resting]
        /\ UNCHANGED <<ui, receiver, saves>>
        /\ built' = [built EXCEPT ![r] = IF receiver = r THEN {builder[r].view} ELSE {}]
    BY <1>3 DEF RefreshEnds, countVars
  <2>2. /\ DOMAIN builder' = Builders /\ DOMAIN built' = Refreshers
        /\ \A c \in Builders \ {r} : builder'[c] = builder[c] /\ (ReadFresh(c) => ReadFresh(c)')
        /\ \A q \in Refreshers \ {r} : built'[q] = built[q]
        /\ ReadFresh(r)'
    BY <1>1, <2>1 DEF FreshInv, ReadFresh, Resting
  <2>3. receiver = r /\ ReadFresh(r) =>
          \A result \in built'[r] : \A view \in result : view.since = saves
    BY <2>1 DEF FreshInv, ReadFresh
  <2> QED BY <1>1, <2>1, <2>2, <2>3 DEF FreshInv
<1> QED BY <1>2, <1>3

\* What the window takes over is fresh, and it listens to no thread afterwards.
LEMMA ShowIsFresh ==
  ASSUME FreshInv, Reloaded \/ Poll
  PROVE  FreshInv' /\ (shown' # shown => shown'.since = saves)
<1>1. CASE Reloaded
  <2>1. /\ receiver' = Nobody /\ builder' = [builder EXCEPT !["window"] = Resting]
        /\ builder["window"].pc = "built" /\ UNCHANGED <<built, saves>>
        /\ shown' # shown => shown' \in builder["window"].view
    BY <1>1 DEF Reloaded, Reset, ShowView, countVars
  <2>2. ReadFresh("window")
    BY <2>1 DEF FreshInv, Resting
  <2> QED BY <2>1, <2>2 DEF FreshInv, ReadFresh, Builders
<1>2. CASE Poll
  <2>1. /\ ui.pc = "idle" /\ receiver \in Refreshers /\ receiver' = Nobody
        /\ DOMAIN built' = DOMAIN built /\ UNCHANGED <<builder, ui, saves>>
    BY <1>2 DEF Poll, Polled, countVars
  <2>2. PICK result \in built[receiver] : shown' # shown => shown' \in result
    BY <1>2 DEF Poll, ShowView
  <2>3. \A view \in result : view.since = saves
    BY <2>1, <2>2, DesktopConfigAssumption DEF FreshInv
  <2>4. ReadFresh("window") => ReadFresh("window")'
    BY <2>1 DEF ReadFresh
  <2> QED BY <2>1, <2>2, <2>3, <2>4 DEF FreshInv
<1> QED BY <1>1, <1>2

LEMMA FreshStep ==
  ASSUME FreshInv, [ConfigNext]_configVars
  PROVE  FreshInv' /\ (shown' # shown => shown'.since = saves)
<1>1. CASE Reloaded \/ Poll
  BY <1>1, ShowIsFresh
<1>2. CASE UNCHANGED configVars
  BY <1>2, OthersKeepFresh DEF configVars
<1>3. CASE \E b \in Builders : \/ FetchTopology(b) \/ ReadText(b) \/ WriteText(b)
                               \/ BuildOffline(b) \/ BuildFails(b)
  <2>1. shown' = shown
    BY <1>3 DEF FetchTopology, ReadText, WriteText, BuildOffline, BuildFails, windowVars
  <2> QED BY <1>3, <2>1, BuildKeepsFresh
<1>4. CASE \/ ServiceBuilds \/ IpcReads \/ IpcWrites \/ IpcBuilds \/ IpcAnswers
           \/ OtherComputerSaves \/ Outage \/ Edit
  <2>1. shown' = shown
    BY <1>4 DEF ServiceBuilds, IpcReads, IpcWrites, IpcBuilds, IpcAnswers,
                OtherComputerSaves, Outage, Edit, windowVars
  <2> QED BY <1>4, <2>1, SurroundingsKeepFresh
<1>5. CASE \/ SaveEndpoint \/ Save("device") \/ Save("layout")
           \/ \E p \in Peers : Delete(p)
           \/ WindowWrites \/ AskLayout \/ Push \/ Reload
  <2>1. shown' = shown
    BY <1>5 DEF SaveEndpoint, Save, Delete, WindowWrites, AskLayout, Push, Reload, windowVars
  <2> QED BY <1>5, <2>1, SaveKeepsFresh
<1>6. CASE \E r \in Refreshers : StartRefresh(r) \/ RefreshEnds(r)
  <2>1. shown' = shown
    BY <1>6 DEF StartRefresh, RefreshEnds
  <2> QED BY <1>6, <2>1, RefreshKeepsFresh
<1> QED BY <1>1, <1>2, <1>3, <1>4, <1>5, <1>6 DEF ConfigNext

\* What the window starts to show was read after its last save, for any number of refreshes
\* and whatever the service and the local IPC do meanwhile (NativeBackgroundRefresh::reset).
THEOREM WindowShowsFresh == ConfigSpec => ShownIsFresh
<1>1. ASSUME FreshInv, [ConfigNext]_configVars
      PROVE  [shown' # shown => shown'.since = saves]_shown
  BY <1>1, FreshStep
<1>2. FreshInv /\ [ConfigNext]_configVars => FreshInv'
  BY FreshStep
<1> QED BY InitFresh, <1>1, <1>2, PTL DEF ConfigSpec, ShownIsFresh
=============================================================================
