------------------------------ MODULE Telemetry ------------------------------
(***************************************************************************)
(* What the program counts and reports of itself (crates/kmsync/src/       *)
(* main.rs): the counters of the capture queue, changed by the capture     *)
(* callback and the transmit thread and read by the metrics reporter; the  *)
(* latencies recorded by the listener's threads; the crash reports of      *)
(* panicking threads.  No lock is held anywhere: every read or change of   *)
(* an atomic is a step.                                                    *)
(***************************************************************************)
EXTENDS Integers, FiniteSets

CONSTANTS
  Capacity,   \* of the capture queue
  MaxEvents,  \* bound: input events
  Recorders,  \* threads that record a latency
  Latencies,  \* in microseconds
  Panicking,  \* threads that panic
  Times       \* milliseconds at which they do

ASSUME TelemetryAssumption ==
  /\ Capacity \in Nat \ {0} /\ MaxEvents \in Nat
  /\ Latencies \subseteq Nat /\ Times \subseteq Nat /\ IsFiniteSet(Panicking)

VARIABLES
  queue,     \* events in the channel
  open,      \* the transmit thread holds the receiver
  capture,   \* where the callback is: "idle", "reserved", "sent", "full", "gone"
  transmit,  \* where the transmit thread is: "idle", "received"
  stats,     \* CaptureQueueStatsInner
  arrived,      \* input events so far
  reporter,  \* where the reporter is: "asleep", "awake", "reading", "read", "ended"
  seen,      \* the part of a snapshot read
  stop,      \* RuntimeMetricsReporter.stop
  joined,    \* the reporter was dropped
  report,    \* the last RuntimeMetricsSnapshot
  recording, \* thread -> <<>> or <<latency stored, its maximum not yet>>
  latency,   \* last and max
  recorded,  \* history: latencies
  panicked,  \* thread -> how far its hook is, the time and the number it has
  sequence,  \* CRASH_REPORT_SEQUENCE
  files      \* the crash reports: name -> thread

queueVars == <<queue, open, capture, transmit, stats, arrived>>
reporterVars == <<reporter, seen, stop, joined, report>>
latencyVars == <<recording, latency, recorded>>
crashVars == <<panicked, sequence, files>>
telemetryVars == <<queueVars, reporterVars, latencyVars, crashVars>>

Hook(at, time, number) == [at |-> at, time |-> time, sequence |-> number]

Zero == [depth |-> 0, enqueued |-> 0, full |-> 0, gone |-> 0]

TelemetryInit ==
  /\ queue = 0 /\ open = TRUE /\ capture = "idle" /\ transmit = "idle" /\ stats = Zero /\ arrived = 0
  /\ reporter = "asleep" /\ seen = Zero /\ stop = FALSE /\ joined = FALSE
  /\ report = [depth |-> 0, enqueued |-> 0, dropped |-> 0, rate |-> 0]
  /\ recording = [r \in Recorders |-> <<>>] /\ latency = [last |-> 0, max |-> 0] /\ recorded = {}
  /\ panicked = [p \in Panicking |-> Hook("no", 0, 0)] /\ sequence = 0 /\ files = [n \in {} |-> 0]

-----------------------------------------------------------------------------
(* The queue                                                               *)

(* The event is sent before its place is counted.                          *)
MutantReserve ==
  /\ capture = "idle" /\ arrived < MaxEvents
  /\ arrived' = arrived + 1
  /\ capture' = IF ~open THEN "gone" ELSE IF queue < Capacity THEN "sent" ELSE "full"
  /\ queue' = IF open /\ queue < Capacity THEN queue + 1 ELSE queue
  /\ UNCHANGED <<open, transmit, stats, reporterVars, latencyVars, crashVars>>

(* record_enqueue_reserved                                                 *)
Reserve ==
  /\ capture = "idle" /\ arrived < MaxEvents
  /\ arrived' = arrived + 1 /\ capture' = "reserved"
  /\ stats' = [stats EXCEPT !.depth = @ + 1]
  /\ UNCHANGED <<queue, open, transmit, reporterVars, latencyVars, crashVars>>

(* try_send, which a press or a release repeats for a while before it is   *)
(* given up.                                                               *)
TrySend ==
  /\ capture = "reserved"
  /\ capture' = IF ~open THEN "gone" ELSE IF queue < Capacity THEN "sent" ELSE "full"
  /\ queue' = IF open /\ queue < Capacity THEN queue + 1 ELSE queue
  /\ UNCHANGED <<open, transmit, stats, arrived, reporterVars, latencyVars, crashVars>>

(* record_dequeued: fetch_update with checked_sub                          *)
Fewer(depth) == IF depth = 0 THEN 0 ELSE depth - 1

(* record_enqueue_committed; or record_enqueue_canceled and the drop.  Two *)
(* steps, which the reporter may come between.                             *)
Commit ==
  /\ capture = "sent"
  /\ capture' = "idle" /\ stats' = [stats EXCEPT !.enqueued = @ + 1]
  /\ UNCHANGED <<queue, open, transmit, arrived, reporterVars, latencyVars, crashVars>>

Cancel ==
  /\ capture \in {"full", "gone"}
  /\ capture' = IF capture = "full" THEN "full canceled" ELSE "gone canceled"
  /\ stats' = [stats EXCEPT !.depth = Fewer(@)]
  /\ UNCHANGED <<queue, open, transmit, arrived, reporterVars, latencyVars, crashVars>>

CountDrop ==
  /\ capture \in {"full canceled", "gone canceled"}
  /\ capture' = "idle"
  /\ stats' = IF capture = "full canceled" THEN [stats EXCEPT !.full = @ + 1]
              ELSE [stats EXCEPT !.gone = @ + 1]
  /\ UNCHANGED <<queue, open, transmit, arrived, reporterVars, latencyVars, crashVars>>

(* recv_counted and try_recv_counted: the event, then its count.           *)
Receive ==
  /\ open /\ transmit = "idle" /\ queue > 0
  /\ queue' = queue - 1 /\ transmit' = "received"
  /\ UNCHANGED <<open, capture, stats, arrived, reporterVars, latencyVars, crashVars>>

CountReceived ==
  /\ transmit = "received"
  /\ transmit' = "idle" /\ stats' = [stats EXCEPT !.depth = Fewer(@)]
  /\ UNCHANGED <<queue, open, capture, arrived, reporterVars, latencyVars, crashVars>>

(* A failed send ends the transmit thread and with it the receiver.        *)
TransmitEnds ==
  /\ open /\ transmit = "idle"
  /\ open' = FALSE
  /\ UNCHANGED <<queue, capture, transmit, stats, arrived, reporterVars, latencyVars, crashVars>>

-----------------------------------------------------------------------------
(* RuntimeMetricsReporter                                                  *)

Wake ==
  /\ reporter = "asleep"
  /\ reporter' = IF stop THEN "ended" ELSE "awake"
  /\ UNCHANGED <<queueVars, seen, stop, joined, report, latencyVars, crashVars>>

(* CaptureQueueStats::snapshot loads one counter after the other; what     *)
(* comes between the first two is left out.                                *)
ReadDepth ==
  /\ reporter = "awake"
  /\ reporter' = "reading" /\ seen' = [Zero EXCEPT !.depth = stats.depth, !.enqueued = stats.enqueued]
  /\ UNCHANGED <<queueVars, stop, joined, report, latencyVars, crashVars>>

ReadDrops ==
  /\ reporter = "reading"
  /\ reporter' = "read" /\ seen' = [seen EXCEPT !.full = stats.full, !.gone = stats.gone]
  /\ UNCHANGED <<queueVars, stop, joined, report, latencyVars, crashVars>>

(* drop_rate_ppm                                                           *)
DropRate(dropped, total) == IF total = 0 THEN 0 ELSE (dropped * 1000000) \div total

(* from_parts, log_runtime_metrics; the loop looks at stop again.          *)
Report ==
  /\ reporter = "read"
  /\ LET dropped == seen.full + seen.gone
     IN  report' = [depth |-> seen.depth, enqueued |-> seen.enqueued, dropped |-> dropped,
                    rate |-> DropRate(dropped, seen.enqueued + dropped)]
  /\ reporter' = IF stop THEN "ended" ELSE "asleep"
  /\ UNCHANGED <<queueVars, seen, stop, joined, latencyVars, crashVars>>

(* drop: stop, then join.                                                  *)
StopReporter ==
  /\ ~stop
  /\ stop' = TRUE
  /\ UNCHANGED <<queueVars, reporter, seen, joined, report, latencyVars, crashVars>>

Join ==
  /\ stop /\ ~joined /\ reporter = "ended"
  /\ joined' = TRUE
  /\ UNCHANGED <<queueVars, reporter, seen, stop, report, latencyVars, crashVars>>

-----------------------------------------------------------------------------
(* ListenerLatencyStats: store of the last, then fetch_max.                *)
StoreLast(r, v) ==
  /\ recording[r] = <<>> /\ v \notin recorded
  /\ recording' = [recording EXCEPT ![r] = <<v>>]
  /\ latency' = [latency EXCEPT !.last = v] /\ recorded' = recorded \cup {v}
  /\ UNCHANGED <<queueVars, reporterVars, crashVars>>

FetchMax(r) ==
  /\ recording[r] # <<>>
  /\ latency' = [latency EXCEPT !.max = IF @ < recording[r][1] THEN recording[r][1] ELSE @]
  /\ recording' = [recording EXCEPT ![r] = <<>>]
  /\ UNCHANGED <<queueVars, reporterVars, recorded, crashVars>>

-----------------------------------------------------------------------------
(* The hook of a panic: the time is taken, then a number, then the file is *)
(* written under both and the process id.                                  *)
Panic(p, t) ==
  /\ panicked[p].at = "no"
  /\ panicked' = [panicked EXCEPT ![p] = Hook("stamped", t, 0)]
  /\ UNCHANGED <<queueVars, reporterVars, latencyVars, sequence, files>>

Numbered(p) == Hook("numbered", panicked[p].time, sequence)

TakeNumber(p) ==
  /\ panicked[p].at = "stamped"
  /\ panicked' = [panicked EXCEPT ![p] = Numbered(p)] /\ sequence' = sequence + 1
  /\ UNCHANGED <<queueVars, reporterVars, latencyVars, files>>

WriteReport(p) ==
  LET name == <<panicked[p].time, panicked[p].sequence>>
  IN  /\ panicked[p].at = "numbered"
      /\ files' = [n \in DOMAIN files \cup {name} |-> IF n = name THEN p ELSE files[n]]
      /\ panicked' = [panicked EXCEPT ![p].at = "written"]
      /\ UNCHANGED <<queueVars, reporterVars, latencyVars, sequence>>

TelemetryNext ==
  \/ Reserve \/ TrySend \/ Commit \/ Cancel \/ CountDrop \/ Receive \/ CountReceived \/ TransmitEnds
  \/ Wake \/ ReadDepth \/ ReadDrops \/ Report \/ StopReporter \/ Join
  \/ \E r \in Recorders : FetchMax(r) \/ (\E v \in Latencies : StoreLast(r, v))
  \/ \E p \in Panicking : TakeNumber(p) \/ WriteReport(p) \/ (\E t \in Times : Panic(p, t))

TelemetrySpec == TelemetryInit /\ [][TelemetryNext]_telemetryVars

-----------------------------------------------------------------------------
(* The depth shown is that of the queue whenever neither side is at work,  *)
(* and never less than it: a count that reaches zero too early would be    *)
(* off by one for good (record_enqueue_reserved comes before try_send).    *)
DepthIsTrue ==
  open => /\ stats.depth >= queue
          /\ capture = "idle" /\ transmit = "idle" => stats.depth = queue

(* No event is left out or counted twice once the callback is done.        *)
EveryEventCounts ==
  capture = "idle" => stats.enqueued + stats.full + stats.gone = arrived

(* A thread that has written its crash report keeps it, whoever else       *)
(* panics in the same millisecond.                                         *)
ReportsKept ==
  \A p \in Panicking : panicked[p].at = "written" => \E n \in DOMAIN files : files[n] = p

(* The maximum covers every latency recorded, once all threads are done.   *)
MaxCovers ==
  (\A r \in Recorders : recording[r] = <<>>) => \A v \in recorded : v <= latency.max
=============================================================================
