------------------------------- MODULE Listener --------------------------------
(***************************************************************************)
(* The threads of the core service of a device and how their failures      *)
(* meet: run_core_service, run_listener_with_relay, receive_remote_frames, *)
(* run_relay_receive_loop and the two functions that wait for results, of  *)
(* crates/kmsync/src/main.rs.                                              *)
(*                                                                         *)
(* Two receive threads, one on the QUIC endpoint and one on the relay,     *)
(* sort frames into three bounded channels, each read by one worker.  The  *)
(* listener's main thread waits for their results, the core service for    *)
(* those of its components.  The process ends with the core service.       *)
(*                                                                         *)
(* What a frame does is left to InputInjection; here a channel is the      *)
(* number of frames in it.  The channels stay open: the listener's main    *)
(* thread and the relay thread keep senders for all of them, so a worker   *)
(* ends only by its own error, and the control worker never.  File frames  *)
(* are logged and touch no state.                                          *)
(***************************************************************************)
EXTENDS Naturals, Sequences, SequencesExt, FiniteSets

CONSTANTS
  Retried,         \* components started again: heartbeat and, except on macOS, desktop_capture
  NoFrame,         \* a receive thread is waiting in recv_frame
  Capacity,        \* of the channels: input 1024, clipboard 16, control 32
  MaxReports       \* bound: reports of restarting components not yet read

Links == {"direct", "relay"}
Workers == {"injection", "clipboard", "control"}
Components == Retried \cup {"local_ipc"}

(* A key or button, a scroll: the reliable lane; a relative move: not.     *)
Kinds == {"key", "move", "clipboard", "control"}

(* The channel a frame goes into is named after the worker that reads it. *)
WorkerFor(k) == IF k \in {"key", "move"} THEN "injection" ELSE k

ASSUME ListenerAssumption ==
  /\ Retried \subseteq {"heartbeat", "desktop_capture"}
  /\ NoFrame \notin Kinds
  /\ Capacity \in [Workers -> Nat \ {0}]
  /\ MaxReports \in Nat \ {0}

VARIABLES
  service,    \* the process of the core service
  component,  \* the component threads beside the data plane
  reports,    \* the channel of CoreServiceThreadResult
  listener,   \* the data-plane thread: run_listener_with_relay
  results,    \* the channel of ListenerThreadResult
  links,      \* the two receive threads
  holding,    \* the frame a receive thread has taken from its link
  queue,      \* the number of frames in each worker's channel
  worker,     \* the three worker threads
  dropped     \* history: the kinds of frames dropped at a full channel

serviceVars == <<service, component, reports>>
receiveVars == <<links, holding, dropped>>
listenerVars == <<serviceVars, listener, results, receiveVars, queue, worker>>

ListenerInit ==
  /\ service = "running"
  /\ component = [c \in Components |-> "running"] /\ reports = <<>>
  /\ listener = "binding" /\ results = <<>>
  /\ links = [l \in Links |-> "idle"] /\ holding = [l \in Links |-> NoFrame]
  /\ queue = [w \in Workers |-> 0] /\ worker = [w \in Workers |-> "idle"]
  /\ dropped = {}

Running == service = "running"

-----------------------------------------------------------------------------
(* Start of the listener: the endpoint is bound, the threads are spawned;  *)
(* the relay thread begins by connecting.                                  *)
StartListener ==
  /\ Running /\ listener = "binding"
  /\ listener' = "waiting"
  /\ links' = [links EXCEPT !["direct"] = "open", !["relay"] = "connecting"]
  /\ worker' = [w \in Workers |-> "running"]
  /\ UNCHANGED <<serviceVars, results, holding, dropped, queue>>

BindFails ==
  /\ Running /\ listener = "binding"
  /\ listener' = "bind_failed"
  /\ reports' = Append(reports, "data_plane")
  /\ UNCHANGED <<service, component, results, receiveVars, queue, worker>>

-----------------------------------------------------------------------------
(* The receive threads.                                                    *)

TakeFrame(l, k) ==
  /\ Running /\ links[l] = "open" /\ holding[l] = NoFrame
  /\ holding' = [holding EXCEPT ![l] = k]
  /\ UNCHANGED <<serviceVars, listener, results, links, dropped, queue, worker>>

(* receive_remote_frames returned an error.  The thread on the QUIC        *)
(* endpoint reports it and is gone; the relay thread connects again.       *)
EndReceive(l) ==
  /\ links' = [links EXCEPT ![l] = IF l = "direct" THEN "ended" ELSE "connecting"]
  /\ results' = IF l = "direct" THEN Append(results, "receive") ELSE results

(* recv_frame failed: the relay is gone, or any connection of the endpoint *)
(* has closed, a handshake failed, a frame was refused.                    *)
LinkFails(l) ==
  /\ Running /\ links[l] = "open" /\ holding[l] = NoFrame
  /\ EndReceive(l)
  /\ UNCHANGED <<serviceVars, listener, holding, dropped, queue, worker>>

RelayConnects ==
  /\ Running /\ links["relay"] = "connecting"
  /\ links' = [links EXCEPT !["relay"] = "open"]
  /\ UNCHANGED <<serviceVars, listener, results, holding, dropped, queue, worker>>

HasRoom(k) == queue[WorkerFor(k)] < Capacity[WorkerFor(k)]
Served(k) == worker[WorkerFor(k)] = "running"

(* Mutant: the receive thread waits for the clipboard worker as well. *)
MutantMayDropMoves(k) == k = "move"

(* try_send, for all but the reliable input frames *)
MayDrop(k) == k # "key"

(* A frame goes into its channel, or is dropped when the channel is full;  *)
(* a reliable input frame waits there for room.                            *)
Dispatch(l) ==
  /\ Running /\ holding[l] # NoFrame
  /\ LET k == holding[l] IN
       /\ Served(k)
       /\ \/ /\ HasRoom(k)
             /\ queue' = [queue EXCEPT ![WorkerFor(k)] = @ + 1]
             /\ UNCHANGED dropped
          \/ /\ ~HasRoom(k) /\ MayDrop(k)
             /\ dropped' = dropped \cup {k}
             /\ UNCHANGED queue
  /\ holding' = [holding EXCEPT ![l] = NoFrame]
  /\ UNCHANGED <<serviceVars, listener, results, links, worker>>

(* The worker is gone: the send fails and the receive loop with it.        *)
DispatchFails(l) ==
  /\ Running /\ holding[l] # NoFrame /\ ~Served(holding[l])
  /\ EndReceive(l)
  /\ holding' = [holding EXCEPT ![l] = NoFrame]
  /\ UNCHANGED <<serviceVars, listener, dropped, queue, worker>>

-----------------------------------------------------------------------------
(* The workers.                                                            *)

Work(w) ==
  /\ Running /\ worker[w] = "running" /\ queue[w] > 0
  /\ queue' = [queue EXCEPT ![w] = @ - 1]
  /\ UNCHANGED <<serviceVars, listener, results, receiveVars, worker>>

(* The platform adapter refuses an injection or a clipboard write: the     *)
(* thread returns the error, its channel goes with it.                     *)
WorkFails(w) ==
  /\ Running /\ worker[w] = "running" /\ queue[w] > 0 /\ w # "control"
  /\ worker' = [worker EXCEPT ![w] = "failed"]
  /\ queue' = [queue EXCEPT ![w] = 0]
  /\ results' = Append(results, w)
  /\ UNCHANGED <<serviceVars, listener, receiveVars>>

-----------------------------------------------------------------------------
(* The waiting threads.                                                    *)

(* Mutant: results are collected until all four are there. *)
MutantEndsListener(r) == FALSE

(* A worker's error ends the wait at once; the result of the receive       *)
(* thread is kept until all four are there, which they never are.          *)
EndsListener(r) == r # "receive"

WaitListener ==
  /\ Running /\ listener = "waiting" /\ results # <<>>
  /\ results' = Tail(results)
  /\ IF EndsListener(Head(results))
       THEN listener' = "returned" /\ reports' = Append(reports, "data_plane")
       ELSE UNCHANGED <<listener, reports>>
  /\ UNCHANGED <<service, component, receiveVars, queue, worker>>

(* The heartbeat and the capture thread report their end and start again   *)
(* after a pause; serving local requests ends with the first error.        *)
ComponentEnds(c) ==
  /\ Running /\ component[c] = "running" /\ Len(reports) < MaxReports
  /\ component' = [component EXCEPT ![c] = "ended"]
  /\ reports' = Append(reports, c)
  /\ UNCHANGED <<service, listener, results, receiveVars, queue, worker>>

ComponentRestarts(c) ==
  /\ Running /\ c \in Retried /\ component[c] = "ended"
  /\ component' = [component EXCEPT ![c] = "running"]
  /\ UNCHANGED <<service, reports, listener, results, receiveVars, queue, worker>>

(* core_service_action_for_worker_result *)
StopsService(c) == c \notin Retried

WaitCore ==
  /\ Running /\ reports # <<>>
  /\ reports' = Tail(reports)
  /\ service' = IF StopsService(Head(reports)) THEN "stopped" ELSE service
  /\ UNCHANGED <<component, listener, results, receiveVars, queue, worker>>

-----------------------------------------------------------------------------
ListenerNext ==
  \/ StartListener \/ BindFails \/ RelayConnects \/ WaitListener \/ WaitCore
  \/ \E l \in Links :
       \/ LinkFails(l) \/ Dispatch(l) \/ DispatchFails(l)
       \/ \E k \in Kinds : TakeFrame(l, k)
  \/ \E w \in Workers : Work(w) \/ WorkFails(w)
  \/ \E c \in Components : ComponentEnds(c) \/ ComponentRestarts(c)

ListenerSpec == ListenerInit /\ [][ListenerNext]_listenerVars

(* The threads run.  Senders blocked on a full channel are served in turn  *)
(* (strong fairness of Dispatch).  The clipboard and the control worker    *)
(* may hang in the operating system for ever, connections may never come.  *)
ListenerFairness ==
  /\ WF_listenerVars(WaitListener) /\ WF_listenerVars(WaitCore)
  /\ WF_listenerVars(Work("injection") \/ WorkFails("injection"))
  /\ \A l \in Links : SF_listenerVars(Dispatch(l)) /\ WF_listenerVars(DispatchFails(l))

ListenerFairSpec == ListenerSpec /\ ListenerFairness

-----------------------------------------------------------------------------
(* Types; no channel holds more than its capacity.                         *)
ListenerTypeOK ==
  /\ service \in {"running", "stopped"}
  /\ component \in [Components -> {"running", "ended"}]
  /\ reports \in Seq(Components \cup {"data_plane"})
  /\ listener \in {"binding", "bind_failed", "waiting", "returned"}
  /\ results \in Seq({"receive", "injection", "clipboard"})
  /\ links["direct"] \in {"idle", "open", "ended"}
  /\ links["relay"] \in {"idle", "connecting", "open"}
  /\ holding \in [Links -> Kinds \cup {NoFrame}]
  /\ \A w \in Workers : queue[w] \in 0 .. Capacity[w]
  /\ worker \in [Workers -> {"idle", "running", "failed"}]
  /\ dropped \subseteq Kinds

(* Only what cannot be retried stops the process: the endpoint cannot be   *)
(* bound, a worker failed, local requests cannot be served.  No network    *)
(* failure, no heartbeat and no capture failure does.                      *)
StopsOnlyForCause ==
  service = "stopped" =>
    \/ listener = "bind_failed"
    \/ \E w \in Workers : worker[w] = "failed"
    \/ component["local_ipc"] = "ended"

(* A key frame that a receive thread has taken is never dropped at a full  *)
(* channel.                                                                *)
KeysNotDropped == "key" \notin dropped

(* A worker that failed takes the process down, to be started afresh: the  *)
(* service does not live on with input or clipboard dead.                  *)
FailureStopsService ==
  \A w \in Workers : worker[w] = "failed" ~> service = "stopped"

(* No receive thread stays with a frame for ever: not on a full input      *)
(* channel, and not because the clipboard or the control worker hangs.     *)
ReceiveLoopsMove ==
  \A l \in Links : holding[l] # NoFrame ~> holding[l] = NoFrame \/ service = "stopped"

(* The claim that the device becomes reachable again after a network       *)
(* change: a direct receive loop that ended is started again.              *)
DirectReceivesAgain ==
  links["direct"] = "ended" ~> links["direct"] = "open" \/ service = "stopped"
=============================================================================
