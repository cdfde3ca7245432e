--------------------------- MODULE InputInjection ---------------------------
(***************************************************************************)
(* The injection thread of a receiving device: inject_received_frames of   *)
(* crates/kmsync/src/main.rs with the ReliableInputSequencer, the map of   *)
(* early mouse moves, the gap-recovery deadline and the RemoteInputState   *)
(* that remembers which keys and buttons it pressed.                       *)
(*                                                                         *)
(* One thread owns all of this state; it takes frames from a bounded       *)
(* channel that the QUIC and relay receive threads fill.  A pass of the    *)
(* loop of the code is cut at the calls that can fail, which are those of  *)
(* the platform adapter and the reading of the clock for the statistics:   *)
(*                                                                         *)
(*   recv    the head of the loop: wait for a frame or for the deadline    *)
(*   inject  a frame has been accepted and is about to be injected         *)
(*   drain   inject_ready_pending_input_frames looks for the next frame    *)
(*   exit    the channel is closed: the recovery loop behind the main loop *)
(*   stopped       the thread returned Ok                                  *)
(*   failed        it returned an error of the adapter                     *)
(*   clockless     it returned an error of the clock                       *)
(*                                                                         *)
(* The thread has no choice between these steps: in each control state its *)
(* guards are exclusive, but for the outcome of adapter and clock and the  *)
(* age of a mouse move.                                                    *)
(***************************************************************************)
EXTENDS Naturals, Sequences, FiniteSets

CONSTANTS
  Keys,            \* keys and mouse buttons (RemoteInputState keeps both alike)
  Targets,         \* the device ids a frame may name as its target
  NoTarget,        \* current_target_device_id = None
  NoFrame,         \* no frame is about to be injected
  Frames,          \* the frames that senders may transmit
  ReorderWindow,   \* RELIABLE_INPUT_REORDER_WINDOW (64 in the code)
  QueueCapacity    \* the sync_channel between receive and injection (1024)

(* What an input event does to the pressed keys.  Every event that presses *)
(* or releases nothing (a position, a scroll, a relative move) is "none".  *)
Events == [kind : {"press", "release"}, key : Keys] \cup [kind : {"none"}]

(* A frame: its per-sender sequence number, the lane it travels on and its *)
(* content.  Only relative mouse moves use the unreliable lane.            *)
FrameType ==
  [seq : Nat, reliable : BOOLEAN, target : Targets, event : Events]

ASSUME FramesAssumption ==
  /\ Frames \subseteq FrameType
  /\ \A f \in Frames : ~f.reliable => f.event = [kind |-> "none"]

ASSUME SentinelAssumption == NoTarget \notin Targets /\ NoFrame \notin Frames

ASSUME BoundsAssumption ==
  /\ ReorderWindow \in Nat
  /\ QueueCapacity \in Nat \ {0}

VARIABLES
  queue,       \* the channel input_tx / input_rx
  closed,      \* every input_tx has been dropped
  pc,          \* control state of the injection thread
  exiting,     \* the thread is in the loop behind the main loop
  current,     \* the frame accepted for injection
  nextSequence, \* ReliableInputSequencer.next_sequence
  pending,     \* ReliableInputSequencer.pending
  early,       \* pending_unreliable_input
  deadline,    \* InputGapRecovery.deadline
  target,      \* current_target_device_id
  tracked,     \* RemoteInputState: what the thread believes it holds down
  held,        \* what the operating system of the receiver holds down
  lost,        \* history: releases of tracked input the adapter refused
  injected     \* history: sequence number of the last injected frame

seqVars  == <<nextSequence, pending, early>>
keyVars  == <<target, tracked, held, lost>>
vars == <<queue, closed, pc, exiting, current, nextSequence, pending, early,
          deadline, target, tracked, held, lost, injected>>

Init ==
  /\ queue = <<>> /\ closed = FALSE
  /\ pc = "recv" /\ exiting = FALSE /\ current = NoFrame
  /\ nextSequence = 1 /\ pending = {} /\ early = {}
  /\ deadline = "none"
  /\ target = NoTarget /\ tracked = {} /\ held = {} /\ lost = {}
  /\ injected = 0

-----------------------------------------------------------------------------
(* Pending frames.  The two BTreeMaps are sets of frames in which no two   *)
(* have the same sequence number.                                          *)

Seqs(S) == {f.seq : f \in S}

(* entry(sequence).or_insert(received): the first frame with a number wins *)
InsertIfAbsent(S, f) == IF f.seq \in Seqs(S) THEN S ELSE S \cup {f}

(* next_pending_input_sequence = Some(n) *)
IsNextPending(n) ==
  /\ n \in Seqs(pending \cup early)
  /\ \A m \in Seqs(pending \cup early) : n <= m

(* Mutant: a gap of a single number is overlooked. *)
MutantHasGap ==
  \E n \in Seqs(pending \cup early) : IsNextPending(n) /\ n > nextSequence + 1

(* has_pending_input_gap: the lowest number that is buffered lies ahead    *)
HasGap == \E n \in Seqs(pending \cup early) : IsNextPending(n) /\ n > nextSequence

-----------------------------------------------------------------------------
(* The receive threads: queue_received_input_frame blocks for a reliable   *)
(* frame while the channel is full and drops a mouse move.  Once the       *)
(* injection thread has returned, the channel is gone.                     *)

Returned == pc \in {"stopped", "failed", "clockless"}

QueueReliable(f) ==
  /\ f.reliable /\ ~closed /\ ~Returned
  /\ Len(queue) < QueueCapacity
  /\ queue' = Append(queue, f)
  /\ UNCHANGED <<closed, pc, exiting, current, deadline, injected>>
  /\ UNCHANGED seqVars /\ UNCHANGED keyVars

QueueUnreliable(f) ==
  /\ ~f.reliable /\ ~closed /\ ~Returned
  /\ queue' = IF Len(queue) < QueueCapacity THEN Append(queue, f) ELSE queue
  /\ UNCHANGED <<closed, pc, exiting, current, deadline, injected>>
  /\ UNCHANGED seqVars /\ UNCHANGED keyVars

(* The last receive thread that holds an input_tx returned. *)
CloseQueue ==
  /\ ~closed /\ closed' = TRUE
  /\ UNCHANGED <<queue, pc, exiting, current, deadline, injected>>
  /\ UNCHANGED seqVars /\ UNCHANGED keyVars

-----------------------------------------------------------------------------
(* Input state of the receiver.                                            *)

Apply(e, S) ==
  CASE e.kind = "press"   -> S \cup {e.key}
    [] e.kind = "release" -> S \ {e.key}
    [] e.kind = "none"    -> S

(* Mutant: the set is emptied and nothing is released. *)
MutantReleaseTracked(refused) ==
  refused = {} /\ tracked' = {} /\ UNCHANGED <<held, lost>>

(* release_tracked_input: the tracked set is emptied before the adapter is *)
(* called; the releases in refused failed and stay down.                   *)
ReleaseTracked(refused) ==
  /\ refused \subseteq tracked
  /\ tracked' = {}
  /\ held' = (held \ tracked) \cup refused
  /\ lost' = lost \cup refused

-----------------------------------------------------------------------------
(* The head of the loop.                                                   *)

(* The thread may receive: it blocks without a gap (which also clears the  *)
(* deadline) and waits no longer than the deadline with one.               *)
MayReceive ==
  /\ pc = "recv" /\ queue # <<>>
  /\ IF HasGap THEN deadline = "armed" /\ UNCHANGED deadline
               ELSE deadline' = "none"

ArmDeadline ==
  /\ pc = "recv" /\ HasGap /\ deadline = "none"
  /\ deadline' = "armed"
  /\ UNCHANGED <<queue, closed, pc, exiting, current, injected>>
  /\ UNCHANGED seqVars /\ UNCHANGED keyVars

(* 20 ms pass, whatever the thread is doing. *)
DeadlinePasses ==
  /\ deadline = "armed" /\ deadline' = "expired"
  /\ UNCHANGED <<queue, closed, pc, exiting, current, injected>>
  /\ UNCHANGED seqVars /\ UNCHANGED keyVars

(* recover_pending_input_gap: skip to the lowest buffered number and look  *)
(* for frames that are ready now.  skip_to_sequence never goes back.       *)
SkipGap ==
  /\ \E n \in Seqs(pending \cup early) :
       IsNextPending(n) /\ nextSequence' = IF n > nextSequence THEN n ELSE nextSequence
  /\ pc' = "drain"
  /\ UNCHANGED <<pending, early>>

RecoverGap ==
  /\ pc = "recv" /\ HasGap /\ deadline = "expired"
  /\ deadline' = "none"
  /\ SkipGap
  /\ UNCHANGED <<queue, closed, exiting, current, injected>>
  /\ UNCHANGED keyVars

(* A frame numbered below next is dropped on either lane. *)
DropOld ==
  /\ MayReceive
  /\ Head(queue).seq < nextSequence
  /\ queue' = Tail(queue)
  /\ UNCHANGED <<closed, pc, exiting, current, injected>>
  /\ UNCHANGED seqVars /\ UNCHANGED keyVars

(* ReliableInputDecision::Inject, or a mouse move that is next in line.    *)
(* Only the reliable frame advances next before it is injected.            *)
AcceptNext ==
  /\ MayReceive
  /\ LET f == Head(queue) IN
       /\ f.seq = nextSequence
       /\ current' = f
       /\ nextSequence' = IF f.reliable THEN nextSequence + 1 ELSE nextSequence
  /\ queue' = Tail(queue)
  /\ pc' = "inject"
  /\ UNCHANGED <<closed, exiting, pending, early, injected>>
  /\ UNCHANGED keyVars

(* Mutant: a frame that comes early is not kept. *)
MutantBufferNothing ==
  /\ MayReceive
  /\ LET f == Head(queue) IN
       f.reliable /\ f.seq > nextSequence /\ f.seq - nextSequence <= ReorderWindow
  /\ queue' = Tail(queue)
  /\ UNCHANGED <<closed, pc, exiting, current, injected>>
  /\ UNCHANGED seqVars /\ UNCHANGED keyVars

(* ReliableInputDecision::Buffer *)
BufferReliable ==
  /\ MayReceive
  /\ LET f == Head(queue) IN
       /\ f.reliable /\ f.seq > nextSequence /\ f.seq - nextSequence <= ReorderWindow
       /\ pending' = InsertIfAbsent(pending, f)
  /\ queue' = Tail(queue)
  /\ UNCHANGED <<closed, pc, exiting, current, nextSequence, early, injected>>
  /\ UNCHANGED keyVars

(* A mouse move ahead of next is kept, however far ahead it is. *)
BufferEarlyMove ==
  /\ MayReceive
  /\ LET f == Head(queue) IN
       /\ ~f.reliable /\ f.seq > nextSequence
       /\ early' = InsertIfAbsent(early, f)
  /\ queue' = Tail(queue)
  /\ UNCHANGED <<closed, pc, exiting, current, nextSequence, pending, injected>>
  /\ UNCHANGED keyVars

(* Mutant: next is the frame itself, not the number behind it. *)
MutantJumpAhead ==
  /\ MayReceive
  /\ LET f == Head(queue) IN
       /\ f.reliable /\ f.seq > nextSequence /\ f.seq - nextSequence > ReorderWindow
       /\ pending' = {} /\ nextSequence' = f.seq
       /\ ReleaseTracked({}) /\ pc' = "inject" /\ current' = f
  /\ queue' = Tail(queue)
  /\ UNCHANGED <<closed, exiting, early, target, injected>>

(* ReliableInputDecision::Recover: give up what is pending, release what   *)
(* is tracked, go on behind the frame.  The early moves are not cleared.   *)
JumpAhead ==
  /\ MayReceive
  /\ LET f == Head(queue) IN
       /\ f.reliable /\ f.seq > nextSequence /\ f.seq - nextSequence > ReorderWindow
       /\ pending' = {}
       /\ nextSequence' = f.seq + 1
       /\ \E refused \in SUBSET tracked :
            /\ ReleaseTracked(refused)
            /\ IF refused = {} THEN pc' = "inject" /\ current' = f
                               ELSE pc' = "failed" /\ current' = NoFrame
  /\ queue' = Tail(queue)
  /\ UNCHANGED <<closed, exiting, early, target, injected>>

(* recv failed: all senders are gone and the channel is empty. *)
LeaveLoop ==
  /\ pc = "recv" /\ closed /\ queue = <<>>
  /\ HasGap => deadline = "armed"
  /\ pc' = "exit" /\ exiting' = TRUE /\ deadline' = "none"
  /\ UNCHANGED <<queue, closed, current, injected>>
  /\ UNCHANGED seqVars /\ UNCHANGED keyVars

-----------------------------------------------------------------------------
(* inject_received_input_frame_and_record, then observe_unreliable_sequence *)

AfterInjection(f) == IF ~f.reliable /\ f.seq = nextSequence THEN nextSequence + 1 ELSE nextSequence

(* A mouse move that waited 120 ms or longer is not injected, but counts.  *)
SkipStaleMove ==
  /\ pc = "inject" /\ ~current.reliable
  /\ nextSequence' = AfterInjection(current)
  /\ pc' = "drain" /\ current' = NoFrame
  /\ UNCHANGED <<queue, closed, exiting, pending, early, deadline, injected>>
  /\ UNCHANGED keyVars

(* now_micros is asked for the latency statistics before anything else and *)
(* fails while the system clock is before 1970: the thread returns at once.*)
ClockFails ==
  /\ pc = "inject"
  /\ pc' = "clockless" /\ current' = NoFrame
  /\ UNCHANGED <<queue, closed, exiting, nextSequence, pending, early, deadline,
                 injected>>
  /\ UNCHANGED keyVars

(* release_on_target_change comes first: what it leaves held and tracked.  *)
TargetChanges == target \notin {NoTarget, current.target}
TrackedThen == IF TargetChanges THEN {} ELSE tracked
HeldThen    == IF TargetChanges THEN held \ tracked ELSE held

ReleaseForTargetFails ==
  /\ pc = "inject" /\ TargetChanges
  /\ \E refused \in SUBSET tracked : refused # {} /\ ReleaseTracked(refused)
  /\ pc' = "failed" /\ current' = NoFrame
  /\ UNCHANGED <<queue, closed, exiting, nextSequence, pending, early, deadline,
                 target, injected>>

Inject ==
  /\ pc = "inject"
  /\ target' = current.target
  /\ tracked' = Apply(current.event, TrackedThen)
  /\ held' = Apply(current.event, HeldThen)
  /\ injected' = current.seq
  /\ nextSequence' = AfterInjection(current)
  /\ pc' = "drain" /\ current' = NoFrame
  /\ UNCHANGED <<queue, closed, exiting, pending, early, deadline, lost>>

(* inject_or_release_on_error: the adapter refused the event. *)
InjectFails ==
  /\ pc = "inject"
  /\ target' = current.target
  /\ \E refused \in SUBSET TrackedThen :
       /\ tracked' = {}
       /\ held' = (HeldThen \ TrackedThen) \cup refused
       /\ lost' = lost \cup refused
  /\ pc' = "failed" /\ current' = NoFrame
  /\ UNCHANGED <<queue, closed, exiting, nextSequence, pending, early, deadline,
                 injected>>

-----------------------------------------------------------------------------
(* inject_ready_pending_input_frames: an early move goes before a pending  *)
(* reliable frame of the same number.                                      *)

(* Mutant: an old move is taken too. *)
MutantDrainStale ==
  /\ pc = "drain"
  /\ \E f \in early :
       f.seq <= nextSequence /\ early' = early \ {f} /\ current' = f
  /\ pc' = "inject"
  /\ UNCHANGED <<queue, closed, exiting, nextSequence, pending, deadline, injected>>
  /\ UNCHANGED keyVars

DrainEarly ==
  /\ pc = "drain"
  /\ \E f \in early :
       f.seq = nextSequence /\ early' = early \ {f} /\ current' = f
  /\ pc' = "inject"
  /\ UNCHANGED <<queue, closed, exiting, nextSequence, pending, deadline, injected>>
  /\ UNCHANGED keyVars

DrainPending ==
  /\ pc = "drain" /\ nextSequence \notin Seqs(early)
  /\ \E f \in pending :
       f.seq = nextSequence /\ pending' = pending \ {f} /\ current' = f
  /\ nextSequence' = nextSequence + 1
  /\ pc' = "inject"
  /\ UNCHANGED <<queue, closed, exiting, early, deadline, injected>>
  /\ UNCHANGED keyVars

DrainDone ==
  /\ pc = "drain" /\ nextSequence \notin Seqs(pending \cup early)
  /\ pc' = IF exiting THEN "exit" ELSE "recv"
  /\ UNCHANGED <<queue, closed, exiting, current, deadline, injected>>
  /\ UNCHANGED seqVars /\ UNCHANGED keyVars

-----------------------------------------------------------------------------
(* while recover_pending_input_gap(..)? {}  then release_tracked_input *)

ExitRecover ==
  /\ pc = "exit" /\ SkipGap
  /\ UNCHANGED <<queue, closed, exiting, current, deadline, injected>>
  /\ UNCHANGED keyVars

(* Mutant: the thread returns without releasing what it holds. *)
MutantExitRelease ==
  /\ pc = "exit" /\ pending \cup early = {} /\ pc' = "stopped"
  /\ UNCHANGED <<queue, closed, exiting, current, deadline, injected>>
  /\ UNCHANGED seqVars /\ UNCHANGED keyVars

ExitRelease ==
  /\ pc = "exit" /\ pending \cup early = {}
  /\ \E refused \in SUBSET tracked :
       /\ ReleaseTracked(refused)
       /\ pc' = IF refused = {} THEN "stopped" ELSE "failed"
  /\ UNCHANGED <<queue, closed, exiting, current, deadline, target, injected>>
  /\ UNCHANGED seqVars

-----------------------------------------------------------------------------
Receive ==
  \/ DropOld
  \/ AcceptNext
  \/ BufferReliable
  \/ BufferEarlyMove
  \/ JumpAhead

Drain == DrainEarly \/ DrainPending \/ DrainDone

Injection ==
  \/ ClockFails
  \/ Inject
  \/ InjectFails
  \/ ReleaseForTargetFails
  \/ SkipStaleMove

(* The steps of the injection thread. *)
Thread ==
  \/ Receive
  \/ ArmDeadline
  \/ RecoverGap
  \/ Injection
  \/ Drain
  \/ LeaveLoop
  \/ ExitRecover
  \/ ExitRelease

(* The steps of the receive threads, with whatever frame arrives. *)
Arrival ==
  \/ \E f \in Frames : QueueReliable(f) \/ QueueUnreliable(f)
  \/ CloseQueue

Next == Thread \/ DeadlinePasses \/ Arrival

Spec == Init /\ [][Next]_vars

(* The operating system schedules the thread and time passes. *)
FairSpec == Spec /\ WF_vars(Thread) /\ WF_vars(DeadlinePasses)

-----------------------------------------------------------------------------
(* Frames for TLC.  Several senders at once (direct, relay, a probe) send  *)
(* a number on either lane, with any content, any number of times; one     *)
(* frame is for another target.  Bound: numbers up to twice the window.    *)
AnyFrames ==
  LET first == CHOOSE t \in Targets : TRUE
      none == [kind |-> "none"]
      numbers == 1..(2 * ReorderWindow)
  IN  [seq : numbers, reliable : {TRUE}, target : {first}, event : Events \ {none}]
        \cup [seq : {2}, reliable : {TRUE}, target : Targets \ {first}, event : {none}]
        \cup [seq : numbers, reliable : {FALSE}, target : {first}, event : {none}]

-----------------------------------------------------------------------------
(* What the thread promises, stated without sequencer, buffers or deadline *)
(* in InputDelivery: the frames it has are those in the channel, in the    *)
(* two maps and in its hands.                                              *)

InHand ==
  {queue[i] : i \in DOMAIN queue} \cup pending \cup early
    \cup {f \in Frames : f = current}

Delivery == INSTANCE InputDelivery
  WITH waiting <- InHand, last <- injected, down <- held

(* The injection thread implements InputDelivery. *)
ImplementsDelivery == Delivery!Spec

-----------------------------------------------------------------------------
(* Type invariant. *)
TypeOK ==
  /\ queue \in Seq(Frames)
  /\ closed \in BOOLEAN /\ exiting \in BOOLEAN
  /\ pc \in {"recv", "inject", "drain", "exit", "stopped", "failed", "clockless"}
  /\ current \in Frames \cup {NoFrame}
  /\ current # NoFrame <=> pc = "inject"
  /\ nextSequence \in Nat \ {0}
  /\ pending \subseteq {f \in Frames : f.reliable}
  /\ early \subseteq {f \in Frames : ~f.reliable}
  /\ deadline \in {"none", "armed", "expired"}
  /\ target \in Targets \cup {NoTarget}
  /\ tracked \subseteq Keys /\ held \subseteq Keys /\ lost \subseteq Keys
  /\ injected \in Nat

(* What the thread remembers is what the operating system holds down, but  *)
(* for the keys whose release the adapter refused: no path of accept,      *)
(* recovery, target change, failure or exit forgets a key that is down.    *)
HeldIsTracked == held = tracked \cup lost

(* A thread that returned after the channel was closed, or because the     *)
(* adapter refused something, left no key down that it could have released *)
(* and none at all if it returned Ok (release_tracked_input in             *)
(* inject_received_frames and inject_or_release_on_error).  The exit by    *)
(* the clock is not among these paths: see NoneLeftDown.                   *)
ReleasedAtReturn ==
  /\ pc \in {"stopped", "failed"} => held = lost
  /\ pc = "stopped" => held = {}

(* The same of every return, as the design asks for: a failing injection   *)
(* releases the keys.                                                      *)
NoneLeftDown == Returned => held = lost

(* Frames are injected in the order of their numbers and none twice,       *)
(* whatever arrives on the two lanes, from however many senders and        *)
(* whichever buffer a frame waited in.                                     *)
InOrder == pc = "inject" => injected < current.seq

(* A buffered reliable frame is never further ahead than the reorder       *)
(* window, and no number is buffered twice in one map.                     *)
PendingInWindow ==
  /\ \A f \in pending : f.seq <= nextSequence + ReorderWindow
  /\ \A f, g \in pending : f.seq = g.seq => f = g
  /\ \A f, g \in early : f.seq = g.seq => f = g

(* The loop never waits with a buffered frame it could have injected or    *)
(* has passed: has_pending_input_gap can rely on the lowest buffered       *)
(* number being ahead, which is what starts the gap deadline.              *)
BufferedAhead ==
  pc = "recv" => \A f \in pending \cup early : f.seq > nextSequence

(* Reliable input behind a lost mouse move is not blocked for ever while   *)
(* the listener runs (the gap deadline of inject_received_frames).         *)
ReliableNotBlocked ==
  \A f \in Frames :
    (f \in pending) ~> (f \notin pending \/ Returned \/ closed)

(* Once the channel is closed and drained the thread returns.              *)
ReturnsWhenClosed == closed ~> Returned
=============================================================================
