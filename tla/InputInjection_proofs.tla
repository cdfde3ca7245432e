------------------------ MODULE InputInjection_proofs ------------------------
(***************************************************************************)
(* Proofs about InputInjection for every set of frames, keys and targets,  *)
(* every reorder window and every channel capacity; then about the path    *)
(* InputPath that leads to it, for any links and any loss of moves: what   *)
(* arrives in which order, and what sender and receiver hold down.         *)
(***************************************************************************)
EXTENDS InputPath, WellFoundedInduction, TLAPS

(* The inductive invariant behind the order of injection: next_sequence is *)
(* beyond everything injected, a reliable frame in hand has already been   *)
(* counted, a mouse move in hand is the next one.                          *)
InHandInPlace ==
  /\ injected < nextSequence
  /\ pc = "inject" =>
       IF current.reliable THEN current.seq < nextSequence
                           ELSE current.seq = nextSequence

(* Only a thread that failed has given up keys, and a thread that returned *)
(* by another way than the clock tracks none.                              *)
GivenUpOnlyOnFailure ==
  /\ lost # {} => pc = "failed"
  /\ pc \in {"stopped", "failed"} => tracked = {}

IInv ==
  /\ TypeOK
  /\ HeldIsTracked
  /\ GivenUpOnlyOnFailure
  /\ InHandInPlace
  /\ InOrder
  /\ PendingInWindow

(* Frames are records with a numeric sequence number and an event. *)
LEMMA FrameFields ==
  ASSUME NEW f \in Frames
  PROVE  /\ f.seq \in Nat /\ f.reliable \in BOOLEAN /\ f.target \in Targets
         /\ f.event \in Events
         /\ f # NoFrame /\ f.target # NoTarget
  BY FramesAssumption, SentinelAssumption DEF FrameType

(* An event never presses a key outside Keys, and presses or releases the  *)
(* same key of any two sets.                                               *)
LEMMA ApplyType ==
  ASSUME NEW e \in Events, NEW S \in SUBSET Keys
  PROVE  Apply(e, S) \in SUBSET Keys
  BY DEF Apply, Events

LEMMA HeadOfQueue ==
  ASSUME NEW q \in Seq(Frames), q # <<>>
  PROVE  Head(q) \in Frames /\ Tail(q) \in Seq(Frames)
  OBVIOUS

-----------------------------------------------------------------------------
LEMMA InitIInv == Init => IInv
<1> SUFFICES ASSUME Init PROVE IInv
  OBVIOUS
<1>1. TypeOK
  <2>1. queue \in Seq(Frames)
    BY DEF Init
  <2>2. /\ closed \in BOOLEAN /\ exiting \in BOOLEAN
        /\ current \in Frames \cup {NoFrame}
        /\ current # NoFrame <=> pc = "inject"
    BY DEF Init
  <2>3. /\ pending \subseteq {f \in Frames : f.reliable}
        /\ early \subseteq {f \in Frames : ~f.reliable}
        /\ nextSequence \in Nat \ {0} /\ injected \in Nat
    BY DEF Init
  <2> QED BY <2>1, <2>2, <2>3 DEF Init, TypeOK
<1>2. HeldIsTracked /\ GivenUpOnlyOnFailure
  BY DEF Init, HeldIsTracked, GivenUpOnlyOnFailure, Returned
<1>3. InHandInPlace /\ InOrder /\ PendingInWindow
  BY DEF Init, InHandInPlace, InOrder, PendingInWindow
<1> QED BY <1>1, <1>2, <1>3 DEF IInv

LEMMA TypeStep == TypeOK /\ [Next]_vars => TypeOK'
<1> SUFFICES ASSUME TypeOK, [Next]_vars PROVE TypeOK'
  OBVIOUS
<1> USE DEF TypeOK, seqVars, keyVars
<1>1. CASE UNCHANGED vars
  BY <1>1 DEF vars
<1>2. ASSUME NEW f \in Frames, QueueReliable(f) PROVE TypeOK'
  BY <1>2 DEF QueueReliable
<1>3. ASSUME NEW f \in Frames, QueueUnreliable(f) PROVE TypeOK'
  BY <1>3 DEF QueueUnreliable
<1>4. CASE CloseQueue
  BY <1>4 DEF CloseQueue
<1>5. CASE DeadlinePasses
  BY <1>5 DEF DeadlinePasses
<1>6. CASE ArmDeadline
  BY <1>6 DEF ArmDeadline
<1>7. CASE RecoverGap
  <2>1. nextSequence' \in Nat \ {0}
    BY <1>7, FrameFields DEF RecoverGap, SkipGap, IsNextPending, Seqs
  <2>2. QED BY <1>7, <2>1 DEF RecoverGap, SkipGap
<1>8. CASE DropOld
  BY <1>8, HeadOfQueue DEF DropOld, MayReceive
<1>9. CASE AcceptNext
  BY <1>9, HeadOfQueue, FrameFields DEF AcceptNext, MayReceive
<1>10. CASE BufferReliable
  BY <1>10, HeadOfQueue DEF BufferReliable, MayReceive, InsertIfAbsent
<1>11. CASE BufferEarlyMove
  BY <1>11, HeadOfQueue DEF BufferEarlyMove, MayReceive, InsertIfAbsent
<1>12. CASE JumpAhead
  <2> DEFINE f == Head(queue)
  <2>1. f \in Frames /\ f.seq \in Nat /\ queue' \in Seq(Frames)
    BY <1>12, HeadOfQueue, FrameFields DEF JumpAhead, MayReceive
  <2>2. tracked' \subseteq Keys /\ held' \subseteq Keys /\ lost' \subseteq Keys
    BY <1>12 DEF JumpAhead, ReleaseTracked
  <2>3. /\ pc' \in {"inject", "failed"} /\ current' \in Frames \cup {NoFrame}
        /\ current' # NoFrame <=> pc' = "inject"
    BY <1>12, <2>1, FrameFields DEF JumpAhead
  <2>4. deadline' \in {"none", "armed", "expired"}
    BY <1>12 DEF JumpAhead, MayReceive
  <2> QED BY <1>12, <2>1, <2>2, <2>3, <2>4 DEF JumpAhead
<1>13. CASE LeaveLoop
  BY <1>13 DEF LeaveLoop
<1>14. CASE SkipStaleMove
  BY <1>14 DEF SkipStaleMove, AfterInjection
<1>15. CASE Inject
  <2>1. current \in Frames /\ current.event \in Events
    BY <1>15, FrameFields DEF Inject
  <2>2. tracked' \subseteq Keys /\ held' \subseteq Keys
    BY <1>15, <2>1, ApplyType DEF Inject, TrackedThen, HeldThen
  <2> QED BY <1>15, <2>1, <2>2, FrameFields DEF Inject, AfterInjection
<1>16. CASE InjectFails
  <2>1. target' \in Targets
    BY <1>16, FrameFields DEF InjectFails
  <2>2. tracked' \subseteq Keys /\ held' \subseteq Keys /\ lost' \subseteq Keys
    BY <1>16 DEF InjectFails, TrackedThen, HeldThen
  <2> QED BY <1>16, <2>1, <2>2 DEF InjectFails
<1>17. CASE ReleaseForTargetFails
  BY <1>17 DEF ReleaseForTargetFails, ReleaseTracked
<1>18. CASE DrainEarly
  BY <1>18, FrameFields DEF DrainEarly
<1>19. CASE DrainPending
  BY <1>19, FrameFields DEF DrainPending
<1>20. CASE DrainDone
  BY <1>20 DEF DrainDone
<1>21. CASE ExitRecover
  <2>1. nextSequence' \in Nat \ {0}
    BY <1>21, FrameFields DEF ExitRecover, SkipGap, IsNextPending, Seqs
  <2>2. QED BY <1>21, <2>1 DEF ExitRecover, SkipGap
<1>22. CASE ExitRelease
  BY <1>22 DEF ExitRelease, ReleaseTracked
<1>23. CASE ClockFails
  BY <1>23 DEF ClockFails
<1> QED
  BY <1>1, <1>2, <1>3, <1>4, <1>5, <1>6, <1>7, <1>8, <1>9, <1>10, <1>11,
     <1>12, <1>13, <1>14, <1>15, <1>16, <1>17, <1>18, <1>19, <1>20, <1>21,
     <1>22, <1>23
  DEF Next, Thread, Receive, Injection, Drain, Arrival

(* TypeOK is an invariant of the injection thread. *)
THEOREM TypeCorrect == Spec => []TypeOK
<1>1. Init => TypeOK
  BY InitIInv DEF IInv
<1>2. QED BY <1>1, TypeStep, PTL DEF Spec

-----------------------------------------------------------------------------
(* The keys.  Only five actions touch them; each either moves tracked and  *)
(* held together or empties tracked and records what it could not release. *)
LEMMA KeysStep ==
  ASSUME TypeOK, HeldIsTracked, GivenUpOnlyOnFailure, [Next]_vars
  PROVE  HeldIsTracked' /\ GivenUpOnlyOnFailure'
<1> USE DEF HeldIsTracked, GivenUpOnlyOnFailure, Returned, seqVars, keyVars
<1>1. CASE UNCHANGED vars
  BY <1>1 DEF vars
<1>2. CASE Arrival \/ DeadlinePasses \/ ArmDeadline \/ LeaveLoop
  BY <1>2 DEF Arrival, QueueReliable, QueueUnreliable, CloseQueue,
     DeadlinePasses, ArmDeadline, LeaveLoop
<1>3. CASE RecoverGap \/ ExitRecover \/ Drain \/ SkipStaleMove
  BY <1>3 DEF RecoverGap, ExitRecover, SkipGap, Drain, DrainEarly,
     DrainPending, DrainDone, SkipStaleMove
<1>4. CASE DropOld \/ AcceptNext \/ BufferReliable \/ BufferEarlyMove
  BY <1>4 DEF DropOld, AcceptNext, BufferReliable, BufferEarlyMove, MayReceive
<1>5. CASE JumpAhead
  <2>1. lost = {} /\ held = tracked
    BY <1>5 DEF JumpAhead, MayReceive
  <2>2. PICK refused \in SUBSET tracked :
          /\ ReleaseTracked(refused)
          /\ refused # {} => pc' = "failed"
          /\ pc' \in {"inject", "failed"}
    BY <1>5 DEF JumpAhead
  <2>3. tracked' = {} /\ held' = refused /\ lost' = refused
    BY <2>1, <2>2 DEF ReleaseTracked
  <2> QED BY <2>2, <2>3
<1>6. CASE Inject
  <2>1. lost = {} /\ held = tracked
    BY <1>6 DEF Inject
  <2>2. HeldThen = TrackedThen
    BY <2>1 DEF HeldThen, TrackedThen
  <2>3. held' = tracked' /\ lost' = {} /\ pc' = "drain"
    BY <1>6, <2>1, <2>2 DEF Inject
  <2> QED BY <2>3
<1>7. CASE InjectFails
  <2>1. lost = {} /\ held = tracked /\ HeldThen = TrackedThen
    BY <1>7 DEF InjectFails, HeldThen, TrackedThen
  <2> QED BY <1>7, <2>1 DEF InjectFails
<1>8. CASE ReleaseForTargetFails
  BY <1>8 DEF ReleaseForTargetFails, ReleaseTracked
<1>9. CASE ExitRelease
  BY <1>9 DEF ExitRelease, ReleaseTracked
<1>10. CASE ClockFails
  BY <1>10 DEF ClockFails
<1> QED
  BY <1>1, <1>2, <1>3, <1>4, <1>5, <1>6, <1>7, <1>8, <1>9, <1>10
  DEF Next, Thread, Receive, Injection

-----------------------------------------------------------------------------
(* The order of injection. *)
LEMMA OrderStep ==
  ASSUME TypeOK, InHandInPlace, InOrder, [Next]_vars
  PROVE  InHandInPlace' /\ InOrder'
<1> USE DEF TypeOK, InHandInPlace, InOrder, seqVars, keyVars
<1>1. CASE UNCHANGED vars
  BY <1>1 DEF vars
<1>2. CASE Arrival \/ DeadlinePasses \/ ArmDeadline \/ LeaveLoop
  BY <1>2 DEF Arrival, QueueReliable, QueueUnreliable, CloseQueue,
     DeadlinePasses, ArmDeadline, LeaveLoop
<1>3. CASE RecoverGap \/ ExitRecover
  <2>1. nextSequence' \in Nat /\ nextSequence' >= nextSequence
    BY <1>3, FrameFields DEF RecoverGap, ExitRecover, SkipGap, IsNextPending, Seqs
  <2> QED BY <1>3, <2>1 DEF RecoverGap, ExitRecover, SkipGap
<1>4. CASE DropOld \/ BufferReliable \/ BufferEarlyMove
  BY <1>4 DEF DropOld, BufferReliable, BufferEarlyMove, MayReceive
<1>5. CASE AcceptNext
  BY <1>5, HeadOfQueue, FrameFields DEF AcceptNext, MayReceive
<1>6. CASE JumpAhead
  BY <1>6, HeadOfQueue, FrameFields DEF JumpAhead, MayReceive
<1>7. CASE Inject \/ SkipStaleMove
  <2>1. current \in Frames /\ current.seq \in Nat
    BY <1>7, FrameFields DEF Inject, SkipStaleMove
  <2> QED BY <1>7, <2>1 DEF Inject, SkipStaleMove, AfterInjection
<1>8. CASE InjectFails \/ ReleaseForTargetFails \/ ExitRelease \/ ClockFails
  BY <1>8 DEF InjectFails, ReleaseForTargetFails, ExitRelease, ClockFails
<1>9. CASE DrainEarly
  BY <1>9, FrameFields DEF DrainEarly
<1>10. CASE DrainPending
  BY <1>10, FrameFields DEF DrainPending
<1>11. CASE DrainDone
  BY <1>11 DEF DrainDone
<1> QED
  BY <1>1, <1>2, <1>3, <1>4, <1>5, <1>6, <1>7, <1>8, <1>9, <1>10, <1>11
  DEF Next, Thread, Receive, Injection, Drain

-----------------------------------------------------------------------------
(* The buffers. *)
LEMMA WindowStep ==
  ASSUME TypeOK, InHandInPlace, PendingInWindow, [Next]_vars
  PROVE  PendingInWindow'
<1> USE DEF TypeOK, PendingInWindow, seqVars, keyVars
<1>1. CASE UNCHANGED vars
  BY <1>1 DEF vars
<1>2. CASE Arrival \/ DeadlinePasses \/ ArmDeadline \/ LeaveLoop
  BY <1>2 DEF Arrival, QueueReliable, QueueUnreliable, CloseQueue,
     DeadlinePasses, ArmDeadline, LeaveLoop
<1>3. CASE RecoverGap \/ ExitRecover
  <2>1. nextSequence' \in Nat /\ nextSequence' >= nextSequence
    BY <1>3, FrameFields DEF RecoverGap, ExitRecover, SkipGap, IsNextPending, Seqs
  <2>2. pending' = pending /\ early' = early
    BY <1>3 DEF RecoverGap, ExitRecover, SkipGap
  <2>3. ASSUME NEW f \in pending PROVE f.seq <= nextSequence' + ReorderWindow
    BY <2>1, FrameFields, BoundsAssumption
  <2> QED BY <2>2, <2>3
<1>4. CASE DropOld
  BY <1>4 DEF DropOld
<1>5. CASE BufferReliable
  <2> DEFINE f == Head(queue)
  <2>1. f \in Frames /\ f.seq \in Nat
    BY <1>5, HeadOfQueue, FrameFields DEF BufferReliable, MayReceive
  <2>2. f.seq <= nextSequence + ReorderWindow
    BY <1>5, <2>1, BoundsAssumption DEF BufferReliable
  <2>3. pending' = IF f.seq \in Seqs(pending) THEN pending ELSE pending \cup {f}
    BY <1>5 DEF BufferReliable, InsertIfAbsent
  <2> QED BY <1>5, <2>1, <2>2, <2>3 DEF BufferReliable, Seqs
<1>6. CASE BufferEarlyMove
  <2> DEFINE f == Head(queue)
  <2>1. early' = IF f.seq \in Seqs(early) THEN early ELSE early \cup {f}
    BY <1>6 DEF BufferEarlyMove, InsertIfAbsent
  <2> QED BY <1>6, <2>1 DEF BufferEarlyMove, Seqs
<1>7. CASE AcceptNext \/ SkipStaleMove \/ Inject
  <2>1. nextSequence' \in Nat /\ nextSequence' >= nextSequence
    BY <1>7 DEF AcceptNext, SkipStaleMove, Inject, AfterInjection
  <2>2. pending' = pending /\ early' = early
    BY <1>7 DEF AcceptNext, SkipStaleMove, Inject
  <2>3. ASSUME NEW f \in pending PROVE f.seq <= nextSequence' + ReorderWindow
    BY <2>1, FrameFields, BoundsAssumption
  <2> QED BY <2>2, <2>3
<1>8. CASE JumpAhead
  BY <1>8 DEF JumpAhead
<1>9. CASE InjectFails \/ ReleaseForTargetFails \/ ClockFails \/ ExitRelease \/ DrainDone
  BY <1>9 DEF InjectFails, ReleaseForTargetFails, ClockFails, ExitRelease, DrainDone
<1>10. CASE DrainEarly
  BY <1>10 DEF DrainEarly
<1>11. CASE DrainPending
  <2>1. pending' \subseteq pending /\ nextSequence' = nextSequence + 1 /\ early' = early
    BY <1>11 DEF DrainPending
  <2>2. ASSUME NEW f \in pending PROVE f.seq <= nextSequence' + ReorderWindow
    BY <2>1, FrameFields, BoundsAssumption
  <2> QED BY <2>1, <2>2
<1> QED
  BY <1>1, <1>2, <1>3, <1>4, <1>5, <1>6, <1>7, <1>8, <1>9, <1>10, <1>11
  DEF Next, Thread, Receive, Injection, Drain

-----------------------------------------------------------------------------
LEMMA Invariant == Spec => []IInv
<1>1. IInv /\ [Next]_vars => IInv'
  BY TypeStep, KeysStep, OrderStep, WindowStep DEF IInv
<1>2. QED BY InitIInv, <1>1, PTL DEF Spec

(* At every moment the receiver holds down exactly the keys the thread     *)
(* tracks and those whose release the adapter refused.                     *)
THEOREM KeysAccountedFor == Spec => []HeldIsTracked
<1>1. IInv => HeldIsTracked
  BY DEF IInv
<1>2. QED BY Invariant, <1>1, PTL

(* Every way out of the thread but the one by the clock releases what it   *)
(* holds.                                                                  *)
THEOREM ReleasesAtReturn == Spec => []ReleasedAtReturn
<1>1. IInv => ReleasedAtReturn
  BY DEF IInv, ReleasedAtReturn, HeldIsTracked, GivenUpOnlyOnFailure
<1>2. QED BY Invariant, <1>1, PTL

(* No frame is injected after a later one or a second time. *)
THEOREM InjectsInOrder == Spec => []InOrder
<1>1. IInv => InOrder
  BY DEF IInv
<1>2. QED BY Invariant, <1>1, PTL

(* The reliable buffer stays inside the reorder window and neither buffer  *)
(* holds a number twice.                                                   *)
THEOREM BuffersStayInWindow == Spec => []PendingInWindow
<1>1. IInv => PendingInWindow
  BY DEF IInv
<1>2. QED BY Invariant, <1>1, PTL

-----------------------------------------------------------------------------
(* InputInjection implements InputDelivery: every step of the injection    *)
(* thread and of the receive threads is an arrival, a loss or a delivery   *)
(* in order, or changes nothing that InputDelivery speaks of.              *)


InQueue == {queue[i] : i \in DOMAIN queue}

LEMMA TailInQueue ==
  ASSUME NEW q \in Seq(Frames), q # <<>>
  PROVE  /\ {Tail(q)[i] : i \in DOMAIN Tail(q)} \subseteq {q[i] : i \in DOMAIN q}
         /\ Head(q) \in {q[i] : i \in DOMAIN q}
<1>1. 1 \in DOMAIN q /\ Head(q) = q[1]
  OBVIOUS
<1>2. ASSUME NEW i \in DOMAIN Tail(q)
      PROVE  i + 1 \in DOMAIN q /\ Tail(q)[i] = q[i + 1]
  OBVIOUS
<1> QED BY <1>1, <1>2

LEMMA AppendInQueue ==
  ASSUME NEW q \in Seq(Frames), NEW f \in Frames
  PROVE  {Append(q, f)[i] : i \in DOMAIN Append(q, f)}
           = {q[i] : i \in DOMAIN q} \cup {f}
<1> DEFINE a == Append(q, f)
<1>1. DOMAIN a = 1..(Len(q) + 1) /\ DOMAIN q = 1..Len(q) /\ Len(q) \in Nat
  OBVIOUS
<1>2. ASSUME NEW i \in 1..(Len(q) + 1)
      PROVE  a[i] = IF i = Len(q) + 1 THEN f ELSE q[i]
  OBVIOUS
<1>3. DOMAIN a = DOMAIN q \cup {Len(q) + 1} /\ Len(q) + 1 \notin DOMAIN q
  BY <1>1
<1>4. a[Len(q) + 1] = f /\ \A i \in DOMAIN q : a[i] = q[i]
  BY <1>1, <1>2
<1> QED BY <1>3, <1>4

(* A step that takes frames away and keys up is a loss. *)
LEMMA Losing ==
  ASSUME InQueue' \subseteq InQueue,
         pending' \subseteq InHand, early' \subseteq InHand,
         current' = NoFrame \/ current' \in InHand,
         held' \subseteq held, injected' = injected
  PROVE  Delivery!Next
<1>1. InHand' \subseteq InHand
  BY SentinelAssumption DEF InHand, InQueue
<1> QED BY <1>1 DEF Delivery!Next, Delivery!Lose

LEMMA TakeStep ==
  ASSUME TypeOK, HeldIsTracked, Receive
  PROVE  Delivery!Next
<1> DEFINE f == Head(queue)
<1>1. /\ queue # <<>> /\ f \in Frames /\ queue' = Tail(queue)
      /\ f \in InQueue /\ InQueue' \subseteq InQueue
  BY TailInQueue, HeadOfQueue
  DEF Receive, DropOld, AcceptNext, BufferReliable, BufferEarlyMove, JumpAhead,
      MayReceive, InQueue, TypeOK
<1>2. InQueue \subseteq InHand /\ pending \subseteq InHand /\ early \subseteq InHand
  BY DEF InHand, InQueue
<1>3. injected' = injected
  BY DEF Receive, DropOld, AcceptNext, BufferReliable, BufferEarlyMove, JumpAhead
<1>4. held' \subseteq held
  BY DEF Receive, DropOld, AcceptNext, BufferReliable, BufferEarlyMove,
     JumpAhead, ReleaseTracked, HeldIsTracked, keyVars
<1>5. current' = NoFrame \/ current' \in InHand
  BY <1>1, <1>2 DEF Receive, DropOld, AcceptNext, BufferReliable,
     BufferEarlyMove, JumpAhead, MayReceive, TypeOK
<1>6. pending' \subseteq InHand /\ early' \subseteq InHand
  BY <1>1, <1>2 DEF Receive, DropOld, AcceptNext, BufferReliable,
     BufferEarlyMove, JumpAhead, InsertIfAbsent, seqVars
<1> QED BY <1>1, <1>3, <1>4, <1>5, <1>6, Losing

LEMMA InjectStep ==
  ASSUME TypeOK, InOrder, Inject
  PROVE  Delivery!Next
<1>1. current \in Frames /\ current \in InHand /\ current.event \in Events
  BY FrameFields DEF Inject, TypeOK, InHand
<1>2. InHand' \subseteq InHand
  BY SentinelAssumption DEF Inject, InHand
<1>3. current.seq > injected /\ injected' = current.seq
  BY <1>1, FrameFields DEF Inject, InOrder, TypeOK
<1>4. held' = Apply(current.event, HeldThen) /\ HeldThen \subseteq held
  BY DEF Inject, HeldThen
<1>5. /\ Delivery!Pressed(current.event) \subseteq held'
      /\ held' \subseteq (held \ Delivery!Released(current.event))
                           \cup Delivery!Pressed(current.event)
  BY <1>1, <1>4 DEF Apply, Events, Delivery!Pressed, Delivery!Released
<1>6. Delivery!Deliver(current)
  BY <1>2, <1>3, <1>5 DEF Delivery!Deliver
<1> QED BY <1>1, <1>6 DEF Delivery!Next

LEMMA DeliveryStep ==
  ASSUME IInv, [Next]_vars
  PROVE  [Delivery!Next]_(Delivery!vars)
<1> USE DEF IInv
<1>1. CASE UNCHANGED vars
  BY <1>1 DEF vars, Delivery!vars, InHand
<1>2. ASSUME NEW f \in Frames, QueueReliable(f) \/ QueueUnreliable(f)
      PROVE  [Delivery!Next]_(Delivery!vars)
  <2>1. CASE queue' = queue
    BY <1>2, <2>1 DEF QueueReliable, QueueUnreliable, Delivery!vars, InHand,
       seqVars, keyVars
  <2>2. CASE queue' = Append(queue, f)
    <3>1. InQueue' = InQueue \cup {f}
      BY <2>2, AppendInQueue DEF InQueue, TypeOK
    <3>2. InHand' = InHand \cup {f}
      BY <1>2, <3>1 DEF QueueReliable, QueueUnreliable, InHand, InQueue, seqVars
    <3> QED BY <1>2, <3>2 DEF QueueReliable, QueueUnreliable, keyVars,
            Delivery!Next, Delivery!Arrive
  <2> QED BY <1>2, <2>1, <2>2 DEF QueueReliable, QueueUnreliable
<1>3. CASE CloseQueue \/ DeadlinePasses \/ ArmDeadline \/ LeaveLoop \/ DrainDone
  BY <1>3 DEF CloseQueue, DeadlinePasses, ArmDeadline, LeaveLoop, DrainDone,
     Delivery!vars, InHand, seqVars, keyVars
<1>4. CASE RecoverGap \/ ExitRecover
  BY <1>4 DEF RecoverGap, ExitRecover, SkipGap, Delivery!vars, InHand, keyVars
<1>5. CASE Receive
  BY <1>5, TakeStep
<1>6. CASE Inject
  BY <1>6, InjectStep
<1>7. CASE SkipStaleMove \/ ClockFails \/ InjectFails \/ ReleaseForTargetFails \/ ExitRelease
  <2>1. /\ queue' = queue /\ pending' = pending /\ early' = early
        /\ current' \in {current, NoFrame} /\ injected' = injected
    BY <1>7 DEF SkipStaleMove, ClockFails, InjectFails, ReleaseForTargetFails, ExitRelease,
       seqVars
  <2>2. held' \subseteq held
    BY <1>7 DEF SkipStaleMove, ClockFails, InjectFails, ReleaseForTargetFails, ExitRelease,
       ReleaseTracked, HeldIsTracked, HeldThen, TrackedThen, keyVars
  <2>3. current' = NoFrame \/ current' \in InHand
    BY <2>1 DEF TypeOK, InHand
  <2> QED BY <2>1, <2>2, <2>3, Losing DEF InHand, InQueue
<1>8. CASE DrainEarly \/ DrainPending
  <2>1. /\ queue' = queue /\ pending' \subseteq pending /\ early' \subseteq early
        /\ current' \in pending \cup early /\ injected' = injected /\ held' = held
    BY <1>8 DEF DrainEarly, DrainPending, keyVars
  <2> QED BY <2>1, Losing DEF InHand, InQueue
<1> QED
  BY <1>1, <1>2, <1>3, <1>4, <1>5, <1>6, <1>7, <1>8
  DEF Next, Thread, Arrival, Injection, Drain

(* The injection thread implements the abstract delivery service. *)
THEOREM Implements == Spec => ImplementsDelivery
<1>1. Init => Delivery!Init
  BY SentinelAssumption DEF Init, Delivery!Init, InHand
<1>2. QED
  BY <1>1, DeliveryStep, Invariant, PTL DEF Spec, ImplementsDelivery, Delivery!Spec

-----------------------------------------------------------------------------
(* The path.  While no connection has failed the frames on the way are in  *)
(* line: each reliable one ahead of those sent after it, and none of them  *)
(* passed by next_sequence.  Stated of sets: the channel, the two buffers, *)
(* the frame in hand, stream, relay and datagrams, the next number to      *)
(* inject and the next to send, and the deadline of a gap.                 *)

InStream == {stream[i] : i \in DOMAIN stream}
InRelay == {relay[i] : i \in DOMAIN relay}
Current == {f \in Frames : f = current}

Before(A, B) == \A f \in A, g \in B : f.seq < g.seq
Sure(A) == {f \in A : f.reliable}

Orderly(q, p, e, c, s, r, d, next, n, due) ==
  /\ next <= n
  /\ \A f \in q \cup p \cup e \cup c \cup s \cup r \cup d : f.seq < n
  /\ Before(q \cup p \cup e \cup c, r)
  /\ \A f \in r \cup p \cup Sure(q) \cup s : next <= f.seq
  /\ Before(Sure(q), s)
  /\ Before(p, Sure(q) \cup s)
  /\ due = "expired" => Before(e, Sure(q) \cup s)
  /\ \A f \in c : IF f.reliable THEN f.seq + 1 = next ELSE f.seq = next
  /\ \A f, g \in q \cup p \cup e \cup c \cup s \cup r \cup d :
       f.reliable /\ ~g.reliable => f.seq # g.seq

InLine ==
  Orderly(InQueue, pending, early, Current, InStream, InRelay, datagrams,
          nextSequence, sequence, deadline)

Ascends(z) == \A i, j \in DOMAIN z : i < j => z[i].seq < z[j].seq
SureAscends(z) ==
  \A i, j \in DOMAIN z : i < j /\ z[i].reliable /\ z[j].reliable => z[i].seq < z[j].seq

OneLink ==
  /\ listening
  /\ stream # <<>> \/ datagrams # {} => link = "direct"
  /\ relay # <<>> => link = "relay"

PathType ==
  /\ IInv
  /\ closed = FALSE /\ exiting = FALSE
  /\ pc \in {"recv", "inject", "drain", "failed", "clockless"}
  /\ user \subseteq Keys
  /\ events \in Nat /\ failures \in Nat
  /\ link \in {"none", "direct", "relay"}
  /\ sequence \in Nat \ {0} /\ sequence <= events + 1
  /\ stream \in Seq(Frames) /\ relay \in Seq(Frames) /\ datagrams \subseteq Frames
  /\ \A f \in InStream : f.reliable
  /\ \A f \in datagrams : ~f.reliable

Calm == failures = 0 /\ pc \notin {"failed", "clockless"}

OrderInv ==
  Calm => /\ OneLink /\ InLine
          /\ SureAscends(queue) /\ Ascends(stream) /\ Ascends(relay)
          /\ link = "none" => sequence = 1

LEMMA FrameNumber == \A f \in Frames : f.seq \in Nat /\ f.reliable \in BOOLEAN
  BY FrameFields

(* What changes the line: frames go away, move on or are sent.             *)
LEMMA LineShrinks ==
  ASSUME NEW q, NEW p, NEW e, NEW c, NEW s, NEW r, NEW d, NEW next, NEW n, NEW due,
         Orderly(q, p, e, c, s, r, d, next, n, due),
         NEW q2 \in SUBSET q, NEW p2 \in SUBSET p, NEW e2 \in SUBSET e, NEW c2 \in SUBSET c,
         NEW s2 \in SUBSET s, NEW r2 \in SUBSET r, NEW d2 \in SUBSET d,
         NEW due2, due2 = "expired" => due = "expired"
  PROVE  Orderly(q2, p2, e2, c2, s2, r2, d2, next, n, due2)
  BY DEF Orderly, Before, Sure

LEMMA LineSends ==
  ASSUME NEW q, NEW p, NEW e, NEW c, NEW s, NEW r, NEW d, NEW next \in Nat, NEW n \in Nat,
         NEW due, q \cup p \cup e \cup c \cup s \cup r \cup d \subseteq Frames,
         Orderly(q, p, e, c, s, r, d, next, n, due),
         NEW f \in Frames, f.seq = n
  PROVE  /\ f.reliable => Orderly(q, p, e, c, s \cup {f}, r, d, next, n + 1, due)
         /\ ~f.reliable => Orderly(q, p, e, c, s, r, d \cup {f}, next, n + 1, due)
         /\ Orderly(q, p, e, c, s, r \cup {f}, d, next, n + 1, due)
<1> DEFINE all == q \cup p \cup e \cup c \cup s \cup r \cup d
<1>1. \A g \in all : g.seq \in Nat /\ g.seq < n /\ g.seq < n + 1
  BY FrameNumber DEF Orderly
<1>2. next <= n + 1 /\ n < n + 1 /\ next <= n
  BY DEF Orderly
<1> QED BY <1>1, <1>2 DEF Orderly, Before, Sure

LEMMA LineArrives ==
  ASSUME NEW q, NEW p, NEW e, NEW c, NEW s, NEW r, NEW d, NEW next \in Nat, NEW n \in Nat,
         NEW due, q \cup p \cup e \cup c \cup s \cup r \cup d \subseteq Frames,
         \A g \in s : g.reliable, \A g \in d : ~g.reliable,
         Orderly(q, p, e, c, s, r, d, next, n, due), NEW f
  PROVE  /\ \A s2 \in SUBSET s : f \in s /\ r = {} /\ Before({f}, s2)
              => Orderly(q \cup {f}, p, e, c, s2, r, d, next, n, due)
         /\ \A r2 \in SUBSET r : f \in r /\ s = {} /\ d = {} /\ Before({f}, r2)
              => Orderly(q \cup {f}, p, e, c, s, r2, d, next, n, due)
         /\ f \in d /\ r = {} => Orderly(q \cup {f}, p, e, c, s, r, d \ {f}, next, n, due)
  BY FrameNumber DEF Orderly, Before, Sure

(* What the thread does with the head f of the channel.                    *)
LEMMA LineTakes ==
  ASSUME NEW q, NEW p, NEW e, NEW s, NEW r, NEW d, NEW next \in Nat, NEW n \in Nat,
         NEW due, NEW due2, due2 # "expired",
         q \cup p \cup e \cup s \cup r \cup d \subseteq Frames,
         \A g \in p \cup s : g.reliable, \A g \in e \cup d : ~g.reliable,
         Orderly(q, p, e, {}, s, r, d, next, n, due),
         NEW f \in q, NEW q2 \in SUBSET q, f.reliable => Before({f}, Sure(q2))
  PROVE  /\ f.seq = next /\ f.reliable
              => Orderly(q2, p, e, {f}, s, r, d, next + 1, n, due2)
         /\ f.seq = next /\ ~f.reliable
              => Orderly(q2, p, e, {f}, s, r, d, next, n, due2)
         /\ f.reliable /\ f.seq > next => Orderly(q2, p \cup {f}, e, {}, s, r, d, next, n, due2)
         /\ ~f.reliable => Orderly(q2, p, e \cup {f}, {}, s, r, d, next, n, due2)
         /\ f.reliable /\ f.seq > next
              => Orderly(q2, {}, e, {f}, s, r, d, f.seq + 1, n, due2)
         /\ f.reliable => next <= f.seq
<1> DEFINE all == q \cup p \cup e \cup s \cup r \cup d
<1>1. \A g \in all : g.seq \in Nat /\ g.seq < n
  BY FrameNumber DEF Orderly
<1>2. f.seq \in Nat /\ f.seq < n /\ f \in Frames
  BY <1>1
<1>3. f.reliable => /\ \A g \in Sure(q2) \cup s \cup r : f.seq < g.seq
                    /\ \A g \in p : g.seq < f.seq
                    /\ next <= f.seq
  BY DEF Orderly, Before, Sure
<1>4. ~f.reliable => \A g \in r : f.seq < g.seq
  BY DEF Orderly, Before
<1>5. \A g, h \in all : g.reliable /\ ~h.reliable => g.seq # h.seq
  BY DEF Orderly
<1>6. Before(q2, r) /\ Before(p, r) /\ Before(e, r) /\ Before(Sure(q2), s)
      /\ Before(p, Sure(q2) \cup s)
      /\ \A g \in r \cup p \cup Sure(q2) \cup s : next <= g.seq
  BY DEF Orderly, Before, Sure
<1>7. ASSUME f.reliable, f.seq = next
      PROVE  Orderly(q2, p, e, {f}, s, r, d, next + 1, n, due2)
  <2>1. p = {}
    BY <1>1, <1>3, <1>6, <1>7
  <2> QED BY <1>1, <1>2, <1>3, <1>5, <1>6, <1>7, <2>1 DEF Orderly, Before, Sure
<1>8. ASSUME ~f.reliable, f.seq = next
      PROVE  Orderly(q2, p, e, {f}, s, r, d, next, n, due2)
  BY <1>1, <1>2, <1>4, <1>5, <1>6, <1>8 DEF Orderly, Before, Sure
<1>9. ASSUME f.reliable, f.seq > next
      PROVE  Orderly(q2, p \cup {f}, e, {}, s, r, d, next, n, due2)
  BY <1>1, <1>2, <1>3, <1>5, <1>6, <1>9 DEF Orderly, Before, Sure
<1>10. ASSUME ~f.reliable
       PROVE  Orderly(q2, p, e \cup {f}, {}, s, r, d, next, n, due2)
  <2>1. next <= n
    BY DEF Orderly
  <2> QED BY <1>1, <1>2, <1>4, <1>5, <1>6, <1>10, <2>1 DEF Orderly, Before, Sure
<1>11. ASSUME f.reliable, f.seq > next
       PROVE  Orderly(q2, {}, e, {f}, s, r, d, f.seq + 1, n, due2)
  BY <1>1, <1>2, <1>3, <1>5, <1>6, <1>11 DEF Orderly, Before, Sure
<1> QED BY <1>3, <1>7, <1>8, <1>9, <1>10, <1>11

(* What it does with its buffers and the frame in hand.                    *)
LEMMA LineSkips ==
  ASSUME NEW q, NEW p, NEW e, NEW s, NEW r, NEW d, NEW next \in Nat, NEW n \in Nat,
         q \cup p \cup e \cup s \cup r \cup d \subseteq Frames,
         Orderly(q, p, e, {}, s, r, d, next, n, "expired"),
         NEW f \in p \cup e, \A g \in p \cup e : f.seq <= g.seq, f.seq > next,
         NEW due2, due2 # "expired"
  PROVE  Orderly(q, p, e, {}, s, r, d, f.seq, n, due2)
  BY FrameNumber DEF Orderly, Before, Sure

LEMMA LineMovesOn ==
  ASSUME NEW q, NEW p, NEW e, NEW s, NEW r, NEW d, NEW next \in Nat, NEW n \in Nat,
         NEW due, NEW f \in Frames,
         q \cup p \cup e \cup s \cup r \cup d \subseteq Frames,
         \A g \in p \cup s : g.reliable,
         Orderly(q, p, e, {f}, s, r, d, next, n, due)
  PROVE  Orderly(q, p, e, {}, s, r, d,
                 IF ~f.reliable /\ f.seq = next THEN next + 1 ELSE next, n, due)
<1> DEFINE all == q \cup p \cup e \cup {f} \cup s \cup r \cup d
<1>1. \A g \in all : g.seq \in Nat /\ g.seq < n
  BY FrameNumber DEF Orderly
<1>2. CASE ~f.reliable /\ f.seq = next
  <2>1. \A g \in r \cup p \cup Sure(q) \cup s : next <= g.seq /\ g.seq # next
    <3>1. \A g \in r : f.seq < g.seq
      BY DEF Orderly, Before
    <3>2. \A g \in p \cup Sure(q) \cup s : g.reliable /\ g.seq # f.seq
      BY <1>2 DEF Orderly, Sure
    <3> QED BY <1>1, <1>2, <3>1, <3>2 DEF Orderly
  <2>2. \A g \in r \cup p \cup Sure(q) \cup s : next + 1 <= g.seq
    BY <1>1, <2>1 DEF Sure
  <2>3. next + 1 <= n
    BY <1>1, <1>2
  <2> QED BY <1>2, <2>2, <2>3 DEF Orderly, Before, Sure
<1>3. CASE ~ (~f.reliable /\ f.seq = next)
  BY <1>3 DEF Orderly, Before, Sure
<1> QED BY <1>2, <1>3

LEMMA LineDrains ==
  ASSUME NEW q, NEW p, NEW e, NEW s, NEW r, NEW d, NEW next \in Nat, NEW n \in Nat,
         NEW due, q \cup p \cup e \cup s \cup r \cup d \subseteq Frames,
         \A g \in p \cup s : g.reliable, \A g \in e : ~g.reliable,
         \A g, h \in p : g.seq = h.seq => g = h,
         Orderly(q, p, e, {}, s, r, d, next, n, due), NEW f, f.seq = next
  PROVE  /\ f \in e => Orderly(q, p, e \ {f}, {f}, s, r, d, next, n, due)
         /\ f \in p => Orderly(q, p \ {f}, e, {f}, s, r, d, next + 1, n, due)
<1> DEFINE all == q \cup p \cup e \cup s \cup r \cup d
<1>1. \A g \in all : g.seq \in Nat /\ g.seq < n
  BY FrameNumber DEF Orderly
<1>2. f \in e => Orderly(q, p, e \ {f}, {f}, s, r, d, next, n, due)
  BY <1>1 DEF Orderly, Before, Sure
<1>3. ASSUME f \in p PROVE Orderly(q, p \ {f}, e, {f}, s, r, d, next + 1, n, due)
  <2>1. \A g \in r \cup Sure(q) \cup s : next < g.seq
    BY <1>1, <1>3 DEF Orderly, Before, Sure
  <2>2. \A g \in p \ {f} : next <= g.seq /\ g.seq # next
    BY <1>3 DEF Orderly
  <2>3. \A g \in r \cup (p \ {f}) \cup Sure(q) \cup s : next + 1 <= g.seq
    BY <1>1, <2>1, <2>2 DEF Sure
  <2>4. f.reliable /\ next + 1 <= n /\ \A g \in r : f.seq < g.seq
    BY <1>1, <1>3, <2>1
  <2> QED BY <1>1, <1>3, <2>3, <2>4 DEF Orderly, Before, Sure
<1> QED BY <1>2, <1>3

-----------------------------------------------------------------------------
(* The types of the path. *)

LEMMA NewFrameIs ==
  ASSUME NEW n \in 1..MaxEvents, NEW e \in Events, NEW reliable \in BOOLEAN,
         reliable \/ e.kind = "none"
  PROVE  /\ NewFrame(n, reliable, e) \in Frames
         /\ NewFrame(n, reliable, e).seq = n
         /\ NewFrame(n, reliable, e).reliable = reliable
         /\ NewFrame(n, reliable, e).event = e
<1>1. \E f \in Frames : f.seq = n /\ f.reliable = reliable /\ f.event = e
  BY PathAssumption
<1> QED BY <1>1 DEF NewFrame

LEMMA GestureIs ==
  ASSUME user \subseteq Keys, NEW e \in Gestures
  PROVE  e \in Events /\ Apply(e, user) \in SUBSET Keys
<1>1. e \in Events
  BY DEF Gestures, Events
<1> QED BY <1>1, ApplyType

(* What a frame that enters a link changes.                                *)
LEMMA Entering ==
  ASSUME PathType, NEW l \in Links, NEW f \in Frames, Enter(l, f)
  PROVE  /\ stream' \in Seq(Frames) /\ relay' \in Seq(Frames) /\ datagrams' \subseteq Frames
         /\ \/ /\ l = "relay" /\ relay' = Append(relay, f) /\ InRelay' = InRelay \cup {f}
               /\ UNCHANGED <<stream, datagrams>>
            \/ /\ l = "direct" /\ f.reliable /\ stream' = Append(stream, f)
               /\ InStream' = InStream \cup {f} /\ UNCHANGED <<relay, datagrams>>
            \/ /\ l = "direct" /\ ~f.reliable /\ datagrams' = datagrams \cup {f}
               /\ UNCHANGED <<stream, relay>>
<1>1. stream \in Seq(Frames) /\ relay \in Seq(Frames) /\ datagrams \subseteq Frames
  BY DEF PathType
<1>2. l \in {"direct", "relay"}
  BY PathAssumption
<1>3. CASE l = "relay"
  <2>1. relay' = Append(relay, f) /\ UNCHANGED <<stream, datagrams>>
    BY <1>3 DEF Enter
  <2>2. InRelay' = InRelay \cup {f}
    <3>1. {Append(relay, f)[i] : i \in DOMAIN Append(relay, f)}
            = {relay[i] : i \in DOMAIN relay} \cup {f}
      BY <1>1, AppendInQueue
    <3> QED BY <2>1, <3>1, Zenon DEF InRelay
  <2> QED BY <1>1, <1>3, <2>1, <2>2
<1>4. CASE l = "direct" /\ f.reliable
  <2>1. stream' = Append(stream, f) /\ UNCHANGED <<relay, datagrams>>
    BY <1>4 DEF Enter
  <2>2. InStream' = InStream \cup {f}
    <3>1. {Append(stream, f)[i] : i \in DOMAIN Append(stream, f)}
            = {stream[i] : i \in DOMAIN stream} \cup {f}
      BY <1>1, AppendInQueue
    <3> QED BY <2>1, <3>1, Zenon DEF InStream
  <2> QED BY <1>1, <1>4, <2>1, <2>2
<1>5. CASE l = "direct" /\ ~f.reliable
  <2>1. datagrams' = datagrams \cup {f} /\ UNCHANGED <<relay, stream>>
    BY <1>5 DEF Enter
  <2> QED BY <1>1, <1>5, <2>1
<1> QED BY <1>2, <1>3, <1>4, <1>5

LEMMA EnteringEach ==
  ASSUME PathType, NEW l \in Links, NEW f \in Frames, Enter(l, f)
  PROVE  /\ \/ InStream' = InStream
            \/ f.reliable /\ InStream' = InStream \cup {f}
         /\ \/ datagrams' = datagrams
            \/ ~f.reliable /\ datagrams' = datagrams \cup {f}
<1>1. CASE UNCHANGED <<stream, datagrams>>
  BY <1>1 DEF InStream
<1>2. CASE f.reliable /\ InStream' = InStream \cup {f} /\ UNCHANGED datagrams
  BY <1>2
<1>3. CASE ~f.reliable /\ datagrams' = datagrams \cup {f} /\ UNCHANGED stream
  BY <1>3 DEF InStream
<1> QED BY <1>1, <1>2, <1>3, Entering

LEMMA IInvStep == IInv /\ [Next]_vars => IInv'
  BY TypeStep, KeysStep, OrderStep, WindowStep DEF IInv

(* What is sent: the frame of a number, and the next number.               *)
LEMMA Transmits ==
  ASSUME PathType, NEW e \in Gestures, NEW reliable \in BOOLEAN,
         reliable \/ e.kind = "none", Transmit(e, reliable)
  PROVE  /\ UNCHANGED vars /\ UNCHANGED <<failures, listening>>
         /\ events' = events + 1 /\ events' <= MaxEvents /\ user' = Apply(e, user)
         /\ \E l \in Links, n \in 1..MaxEvents, f \in Frames :
              /\ Sender(l, n) /\ Enter(l, f) /\ link' = l /\ sequence' = n + 1
              /\ f.seq = n /\ f.reliable = reliable /\ f.event = e
<1>1. PICK l \in Links, n \in 1..MaxEvents :
        /\ Sender(l, n) /\ Enter(l, NewFrame(n, reliable, e))
        /\ link' = l /\ sequence' = n + 1
  BY DEF Transmit
<1>2. e \in Events
  BY GestureIs DEF PathType
<1> DEFINE f == NewFrame(n, reliable, e)
<1>3. f \in Frames /\ f.seq = n /\ f.reliable = reliable /\ f.event = e
  BY <1>2, NewFrameIs
<1> HIDE DEF f
<1>4. Enter(l, f)
  BY <1>1 DEF f
<1>5. events' = events + 1 /\ events' <= MaxEvents /\ user' = Apply(e, user)
  BY PathAssumption DEF Transmit, Captured, PathType
<1> QED BY <1>1, <1>3, <1>4, <1>5 DEF Transmit

LEMMA CaptureTypes == ASSUME PathType, Capture PROVE PathType'
<1>1. PICK e \in Gestures, reliable \in BOOLEAN :
        /\ reliable \/ e.kind = "none"
        /\ \/ Transmit(e, reliable) \/ TransmitFails(e, reliable) \/ DropInBackoff(e, reliable)
  BY DEF Capture
<1>2. /\ events' = events + 1 /\ user' = Apply(e, user) /\ events < MaxEvents
      /\ UNCHANGED vars
  BY <1>1 DEF Transmit, TransmitFails, DropInBackoff, Captured
<1>3. e \in Events /\ user' \subseteq Keys
  BY <1>2, GestureIs DEF PathType
<1>4. /\ IInv' /\ closed' = FALSE /\ exiting' = FALSE
      /\ pc' \in {"recv", "inject", "drain", "failed", "clockless"}
  <2>1. IInv'
    BY <1>2, IInvStep DEF PathType
  <2> QED BY <1>2, <2>1 DEF PathType, vars
<1>5. events \in Nat /\ events' \in Nat /\ sequence \in Nat \ {0} /\ sequence <= events + 1
  BY <1>2 DEF PathType
<1>6. Links \subseteq {"direct", "relay"} /\ MaxEvents \in Nat
  BY PathAssumption
<1>7. CASE Transmit(e, reliable)
  <2>1. PICK l \in Links, n \in 1..MaxEvents, f \in Frames :
          /\ Sender(l, n) /\ Enter(l, f) /\ link' = l /\ sequence' = n + 1
          /\ f.reliable = reliable
    BY <1>1, <1>7, Transmits
  <2>2. n <= events + 1 /\ n \in Nat \ {0}
    BY <1>5, <2>1 DEF Sender
  <2>3. failures' = failures
    BY <1>7 DEF Transmit
  <2>4. stream' \in Seq(Frames) /\ relay' \in Seq(Frames) /\ datagrams' \subseteq Frames
    BY <2>1, Entering
  <2>5. (\A g \in InStream' : g.reliable) /\ (\A g \in datagrams' : ~g.reliable)
    <3>1. \/ InStream' = InStream
          \/ f.reliable /\ InStream' = InStream \cup {f}
      BY <2>1, EnteringEach
    <3>2. \/ datagrams' = datagrams
          \/ ~f.reliable /\ datagrams' = datagrams \cup {f}
      BY <2>1, EnteringEach
    <3> QED BY <3>1, <3>2 DEF PathType
  <2>6. sequence' \in Nat \ {0} /\ sequence' <= events' + 1
    BY <1>2, <1>5, <2>1, <2>2
  <2>7. link' \in {"none", "direct", "relay"}
    BY <1>6, <2>1
  <2> QED BY <1>3, <1>4, <1>5, <2>3, <2>4, <2>5, <2>6, <2>7 DEF PathType
<1>8. CASE TransmitFails(e, reliable)
  <2>1. failures' = failures + 1 /\ link' = "none" /\ sequence' = 1
    BY <1>8 DEF TransmitFails
  <2>2. \/ UNCHANGED <<stream, datagrams, relay>>
        \/ link = "relay" /\ reliable /\ Enter(link, NewFrame(sequence, TRUE, e))
    BY <1>8 DEF TransmitFails
  <2>3. CASE UNCHANGED <<stream, datagrams, relay>>
    BY <1>2, <1>3, <1>4, <1>5, <2>1, <2>3 DEF PathType, InStream
  <2>4. CASE link = "relay" /\ reliable /\ Enter(link, NewFrame(sequence, TRUE, e))
    <3>1. sequence \in 1..MaxEvents
      BY <1>2, <1>5, <1>6
    <3>2. relay' = Append(relay, NewFrame(sequence, TRUE, e)) /\ UNCHANGED <<stream, datagrams>>
      BY <2>4 DEF Enter
    <3>3. relay' \in Seq(Frames) /\ UNCHANGED <<stream, datagrams>>
      <4> DEFINE f == NewFrame(sequence, TRUE, e)
      <4>1. f \in Frames
        BY <1>3, <3>1, NewFrameIs
      <4>2. relay \in Seq(Frames)
        BY DEF PathType
      <4>3. relay' = Append(relay, f) /\ UNCHANGED <<stream, datagrams>>
        BY <3>2
      <4> HIDE DEF f
      <4> QED BY <4>1, <4>2, <4>3
    <3> QED BY <1>2, <1>3, <1>4, <1>5, <2>1, <3>3 DEF PathType, InStream
  <2> QED BY <2>2, <2>3, <2>4
<1>9. CASE DropInBackoff(e, reliable)
  <2>1. UNCHANGED <<failures, link, sequence, stream, datagrams, relay>>
    BY <1>9 DEF DropInBackoff
  <2> QED BY <1>2, <1>3, <1>4, <1>5, <2>1 DEF PathType, InStream
<1> QED BY <1>1, <1>7, <1>8, <1>9

LEMMA NetworkTypes == ASSUME PathType, Network PROVE PathType'
<1>1. /\ stream \in Seq(Frames) /\ relay \in Seq(Frames) /\ datagrams \subseteq Frames
      /\ failures \in Nat
  BY DEF PathType
<1>2. [Next]_vars /\ UNCHANGED <<user, events, link, sequence>>
      /\ (failures' = failures \/ failures' = failures + 1)
      /\ UNCHANGED <<closed, exiting, pc>>
  <2>1. ASSUME NEW f \in Frames, QueueReliable(f) \/ QueueUnreliable(f)
        PROVE  Next /\ UNCHANGED <<closed, exiting, pc>>
    BY <2>1 DEF Next, Arrival, QueueReliable, QueueUnreliable
  <2>2. CASE LoseDatagram \/ LoseDirect \/ LoseRelay
    BY <2>2 DEF LoseDatagram, LoseDirect, LoseRelay, vars
  <2>3. CASE DeliverDatagram
    BY <1>1, <2>1, <2>3 DEF DeliverDatagram
  <2>4. CASE DeliverStream
    <3>1. Head(stream) \in Frames
      BY <1>1, <2>4, HeadOfQueue DEF DeliverStream
    <3> QED BY <2>1, <2>4, <3>1 DEF DeliverStream
  <2>5. CASE DeliverRelay
    <3>1. Head(relay) \in Frames
      BY <1>1, <2>5, HeadOfQueue DEF DeliverRelay
    <3> QED BY <2>1, <2>5, <3>1 DEF DeliverRelay
  <2> QED BY <2>2, <2>3, <2>4, <2>5 DEF Network
<1>3. IInv'
  BY <1>2, IInvStep DEF PathType
<1>4. /\ stream' \in Seq(Frames) /\ InStream' \subseteq InStream
      /\ relay' \in Seq(Frames) /\ datagrams' \subseteq datagrams
  <2>1. CASE DeliverStream
    BY <1>1, <2>1, HeadOfQueue, TailInQueue DEF DeliverStream, InStream
  <2>2. CASE DeliverRelay
    BY <1>1, <2>2, HeadOfQueue DEF DeliverRelay, InStream
  <2>3. CASE LoseDirect
    <3>1. PICK n \in 0..Len(stream) : stream' = SubSeq(stream, 1, n)
      BY <2>3 DEF LoseDirect
    <3>2. stream' \in Seq(Frames) /\ DOMAIN stream' = 1..n /\ DOMAIN stream = 1..Len(stream)
          /\ \A i \in 1..n : stream'[i] = stream[i]
      BY <1>1, <3>1
    <3>3. InStream' \subseteq InStream
      BY <3>2 DEF InStream
    <3> QED BY <1>1, <2>3, <3>2, <3>3 DEF LoseDirect
  <2>4. CASE LoseRelay
    <3>1. relay' = <<>> /\ UNCHANGED <<stream, datagrams>>
      BY <2>4 DEF LoseRelay
    <3>2. relay' \in Seq(Frames)
      BY <3>1
    <3> QED BY <1>1, <3>1, <3>2 DEF InStream
  <2>5. CASE LoseDatagram \/ DeliverDatagram
    BY <1>1, <2>5 DEF LoseDatagram, DeliverDatagram, InStream
  <2> QED BY <2>1, <2>2, <2>3, <2>4, <2>5 DEF Network
<1> QED BY <1>1, <1>2, <1>3, <1>4 DEF PathType

LEMMA ReceiverTypes == ASSUME PathType, Receiver PROVE PathType'
<1>1. UNCHANGED pathVars /\ Next
  BY DEF Receiver, Work, TimePasses, Next
<1>2. IInv'
  BY <1>1, IInvStep DEF PathType
<1>3. /\ closed' = FALSE /\ exiting' = FALSE
      /\ pc' \in {"recv", "inject", "drain", "failed", "clockless"}
  <2>1. /\ closed = FALSE /\ exiting = FALSE
        /\ pc \in {"recv", "inject", "drain", "failed", "clockless"}
    BY DEF PathType
  <2>2. CASE Thread
    BY <2>1, <2>2 DEF Thread, Receive, DropOld, AcceptNext, BufferReliable, BufferEarlyMove,
       JumpAhead, ArmDeadline, RecoverGap, SkipGap, Injection, ClockFails, Inject, InjectFails,
       ReleaseForTargetFails, SkipStaleMove, Drain, DrainEarly, DrainPending, DrainDone,
       LeaveLoop, ExitRecover, ExitRelease
  <2>3. CASE TimePasses
    BY <2>1, <2>3 DEF TimePasses, DeadlinePasses
  <2> QED BY <2>2, <2>3 DEF Receiver, Work
<1> QED BY <1>1, <1>2, <1>3 DEF PathType, pathVars, InStream

LEMMA PathTypeStep == PathType /\ [PathNext]_allVars => PathType'
<1>1. CASE UNCHANGED allVars
  <2>1. PathType => IInv'
    BY <1>1, IInvStep DEF PathType, allVars
  <2> QED BY <1>1, <2>1 DEF PathType, allVars, vars, pathVars, InStream
<1> QED BY <1>1, CaptureTypes, NetworkTypes, ReceiverTypes DEF PathNext

-----------------------------------------------------------------------------
(* The order of the sequences. *)

LEMMA AscendsOn ==
  ASSUME NEW z \in Seq(Frames), Ascends(z)
  PROVE  /\ z # <<>> => /\ Ascends(Tail(z))
                        /\ Before({Head(z)}, {Tail(z)[i] : i \in DOMAIN Tail(z)})
         /\ \A f \in Frames : (\A i \in DOMAIN z : z[i].seq < f.seq) => Ascends(Append(z, f))
<1>1. ASSUME z # <<>>
      PROVE  Ascends(Tail(z)) /\ Before({Head(z)}, {Tail(z)[i] : i \in DOMAIN Tail(z)})
  <2> DEFINE t == Tail(z)
  <2>1. /\ Len(z) \in Nat \ {0} /\ DOMAIN z = 1..Len(z) /\ DOMAIN t = 1..Len(z) - 1
        /\ \A i \in 1..Len(z) - 1 : t[i] = z[i + 1]
        /\ Head(z) = z[1]
    BY <1>1
  <2> HIDE DEF t
  <2>2. ASSUME NEW i \in DOMAIN t PROVE i + 1 \in DOMAIN z /\ 1 < i + 1 /\ 1 \in DOMAIN z
    BY <2>1
  <2>3. ASSUME NEW i \in DOMAIN t, NEW j \in DOMAIN t, i < j PROVE t[i].seq < t[j].seq
    <3>1. i + 1 < j + 1
      BY <2>1, <2>3
    <3> QED BY <2>1, <2>2, <3>1 DEF Ascends
  <2>4. ASSUME NEW i \in DOMAIN t PROVE Head(z).seq < t[i].seq
    BY <2>1, <2>2 DEF Ascends
  <2> QED BY <2>3, <2>4 DEF Ascends, Before, t
<1>2. ASSUME NEW f \in Frames, \A i \in DOMAIN z : z[i].seq < f.seq
      PROVE  Ascends(Append(z, f))
  <2> DEFINE a == Append(z, f)
  <2>1. /\ Len(z) \in Nat /\ DOMAIN z = 1..Len(z) /\ DOMAIN a = 1..Len(z) + 1
        /\ a[Len(z) + 1] = f /\ \A i \in 1..Len(z) : a[i] = z[i]
    OBVIOUS
  <2> HIDE DEF a
  <2>2. ASSUME NEW i \in DOMAIN a, NEW j \in DOMAIN a, i < j PROVE a[i].seq < a[j].seq
    <3>1. i \in DOMAIN z /\ (j \in DOMAIN z \/ j = Len(z) + 1)
      BY <2>1, <2>2
    <3> QED BY <1>2, <2>1, <2>2, <3>1 DEF Ascends
  <2> QED BY <2>2 DEF Ascends, a
<1> QED BY <1>1, <1>2

LEMMA SureAscendsOn ==
  ASSUME NEW z \in Seq(Frames), SureAscends(z)
  PROVE  /\ z # <<>> => /\ SureAscends(Tail(z))
                        /\ Head(z).reliable
                             => Before({Head(z)}, Sure({Tail(z)[i] : i \in DOMAIN Tail(z)}))
         /\ \A f \in Frames : (f.reliable => \A i \in DOMAIN z : z[i].reliable => z[i].seq < f.seq)
                                => SureAscends(Append(z, f))
<1>1. ASSUME z # <<>>
      PROVE  /\ SureAscends(Tail(z))
             /\ Head(z).reliable => Before({Head(z)}, Sure({Tail(z)[i] : i \in DOMAIN Tail(z)}))
  <2> DEFINE t == Tail(z)
  <2>1. /\ Len(z) \in Nat \ {0} /\ DOMAIN z = 1..Len(z) /\ DOMAIN t = 1..Len(z) - 1
        /\ \A i \in 1..Len(z) - 1 : t[i] = z[i + 1]
        /\ Head(z) = z[1]
    BY <1>1
  <2> HIDE DEF t
  <2>2. ASSUME NEW i \in DOMAIN t PROVE i + 1 \in DOMAIN z /\ 1 < i + 1 /\ 1 \in DOMAIN z
    BY <2>1
  <2>3. ASSUME NEW i \in DOMAIN t, NEW j \in DOMAIN t, i < j, t[i].reliable, t[j].reliable
        PROVE  t[i].seq < t[j].seq
    <3>1. i + 1 < j + 1
      BY <2>1, <2>3
    <3> QED BY <2>1, <2>2, <2>3, <3>1 DEF SureAscends
  <2>4. ASSUME NEW i \in DOMAIN t, Head(z).reliable, t[i].reliable PROVE Head(z).seq < t[i].seq
    BY <2>1, <2>2, <2>4 DEF SureAscends
  <2> QED BY <2>3, <2>4 DEF SureAscends, Before, Sure, t
<1>2. ASSUME NEW f \in Frames, f.reliable => \A i \in DOMAIN z : z[i].reliable => z[i].seq < f.seq
      PROVE  SureAscends(Append(z, f))
  <2> DEFINE a == Append(z, f)
  <2>1. /\ Len(z) \in Nat /\ DOMAIN z = 1..Len(z) /\ DOMAIN a = 1..Len(z) + 1
        /\ a[Len(z) + 1] = f /\ \A i \in 1..Len(z) : a[i] = z[i]
    OBVIOUS
  <2> HIDE DEF a
  <2>2. ASSUME NEW i \in DOMAIN a, NEW j \in DOMAIN a, i < j, a[i].reliable, a[j].reliable
        PROVE  a[i].seq < a[j].seq
    <3>1. i \in DOMAIN z /\ (j \in DOMAIN z \/ j = Len(z) + 1)
      BY <2>1, <2>2
    <3> QED BY <1>2, <2>1, <2>2, <3>1 DEF SureAscends
  <2> QED BY <2>2 DEF SureAscends, a
<1> QED BY <1>1, <1>2

-----------------------------------------------------------------------------
(* The line holds. *)

LEMMA CalmBefore == ASSUME PathType, [PathNext]_allVars, Calm' PROVE Calm
<1>1. failures' = 0 => failures = 0
  <2>1. failures' = failures \/ failures' = failures + 1
    BY DEF PathNext, Capture, Transmit, TransmitFails, DropInBackoff, Network, DeliverDatagram,
       DeliverStream, DeliverRelay, LoseDatagram, LoseDirect, LoseRelay, Receiver, Work,
       TimePasses, pathVars, allVars
  <2> QED BY <2>1 DEF PathType
<1>2. pc \in {"failed", "clockless"} => pc' = pc
  <2>1. CASE UNCHANGED allVars \/ Capture \/ Network
    BY <2>1 DEF Capture, Transmit, TransmitFails, DropInBackoff, Network, DeliverDatagram,
       DeliverStream, DeliverRelay, LoseDatagram, LoseDirect, LoseRelay, QueueReliable,
       QueueUnreliable, vars, allVars
  <2>2. CASE Receiver
    BY <2>2 DEF Receiver, Work, TimePasses, DeadlinePasses, Thread, Receive, DropOld, AcceptNext,
       BufferReliable, BufferEarlyMove, JumpAhead, MayReceive, ArmDeadline, RecoverGap,
       Injection, ClockFails, Inject, InjectFails, ReleaseForTargetFails, SkipStaleMove, Drain, DrainEarly,
       DrainPending, DrainDone, LeaveLoop, ExitRecover, ExitRelease
  <2> QED BY <2>1, <2>2 DEF PathNext
<1> QED BY <1>1, <1>2 DEF Calm

(* What the line is made of.                                               *)
LEMMA LineTypes ==
  ASSUME PathType
  PROVE  /\ InQueue \subseteq Frames /\ pending \subseteq Frames /\ early \subseteq Frames
         /\ Current \subseteq Frames /\ InStream \subseteq Frames /\ InRelay \subseteq Frames
         /\ datagrams \subseteq Frames
         /\ InQueue \cup pending \cup early \cup Current \cup InStream \cup InRelay
              \cup datagrams \subseteq Frames
         /\ \A g \in pending \cup InStream : g.reliable
         /\ \A g \in early \cup datagrams : ~g.reliable
         /\ nextSequence \in Nat /\ sequence \in Nat
         /\ queue \in Seq(Frames) /\ stream \in Seq(Frames) /\ relay \in Seq(Frames)
<1>1. /\ queue \in Seq(Frames) /\ stream \in Seq(Frames) /\ relay \in Seq(Frames)
      /\ pending \subseteq {f \in Frames : f.reliable}
      /\ early \subseteq {f \in Frames : ~f.reliable}
      /\ nextSequence \in Nat /\ sequence \in Nat
      /\ datagrams \subseteq Frames
      /\ \A g \in InStream : g.reliable
      /\ \A g \in datagrams : ~g.reliable
  BY DEF PathType, IInv, TypeOK
<1>2. \A z \in Seq(Frames) : {z[i] : i \in DOMAIN z} \subseteq Frames
  OBVIOUS
<1>3. InQueue \subseteq Frames /\ InStream \subseteq Frames /\ InRelay \subseteq Frames
  BY <1>1, <1>2 DEF InQueue, InStream, InRelay
<1>4. Current \subseteq Frames
  BY DEF Current
<1> QED BY <1>1, <1>3, <1>4

LEMMA NothingInHand ==
  ASSUME PathType, pc # "inject"
  PROVE  Current = {} /\ current = NoFrame
  BY SentinelAssumption DEF PathType, IInv, TypeOK, Current

LEMMA SomethingInHand ==
  ASSUME PathType, pc = "inject"
  PROVE  Current = {current} /\ current \in Frames
  BY SentinelAssumption DEF PathType, IInv, TypeOK, Current

LEMMA SendsInOrder ==
  ASSUME PathType, Calm, OrderInv, NEW e \in Gestures, NEW reliable \in BOOLEAN,
         reliable \/ e.kind = "none", Transmit(e, reliable)
  PROVE  OrderInv'
<1>1. /\ OneLink /\ InLine /\ SureAscends(queue) /\ Ascends(stream) /\ Ascends(relay)
      /\ link = "none" => sequence = 1
  BY DEF OrderInv
<1>2. UNCHANGED <<listening, queue, pending, early, current, nextSequence, deadline>>
  BY Transmits DEF vars
<1>3. PICK l \in Links, n \in 1..MaxEvents, f \in Frames :
        /\ Sender(l, n) /\ Enter(l, f) /\ link' = l /\ sequence' = n + 1 /\ f.seq = n
  BY Transmits
<1>4. n = sequence /\ l \in {"direct", "relay"} /\ (link = "none" \/ link = l)
  BY <1>1, <1>3, PathAssumption DEF Sender
<1>5. UNCHANGED <<InQueue, Current>>
  BY <1>2 DEF InQueue, Current
<1>6. \A g \in InQueue \cup pending \cup early \cup Current \cup InStream \cup InRelay
                 \cup datagrams : g.seq < n
  BY <1>1, <1>4 DEF InLine, Orderly
<1>7. (\A i \in DOMAIN stream : stream[i].seq < f.seq) /\ \A i \in DOMAIN relay : relay[i].seq < f.seq
  BY <1>3, <1>6 DEF InStream, InRelay
<1> DEFINE D == InQueue \cup pending \cup early \cup Current \cup InStream \cup InRelay \cup datagrams
<1>8. /\ InQueue \cup pending \cup early \cup Current \cup InStream \cup InRelay
           \cup datagrams \subseteq Frames
      /\ nextSequence \in Nat /\ sequence \in Nat
      /\ queue \in Seq(Frames) /\ stream \in Seq(Frames) /\ relay \in Seq(Frames)
  BY LineTypes
<1>9. /\ f.reliable => Orderly(InQueue, pending, early, Current, InStream \cup {f}, InRelay,
                               datagrams, nextSequence, sequence + 1, deadline)
      /\ ~f.reliable => Orderly(InQueue, pending, early, Current, InStream, InRelay,
                                datagrams \cup {f}, nextSequence, sequence + 1, deadline)
      /\ Orderly(InQueue, pending, early, Current, InStream, InRelay \cup {f},
                 datagrams, nextSequence, sequence + 1, deadline)
  BY <1>1, <1>3, <1>4, <1>8, LineSends DEF InLine
<1>10. CASE /\ l = "relay" /\ relay' = Append(relay, f) /\ InRelay' = InRelay \cup {f}
            /\ UNCHANGED <<stream, datagrams>>
  <2>1. InStream' = InStream
    BY <1>10 DEF InStream
  <2>2. InLine'
    BY <1>2, <1>3, <1>4, <1>5, <1>9, <1>10, <2>1 DEF InLine
  <2>3. Ascends(relay')
    BY <1>1, <1>7, <1>8, <1>10, AscendsOn
  <2>4. OneLink'
    BY <1>1, <1>2, <1>3, <1>4, <1>10 DEF OneLink
  <2> QED BY <1>1, <1>2, <1>3, <1>4, <1>10, <2>2, <2>3, <2>4 DEF OrderInv
<1>11. CASE /\ l = "direct" /\ f.reliable /\ stream' = Append(stream, f)
            /\ InStream' = InStream \cup {f} /\ UNCHANGED <<relay, datagrams>>
  <2>1. InRelay' = InRelay
    BY <1>11 DEF InRelay
  <2>2. InLine'
    BY <1>2, <1>3, <1>4, <1>5, <1>9, <1>11, <2>1 DEF InLine
  <2>3. Ascends(stream')
    BY <1>1, <1>7, <1>8, <1>11, AscendsOn
  <2>4. OneLink'
    BY <1>1, <1>2, <1>3, <1>4, <1>11 DEF OneLink
  <2> QED BY <1>1, <1>2, <1>3, <1>4, <1>11, <2>2, <2>3, <2>4 DEF OrderInv
<1>12. CASE /\ l = "direct" /\ ~f.reliable /\ datagrams' = datagrams \cup {f}
            /\ UNCHANGED <<stream, relay>>
  <2>1. InRelay' = InRelay /\ InStream' = InStream
    BY <1>12 DEF InRelay, InStream
  <2>2. InLine'
    BY <1>2, <1>3, <1>4, <1>5, <1>9, <1>12, <2>1 DEF InLine
  <2>3. OneLink'
    BY <1>1, <1>2, <1>3, <1>4, <1>12 DEF OneLink
  <2> QED BY <1>1, <1>2, <1>3, <1>4, <1>12, <2>2, <2>3 DEF OrderInv
<1> QED BY <1>3, <1>10, <1>11, <1>12, Entering

(* A frame comes into the channel or, a move, is dropped in front of it.   *)
LEMMA Queues ==
  ASSUME PathType, NEW f \in Frames, QueueReliable(f) \/ QueueUnreliable(f)
  PROVE  /\ UNCHANGED <<pending, early, current, nextSequence, deadline, Current>>
         /\ \/ queue' = Append(queue, f) /\ InQueue' = InQueue \cup {f}
            \/ ~f.reliable /\ queue' = queue /\ InQueue' = InQueue
<1>1. /\ UNCHANGED <<pending, early, current, nextSequence, deadline>>
      /\ queue' = Append(queue, f) \/ (~f.reliable /\ queue' = queue)
  BY DEF QueueReliable, QueueUnreliable, seqVars
<1>2. queue \in Seq(Frames)
  BY LineTypes
<1>3. queue' = Append(queue, f) => InQueue' = InQueue \cup {f}
  BY <1>2, AppendInQueue DEF InQueue
<1> QED BY <1>1, <1>3 DEF InQueue, Current

LEMMA NetworkInOrder == ASSUME PathType, Calm, OrderInv, Network, Calm' PROVE OrderInv'
<1>1. /\ OneLink /\ InLine /\ SureAscends(queue) /\ Ascends(stream) /\ Ascends(relay)
      /\ link = "none" => sequence = 1
  BY DEF OrderInv
<1>2. /\ InQueue \cup pending \cup early \cup Current \cup InStream \cup InRelay
           \cup datagrams \subseteq Frames
      /\ datagrams \subseteq Frames
      /\ nextSequence \in Nat /\ sequence \in Nat
      /\ queue \in Seq(Frames) /\ stream \in Seq(Frames) /\ relay \in Seq(Frames)
      /\ (\A g \in InStream : g.reliable) /\ (\A g \in datagrams : ~g.reliable)
  BY LineTypes
<1>3. \A z \in Seq(Frames) : z # <<>> => z[1] = Head(z) /\ 1 \in DOMAIN z
  OBVIOUS
<1>4. (stream = <<>> => InStream = {}) /\ (relay = <<>> => InRelay = {})
  BY DEF InStream, InRelay
<1>5. ~LoseDirect /\ ~LoseRelay
  BY <1>1 DEF OneLink, LoseDirect, LoseRelay, Calm, PathType
<1>6. CASE LoseDatagram
  <2>1. /\ datagrams' \subseteq datagrams
        /\ UNCHANGED <<listening, link, sequence, stream, relay, queue, pending, early, current,
                       nextSequence, deadline>>
    BY <1>6 DEF LoseDatagram, vars
  <2>2. UNCHANGED <<InQueue, Current, InStream, InRelay>>
    BY <2>1 DEF InQueue, Current, InStream, InRelay
  <2>3. InLine'
    BY <1>1, <2>1, <2>2, LineShrinks DEF InLine
  <2>4. OneLink'
    BY <1>1, <2>1 DEF OneLink
  <2> QED BY <1>1, <2>1, <2>3, <2>4 DEF OrderInv
<1>7. ASSUME NEW f \in Frames, QueueReliable(f) \/ QueueUnreliable(f),
             f.reliable => \A g \in Sure(InQueue) : g.seq < f.seq
      PROVE  SureAscends(queue')
  <2>1. f.reliable => \A i \in DOMAIN queue : queue[i].reliable => queue[i].seq < f.seq
    BY <1>7 DEF Sure, InQueue
  <2>2. queue' = Append(queue, f) \/ queue' = queue
    BY <1>7, Queues
  <2> QED BY <1>1, <1>2, <2>1, <2>2, SureAscendsOn
<1>8. CASE DeliverDatagram
  <2>1. PICK f \in datagrams : QueueUnreliable(f) /\ datagrams' = datagrams \ {f}
    BY <1>8 DEF DeliverDatagram
  <2>2. UNCHANGED <<listening, link, sequence, stream, relay, InStream, InRelay>>
    BY <1>8 DEF DeliverDatagram, InStream, InRelay
  <2>3. f \in Frames /\ ~f.reliable /\ InRelay = {}
    BY <1>1, <1>2, <1>4, <2>1 DEF OneLink
  <2>4. /\ UNCHANGED <<pending, early, current, nextSequence, deadline, Current>>
        /\ InQueue' = InQueue \cup {f} \/ InQueue' = InQueue
    BY <2>1, <2>3, Queues
  <2>5. InLine'
    <3>1. Orderly(InQueue \cup {f}, pending, early, Current, InStream, InRelay, datagrams \ {f},
                  nextSequence, sequence, deadline)
      BY <1>1, <1>2, <2>1, <2>3, LineArrives DEF InLine
    <3>2. Orderly(InQueue, pending, early, Current, InStream, InRelay, datagrams \ {f},
                  nextSequence, sequence, deadline)
      BY <1>1, LineShrinks DEF InLine
    <3> QED BY <2>1, <2>2, <2>4, <3>1, <3>2 DEF InLine
  <2>6. OneLink'
    BY <1>1, <2>1, <2>2 DEF OneLink
  <2>7. SureAscends(queue')
    BY <1>7, <2>1, <2>3
  <2> QED BY <1>1, <2>2, <2>5, <2>6, <2>7 DEF OrderInv
<1>9. CASE DeliverStream
  <2> DEFINE f == Head(stream)
  <2>1. /\ stream # <<>> /\ stream' = Tail(stream) /\ QueueReliable(f)
        /\ UNCHANGED <<listening, link, sequence, relay, datagrams>>
    BY <1>9 DEF DeliverStream
  <2>2. /\ f \in Frames /\ f \in InStream /\ InStream' \subseteq InStream
        /\ Before({f}, InStream') /\ Ascends(stream')
    <3>1. f \in Frames /\ f = stream[1] /\ 1 \in DOMAIN stream
      BY <1>2, <1>3, <2>1, HeadOfQueue
    <3>2. InStream' = {Tail(stream)[i] : i \in DOMAIN Tail(stream)}
      BY <2>1 DEF InStream
    <3>3. InStream' \subseteq InStream
      BY <1>2, <2>1, <3>2, TailInQueue DEF InStream
    <3>4. Before({f}, InStream') /\ Ascends(stream')
      BY <1>1, <1>2, <2>1, <3>2, AscendsOn
    <3> QED BY <3>1, <3>3, <3>4 DEF InStream
  <2> HIDE DEF f
  <2>3. InRelay = {} /\ InRelay' = InRelay
    BY <1>1, <1>4, <2>1 DEF OneLink, InRelay
  <2>4. /\ UNCHANGED <<pending, early, current, nextSequence, deadline, Current>>
        /\ InQueue' = InQueue \cup {f}
    BY <2>1, <2>2, Queues DEF QueueReliable
  <2>5. InLine'
    <3>1. Orderly(InQueue \cup {f}, pending, early, Current, InStream', InRelay, datagrams,
                  nextSequence, sequence, deadline)
      BY <1>1, <1>2, <2>2, <2>3, LineArrives DEF InLine
    <3> QED BY <2>1, <2>3, <2>4, <3>1 DEF InLine
  <2>6. OneLink'
    BY <1>1, <2>1 DEF OneLink
  <2>7. \A g \in Sure(InQueue) : g.seq < f.seq
    BY <1>1, <2>2 DEF InLine, Orderly, Before
  <2>8. SureAscends(queue')
    BY <1>7, <2>1, <2>2, <2>7
  <2> QED BY <1>1, <2>1, <2>2, <2>5, <2>6, <2>8 DEF OrderInv
<1>10. CASE DeliverRelay
  <2> DEFINE f == Head(relay)
  <2>1. /\ relay # <<>> /\ relay' = Tail(relay) /\ (QueueReliable(f) \/ QueueUnreliable(f))
        /\ UNCHANGED <<listening, link, sequence, stream, datagrams>>
    BY <1>10 DEF DeliverRelay
  <2>2. /\ f \in Frames /\ f \in InRelay /\ InRelay' \subseteq InRelay
        /\ Before({f}, InRelay') /\ Ascends(relay')
    <3>1. f \in Frames /\ f = relay[1] /\ 1 \in DOMAIN relay
      BY <1>2, <1>3, <2>1, HeadOfQueue
    <3>2. InRelay' = {Tail(relay)[i] : i \in DOMAIN Tail(relay)}
      BY <2>1 DEF InRelay
    <3>3. InRelay' \subseteq InRelay
      BY <1>2, <2>1, <3>2, TailInQueue DEF InRelay
    <3>4. Before({f}, InRelay') /\ Ascends(relay')
      BY <1>1, <1>2, <2>1, <3>2, AscendsOn
    <3> QED BY <3>1, <3>3, <3>4 DEF InRelay
  <2> HIDE DEF f
  <2>3. InStream = {} /\ datagrams = {} /\ InStream' = InStream
    BY <1>1, <1>4, <2>1 DEF OneLink, InStream
  <2>4. /\ UNCHANGED <<pending, early, current, nextSequence, deadline, Current>>
        /\ InQueue' = InQueue \cup {f} \/ InQueue' = InQueue
    BY <2>1, <2>2, Queues
  <2>5. InLine'
    <3>1. Orderly(InQueue \cup {f}, pending, early, Current, InStream, InRelay', datagrams,
                  nextSequence, sequence, deadline)
      BY <1>1, <1>2, <2>2, <2>3, LineArrives DEF InLine
    <3>2. Orderly(InQueue, pending, early, Current, InStream, InRelay', datagrams,
                  nextSequence, sequence, deadline)
      BY <1>1, <2>2, LineShrinks DEF InLine
    <3> QED BY <2>1, <2>3, <2>4, <3>1, <3>2 DEF InLine
  <2>6. OneLink'
    BY <1>1, <2>1 DEF OneLink
  <2>7. \A g \in Sure(InQueue) : g.seq < f.seq
    BY <1>1, <2>2 DEF InLine, Orderly, Before, Sure
  <2>8. SureAscends(queue')
    BY <1>7, <2>1, <2>2, <2>7
  <2> QED BY <1>1, <2>1, <2>2, <2>5, <2>6, <2>8 DEF OrderInv
<1> QED BY <1>5, <1>6, <1>8, <1>9, <1>10 DEF Network

(* The head of the channel, when the thread may take it.                   *)
LEMMA HeadTaken ==
  ASSUME PathType, SureAscends(queue), MayReceive, queue' = Tail(queue)
  PROVE  /\ Head(queue) \in Frames /\ Head(queue) \in InQueue
         /\ InQueue' \subseteq InQueue
         /\ Head(queue).reliable => Before({Head(queue)}, Sure(InQueue'))
         /\ SureAscends(queue')
         /\ Current = {} /\ deadline' # "expired"
<1>1. queue \in Seq(Frames) /\ queue # <<>> /\ pc = "recv" /\ deadline' # "expired"
  BY LineTypes DEF MayReceive
<1>2. InQueue' = {Tail(queue)[i] : i \in DOMAIN Tail(queue)}
  BY DEF InQueue
<1>3. Head(queue) \in Frames /\ Head(queue) \in InQueue /\ InQueue' \subseteq InQueue
  BY <1>1, <1>2, HeadOfQueue, TailInQueue DEF InQueue
<1>4. /\ SureAscends(queue')
      /\ Head(queue).reliable => Before({Head(queue)}, Sure(InQueue'))
  BY <1>1, <1>2, SureAscendsOn
<1> QED BY <1>1, <1>3, <1>4, NothingInHand

LEMMA TakesInOrder == ASSUME PathType, Calm, OrderInv, Receive, UNCHANGED pathVars, Calm'
                      PROVE  OrderInv'
<1> DEFINE f == Head(queue)
           q2 == InQueue'
           due2 == deadline'
<1>1. /\ OneLink /\ InLine /\ SureAscends(queue) /\ Ascends(stream) /\ Ascends(relay)
      /\ link = "none" => sequence = 1
  BY DEF OrderInv
<1>2. MayReceive /\ queue' = Tail(queue)
  BY DEF Receive, DropOld, AcceptNext, BufferReliable, BufferEarlyMove, JumpAhead
<1>3. UNCHANGED <<listening, link, sequence, stream, relay, datagrams, InStream, InRelay>>
  BY DEF pathVars, InStream, InRelay
<1>4. /\ f \in Frames /\ f \in InQueue /\ q2 \in SUBSET InQueue
      /\ f.reliable => Before({f}, Sure(q2))
      /\ SureAscends(queue') /\ Current = {} /\ due2 # "expired"
  BY <1>1, <1>2, HeadTaken
<1>5. /\ pending \subseteq Frames /\ early \subseteq Frames
      /\ InQueue \cup pending \cup early \cup InStream \cup InRelay \cup datagrams \subseteq Frames
      /\ \A g \in pending \cup InStream : g.reliable
      /\ \A g \in early \cup datagrams : ~g.reliable
      /\ nextSequence \in Nat /\ sequence \in Nat
  BY LineTypes
<1>6. Orderly(InQueue, pending, early, {}, InStream, InRelay, datagrams, nextSequence, sequence,
              deadline)
  BY <1>1, <1>4 DEF InLine
<1> HIDE DEF f, q2, due2
<1>7. Orderly(q2, pending, early, {}, InStream, InRelay, datagrams, nextSequence, sequence, due2)
  BY <1>4, <1>6, LineShrinks
<1>8. /\ f.seq = nextSequence /\ f.reliable
           => Orderly(q2, pending, early, {f}, InStream, InRelay, datagrams, nextSequence + 1,
                      sequence, due2)
      /\ f.seq = nextSequence /\ ~f.reliable
           => Orderly(q2, pending, early, {f}, InStream, InRelay, datagrams, nextSequence,
                      sequence, due2)
      /\ f.reliable /\ f.seq > nextSequence
           => Orderly(q2, pending \cup {f}, early, {}, InStream, InRelay, datagrams,
                      nextSequence, sequence, due2)
      /\ ~f.reliable
           => Orderly(q2, pending, early \cup {f}, {}, InStream, InRelay, datagrams,
                      nextSequence, sequence, due2)
      /\ f.reliable /\ f.seq > nextSequence
           => Orderly(q2, {}, early, {f}, InStream, InRelay, datagrams, f.seq + 1, sequence, due2)
  BY <1>4, <1>5, <1>6, LineTakes
<1>9. ASSUME Orderly(q2, pending', early', Current', InStream, InRelay, datagrams,
                     nextSequence', sequence, due2)
      PROVE  OrderInv'
  <2>1. InLine'
    BY <1>3, <1>9 DEF InLine, q2, due2
  <2>2. OneLink'
    BY <1>1, <1>3 DEF OneLink
  <2> QED BY <1>1, <1>3, <1>4, <2>1, <2>2 DEF OrderInv
<1>10. CASE DropOld
  <2>1. UNCHANGED <<pending, early, nextSequence, current>>
    BY <1>10 DEF DropOld, seqVars
  <2>2. Current' = {}
    BY <1>4, <2>1 DEF Current
  <2> QED BY <1>7, <1>9, <2>1, <2>2
<1>11. CASE AcceptNext
  <2>1. /\ f.seq = nextSequence /\ current' = f
        /\ nextSequence' = IF f.reliable THEN nextSequence + 1 ELSE nextSequence
        /\ UNCHANGED <<pending, early>>
    BY <1>11 DEF AcceptNext, f
  <2>2. Current' = {f}
    BY <1>4, <2>1 DEF Current
  <2> QED BY <1>8, <1>9, <2>1, <2>2
<1>12. CASE BufferReliable
  <2>1. /\ f.reliable /\ f.seq > nextSequence
        /\ pending' = pending \/ pending' = pending \cup {f}
        /\ UNCHANGED <<early, nextSequence, current>>
    BY <1>12 DEF BufferReliable, InsertIfAbsent, f
  <2>2. Current' = {}
    BY <1>4, <2>1 DEF Current
  <2> QED BY <1>7, <1>8, <1>9, <2>1, <2>2
<1>13. CASE BufferEarlyMove
  <2>1. /\ ~f.reliable
        /\ early' = early \/ early' = early \cup {f}
        /\ UNCHANGED <<pending, nextSequence, current>>
    BY <1>13 DEF BufferEarlyMove, InsertIfAbsent, f
  <2>2. Current' = {}
    BY <1>4, <2>1 DEF Current
  <2> QED BY <1>7, <1>8, <1>9, <2>1, <2>2
<1>14. CASE JumpAhead
  <2>1. /\ f.reliable /\ f.seq > nextSequence /\ pending' = {} /\ nextSequence' = f.seq + 1
        /\ UNCHANGED early /\ current' = f
    BY <1>14 DEF JumpAhead, f, Calm
  <2>2. Current' = {f}
    BY <1>4, <2>1 DEF Current
  <2> QED BY <1>8, <1>9, <2>1, <2>2
<1> QED BY <1>10, <1>11, <1>12, <1>13, <1>14 DEF Receive

(* What the thread does to the frames it has.                              *)
LEMMA ThreadInOrder ==
  ASSUME PathType, Calm, OrderInv, UNCHANGED pathVars, Calm',
         ArmDeadline \/ RecoverGap \/ Injection \/ Drain \/ LeaveLoop \/ ExitRecover \/ ExitRelease
  PROVE  OrderInv'
<1>1. /\ OneLink /\ InLine /\ SureAscends(queue) /\ Ascends(stream) /\ Ascends(relay)
      /\ link = "none" => sequence = 1
  BY DEF OrderInv
<1>2. ~LeaveLoop /\ ~ExitRecover /\ ~ExitRelease /\ ~ClockFails
  BY DEF PathType, LeaveLoop, ExitRecover, ExitRelease, ClockFails, Calm
<1>3. queue' = queue
  BY <1>2 DEF ArmDeadline, RecoverGap, Injection, SkipStaleMove, Inject, InjectFails,
     ReleaseForTargetFails, Drain, DrainEarly, DrainPending, DrainDone
<1>4. UNCHANGED <<listening, link, sequence, stream, relay, datagrams, InStream, InRelay, InQueue>>
  BY <1>3 DEF pathVars, InStream, InRelay, InQueue
<1>5. /\ pending \subseteq Frames /\ early \subseteq Frames
      /\ InQueue \cup pending \cup early \cup InStream \cup InRelay \cup datagrams \subseteq Frames
      /\ \A g \in pending \cup InStream : g.reliable
      /\ \A g \in early : ~g.reliable
      /\ nextSequence \in Nat /\ sequence \in Nat
  BY LineTypes
<1> DEFINE due2 == deadline'
<1>6. ASSUME Orderly(InQueue, pending', early', Current', InStream, InRelay, datagrams,
                     nextSequence', sequence, due2)
      PROVE  OrderInv'
  <2>1. InLine'
    BY <1>4, <1>6 DEF InLine
  <2>2. OneLink'
    BY <1>1, <1>4 DEF OneLink
  <2> QED BY <1>1, <1>3, <1>4, <2>1, <2>2 DEF OrderInv
<1> HIDE DEF due2
<1>7. CASE ArmDeadline \/ DrainDone
  <2>1. /\ UNCHANGED <<pending, early, nextSequence, Current>>
        /\ due2 = deadline \/ due2 # "expired"
    BY <1>7 DEF ArmDeadline, DrainDone, seqVars, Current, due2
  <2>2. Orderly(InQueue, pending, early, Current, InStream, InRelay, datagrams, nextSequence,
                sequence, due2)
    BY <1>1, <2>1, LineShrinks DEF InLine
  <2> QED BY <1>6, <2>1, <2>2
<1>8. CASE RecoverGap
  <2>1. /\ deadline = "expired" /\ due2 # "expired" /\ Current = {} /\ Current' = {}
        /\ UNCHANGED <<pending, early>>
    <3>1. pc # "inject" /\ deadline = "expired" /\ due2 # "expired"
          /\ UNCHANGED <<pending, early, current>>
      BY <1>8 DEF RecoverGap, SkipGap, due2
    <3> QED BY <3>1, NothingInHand DEF Current
  <2>2. PICK f \in pending \cup early :
          (\A g \in pending \cup early : f.seq <= g.seq) /\ f.seq > nextSequence
          /\ nextSequence' = f.seq
    <3>1. PICK n \in Seqs(pending \cup early) :
            IsNextPending(n) /\ nextSequence' = IF n > nextSequence THEN n ELSE nextSequence
      BY <1>8 DEF RecoverGap, SkipGap
    <3>2. PICK m \in Seqs(pending \cup early) : IsNextPending(m) /\ m > nextSequence
      BY <1>8 DEF RecoverGap, HasGap
    <3>3. PICK f \in pending \cup early : f.seq = n
      BY DEF Seqs
    <3>4. n \in Nat /\ m \in Nat /\ n <= m /\ m <= n
      BY <1>5, <3>1, <3>2, FrameNumber DEF IsNextPending, Seqs
    <3>5. \A g \in pending \cup early : f.seq <= g.seq
      BY <3>1, <3>3 DEF IsNextPending, Seqs
    <3> QED BY <3>1, <3>2, <3>3, <3>4, <3>5
  <2>3. Orderly(InQueue, pending, early, {}, InStream, InRelay, datagrams, nextSequence, sequence,
                "expired")
    BY <1>1, <2>1 DEF InLine
  <2>4. Orderly(InQueue, pending, early, {}, InStream, InRelay, datagrams, f.seq, sequence, due2)
    BY <1>5, <2>1, <2>2, <2>3, LineSkips
  <2> QED BY <1>6, <2>1, <2>2, <2>4
<1>9. CASE SkipStaleMove \/ Inject
  <2>1. /\ pc = "inject" /\ due2 = deadline /\ UNCHANGED <<pending, early>>
        /\ nextSequence' = AfterInjection(current) /\ current' = NoFrame
    BY <1>9 DEF SkipStaleMove, Inject, due2
  <2>2. Current = {current} /\ current \in Frames /\ Current' = {}
    BY <2>1, SomethingInHand, SentinelAssumption DEF Current
  <2>3. Orderly(InQueue, pending, early, {}, InStream, InRelay, datagrams,
                IF ~current.reliable /\ current.seq = nextSequence
                THEN nextSequence + 1 ELSE nextSequence, sequence, due2)
    BY <1>1, <1>5, <2>1, <2>2, LineMovesOn DEF InLine
  <2> QED BY <1>6, <2>1, <2>2, <2>3 DEF AfterInjection
<1>10. ~InjectFails /\ ~ReleaseForTargetFails
  BY DEF InjectFails, ReleaseForTargetFails, Calm
<1>11. CASE DrainEarly \/ DrainPending
  <2>1. Current = {} /\ due2 = deadline
    <3>1. pc # "inject" /\ due2 = deadline
      BY <1>11 DEF DrainEarly, DrainPending, due2
    <3> QED BY <3>1, NothingInHand
  <2>2. \A g, h \in pending : g.seq = h.seq => g = h
    BY DEF PathType, IInv, PendingInWindow
  <2>3. Orderly(InQueue, pending, early, {}, InStream, InRelay, datagrams, nextSequence, sequence,
                due2)
    BY <1>1, <2>1 DEF InLine
  <2>4. ASSUME NEW f \in pending \cup early, f.seq = nextSequence
        PROVE  /\ f \in early => Orderly(InQueue, pending, early \ {f}, {f}, InStream, InRelay,
                                         datagrams, nextSequence, sequence, due2)
               /\ f \in pending => Orderly(InQueue, pending \ {f}, early, {f}, InStream, InRelay,
                                           datagrams, nextSequence + 1, sequence, due2)
    BY <1>5, <2>2, <2>3, <2>4, LineDrains
  <2>5. CASE DrainEarly
    <3>1. PICK f \in early : f.seq = nextSequence /\ early' = early \ {f} /\ current' = f
      BY <2>5 DEF DrainEarly
    <3>2. UNCHANGED <<pending, nextSequence>> /\ Current' = {f}
      BY <1>5, <2>5, <3>1 DEF DrainEarly, Current
    <3> QED BY <1>6, <2>4, <3>1, <3>2
  <2>6. CASE DrainPending
    <3>1. PICK f \in pending : f.seq = nextSequence /\ pending' = pending \ {f} /\ current' = f
      BY <2>6 DEF DrainPending
    <3>2. early' = early /\ nextSequence' = nextSequence + 1 /\ Current' = {f}
      BY <1>5, <2>6, <3>1 DEF DrainPending, Current
    <3> QED BY <1>6, <2>4, <3>1, <3>2
  <2> QED BY <1>11, <2>5, <2>6
<1> QED BY <1>2, <1>7, <1>8, <1>9, <1>10, <1>11 DEF Injection, Drain

LEMMA TimeInOrder == ASSUME PathType, Calm, OrderInv, TimePasses, Timely PROVE OrderInv'
<1>1. /\ OneLink /\ InLine /\ SureAscends(queue) /\ Ascends(stream) /\ Ascends(relay)
      /\ link = "none" => sequence = 1
  BY DEF OrderInv
<1>2. /\ UNCHANGED <<queue, pending, early, current, nextSequence, pathVars>>
      /\ stream = <<>> /\ \A i \in DOMAIN queue : ~queue[i].reliable
  BY DEF TimePasses, DeadlinePasses, seqVars
<1>3. UNCHANGED <<listening, link, sequence, stream, relay, datagrams, InStream, InRelay, InQueue,
                  Current>>
  BY <1>2 DEF pathVars, InStream, InRelay, InQueue, Current
<1>4. InStream = {} /\ Sure(InQueue) = {}
  BY <1>2 DEF InStream, InQueue, Sure
<1>5. InLine'
  BY <1>1, <1>2, <1>3, <1>4 DEF InLine, Orderly, Before
<1>6. OneLink'
  BY <1>1, <1>3 DEF OneLink
<1> QED BY <1>1, <1>2, <1>3, <1>5, <1>6 DEF OrderInv

LEMMA OrderInvStep == ASSUME Timely PROVE PathType /\ OrderInv /\ [PathNext]_allVars => OrderInv'
<1> SUFFICES ASSUME PathType, OrderInv, [PathNext]_allVars, Calm' PROVE OrderInv'
  BY DEF OrderInv
<1>1. Calm
  BY CalmBefore
<1>2. CASE UNCHANGED allVars
  BY <1>2 DEF OrderInv, OneLink, InLine, SureAscends, Ascends, InQueue, InStream, InRelay, Current,
     Calm, vars, pathVars, allVars
<1>3. CASE Capture
  <2>1. PICK e \in Gestures, reliable \in BOOLEAN :
          /\ reliable \/ e.kind = "none"
          /\ \/ Transmit(e, reliable) \/ TransmitFails(e, reliable) \/ DropInBackoff(e, reliable)
    BY <1>3 DEF Capture
  <2>2. ~TransmitFails(e, reliable) /\ ~DropInBackoff(e, reliable)
    BY <1>1 DEF TransmitFails, DropInBackoff, Calm, PathType
  <2> QED BY <1>1, <2>1, <2>2, SendsInOrder
<1>4. CASE Network
  BY <1>1, <1>4, NetworkInOrder
<1>5. CASE Work
  <2>1. Thread /\ UNCHANGED pathVars
    BY <1>5 DEF Work
  <2> QED BY <1>1, <2>1, TakesInOrder, ThreadInOrder DEF Thread
<1>6. CASE TimePasses
  BY <1>1, <1>6, TimeInOrder
<1> QED BY <1>2, <1>3, <1>4, <1>5, <1>6 DEF PathNext, Receiver

LEMMA PathInitially == PathInit => PathType /\ OrderInv
<1> SUFFICES ASSUME PathInit PROVE PathType /\ OrderInv
  OBVIOUS
<1>1. IInv
  BY InitIInv DEF PathInit
<1>2. InQueue = {} /\ InStream = {} /\ InRelay = {} /\ Current = {}
  BY SentinelAssumption DEF PathInit, Init, InQueue, InStream, InRelay, Current
<1>3. PathType
  BY <1>1, <1>2 DEF PathInit, Init, PathType
<1>4. InLine /\ OneLink
  BY <1>2 DEF PathInit, Init, InLine, Orderly, Before, Sure, OneLink
<1>5. SureAscends(queue) /\ Ascends(stream) /\ Ascends(relay)
  BY DEF PathInit, Init, SureAscends, Ascends
<1> QED BY <1>3, <1>4, <1>5 DEF OrderInv, PathInit

LEMMA PathInvariant == ASSUME Timely PROVE PathSpec => [](PathType /\ OrderInv)
BY PathInitially, PathTypeStep, OrderInvStep, PTL DEF PathSpec

(* While the connections hold no reliable frame is dropped for its number, *)
(* for any devices, windows and numbers of events: what the sequencer has  *)
(* passed, or given up at the deadline, was never a key event.             *)
THEOREM NoKeyEventDropped == ASSUME Timely PROVE PathSpec => NoneDroppedOnline
<1>1. ASSUME PathType, OrderInv, [PathNext]_allVars
      PROVE  [failures = 0 => ~DropsReliable]_allVars
  <2> SUFFICES ASSUME failures = 0, DropsReliable PROVE FALSE
    OBVIOUS
  <2>1. pc = "recv" /\ queue # <<>> /\ Head(queue).reliable /\ Head(queue).seq < nextSequence
    BY DEF DropsReliable, DropOld, MayReceive
  <2>2. InLine
    BY <1>1, <2>1 DEF OrderInv, Calm
  <2>3. Head(queue) \in InQueue /\ Head(queue) \in Frames
    BY <1>1, <2>1, LineTypes, TailInQueue, HeadOfQueue DEF InQueue
  <2>4. nextSequence <= Head(queue).seq
    BY <2>1, <2>2, <2>3 DEF InLine, Orderly, Sure
  <2> QED BY <1>1, <2>1, <2>3, <2>4, FrameNumber, LineTypes
<1> QED BY <1>1, PathInvariant, PTL DEF PathSpec, NoneDroppedOnline

-----------------------------------------------------------------------------
(* The keys.  For every key either nothing about it is on the way and the  *)
(* receiver agrees with the user, but for a key that a jump gave up, or    *)
(* the last of the frames about it says what the user does.                *)

Accounts(W, h, u, a) ==
  \A k \in Keys :
    \/ (\A f \in W : ~Bears(f, k)) /\ (k \in h => k \in u) /\ (k \in u => k \in h \cup a)
    \/ \E f \in W : /\ Bears(f, k)
                    /\ k \in u <=> f.event.kind = "press"
                    /\ \A g \in W : Bears(g, k) => g.seq <= f.seq

HoldInv == Calm => Accounts(OnTheWay, held, user, abandoned)

LEMMA EventIs ==
  ASSUME NEW e \in Events
  PROVE  /\ e.kind \in {"press", "release", "none"}
         /\ e.kind # "none" => e = [kind |-> e.kind, key |-> e.key] /\ e.key \in Keys
         /\ e.kind = "none" => e = [kind |-> "none"]
  BY DEF Events

LEMMA ApplyIs ==
  ASSUME NEW e \in Events, NEW S, NEW k
  PROVE  k \in Apply(e, S) <=> \/ k \in S /\ ~(e.kind = "release" /\ e.key = k)
                               \/ e.kind = "press" /\ e.key = k
<1>1. e.kind \in {"press", "release", "none"}
  BY EventIs
<1>2. CASE e.kind = "press"
  BY <1>2 DEF Apply
<1>3. CASE e.kind = "release"
  BY <1>3 DEF Apply
<1>4. CASE e.kind = "none"
  BY <1>4 DEF Apply
<1> QED BY <1>1, <1>2, <1>3, <1>4

LEMMA AccountsAlike ==
  ASSUME NEW W, NEW V, NEW h, NEW u, NEW a, Accounts(W, h, u, a),
         \A f : f.event.kind # "none" => (f \in W <=> f \in V)
  PROVE  Accounts(V, h, u, a)
  BY DEF Accounts, Bears

LEMMA AccountsSent ==
  ASSUME NEW W \in SUBSET Frames, NEW h, NEW u, NEW a,
         Accounts(W, h, u, a), NEW f \in Frames,
         \A g \in W : g.seq < f.seq
  PROVE  Accounts(W \cup {f}, h, Apply(f.event, u), a \cap Apply(f.event, u))
<1> SUFFICES ASSUME NEW k \in Keys
             PROVE  \/ (\A g \in W \cup {f} : ~Bears(g, k))
                         /\ (k \in h => k \in Apply(f.event, u))
                         /\ (k \in Apply(f.event, u) => k \in h \cup (a \cap Apply(f.event, u)))
                    \/ \E g \in W \cup {f} :
                         /\ Bears(g, k)
                         /\ k \in Apply(f.event, u) <=> g.event.kind = "press"
                         /\ \A j \in W \cup {f} : Bears(j, k) => j.seq <= g.seq
  BY DEF Accounts
<1>1. f.event \in Events /\ f.seq \in Nat /\ \A g \in W : g.seq \in Nat
  BY FrameFields
<1>2. k \in Apply(f.event, u) <=> \/ k \in u /\ ~(f.event.kind = "release" /\ f.event.key = k)
                                  \/ f.event.kind = "press" /\ f.event.key = k
  BY <1>1, ApplyIs
<1>3. f.event.kind \in {"press", "release", "none"}
  BY <1>1, EventIs
<1>4. CASE Bears(f, k)
  <2>1. k \in Apply(f.event, u) <=> f.event.kind = "press"
    BY <1>2, <1>3, <1>4 DEF Bears
  <2>2. \A j \in W \cup {f} : j.seq <= f.seq
    BY <1>1
  <2> QED BY <1>4, <2>1, <2>2
<1>5. CASE ~Bears(f, k)
  <2>1. k \in Apply(f.event, u) <=> k \in u
    BY <1>2, <1>5 DEF Bears
  <2> QED BY <1>5, <2>1 DEF Accounts
<1> QED BY <1>4, <1>5

LEMMA AccountsInjected ==
  ASSUME NEW W \in SUBSET Frames, NEW h, NEW u, NEW a, NEW f \in Frames,
         Accounts(W \cup {f}, h, u, a),
         f.event.kind # "none" => \A g \in W : g.event.kind # "none" => f.seq < g.seq
  PROVE  Accounts(W, Apply(f.event, h), u, a)
<1> SUFFICES ASSUME NEW k \in Keys
             PROVE  \/ (\A g \in W : ~Bears(g, k))
                         /\ (k \in Apply(f.event, h) => k \in u)
                         /\ (k \in u => k \in Apply(f.event, h) \cup a)
                    \/ \E g \in W :
                         /\ Bears(g, k)
                         /\ k \in u <=> g.event.kind = "press"
                         /\ \A j \in W : Bears(j, k) => j.seq <= g.seq
  BY DEF Accounts
<1>1. f.event \in Events /\ f.seq \in Nat /\ \A g \in W : g.seq \in Nat
  BY FrameFields
<1>2. k \in Apply(f.event, h) <=> \/ k \in h /\ ~(f.event.kind = "release" /\ f.event.key = k)
                                  \/ f.event.kind = "press" /\ f.event.key = k
  BY <1>1, ApplyIs
<1>3. f.event.kind \in {"press", "release", "none"}
  BY <1>1, EventIs
<1>4. CASE Bears(f, k)
  <2>1. PICK g \in W \cup {f} :
               /\ Bears(g, k)
               /\ k \in u <=> g.event.kind = "press"
               /\ \A j \in W \cup {f} : Bears(j, k) => j.seq <= g.seq
    BY <1>4 DEF Accounts
  <2>2. CASE g \in W
    BY <2>1, <2>2
  <2>3. CASE g = f
    <3>1. \A j \in W : ~Bears(j, k)
      BY <1>1, <1>4, <2>1, <2>3 DEF Bears
    <3>2. k \in Apply(f.event, h) <=> f.event.kind = "press"
      BY <1>2, <1>3, <1>4 DEF Bears
    <3> QED BY <2>1, <2>3, <3>1, <3>2
  <2> QED BY <2>2, <2>3
<1>5. CASE ~Bears(f, k)
  <2>1. k \in Apply(f.event, h) <=> k \in h
    BY <1>2, <1>5 DEF Bears
  <2> QED BY <1>5, <2>1 DEF Accounts
<1> QED BY <1>4, <1>5

(* What it comes to: a difference is on the way.                           *)
LEMMA AccountsShow == ASSUME PathType, HoldInv PROVE DifferenceOnTheWay
<1> SUFFICES ASSUME failures = 0, ~Returned
             PROVE  /\ \A k \in held \ user :
                         \E f \in OnTheWay : f.event = [kind |-> "release", key |-> k]
                    /\ \A k \in (user \ held) \ abandoned :
                         \E f \in OnTheWay : f.event = [kind |-> "press", key |-> k]
  BY DEF DifferenceOnTheWay
<1>1. /\ Accounts(OnTheWay, held, user, abandoned)
      /\ held \subseteq Keys /\ user \subseteq Keys
  BY DEF HoldInv, Calm, PathType, IInv, TypeOK, Returned
<1>2. OnTheWay \subseteq Frames
  BY LineTypes DEF OnTheWay, InHand, InQueue, InStream, InRelay
<1>3. ASSUME NEW k \in Keys, k \in held \ user \/ k \in (user \ held) \ abandoned
      PROVE  \E f \in OnTheWay :
               f.event = [kind |-> IF k \in user THEN "press" ELSE "release", key |-> k]
  <2>1. PICK f \in OnTheWay : Bears(f, k) /\ (k \in user <=> f.event.kind = "press")
    BY <1>1, <1>3 DEF Accounts
  <2>2. f.event \in Events
    BY <1>2, FrameFields
  <2>3. /\ f.event = [kind |-> f.event.kind, key |-> k]
        /\ f.event.kind = IF k \in user THEN "press" ELSE "release"
    BY <2>1, <2>2, EventIs DEF Bears
  <2> QED BY <2>3
<1>4. ASSUME NEW k \in held \ user
      PROVE  \E f \in OnTheWay : f.event = [kind |-> "release", key |-> k]
  BY <1>1, <1>3
<1>5. ASSUME NEW k \in (user \ held) \ abandoned
      PROVE  \E f \in OnTheWay : f.event = [kind |-> "press", key |-> k]
  BY <1>1, <1>3
<1> QED BY <1>4, <1>5

LEMMA WayIs ==
  /\ OnTheWay = InStream \cup InRelay \cup InQueue \cup pending \cup early \cup Current
  /\ OnTheWay' = InStream' \cup InRelay' \cup InQueue' \cup pending' \cup early' \cup Current'
  BY DEF OnTheWay, InHand, InStream, InRelay, InQueue, Current

LEMMA UnreliableIsMove == \A f \in Frames : ~f.reliable => f.event.kind = "none"
  BY FramesAssumption

LEMMA HeadLeaves ==
  ASSUME NEW z \in Seq(Frames), z # <<>>
  PROVE  {z[i] : i \in DOMAIN z} = {Tail(z)[i] : i \in DOMAIN Tail(z)} \cup {Head(z)}
<1> DEFINE t == Tail(z)
<1>1. /\ Len(z) \in Nat \ {0} /\ DOMAIN z = 1..Len(z) /\ DOMAIN t = 1..Len(z) - 1
      /\ \A i \in 1..Len(z) - 1 : t[i] = z[i + 1]
      /\ Head(z) = z[1]
  OBVIOUS
<1> HIDE DEF t
<1>2. ASSUME NEW i \in DOMAIN t PROVE i + 1 \in DOMAIN z /\ t[i] = z[i + 1]
  BY <1>1
<1>3. ASSUME NEW i \in DOMAIN z, i # 1 PROVE i - 1 \in DOMAIN t /\ t[i - 1] = z[i]
  BY <1>1, <1>3
<1>4. 1 \in DOMAIN z
  BY <1>1
<1>5. {t[i] : i \in DOMAIN t} \cup {Head(z)} \subseteq {z[i] : i \in DOMAIN z}
  BY <1>1, <1>2, <1>4
<1>6. ASSUME NEW i \in DOMAIN z PROVE z[i] \in {t[j] : j \in DOMAIN t} \cup {Head(z)}
  BY <1>1, <1>3
<1>7. {z[i] : i \in DOMAIN z} \subseteq {t[i] : i \in DOMAIN t} \cup {Head(z)}
  BY <1>6
<1> QED BY <1>5, <1>7 DEF t

(* What is captured is sent, and becomes the last frame on the way.        *)
LEMMA CaptureHolds ==
  ASSUME PathType, OrderInv, HoldInv, Calm, Capture, Calm' PROVE HoldInv'
<1>1. PICK e \in Gestures, reliable \in BOOLEAN :
        /\ reliable \/ e.kind = "none"
        /\ \/ Transmit(e, reliable) \/ TransmitFails(e, reliable) \/ DropInBackoff(e, reliable)
  BY DEF Capture
<1>2. ~TransmitFails(e, reliable) /\ ~DropInBackoff(e, reliable)
  BY DEF TransmitFails, DropInBackoff, Calm, PathType
<1>3. UNCHANGED vars /\ user' = Apply(e, user) /\ abandoned' = abandoned \cap user'
  BY <1>1, <1>2, Transmits DEF Transmit, Captured
<1>4. PICK l \in Links, n \in 1..MaxEvents, f \in Frames :
        /\ Sender(l, n) /\ Enter(l, f) /\ f.seq = n /\ f.reliable = reliable /\ f.event = e
  BY <1>1, <1>2, Transmits
<1>5. UNCHANGED <<InQueue, pending, early, Current, held>>
  BY <1>3 DEF vars, seqVars, keyVars, InQueue, Current
<1>6. n = sequence /\ InLine
  BY <1>4 DEF Sender, OrderInv
<1>7. OnTheWay \subseteq Frames /\ \A g \in OnTheWay : g.seq < f.seq
  BY <1>4, <1>6, LineTypes, WayIs DEF InLine, Orderly
<1>8. Accounts(OnTheWay \cup {f}, held, user', abandoned')
  BY <1>3, <1>4, <1>7, AccountsSent DEF HoldInv
<1>9. Accounts(OnTheWay', held', user', abandoned')
  <2>1. CASE \/ InRelay' = InRelay \cup {f} /\ InStream' = InStream
             \/ InStream' = InStream \cup {f} /\ InRelay' = InRelay
    <3>1. OnTheWay' = OnTheWay \cup {f}
      BY <1>5, <2>1, WayIs
    <3> QED BY <1>5, <1>8, <3>1
  <2>2. CASE ~f.reliable /\ InStream' = InStream /\ InRelay' = InRelay
    <3>1. OnTheWay' = OnTheWay /\ f.event.kind = "none"
      BY <1>5, <2>2, WayIs, UnreliableIsMove
    <3>2. \A g : g.event.kind # "none" => (g \in OnTheWay \cup {f} <=> g \in OnTheWay')
      BY <3>1
    <3> QED BY <1>5, <1>8, <3>2, AccountsAlike
  <2>3. /\ stream' = stream => InStream' = InStream
        /\ relay' = relay => InRelay' = InRelay
    BY DEF InStream, InRelay
  <2>4. \/ InRelay' = InRelay \cup {f} /\ stream' = stream
        \/ InStream' = InStream \cup {f} /\ relay' = relay
        \/ ~f.reliable /\ UNCHANGED <<stream, relay>>
    BY <1>4, Entering
  <2> QED BY <2>1, <2>2, <2>3, <2>4
<1> QED BY <1>9 DEF HoldInv

(* The network moves frames on and loses only moves.                       *)
LEMMA NetworkHolds ==
  ASSUME PathType, OrderInv, HoldInv, Calm, Network, Calm' PROVE HoldInv'
<1>1. OneLink
  BY DEF OrderInv
<1>2. ~LoseDirect /\ ~LoseRelay
  BY <1>1 DEF OneLink, LoseDirect, LoseRelay, Calm, PathType
<1>3. queue \in Seq(Frames) /\ stream \in Seq(Frames) /\ relay \in Seq(Frames)
      /\ datagrams \subseteq Frames
  BY LineTypes
<1>4. UNCHANGED <<user, held, abandoned>>
  BY <1>2 DEF Network, LoseDatagram, DeliverDatagram, DeliverStream, DeliverRelay, QueueReliable,
     QueueUnreliable, vars, keyVars
<1>5. CASE LoseDatagram
  <2>1. UNCHANGED <<InStream, InRelay, InQueue, pending, early, Current>>
    BY <1>5 DEF LoseDatagram, vars, InStream, InRelay, InQueue, Current
  <2>2. OnTheWay' = OnTheWay
    BY <2>1, WayIs
  <2> QED BY <1>4, <2>2 DEF HoldInv
<1>6. ASSUME NEW f \in Frames, QueueReliable(f) \/ QueueUnreliable(f),
             InStream' \cup InRelay' \cup {f} = InStream \cup InRelay \cup {f},
             f \in InStream \cup InRelay \/ ~f.reliable
      PROVE  HoldInv'
  <2>1. /\ UNCHANGED <<pending, early, Current>>
        /\ InQueue' = InQueue \cup {f} \/ (~f.reliable /\ InQueue' = InQueue)
    BY <1>6, Queues
  <2>2. ASSUME NEW g, g # f PROVE g \in OnTheWay <=> g \in OnTheWay'
    BY <1>6, <2>1, <2>2, WayIs
  <2>3. f.event.kind # "none" => f \in OnTheWay /\ f \in OnTheWay'
    BY <1>6, <2>1, WayIs, UnreliableIsMove
  <2>4. \A g : g.event.kind # "none" => (g \in OnTheWay <=> g \in OnTheWay')
    BY <2>2, <2>3
  <2> QED BY <1>4, <2>4, AccountsAlike DEF HoldInv
<1>7. CASE DeliverDatagram
  <2>1. PICK f \in datagrams : QueueUnreliable(f)
    BY <1>7 DEF DeliverDatagram
  <2>2. f \in Frames /\ ~f.reliable /\ UNCHANGED <<InStream, InRelay>>
    BY <1>3, <1>7, <2>1 DEF DeliverDatagram, QueueUnreliable, InStream, InRelay
  <2> QED BY <1>6, <2>1, <2>2
<1>8. CASE DeliverStream
  <2> DEFINE f == Head(stream)
  <2>1. f \in Frames /\ QueueReliable(f) /\ InStream = InStream' \cup {f} /\ InRelay' = InRelay
    <3>1. stream # <<>> /\ stream' = Tail(stream) /\ QueueReliable(f) /\ relay' = relay
      BY <1>8 DEF DeliverStream
    <3>2. InStream' = {Tail(stream)[i] : i \in DOMAIN Tail(stream)} /\ InRelay' = InRelay
      BY <3>1 DEF InStream, InRelay
    <3>3. InStream = InStream' \cup {f}
      BY <1>3, <3>1, <3>2, HeadLeaves DEF InStream
    <3> QED BY <1>3, <3>1, <3>2, <3>3, HeadOfQueue
  <2> HIDE DEF f
  <2> QED BY <1>6, <2>1
<1>9. CASE DeliverRelay
  <2> DEFINE f == Head(relay)
  <2>1. /\ QueueReliable(f) \/ QueueUnreliable(f)
        /\ InRelay = InRelay' \cup {f} /\ InStream' = InStream
    <3>1. relay # <<>> /\ relay' = Tail(relay) /\ (QueueReliable(f) \/ QueueUnreliable(f))
          /\ stream' = stream
      BY <1>9 DEF DeliverRelay
    <3>2. InRelay' = {Tail(relay)[i] : i \in DOMAIN Tail(relay)} /\ InStream' = InStream
      BY <3>1 DEF InStream, InRelay
    <3>3. InRelay = InRelay' \cup {f}
      BY <1>3, <3>1, <3>2, HeadLeaves DEF InRelay
    <3> QED BY <1>3, <3>1, <3>2, <3>3, HeadOfQueue
  <2>2. f \in Frames
    BY <1>3, <1>9, HeadOfQueue DEF DeliverRelay, f
  <2> HIDE DEF f
  <2> QED BY <1>6, <2>1, <2>2
<1> QED BY <1>2, <1>5, <1>7, <1>8, <1>9 DEF Network

(* The thread takes a frame of the channel and keeps or injects it, if it  *)
(* does not jump ahead.                                                    *)
LEMMA ReceiveHolds ==
  ASSUME PathType, OrderInv, HoldInv, Calm, Receive, ~JumpAhead, UNCHANGED pathVars,
         abandoned' = abandoned, Calm'
  PROVE  HoldInv'
<1> DEFINE f == Head(queue)
<1>1. InLine /\ SureAscends(queue)
  BY DEF OrderInv
<1>2. MayReceive /\ queue' = Tail(queue)
  BY DEF Receive, DropOld, AcceptNext, BufferReliable, BufferEarlyMove
<1>3. f \in Frames /\ f \in InQueue /\ Current = {}
  BY <1>1, <1>2, HeadTaken
<1>4. InQueue = InQueue' \cup {f}
  BY <1>2, LineTypes, HeadLeaves DEF MayReceive, InQueue
<1>5. UNCHANGED <<InStream, InRelay, user, held, abandoned>>
  BY DEF Receive, DropOld, AcceptNext, BufferReliable, BufferEarlyMove, keyVars, pathVars,
     InStream, InRelay
<1>6. nextSequence \in Nat /\ pending \subseteq Frames
  BY LineTypes
<1> HIDE DEF f
<1>7. ASSUME pending' \cup early' \cup Current' \cup {f} = pending \cup early \cup {f},
             f.reliable => f \in pending' \cup Current'
      PROVE  HoldInv'
  <2>1. ASSUME NEW g, g # f PROVE g \in OnTheWay <=> g \in OnTheWay'
    BY <1>3, <1>4, <1>5, <1>7, <2>1, WayIs
  <2>2. f.event.kind # "none" => f \in OnTheWay /\ f \in OnTheWay'
    BY <1>3, <1>7, WayIs, UnreliableIsMove
  <2>3. \A g : g.event.kind # "none" => (g \in OnTheWay <=> g \in OnTheWay')
    BY <2>1, <2>2
  <2> QED BY <1>5, <2>3, AccountsAlike DEF HoldInv
<1>8. CASE DropOld
  <2>1. UNCHANGED <<pending, early, Current>> /\ f.seq < nextSequence
    BY <1>8 DEF DropOld, seqVars, Current, f
  <2>2. ~f.reliable
    BY <1>1, <1>3, <1>6, <2>1, FrameNumber DEF InLine, Orderly, Sure
  <2> QED BY <1>3, <1>7, <2>1, <2>2
<1>9. CASE AcceptNext
  <2>1. UNCHANGED <<pending, early>> /\ Current' = {f}
    BY <1>3, <1>9 DEF AcceptNext, Current, f
  <2> QED BY <1>7, <2>1
<1>10. CASE BufferReliable
  <2>1. UNCHANGED <<early, Current>> /\ f.reliable /\ pending' = InsertIfAbsent(pending, f)
    BY <1>10 DEF BufferReliable, Current, f
  <2>2. f.seq \notin Seqs(pending)
    <3>1. \A g \in pending : g.seq < f.seq
      BY <1>1, <1>3, <2>1 DEF InLine, Orderly, Before, Sure
    <3> QED BY <1>3, <1>6, <3>1, FrameNumber DEF Seqs
  <2>3. pending' = pending \cup {f}
    BY <2>1, <2>2 DEF InsertIfAbsent
  <2> QED BY <1>3, <1>7, <2>1, <2>3
<1>11. CASE BufferEarlyMove
  <2>1. /\ UNCHANGED <<pending, Current>> /\ ~f.reliable
        /\ early' = early \/ early' = early \cup {f}
    BY <1>11 DEF BufferEarlyMove, InsertIfAbsent, Current, f
  <2> QED BY <1>3, <1>7, <2>1
<1> QED BY <1>8, <1>9, <1>10, <1>11 DEF Receive

LEMMA ThreadHolds ==
  ASSUME PathType, OrderInv, HoldInv, Calm, UNCHANGED pathVars, abandoned' = abandoned, Calm',
         ArmDeadline \/ RecoverGap \/ Injection \/ Drain \/ LeaveLoop \/ ExitRecover \/ ExitRelease
  PROVE  HoldInv'
<1>1. /\ ~LeaveLoop /\ ~ExitRecover /\ ~ExitRelease
      /\ ~ClockFails /\ ~InjectFails /\ ~ReleaseForTargetFails
  BY DEF PathType, LeaveLoop, ExitRecover, ExitRelease, ClockFails, InjectFails,
     ReleaseForTargetFails, Calm
<1>2. UNCHANGED <<InStream, InRelay, InQueue, user, abandoned>>
  <2>1. queue' = queue
    BY <1>1 DEF ArmDeadline, RecoverGap, Injection, SkipStaleMove, Inject, Drain, DrainEarly,
       DrainPending, DrainDone
  <2> QED BY <2>1 DEF pathVars, InStream, InRelay, InQueue
<1>3. ASSUME OnTheWay' = OnTheWay, held' = held PROVE HoldInv'
  BY <1>2, <1>3 DEF HoldInv
<1>4. CASE ArmDeadline \/ RecoverGap \/ DrainDone
  <2>1. UNCHANGED <<pending, early, Current, held>>
    BY <1>4 DEF ArmDeadline, RecoverGap, SkipGap, DrainDone, seqVars, keyVars, Current
  <2> QED BY <1>2, <1>3, <2>1, WayIs
<1>5. CASE DrainEarly \/ DrainPending
  <2>1. Current = {} /\ held' = held
    BY <1>5, NothingInHand DEF DrainEarly, DrainPending, keyVars
  <2>2. PICK f \in pending \cup early :
          current' = f /\ pending' \cup early' \cup {f} = pending \cup early
    BY <1>5 DEF DrainEarly, DrainPending
  <2>3. Current' = {f}
    BY <2>2, LineTypes DEF Current
  <2> QED BY <1>2, <1>3, <2>1, <2>2, <2>3, WayIs
<1>6. CASE SkipStaleMove \/ Inject
  <2>1. pc = "inject" /\ UNCHANGED <<pending, early>> /\ current' = NoFrame
    BY <1>6 DEF SkipStaleMove, Inject
  <2>2. Current = {current} /\ current \in Frames /\ Current' = {}
    BY <2>1, SomethingInHand, SentinelAssumption DEF Current
  <2>3. OnTheWay = OnTheWay' \cup {current} /\ OnTheWay \subseteq Frames
    BY <1>2, <2>1, <2>2, LineTypes, WayIs
  <2>4. held' = Apply(current.event, held)
    <3>1. CASE Inject
      <4>1. ~TargetChanges
        BY <2>2, PathAssumption, FrameFields DEF PathType, IInv, TypeOK, TargetChanges
      <4> QED BY <3>1, <4>1 DEF Inject, HeldThen
    <3>2. CASE SkipStaleMove
      <4>1. current.event.kind = "none" /\ held' = held
        BY <2>2, <3>2, UnreliableIsMove DEF SkipStaleMove, keyVars
      <4> QED BY <4>1 DEF Apply
    <3> QED BY <1>6, <3>1, <3>2
  <2>5. ASSUME current.event.kind # "none", NEW g \in OnTheWay', g.event.kind # "none"
        PROVE  current.seq < g.seq
    <3>1. current.reliable /\ g.reliable /\ g \in Frames
      BY <2>2, <2>3, <2>5, UnreliableIsMove
    <3>2. g \in InRelay \cup pending \cup Sure(InQueue) \cup InStream
      BY <1>2, <2>1, <2>2, <2>5, <3>1, WayIs, LineTypes DEF Sure
    <3>3. current.seq + 1 = nextSequence /\ nextSequence <= g.seq
      BY <2>2, <3>1, <3>2 DEF OrderInv, InLine, Orderly
    <3> QED BY <2>2, <3>1, <3>3, FrameNumber
  <2>6. Accounts(OnTheWay' \cup {current}, held, user, abandoned)
    BY <2>3 DEF HoldInv
  <2>7. Accounts(OnTheWay', held', user, abandoned)
    <3> DEFINE W == OnTheWay'
    <3>1. W \in SUBSET Frames /\ Accounts(W \cup {current}, held, user, abandoned)
          /\ (current.event.kind # "none" =>
                \A g \in W : g.event.kind # "none" => current.seq < g.seq)
      BY <2>3, <2>5, <2>6
    <3> HIDE DEF W
    <3>2. Accounts(W, Apply(current.event, held), user, abandoned)
      BY <2>2, <3>1, AccountsInjected
    <3> QED BY <2>4, <3>2 DEF W
  <2> QED BY <1>2, <2>7 DEF HoldInv
<1> QED BY <1>1, <1>4, <1>5, <1>6 DEF Injection, Drain

(* A jump passes the buffered frames and releases what is held.  Where a   *)
(* frame about a key follows behind, the last such frame still tells; of   *)
(* the other keys the receiver holds none, and those of the user are noted *)
(* as given up.                                                            *)
LEMMA JumpHolds ==
  ASSUME PathType, OrderInv, HoldInv, Calm, JumpAhead, UNCHANGED pathVars,
         abandoned' = abandoned \cup GivenUp, Calm'
  PROVE  HoldInv'
<1> DEFINE f == Head(queue)
           Rest == InStream \cup InRelay \cup InQueue
<1>1. InLine /\ MayReceive /\ queue' = Tail(queue) /\ f.reliable
  BY DEF OrderInv, JumpAhead
<1>2. f \in Frames /\ f \in InQueue /\ Current = {}
  BY <1>1, HeadTaken DEF OrderInv
<1>3. InQueue = InQueue' \cup {f}
  BY <1>1, LineTypes, HeadLeaves DEF MayReceive, InQueue
<1>4. UNCHANGED <<InStream, InRelay, early, user>> /\ pending' = {}
  BY DEF JumpAhead, pathVars, InStream, InRelay
<1>5. held = tracked /\ held' = {} /\ current' = f
  <2>1. lost = {} /\ held = tracked
    BY <1>1 DEF MayReceive, PathType, IInv, HeldIsTracked, GivenUpOnlyOnFailure
  <2>2. ReleaseTracked({}) /\ current' = f
    BY DEF JumpAhead, Calm
  <2> QED BY <2>1, <2>2 DEF ReleaseTracked
<1>6. OnTheWay = Rest \cup pending \cup early
  BY <1>2, WayIs
<1>7. OnTheWay' = Rest \cup early
  <2>1. Current' = {f}
    BY <1>2, <1>5 DEF Current
  <2> QED BY <1>3, <1>4, <2>1, WayIs
<1>8. /\ OnTheWay \subseteq Frames /\ \A g \in pending : g.reliable
      /\ \A g \in early, k \in Keys : ~Bears(g, k)
  BY <1>6, LineTypes, UnreliableIsMove DEF PathType, IInv, TypeOK, Bears
<1>9. Accounts(OnTheWay, held, user, abandoned)
  BY DEF HoldInv
<1>10. Rest = {stream[i] : i \in DOMAIN stream} \cup {relay[i] : i \in DOMAIN relay}
               \cup {queue[i] : i \in DOMAIN queue}
  BY DEF InStream, InRelay, InQueue
<1> HIDE DEF f, Rest
<1>11. ASSUME NEW k \in Keys, NEW g \in Rest, Bears(g, k)
       PROVE  \E l \in OnTheWay' : /\ Bears(l, k)
                                   /\ k \in user <=> l.event.kind = "press"
                                   /\ \A j \in OnTheWay' : Bears(j, k) => j.seq <= l.seq
  <2>1. PICK l \in OnTheWay : /\ Bears(l, k)
                              /\ k \in user <=> l.event.kind = "press"
                              /\ \A j \in OnTheWay : Bears(j, k) => j.seq <= l.seq
    BY <1>6, <1>9, <1>11 DEF Accounts
  <2>2. l \notin pending
    <3>1. ASSUME l \in pending PROVE l.seq < g.seq
      <4>1. g.reliable
        BY <1>6, <1>8, <1>11, UnreliableIsMove DEF Bears
      <4>2. g \in Sure(InQueue) \cup InStream \/ g \in InRelay
        BY <4>1 DEF Rest, Sure
      <4> QED BY <1>1, <3>1, <4>2 DEF InLine, Orderly, Before
    <3>2. g.seq <= l.seq /\ g.seq \in Nat /\ l.seq \in Nat
      BY <1>6, <1>8, <1>11, <2>1, FrameNumber
    <3> QED BY <3>1, <3>2
  <2>3. l \in OnTheWay'
    BY <1>6, <1>7, <1>8, <2>1, <2>2
  <2> QED BY <1>6, <1>7, <2>1, <2>3
<1>12. ASSUME NEW k \in Keys, \A g \in Rest : ~Bears(g, k)
       PROVE  /\ \A g \in OnTheWay' : ~Bears(g, k)
              /\ k \in user => k \in abandoned'
  <2>1. \A g \in OnTheWay' : ~Bears(g, k)
    BY <1>7, <1>8, <1>12
  <2>2. ASSUME k \in user, k \notin abandoned PROVE k \in GivenUp
    <3>1. CASE k \in held
      BY <1>5, <1>10, <1>12, <2>2, <3>1 DEF GivenUp
    <3>2. CASE k \notin held
      <4>1. PICK l \in OnTheWay : Bears(l, k) /\ l.event.kind = "press"
        BY <1>9, <2>2, <3>2 DEF Accounts
      <4>2. l \in pending /\ l.event = [kind |-> "press", key |-> k]
        BY <1>6, <1>8, <1>12, <4>1, FrameFields, EventIs DEF Bears
      <4> QED BY <1>10, <1>12, <2>2, <4>2 DEF GivenUp
    <3> QED BY <3>1, <3>2
  <2> QED BY <2>1, <2>2
<1>13. Accounts(OnTheWay', held', user, abandoned')
  <2> SUFFICES ASSUME NEW k \in Keys
               PROVE  \/ /\ \A g \in OnTheWay' : ~Bears(g, k)
                         /\ k \in held' => k \in user
                         /\ k \in user => k \in held' \cup abandoned'
                      \/ \E l \in OnTheWay' :
                           /\ Bears(l, k)
                           /\ k \in user <=> l.event.kind = "press"
                           /\ \A j \in OnTheWay' : Bears(j, k) => j.seq <= l.seq
    BY DEF Accounts
  <2> QED BY <1>5, <1>11, <1>12
<1> QED BY <1>4, <1>13 DEF HoldInv

LEMMA HoldStep == PathType /\ OrderInv /\ HoldInv /\ [PathNext]_allVars => HoldInv'
<1> SUFFICES ASSUME PathType, OrderInv, HoldInv, [PathNext]_allVars, Calm'
             PROVE  HoldInv'
  BY DEF HoldInv
<1>1. Calm
  BY CalmBefore
<1>2. CASE UNCHANGED allVars \/ TimePasses
  <2>1. UNCHANGED <<queue, pending, early, current, stream, relay, user, held, abandoned>>
    BY <1>2 DEF TimePasses, DeadlinePasses, allVars, vars, pathVars, seqVars, keyVars
  <2>2. UNCHANGED <<InQueue, InStream, InRelay, Current>>
    BY <2>1 DEF InQueue, InStream, InRelay, Current
  <2>3. OnTheWay' = OnTheWay
    BY <2>1, <2>2, WayIs
  <2> QED BY <1>1, <2>1, <2>3 DEF HoldInv
<1>3. CASE Capture
  BY <1>1, <1>3, CaptureHolds
<1>4. CASE Network
  BY <1>1, <1>4, NetworkHolds
<1>5. CASE Work
  <2>1. Thread /\ UNCHANGED pathVars
        /\ abandoned' = IF JumpAhead THEN abandoned \cup GivenUp ELSE abandoned
    BY <1>5 DEF Work
  <2>2. CASE JumpAhead
    BY <1>1, <2>1, <2>2, JumpHolds
  <2>3. CASE ~JumpAhead
    BY <1>1, <2>1, <2>3, ReceiveHolds, ThreadHolds DEF Thread
  <2> QED BY <2>2, <2>3
<1> QED BY <1>2, <1>3, <1>4, <1>5 DEF PathNext, Receiver

LEMMA HoldInitially == PathInit => HoldInv
<1> SUFFICES ASSUME PathInit PROVE HoldInv
  OBVIOUS
<1>1. OnTheWay = {} /\ held = {} /\ user = {}
  BY SentinelAssumption, WayIs DEF PathInit, Init, InQueue, InStream, InRelay, Current
<1> QED BY <1>1 DEF HoldInv, Accounts

(* While no connection fails no key event is lost, passed over or undone   *)
(* between the transmit thread and the operating system, but for presses   *)
(* of the keys a jump of the sequencer gave up: for any keys, windows,     *)
(* capacities and number of events, whichever moves are lost or late.      *)
THEOREM KeysComeThrough == ASSUME Timely PROVE PathSpec => []DifferenceOnTheWay
<1>1. PathType /\ HoldInv => DifferenceOnTheWay
  BY AccountsShow
<1> QED BY <1>1, HoldInitially, HoldStep, PathInvariant, PTL DEF PathSpec
=============================================================================
