---------------------------- MODULE DesktopCapture ----------------------------
(***************************************************************************)
(* The controlling side of a device: DesktopCaptureRouter decides for each *)
(* captured event whether the local machine or a remote target gets it,    *)
(* enqueue_desktop_capture hands it to the transmit thread, and            *)
(* transmit_desktop_capture_events drops, coalesces and sends              *)
(* (crates/kmsync/src/main.rs).  A worker refreshes the plan: which        *)
(* targets are on line and lie at an edge of the screen.                   *)
(*                                                                         *)
(* A target lies at one edge, and its pointer is its distance 0..Width     *)
(* from the edge through which control came.  Ctrl and Alt are one key,    *)
(* "Modifier".  Coordinates along the edge, scrolling and corner edges are *)
(* left out.  The link is reduced to sends that succeed or fail; InputPath *)
(* models what is behind it.  A send and its effect are one step.          *)
(***************************************************************************)
EXTENDS Integers, Sequences, SequencesExt, FiniteSets

CONSTANTS
  Targets,     \* devices in the layout, each at its own edge
  NoTarget,    \* the local machine has control, or no edge is touched
  Keys,        \* keys and buttons of the user
  Width,       \* of a target's screen in pointer steps
  Capacity,    \* of the channel to the transmit thread (1024)
  MaxPlans,    \* bound: changes of the set of targets on line
  MaxInputs    \* bound: captured events that do anything

ASSUME CaptureAssumption ==
  /\ Targets # {} /\ NoTarget \notin Targets
  /\ Keys \subseteq {"Modifier", "Escape", "Delete", "Letter", "Button"}
  /\ {Width, Capacity} \subseteq Nat \ {0}
  /\ {MaxPlans, MaxInputs} \subseteq Nat

VARIABLES
  online,       \* targets the desktop state shows on line
  planChannel,  \* plans of the refresh worker not yet applied: one place
  router,       \* DesktopCaptureRouter
  hidden,       \* local_pointer_hidden
  outbox,       \* events enqueue_desktop_capture has yet to put into the queue
  queue,        \* the channel to the transmit thread
  pending,      \* event the transmit thread took while coalescing
  hand,         \* event the transmit thread is about to send
  backoff,      \* targets whose last send failed less than 500 ms ago
  running,      \* the capture loop
  held,         \* what the user holds down
  pointer,      \* pointer of each target
  down,         \* what is down on each target
  routed,       \* history: what the router has sent to each target as down
  lost,         \* history: targets for which a reliable event was lost
  plans, inputs \* counters of the two bounds

userVars == <<held, inputs>>
planVars == <<online, planChannel, plans>>
captureVars == <<router, hidden, outbox, running, routed>>
transmitVars == <<pending, hand, backoff>>
targetVars == <<pointer, down, lost>>
vars == <<userVars, planVars, captureVars, queue, transmitVars, targetVars>>

-----------------------------------------------------------------------------
(* Captured events and queued events.  A queued button remembers where the *)
(* router's remote pointer was (at); of a position it is the distance, of  *)
(* a move the signed number of steps.                                      *)

KeyEvent(k, d) == [kind |-> "key", key |-> k, down |-> d, edge |-> NoTarget, by |-> 0]
MoveEvent(e, d) == [kind |-> "move", key |-> "none", down |-> FALSE, edge |-> e, by |-> d]

Queued(t, kind, k, d, x) == [to |-> t, kind |-> kind, key |-> k, down |-> d, at |-> x]

IsMotion(q) == q.kind \in {"move", "position"}
Reliable(q) == q.kind # "move"

LocalRouter(p) == [plan |-> p, active |-> NoTarget, remote |-> 0, cooldown |-> FALSE]

Init ==
  /\ online \in (SUBSET Targets) \ {{}}
  /\ planChannel = <<>>
  /\ router = LocalRouter(online)
  /\ hidden = FALSE /\ running = TRUE
  /\ outbox = <<>> /\ queue = <<>> /\ pending = <<>> /\ hand = <<>>
  /\ backoff = {} /\ lost = {}
  /\ held \in SUBSET (Keys \cap {"Modifier"})
  /\ pointer = [t \in Targets |-> 0]
  /\ down = [t \in Targets |-> {}] /\ routed = [t \in Targets |-> {}]
  /\ plans = 0 /\ inputs = 0

-----------------------------------------------------------------------------
(* The plan. *)

(* A target comes on line or leaves.                                       *)
PresenceChanges ==
  /\ plans < MaxPlans
  /\ online' \in (SUBSET Targets) \ {online}
  /\ plans' = plans + 1
  /\ UNCHANGED <<planChannel, captureVars, queue, transmitVars, targetVars, userVars>>

(* Every two seconds the refresh worker builds the plan and offers it with *)
(* try_send; it is dropped when the last one is still waiting.             *)
RefreshPlan ==
  /\ running
  /\ planChannel = <<>>
  /\ planChannel' = <<online>>
  /\ UNCHANGED <<online, plans, captureVars, queue, transmitVars, targetVars, userVars>>

(* Mutant: only the plan is replaced. *)
MutantReplanned ==
  IF planChannel # <<>> THEN [router EXCEPT !.plan = Head(planChannel)] ELSE router

(* Mutant: a plan that comes while a target is controlled is discarded.    *)
MutantReplannedIdle ==
  IF planChannel # <<>> /\ router.active = NoTarget
  THEN LocalRouter(Head(planChannel))
  ELSE router

(* replace_plan, for the plan that waits when an event is captured.        *)
Replanned ==
  IF planChannel # <<>> /\ Head(planChannel) # router.plan
  THEN LocalRouter(Head(planChannel))
  ELSE router

-----------------------------------------------------------------------------
(* route_at_with_application *)

IsSystemReserved(e) == e.kind = "key" /\ e.key = "Delete" /\ "Modifier" \in held

IsReleaseHotkey(e) ==
  e.kind = "key" /\ e.key = "Escape" /\ e.down /\ "Modifier" \in held

Entering(r, e) ==
  r.active = NoTarget /\ ~r.cooldown /\ e.kind = "move" /\ e.by > 0 /\ e.edge \in r.plan

(* The pointer is stepped back over the edge through which control came.   *)
Leaving(r, e) == e.kind = "move" /\ e.by < 0 /\ r.remote + e.by <= 0

Clamped(x) == IF x < 0 THEN 0 ELSE IF x > Width THEN Width ELSE x

Moved(r, e) == [r EXCEPT !.remote = Clamped(@ + e.by)]

NeedsPointerSync(e) == e.key = "Button"

(* The events for the target: a button only behind the position the        *)
(* router's remote pointer has, no move when there is no motion.           *)
RemoteEvents(r, e) ==
  LET position == Queued(r.active, "position", "none", FALSE, r.remote)
  IN  IF e.kind = "move"
      THEN IF e.by = 0 THEN <<>>
           ELSE <<Queued(r.active, "move", "none", FALSE, e.by)>>
      ELSE (IF NeedsPointerSync(e) THEN <<position>> ELSE <<>>)
           \o <<Queued(r.active, "key", e.key, e.down, r.remote)>>

Local(r) == router' = r /\ UNCHANGED <<outbox, routed>>

(* Control ends: the cooldown starts and a hidden pointer is restored.     *)
Released(r) == [LocalRouter(r.plan) EXCEPT !.cooldown = TRUE]

(* Mutant: the pointer is left as it is. *)
MutantRestorePointer(r) == UNCHANGED hidden

RestorePointer(r) == hidden' = (hidden /\ r.active = NoTarget)

StayLocal(r, e) ==
  /\ \/ IsSystemReserved(e)
     \/ ~IsReleaseHotkey(e) /\ r.active = NoTarget /\ ~Entering(r, e)
  /\ Local(r) /\ UNCHANGED hidden

ReleaseControl(r, e) ==
  /\ ~IsSystemReserved(e)
  /\ \/ IsReleaseHotkey(e)
     \/ r.active # NoTarget /\ Leaving(r, e)
  /\ Local(Released(r)) /\ RestorePointer(r)

EnterTarget(r, e) ==
  /\ Entering(r, e)
  /\ LET entered == [r EXCEPT !.active = e.edge, !.remote = 0]
     IN  /\ router' = Moved(entered, e)
         /\ outbox' = <<Queued(e.edge, "position", "none", FALSE, 0)>>
                        \o RemoteEvents(entered, e)
  /\ hidden' = TRUE
  /\ UNCHANGED routed

SendRemote(r, e) ==
  /\ r.active # NoTarget
  /\ ~IsSystemReserved(e) /\ ~IsReleaseHotkey(e) /\ ~Leaving(r, e)
  /\ router' = Moved(r, e)
  /\ outbox' = RemoteEvents(r, e)
  /\ routed' = IF e.kind # "key" THEN routed
               ELSE [routed EXCEPT ![r.active] =
                       IF e.down THEN @ \cup {e.key} ELSE @ \ {e.key}]
  /\ UNCHANGED hidden

(* The capture callback.  Only its own thread reads the router and the     *)
(* pointer's state, so what it does behind the queue is done here too.     *)
Route(e) ==
  /\ running /\ outbox = <<>>
  /\ planChannel' = <<>>
  /\ \/ StayLocal(Replanned, e)
     \/ ReleaseControl(Replanned, e)
     \/ EnterTarget(Replanned, e)
     \/ SendRemote(Replanned, e)
  /\ UNCHANGED <<online, plans, running, queue, transmitVars, targetVars>>

(* The user presses what is up, releases what is down, moves inward or     *)
(* outward, there at an edge of the local screen or not.                   *)
Press(k) == k \notin held /\ held' = held \cup {k} /\ Route(KeyEvent(k, TRUE))

Release(k) == k \in held /\ held' = held \ {k} /\ Route(KeyEvent(k, FALSE))

Move(e, d) == Route(MoveEvent(e, d)) /\ UNCHANGED held

UserActs ==
  /\ inputs < MaxInputs /\ inputs' = inputs + 1
  /\ \/ \E k \in Keys : Press(k) \/ Release(k)
     \/ \E e \in Targets \cup {NoTarget} : Move(e, 1)
     \/ Move(NoTarget, -1)

(* An event without motion: nothing but a waiting plan is acted upon.      *)
UserStirs == Move(NoTarget, 0) /\ UNCHANGED inputs

(* The 250 ms of default_edge_cooldown have passed.                        *)
CooldownEnds ==
  /\ router.cooldown
  /\ router' = [router EXCEPT !.cooldown = FALSE]
  /\ UNCHANGED <<hidden, outbox, running, routed, planVars, queue, transmitVars, targetVars,
                 userVars>>

(* The platform's capture loop returns; its pointer is shown again.        *)
CaptureEnds ==
  /\ running /\ outbox = <<>>
  /\ running' = FALSE /\ hidden' = FALSE
  /\ router' = LocalRouter({}) /\ planChannel' = <<>>
  /\ UNCHANGED <<outbox, routed, online, plans, queue, transmitVars, targetVars, userVars>>

-----------------------------------------------------------------------------
(* The queue. *)

HasRoom == Len(queue) < Capacity

Lose(q) == lost' = IF Reliable(q) THEN lost \cup {q.to} ELSE lost

(* A move that finds the queue full is dropped at once; anything else      *)
(* waits up to 25 ms for room.                                             *)
Enqueue ==
  /\ outbox # <<>>
  /\ outbox' = Tail(outbox)
  /\ \/ HasRoom /\ queue' = Append(queue, Head(outbox)) /\ UNCHANGED lost
     \/ ~HasRoom /\ Lose(Head(outbox)) /\ UNCHANGED queue
  /\ UNCHANGED <<router, hidden, running, routed, planVars, transmitVars, pointer, down,
                 userVars>>

-----------------------------------------------------------------------------
(* The transmit thread. *)

(* next_targeted_transmit_event: the parked event first.  A move captured  *)
(* 120 ms ago or earlier is dropped.                                       *)
TakeEvent ==
  /\ hand = <<>>
  /\ LET waiting == pending \o queue
     IN  /\ waiting # <<>>
         /\ pending' = <<>>
         /\ queue' = IF pending = <<>> THEN Tail(queue) ELSE queue
         /\ \/ hand' = <<Head(waiting)>>
            \/ ~Reliable(Head(waiting)) /\ hand' = <<>>
  /\ UNCHANGED <<backoff, captureVars, planVars, targetVars, userVars>>

(* Mutant: the kind of event is not compared. *)
MutantCanCoalesce(p, q) == p.to = q.to

CanCoalesce(p, q) == p.to = q.to /\ p.kind = q.kind

Coalesced(p, q) == IF p.kind = "move" THEN [p EXCEPT !.at = @ + q.at] ELSE q

(* The burst behind a motion is taken off the queue into one event, up to  *)
(* the first event of another kind or for another target, which is parked. *)
Coalesce ==
  /\ hand # <<>> /\ IsMotion(Head(hand))
  /\ pending = <<>> /\ queue # <<>>
  /\ queue' = Tail(queue)
  /\ IF CanCoalesce(Head(hand), Head(queue))
     THEN hand' = <<Coalesced(Head(hand), Head(queue))>> /\ UNCHANGED pending
     ELSE pending' = <<Head(queue)>> /\ UNCHANGED hand
  /\ UNCHANGED <<backoff, captureVars, planVars, targetVars, userVars>>

ReadyToSend ==
  hand # <<>> /\ (IsMotion(Head(hand)) => pending # <<>> \/ queue = <<>>)

MayDrop(q) == ~Reliable(q) /\ q.to \in backoff

DropInBackoff ==
  /\ ReadyToSend /\ MayDrop(Head(hand))
  /\ hand' = <<>>
  /\ UNCHANGED <<queue, pending, backoff, captureVars, planVars, targetVars, userVars>>

(* A send that succeeds: the sender is there or a new connection is made.  *)
(* A move sent during a back-off is one whose 500 ms have passed.          *)
Send ==
  /\ ReadyToSend
  /\ LET q == Head(hand) t == q.to
     IN  /\ backoff' = backoff \ {t}
         /\ pointer' = CASE q.kind = "position" -> [pointer EXCEPT ![t] = q.at]
                         [] q.kind = "move" -> [pointer EXCEPT ![t] = Clamped(@ + q.at)]
                         [] q.kind = "key" -> pointer
         /\ down' = IF q.kind # "key" THEN down
                    ELSE [down EXCEPT ![t] = IF q.down THEN @ \cup {q.key} ELSE @ \ {q.key}]
  /\ hand' = <<>>
  /\ UNCHANGED <<lost, pending, queue, captureVars, planVars, userVars>>

(* Connecting or sending fails: the event is gone and the target backed    *)
(* off from.                                                               *)
SendFails ==
  /\ ReadyToSend
  /\ Lose(Head(hand))
  /\ backoff' = backoff \cup {Head(hand).to}
  /\ hand' = <<>>
  /\ UNCHANGED <<pointer, down, pending, queue, captureVars, planVars, userVars>>

TransmitStep == TakeEvent \/ Coalesce \/ DropInBackoff \/ Send \/ SendFails

Next ==
  \/ PresenceChanges \/ RefreshPlan
  \/ UserActs \/ UserStirs \/ CooldownEnds \/ CaptureEnds
  \/ Enqueue
  \/ TransmitStep

Spec == Init /\ [][Next]_vars

(* The two threads and the worker keep running, and the platform keeps     *)
(* calling the capture loop.                                               *)
CaptureFairness ==
  WF_vars(RefreshPlan) /\ WF_vars(UserStirs) /\ WF_vars(Enqueue) /\ WF_vars(TransmitStep)

FairSpec == Spec /\ CaptureFairness
-----------------------------------------------------------------------------
Pointers == 0..Width

(* The events between the router and the targets, in the order they go.    *)
OnTheWay == hand \o pending \o queue \o outbox

(* What is down on target t once the events qs have come to it, if these   *)
(* keys are down before: the last event of a key decides.                  *)
DownAfter(keys, qs, t) ==
  LET strokes == {i \in DOMAIN qs : qs[i].kind = "key" /\ qs[i].to = t}
      last == {i \in strokes : \A j \in strokes : qs[j].key = qs[i].key => j <= i}
  IN  {k \in keys : \A i \in strokes : qs[i].key # k}
        \cup {qs[i].key : i \in {i \in last : qs[i].down}}

CaptureTypeOK ==
  /\ online \subseteq Targets /\ Len(planChannel) <= 1
  /\ router.plan \subseteq Targets /\ router.active \in Targets \cup {NoTarget}
  /\ router.remote \in Pointers /\ router.cooldown \in BOOLEAN
  /\ hidden \in BOOLEAN /\ running \in BOOLEAN
  /\ Len(queue) <= Capacity /\ Len(pending) <= 1 /\ Len(hand) <= 1 /\ Len(outbox) <= 2
  /\ pointer \in [Targets -> Pointers] /\ down \in [Targets -> SUBSET Keys]

(* Remote control never goes on for a target the plan has lost, and the    *)
(* local pointer stays hidden all the while (replace_plan,                 *)
(* apply_local_pointer_action).                                            *)
ControlIsPlanned == router.active # NoTarget => router.active \in router.plan /\ hidden

(* What the router has sent to a target as down and what is down there     *)
(* differ by what is on the way only, in the order it was captured:        *)
(* coalescing, parking, stale moves and back-off lose no key, unless the   *)
(* queue stayed full or a send failed.                                     *)
KeysOnTheWay == \A t \in Targets \ lost : routed[t] = DownAfter(down[t], OnTheWay, t)

(* A button goes down or up on a target where the router's remote pointer  *)
(* was when it was captured, whatever moves were dropped or coalesced      *)
(* before it, unless a reliable event was lost.                            *)
ButtonWhereAimed ==
  [][\A t \in Targets :
       ("Button" \in down[t]) # ("Button" \in down'[t]) =>
         pointer[t] = Head(hand).at \/ t \in lost]_vars

(* Control that comes back by the edge, by the release hot key or by the   *)
(* end of the capture loop leaves the local pointer shown.                 *)
HandoverRestores ==
  [][router.active # NoTarget /\ router'.active = NoTarget
       => ~hidden' \/ router'.plan # router.plan]_vars

(* Once targets stop coming and going the router has the plan for them,    *)
(* although a newer plan is dropped while an older one waits               *)
(* (spawn_desktop_capture_plan_refresh_worker).                            *)
PlanConverges == <>[](running => router.plan = online)

-----------------------------------------------------------------------------
(* What the project's documents promise and the code does not keep. *)

(* The local pointer is shown whenever the local machine has control.      *)
PointerShownLocally == router.active = NoTarget => ~hidden

(* Nothing is down on a target that is not controlled, once the user has   *)
(* let go of everything and all that was sent has arrived.                 *)
NothingHeldRemotely ==
  \A t \in Targets \ lost :
    /\ held = {} /\ router.active # t
    /\ \A i \in DOMAIN OnTheWay : OnTheWay[i].to # t
    => down[t] = {}
=============================================================================
