---------------------------- MODULE SingleCapture ----------------------------
(***************************************************************************)
(* kmsync capture-connect and capture-send: one target, a CaptureRouter    *)
(* with one edge, a transmit thread that maps what it sends, and a loop    *)
(* around them that finds the target again after the connection is lost    *)
(* (crates/kmsync/src/main.rs: run_capture_connect, run_capture_send).     *)
(*                                                                         *)
(* What differs from DesktopCapture is modelled: the modes, the mapping    *)
(* of keys, the life of the thread and of the loop.  The pointer is its    *)
(* being at the edge or not; buttons are keys that are never mapped.  The  *)
(* target injects a key that arrives or, when its platform has no such     *)
(* key, gives up injecting.                                                *)
(***************************************************************************)
EXTENDS Integers, Keymap

CONSTANTS
  Profile,      \* the compiled profile
  UserKeys,     \* keys of the user
  Hotkey,       \* [key, modifiers] that releases control
  Modes,        \* capture modes tried: "edge", "always", "locked"
  ChannelSize,  \* of the channel to the transmit thread (1024)
  MaxEvents,    \* bound: key and pointer events
  MaxLinkLosses \* bound: losses of the connection

ASSUME SingleCaptureAssumption ==
  /\ Compiles(Profile) /\ UserKeys \subseteq Captured(Profile.source)
  /\ Modes \subseteq {"edge", "always", "locked"}
  /\ {ChannelSize} \subseteq Nat \ {0} /\ {MaxEvents, MaxLinkLosses} \subseteq Nat

VARIABLES
  phase,     \* run_capture_connect: connecting, capturing, joining, stopped
  mode,      \* CaptureMode
  control,   \* CaptureRouter.active
  cooling,   \* CaptureRouter.cooldown_until lies ahead
  concealed, \* local_pointer_hidden
  pressed,   \* what the user holds down
  atEdge,    \* the pointer lies at the edge
  outgoing,  \* events the callback has yet to put into the channel
  channel,   \* to the transmit thread
  parked,    \* event the thread took while coalescing
  taken,     \* event the thread is about to send
  thread,    \* the transmit thread: off, running, failed, done
  link,      \* the connection to the target holds
  typed,     \* keys down on the target
  injecting, \* the target's injection thread lives
  intended,  \* history: what the routed events leave down on the target
  missed,    \* history: a routed key was lost
  events, losses \* counters of the two bounds

localVars == <<mode, control, cooling, concealed, intended>>
userInput == <<pressed, atEdge, events>>
threadVars == <<parked, taken, thread>>
farVars == <<link, typed, injecting, losses>>
singleVars == <<phase, localVars, userInput, outgoing, channel, threadVars, farVars, missed>>

-----------------------------------------------------------------------------
Stroke(e) == [kind |-> "key", key |-> e]
Motion == [kind |-> "move", key |-> {}]
Entry == [kind |-> "position", key |-> {}]

Mapped(e) == TransformKeyEvent(Profile, e)

(* A key goes down or up as the target takes it.                           *)
Typed(down, q) ==
  IF q.kind # "key" THEN down
  ELSE IF Mapped(q.key).down THEN down \cup {Mapped(q.key).key}
  ELSE down \ {Mapped(q.key).key}

HasKey(qs) == \E i \in DOMAIN qs : qs[i].kind = "key"

SingleInit ==
  /\ phase = "connecting" /\ mode \in Modes
  /\ control = FALSE /\ cooling = FALSE /\ concealed = FALSE
  /\ pressed = {} /\ atEdge = FALSE
  /\ outgoing = <<>> /\ channel = <<>> /\ parked = <<>> /\ taken = <<>> /\ thread = "off"
  /\ link = TRUE /\ typed = {} /\ injecting = TRUE
  /\ intended = {} /\ missed = FALSE /\ events = 0 /\ losses = 0

-----------------------------------------------------------------------------
(* The loop of run_capture_connect. *)

(* The target is found: a new router, a new channel, a new thread.  While  *)
(* it is not, the loop sleeps and tries again.                             *)
Connect ==
  /\ phase = "connecting" /\ link
  /\ phase' = "capturing" /\ thread' = "running"
  /\ control' = FALSE /\ cooling' = FALSE
  /\ UNCHANGED <<mode, concealed, intended, userInput, outgoing, channel, parked, taken,
                 farVars, missed>>

(* An error that no retry mends: no candidate is selected, or the          *)
(* configuration cannot be read.                                           *)
ConnectFails ==
  /\ phase = "connecting" /\ phase' = "stopped"
  /\ UNCHANGED <<localVars, userInput, outgoing, channel, threadVars, farVars, missed>>

(* The platform's capture loop returns.  After an error the thread is left *)
(* to itself, otherwise it is waited for.                                  *)
CaptureReturns ==
  /\ phase = "capturing" /\ outgoing = <<>>
  /\ phase' \in {"joining", "stopped"}
  /\ control' = FALSE /\ concealed' = FALSE
  /\ UNCHANGED <<mode, cooling, intended, userInput, outgoing, channel, threadVars, farVars,
                 missed>>

(* The thread has ended: a lost connection is looked for again, unless its *)
(* error is of a kind that is not retried.                                 *)
JoinThread ==
  /\ phase = "joining" /\ thread \in {"failed", "done"}
  /\ phase' \in IF thread = "done" THEN {"stopped"} ELSE {"connecting", "stopped"}
  /\ thread' = "off"
  /\ UNCHANGED <<localVars, userInput, outgoing, channel, parked, taken, farVars, missed>>

-----------------------------------------------------------------------------
(* The capture callback. *)

SystemReserved(q) ==
  /\ q.kind = "key"
  /\ \/ q.key.key = "Delete" /\ {"control", "alt"} \subseteq q.key.modifiers
     \/ q.key.key \in {"L", "Space"} /\ "meta" \in q.key.modifiers

IsHotkey(q) ==
  /\ q.kind = "key" /\ q.key.down
  /\ q.key.key = Hotkey.key /\ Hotkey.modifiers \subseteq q.key.modifiers

StaysLocal == UNCHANGED <<control, cooling, concealed, outgoing, intended>>

(* The events in front of q type nothing.                                  *)
Forward(front, q) ==
  /\ outgoing' = Append(front, q)
  /\ intended' = Typed(intended, q)

ReleaseByHotkey ==
  /\ control' = FALSE /\ cooling' = TRUE
  /\ concealed' = (concealed /\ ~control)

(* route_at_with_application in the mode "edge".  Any event captured with  *)
(* the pointer at the edge takes control, a key's too.                     *)
RouteAtEdge(q, edge) ==
  \/ IsHotkey(q) /\ ReleaseByHotkey /\ UNCHANGED <<outgoing, intended>>
  \/ ~IsHotkey(q) /\ ~control /\ (cooling \/ ~edge) /\ StaysLocal
  \/ /\ ~IsHotkey(q) /\ ~control /\ ~cooling /\ edge
     /\ control' = TRUE /\ concealed' = TRUE
     /\ Forward(<<Entry>>, q) /\ UNCHANGED cooling
  \/ /\ ~IsHotkey(q) /\ control
     /\ Forward(<<>>, q) /\ UNCHANGED <<control, cooling, concealed>>

(* An application in front may be excepted from capture.                   *)
RouteSingle(q, edge) ==
  /\ phase = "capturing" /\ outgoing = <<>>
  /\ \E excepted \in BOOLEAN :
       CASE SystemReserved(q) \/ excepted \/ mode = "locked" -> StaysLocal
         [] mode = "always" -> Forward(<<>>, q) /\ UNCHANGED <<control, cooling, concealed>>
         [] mode = "edge" -> RouteAtEdge(q, edge)
  /\ UNCHANGED <<phase, mode, channel, threadVars, farVars, missed>>

(* The user types and moves the pointer, also while nothing is captured.   *)
UserInput ==
  /\ events < MaxEvents /\ events' = events + 1
  /\ \/ \E k \in UserKeys :
          LET held == IF k \in pressed THEN pressed \ {k} ELSE pressed \cup {k}
              e == CapturedKeyEvent(Profile.source, k, k \in held, held)
          IN  /\ pressed' = held /\ UNCHANGED atEdge
              /\ \/ RouteSingle(Stroke(e), atEdge)
                 \/ phase # "capturing" /\ UNCHANGED <<phase, localVars, outgoing, channel,
                                                       threadVars, farVars, missed>>
     \/ /\ atEdge' \in BOOLEAN /\ UNCHANGED pressed
        /\ RouteSingle(Motion, atEdge')

CooldownPasses ==
  /\ cooling /\ cooling' = FALSE
  /\ UNCHANGED <<phase, mode, control, concealed, intended, userInput, outgoing, channel,
                 threadVars, farVars, missed>>

(* enqueue_input_event: with the thread gone the event is gone too, and so *)
(* it is when the channel stays full.                                      *)
EnqueueSingle ==
  /\ outgoing # <<>> /\ outgoing' = Tail(outgoing)
  /\ IF thread = "running" /\ Len(channel) < ChannelSize
     THEN channel' = Append(channel, Head(outgoing)) /\ UNCHANGED missed
     ELSE missed' = (missed \/ HasKey(<<Head(outgoing)>>)) /\ UNCHANGED channel
  /\ UNCHANGED <<phase, localVars, userInput, threadVars, farVars>>

-----------------------------------------------------------------------------
(* transmit_captured_events *)

TakeSingle ==
  /\ thread = "running" /\ taken = <<>>
  /\ parked \o channel # <<>>
  /\ taken' = <<Head(parked \o channel)>> /\ parked' = <<>>
  /\ channel' = IF parked = <<>> THEN Tail(channel) ELSE channel
  /\ UNCHANGED <<phase, localVars, userInput, outgoing, thread, farVars, missed>>

(* Mutant: whatever follows replaces the move. *)
MutantIsMouseMove(q) == q.kind # "position"

IsMouseMove(q) == q.kind = "move"

(* The last of a burst of moves stands for all of them.                    *)
CoalesceBurst ==
  /\ thread = "running" /\ taken # <<>> /\ IsMouseMove(Head(taken))
  /\ parked = <<>> /\ channel # <<>>
  /\ channel' = Tail(channel)
  /\ IF IsMouseMove(Head(channel))
     THEN taken' = <<Head(channel)>> /\ UNCHANGED parked
     ELSE parked' = <<Head(channel)>> /\ UNCHANGED taken
  /\ UNCHANGED <<phase, localVars, userInput, outgoing, thread, farVars, missed>>

BurstOver == IsMouseMove(Head(taken)) => parked # <<>> \/ channel = <<>>

Unsupported(q) == q.kind = "key" /\ Mapped(q.key).key \notin Injectable(Profile.target)

SendSingle ==
  /\ thread = "running" /\ taken # <<>> /\ BurstOver /\ link
  /\ taken' = <<>>
  /\ LET q == Head(taken)
     IN  /\ injecting' = (injecting /\ ~Unsupported(q))
         /\ typed' = IF injecting' THEN Typed(typed, q) ELSE typed
         /\ missed' = (missed \/ (~injecting' /\ HasKey(taken)))
  /\ UNCHANGED <<phase, localVars, userInput, outgoing, channel, parked, thread, link, losses>>

(* A send that fails ends the thread and drops the receiving end.          *)
SendSingleFails ==
  /\ thread = "running" /\ taken # <<>> /\ BurstOver /\ ~link
  /\ thread' = "failed" /\ taken' = <<>> /\ parked' = <<>> /\ channel' = <<>>
  /\ missed' = (missed \/ HasKey(taken \o parked \o channel))
  /\ UNCHANGED <<phase, localVars, userInput, outgoing, farVars>>

SenderDropped == phase # "capturing"

(* The channel is empty and closed.                                        *)
ThreadEnds ==
  /\ thread = "running" /\ SenderDropped
  /\ taken \o parked \o channel = <<>>
  /\ thread' = "done"
  /\ UNCHANGED <<phase, localVars, userInput, outgoing, channel, parked, taken, farVars, missed>>

TransmitSingle == TakeSingle \/ CoalesceBurst \/ SendSingle \/ SendSingleFails \/ ThreadEnds

(* The connection is lost and the target can be reached again.             *)
LinkLost ==
  /\ link /\ losses < MaxLinkLosses
  /\ link' = FALSE /\ losses' = losses + 1
  /\ UNCHANGED <<phase, localVars, userInput, outgoing, channel, threadVars, typed, injecting,
                 missed>>

TargetReachable ==
  /\ ~link /\ thread # "running" /\ link' = TRUE
  /\ UNCHANGED <<phase, localVars, userInput, outgoing, channel, threadVars, typed, injecting,
                 losses, missed>>

SingleNext ==
  \/ Connect \/ ConnectFails \/ CaptureReturns \/ JoinThread
  \/ UserInput \/ CooldownPasses \/ EnqueueSingle
  \/ TransmitSingle \/ LinkLost \/ TargetReachable

(* The loop and the two threads keep running; the target comes back.       *)
SingleFairness ==
  /\ WF_singleVars(Connect) /\ WF_singleVars(JoinThread) /\ WF_singleVars(EnqueueSingle)
  /\ WF_singleVars(TransmitSingle) /\ WF_singleVars(TargetReachable)

SingleSpec == SingleInit /\ [][SingleNext]_singleVars /\ SingleFairness
-----------------------------------------------------------------------------
(* What is down on the target once the events qs have come to it, if these *)
(* keys are down before: the last event of a mapped key decides.           *)
TypedAfter(keys, qs) ==
  LET strokes == {i \in DOMAIN qs : qs[i].kind = "key"}
      KeyOf(i) == Mapped(qs[i].key).key
      last == {i \in strokes : \A j \in strokes : KeyOf(j) = KeyOf(i) => j <= i}
  IN  {k \in keys : \A i \in strokes : KeyOf(i) # k}
        \cup {KeyOf(i) : i \in {i \in last : Mapped(qs[i].key).down}}

(* What is down on the target and what the routed events leave down there  *)
(* differ by what is on the way: mapping, parking and coalescing lose no   *)
(* key unless the channel stayed full, the connection was lost or the      *)
(* target gave up (coalesce_mouse_move_burst).                             *)
TypedAsRouted == ~missed => intended = TypedAfter(typed, taken \o parked \o channel \o outgoing)

(* The local pointer is hidden only while control is at the target,        *)
(* through the hot key, a lost connection and the end of the capture loop  *)
(* (apply_local_pointer_action, restore_local_pointer_if_hidden).          *)
HiddenOnlyAway == concealed => control /\ phase = "capturing"

(* Once the capture loop has returned, the events that wait are sent or    *)
(* given up and the command goes on: it connects anew or ends              *)
(* (run_capture_send joins its thread).                                    *)
JoinReturns == phase = "joining" ~> phase # "joining"

-----------------------------------------------------------------------------
(* What documents and messages promise and the code does not keep. *)

(* A connection that a send found lost is replaced.                        *)
LostLinkIsReplaced == thread = "failed" ~> (thread = "running" \/ phase = "stopped")

(* When the user has let go of everything and all has arrived, nothing is  *)
(* down on the target.                                                     *)
NothingStuck ==
  pressed = {} /\ control /\ ~missed /\ taken \o parked \o channel \o outgoing = <<>>
    => typed = {}

(* A key the user can type is one the target can inject.                   *)
TargetKeepsInjecting == injecting

(* Control is taken only by a movement of the pointer.                     *)
EdgeIsCrossed == [][control' /\ ~control => pressed' = pressed]_singleVars
=============================================================================
