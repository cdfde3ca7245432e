------------------------------ MODULE InputPath ------------------------------
(***************************************************************************)
(* The path of an input event from the transmit thread of the master to    *)
(* the operating system of the receiver: transmit_desktop_capture_event    *)
(* and its sender, the QUIC connection or the relay between the devices,   *)
(* and the injection thread (InputInjection).                              *)
(*                                                                         *)
(* A sender numbers its events from 1.  On a direct connection the mouse   *)
(* moves are datagrams (lost, overtaken) and everything else travels on    *)
(* one ordered stream; on the relay all frames travel in order.  A send    *)
(* that fails loses the event and drops the sender; the next event         *)
(* connects again, and numbers from 1 again.  The receiver's sequencer     *)
(* lives as long as its listener.                                          *)
(***************************************************************************)
EXTENDS InputInjection

CONSTANTS
  MaxEvents,    \* bound: events the user makes
  MaxFailures,  \* bound: failures of connecting, sending and relaying
  Links,        \* the transports in reach: a subset of {"direct", "relay"}
  Timely        \* the reliable stream is never later than the gap deadline

ASSUME PathAssumption ==
  /\ MaxEvents \in Nat /\ MaxFailures \in Nat
  /\ Links \subseteq {"direct", "relay"} /\ Links # {}
  /\ Timely \in BOOLEAN
  \* All frames name the one receiver, and whatever is captured has a frame.
  /\ \A s, t \in Targets : s = t
  /\ \A n \in 1..MaxEvents, e \in Events, reliable \in BOOLEAN :
       reliable \/ e.kind = "none" =>
         \E f \in Frames : f.seq = n /\ f.reliable = reliable /\ f.event = e

VARIABLES
  user,       \* keys the user holds, as captured for this target
  events,     \* number of captured events
  failures,   \* number of failures so far
  link,       \* the transport in the senders map, or "none"
  sequence,   \* DesktopTargetSender.sequence
  stream,     \* the reliable stream of the direct connection
  datagrams,  \* datagrams in flight
  relay,      \* frames between the sender's and the receiver's web sockets
  listening,  \* the receive thread still reads the QUIC endpoint
  abandoned   \* history: keys the user holds that a jump released or passed

pathVars == <<user, events, failures, link, sequence, stream, datagrams,
              relay, listening>>
allVars == <<vars, pathVars, abandoned>>

PathInit ==
  /\ Init
  /\ user = {} /\ events = 0 /\ failures = 0
  /\ link = "none" /\ sequence = 1
  /\ stream = <<>> /\ datagrams = {} /\ relay = <<>>
  /\ listening = TRUE /\ abandoned = {}

-----------------------------------------------------------------------------
(* The transmit thread. *)

Gestures ==
  [kind : {"press"}, key : Keys \ user] \cup [kind : {"release"}, key : user]
    \cup [kind : {"none"}]

Captured(e) ==
  /\ events < MaxEvents /\ events' = events + 1
  /\ user' = Apply(e, user)
  /\ abandoned' = abandoned \cap user'

(* Every frame a sender of at most MaxEvents events can build: what TLC     *)
(* takes for Frames.                                                       *)
SentFrames ==
  [seq : 1..MaxEvents, reliable : {TRUE}, target : Targets, event : Events]
    \cup [seq : 1..MaxEvents, reliable : {FALSE}, target : Targets,
          event : [kind : {"none"}]]

(* A move travels as a datagram; a scroll or a position, also "none", does *)
(* not.                                                                    *)
NewFrame(n, reliable, e) ==
  CHOOSE f \in Frames :
    f.seq = n /\ f.reliable = reliable /\ f.event = e

(* connect_desktop_target_transport: the direct connection first, and the  *)
(* relay if it cannot be had.  A closed connection ended the receive       *)
(* thread, so that a second direct connection finds no endpoint.           *)
MayConnect(l) ==
  /\ l \in Links
  /\ l = "direct" => listening

Enter(l, f) ==
  CASE l = "relay" ->
         relay' = Append(relay, f) /\ UNCHANGED <<stream, datagrams>>
    [] l = "direct" /\ f.reliable ->
         stream' = Append(stream, f) /\ UNCHANGED <<relay, datagrams>>
    [] l = "direct" /\ ~f.reliable ->
         datagrams' = datagrams \cup {f} /\ UNCHANGED <<relay, stream>>

(* The link and number of the next send: the sender's, or a new sender's.  *)
Sender(l, n) ==
  IF link = "none" THEN MayConnect(l) /\ n = 1 ELSE l = link /\ n = sequence

(* Mutant: the number is not advanced. *)
MutantTransmit(e, reliable) ==
  /\ Captured(e)
  /\ \E l \in Links, n \in 1..MaxEvents :
       /\ Sender(l, n)
       /\ Enter(l, NewFrame(n, reliable, e))
       /\ link' = l /\ sequence' = n
  /\ UNCHANGED <<failures, listening>> /\ UNCHANGED vars

Transmit(e, reliable) ==
  /\ Captured(e)
  /\ \E l \in Links, n \in 1..MaxEvents :
       /\ Sender(l, n)
       /\ Enter(l, NewFrame(n, reliable, e))
       /\ link' = l /\ sequence' = n + 1
  /\ UNCHANGED <<failures, listening>> /\ UNCHANGED vars

(* No transport could be connected, or the send failed on the sender that  *)
(* was connected.  The event is not sent again.  On the relay a frame may  *)
(* have been routed although its acknowledgement was late or lost.         *)
TransmitFails(e, reliable) ==
  /\ Captured(e)
  /\ failures < MaxFailures /\ failures' = failures + 1
  /\ \/ UNCHANGED <<stream, datagrams, relay>>
     \/ link = "relay" /\ reliable /\ Enter(link, NewFrame(sequence, TRUE, e))
  /\ link' = "none" /\ sequence' = 1
  /\ listening' = (listening /\ link # "direct")
  /\ UNCHANGED vars

(* DesktopTransmitBackoff.should_drop: for a while after a failure, and    *)
(* until a send succeeds, mouse moves are dropped before they are sent.    *)
DropInBackoff(e, reliable) ==
  /\ ~reliable /\ link = "none" /\ failures > 0
  /\ Captured(e)
  /\ UNCHANGED <<failures, link, sequence, stream, datagrams, relay, listening>>
  /\ UNCHANGED vars

(* What a closed connection had in flight may be lost: the end of the      *)
(* stream and any datagram.                                                *)
LoseDirect ==
  /\ ~listening
  /\ \E n \in 0..Len(stream) : stream' = SubSeq(stream, 1, n)
  /\ datagrams' = {}
  /\ UNCHANGED <<user, events, failures, link, sequence, relay, listening,
                 abandoned>>
  /\ UNCHANGED vars

(* The receiver's relay socket closes: what the server had queued for it   *)
(* is gone although it acknowledged it; the receiver connects again.       *)
LoseRelay ==
  /\ failures < MaxFailures /\ failures' = failures + 1
  /\ relay # <<>> /\ relay' = <<>>
  /\ UNCHANGED <<user, events, link, sequence, stream, datagrams, listening, abandoned>>
  /\ UNCHANGED vars

-----------------------------------------------------------------------------
(* The network and the receive threads of the receiver. *)

LoseDatagram ==
  /\ \E f \in datagrams : datagrams' = datagrams \ {f}
  /\ UNCHANGED <<user, events, failures, link, sequence, stream, relay,
                 listening, abandoned>>
  /\ UNCHANGED vars

DeliverDatagram ==
  /\ \E f \in datagrams : QueueUnreliable(f) /\ datagrams' = datagrams \ {f}
  /\ UNCHANGED <<user, events, failures, link, sequence, stream, relay,
                 listening, abandoned>>

DeliverStream ==
  /\ stream # <<>>
  /\ QueueReliable(Head(stream)) /\ stream' = Tail(stream)
  /\ UNCHANGED <<user, events, failures, link, sequence, datagrams, relay,
                 listening, abandoned>>

DeliverRelay ==
  /\ relay # <<>>
  /\ QueueReliable(Head(relay)) \/ QueueUnreliable(Head(relay))
  /\ relay' = Tail(relay)
  /\ UNCHANGED <<user, events, failures, link, sequence, stream, datagrams,
                 listening, abandoned>>

-----------------------------------------------------------------------------
Capture ==
  \E e \in Gestures, reliable \in BOOLEAN :
    /\ ~reliable => e.kind = "none"
    /\ \/ Transmit(e, reliable)
       \/ TransmitFails(e, reliable)
       \/ DropInBackoff(e, reliable)

Network ==
  \/ DeliverDatagram
  \/ DeliverStream
  \/ DeliverRelay
  \/ LoseDatagram
  \/ LoseDirect
  \/ LoseRelay

(* Twenty milliseconds pass.  On a timely network no reliable frame is     *)
(* still in flight or in the channel by then.                              *)
TimePasses ==
  /\ DeadlinePasses
  /\ Timely => /\ stream = <<>>
               /\ \A i \in DOMAIN queue : ~queue[i].reliable
  /\ UNCHANGED pathVars /\ UNCHANGED abandoned

Bears(f, k) == f.event.kind # "none" /\ f.event.key = k

(* Keys the user holds which a jump of the sequencer releases, or whose    *)
(* press was among the buffered frames it gives up, and of which nothing   *)
(* follows behind.                                                         *)
GivenUp ==
  {k \in user :
     /\ k \in tracked \/ \E f \in pending : f.event = [kind |-> "press", key |-> k]
     /\ \A f \in {stream[i] : i \in DOMAIN stream}
               \cup {relay[i] : i \in DOMAIN relay}
               \cup {queue[i] : i \in DOMAIN queue} : ~Bears(f, k)}

(* A step of the thread, with what a jump gives up noted.                  *)
Work ==
  /\ Thread
  /\ abandoned' = IF JumpAhead THEN abandoned \cup GivenUp ELSE abandoned
  /\ UNCHANGED pathVars

Receiver == Work \/ TimePasses

(* run_listener_with_relay keeps an input_tx of its own: the channel is    *)
(* never closed while the listener runs.                                   *)
PathNext == Capture \/ Network \/ Receiver

PathSpec == PathInit /\ [][PathNext]_allVars

(* The receiver's threads run, time passes, streams deliver, and a         *)
(* datagram does not stay in the network for ever.  The user owes nothing. *)
PathFairness ==
  /\ WF_allVars(Work)
  /\ WF_allVars(TimePasses)
  /\ WF_allVars(DeliverStream) /\ WF_allVars(DeliverRelay)
  /\ WF_allVars(DeliverDatagram \/ LoseDatagram)

FairPathSpec == PathSpec /\ PathFairness

-----------------------------------------------------------------------------
OnTheWay ==
  {stream[i] : i \in DOMAIN stream} \cup {relay[i] : i \in DOMAIN relay}
    \cup InHand

(* While no connection fails, whenever the receiver holds a key the user   *)
(* does not, its release is on the way, and the other way round: no key    *)
(* event is lost, passed over or undone between the transmit thread and    *)
(* the operating system, whichever moves are lost or late.  A jump of the  *)
(* sequencer (more lost moves in a row than the window) is no exception    *)
(* for releases, and for presses only of the keys it gave up itself.       *)
DifferenceOnTheWay ==
  failures = 0 /\ ~Returned =>
    /\ \A k \in held \ user :
         \E f \in OnTheWay : f.event = [kind |-> "release", key |-> k]
    /\ \A k \in (user \ held) \ abandoned :
         \E f \in OnTheWay : f.event = [kind |-> "press", key |-> k]

DropsReliable == DropOld /\ Head(queue).reliable

(* Every event is sent at most once, so a reliable frame dropped because   *)
(* its number is old is a key event lost: that never happens while the     *)
(* connections hold.                                                       *)
NoneDroppedOnline == [][failures = 0 => ~DropsReliable]_allVars

(* The same, also after a sender had to connect again.                     *)
NoReliableDropped == [][~DropsReliable]_allVars

(* An early move a jump left behind: the finding of ReliableNotBlocked.    *)
LeftBehind == \E f \in early : f.seq < nextSequence

(* While no connection fails, the receiver ends up with exactly the keys   *)
(* the user holds, but for those a jump gave up, unless the thread         *)
(* returned or a jump left an early move behind.                           *)
Settles ==
  <>[](\/ failures > 0 \/ Returned \/ LeftBehind
       \/ held \subseteq user /\ user \ held \subseteq abandoned)
=============================================================================
