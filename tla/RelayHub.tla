------------------------------ MODULE RelayHub ------------------------------
(***************************************************************************)
(* The relay of the server: the hub that maps a device to the channel of   *)
(* its receiving connection, the task of each connection, and the client   *)
(* ends: the loop that keeps a receiving connection, and the sender that   *)
(* waits for the acknowledgement of each reliable frame.                   *)
(*                                                                         *)
(* A frame is its number, its lane and its target.  The numbers are given  *)
(* out in the order of sending.                                            *)
(***************************************************************************)
EXTENDS Naturals, Sequences, SequencesExt

CONSTANTS
    Senders,        \* devices with a sending connection
    Receivers,      \* devices with a receiving connection
    MaxRx,          \* bound: receiving connections ever made
    MaxTx,          \* bound: sending connections ever made
    MaxFrames,      \* bound: frames sent
    MaxBreaks,      \* bound: connections that break
    MaxSwitches,    \* bound: devices disabled or enabled
    LateRequests    \* whether the server may handle a request whose connection is gone

ASSUME RelayAssumption ==
    /\ MaxRx \in Nat \ {0} /\ MaxTx \in Nat \ {0} /\ MaxFrames \in Nat
    /\ MaxBreaks \in Nat /\ MaxSwitches \in Nat
    /\ LateRequests \in BOOLEAN
    /\ Senders # {} /\ Receivers # {}

RelayDevices == Senders \cup Receivers
RxIds == 1..MaxRx
TxIds == 1..MaxTx
Frames == [n : 1..MaxFrames, reliable : BOOLEAN, to : Receivers]

VARIABLES
    peers,      \* hub: device -> its registered connection, 0 for none
    enabled,    \* devices the registry has enabled
    rx,         \* receiving connections, both ends
    reading,    \* device -> the connection its receive loop holds, 0 for none
    tx,         \* sending connections, both ends
    holding,    \* device -> the connection its transmit thread holds, 0 for none
    awaiting,   \* device -> the reliable frame whose answer it reads, 0 for none
    frames,     \* number of frames sent
    breaks, switches,
    newest,     \* history: device -> the connection accepted last
    routed,     \* history: connection -> numbers put into its channel
    acked       \* history: numbers the sender was told are routed

vars == <<peers, enabled, rx, reading, tx, holding, awaiting, frames, breaks,
          switches, newest, routed, acked>>

Idle == [server |-> "none", device |-> CHOOSE d \in Receivers : TRUE, up |-> FALSE,
         channel |-> <<>>, socket |-> <<>>, got |-> <<>>]
Unused == [server |-> "none", source |-> CHOOSE s \in Senders : TRUE, up |-> FALSE,
           wire |-> <<>>, acks |-> <<>>]

Init ==
    /\ peers = [d \in Receivers |-> 0]
    /\ enabled = RelayDevices
    /\ rx = [c \in RxIds |-> Idle]
    /\ reading = [d \in Receivers |-> 0]
    /\ tx = [k \in TxIds |-> Unused]
    /\ holding = [s \in Senders |-> 0]
    /\ awaiting = [s \in Senders |-> 0]
    /\ frames = 0 /\ breaks = 0 /\ switches = 0
    /\ newest = [d \in Receivers |-> 0]
    /\ routed = [c \in RxIds |-> <<>>]
    /\ acked = {}

-----------------------------------------------------------------------------
(* The receive loop of a device and the connection it holds.               *)

UnusedRx == {c \in RxIds : rx[c].server = "none"}
LowestOf(S) == CHOOSE c \in S : \A e \in S : c <= e

\* The loop opens a connection and sends the request of the upgrade.
ConnectRx(d) ==
    /\ reading[d] = 0 /\ UnusedRx # {}
    /\ LET c == LowestOf(UnusedRx)
       IN  /\ rx' = [rx EXCEPT ![c] = [Idle EXCEPT !.server = "requested",
                                                   !.device = d, !.up = TRUE]]
           /\ reading' = [reading EXCEPT ![d] = c]
    /\ UNCHANGED <<peers, enabled, tx, holding, awaiting, frames, breaks, switches,
                   newest, routed, acked>>

MutantAcceptRx(c) ==
    /\ rx[c].server = "requested" /\ rx[c].up
    /\ rx[c].device \in enabled
    /\ rx' = [rx EXCEPT ![c].server = "registered"]
    /\ peers' = [peers EXCEPT ![rx[c].device] = IF @ = 0 THEN c ELSE @]
    /\ newest' = [newest EXCEPT ![rx[c].device] = c]
    /\ UNCHANGED <<enabled, reading, tx, holding, awaiting, frames, breaks, switches,
                   routed, acked>>

\* The handler of the request registers the connection before the upgrade.
AcceptRx(c) ==
    /\ rx[c].server = "requested"
    /\ rx[c].up \/ LateRequests
    /\ rx[c].device \in enabled
    /\ rx' = [rx EXCEPT ![c].server = "registered"]
    /\ peers' = [peers EXCEPT ![rx[c].device] = c]
    /\ newest' = [newest EXCEPT ![rx[c].device] = c]
    /\ UNCHANGED <<enabled, reading, tx, holding, awaiting, frames, breaks, switches,
                   routed, acked>>

\* A disabled device is refused, or the request never reaches the handler.
RefuseRx(c) ==
    /\ rx[c].server = "requested"
    /\ rx[c].device \notin enabled \/ ~rx[c].up
    /\ rx' = [rx EXCEPT ![c] = [Idle EXCEPT !.server = IF rx[c].up THEN "none" ELSE "ended"]]
    /\ reading' = [d \in Receivers |-> IF reading[d] = c THEN 0 ELSE reading[d]]
    /\ UNCHANGED <<peers, enabled, tx, holding, awaiting, frames, breaks, switches,
                   newest, routed, acked>>

\* The upgrade succeeds and the task of the connection starts.
Upgrade(c) ==
    /\ rx[c].server = "registered" /\ rx[c].up
    /\ rx' = [rx EXCEPT ![c].server = "streaming"]
    /\ UNCHANGED <<peers, enabled, reading, tx, holding, awaiting, frames, breaks,
                   switches, newest, routed, acked>>

\* The upgrade fails: the closure is dropped with the receiver of the channel, and
\* nothing removes the registration.
UpgradeFails(c) ==
    /\ rx[c].server = "registered" /\ ~rx[c].up
    /\ rx' = [rx EXCEPT ![c].server = "ended", ![c].channel = <<>>]
    /\ UNCHANGED <<peers, enabled, reading, tx, holding, awaiting, frames, breaks,
                   switches, newest, routed, acked>>

MutantUnregistered(c) == [peers EXCEPT ![rx[c].device] = 0]

\* unregister_if_current
Unregistered(c) ==
    IF peers[rx[c].device] = c THEN [peers EXCEPT ![rx[c].device] = 0] ELSE peers

\* The task takes a frame out of the channel and writes it to the socket.
Forward(c) ==
    /\ rx[c].server = "streaming" /\ rx[c].channel # <<>>
    /\ rx' = [rx EXCEPT ![c].channel = Tail(@),
                        ![c].socket = IF rx[c].up THEN Append(@, Head(rx[c].channel)) ELSE @]
    /\ UNCHANGED <<peers, enabled, reading, tx, holding, awaiting, frames, breaks,
                   switches, newest, routed, acked>>

\* The task finds the socket closed, by reading or by a write that fails.
StreamEnds(c) ==
    /\ rx[c].server = "streaming" /\ ~rx[c].up
    /\ peers' = Unregistered(c)
    /\ rx' = [rx EXCEPT ![c].server = "ended", ![c].channel = <<>>]
    /\ UNCHANGED <<enabled, reading, tx, holding, awaiting, frames, breaks, switches,
                   newest, routed, acked>>

\* The loop reads a frame; a broken connection may still hold some.
ReceiveFrame(d) ==
    LET c == reading[d]
    IN  /\ c # 0
        /\ rx[c].socket # <<>>
        /\ rx' = [rx EXCEPT ![c].socket = Tail(@), ![c].got = Append(@, Head(rx[c].socket))]
        /\ UNCHANGED <<peers, enabled, reading, tx, holding, awaiting, frames, breaks,
                       switches, newest, routed, acked>>

\* The read, or the connecting, fails; the loop sleeps and starts again.
ReadFails(d) ==
    LET c == reading[d]
    IN  /\ c # 0 /\ ~rx[c].up
        /\ reading' = [reading EXCEPT ![d] = 0]
        /\ rx' = [rx EXCEPT ![c].socket = <<>>]
        /\ UNCHANGED <<peers, enabled, tx, holding, awaiting, frames, breaks, switches,
                       newest, routed, acked>>

-----------------------------------------------------------------------------
(* The transmit thread of a device and the connection it holds.            *)

UnusedTx == {k \in TxIds : tx[k].server = "none"}

\* RelayFrameSender::connect; a connection that only sends is not registered.
ConnectTx(s) ==
    /\ holding[s] = 0 /\ UnusedTx # {} /\ s \in enabled
    /\ LET k == LowestOf(UnusedTx)
       IN  /\ tx' = [tx EXCEPT ![k] = [Unused EXCEPT !.server = "streaming", !.source = s,
                                                     !.up = TRUE]]
           /\ holding' = [holding EXCEPT ![s] = k]
    /\ UNCHANGED <<peers, enabled, rx, reading, awaiting, frames, breaks, switches,
                   newest, routed, acked>>

\* send_frame: a reliable frame is followed by reading its answer.
SendFrame(s, reliable, to) ==
    LET f == [n |-> frames + 1, reliable |-> reliable, to |-> to]
    IN  /\ holding[s] # 0 /\ awaiting[s] = 0 /\ frames < MaxFrames
        /\ frames' = frames + 1
        /\ tx' = [tx EXCEPT ![holding[s]].wire = IF tx[holding[s]].up THEN Append(@, f) ELSE @]
        /\ awaiting' = [awaiting EXCEPT ![s] = IF reliable THEN f.n ELSE 0]
        /\ UNCHANGED <<peers, enabled, rx, reading, holding, breaks, switches, newest,
                       routed, acked>>

MutantForget(s) ==
    /\ UNCHANGED <<holding, tx>>
    /\ awaiting' = [awaiting EXCEPT ![s] = 0]

\* A failed send makes the thread drop the connection.
Forget(s) ==
    /\ holding' = [holding EXCEPT ![s] = 0]
    /\ awaiting' = [awaiting EXCEPT ![s] = 0]
    /\ tx' = [tx EXCEPT ![holding[s]].up = FALSE, ![holding[s]].acks = <<>>]

\* The answer is there: success, or an error that counts as a failed send.
ReadAck(s) ==
    /\ awaiting[s] # 0 /\ tx[holding[s]].acks # <<>>
    /\ LET ack == Head(tx[holding[s]].acks)
       IN  \/ /\ ack.ok
              /\ acked' = acked \cup {awaiting[s]}
              /\ awaiting' = [awaiting EXCEPT ![s] = 0]
              /\ tx' = [tx EXCEPT ![holding[s]].acks = Tail(@)]
              /\ UNCHANGED holding
           \/ /\ ~ack.ok
              /\ Forget(s)
              /\ UNCHANGED acked
    /\ UNCHANGED <<peers, enabled, rx, reading, frames, breaks, switches, newest, routed>>

\* No answer within two seconds, or the socket is closed.
AckFails(s) ==
    /\ awaiting[s] # 0
    /\ Forget(s)
    /\ UNCHANGED <<peers, enabled, rx, reading, frames, breaks, switches, newest, routed,
                   acked>>

\* The write of a frame fails on a broken connection.
SendFails(s) ==
    /\ holding[s] # 0 /\ ~tx[holding[s]].up
    /\ Forget(s)
    /\ UNCHANGED <<peers, enabled, rx, reading, frames, breaks, switches, newest, routed,
                   acked>>

-----------------------------------------------------------------------------
(* The server side of a sending connection.                                *)

\* relay_client_frame_requires_ack
RequiresAck(f) == f.reliable

\* send_frame of the hub: registered, and the receiver of the channel is there.
ChannelOpen(c) == rx[c].server \in {"registered", "streaming"}
Routable(f, source) ==
    /\ source \in enabled /\ f.to \in enabled
    /\ peers[f.to] # 0
    /\ ChannelOpen(peers[f.to])

\* What the task does with a frame besides answering.
Route(f, source) ==
    IF Routable(f, source)
    THEN /\ rx' = [rx EXCEPT ![peers[f.to]].channel = Append(@, f.n)]
         /\ routed' = [routed EXCEPT ![peers[f.to]] = Append(@, f.n)]
    ELSE UNCHANGED <<rx, routed>>

\* The task reads a frame, routes it and answers; it may still do so for a connection
\* the client has dropped, and it ends when the answer cannot be written.
HandleFrame(k) ==
    /\ tx[k].server = "streaming" /\ tx[k].wire # <<>>
    /\ LET f == Head(tx[k].wire)
           answer == [n |-> f.n, ok |-> Routable(f, tx[k].source)]
       IN  /\ Route(f, tx[k].source)
           /\ tx' = [tx EXCEPT
                ![k].wire = Tail(@),
                ![k].acks = IF RequiresAck(f) /\ tx[k].up THEN Append(@, answer) ELSE @,
                ![k].server = IF RequiresAck(f) /\ ~tx[k].up THEN "ended" ELSE @]
    /\ UNCHANGED <<peers, enabled, reading, holding, awaiting, frames, breaks, switches,
                   newest, acked>>

\* The task finds the connection closed.
SenderEnds(k) ==
    /\ tx[k].server = "streaming" /\ ~tx[k].up
    /\ tx' = [tx EXCEPT ![k].server = "ended", ![k].wire = <<>>]
    /\ UNCHANGED <<peers, enabled, rx, reading, holding, awaiting, frames, breaks,
                   switches, newest, routed, acked>>

-----------------------------------------------------------------------------
(* The surroundings.                                                       *)

BreakRx(c) ==
    /\ rx[c].up /\ breaks < MaxBreaks
    /\ breaks' = breaks + 1
    /\ rx' = [rx EXCEPT ![c].up = FALSE]
    /\ UNCHANGED <<peers, enabled, reading, tx, holding, awaiting, frames, switches,
                   newest, routed, acked>>

BreakTx(k) ==
    /\ tx[k].up /\ breaks < MaxBreaks
    /\ breaks' = breaks + 1
    /\ tx' = [tx EXCEPT ![k].up = FALSE]
    /\ UNCHANGED <<peers, enabled, rx, reading, holding, awaiting, frames, switches,
                   newest, routed, acked>>

\* The registry disables or enables a device; open connections stay open.
Switch(d) ==
    /\ switches < MaxSwitches
    /\ switches' = switches + 1
    /\ enabled' = IF d \in enabled THEN enabled \ {d} ELSE enabled \cup {d}
    /\ UNCHANGED <<peers, rx, reading, tx, holding, awaiting, frames, breaks, newest,
                   routed, acked>>

Next ==
    \/ \E d \in Receivers : ConnectRx(d) \/ ReceiveFrame(d) \/ ReadFails(d)
    \/ \E c \in RxIds : \/ AcceptRx(c) \/ RefuseRx(c) \/ Upgrade(c) \/ UpgradeFails(c)
                        \/ Forward(c) \/ StreamEnds(c) \/ BreakRx(c)
    \/ \E s \in Senders : ConnectTx(s) \/ ReadAck(s) \/ AckFails(s) \/ SendFails(s)
    \/ \E s \in Senders, reliable \in BOOLEAN, to \in Receivers : SendFrame(s, reliable, to)
    \/ \E k \in TxIds : HandleFrame(k) \/ SenderEnds(k) \/ BreakTx(k)
    \/ \E d \in RelayDevices : Switch(d)

\* The loops and tasks run; breaks, sends and switches are up to the surroundings.
Fairness ==
    /\ \A d \in Receivers : WF_vars(ConnectRx(d)) /\ WF_vars(ReadFails(d))
    /\ \A c \in RxIds : /\ WF_vars(AcceptRx(c)) /\ WF_vars(RefuseRx(c))
                        /\ WF_vars(Upgrade(c)) /\ WF_vars(StreamEnds(c))

Spec == Init /\ [][Next]_vars /\ Fairness

-----------------------------------------------------------------------------
(* Properties.                                                             *)

Through(c) == rx[c].got \o rx[c].socket \o rx[c].channel
Intact(c) == rx[c].up /\ rx[c].server \in {"registered", "streaming"}

\* While the connection the server accepted last for a device lives, the hub routes to
\* it: the end of an older connection does not take its registration away.
NewestRouted ==
    \A d \in Receivers :
        newest[d] # 0 /\ ChannelOpen(newest[d]) => peers[d] = newest[d]

\* What the hub put into a channel reaches the receive loop in that order and without a
\* gap: nothing is missing on an intact connection, and a break cuts off the end only.
RelayConserved ==
    \A c \in RxIds :
        IF Intact(c) THEN Through(c) = routed[c] ELSE IsPrefix(rx[c].got, routed[c])

\* The answer a sender reads is the answer to the frame it waits for, although frames
\* without an answer go over the same connection and answers may come too late.
AckMatches ==
    \A s \in Senders :
        holding[s] # 0 =>
            \A i \in DOMAIN tx[holding[s]].acks :
                i = 1 /\ tx[holding[s]].acks[i].n = awaiting[s]

\* A frame reported as sent was routed once, and it is at the target or on its way
\* unless its connection broke.
AckedOnItsWay ==
    \A n \in acked :
        \E c \in RxIds :
            /\ n \in ToSet(routed[c])
            /\ Intact(c) => n \in ToSet(Through(c))
            /\ \A e \in RxIds \ {c} : n \notin ToSet(routed[e])

\* Once nothing breaks any more and nobody switches devices, the hub routes to the
\* connection the receive loop of an enabled device reads.
ReceiverReachable ==
    <>[](\A d \in Receivers \cap enabled :
            reading[d] # 0 /\ peers[d] = reading[d] /\ Intact(reading[d]))

\* rx_online, which the device list shows, is true only while a connection receives.
RxOnlineIsTrue == \A d \in Receivers : peers[d] # 0 => ChannelOpen(peers[d])
=============================================================================
