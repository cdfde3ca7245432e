------------------------------- MODULE DataPlane -------------------------------
(***************************************************************************)
(* The direct data plane of crates/kmsync/src/transport.rs: senders seal   *)
(* frames and put them on QUIC streams or datagrams, the tasks of the      *)
(* receiving endpoint open them and pass the results through one bounded   *)
(* channel to the thread that calls recv_frame.                            *)
(*                                                                         *)
(* A frame is its envelope: the lane, the key epoch and the sequence       *)
(* number of its header; one numbering runs over all lanes of a            *)
(* connection.  Opening an envelope and putting the result into the        *)
(* channel are two steps, since the lock on the opener is released in      *)
(* between; as the channel blocks, a task that holds a result holds a      *)
(* worker thread of the runtime as well.                                   *)
(*                                                                         *)
(* QUIC keeps each stream in order, delivers nothing twice and may lose    *)
(* datagrams.  Every envelope comes from the sealer of its own connection, *)
(* so decryption succeeds; no device is revoked (bind passes an empty      *)
(* list).                                                                  *)
(***************************************************************************)
EXTENDS ReplayGuard, Sequences, SequencesExt, FiniteSets

CONSTANTS
  Connections,      \* the connections that reach the endpoint, one after another or together
  Streams,          \* the stream lanes in use
  Datagram,         \* the lane input_unreliable
  NoEnvelope,       \* the result is no frame: a reader or a handshake failed
  RotationFrames,   \* DATA_PLANE_DEFAULT_ROTATION_FRAMES (4096)
  ChannelCapacity,  \* QUIC_CHANNEL_CAPACITY (1024)
  WorkerThreads,    \* worker threads of the runtime "kmsync-quic-rx" (2)
  MaxFrames         \* bound: frames sealed on each connection

Lanes == Streams \cup {Datagram}

ASSUME DataPlaneAssumption ==
  /\ Datagram \notin Streams
  /\ RotationFrames \in Nat \ {0} /\ ChannelCapacity \in Nat \ {0}
  /\ WorkerThreads \in Nat \ {0}
  /\ MaxFrames \in [Connections -> Nat]
  /\ NoEnvelope \notin [lane : Lanes, epoch : Nat, sequence : Nat \ {0}]

VARIABLES
  link,       \* the connection as the endpoint sees it
  sealer,     \* DataPlaneSealer of each connection
  sent,       \* history: the envelopes of each connection, in sealing order
  flight,     \* the envelopes under way
  task,       \* the result a reader task has opened and not yet put
  unreported, \* connections whose end has not been put into the channel yet
  channel,    \* frames: the channel between the tasks and recv_frame
  receiving,  \* the receive thread is in its loop; it owns the endpoint
  received    \* history: the envelopes recv_frame returned, per connection

netVars == <<link, sent, flight, unreported>>
vars == <<guardVars, netVars, sealer, task, channel, receiving, received>>

Envelope(l, s, q) == [lane |-> l, epoch |-> s, sequence |-> q]
Result(c, e, ok) == [connection |-> c, envelope |-> e, ok |-> ok]
NoResult == {}

Init ==
  /\ GuardInit
  /\ link = [c \in Connections |-> "none"]
  /\ sealer = [c \in Connections |-> [epoch |-> 0, framesInEpoch |-> 0, nextSequence |-> 1]]
  /\ sent = [c \in Connections |-> <<>>]
  /\ flight = [c \in Connections |-> {}]
  /\ task = [c \in Connections |-> [l \in Lanes |-> NoResult]]
  /\ unreported = {} /\ channel = <<>>
  /\ receiving = TRUE
  /\ received = [c \in Connections |-> <<>>]

-----------------------------------------------------------------------------
(* The connections.                                                        *)

Connect(c) ==
  /\ link[c] = "none" /\ receiving
  /\ link' = [link EXCEPT ![c] = "open"]
  /\ UNCHANGED <<guardVars, sealer, sent, flight, task, unreported, channel, receiving,
                 received>>

(* A handshake that fails, or a connection that ends: its sender is        *)
(* dropped (a probe, a single message, a failed send), or the network      *)
(* goes and the idle timeout passes.  What was under way is gone, and a    *)
(* task is going to report the end.                                        *)
HandshakeFails(c) ==
  /\ link[c] = "none" /\ receiving
  /\ link' = [link EXCEPT ![c] = "closed"]
  /\ unreported' = unreported \cup {c}
  /\ UNCHANGED <<guardVars, sealer, sent, flight, task, channel, receiving, received>>

Close(c) ==
  /\ link[c] = "open"
  /\ link' = [link EXCEPT ![c] = "closed"]
  /\ flight' = [flight EXCEPT ![c] = {}]
  /\ unreported' = unreported \cup {c}
  /\ UNCHANGED <<guardVars, sealer, sent, task, channel, receiving, received>>

-----------------------------------------------------------------------------
(* The sender.                                                             *)

(* seal_frame: the epoch turns before the frame that finds it full; the    *)
(* sequence goes on.                                                       *)
Sealed(s) ==
  LET full == s.framesInEpoch >= RotationFrames IN
  [epoch |-> IF full THEN s.epoch + 1 ELSE s.epoch,
   framesInEpoch |-> IF full THEN 1 ELSE s.framesInEpoch + 1,
   nextSequence |-> s.nextSequence + 1]

SendFrame(c, l) ==
  /\ link[c] = "open" /\ Len(sent[c]) < MaxFrames[c]
  /\ sealer' = [sealer EXCEPT ![c] = Sealed(@)]
  /\ LET e == Envelope(l, sealer'[c].epoch, sealer[c].nextSequence) IN
       /\ sent' = [sent EXCEPT ![c] = Append(@, e)]
       /\ flight' = [flight EXCEPT ![c] = @ \cup {e}]
  /\ UNCHANGED <<guardVars, link, task, unreported, channel, receiving, received>>

LoseDatagram(c) ==
  /\ \E e \in flight[c] :
       /\ e.lane = Datagram
       /\ flight' = [flight EXCEPT ![c] = @ \ {e}]
  /\ UNCHANGED <<guardVars, link, sealer, sent, task, unreported, channel, receiving, received>>

-----------------------------------------------------------------------------
(* The tasks of the endpoint.                                              *)

(* The next envelope a lane can deliver: any datagram, the oldest frame of *)
(* a stream.                                                               *)
Deliverable(c, l) ==
  {e \in flight[c] :
     /\ e.lane = l
     /\ l \in Streams => \A d \in flight[c] : d.lane = l => e.sequence <= d.sequence}

Busy == {x \in Connections \X Lanes : task[x[1]][x[2]] # NoResult}

WindowOf(c, e) == <<c, e.epoch>>

(* What open_frame returns: the frame, or the refusal of the replay guard. *)
Opened(c, e) == {Result(c, e, Accepts(replay[WindowOf(c, e)], e.sequence))}

(* A task reads an envelope and opens it under the lock of the opener.     *)
OpenFrame(c, l) ==
  /\ receiving /\ task[c][l] = NoResult /\ Cardinality(Busy) < WorkerThreads
  /\ \E e \in Deliverable(c, l) :
       /\ flight' = [flight EXCEPT ![c] = @ \ {e}]
       /\ AcceptNumber(WindowOf(c, e), e.sequence) \/ RejectNumber(WindowOf(c, e), e.sequence)
       /\ task' = [task EXCEPT ![c][l] = Opened(c, e)]
  /\ UNCHANGED <<link, sealer, sent, unreported, channel, receiving, received>>

(* send_quic_result: wait for room in the channel. *)
PutResult(c, l) ==
  /\ receiving /\ Len(channel) < ChannelCapacity
  /\ \E r \in task[c][l] : channel' = Append(channel, r)
  /\ task' = [task EXCEPT ![c][l] = NoResult]
  /\ UNCHANGED <<guardVars, netVars, sealer, receiving, received>>

(* The reader of a closed connection, or the task of a failed handshake,   *)
(* puts the error.  The stream readers do the same behind the first one.   *)
ReportEnd(c) ==
  /\ receiving /\ c \in unreported /\ task[c][Datagram] = NoResult
  /\ Len(channel) < ChannelCapacity
  /\ channel' = Append(channel, Result(c, NoEnvelope, FALSE))
  /\ unreported' = unreported \ {c}
  /\ UNCHANGED <<guardVars, link, sealer, sent, flight, task, receiving, received>>

-----------------------------------------------------------------------------
(* The receive thread: receive_remote_frames over recv_frame.              *)

ReceiveFrame ==
  /\ receiving /\ channel # <<>> /\ Head(channel).ok
  /\ LET r == Head(channel) IN
       received' = [received EXCEPT ![r.connection] = Append(@, r.envelope)]
  /\ channel' = Tail(channel)
  /\ UNCHANGED <<guardVars, netVars, sealer, task, receiving>>

(* Mutant: an error is logged and the loop goes on. *)
MutantReceiveError ==
  /\ receiving /\ channel # <<>> /\ ~Head(channel).ok
  /\ channel' = Tail(channel)
  /\ UNCHANGED <<guardVars, netVars, sealer, task, receiving, received>>

(* recv_frame()? : the first error ends the loop.  The receiver is dropped *)
(* with its endpoint, its runtime and the channel.                         *)
ReceiveError ==
  /\ receiving /\ channel # <<>> /\ ~Head(channel).ok
  /\ receiving' = FALSE
  /\ channel' = <<>> /\ unreported' = {}
  /\ link' = [c \in Connections |-> IF link[c] = "open" THEN "closed" ELSE link[c]]
  /\ flight' = [c \in Connections |-> {}]
  /\ task' = [c \in Connections |-> [l \in Lanes |-> NoResult]]
  /\ UNCHANGED <<guardVars, sealer, sent, received>>

Endpoint == \E c \in Connections : ReportEnd(c) \/ \E l \in Lanes : OpenFrame(c, l) \/ PutResult(c, l)
Receive == ReceiveFrame \/ ReceiveError

Next ==
  \/ \E c \in Connections :
       \/ Connect(c) \/ HandshakeFails(c) \/ Close(c) \/ LoseDatagram(c)
       \/ \E l \in Lanes : SendFrame(c, l)
  \/ Endpoint
  \/ Receive

Spec == Init /\ [][Next]_vars

-----------------------------------------------------------------------------
EnvelopeType == [lane : Lanes, epoch : Nat, sequence : Nat \ {0}]
ResultType == [connection : Connections, envelope : EnvelopeType \cup {NoEnvelope}, ok : BOOLEAN]

(* Types of the data plane; no more results wait for the channel than      *)
(* there are worker threads to wait in.                                    *)
DataPlaneTypeOK ==
  /\ GuardTypeOK
  /\ link \in [Connections -> {"none", "open", "closed"}]
  /\ sealer \in [Connections -> [epoch : Nat, framesInEpoch : 0 .. RotationFrames, nextSequence : Nat]]
  /\ \A c \in Connections :
       /\ sent[c] \in Seq(EnvelopeType) /\ received[c] \in Seq(EnvelopeType)
       /\ flight[c] \subseteq EnvelopeType
       /\ \A l \in Lanes : task[c][l] \subseteq ResultType /\ Cardinality(task[c][l]) <= 1
  /\ Cardinality(Busy) <= WorkerThreads
  /\ unreported \subseteq Connections
  /\ channel \in Seq(ResultType) /\ Len(channel) <= ChannelCapacity
  /\ receiving \in BOOLEAN

(* What the receive thread gets of a stream is a prefix of what was sent   *)
(* on it: before each frame it has got the ones sent before it, each once, *)
(* and no other, although opening and handing over are two steps of tasks  *)
(* that share one channel and one replay guard.                            *)
StreamPrefix ==
  \A c \in Connections : \A i \in DOMAIN received[c] :
    LET e == received[c][i] IN
    e.lane \in Streams =>
      /\ e \in ToSet(sent[c])
      /\ \A d \in ToSet(sent[c]) : d.lane = e.lane =>
           (d.sequence < e.sequence <=> \E j \in 1 .. i - 1 : received[c][j] = d)

Results == ToSet(channel)
             \cup UNION {task[c][l] : c \in Connections, l \in Lanes}
Refused == {r \in Results : ~r.ok /\ r.envelope # NoEnvelope}

(* A frame is refused only because one of the same connection and epoch    *)
(* that was sealed ReplayWindow or more frames later was opened before it: *)
(* never as a duplicate and never because of another connection or epoch.  *)
RefusedIsLate ==
  \A r \in Refused :
    \E t \in accepted[<<r.connection, r.envelope.epoch>>] :
      /\ t - r.envelope.sequence >= ReplayWindow
      /\ sent[r.connection][t].epoch = r.envelope.epoch

(* While a connection is open and the receive thread in its loop, every    *)
(* stream frame is somewhere: received, in the channel, held by a task that *)
(* waits for room, or under way.  A refused frame is not dropped quietly   *)
(* but ends the loop, and a full channel holds frames up and loses none.   *)
StreamConserved ==
  \A c \in Connections : link[c] = "open" /\ receiving =>
    \A e \in ToSet(sent[c]) : e.lane \in Streams =>
      \/ e \in ToSet(received[c]) \cup flight[c]
      \/ \E r \in Results : r.connection = c /\ r.envelope = e
=============================================================================
