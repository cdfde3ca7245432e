--------------------------- MODULE DataPlane_proofs ---------------------------
(***************************************************************************)
(* The replay guard alone is exact for every set of epochs, every window   *)
(* and every width of the bitmap that is not smaller than the window, and  *)
(* so are the guards the endpoint's tasks share inside the data plane, for *)
(* every set of connections and lanes, every rotation, capacity and number *)
(* of worker threads.  Epochs and sequence numbers are not bounded.  Then  *)
(* the order of a stream from the sealer to the receive loop, and why a    *)
(* frame is refused.                                                       *)
(***************************************************************************)
EXTENDS DataPlane, TLAPS

-----------------------------------------------------------------------------
(* The guard alone.  The inductive invariant is the type invariant and     *)
(* BitmapIsHistory: the bitmap and the history of accepted numbers say the *)
(* same about the last BitmapWidth numbers.  The verdict follows from it   *)
(* in every state.                                                         *)

GuardInv == GuardTypeOK /\ BitmapIsHistory

(* What BitmapIsHistory says of one window and its history. *)
Mirrors(w, H) ==
  /\ \A s \in H : s <= w.highest
  /\ w.highest # 0 => w.highest \in H
  /\ \A o \in 0 .. BitmapWidth - 1 : o \in w.seen <=> w.highest - o \in H

(* A higher number shifts the bitmap: the new window mirrors the history   *)
(* with that number.                                                       *)
LEMMA MoveToMirrors ==
  ASSUME NEW w \in WindowType, NEW H \in SUBSET Nat, Mirrors(w, H),
         NEW s \in Nat, s > w.highest
  PROVE  /\ MoveTo(w, s) \in WindowType
         /\ Mirrors(MoveTo(w, s), H \cup {s})
<1> DEFINE d == s - w.highest
           m == MoveTo(w, s)
<1>1. d \in Nat \ {0} /\ w.highest \in Nat /\ BitmapWidth \in Nat \ {0}
  BY ReplayAssumption DEF WindowType
<1>2. m.highest = s /\ m.seen = IF d >= BitmapWidth THEN {0} ELSE ShiftedBy(w.seen, d) \cup {0}
  BY DEF MoveTo
<1>3. m.seen \subseteq 0 .. BitmapWidth - 1
  BY <1>1, <1>2 DEF ShiftedBy
<1>4. m \in WindowType
  BY <1>2, <1>3 DEF MoveTo, WindowType
<1>5. ASSUME NEW o \in 0 .. BitmapWidth - 1
      PROVE  o \in m.seen <=> s - o \in H \cup {s}
  <2>1. CASE o = 0
    BY <1>2, <2>1
  <2>2. CASE 0 < o /\ o < d
    <3>1. o \notin m.seen
      BY <1>1, <1>2, <2>2 DEF ShiftedBy
    <3>2. s - o > w.highest
      BY <1>1, <2>2
    <3>3. s - o \notin H
      BY <1>1, <3>2 DEF Mirrors
    <3> QED BY <3>1, <3>3, <2>2
  <2>3. CASE d <= o
    <3>1. d < BitmapWidth /\ o - d \in 0 .. BitmapWidth - 1 /\ o # 0
      BY <1>1, <2>3
    <3>2. o \in m.seen <=> o - d \in w.seen
      BY <1>1, <1>2, <3>1 DEF ShiftedBy
    <3>3. w.highest - (o - d) = s - o
      BY <1>1
    <3>4. o - d \in w.seen <=> s - o \in H
      BY <3>1, <3>3 DEF Mirrors
    <3> QED BY <3>1, <3>2, <3>4
  <2> QED BY <1>1, <2>1, <2>2, <2>3
<1>6. \A t \in H \cup {s} : t <= m.highest
  BY <1>1, <1>2 DEF Mirrors
<1> QED BY <1>2, <1>4, <1>5, <1>6 DEF Mirrors

(* A number that is not higher, within the window: its bit is set.         *)
LEMMA MarkMirrors ==
  ASSUME NEW w \in WindowType, NEW H \in SUBSET Nat, Mirrors(w, H),
         NEW s \in Nat, s <= w.highest, w.highest - s < ReplayWindow
  PROVE  /\ Mark(w, s) \in WindowType
         /\ Mirrors(Mark(w, s), H \cup {s})
<1>1. w.highest \in Nat /\ w.seen \subseteq 0 .. BitmapWidth - 1
      /\ w.highest - s \in 0 .. BitmapWidth - 1
  BY ReplayAssumption DEF WindowType
<1>2. Mark(w, s) = [highest |-> w.highest, seen |-> w.seen \cup {w.highest - s}]
  BY DEF Mark
<1>3. Mark(w, s) \in WindowType
  BY <1>1, <1>2 DEF WindowType
<1>4. ASSUME NEW o \in 0 .. BitmapWidth - 1
      PROVE  o \in w.seen \cup {w.highest - s} <=> w.highest - o \in H \cup {s}
  BY <1>1 DEF Mirrors
<1> QED BY <1>1, <1>2, <1>3, <1>4 DEF Mirrors

(* The verdict on one window, from the history it mirrors.                 *)
LEMMA VerdictFromMirror ==
  ASSUME NEW w \in WindowType, NEW H \in SUBSET Nat, Mirrors(w, H), NEW s \in Nat
  PROVE  Accepts(w, s) <=> s \notin H /\ \A t \in H : t - s < ReplayWindow
<1>1. w.highest \in Nat /\ ReplayWindow \in Nat \ {0} /\ BitmapWidth \in Nat
      /\ ReplayWindow <= BitmapWidth
  BY ReplayAssumption DEF WindowType
<1>2. CASE s > w.highest
  <2>1. s \notin H /\ \A t \in H : t - s < ReplayWindow
    BY <1>1, <1>2 DEF Mirrors
  <2> QED BY <1>2, <2>1 DEF Accepts
<1>3. CASE s <= w.highest /\ w.highest - s >= ReplayWindow
  <2>1. w.highest \in H
    BY <1>1, <1>3 DEF Mirrors
  <2>2. ~ \A t \in H : t - s < ReplayWindow
    BY <1>1, <1>3, <2>1
  <2> QED BY <1>1, <1>3, <2>2 DEF Accepts
<1>4. CASE s <= w.highest /\ w.highest - s < ReplayWindow
  <2>1. w.highest - s \in 0 .. BitmapWidth - 1 /\ w.highest - (w.highest - s) = s
    BY <1>1, <1>4
  <2>2. w.highest - s \in w.seen <=> s \in H
    BY <2>1 DEF Mirrors
  <2>3. \A t \in H : t - s < ReplayWindow
    BY <1>1, <1>4 DEF Mirrors
  <2> QED BY <1>1, <1>4, <2>2, <2>3 DEF Accepts
<1> QED BY <1>1, <1>2, <1>3, <1>4

(* Every step of the guard keeps the invariant, whatever number comes.     *)
LEMMA AcceptKeepsInv ==
  ASSUME GuardInv, NEW e \in Epochs, NEW s \in Sequences, AcceptNumber(e, s)
  PROVE  GuardInv'
<1> DEFINE w == replay[e]
           v == IF s > w.highest THEN MoveTo(w, s) ELSE Mark(w, s)
<1>1. w \in WindowType /\ accepted[e] \in SUBSET Sequences /\ accepted[e] \in SUBSET Nat
      /\ s \in Nat /\ w.highest \in Nat
  BY ReplayAssumption DEF GuardInv, GuardTypeOK, WindowType
<1>2. Mirrors(w, accepted[e])
  BY DEF GuardInv, BitmapIsHistory, Mirrors
<1>3. replay' = [replay EXCEPT ![e] = v] /\ accepted' = [accepted EXCEPT ![e] = @ \cup {s}]
  BY DEF AcceptNumber
<1>4. v \in WindowType /\ Mirrors(v, accepted[e] \cup {s})
  <2>1. CASE s > w.highest
    BY <1>1, <1>2, <2>1, MoveToMirrors
  <2>2. CASE ~(s > w.highest)
    <3>1. s <= w.highest /\ w.highest - s < ReplayWindow
      BY <1>1, <2>2 DEF AcceptNumber, Accepts
    <3> QED BY <1>1, <1>2, <2>2, <3>1, MarkMirrors
  <2> QED BY <2>1, <2>2
<1> HIDE DEF w, v
<1>5. replay \in [Epochs -> WindowType] /\ accepted \in [Epochs -> SUBSET Sequences]
  BY DEF GuardInv, GuardTypeOK
<1>6. GuardTypeOK'
  BY <1>3, <1>4, <1>5 DEF GuardTypeOK
<1>7. ASSUME NEW f \in Epochs
      PROVE  Mirrors(replay'[f], accepted'[f])
  <2>1. CASE f = e
    BY <1>3, <1>4, <1>5, <2>1
  <2>2. CASE f # e
    <3>1. replay'[f] = replay[f] /\ accepted'[f] = accepted[f]
      BY <1>3, <1>5, <2>2
    <3>2. Mirrors(replay[f], accepted[f])
      BY DEF GuardInv, BitmapIsHistory, Mirrors
    <3> QED BY <3>1, <3>2
  <2> QED BY <2>1, <2>2
<1>8. BitmapIsHistory'
  BY <1>7 DEF BitmapIsHistory, Mirrors
<1> QED BY <1>6, <1>8 DEF GuardInv

LEMMA GuardInductive == GuardSpec => []GuardInv
<1>1. GuardInit => GuardInv
  BY ReplayAssumption DEF GuardInit, GuardInv, GuardTypeOK, BitmapIsHistory,
     WindowType, FreshWindow
<1>2. GuardInv /\ [GuardNext]_guardVars => GuardInv'
  <2> SUFFICES ASSUME GuardInv, [GuardNext]_guardVars PROVE GuardInv'
    OBVIOUS
  <2>1. CASE UNCHANGED guardVars
    BY <2>1 DEF guardVars, GuardInv, GuardTypeOK, BitmapIsHistory
  <2>2. ASSUME NEW e \in Epochs, NEW s \in Sequences, AcceptNumber(e, s)
        PROVE  GuardInv'
    BY <2>2, AcceptKeepsInv
  <2>3. ASSUME NEW e \in Epochs, NEW s \in Sequences, RejectNumber(e, s)
        PROVE  GuardInv'
    BY <2>3 DEF RejectNumber, guardVars, GuardInv, GuardTypeOK, BitmapIsHistory
  <2> QED BY <2>1, <2>2, <2>3 DEF GuardNext
<1> QED BY <1>1, <1>2, PTL DEF GuardSpec

(* The bitmap of every window is its history: DataPlaneReplayWindow::accept *)
(* keeps bit o for highest - o through every shift, at any distance.        *)
THEOREM BitmapMirrorsHistory == GuardSpec => []BitmapIsHistory
<1>1. GuardInv => BitmapIsHistory
  BY DEF GuardInv
<1> QED BY <1>1, GuardInductive, PTL

(* The guard opens no envelope twice and refuses no fresh one within the    *)
(* window, for every window, width and order of arrival.                    *)
THEOREM GuardIsExact == GuardSpec => []VerdictIsExact
<1>1. GuardInv => VerdictIsExact
  <2> SUFFICES ASSUME GuardInv, NEW e \in Epochs, NEW s \in Sequences
               PROVE  Accepts(replay[e], s) <=>
                        s \notin accepted[e] /\ \A t \in accepted[e] : t - s < ReplayWindow
    BY DEF VerdictIsExact
  <2>1. replay[e] \in WindowType /\ accepted[e] \in SUBSET Nat /\ s \in Nat
    BY ReplayAssumption DEF GuardInv, GuardTypeOK
  <2>2. Mirrors(replay[e], accepted[e])
    BY DEF GuardInv, BitmapIsHistory, Mirrors
  <2> QED BY <2>1, <2>2, VerdictFromMirror
<1> QED BY <1>1, GuardInductive, PTL

-----------------------------------------------------------------------------
(* The guard inside the data plane.                                        *)

Unbounded == Connections \X Nat \subseteq Epochs /\ Nat \ {0} \subseteq Sequences

(* Every number an opener meets was sealed: the sealers count from 1 and   *)
(* what is under way carries their numbers.                                *)
Numbered ==
  /\ sealer \in [Connections -> [epoch : Nat, framesInEpoch : Nat, nextSequence : Nat \ {0}]]
  /\ flight \in [Connections -> SUBSET EnvelopeType]

LEMMA SealedType ==
  ASSUME NEW s \in [epoch : Nat, framesInEpoch : Nat, nextSequence : Nat \ {0}]
  PROVE  Sealed(s) \in [epoch : Nat, framesInEpoch : Nat, nextSequence : Nat \ {0}]
  BY DEF Sealed

LEMMA NumberedInductive == Spec => []Numbered
<1>1. Init => Numbered
  BY DEF Init, Numbered, EnvelopeType
<1>2. Numbered /\ [Next]_vars => Numbered'
  <2> SUFFICES ASSUME Numbered, [Next]_vars PROVE Numbered'
    OBVIOUS
  <2>1. CASE UNCHANGED vars
    BY <2>1 DEF vars, netVars, Numbered
  <2>2. ASSUME NEW c \in Connections,
               Connect(c) \/ HandshakeFails(c) \/ ReportEnd(c)
                 \/ \E l \in Lanes : PutResult(c, l)
        PROVE  Numbered'
    BY <2>2 DEF Connect, HandshakeFails, ReportEnd, PutResult, netVars, Numbered
  <2>3. ASSUME NEW c \in Connections, Close(c) \/ LoseDatagram(c) PROVE Numbered'
    BY <2>3 DEF Close, LoseDatagram, Numbered
  <2>4. ASSUME NEW c \in Connections, NEW l \in Lanes, SendFrame(c, l) PROVE Numbered'
    <3>1. sealer' = [sealer EXCEPT ![c] = Sealed(sealer[c])]
      BY <2>4 DEF SendFrame
    <3>2. Sealed(sealer[c]) \in [epoch : Nat, framesInEpoch : Nat, nextSequence : Nat \ {0}]
      BY SealedType DEF Numbered
    <3>3. sealer' \in [Connections -> [epoch : Nat, framesInEpoch : Nat, nextSequence : Nat \ {0}]]
      BY <3>1, <3>2 DEF Numbered
    <3>4. Envelope(l, sealer'[c].epoch, sealer[c].nextSequence) \in EnvelopeType
      BY <3>3 DEF Envelope, EnvelopeType, Numbered
    <3>5. flight' = [flight EXCEPT ![c] =
                       @ \cup {Envelope(l, sealer'[c].epoch, sealer[c].nextSequence)}]
      BY <2>4 DEF SendFrame
    <3>6. flight' \in [Connections -> SUBSET EnvelopeType]
      BY <3>4, <3>5 DEF Numbered
    <3> QED BY <3>3, <3>6 DEF Numbered
  <2>5. ASSUME NEW c \in Connections, NEW l \in Lanes, OpenFrame(c, l) PROVE Numbered'
    BY <2>5 DEF OpenFrame, Numbered
  <2>6. CASE Receive
    BY <2>6 DEF Receive, ReceiveFrame, ReceiveError, netVars, Numbered
  <2> QED BY <2>1, <2>2, <2>3, <2>4, <2>5, <2>6 DEF Next, Endpoint
<1> QED BY <1>1, <1>2, PTL DEF Spec

(* Every step of the data plane is a step of the guard or leaves it alone: *)
(* only a task that opens an envelope touches it, with the number and the  *)
(* epoch of that envelope.                                                 *)
LEMMA GuardStep ==
  ASSUME Unbounded, Numbered, [Next]_vars
  PROVE  [GuardNext]_guardVars
<1>1. CASE UNCHANGED vars
  BY <1>1 DEF vars
<1>2. ASSUME NEW c \in Connections,
             Connect(c) \/ HandshakeFails(c) \/ Close(c) \/ LoseDatagram(c) \/ ReportEnd(c)
               \/ \E l \in Lanes : SendFrame(c, l) \/ PutResult(c, l)
      PROVE  UNCHANGED guardVars
  BY <1>2 DEF Connect, HandshakeFails, Close, LoseDatagram, ReportEnd, SendFrame, PutResult,
              guardVars
<1>3. ASSUME NEW c \in Connections, NEW l \in Lanes, OpenFrame(c, l) PROVE GuardNext
  <2>1. PICK e \in Deliverable(c, l) :
          AcceptNumber(WindowOf(c, e), e.sequence) \/ RejectNumber(WindowOf(c, e), e.sequence)
    BY <1>3 DEF OpenFrame
  <2>2. e \in EnvelopeType
    BY DEF Deliverable, Numbered
  <2>3. WindowOf(c, e) \in Epochs /\ e.sequence \in Sequences
    BY <2>2 DEF EnvelopeType, WindowOf, Unbounded
  <2> QED BY <2>1, <2>3 DEF GuardNext
<1>4. CASE Receive
  BY <1>4 DEF Receive, ReceiveFrame, ReceiveError, guardVars
<1> QED BY <1>1, <1>2, <1>3, <1>4 DEF Next, Endpoint

(* The data plane uses its guards as ReplayGuard describes.                *)
THEOREM UsesGuard ==
  ASSUME Unbounded
  PROVE  Spec => GuardSpec
<1>1. Init => GuardInit
  BY DEF Init
<1>2. Numbered /\ [Next]_vars => [GuardNext]_guardVars
  BY GuardStep
<1> QED BY <1>1, <1>2, NumberedInductive, PTL DEF Spec, GuardSpec

(* No envelope is opened twice on a connection and none within the window  *)
(* is refused, whatever the tasks of the endpoint interleave.              *)
THEOREM OpensExactly ==
  ASSUME Unbounded
  PROVE  Spec => []VerdictIsExact
BY UsesGuard, GuardIsExact, PTL

(* The bitmaps stay the histories of their guards while tasks open frames, *)
(* connections end and the receive loop stops.                             *)
THEOREM MirrorsInUse ==
  ASSUME Unbounded
  PROVE  Spec => []BitmapIsHistory
BY UsesGuard, BitmapMirrorsHistory, PTL

-----------------------------------------------------------------------------
(* The order of a stream.  Its frames are in line: received, in the        *)
(* channel, with the task of the lane, under way.                          *)

(* What is in line was sent, under the number of its place.                *)
Carried ==
  /\ link \in [Connections -> {"none", "open", "closed"}]
  /\ sent \in [Connections -> Seq(EnvelopeType)]
  /\ received \in [Connections -> Seq(EnvelopeType)]
  /\ channel \in Seq(ResultType)
  /\ task \in [Connections -> [Lanes -> SUBSET ResultType]]
  /\ \A c \in Connections :
       /\ sealer[c].nextSequence = Len(sent[c]) + 1
       /\ \A i \in DOMAIN sent[c] : sent[c][i].sequence = i
       /\ ToSet(received[c]) \subseteq ToSet(sent[c])
       /\ flight[c] \subseteq ToSet(sent[c])
       /\ flight[c] # {} => link[c] = "open"
       /\ link[c] = "open" => receiving
       /\ link[c] = "none" => sent[c] = <<>>
       /\ \A l \in Lanes : \A r \in task[c][l] :
            /\ r.connection = c /\ r.envelope \in ToSet(sent[c]) /\ r.envelope.lane = l
            /\ task[c][l] = {r}
  /\ \A i \in DOMAIN channel :
       IF channel[i].envelope = NoEnvelope THEN ~channel[i].ok
       ELSE channel[i].envelope \in ToSet(sent[channel[i].connection])

FrameOf(r, c, l) == r.connection = c /\ r.envelope # NoEnvelope /\ r.envelope.lane = l

(* Received, or in the channel in front of place i.                        *)
InFront(c, l, i, d) ==
  \/ d \in ToSet(received[c])
  \/ \E j \in 1 .. i - 1 : FrameOf(channel[j], c, l) /\ channel[j].envelope = d

HandedOn(c, l, d) == InFront(c, l, Len(channel) + 1, d)
InTask(c, l, d) == \E r \in task[c][l] : r.envelope = d

SentOn(c, l) == {d \in ToSet(sent[c]) : d.lane = l}

(* In front of a frame of a stream are the frames sent before it, and as   *)
(* long as the connection is open all that were sent are in line.          *)
InLine(c, l) ==
  /\ \A i \in DOMAIN received[c] : received[c][i].lane = l =>
       \A d \in SentOn(c, l) :
         d.sequence < received[c][i].sequence <=> \E j \in 1 .. i - 1 : received[c][j] = d
  /\ \A i \in DOMAIN channel : FrameOf(channel[i], c, l) =>
       \A d \in SentOn(c, l) :
         d.sequence < channel[i].envelope.sequence <=> InFront(c, l, i, d)
  /\ \A r \in task[c][l] : \A d \in SentOn(c, l) :
       d.sequence < r.envelope.sequence <=> HandedOn(c, l, d)
  /\ \A e \in flight[c] : e.lane = l =>
       \A d \in SentOn(c, l) :
         HandedOn(c, l, d) \/ InTask(c, l, d) => d.sequence < e.sequence
  /\ link[c] = "open" =>
       \A d \in SentOn(c, l) : HandedOn(c, l, d) \/ InTask(c, l, d) \/ d \in flight[c]

AllInLine == \A c \in Connections, l \in Streams : InLine(c, l)

LEMMA Appended ==
  ASSUME NEW S, NEW q \in Seq(S), NEW x \in S
  PROVE  /\ Append(q, x) \in Seq(S)
         /\ Len(q) \in Nat /\ DOMAIN q = 1 .. Len(q)
         /\ Len(Append(q, x)) = Len(q) + 1 /\ DOMAIN Append(q, x) = 1 .. Len(q) + 1
         /\ \A i \in 1 .. Len(q) : Append(q, x)[i] = q[i]
         /\ Append(q, x)[Len(q) + 1] = x
         /\ ToSet(Append(q, x)) = ToSet(q) \cup {x}
<1>1. /\ Append(q, x) \in Seq(S)
      /\ Len(q) \in Nat /\ DOMAIN q = 1 .. Len(q)
      /\ Len(Append(q, x)) = Len(q) + 1 /\ DOMAIN Append(q, x) = 1 .. Len(q) + 1
      /\ \A i \in 1 .. Len(q) : Append(q, x)[i] = q[i]
      /\ Append(q, x)[Len(q) + 1] = x
  OBVIOUS
<1>2. \A i \in 1 .. Len(q) + 1 : i = Len(q) + 1 \/ i \in 1 .. Len(q)
  BY <1>1
<1>3. Len(q) + 1 \in 1 .. Len(q) + 1 /\ 1 .. Len(q) \subseteq 1 .. Len(q) + 1
  BY <1>1
<1> QED BY <1>1, <1>2, <1>3 DEF ToSet

LEMMA Taken ==
  ASSUME NEW S, NEW q \in Seq(S), q # <<>>
  PROVE  /\ Tail(q) \in Seq(S) /\ Head(q) = q[1] /\ Head(q) \in S
         /\ Len(q) \in Nat \ {0} /\ DOMAIN q = 1 .. Len(q)
         /\ Len(Tail(q)) = Len(q) - 1 /\ DOMAIN Tail(q) = 1 .. Len(q) - 1
         /\ \A i \in 1 .. Len(q) - 1 : Tail(q)[i] = q[i + 1]
  OBVIOUS

LEMMA InitCarried == Init => Carried
<1> SUFFICES ASSUME Init PROVE Carried
  OBVIOUS
<1>1. <<>> \in Seq(EnvelopeType) /\ <<>> \in Seq(ResultType)
  OBVIOUS
<1>2. ToSet(<<>>) = {} /\ Len(<<>>) = 0 /\ DOMAIN <<>> = {}
  BY DEF ToSet
<1> QED BY <1>1, <1>2 DEF Init, Carried, NoResult

(* Steps of the connections and of the network. *)
LEMMA NetworkCarries ==
  ASSUME Numbered, Carried, NEW c \in Connections,
         Connect(c) \/ HandshakeFails(c) \/ Close(c) \/ LoseDatagram(c)
  PROVE  Carried'
<1>0. flight \in [Connections -> SUBSET EnvelopeType]
  BY DEF Numbered
<1>1. UNCHANGED <<sealer, sent, task, channel, receiving, received>>
  BY DEF Connect, HandshakeFails, Close, LoseDatagram
<1>2. \A b \in Connections : flight'[b] \subseteq flight[b]
  BY <1>0 DEF Connect, HandshakeFails, Close, LoseDatagram
<1>3. link' \in [Connections -> {"none", "open", "closed"}]
  <2>1. link \in [Connections -> {"none", "open", "closed"}]
    BY DEF Carried
  <2> QED BY <2>1 DEF Connect, HandshakeFails, Close, LoseDatagram
<1>4. ASSUME NEW b \in Connections
      PROVE  /\ flight'[b] # {} => link'[b] = "open"
             /\ link'[b] = "open" => receiving
             /\ link'[b] = "none" => link[b] = "none"
  <2>1. CASE Connect(c)
    BY <2>1 DEF Connect, Carried
  <2>2. CASE HandshakeFails(c)
    BY <2>2 DEF HandshakeFails, Carried
  <2>3. CASE Close(c)
    <3>1. flight' = [flight EXCEPT ![c] = {}] /\ link' = [link EXCEPT ![c] = "closed"]
      BY <2>3 DEF Close
    <3>2. b = c => flight'[b] = {}
      BY <1>0, <3>1
    <3> QED BY <3>1, <3>2 DEF Carried
  <2>4. CASE LoseDatagram(c)
    <3>1. flight'[b] \subseteq flight[b] /\ link' = link
      BY <1>2, <2>4 DEF LoseDatagram
    <3> QED BY <3>1 DEF Carried
  <2> QED BY <2>1, <2>2, <2>3, <2>4
<1> QED
  <2>1. ASSUME NEW b \in Connections
        PROVE  /\ flight'[b] \subseteq ToSet(sent'[b])
               /\ flight'[b] # {} => link'[b] = "open"
               /\ link'[b] = "open" => receiving'
               /\ link'[b] = "none" => sent'[b] = <<>>
    BY <1>1, <1>2, <1>4 DEF Carried
  <2> QED BY <1>1, <1>3, <2>1 DEF Carried

LEMMA SendCarries ==
  ASSUME Numbered, Numbered', Carried, NEW c \in Connections, NEW l \in Lanes, SendFrame(c, l)
  PROVE  /\ Carried'
         /\ LET e == Envelope(l, sealer'[c].epoch, sealer[c].nextSequence)
            IN  /\ ToSet(sent'[c]) = ToSet(sent[c]) \cup {e} /\ e \in EnvelopeType
                /\ \A d \in ToSet(sent[c]) : d.sequence < e.sequence
                /\ flight'[c] = flight[c] \cup {e} /\ e.lane = l
<1> DEFINE e == Envelope(l, sealer'[c].epoch, sealer[c].nextSequence)
<1>1. /\ link[c] = "open"
      /\ sealer' = [sealer EXCEPT ![c] = Sealed(sealer[c])]
      /\ sent' = [sent EXCEPT ![c] = Append(sent[c], e)]
      /\ flight' = [flight EXCEPT ![c] = flight[c] \cup {e}]
      /\ UNCHANGED <<link, task, channel, receiving, received>>
  BY DEF SendFrame
<1>2. e \in EnvelopeType /\ e.lane = l /\ e.sequence = sealer[c].nextSequence
  BY DEF Envelope, EnvelopeType, Numbered
<1>3. sealer'[c].nextSequence = sealer[c].nextSequence + 1
  BY <1>1 DEF Sealed, Numbered
<1> HIDE DEF e
<1>4. sent[c] \in Seq(EnvelopeType) /\ sealer[c].nextSequence = Len(sent[c]) + 1
      /\ \A i \in DOMAIN sent[c] : sent[c][i].sequence = i
  BY DEF Carried
<1>5. /\ Append(sent[c], e) \in Seq(EnvelopeType)
      /\ Len(sent[c]) \in Nat /\ DOMAIN sent[c] = 1 .. Len(sent[c])
      /\ Len(Append(sent[c], e)) = Len(sent[c]) + 1
      /\ DOMAIN Append(sent[c], e) = 1 .. Len(sent[c]) + 1
      /\ \A i \in 1 .. Len(sent[c]) : Append(sent[c], e)[i] = sent[c][i]
      /\ Append(sent[c], e)[Len(sent[c]) + 1] = e
      /\ ToSet(Append(sent[c], e)) = ToSet(sent[c]) \cup {e}
  BY <1>2, <1>4, Appended
<1>6. /\ sent'[c] = Append(sent[c], e) /\ flight'[c] = flight[c] \cup {e}
      /\ \A b \in Connections \ {c} : sent'[b] = sent[b] /\ flight'[b] = flight[b]
                                      /\ sealer'[b] = sealer[b]
      /\ sent' \in [Connections -> Seq(EnvelopeType)]
  BY <1>1, <1>5 DEF Carried, Numbered
<1>7. \A i \in DOMAIN sent'[c] : sent'[c][i].sequence = i
  BY <1>2, <1>4, <1>5, <1>6
<1>8. \A d \in ToSet(sent[c]) : d.sequence < e.sequence
  BY <1>2, <1>4, <1>5 DEF ToSet
<1>9. \A b \in Connections : ToSet(sent[b]) \subseteq ToSet(sent'[b])
  BY <1>5, <1>6
<1>10. ASSUME NEW b \in Connections
       PROVE  /\ sealer'[b].nextSequence = Len(sent'[b]) + 1
              /\ \A i \in DOMAIN sent'[b] : sent'[b][i].sequence = i
              /\ flight'[b] \subseteq ToSet(sent'[b])
              /\ flight'[b] # {} => link'[b] = "open"
              /\ link'[b] = "none" => sent'[b] = <<>>
  <2>1. CASE b = c
    BY <1>1, <1>3, <1>4, <1>5, <1>6, <1>7, <2>1 DEF Carried
  <2>2. CASE b # c
    BY <1>1, <1>6, <2>2 DEF Carried
  <2> QED BY <2>1, <2>2
<1>11. ASSUME NEW i \in DOMAIN channel
       PROVE  IF channel[i].envelope = NoEnvelope THEN ~channel[i].ok
              ELSE channel[i].envelope \in ToSet(sent'[channel[i].connection])
  <2>0. channel \in Seq(ResultType)
    BY DEF Carried
  <2>1. channel[i] \in ResultType
    BY <2>0
  <2>2. channel[i].connection \in Connections
    BY <2>1 DEF ResultType
  <2>3. IF channel[i].envelope = NoEnvelope THEN ~channel[i].ok
        ELSE channel[i].envelope \in ToSet(sent[channel[i].connection])
    BY DEF Carried
  <2> QED BY <1>9, <2>2, <2>3
<1>12. Carried'
  BY <1>1, <1>6, <1>9, <1>10, <1>11 DEF Carried
<1> QED BY <1>2, <1>5, <1>6, <1>8, <1>12 DEF e

LEMMA OpenCarries ==
  ASSUME Carried, NEW c \in Connections, NEW l \in Lanes, OpenFrame(c, l)
  PROVE  /\ Carried'
         /\ \E e \in Deliverable(c, l) :
              /\ e \in ToSet(sent[c]) /\ e.lane = l
              /\ flight' = [flight EXCEPT ![c] = @ \ {e}]
              /\ task'[c][l] # {} /\ \A r \in task'[c][l] : r.envelope = e
              /\ \A m \in Lanes : m # l => task'[c][m] = task[c][m]
              /\ \A b \in Connections : b # c => task'[b] = task[b]
<1>0. PICK e \in Deliverable(c, l) :
        /\ flight' = [flight EXCEPT ![c] = @ \ {e}]
        /\ task' = [task EXCEPT ![c][l] = Opened(c, e)]
        /\ UNCHANGED <<link, sealer, sent, channel, receiving, received>>
        /\ task[c][l] = NoResult
  BY DEF OpenFrame
<1> DEFINE r == Result(c, e, Accepts(replay[WindowOf(c, e)], e.sequence))
<1>1. e \in ToSet(sent[c]) /\ e.lane = l /\ e \in EnvelopeType
  <2>1. e \in ToSet(sent[c]) /\ e.lane = l
    BY DEF Deliverable, Carried
  <2>2. sent[c] \in Seq(EnvelopeType)
    BY DEF Carried
  <2> QED BY <2>1, <2>2 DEF ToSet
<1>2. r \in ResultType /\ r.connection = c /\ r.envelope = e
  BY <1>1 DEF Result, ResultType, Accepts
<1>3. Opened(c, e) = {r}
  BY DEF Opened
<1> HIDE DEF r
<1>4. /\ task' \in [Connections -> [Lanes -> SUBSET ResultType]]
      /\ task'[c][l] = {r}
      /\ \A m \in Lanes : m # l => task'[c][m] = task[c][m]
      /\ \A b \in Connections : b # c => task'[b] = task[b]
  BY <1>0, <1>2, <1>3 DEF Carried
<1>5. \A b \in Connections, m \in Lanes : \A q \in task'[b][m] :
        /\ q.connection = b /\ q.envelope \in ToSet(sent[b]) /\ q.envelope.lane = m
        /\ task'[b][m] = {q}
  BY <1>0, <1>1, <1>2, <1>4 DEF Carried
<1>6. \A b \in Connections : flight'[b] \subseteq flight[b]
  BY <1>0 DEF Carried
<1>7. Carried'
  BY <1>0, <1>4, <1>5, <1>6 DEF Carried
<1> QED BY <1>0, <1>1, <1>2, <1>4, <1>7

LEMMA PutCarries ==
  ASSUME Carried, NEW r \in ResultType, channel' = Append(channel, r),
         IF r.envelope = NoEnvelope THEN ~r.ok ELSE r.envelope \in ToSet(sent[r.connection]),
         task' \in [Connections -> [Lanes -> SUBSET ResultType]],
         \A b \in Connections, m \in Lanes : task'[b][m] \in {{}, task[b][m]},
         UNCHANGED <<link, sealer, sent, flight, receiving, received>>
  PROVE  Carried'
<1>1. /\ channel \in Seq(ResultType) /\ channel' \in Seq(ResultType)
      /\ DOMAIN channel = 1 .. Len(channel) /\ DOMAIN channel' = 1 .. Len(channel) + 1
      /\ \A i \in 1 .. Len(channel) : channel'[i] = channel[i]
      /\ channel'[Len(channel) + 1] = r /\ Len(channel) \in Nat
  BY Appended DEF Carried
<1>2. \A i \in DOMAIN channel' :
        IF channel'[i].envelope = NoEnvelope THEN ~channel'[i].ok
        ELSE channel'[i].envelope \in ToSet(sent[channel'[i].connection])
  <2>1. \A i \in DOMAIN channel' : i \in DOMAIN channel \/ i = Len(channel) + 1
    BY <1>1
  <2> QED BY <1>1, <2>1 DEF Carried
<1>3. \A b \in Connections, m \in Lanes : \A q \in task'[b][m] :
        /\ q.connection = b /\ q.envelope \in ToSet(sent[b]) /\ q.envelope.lane = m
        /\ task'[b][m] = {q}
  <2> SUFFICES ASSUME NEW b \in Connections, NEW m \in Lanes, NEW q \in task'[b][m]
               PROVE  /\ q.connection = b /\ q.envelope \in ToSet(sent[b])
                      /\ q.envelope.lane = m /\ task'[b][m] = {q}
    OBVIOUS
  <2>1. task'[b][m] = task[b][m]
    OBVIOUS
  <2> QED BY <2>1 DEF Carried
<1> QED BY <1>1, <1>2, <1>3 DEF Carried

LEMMA ReceiveCarries ==
  ASSUME Carried, ReceiveFrame
  PROVE  /\ Carried'
         /\ LET r == Head(channel)
            IN  /\ r \in ResultType /\ r.envelope # NoEnvelope /\ r.envelope \in EnvelopeType
                /\ received' = [received EXCEPT ![r.connection] =
                                   Append(received[r.connection], r.envelope)]
<1> DEFINE r == Head(channel)
<1>1. /\ channel # <<>> /\ r.ok /\ channel' = Tail(channel)
      /\ received' = [received EXCEPT ![r.connection] = Append(@, r.envelope)]
      /\ UNCHANGED <<link, sent, flight, sealer, task, receiving>>
  BY DEF ReceiveFrame, netVars
<1>2. channel \in Seq(ResultType)
  BY DEF Carried
<1>3. /\ channel' \in Seq(ResultType) /\ r = channel[1] /\ r \in ResultType
      /\ 1 \in DOMAIN channel
      /\ \A i \in DOMAIN channel' : i + 1 \in DOMAIN channel /\ channel'[i] = channel[i + 1]
  BY <1>1, <1>2, Taken
<1>4. r.envelope # NoEnvelope /\ r.envelope \in ToSet(sent[r.connection])
      /\ r.connection \in Connections /\ r.envelope \in EnvelopeType
  BY <1>1, <1>3 DEF Carried, ResultType
<1> HIDE DEF r
<1>5. /\ received[r.connection] \in Seq(EnvelopeType)
      /\ received' = [received EXCEPT ![r.connection] =
                         Append(received[r.connection], r.envelope)]
  BY <1>1, <1>4 DEF Carried
<1>6. /\ Append(received[r.connection], r.envelope) \in Seq(EnvelopeType)
      /\ ToSet(Append(received[r.connection], r.envelope))
           = ToSet(received[r.connection]) \cup {r.envelope}
  BY <1>4, <1>5, Appended
<1>7. received' \in [Connections -> Seq(EnvelopeType)]
      /\ \A b \in Connections : ToSet(received'[b]) \subseteq ToSet(sent[b])
  BY <1>4, <1>5, <1>6 DEF Carried
<1>8. Carried'
  BY <1>1, <1>3, <1>7 DEF Carried
<1> QED BY <1>3, <1>4, <1>5, <1>8 DEF r

LEMMA ErrorCarries ==
  ASSUME Carried, ReceiveError
  PROVE  Carried'
<1>1. /\ channel' = <<>> /\ receiving' = FALSE
      /\ link' = [c \in Connections |-> IF link[c] = "open" THEN "closed" ELSE link[c]]
      /\ flight' = [c \in Connections |-> {}]
      /\ task' = [c \in Connections |-> [l \in Lanes |-> {}]]
      /\ UNCHANGED <<sealer, sent, received>>
  BY DEF ReceiveError, NoResult
<1>2. <<>> \in Seq(ResultType) /\ DOMAIN <<>> = {}
  OBVIOUS
<1>3. link' \in [Connections -> {"none", "open", "closed"}]
      /\ \A b \in Connections : link'[b] # "open" /\ (link'[b] = "none" => link[b] = "none")
  BY <1>1 DEF Carried
<1> QED BY <1>1, <1>2, <1>3 DEF Carried

(* Whatever has been handed on or is with a task was sent.                 *)
LEMMA HandedIsSent ==
  ASSUME Carried, NEW c \in Connections, NEW l \in Lanes, NEW d,
         InTask(c, l, d) \/ \E i \in 1 .. Len(channel) + 1 : InFront(c, l, i, d)
  PROVE  d \in ToSet(sent[c])
<1>1. CASE InTask(c, l, d)
  BY <1>1 DEF InTask, Carried
<1>2. CASE d \in ToSet(received[c])
  BY <1>2 DEF Carried
<1>3. ASSUME NEW j \in 1 .. Len(channel), FrameOf(channel[j], c, l), channel[j].envelope = d
      PROVE  d \in ToSet(sent[c])
  <2>1. channel \in Seq(ResultType)
    BY DEF Carried
  <2>2. j \in DOMAIN channel
    BY <2>1
  <2> QED BY <1>3, <2>2 DEF Carried, FrameOf
<1>4. ASSUME NEW i \in 1 .. Len(channel) + 1, InFront(c, l, i, d)
      PROVE  d \in ToSet(sent[c])
  <2>1. Len(channel) \in Nat
    BY DEF Carried
  <2>2. 1 .. i - 1 \subseteq 1 .. Len(channel)
    BY <2>1
  <2> QED BY <1>2, <1>3, <1>4, <2>2 DEF InFront
<1> QED BY <1>1, <1>4

(* A number belongs to one envelope of a connection.                       *)
LEMMA NumberNames ==
  ASSUME Carried, NEW c \in Connections, NEW d \in ToSet(sent[c]), NEW e \in ToSet(sent[c])
  PROVE  /\ d.sequence \in Nat
         /\ d.sequence = e.sequence => d = e
<1>1. sent[c] \in Seq(EnvelopeType)
  BY DEF Carried
<1>2. PICK i \in DOMAIN sent[c] : sent[c][i] = d
  BY DEF ToSet
<1>3. PICK j \in DOMAIN sent[c] : sent[c][j] = e
  BY DEF ToSet
<1>4. d.sequence = i /\ e.sequence = j
  BY <1>2, <1>3 DEF Carried
<1> QED BY <1>1, <1>2, <1>3, <1>4

LEMMA NetworkInLine ==
  ASSUME Numbered, Carried, NEW b \in Connections,
         Connect(b) \/ HandshakeFails(b) \/ Close(b) \/ LoseDatagram(b),
         NEW c \in Connections, NEW l \in Streams, InLine(c, l)
  PROVE  InLine(c, l)'
<1>1. UNCHANGED <<sent, task, channel, received>>
  BY DEF Connect, HandshakeFails, Close, LoseDatagram
<1>2. flight \in [Connections -> SUBSET EnvelopeType] /\ l # Datagram
  BY DataPlaneAssumption DEF Numbered
<1>3. flight'[c] \subseteq flight[c]
  BY <1>2 DEF Connect, HandshakeFails, Close, LoseDatagram
<1>4. link \in [Connections -> {"none", "open", "closed"}]
      /\ (link[c] = "none" => ToSet(sent[c]) = {})
  BY DEF Carried, ToSet
<1>5. link'[c] = "open" =>
        \/ ToSet(sent[c]) = {}
        \/ link[c] = "open" /\ \A d \in flight[c] : d.lane = l => d \in flight'[c]
  BY <1>2, <1>4 DEF Connect, HandshakeFails, Close, LoseDatagram
<1>6. \A d : InTask(c, l, d)' <=> InTask(c, l, d)
  BY <1>1 DEF InTask
<1>7. \A d, i : InFront(c, l, i, d)' <=> InFront(c, l, i, d)
  BY <1>1 DEF InFront
<1>8. \A d : HandedOn(c, l, d)' <=> HandedOn(c, l, d)
  BY <1>1, <1>7 DEF HandedOn
<1>9. SentOn(c, l)' = SentOn(c, l) /\ \A d \in SentOn(c, l) : d \in ToSet(sent[c]) /\ d.lane = l
  BY <1>1 DEF SentOn
<1> QED BY <1>1, <1>3, <1>5, <1>6, <1>7, <1>8, <1>9 DEF InLine

LEMMA SendInLine ==
  ASSUME Numbered, Numbered', Carried, NEW b \in Connections, NEW m \in Lanes, SendFrame(b, m),
         NEW c \in Connections, NEW l \in Streams, InLine(c, l)
  PROVE  InLine(c, l)'
<1>1. UNCHANGED <<link, task, channel, received>>
  BY DEF SendFrame
<1>2. l \in Lanes
  BY DEF Lanes
<1>3. \A d : InTask(c, l, d)' <=> InTask(c, l, d)
  BY <1>1 DEF InTask
<1>4. \A d, i : InFront(c, l, i, d)' <=> InFront(c, l, i, d)
  BY <1>1 DEF InFront
<1>5. \A d : HandedOn(c, l, d)' <=> HandedOn(c, l, d)
  BY <1>1, <1>4 DEF HandedOn
<1>6. PICK e \in EnvelopeType :
        /\ ToSet(sent'[b]) = ToSet(sent[b]) \cup {e}
        /\ \A d \in ToSet(sent[b]) : d.sequence < e.sequence
        /\ flight'[b] = flight[b] \cup {e} /\ e.lane = m
  BY SendCarries
<1>7. b # c => sent'[c] = sent[c] /\ flight'[c] = flight[c]
  BY DEF SendFrame, Carried, Numbered
<1>8. CASE b # c \/ m # l
  <2>1. SentOn(c, l)' = SentOn(c, l)
        /\ \A d : d.lane = l => (d \in flight'[c] <=> d \in flight[c])
    BY <1>6, <1>7, <1>8 DEF SentOn
  <2>2. \A d \in SentOn(c, l) : d.lane = l
    BY DEF SentOn
  <2> QED BY <1>1, <1>3, <1>4, <1>5, <2>1, <2>2 DEF InLine
<1>9. CASE b = c /\ m = l
  <2>1. SentOn(c, l)' = SentOn(c, l) \cup {e} /\ flight'[c] = flight[c] \cup {e}
    BY <1>6, <1>9 DEF SentOn
  <2>2. Len(channel) \in Nat /\ channel \in Seq(ResultType)
        /\ received[c] \in Seq(EnvelopeType) /\ sent[c] \in Seq(EnvelopeType)
    BY DEF Carried
  <2>3. \A d \in ToSet(sent[c]) : d.sequence \in Nat /\ d.sequence < e.sequence
    BY <1>6, <1>9, NumberNames
  <2>4. e \notin ToSet(sent[c]) /\ e.sequence \in Nat
    BY <1>6, <2>3 DEF EnvelopeType
  <2>5. \A i \in DOMAIN received[c] :
          /\ received[c][i] \in ToSet(sent[c])
          /\ \A j \in 1 .. i - 1 : received[c][j] \in ToSet(sent[c])
    <3>1. \A i \in DOMAIN received[c] : 1 .. i - 1 \subseteq DOMAIN received[c]
      BY <2>2
    <3>2. \A i \in DOMAIN received[c] : received[c][i] \in ToSet(received[c])
      BY DEF ToSet
    <3> QED BY <3>1, <3>2 DEF Carried
  <2>6. \A i \in DOMAIN channel : i \in 1 .. Len(channel) + 1
    BY <2>2
  <2>7. \A i \in DOMAIN channel : FrameOf(channel[i], c, l) =>
          channel[i].envelope \in ToSet(sent[c])
    BY DEF Carried, FrameOf
  <2>8. \A i \in DOMAIN channel : ~InFront(c, l, i, e)
    BY <1>2, <2>4, <2>6, HandedIsSent
  <2>9. \A d : HandedOn(c, l, d) \/ InTask(c, l, d) => d \in ToSet(sent[c])
    <3>1. Len(channel) + 1 \in 1 .. Len(channel) + 1
      BY <2>2
    <3> QED BY <1>2, <3>1, HandedIsSent DEF HandedOn
  <2>10. \A r \in task[c][l] : r.envelope \in ToSet(sent[c])
    BY <1>2 DEF Carried
  <2>11. \A f \in flight[c] : f \in ToSet(sent[c])
    BY DEF Carried
  <2>12. ASSUME NEW i \in DOMAIN received[c], received[c][i].lane = l, NEW d \in SentOn(c, l)'
         PROVE  d.sequence < received[c][i].sequence <=> \E j \in 1 .. i - 1 : received[c][j] = d
    <3>1. CASE d = e
      BY <2>3, <2>4, <2>5, <3>1
    <3>2. CASE d # e
      BY <2>1, <2>12, <3>2 DEF InLine
    <3> QED BY <3>1, <3>2
  <2>13. ASSUME NEW i \in DOMAIN channel, FrameOf(channel[i], c, l), NEW d \in SentOn(c, l)'
         PROVE  d.sequence < channel[i].envelope.sequence <=> InFront(c, l, i, d)
    <3>1. CASE d = e
      BY <2>3, <2>4, <2>7, <2>8, <2>13, <3>1
    <3>2. CASE d # e
      BY <2>1, <2>13, <3>2 DEF InLine
    <3> QED BY <3>1, <3>2
  <2>14. ASSUME NEW r \in task[c][l], NEW d \in SentOn(c, l)'
         PROVE  d.sequence < r.envelope.sequence <=> HandedOn(c, l, d)
    <3>1. CASE d = e
      BY <2>3, <2>4, <2>9, <2>10, <3>1
    <3>2. CASE d # e
      BY <2>1, <2>14, <3>2 DEF InLine
    <3> QED BY <3>1, <3>2
  <2>15. ASSUME NEW f \in flight'[c], f.lane = l, NEW d \in SentOn(c, l)',
                HandedOn(c, l, d) \/ InTask(c, l, d)
         PROVE  d.sequence < f.sequence
    <3>1. d \in ToSet(sent[c]) /\ d \in SentOn(c, l)
      BY <2>1, <2>4, <2>9, <2>15
    <3>2. CASE f = e
      BY <2>3, <3>1, <3>2
    <3>3. CASE f # e
      BY <2>1, <2>15, <3>1, <3>3 DEF InLine
    <3> QED BY <3>2, <3>3
  <2>16. ASSUME link[c] = "open", NEW d \in SentOn(c, l)'
         PROVE  HandedOn(c, l, d) \/ InTask(c, l, d) \/ d \in flight'[c]
    BY <2>1, <2>16 DEF InLine
  <2> QED BY <1>1, <1>3, <1>4, <1>5, <2>12, <2>13, <2>14, <2>15, <2>16 DEF InLine
<1> QED BY <1>8, <1>9

LEMMA OpenInLine ==
  ASSUME Numbered, Carried, NEW b \in Connections, NEW m \in Lanes, OpenFrame(b, m),
         NEW c \in Connections, NEW l \in Streams, InLine(c, l)
  PROVE  InLine(c, l)'
<1>1. UNCHANGED <<link, sealer, sent, channel, receiving, received>> /\ task[b][m] = NoResult
  BY DEF OpenFrame
<1>2. PICK e \in Deliverable(b, m) :
        /\ flight' = [flight EXCEPT ![b] = @ \ {e}]
        /\ e \in ToSet(sent[b]) /\ e.lane = m
        /\ task'[b][m] # {} /\ \A r \in task'[b][m] : r.envelope = e
        /\ \A k \in Lanes : k # m => task'[b][k] = task[b][k]
        /\ \A a \in Connections : a # b => task'[a] = task[a]
  BY OpenCarries
<1>4. l \in Lanes /\ flight \in [Connections -> SUBSET EnvelopeType]
  BY DEF Lanes, Numbered
<1>5. \A d, i : InFront(c, l, i, d)' <=> InFront(c, l, i, d)
  BY <1>1 DEF InFront
<1>6. \A d : HandedOn(c, l, d)' <=> HandedOn(c, l, d)
  BY <1>1, <1>5 DEF HandedOn
<1>7. SentOn(c, l)' = SentOn(c, l) /\ \A d \in SentOn(c, l) : d \in ToSet(sent[c]) /\ d.lane = l
  BY <1>1 DEF SentOn
<1>8. CASE b # c \/ m # l
  <2>1. task'[c][l] = task[c][l]
    BY <1>2, <1>4, <1>8
  <2>2. \A d : d.lane = l => (d \in flight'[c] <=> d \in flight[c])
    BY <1>2, <1>4, <1>8
  <2>3. \A d : InTask(c, l, d)' <=> InTask(c, l, d)
    BY <2>1 DEF InTask
  <2> QED BY <1>1, <1>5, <1>6, <1>7, <2>1, <2>2, <2>3 DEF InLine
<1>9. CASE b = c /\ m = l
  <2>1. /\ e \in flight[c] /\ e.lane = l /\ flight'[c] = flight[c] \ {e}
        /\ \A d \in flight[c] : d.lane = l => e.sequence <= d.sequence
    BY <1>2, <1>4, <1>9 DEF Deliverable
  <2>2. task[c][l] = {}
    BY <1>1, <1>9 DEF NoResult
  <2>3. \A d : InTask(c, l, d)' <=> d = e
    BY <1>2, <1>9 DEF InTask
  <2>4. \A d : ~InTask(c, l, d)
    BY <2>2 DEF InTask
  <2>5. \A d \in ToSet(sent[c]) : d.sequence \in Nat /\ (d.sequence = e.sequence => d = e)
    BY <1>2, <1>9, NumberNames
  <2>6. e.sequence \in Nat /\ flight[c] \subseteq ToSet(sent[c]) /\ link[c] = "open"
    BY <1>2, <1>9, <2>1, <2>5 DEF Carried
  <2>7. ASSUME NEW r \in task'[c][l], NEW d \in SentOn(c, l)
        PROVE  d.sequence < r.envelope.sequence <=> HandedOn(c, l, d)
    <3>1. r.envelope = e
      BY <1>2, <1>9
    <3>2. HandedOn(c, l, d) => d.sequence < e.sequence
      BY <2>1 DEF InLine
    <3>3. HandedOn(c, l, d) \/ d \in flight[c]
      BY <2>4, <2>6 DEF InLine
    <3>4. d \in flight[c] => ~(d.sequence < e.sequence)
      BY <1>7, <2>1, <2>5, <2>6
    <3> QED BY <3>1, <3>2, <3>3, <3>4
  <2>8. ASSUME NEW f \in flight'[c], f.lane = l, NEW d \in SentOn(c, l),
               HandedOn(c, l, d) \/ d = e
        PROVE  d.sequence < f.sequence
    <3>1. CASE HandedOn(c, l, d)
      BY <2>1, <2>8, <3>1 DEF InLine
    <3>2. CASE d = e
      BY <2>1, <2>5, <2>6, <2>8, <3>2
    <3> QED BY <2>8, <3>1, <3>2
  <2>9. \A d \in SentOn(c, l) : HandedOn(c, l, d) \/ d = e \/ d \in flight'[c]
    BY <2>1, <2>4, <2>6 DEF InLine
  <2> QED BY <1>1, <1>5, <1>6, <1>7, <2>3, <2>7, <2>8, <2>9 DEF InLine
<1> QED BY <1>8, <1>9

(* A result put behind the others leaves what is in front of them alone.   *)
LEMMA PutBehind ==
  ASSUME Carried, NEW r \in ResultType, channel' = Append(channel, r), received' = received,
         NEW c \in Connections, NEW l \in Lanes, NEW d
  PROVE  /\ Len(channel') = Len(channel) + 1 /\ channel'[Len(channel) + 1] = r
         /\ DOMAIN channel = 1 .. Len(channel) /\ Len(channel) \in Nat
         /\ DOMAIN channel' = 1 .. Len(channel) + 1
         /\ \A i \in 1 .. Len(channel) : channel'[i] = channel[i]
         /\ \A i \in 1 .. Len(channel) + 1 : InFront(c, l, i, d)' <=> InFront(c, l, i, d)
         /\ HandedOn(c, l, d)' <=> HandedOn(c, l, d) \/ (FrameOf(r, c, l) /\ r.envelope = d)
<1>1. channel \in Seq(ResultType)
  BY DEF Carried
<1>2. /\ Len(channel') = Len(channel) + 1 /\ channel'[Len(channel) + 1] = r
      /\ DOMAIN channel = 1 .. Len(channel) /\ Len(channel) \in Nat
      /\ DOMAIN channel' = 1 .. Len(channel) + 1
      /\ \A i \in 1 .. Len(channel) : channel'[i] = channel[i]
  BY <1>1, Appended
<1>3. ASSUME NEW i \in 1 .. Len(channel) + 1
      PROVE  InFront(c, l, i, d)' <=> InFront(c, l, i, d)
  <2>1. \A j \in 1 .. i - 1 : channel'[j] = channel[j]
    BY <1>2
  <2> QED BY <2>1 DEF InFront
<1>4. HandedOn(c, l, d)' <=> HandedOn(c, l, d) \/ (FrameOf(r, c, l) /\ r.envelope = d)
  <2>1. \A j : j \in 1 .. Len(channel') + 1 - 1
                 <=> j \in 1 .. Len(channel) + 1 - 1 \/ j = Len(channel) + 1
    BY <1>2
  <2>2. \A j \in 1 .. Len(channel) + 1 - 1 : channel'[j] = channel[j]
    BY <1>2
  <2> QED BY <1>2, <2>1, <2>2 DEF HandedOn, InFront
<1> QED BY <1>2, <1>3, <1>4

(* A task puts its result. *)
LEMMA PutResultCarries ==
  ASSUME Carried, NEW b \in Connections, NEW m \in Lanes, PutResult(b, m)
  PROVE  /\ Carried'
         /\ \E r \in ResultType :
              /\ channel' = Append(channel, r) /\ task[b][m] = {r} /\ r.connection = b
              /\ r.envelope # NoEnvelope /\ r.envelope.lane = m
<1>1. PICK r \in task[b][m] : channel' = Append(channel, r)
  BY DEF PutResult
<1>2. /\ task' = [task EXCEPT ![b][m] = {}]
      /\ UNCHANGED <<link, sealer, sent, flight, receiving, received>>
  BY DEF PutResult, NoResult, netVars
<1>3. task \in [Connections -> [Lanes -> SUBSET ResultType]]
  BY DEF Carried
<1>4. /\ task' \in [Connections -> [Lanes -> SUBSET ResultType]]
      /\ task'[b][m] = {}
      /\ \A a \in Connections, k \in Lanes : a # b \/ k # m => task'[a][k] = task[a][k]
  BY <1>2, <1>3
<1>5. r \in ResultType /\ r.connection = b /\ r.envelope \in ToSet(sent[b])
      /\ r.envelope.lane = m /\ task[b][m] = {r}
  BY <1>3 DEF Carried
<1>6. r.envelope # NoEnvelope
  <2>1. sent[b] \in Seq(EnvelopeType)
    BY DEF Carried
  <2>2. r.envelope \in EnvelopeType
    BY <1>5, <2>1 DEF ToSet
  <2> QED BY <2>2, DataPlaneAssumption DEF EnvelopeType
<1>7. \A a \in Connections, k \in Lanes : task'[a][k] \in {{}, task[a][k]}
  BY <1>4
<1>8. Carried'
  BY <1>1, <1>2, <1>4, <1>5, <1>6, <1>7, PutCarries
<1> QED BY <1>1, <1>5, <1>6, <1>8

LEMMA PutInLine ==
  ASSUME Numbered, Carried, NEW b \in Connections, NEW m \in Lanes, PutResult(b, m),
         NEW c \in Connections, NEW l \in Streams, InLine(c, l)
  PROVE  InLine(c, l)'
<1>1. PICK r \in ResultType :
        /\ channel' = Append(channel, r) /\ task[b][m] = {r} /\ r.connection = b
        /\ r.envelope # NoEnvelope /\ r.envelope.lane = m
  BY PutResultCarries
<1>2. /\ task' = [task EXCEPT ![b][m] = {}]
      /\ UNCHANGED <<link, sealer, sent, flight, receiving, received>>
  BY DEF PutResult, NoResult, netVars
<1>3. task \in [Connections -> [Lanes -> SUBSET ResultType]] /\ l \in Lanes
  BY DEF Carried, Lanes
<1>4. /\ task'[b][m] = {}
      /\ \A a \in Connections, k \in Lanes : a # b \/ k # m => task'[a][k] = task[a][k]
  BY <1>2, <1>3
<1>9. FrameOf(r, c, l) <=> b = c /\ m = l
  BY <1>1 DEF FrameOf
<1>10. /\ Len(channel') = Len(channel) + 1 /\ channel'[Len(channel) + 1] = r
       /\ DOMAIN channel = 1 .. Len(channel) /\ Len(channel) \in Nat
       /\ DOMAIN channel' = 1 .. Len(channel) + 1
       /\ \A i \in 1 .. Len(channel) : channel'[i] = channel[i]
       /\ \A d : \A i \in 1 .. Len(channel) + 1 : InFront(c, l, i, d)' <=> InFront(c, l, i, d)
       /\ \A d : HandedOn(c, l, d)' <=> HandedOn(c, l, d) \/ (FrameOf(r, c, l) /\ r.envelope = d)
  BY <1>1, <1>2, <1>3, PutBehind, ZenonT(60)
<1>11. SentOn(c, l)' = SentOn(c, l)
  BY <1>2 DEF SentOn
<1>12. \A i \in DOMAIN channel' :
         \/ i \in DOMAIN channel /\ channel'[i] = channel[i] /\ i \in 1 .. Len(channel) + 1
         \/ i = Len(channel) + 1 /\ channel'[i] = r /\ i \in 1 .. Len(channel) + 1
  BY <1>10
<1>13. FrameOf(r, c, l) => \A d : InTask(c, l, d) <=> r.envelope = d
  BY <1>1, <1>9 DEF InTask
<1>14. FrameOf(r, c, l) => \A d : ~InTask(c, l, d)'
  BY <1>4, <1>9 DEF InTask
<1>15. ~FrameOf(r, c, l) => task'[c][l] = task[c][l] /\ \A d : InTask(c, l, d)' <=> InTask(c, l, d)
  BY <1>3, <1>4, <1>9 DEF InTask
<1>16. \A d : HandedOn(c, l, d)' \/ InTask(c, l, d)' <=> HandedOn(c, l, d) \/ InTask(c, l, d)
  BY <1>10, <1>13, <1>14, <1>15
<1>17. ASSUME NEW i \in DOMAIN channel', FrameOf(channel'[i], c, l), NEW d \in SentOn(c, l)
       PROVE  d.sequence < channel'[i].envelope.sequence <=> InFront(c, l, i, d)'
  <2>1. CASE i \in DOMAIN channel /\ channel'[i] = channel[i] /\ i \in 1 .. Len(channel) + 1
    BY <1>10, <1>17, <2>1 DEF InLine
  <2>2. CASE i = Len(channel) + 1 /\ channel'[i] = r /\ i \in 1 .. Len(channel) + 1
    <3>1. r \in task[c][l]
      BY <1>1, <1>9, <1>17, <2>2
    <3>2. d.sequence < r.envelope.sequence <=> HandedOn(c, l, d)
      BY <3>1 DEF InLine
    <3> QED BY <1>10, <2>2, <3>2 DEF HandedOn
  <2> QED BY <1>12, <2>1, <2>2
<1>18. ASSUME NEW q \in task'[c][l], NEW d \in SentOn(c, l)
       PROVE  d.sequence < q.envelope.sequence <=> HandedOn(c, l, d)'
  <2>1. ~FrameOf(r, c, l) /\ q \in task[c][l]
    BY <1>4, <1>9, <1>15
  <2> QED BY <1>10, <2>1 DEF InLine
<1>19. ASSUME NEW f \in flight[c], f.lane = l, NEW d \in SentOn(c, l),
              HandedOn(c, l, d)' \/ InTask(c, l, d)'
       PROVE  d.sequence < f.sequence
  BY <1>16, <1>19 DEF InLine
<1>20. link[c] = "open" =>
         \A d \in SentOn(c, l) : HandedOn(c, l, d)' \/ InTask(c, l, d)' \/ d \in flight[c]
  BY <1>16 DEF InLine
<1>21. \A i \in DOMAIN received[c] : received[c][i].lane = l =>
         \A d \in SentOn(c, l) :
           d.sequence < received[c][i].sequence <=> \E j \in 1 .. i - 1 : received[c][j] = d
  BY DEF InLine
<1> QED BY <1>2, <1>11, <1>17, <1>18, <1>19, <1>20, <1>21 DEF InLine

(* The end of a connection is reported behind its frames. *)
LEMMA ReportCarries ==
  ASSUME Carried, NEW b \in Connections, ReportEnd(b)
  PROVE  /\ Carried'
         /\ \E r \in ResultType : channel' = Append(channel, r) /\ r.envelope = NoEnvelope
<1> DEFINE r == Result(b, NoEnvelope, FALSE)
<1>1. /\ channel' = Append(channel, r)
      /\ UNCHANGED <<link, sealer, sent, flight, task, receiving, received>>
  BY DEF ReportEnd
<1>2. r \in ResultType /\ r.envelope = NoEnvelope /\ ~r.ok
  BY DEF Result, ResultType
<1> HIDE DEF r
<1>3. task \in [Connections -> [Lanes -> SUBSET ResultType]]
  BY DEF Carried
<1>4. \A a \in Connections, k \in Lanes : task'[a][k] \in {{}, task[a][k]}
  BY <1>1
<1>5. Carried'
  BY <1>1, <1>2, <1>3, <1>4, PutCarries
<1> QED BY <1>1, <1>2, <1>5

LEMMA ReportInLine ==
  ASSUME Numbered, Carried, NEW b \in Connections, ReportEnd(b),
         NEW c \in Connections, NEW l \in Streams, InLine(c, l)
  PROVE  InLine(c, l)'
<1>1. PICK r \in ResultType : channel' = Append(channel, r) /\ r.envelope = NoEnvelope
  BY ReportCarries
<1>2. UNCHANGED <<link, sent, flight, task, received>>
  BY DEF ReportEnd
<1>3. l \in Lanes
  BY DEF Lanes
<1>4. ~FrameOf(r, c, l)
  BY <1>1 DEF FrameOf
<1>5. /\ channel'[Len(channel) + 1] = r
      /\ DOMAIN channel = 1 .. Len(channel) /\ Len(channel) \in Nat
      /\ DOMAIN channel' = 1 .. Len(channel) + 1
      /\ \A i \in 1 .. Len(channel) : channel'[i] = channel[i]
      /\ \A d : \A i \in 1 .. Len(channel) + 1 : InFront(c, l, i, d)' <=> InFront(c, l, i, d)
      /\ \A d : HandedOn(c, l, d)' <=> HandedOn(c, l, d)
  BY <1>1, <1>2, <1>3, <1>4, PutBehind
<1>6. SentOn(c, l)' = SentOn(c, l) /\ \A d : InTask(c, l, d)' <=> InTask(c, l, d)
  BY <1>2 DEF SentOn, InTask
<1>7. \A i \in DOMAIN channel' : FrameOf(channel'[i], c, l) =>
        i \in DOMAIN channel /\ channel'[i] = channel[i] /\ i \in 1 .. Len(channel) + 1
  BY <1>4, <1>5
<1> QED BY <1>2, <1>5, <1>6, <1>7 DEF InLine

(* recv_frame returns the frame at the head of the channel. *)
LEMMA ReceiveInLine ==
  ASSUME Numbered, Carried, ReceiveFrame, NEW c \in Connections, NEW l \in Streams, InLine(c, l)
  PROVE  InLine(c, l)'
<1> DEFINE r == Head(channel)
           x == r.envelope
<1>1. /\ channel # <<>> /\ channel' = Tail(channel)
      /\ UNCHANGED <<link, sealer, sent, flight, task, receiving>>
  BY DEF ReceiveFrame, netVars
<1>2. /\ r \in ResultType /\ x # NoEnvelope /\ x \in EnvelopeType
      /\ received' = [received EXCEPT ![r.connection] = Append(received[r.connection], x)]
  BY ReceiveCarries
<1>3. channel \in Seq(ResultType) /\ received \in [Connections -> Seq(EnvelopeType)]
  BY DEF Carried
<1>4. /\ r = channel[1] /\ Len(channel) \in Nat \ {0} /\ DOMAIN channel = 1 .. Len(channel)
      /\ Len(channel') = Len(channel) - 1 /\ DOMAIN channel' = 1 .. Len(channel) - 1
      /\ \A i \in 1 .. Len(channel) - 1 : channel'[i] = channel[i + 1]
  BY <1>1, <1>3, Taken
<1> HIDE DEF r
<1>5. r.connection \in Connections
  BY <1>2 DEF ResultType
<1>6. received[c] \in Seq(EnvelopeType)
  BY <1>3
<1>7. ASSUME r.connection = c
      PROVE  /\ received'[c] = Append(received[c], x)
             /\ Len(received[c]) \in Nat /\ DOMAIN received[c] = 1 .. Len(received[c])
             /\ DOMAIN received'[c] = 1 .. Len(received[c]) + 1
             /\ \A i \in 1 .. Len(received[c]) : received'[c][i] = received[c][i]
             /\ received'[c][Len(received[c]) + 1] = x
             /\ ToSet(received'[c]) = ToSet(received[c]) \cup {x}
  <2>1. received'[c] = Append(received[c], x)
    BY <1>2, <1>3, <1>7
  <2> QED BY <1>2, <1>6, <2>1, Appended
<1>8. r.connection # c => received'[c] = received[c]
  BY <1>2, <1>3, <1>5
<1>9. FrameOf(channel[1], c, l) <=> r.connection = c /\ x.lane = l
  BY <1>2, <1>4 DEF FrameOf
<1>10. ASSUME NEW d, d.lane = l
       PROVE  d \in ToSet(received'[c]) <=>
                d \in ToSet(received[c]) \/ (FrameOf(channel[1], c, l) /\ channel[1].envelope = d)
  BY <1>4, <1>7, <1>8, <1>9, <1>10
<1>11. ASSUME NEW i \in DOMAIN received'[c], received'[c][i].lane = l, NEW d \in SentOn(c, l)
       PROVE  d.sequence < received'[c][i].sequence <=> \E j \in 1 .. i - 1 : received'[c][j] = d
  <2>1. CASE r.connection # c
    BY <1>8, <1>11, <2>1 DEF InLine
  <2>2. CASE r.connection = c /\ i \in DOMAIN received[c]
    <3>1. received'[c][i] = received[c][i]
          /\ \A j \in 1 .. i - 1 : received'[c][j] = received[c][j]
      BY <1>7, <2>2
    <3> QED BY <1>11, <2>2, <3>1 DEF InLine
  <2>3. CASE r.connection = c /\ i = Len(received[c]) + 1
    <3>1. FrameOf(channel[1], c, l) /\ channel[1].envelope = x /\ 1 \in DOMAIN channel
          /\ received'[c][i] = x
      BY <1>4, <1>7, <1>9, <1>11, <2>3
    <3>2. d.sequence < x.sequence <=> InFront(c, l, 1, d)
      BY <3>1 DEF InLine
    <3>3. InFront(c, l, 1, d) <=> d \in ToSet(received[c])
      BY DEF InFront
    <3>4. d \in ToSet(received[c]) <=> \E j \in 1 .. i - 1 : received'[c][j] = d
      <4>1. 1 .. i - 1 = DOMAIN received[c]
        BY <1>7, <2>3
      <4> QED BY <1>7, <2>3, <4>1 DEF ToSet
    <3> QED BY <3>1, <3>2, <3>3, <3>4
  <2> QED BY <1>7, <2>1, <2>2, <2>3
<1>12. ASSUME NEW i \in 1 .. Len(channel), NEW d, d.lane = l
       PROVE  InFront(c, l, i, d)' <=> InFront(c, l, i + 1, d)
  <2>1. InFront(c, l, i + 1, d) <=>
          \/ d \in ToSet(received[c])
          \/ \E j \in 1 .. i : FrameOf(channel[j], c, l) /\ channel[j].envelope = d
    BY <1>4 DEF InFront
  <2>2. InFront(c, l, i, d)' <=>
          \/ d \in ToSet(received'[c])
          \/ \E j \in 1 .. i - 1 : FrameOf(channel[j + 1], c, l) /\ channel[j + 1].envelope = d
    <3>1. \A j \in 1 .. i - 1 : channel'[j] = channel[j + 1]
      BY <1>4
    <3> QED BY <3>1 DEF InFront
  <2>3. \A j : j \in 1 .. i <=> j = 1 \/ \E k \in 1 .. i - 1 : j = k + 1
    <3>1. i \in Nat \ {0}
      BY <1>4
    <3>2. ASSUME NEW j \in 1 .. i, j # 1 PROVE \E k \in 1 .. i - 1 : j = k + 1
      <4>1. j - 1 \in 1 .. i - 1 /\ j = (j - 1) + 1
        BY <3>1, <3>2
      <4> QED BY <4>1
    <3>3. \A k \in 1 .. i - 1 : k + 1 \in 1 .. i
      BY <3>1
    <3>4. 1 \in 1 .. i
      BY <3>1
    <3> QED BY <3>2, <3>3, <3>4
  <2> QED BY <1>10, <1>12, <2>1, <2>2, <2>3
<1>13. \A d \in SentOn(c, l) : d.lane = l
  BY DEF SentOn
<1>14. \A d \in SentOn(c, l) : HandedOn(c, l, d)' <=> HandedOn(c, l, d)
  <2>1. Len(channel) \in 1 .. Len(channel) /\ Len(channel') + 1 = Len(channel)
    BY <1>4
  <2> QED BY <1>12, <1>13, <2>1 DEF HandedOn
<1>15. ASSUME NEW i \in DOMAIN channel', FrameOf(channel'[i], c, l), NEW d \in SentOn(c, l)
       PROVE  d.sequence < channel'[i].envelope.sequence <=> InFront(c, l, i, d)'
  <2>1. channel'[i] = channel[i + 1] /\ i + 1 \in DOMAIN channel /\ i \in 1 .. Len(channel)
    BY <1>4
  <2>2. d.sequence < channel[i + 1].envelope.sequence <=> InFront(c, l, i + 1, d)
    BY <1>15, <2>1 DEF InLine
  <2> QED BY <1>12, <1>13, <2>1, <2>2
<1>16. SentOn(c, l)' = SentOn(c, l) /\ \A d : InTask(c, l, d)' <=> InTask(c, l, d)
  BY <1>1 DEF SentOn, InTask
<1> QED BY <1>1, <1>11, <1>14, <1>15, <1>16 DEF InLine

(* The first error ends the loop and empties the endpoint. *)
LEMMA ErrorInLine ==
  ASSUME ReceiveError, NEW c \in Connections, NEW l \in Streams, InLine(c, l)
  PROVE  InLine(c, l)'
<1>1. /\ channel' = <<>>
      /\ link' = [b \in Connections |-> IF link[b] = "open" THEN "closed" ELSE link[b]]
      /\ flight' = [b \in Connections |-> {}]
      /\ task' = [b \in Connections |-> [k \in Lanes |-> {}]]
      /\ UNCHANGED <<sent, received>>
  BY DEF ReceiveError, NoResult
<1>2. /\ DOMAIN channel' = {} /\ task'[c][l] = {} /\ flight'[c] = {}
      /\ link'[c] # "open" /\ SentOn(c, l)' = SentOn(c, l)
  BY <1>1 DEF Lanes, SentOn
<1>3. \A i \in DOMAIN received'[c] : received'[c][i].lane = l =>
        \A d \in SentOn(c, l)' :
          d.sequence < received'[c][i].sequence <=> \E j \in 1 .. i - 1 : received'[c][j] = d
  <2>1. \A i \in DOMAIN received[c] : received[c][i].lane = l =>
          \A d \in SentOn(c, l) :
            d.sequence < received[c][i].sequence <=> \E j \in 1 .. i - 1 : received[c][j] = d
    BY ONLY InLine(c, l) DEF InLine
  <2>2. received' = received /\ SentOn(c, l)' = SentOn(c, l)
    BY ONLY <1>1, <1>2
  <2> QED BY ONLY <2>1, <2>2
<1>4. /\ \A i \in DOMAIN channel' : FALSE
      /\ \A r \in task'[c][l] : FALSE
      /\ \A e \in flight'[c] : FALSE
      /\ link'[c] # "open"
  BY ONLY <1>2
<1> QED BY ONLY <1>3, <1>4 DEF InLine

LEMMA InitInLine == Init => AllInLine
<1> SUFFICES ASSUME Init, NEW c \in Connections, NEW l \in Streams PROVE InLine(c, l)
  BY DEF AllInLine
<1>1. l \in Lanes
  BY DEF Lanes
<1>2. /\ DOMAIN received[c] = {} /\ DOMAIN channel = {} /\ task[c][l] = {} /\ flight[c] = {}
      /\ link[c] # "open"
  BY <1>1 DEF Init, NoResult
<1> QED BY <1>2 DEF InLine

LEMMA StaysInLine ==
  ASSUME Numbered, Numbered', Carried, AllInLine, [Next]_vars
  PROVE  Carried' /\ AllInLine'
<1>1. CASE UNCHANGED vars
  <2>1. UNCHANGED <<link, sealer, sent, flight, task, channel, receiving, received>>
    BY <1>1 DEF vars, netVars
  <2>2. Carried'
    BY <2>1 DEF Carried
  <2>3. ASSUME NEW c \in Connections, NEW l \in Streams PROVE InLine(c, l)'
    <3>1. /\ SentOn(c, l)' = SentOn(c, l)
          /\ \A d : InTask(c, l, d)' <=> InTask(c, l, d)
          /\ \A d, i : InFront(c, l, i, d)' <=> InFront(c, l, i, d)
      BY <2>1 DEF SentOn, InTask, InFront
    <3>2. \A d : HandedOn(c, l, d)' <=> HandedOn(c, l, d)
      BY <2>1, <3>1 DEF HandedOn
    <3> QED BY <2>1, <3>1, <3>2 DEF InLine, AllInLine
  <2> QED BY <2>2, <2>3 DEF AllInLine
<1>2. ASSUME NEW b \in Connections,
             Connect(b) \/ HandshakeFails(b) \/ Close(b) \/ LoseDatagram(b)
      PROVE  Carried' /\ AllInLine'
  BY <1>2, NetworkCarries, NetworkInLine DEF AllInLine
<1>3. ASSUME NEW b \in Connections, NEW m \in Lanes, SendFrame(b, m)
      PROVE  Carried' /\ AllInLine'
  BY <1>3, SendCarries, SendInLine DEF AllInLine
<1>4. ASSUME NEW b \in Connections, NEW m \in Lanes, OpenFrame(b, m)
      PROVE  Carried' /\ AllInLine'
  BY <1>4, OpenCarries, OpenInLine DEF AllInLine
<1>5. ASSUME NEW b \in Connections, NEW m \in Lanes, PutResult(b, m)
      PROVE  Carried' /\ AllInLine'
  BY <1>5, PutResultCarries, PutInLine DEF AllInLine
<1>6. ASSUME NEW b \in Connections, ReportEnd(b)
      PROVE  Carried' /\ AllInLine'
  BY <1>6, ReportCarries, ReportInLine DEF AllInLine
<1>7. CASE ReceiveFrame
  BY <1>7, ReceiveCarries, ReceiveInLine DEF AllInLine
<1>8. CASE ReceiveError
  BY <1>8, ErrorCarries, ErrorInLine DEF AllInLine
<1> QED BY <1>1, <1>2, <1>3, <1>4, <1>5, <1>6, <1>7, <1>8 DEF Next, Endpoint, Receive

LEMMA LinesKept == Spec => [](Carried /\ AllInLine)
<1>1. Init => Carried /\ AllInLine
  BY InitCarried, InitInLine
<1>2. Numbered /\ Numbered' /\ (Carried /\ AllInLine) /\ [Next]_vars => (Carried /\ AllInLine)'
  BY StaysInLine
<1> QED BY <1>1, <1>2, NumberedInductive, PTL DEF Spec

(* What recv_frame returns of a stream is a prefix of what was sent on it, *)
(* for every number of tasks, capacity of the channel and rotation.        *)
THEOREM StreamsArePrefixes == Spec => []StreamPrefix
<1>1. Carried /\ AllInLine => StreamPrefix
  <2> SUFFICES ASSUME Carried, AllInLine, NEW c \in Connections, NEW i \in DOMAIN received[c],
                      received[c][i].lane \in Streams
               PROVE  /\ received[c][i] \in ToSet(sent[c])
                      /\ \A d \in ToSet(sent[c]) : d.lane = received[c][i].lane =>
                           (d.sequence < received[c][i].sequence
                              <=> \E j \in 1 .. i - 1 : received[c][j] = d)
    BY DEF StreamPrefix
  <2>1. received[c][i] \in ToSet(sent[c])
    <3>1. received[c][i] \in ToSet(received[c])
      BY DEF ToSet
    <3> QED BY <3>1 DEF Carried
  <2>2. InLine(c, received[c][i].lane)
    BY DEF AllInLine
  <2> QED BY <2>1, <2>2 DEF InLine, SentOn
<1> QED BY <1>1, LinesKept, PTL

(* No stream frame of an open connection is lost inside the endpoint, in   *)
(* the window between opening it and handing it on or at a full channel.   *)
THEOREM StreamsAreConserved == Spec => []StreamConserved
<1>1. Carried /\ AllInLine => StreamConserved
  <2> SUFFICES ASSUME Carried, AllInLine, NEW c \in Connections, link[c] = "open",
                      NEW e \in ToSet(sent[c]), e.lane \in Streams
               PROVE  \/ e \in ToSet(received[c]) \cup flight[c]
                      \/ \E r \in Results : r.connection = c /\ r.envelope = e
    BY DEF StreamConserved
  <2> DEFINE l == e.lane
  <2>1. InLine(c, l) /\ e \in SentOn(c, l) /\ l \in Lanes
    BY DEF AllInLine, SentOn, Lanes
  <2>2. HandedOn(c, l, e) \/ InTask(c, l, e) \/ e \in flight[c]
    BY <2>1 DEF InLine
  <2>3. ASSUME InTask(c, l, e)
        PROVE  \E r \in Results : r.connection = c /\ r.envelope = e
    <3>1. PICK r \in task[c][l] : r.envelope = e
      BY <2>3 DEF InTask
    <3> QED BY <2>1, <3>1 DEF Results, Carried
  <2>4. ASSUME HandedOn(c, l, e), e \notin ToSet(received[c])
        PROVE  \E r \in Results : r.connection = c /\ r.envelope = e
    <3>1. PICK j \in 1 .. Len(channel) + 1 - 1 :
            FrameOf(channel[j], c, l) /\ channel[j].envelope = e
      BY <2>4 DEF HandedOn, InFront
    <3>2. channel \in Seq(ResultType)
      BY DEF Carried
    <3>3. j \in DOMAIN channel
      BY <3>2
    <3> QED BY <3>1, <3>3 DEF Results, ToSet, FrameOf
  <2> QED BY <2>2, <2>3, <2>4
<1> QED BY <1>1, LinesKept, PTL

-----------------------------------------------------------------------------
(* Refusals.  What an opener has accepted was sealed at that place of the  *)
(* connection, in that epoch, and is no longer under way.                  *)
OpenedWereSent ==
  \A c \in Connections, p \in Nat : \A t \in accepted[<<c, p>>] :
    t \in DOMAIN sent[c] /\ sent[c][t].epoch = p /\ sent[c][t] \notin flight[c]

(* A refused result is of a connection and has an envelope.                *)
LEMMA RefusedTypes ==
  ASSUME Carried
  PROVE  \A r \in Refused : r.connection \in Connections /\ r.envelope \in EnvelopeType
<1>1. \A r \in Results : r \in ResultType
  <2>1. channel \in Seq(ResultType) /\ task \in [Connections -> [Lanes -> SUBSET ResultType]]
    BY DEF Carried
  <2> QED BY <2>1 DEF Results, ToSet
<1> QED BY <1>1 DEF Refused, ResultType

(* Histories that only grow excuse what they excused before.               *)
LEMMA StillLate ==
  ASSUME Carried, OpenedWereSent, RefusedIsLate,
         \A c \in Connections, p \in Nat : accepted[<<c, p>>] \subseteq accepted'[<<c, p>>],
         \A c \in Connections : \A i \in DOMAIN sent[c] : sent'[c][i] = sent[c][i],
         NEW r \in Refused
  PROVE  \E t \in accepted'[<<r.connection, r.envelope.epoch>>] :
           /\ t - r.envelope.sequence >= ReplayWindow
           /\ sent'[r.connection][t].epoch = r.envelope.epoch
<1>1. PICK t \in accepted[<<r.connection, r.envelope.epoch>>] :
        /\ t - r.envelope.sequence >= ReplayWindow
        /\ sent[r.connection][t].epoch = r.envelope.epoch
  BY DEF RefusedIsLate
<1>2. r.connection \in Connections /\ r.envelope.epoch \in Nat
  BY RefusedTypes DEF EnvelopeType
<1>3. t \in DOMAIN sent[r.connection] /\ t \in accepted'[<<r.connection, r.envelope.epoch>>]
  BY <1>1, <1>2 DEF OpenedWereSent
<1> QED BY <1>1, <1>2, <1>3

(* No step but the opening of an envelope refuses anything.                *)
LEMMA NothingNewRefused ==
  ASSUME Carried, [Next]_vars, ~\E c \in Connections, l \in Lanes : OpenFrame(c, l)
  PROVE  Refused' \subseteq Refused
<1>1. /\ channel \in Seq(ResultType) /\ task \in [Connections -> [Lanes -> SUBSET ResultType]]
      /\ DOMAIN channel = 1 .. Len(channel)
  BY DEF Carried
<1>2. ASSUME UNCHANGED <<channel, task>> PROVE Refused' \subseteq Refused
  BY <1>2 DEF Refused, Results
<1>3. ASSUME NEW b \in Connections, NEW m \in Lanes, PutResult(b, m)
      PROVE  Refused' \subseteq Refused
  <2>1. PICK r \in task[b][m] : channel' = Append(channel, r)
    BY <1>3 DEF PutResult
  <2>2. \A a \in Connections, k \in Lanes : task'[a][k] \subseteq task[a][k]
    BY <1>1, <1>3 DEF PutResult, NoResult
  <2>3. ToSet(channel') = ToSet(channel) \cup {r}
    <3>1. r \in ResultType
      BY <1>1
    <3> QED BY <1>1, <2>1, <3>1, Appended
  <2>4. Results' \subseteq Results
    BY <2>2, <2>3 DEF Results
  <2> QED BY <2>4 DEF Refused
<1>4. ASSUME NEW b \in Connections, ReportEnd(b) PROVE Refused' \subseteq Refused
  <2>1. PICK r \in ResultType : channel' = Append(channel, r) /\ r.envelope = NoEnvelope
    BY <1>4, ReportCarries
  <2>2. ToSet(channel') = ToSet(channel) \cup {r} /\ task' = task
    <3>1. channel \in Seq(ResultType) /\ task' = task
      BY <1>1, <1>4 DEF ReportEnd
    <3> QED BY <2>1, <3>1, Appended
  <2>3. Results' \subseteq Results \cup {r}
    BY <2>2 DEF Results
  <2> QED BY <2>1, <2>3 DEF Refused
<1>5. CASE ReceiveFrame
  <2>1. channel # <<>> /\ channel' = Tail(channel) /\ task' = task
    BY <1>5 DEF ReceiveFrame
  <2>2. /\ DOMAIN channel' = 1 .. Len(channel) - 1 /\ Len(channel) \in Nat \ {0}
        /\ \A i \in 1 .. Len(channel) - 1 : channel'[i] = channel[i + 1]
    BY <1>1, <2>1, Taken
  <2>3. \A i \in DOMAIN channel' : i + 1 \in DOMAIN channel
    BY <1>1, <2>2
  <2>4. ToSet(channel') \subseteq ToSet(channel)
    BY <2>2, <2>3 DEF ToSet
  <2> QED BY <2>1, <2>4 DEF Refused, Results
<1>6. CASE ReceiveError
  <2>1. DOMAIN channel' = {} /\ \A a \in Connections, k \in Lanes : task'[a][k] = {}
    BY <1>6 DEF ReceiveError, NoResult
  <2> QED BY <2>1 DEF Refused, Results, ToSet
<1>7. ASSUME NEW b \in Connections,
             Connect(b) \/ HandshakeFails(b) \/ Close(b) \/ LoseDatagram(b)
               \/ \E m \in Lanes : SendFrame(b, m)
      PROVE  UNCHANGED <<channel, task>>
  BY <1>7 DEF Connect, HandshakeFails, Close, LoseDatagram, SendFrame
<1>8. UNCHANGED vars => UNCHANGED <<channel, task>>
  BY DEF vars
<1> QED BY <1>2, <1>3, <1>4, <1>5, <1>6, <1>7, <1>8 DEF Next, Endpoint, Receive

(* Without an opening the histories of the guards stay and those of the    *)
(* senders grow, and nothing old is under way again.                       *)
LEMMA HistoriesGrow ==
  ASSUME Unbounded, Numbered, Numbered', Carried, OpenedWereSent, [Next]_vars,
         ~\E c \in Connections, l \in Lanes : OpenFrame(c, l)
  PROVE  /\ OpenedWereSent' /\ accepted' = accepted
         /\ \A c \in Connections : \A i \in DOMAIN sent[c] : sent'[c][i] = sent[c][i]
<1>1. ASSUME UNCHANGED <<accepted, sent>>,
             \A c \in Connections : flight'[c] \subseteq flight[c]
      PROVE  /\ OpenedWereSent' /\ accepted' = accepted
             /\ \A c \in Connections : \A i \in DOMAIN sent[c] : sent'[c][i] = sent[c][i]
  BY <1>1 DEF OpenedWereSent
<1>2. ASSUME NEW b \in Connections, NEW m \in Lanes, SendFrame(b, m)
      PROVE  /\ OpenedWereSent' /\ accepted' = accepted
             /\ \A c \in Connections : \A i \in DOMAIN sent[c] : sent'[c][i] = sent[c][i]
  <2>1. /\ accepted' = accepted
        /\ \A c \in Connections : c # b => sent'[c] = sent[c] /\ flight'[c] = flight[c]
    BY <1>2 DEF SendFrame, guardVars, Carried, Numbered
  <2>2. sent[b] \in Seq(EnvelopeType)
    BY DEF Carried
  <2>3. PICK e \in EnvelopeType :
          /\ sent'[b] = Append(sent[b], e) /\ flight'[b] = flight[b] \cup {e}
          /\ e.sequence = Len(sent[b]) + 1
    <3> DEFINE e == Envelope(m, sealer'[b].epoch, sealer[b].nextSequence)
    <3>1. sent' = [sent EXCEPT ![b] = Append(sent[b], e)]
          /\ flight' = [flight EXCEPT ![b] = flight[b] \cup {e}]
      BY <1>2 DEF SendFrame
    <3>2. e \in EnvelopeType /\ e.sequence = sealer[b].nextSequence
      BY DEF Envelope, EnvelopeType, Numbered
    <3> HIDE DEF e
    <3> QED BY <3>1, <3>2 DEF Carried, Numbered
  <2>4. /\ Len(sent[b]) \in Nat /\ DOMAIN sent[b] = 1 .. Len(sent[b])
        /\ DOMAIN sent'[b] = 1 .. Len(sent[b]) + 1
        /\ \A i \in 1 .. Len(sent[b]) : sent'[b][i] = sent[b][i]
    BY <2>2, <2>3, Appended
  <2>5. \A i \in DOMAIN sent[b] : sent[b][i].sequence = i
    BY DEF Carried
  <2>6. \A i \in DOMAIN sent[b] : i \in DOMAIN sent'[b] /\ sent'[b][i] = sent[b][i]
                                  /\ sent[b][i] # e
    BY <2>3, <2>4, <2>5
  <2> QED BY <2>1, <2>3, <2>6 DEF OpenedWereSent
<1>3. flight \in [Connections -> SUBSET EnvelopeType]
  BY DEF Numbered
<1>4. ASSUME NEW b \in Connections,
             \/ Connect(b) \/ HandshakeFails(b) \/ Close(b) \/ LoseDatagram(b) \/ ReportEnd(b)
             \/ \E m \in Lanes : PutResult(b, m)
      PROVE  UNCHANGED <<accepted, sent>> /\ \A c \in Connections : flight'[c] \subseteq flight[c]
  BY <1>3, <1>4 DEF Connect, HandshakeFails, Close, LoseDatagram, ReportEnd, PutResult,
                    guardVars, netVars
<1>5. ASSUME Receive \/ UNCHANGED vars
      PROVE  UNCHANGED <<accepted, sent>> /\ \A c \in Connections : flight'[c] \subseteq flight[c]
  BY <1>5 DEF Receive, ReceiveFrame, ReceiveError, vars, guardVars, netVars
<1> QED BY <1>1, <1>2, <1>4, <1>5 DEF Next, Endpoint

LEMMA OpeningIsLate ==
  ASSUME Unbounded, GuardInv, VerdictIsExact, Numbered, Carried, OpenedWereSent, RefusedIsLate,
         Carried', NEW b \in Connections, NEW m \in Lanes, OpenFrame(b, m)
  PROVE  OpenedWereSent' /\ RefusedIsLate'
<1>1. PICK e \in Deliverable(b, m) :
        /\ flight' = [flight EXCEPT ![b] = @ \ {e}]
        /\ AcceptNumber(WindowOf(b, e), e.sequence) \/ RejectNumber(WindowOf(b, e), e.sequence)
        /\ task' = [task EXCEPT ![b][m] = Opened(b, e)]
  BY DEF OpenFrame
<1>2. UNCHANGED <<sent, channel>>
  BY DEF OpenFrame
<1>3. e \in flight[b] /\ e \in EnvelopeType
  BY DEF Deliverable, Numbered
<1>4. flight' \in [Connections -> SUBSET EnvelopeType] /\ flight'[b] = flight[b] \ {e}
      /\ \A c \in Connections : flight'[c] \subseteq flight[c]
  BY <1>1 DEF Numbered
<1>5. /\ e.sequence \in DOMAIN sent[b] /\ sent[b][e.sequence] = e
      /\ \A i \in DOMAIN sent[b] : sent[b][i].sequence = i
  BY <1>3 DEF Carried, ToSet
<1> DEFINE w == WindowOf(b, e)
<1>6. w = <<b, e.epoch>> /\ w \in Epochs /\ e.sequence \in Sequences /\ e.epoch \in Nat
  BY <1>3 DEF WindowOf, EnvelopeType, Unbounded
<1>7. accepted \in [Epochs -> SUBSET Sequences]
  BY DEF GuardInv, GuardTypeOK
<1>8. \A v \in Epochs : accepted'[v] = IF v = w /\ Accepts(replay[w], e.sequence)
                                       THEN accepted[v] \cup {e.sequence} ELSE accepted[v]
  BY <1>1, <1>6, <1>7 DEF AcceptNumber, RejectNumber, guardVars
<1> HIDE DEF w
<1>9. \A c \in Connections, p \in Nat : <<c, p>> \in Epochs
  BY DEF Unbounded
<1>10. ASSUME NEW c \in Connections, NEW p \in Nat, NEW t \in accepted'[<<c, p>>]
       PROVE  t \in DOMAIN sent[c] /\ sent[c][t].epoch = p /\ sent[c][t] \notin flight'[c]
  <2>1. CASE t \in accepted[<<c, p>>]
    BY <1>4, <2>1 DEF OpenedWereSent
  <2>2. CASE t \notin accepted[<<c, p>>]
    <3>1. c = b /\ p = e.epoch /\ t = e.sequence
      BY <1>6, <1>8, <1>9, <1>10, <2>2
    <3> QED BY <1>4, <1>5, <3>1
  <2> QED BY <2>1, <2>2
<1>11. OpenedWereSent'
  BY <1>2, <1>10 DEF OpenedWereSent
<1>12. ASSUME NEW r \in Refused', r \notin Refused
       PROVE  \E t \in accepted'[<<r.connection, r.envelope.epoch>>] :
                /\ t - r.envelope.sequence >= ReplayWindow
                /\ sent'[r.connection][t].epoch = r.envelope.epoch
  <2>1. r = Result(b, e, Accepts(replay[w], e.sequence))
    <3>1. task \in [Connections -> [Lanes -> SUBSET ResultType]]
      BY DEF Carried
    <3>2. \A c \in Connections, l \in Lanes :
            task'[c][l] \subseteq task[c][l] \cup {Result(b, e, Accepts(replay[w], e.sequence))}
      BY <1>1, <3>1 DEF Opened, w
    <3> QED BY <1>2, <1>12, <3>2 DEF Refused, Results
  <2>2. r.connection = b /\ r.envelope = e /\ ~Accepts(replay[w], e.sequence)
    BY <1>12, <2>1 DEF Result, Refused
  <2>3. e.sequence \notin accepted[w]
    BY <1>3, <1>5, <1>6 DEF OpenedWereSent
  <2>4. PICK t \in accepted[w] : ~(t - e.sequence < ReplayWindow)
    BY <1>6, <2>2, <2>3 DEF VerdictIsExact
  <2>5. t \in Nat /\ e.sequence \in Nat /\ ReplayWindow \in Nat
    BY <1>6, <1>7, ReplayAssumption
  <2>6. t - e.sequence >= ReplayWindow /\ t \in accepted'[w]
    <3>1. t - e.sequence >= ReplayWindow
      BY <2>4, <2>5
    <3> QED BY <1>6, <1>8, <2>4, <3>1
  <2>7. sent[b][t].epoch = e.epoch
    BY <1>6, <2>4 DEF OpenedWereSent
  <2> QED BY <1>2, <1>6, <2>2, <2>6, <2>7
<1>13. ASSUME NEW r \in Refused', r \in Refused
       PROVE  \E t \in accepted'[<<r.connection, r.envelope.epoch>>] :
                /\ t - r.envelope.sequence >= ReplayWindow
                /\ sent'[r.connection][t].epoch = r.envelope.epoch
  <2>1. \A c \in Connections, p \in Nat : accepted[<<c, p>>] \subseteq accepted'[<<c, p>>]
    BY <1>8, <1>9
  <2> QED BY <1>2, <1>13, <2>1, StillLate
<1> QED BY <1>11, <1>12, <1>13 DEF RefusedIsLate

LEMMA LateStep ==
  ASSUME Unbounded, GuardInv, VerdictIsExact, Numbered, Numbered', Carried, Carried',
         OpenedWereSent, RefusedIsLate, [Next]_vars
  PROVE  OpenedWereSent' /\ RefusedIsLate'
<1>1. ASSUME NEW b \in Connections, NEW m \in Lanes, OpenFrame(b, m)
      PROVE  OpenedWereSent' /\ RefusedIsLate'
  BY <1>1, OpeningIsLate
<1>2. CASE ~\E c \in Connections, l \in Lanes : OpenFrame(c, l)
  <2>1. /\ OpenedWereSent' /\ accepted' = accepted
        /\ \A c \in Connections : \A i \in DOMAIN sent[c] : sent'[c][i] = sent[c][i]
    BY <1>2, HistoriesGrow
  <2>2. Refused' \subseteq Refused
    BY <1>2, NothingNewRefused
  <2>4. ASSUME NEW r \in Refused'
        PROVE  \E t \in accepted'[<<r.connection, r.envelope.epoch>>] :
                 /\ t - r.envelope.sequence >= ReplayWindow
                 /\ sent'[r.connection][t].epoch = r.envelope.epoch
    BY <2>1, <2>2, StillLate
  <2> QED BY <2>1, <2>4 DEF RefusedIsLate
<1> QED BY <1>1, <1>2

(* A frame is refused only because one of its connection and epoch that is *)
(* ReplayWindow or more ahead was opened before it, for every window.      *)
THEOREM RefusalsAreLate ==
  ASSUME Unbounded
  PROVE  Spec => []RefusedIsLate
<1>1. Init => OpenedWereSent /\ RefusedIsLate
  <2> SUFFICES ASSUME Init PROVE OpenedWereSent /\ RefusedIsLate
    OBVIOUS
  <2>1. \A c \in Connections, p \in Nat : accepted[<<c, p>>] = {}
    BY DEF Init, GuardInit, Unbounded
  <2>2. Results = {}
    BY DEF Init, NoResult, Results, ToSet
  <2> QED BY <2>1, <2>2 DEF OpenedWereSent, RefusedIsLate, Refused
<1>2. GuardInv /\ VerdictIsExact /\ Numbered /\ Numbered' /\ Carried /\ Carried'
        /\ (OpenedWereSent /\ RefusedIsLate) /\ [Next]_vars
        => (OpenedWereSent /\ RefusedIsLate)'
  BY LateStep
<1>3. Spec => []GuardInv
  BY UsesGuard, GuardInductive, PTL
<1>4. Spec => []Carried
  BY LinesKept, PTL
<1> QED BY <1>1, <1>2, <1>3, <1>4, OpensExactly, NumberedInductive, PTL DEF Spec
=============================================================================
