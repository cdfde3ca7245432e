---------------------------- MODULE Links_proofs ----------------------------
(***************************************************************************)
(* The relay hub, for any devices and any number of connections, frames,   *)
(* breaks and refusals, and also when the server handles a request whose   *)
(* connection is gone; the clipboard, for any devices that watch for each  *)
(* other in one direction and any copies, losses and restarts.             *)
(***************************************************************************)
EXTENDS RelayHub, Clipboard, SequenceTheorems, WellFoundedInduction, TLAPS

ServerPlaces == {"none", "requested", "registered", "streaming", "ended"}

RxType == [server : ServerPlaces, device : Receivers, up : BOOLEAN,
           channel : Seq(Nat), socket : Seq(Nat), got : Seq(Nat)]

Open == {"registered", "streaming"}

\* A connection the server has accepted is never requested again.
Accepted == {"registered", "streaming", "ended"}

HubInv ==
    /\ rx \in [RxIds -> RxType]
    /\ peers \in [Receivers -> RxIds \cup {0}]
    /\ newest \in [Receivers -> RxIds \cup {0}]
    /\ frames \in Nat
    /\ \A d \in Receivers : newest[d] # 0 => rx[newest[d]].server \in Accepted
    /\ NewestRouted

LEMMA IdsArePositive == ASSUME NEW c \in RxIds PROVE c # 0
  BY RelayAssumption DEF RxIds

LEMMA IdleType == Idle \in RxType /\ Idle.server = "none"
<1>1. (CHOOSE d \in Receivers : TRUE) \in Receivers
  BY RelayAssumption
<1> QED BY <1>1 DEF Idle, RxType, ServerPlaces

LEMMA EndedType ==
  ASSUME NEW r \in RxType
  PROVE  LET e == [[r EXCEPT !.server = "ended"] EXCEPT !.channel = <<>>]
         IN  e \in RxType /\ e.server = "ended"
<1>1. <<>> \in Seq(Nat) /\ "ended" \in ServerPlaces
  BY DEF ServerPlaces
<1>2. [r EXCEPT !.server = "ended"] \in RxType
  BY <1>1 DEF RxType
<1> QED BY <1>1, <1>2 DEF RxType

\* A nonempty set of numbers has a least element.
LEMMA LeastIs ==
  ASSUME NEW S \in SUBSET Nat, S # {}
  PROVE  \E x \in S : \A y \in S : x <= y
<1> DEFINE R == {p \in Nat \X Nat : p[1] < p[2]}
<1>1. IsWellFoundedOn(R, Nat)
  BY NatLessThanWellFounded DEF OpToRel
<1>2. \A x, y \in Nat : <<y, x>> \in R <=> y < x
  OBVIOUS
<1> HIDE DEF R
<1>3. PICK x \in S : \A y \in S : ~ (<<y, x>> \in R)
  BY <1>1, WFMin
<1>4. ASSUME NEW y \in S PROVE x <= y
  <2>1. x \in Nat /\ y \in Nat
    OBVIOUS
  <2>2. ~ (y < x)
    BY <1>2, <1>3, <2>1
  <2> QED BY <2>1, <2>2
<1> QED BY <1>4

LEMMA InitHub == Init => HubInv
<1> SUFFICES ASSUME Init PROVE HubInv
  OBVIOUS
<1>1. rx \in [RxIds -> RxType]
  BY IdleType DEF Init
<1> QED BY <1>1 DEF Init, HubInv, NewestRouted

\* Steps that change one connection c to r and no registration.  What is accepted stays
\* accepted, and what is closed stays closed.
LEMMA ConnectionKeeps ==
  ASSUME HubInv, NEW c \in RxIds, NEW r \in RxType, rx' = [rx EXCEPT ![c] = r],
         rx[c].server \in Accepted => r.server \in Accepted,
         r.server \in Open => rx[c].server \in Open,
         UNCHANGED <<peers, newest>>, frames' \in Nat
  PROVE  HubInv'
<1>1. rx' \in [RxIds -> RxType] /\ rx'[c] = r /\ \A e \in RxIds \ {c} : rx'[e] = rx[e]
  BY DEF HubInv
<1>2. ASSUME NEW d \in Receivers, newest[d] # 0
      PROVE  /\ rx'[newest[d]].server \in Accepted
             /\ ChannelOpen(newest[d])' => ChannelOpen(newest[d])
  <2>1. newest[d] \in RxIds /\ rx[newest[d]].server \in Accepted
    BY <1>2 DEF HubInv
  <2> QED BY <1>1, <2>1 DEF ChannelOpen, Open
<1>3. NewestRouted'
  BY <1>2 DEF HubInv, NewestRouted, ChannelOpen
<1> QED BY <1>1, <1>2, <1>3 DEF HubInv

LEMMA AcceptKeeps ==
  ASSUME HubInv, NEW c \in RxIds, AcceptRx(c)
  PROVE  HubInv'
<1> DEFINE r == [rx[c] EXCEPT !.server = "registered"]
           dev == rx[c].device
<1>1. /\ rx[c].server = "requested"
      /\ rx' = [rx EXCEPT ![c] = r]
      /\ peers' = [peers EXCEPT ![dev] = c]
      /\ newest' = [newest EXCEPT ![dev] = c]
      /\ frames' = frames
  BY DEF AcceptRx, HubInv
<1>2. rx[c] \in RxType
  BY DEF HubInv
<1>3. r \in RxType /\ r.server = "registered" /\ dev \in Receivers
  BY <1>2 DEF RxType, ServerPlaces
<1> HIDE DEF r, dev
<1>4. /\ rx' \in [RxIds -> RxType] /\ rx'[c] = r
      /\ \A e \in RxIds \ {c} : rx'[e] = rx[e]
  BY <1>1, <1>3 DEF HubInv
<1>5. /\ peers' \in [Receivers -> RxIds \cup {0}] /\ newest' \in [Receivers -> RxIds \cup {0}]
      /\ peers'[dev] = c /\ newest'[dev] = c
      /\ \A d \in Receivers \ {dev} : peers'[d] = peers[d] /\ newest'[d] = newest[d]
  BY <1>1, <1>3 DEF HubInv
<1>6. ASSUME NEW d \in Receivers, newest'[d] # 0
      PROVE  /\ rx'[newest'[d]].server \in Accepted
             /\ rx'[newest'[d]].server \in Open => peers'[d] = newest'[d]
  <2>1. CASE d = dev
    BY <2>1, <1>3, <1>4, <1>5 DEF Accepted
  <2>2. CASE d # dev
    <3>1. newest'[d] = newest[d] /\ peers'[d] = peers[d] /\ newest[d] \in RxIds
          /\ rx[newest[d]].server \in Accepted
      BY <2>2, <1>5, <1>6 DEF HubInv
    <3>2. newest[d] # c
      BY <3>1, <1>1 DEF Accepted
    <3>3. rx'[newest[d]] = rx[newest[d]]
      BY <3>1, <3>2, <1>4
    <3>4. rx[newest[d]].server \in Open => peers[d] = newest[d]
      BY <3>1, <1>6 DEF HubInv, NewestRouted, ChannelOpen, Open
    <3> QED BY <3>1, <3>3, <3>4
  <2> QED BY <2>1, <2>2
<1>7. NewestRouted'
  BY <1>6 DEF NewestRouted, ChannelOpen, Open
<1> QED BY <1>1, <1>4, <1>5, <1>6, <1>7 DEF HubInv

\* The end of a connection takes away its own registration only.
LEMMA EndKeeps ==
  ASSUME HubInv, NEW c \in RxIds, StreamEnds(c)
  PROVE  HubInv'
<1> DEFINE r == [[rx[c] EXCEPT !.server = "ended"] EXCEPT !.channel = <<>>]
           dev == rx[c].device
<1>1. /\ rx[c].server = "streaming"
      /\ rx' = [rx EXCEPT ![c] = r]
      /\ peers' = IF peers[dev] = c THEN [peers EXCEPT ![dev] = 0] ELSE peers
      /\ newest' = newest /\ frames' = frames
  BY DEF StreamEnds, Unregistered, HubInv
<1>2. rx[c] \in RxType
  BY DEF HubInv
<1>3. r \in RxType /\ r.server = "ended" /\ dev \in Receivers
  <2>3. r \in RxType /\ r.server = "ended"
    BY <1>2, EndedType
  <2> QED BY <1>2, <2>3 DEF RxType
<1> HIDE DEF r, dev
<1>4. /\ rx' \in [RxIds -> RxType] /\ rx'[c] = r
      /\ \A e \in RxIds \ {c} : rx'[e] = rx[e]
  BY <1>1, <1>3 DEF HubInv
<1>5. /\ peers' \in [Receivers -> RxIds \cup {0}]
      /\ \A d \in Receivers : peers[d] # c => peers'[d] = peers[d]
  BY <1>1, <1>3 DEF HubInv
<1>6. ASSUME NEW d \in Receivers, newest[d] # 0
      PROVE  /\ rx'[newest[d]].server \in Accepted
             /\ rx'[newest[d]].server \in Open => peers'[d] = newest[d]
  <2>1. newest[d] \in RxIds /\ rx[newest[d]].server \in Accepted
    BY <1>6 DEF HubInv
  <2>2. CASE newest[d] = c
    BY <2>2, <1>3, <1>4 DEF Accepted, Open
  <2>3. CASE newest[d] # c
    <3>1. rx'[newest[d]] = rx[newest[d]]
      BY <2>1, <2>3, <1>4
    <3>2. rx[newest[d]].server \in Open => peers[d] = newest[d]
      BY <1>6 DEF HubInv, NewestRouted, ChannelOpen, Open
    <3> QED BY <2>1, <2>3, <3>1, <3>2, <1>5
  <2> QED BY <2>2, <2>3
<1>7. NewestRouted'
  BY <1>1, <1>6 DEF NewestRouted, ChannelOpen, Open
<1> QED BY <1>1, <1>4, <1>5, <1>6, <1>7 DEF HubInv

LEMMA RefuseKeeps ==
  ASSUME HubInv, NEW c \in RxIds, RefuseRx(c)
  PROVE  HubInv'
<1> DEFINE r == [Idle EXCEPT !.server = IF rx[c].up THEN "none" ELSE "ended"]
<1>1. /\ rx[c].server = "requested" /\ rx' = [rx EXCEPT ![c] = r]
      /\ UNCHANGED <<peers, newest, frames>>
  BY DEF RefuseRx
<1>2. r \in RxType /\ r.server \in {"none", "ended"}
  BY IdleType DEF RxType, ServerPlaces
<1> HIDE DEF r
<1>3. rx[c].server \notin Accepted /\ r.server \notin Open /\ frames' \in Nat
  BY <1>1, <1>2 DEF Accepted, Open, HubInv
<1> QED BY <1>1, <1>2, <1>3, ConnectionKeeps

LEMMA ConnectKeeps ==
  ASSUME HubInv, NEW d \in Receivers, ConnectRx(d)
  PROVE  HubInv'
<1> DEFINE c == LowestOf(UnusedRx)
           r == [[[Idle EXCEPT !.server = "requested"] EXCEPT !.device = d] EXCEPT !.up = TRUE]
<1>1. rx' = [rx EXCEPT ![c] = r] /\ UNCHANGED <<peers, newest, frames>> /\ UnusedRx # {}
  BY DEF ConnectRx
<1>2. r \in RxType /\ r.server = "requested"
  <2>1. [Idle EXCEPT !.server = "requested"] \in RxType
    BY IdleType DEF RxType, ServerPlaces
  <2> QED BY <2>1 DEF RxType, Idle
<1>3. c \in UnusedRx
  <2>1. UnusedRx \in SUBSET Nat
    BY RelayAssumption DEF UnusedRx, RxIds
  <2>2. \E e \in UnusedRx : \A f \in UnusedRx : e <= f
    BY <1>1, <2>1, LeastIs
  <2> QED BY <2>2 DEF LowestOf
<1> HIDE DEF c, r
<1>4. c \in RxIds /\ rx[c].server = "none"
  BY <1>3 DEF UnusedRx
<1>5. rx[c].server \notin Accepted /\ r.server \notin Open /\ frames' \in Nat
  BY <1>1, <1>2, <1>4 DEF Accepted, Open, HubInv
<1> QED BY <1>1, <1>2, <1>4, <1>5, ConnectionKeeps

\* Moving frames changes neither the place of a connection nor a registration.
LEMMA MovingKeeps ==
  ASSUME HubInv, NEW c \in RxIds, NEW r \in RxType, rx' = [rx EXCEPT ![c] = r],
         r.server = rx[c].server, UNCHANGED <<peers, newest>>, frames' \in Nat
  PROVE  HubInv'
  BY ConnectionKeeps

LEMMA TailType == ASSUME NEW q \in Seq(Nat), q # <<>> PROVE Tail(q) \in Seq(Nat) /\ Head(q) \in Nat
  OBVIOUS

LEMMA ReceiverKeeps ==
  ASSUME HubInv, NEW c \in RxIds,
         \/ Upgrade(c) \/ UpgradeFails(c) \/ Forward(c) \/ BreakRx(c)
  PROVE  HubInv'
<1>1. rx[c] \in RxType /\ UNCHANGED <<peers, newest, frames>> /\ frames' \in Nat
  BY DEF HubInv, Upgrade, UpgradeFails, Forward, BreakRx
<1>2. CASE Upgrade(c)
  <2> DEFINE r == [rx[c] EXCEPT !.server = "streaming"]
  <2>1. rx' = [rx EXCEPT ![c] = r] /\ rx[c].server = "registered"
    BY <1>2 DEF Upgrade, HubInv
  <2>2. r \in RxType /\ r.server = "streaming"
    BY <1>1 DEF RxType, ServerPlaces
  <2> HIDE DEF r
  <2>3. r.server \in Accepted /\ rx[c].server \in Open
    BY <2>1, <2>2 DEF Accepted, Open
  <2> QED BY <1>1, <2>1, <2>2, <2>3, ConnectionKeeps
<1>3. CASE UpgradeFails(c)
  <2> DEFINE r == [[rx[c] EXCEPT !.server = "ended"] EXCEPT !.channel = <<>>]
  <2>1. rx' = [rx EXCEPT ![c] = r]
    BY <1>3 DEF UpgradeFails, HubInv
  <2>2. r \in RxType /\ r.server = "ended"
    BY <1>1, EndedType
  <2> HIDE DEF r
  <2>3. r.server \in Accepted /\ r.server \notin Open
    BY <2>2 DEF Accepted, Open
  <2> QED BY <1>1, <2>1, <2>2, <2>3, ConnectionKeeps
<1>4. CASE Forward(c)
  <2> DEFINE q == IF rx[c].up THEN Append(rx[c].socket, Head(rx[c].channel)) ELSE rx[c].socket
             r == [[rx[c] EXCEPT !.channel = Tail(rx[c].channel)] EXCEPT !.socket = q]
  <2>1. rx' = [rx EXCEPT ![c] = r] /\ rx[c].channel # <<>>
    BY <1>1, <1>4 DEF Forward, HubInv, RxType
  <2>2. /\ rx[c].channel \in Seq(Nat) /\ rx[c].socket \in Seq(Nat)
        /\ Tail(rx[c].channel) \in Seq(Nat) /\ Head(rx[c].channel) \in Nat
    BY <1>1, <2>1, TailType DEF RxType
  <2>3. q \in Seq(Nat)
    BY <2>2
  <2> HIDE DEF q
  <2>4. r \in RxType /\ r.server = rx[c].server
    BY <1>1, <2>2, <2>3 DEF RxType
  <2> HIDE DEF r
  <2> QED BY <1>1, <2>1, <2>4, MovingKeeps
<1>5. CASE BreakRx(c)
  <2> DEFINE r == [rx[c] EXCEPT !.up = FALSE]
  <2>1. rx' = [rx EXCEPT ![c] = r]
    BY <1>5 DEF BreakRx, HubInv
  <2>2. r \in RxType /\ r.server = rx[c].server
    BY <1>1 DEF RxType
  <2> HIDE DEF r
  <2> QED BY <1>1, <2>1, <2>2, MovingKeeps
<1> QED BY <1>2, <1>3, <1>4, <1>5

\* The loop takes a frame from its socket, or finds the connection broken.
LEMMA LoopKeeps ==
  ASSUME HubInv, NEW d \in Receivers, NEW c \in RxIds, c = reading[d],
         ReceiveFrame(d) \/ ReadFails(d)
  PROVE  HubInv'
<1>1. rx[c] \in RxType /\ UNCHANGED <<peers, newest, frames>> /\ frames' \in Nat
  BY DEF HubInv, ReceiveFrame, ReadFails
<1>2. CASE ReceiveFrame(d)
  <2> DEFINE t == Tail(rx[c].socket)
             g == Append(rx[c].got, Head(rx[c].socket))
             r == [[rx[c] EXCEPT !.socket = t] EXCEPT !.got = g]
  <2>1. rx' = [rx EXCEPT ![c] = r] /\ rx[c].socket # <<>>
    BY <1>1, <1>2 DEF ReceiveFrame, HubInv, RxType
  <2>2. t \in Seq(Nat) /\ g \in Seq(Nat)
    <3>1. rx[c].got \in Seq(Nat) /\ rx[c].socket \in Seq(Nat)
      BY <1>1 DEF RxType
    <3>2. Tail(rx[c].socket) \in Seq(Nat) /\ Head(rx[c].socket) \in Nat
      BY <3>1, <2>1, TailType
    <3> QED BY <3>1, <3>2
  <2> HIDE DEF t, g
  <2>3. r \in RxType /\ r.server = rx[c].server
    BY <1>1, <2>2 DEF RxType
  <2> HIDE DEF r
  <2> QED BY <1>1, <2>1, <2>3, MovingKeeps
<1>3. CASE ReadFails(d)
  <2> DEFINE r == [rx[c] EXCEPT !.socket = <<>>]
  <2>1. rx' = [rx EXCEPT ![c] = r]
    BY <1>3 DEF ReadFails, HubInv
  <2>2. <<>> \in Seq(Nat)
    OBVIOUS
  <2>3. r \in RxType /\ r.server = rx[c].server
    BY <1>1, <2>2 DEF RxType
  <2> HIDE DEF r
  <2> QED BY <1>1, <2>1, <2>3, MovingKeeps
<1> QED BY <1>2, <1>3

-----------------------------------------------------------------------------
(* Both ends of a sending connection.                                      *)

AckType == [n : Nat, ok : BOOLEAN]
TxType == [server : {"none", "streaming", "ended"}, source : Senders, up : BOOLEAN,
           wire : Seq(Frames), acks : Seq(AckType)]

SenderType ==
    /\ tx \in [TxIds -> TxType]
    /\ holding \in [Senders -> TxIds \cup {0}]
    /\ awaiting \in [Senders -> Nat]
    /\ routed \in [RxIds -> Seq(Nat)]
    /\ acked \subseteq Nat
    /\ reading \in [Receivers -> RxIds \cup {0}]

LEMMA FrameFields ==
  ASSUME NEW f \in Frames
  PROVE  f.n \in Nat /\ f.n # 0 /\ f.reliable \in BOOLEAN /\ f.to \in Receivers
  BY RelayAssumption DEF Frames

LEMMA TxIdsArePositive == ASSUME NEW k \in TxIds PROVE k # 0
  BY RelayAssumption DEF TxIds

LEMMA UnusedType == Unused \in TxType /\ Unused.wire = <<>> /\ Unused.acks = <<>>
<1>1. (CHOOSE s \in Senders : TRUE) \in Senders
  BY RelayAssumption
<1>2. <<>> \in Seq(Frames) /\ <<>> \in Seq(AckType)
  OBVIOUS
<1> QED BY <1>1, <1>2 DEF Unused, TxType

LEMMA InitSender == Init => SenderType
<1> SUFFICES ASSUME Init PROVE SenderType
  OBVIOUS
<1>1. tx \in [TxIds -> TxType]
  BY UnusedType DEF Init
<1>2. <<>> \in Seq(Nat)
  OBVIOUS
<1>3. routed \in [RxIds -> Seq(Nat)]
  BY <1>2 DEF Init
<1> QED BY <1>1, <1>3 DEF Init, SenderType

\* What each step makes of the connection it is about.
Connected(s) == [[[Unused EXCEPT !.server = "streaming"] EXCEPT !.source = s] EXCEPT !.up = TRUE]
Sent(k, f) == [tx[k] EXCEPT !.wire = IF tx[k].up THEN Append(tx[k].wire, f) ELSE tx[k].wire]
Read(k) == [tx[k] EXCEPT !.acks = Tail(tx[k].acks)]
Dropped(k) == [[tx[k] EXCEPT !.up = FALSE] EXCEPT !.acks = <<>>]
HandledNow(k, f, ok) ==
  [[[tx[k] EXCEPT !.wire = Tail(tx[k].wire)]
     EXCEPT !.acks = IF f.reliable /\ tx[k].up THEN Append(tx[k].acks, [n |-> f.n, ok |-> ok])
                     ELSE tx[k].acks]
     EXCEPT !.server = IF f.reliable /\ ~tx[k].up THEN "ended" ELSE tx[k].server]
Closed(k) == [[tx[k] EXCEPT !.server = "ended"] EXCEPT !.wire = <<>>]
Broken(k) == [tx[k] EXCEPT !.up = FALSE]

LEMMA ConnectedType ==
  ASSUME NEW s \in Senders
  PROVE  /\ Connected(s) \in TxType
         /\ Connected(s).wire = <<>> /\ Connected(s).acks = <<>>
         /\ Connected(s).server = "streaming" /\ Connected(s).source = s
  BY UnusedType DEF Connected, TxType

LEMMA SentType ==
  ASSUME SenderType, NEW k \in TxIds, NEW f \in Frames
  PROVE  /\ Sent(k, f) \in TxType
         /\ Sent(k, f).wire = IF tx[k].up THEN Append(tx[k].wire, f) ELSE tx[k].wire
         /\ Sent(k, f).acks = tx[k].acks /\ Sent(k, f).up = tx[k].up
         /\ Sent(k, f).server = tx[k].server /\ Sent(k, f).source = tx[k].source
<1> DEFINE w == IF tx[k].up THEN Append(tx[k].wire, f) ELSE tx[k].wire
<1>1. tx[k] \in TxType /\ tx[k].wire \in Seq(Frames)
  BY DEF SenderType, TxType
<1>2. w \in Seq(Frames)
  BY <1>1
<1>3. Sent(k, f) = [tx[k] EXCEPT !.wire = w]
  BY DEF Sent
<1> HIDE DEF w
<1>4. /\ [tx[k] EXCEPT !.wire = w] \in TxType
      /\ [tx[k] EXCEPT !.wire = w].wire = w
      /\ [tx[k] EXCEPT !.wire = w].acks = tx[k].acks
      /\ [tx[k] EXCEPT !.wire = w].up = tx[k].up
      /\ [tx[k] EXCEPT !.wire = w].server = tx[k].server
      /\ [tx[k] EXCEPT !.wire = w].source = tx[k].source
  BY <1>1, <1>2 DEF TxType
<1> QED BY <1>3, <1>4 DEF w

LEMMA ReadType ==
  ASSUME SenderType, NEW k \in TxIds, tx[k].acks # <<>>
  PROVE  /\ Read(k) \in TxType
         /\ Read(k).acks = Tail(tx[k].acks) /\ Read(k).wire = tx[k].wire
         /\ Read(k).up = tx[k].up /\ Read(k).server = tx[k].server
         /\ Read(k).source = tx[k].source
<1>1. tx[k] \in TxType /\ tx[k].acks \in Seq(AckType)
  BY DEF SenderType, TxType
<1>2. Tail(tx[k].acks) \in Seq(AckType)
  BY <1>1
<1> QED BY <1>1, <1>2 DEF Read, TxType

LEMMA DroppedType ==
  ASSUME SenderType, NEW k \in TxIds
  PROVE  /\ Dropped(k) \in TxType
         /\ Dropped(k).wire = tx[k].wire /\ Dropped(k).server = tx[k].server
         /\ Dropped(k).source = tx[k].source
<1>1. tx[k] \in TxType /\ <<>> \in Seq(AckType)
  BY DEF SenderType
<1> QED BY <1>1 DEF Dropped, TxType

LEMMA HandledType ==
  ASSUME SenderType, NEW k \in TxIds, tx[k].wire # <<>>, NEW f, f = Head(tx[k].wire),
         NEW ok \in BOOLEAN
  PROVE  /\ f \in Frames
         /\ HandledNow(k, f, ok) \in TxType
         /\ HandledNow(k, f, ok).wire = Tail(tx[k].wire)
         /\ HandledNow(k, f, ok).acks = IF f.reliable /\ tx[k].up
                                     THEN Append(tx[k].acks, [n |-> f.n, ok |-> ok])
                                     ELSE tx[k].acks
         /\ HandledNow(k, f, ok).server \in {tx[k].server, "ended"}
         /\ HandledNow(k, f, ok).up = tx[k].up /\ HandledNow(k, f, ok).source = tx[k].source
<1> DEFINE q == IF f.reliable /\ tx[k].up THEN Append(tx[k].acks, [n |-> f.n, ok |-> ok])
                ELSE tx[k].acks
           p == IF f.reliable /\ ~tx[k].up THEN "ended" ELSE tx[k].server
           w == Tail(tx[k].wire)
<1>1. tx[k] \in TxType /\ tx[k].wire \in Seq(Frames) /\ tx[k].acks \in Seq(AckType)
      /\ tx[k].server \in {"none", "streaming", "ended"}
  BY DEF SenderType, TxType
<1>2. w \in Seq(Frames) /\ f \in Frames
  BY <1>1
<1>3. [n |-> f.n, ok |-> ok] \in AckType
  BY <1>2, FrameFields DEF AckType
<1>4. q \in Seq(AckType) /\ p \in {"none", "streaming", "ended"} /\ p \in {tx[k].server, "ended"}
  BY <1>1, <1>3
<1>5. HandledNow(k, f, ok) =
        [[[tx[k] EXCEPT !.wire = w] EXCEPT !.acks = q] EXCEPT !.server = p]
  BY DEF HandledNow
<1> HIDE DEF w, q, p
<1>6. LET h == [[[tx[k] EXCEPT !.wire = w] EXCEPT !.acks = q] EXCEPT !.server = p]
      IN  /\ h \in TxType /\ h.wire = w /\ h.acks = q /\ h.server = p
          /\ h.up = tx[k].up /\ h.source = tx[k].source
  BY <1>1, <1>2, <1>4 DEF TxType
<1> QED BY <1>2, <1>4, <1>5, <1>6 DEF w, q, p

LEMMA ClosedType ==
  ASSUME SenderType, NEW k \in TxIds
  PROVE  /\ Closed(k) \in TxType
         /\ Closed(k).wire = <<>> /\ Closed(k).acks = tx[k].acks
         /\ Closed(k).server = "ended" /\ Closed(k).source = tx[k].source
         /\ Closed(k).up = tx[k].up
<1>1. tx[k] \in TxType /\ <<>> \in Seq(Frames)
  BY DEF SenderType
<1> QED BY <1>1 DEF Closed, TxType

LEMMA BrokenType ==
  ASSUME SenderType, NEW k \in TxIds
  PROVE  /\ Broken(k) \in TxType
         /\ Broken(k).wire = tx[k].wire /\ Broken(k).acks = tx[k].acks
         /\ Broken(k).up = FALSE /\ Broken(k).server = tx[k].server
         /\ Broken(k).source = tx[k].source
<1>1. tx[k] \in TxType
  BY DEF SenderType
<1> QED BY <1>1 DEF Broken, TxType

\* Steps of the sending side change the numbers of frames at most.
LEMMA SendingKeepsHub ==
  ASSUME HubInv, UNCHANGED <<rx, peers, newest>>, frames' \in Nat
  PROVE  HubInv'
  BY DEF HubInv, NewestRouted, ChannelOpen

\* The task of a sending connection puts a frame into a channel, or nowhere.
LEMMA RouteKeepsHub ==
  ASSUME HubInv, SenderType, NEW f \in Frames, NEW source, Route(f, source),
         UNCHANGED <<peers, newest, frames>>
  PROVE  HubInv' /\ routed' \in [RxIds -> Seq(Nat)]
<1>1. frames' \in Nat /\ routed \in [RxIds -> Seq(Nat)]
  BY DEF HubInv, SenderType
<1>2. CASE ~Routable(f, source)
  <2>1. UNCHANGED <<rx, routed>>
    BY <1>2 DEF Route
  <2> QED BY <1>1, <2>1, SendingKeepsHub
<1>3. CASE Routable(f, source)
  <2> DEFINE c == peers[f.to]
             q == Append(rx[c].channel, f.n)
             r == [rx[c] EXCEPT !.channel = q]
             u == Append(routed[c], f.n)
  <2>1. c \in RxIds /\ f.n \in Nat
    BY <1>3, FrameFields DEF Routable, HubInv
  <2>2. rx[c] \in RxType /\ rx[c].channel \in Seq(Nat) /\ routed[c] \in Seq(Nat)
    BY <1>1, <2>1 DEF HubInv, RxType
  <2>3. q \in Seq(Nat) /\ u \in Seq(Nat)
    BY <2>1, <2>2
  <2>4. rx' = [rx EXCEPT ![c] = r] /\ routed' = [routed EXCEPT ![c] = u]
    BY <1>1, <1>3, <2>1, <2>2 DEF Route, HubInv, RxType
  <2> HIDE DEF q, u, c
  <2>5. r \in RxType /\ r.server = rx[c].server
    BY <2>2, <2>3 DEF RxType
  <2> HIDE DEF r
  <2>6. HubInv'
    BY <1>1, <2>1, <2>4, <2>5, MovingKeeps
  <2> QED BY <1>1, <2>1, <2>3, <2>4, <2>6
<1> QED BY <1>2, <1>3

\* A step that changes one sending connection, and numbers of the sender.
LEMMA OneSender ==
  ASSUME SenderType, NEW k \in TxIds, NEW t \in TxType, tx' = [tx EXCEPT ![k] = t],
         holding' \in [Senders -> TxIds \cup {0}], awaiting' \in [Senders -> Nat],
         acked' \subseteq Nat, UNCHANGED <<routed, reading>>
  PROVE  SenderType'
  BY DEF SenderType

\* Dropping a connection that a sender holds, or none.
LEMMA ForgetKeeps ==
  ASSUME SenderType, NEW s \in Senders, Forget(s), UNCHANGED <<routed, reading, acked>>
  PROVE  SenderType'
<1>1. /\ holding' = [holding EXCEPT ![s] = 0]
      /\ awaiting' = [awaiting EXCEPT ![s] = 0]
      /\ tx' = [tx EXCEPT ![holding[s]].up = FALSE, ![holding[s]].acks = <<>>]
  BY DEF Forget
<1>2. /\ holding' \in [Senders -> TxIds \cup {0}] /\ awaiting' \in [Senders -> Nat]
      /\ tx \in [TxIds -> TxType] /\ acked' \subseteq Nat
  BY <1>1 DEF SenderType
<1> DEFINE k == holding[s]
<1>3. CASE k \notin TxIds
  <2>1. tx' = tx
    BY <1>1, <1>2, <1>3
  <2> QED BY <1>2, <2>1 DEF SenderType
<1>4. CASE k \in TxIds
  <2>1. tx' = [tx EXCEPT ![k] = Dropped(k)]
    BY <1>1, <1>2, <1>4 DEF Dropped, TxType
  <2> HIDE DEF k
  <2>2. Dropped(k) \in TxType
    BY <1>4, DroppedType
  <2> QED BY <1>2, <1>4, <2>1, <2>2, OneSender DEF SenderType
<1> QED BY <1>3, <1>4

LEMMA SendingKeeps ==
  ASSUME SenderType, HubInv, NEW s \in Senders,
         \/ ConnectTx(s) \/ ReadAck(s) \/ AckFails(s) \/ SendFails(s)
         \/ \E reliable \in BOOLEAN, to \in Receivers : SendFrame(s, reliable, to)
  PROVE  SenderType' /\ HubInv'
<1>1. HubInv'
  <2>1. UNCHANGED <<rx, peers, newest>> /\ frames' \in {frames, frames + 1}
    BY DEF ConnectTx, ReadAck, AckFails, SendFails, SendFrame
  <2>2. frames' \in Nat
    BY <2>1 DEF HubInv
  <2> QED BY <2>1, <2>2, SendingKeepsHub
<1>2. CASE ConnectTx(s)
  <2> DEFINE k == LowestOf(UnusedTx)
  <2>1. /\ tx' = [tx EXCEPT ![k] = Connected(s)] /\ UnusedTx # {}
        /\ holding' = [holding EXCEPT ![s] = k]
        /\ UNCHANGED <<awaiting, acked, routed, reading>>
    BY <1>2 DEF ConnectTx, Connected
  <2>2. k \in TxIds
    <3>1. UnusedTx \in SUBSET Nat
      BY RelayAssumption DEF UnusedTx, TxIds
    <3>2. \E e \in UnusedTx : \A f \in UnusedTx : e <= f
      BY <2>1, <3>1, LeastIs
    <3> QED BY <3>2 DEF LowestOf, UnusedTx
  <2> HIDE DEF k
  <2>3. Connected(s) \in TxType
    BY ConnectedType
  <2>4. holding' \in [Senders -> TxIds \cup {0}] /\ awaiting' \in [Senders -> Nat]
        /\ acked' \subseteq Nat
    BY <2>1, <2>2 DEF SenderType
  <2> QED BY <1>1, <2>1, <2>2, <2>3, <2>4, OneSender
<1>3. CASE ReadAck(s)
  <2> DEFINE k == holding[s]
  <2>1. awaiting[s] # 0 /\ tx[k].acks # <<>> /\ UNCHANGED <<routed, reading>>
    BY <1>3 DEF ReadAck
  <2>2. CASE Head(tx[k].acks).ok /\ acked' = acked \cup {awaiting[s]}
             /\ awaiting' = [awaiting EXCEPT ![s] = 0]
             /\ tx' = [tx EXCEPT ![k].acks = Tail(@)] /\ holding' = holding
    <3>1. holding' \in [Senders -> TxIds \cup {0}] /\ awaiting' \in [Senders -> Nat]
          /\ acked' \subseteq Nat /\ tx \in [TxIds -> TxType]
      BY <2>2 DEF SenderType
    <3>2. CASE k \notin TxIds
      <4>1. tx' = tx
        BY <2>2, <3>1, <3>2
      <4> QED BY <1>1, <2>1, <3>1, <4>1 DEF SenderType
    <3>3. CASE k \in TxIds
      <4>1. tx' = [tx EXCEPT ![k] = Read(k)]
        BY <2>2, <3>1, <3>3 DEF Read, TxType
      <4> HIDE DEF k
      <4>2. Read(k) \in TxType
        BY <2>1, <3>3, ReadType
      <4> QED BY <1>1, <2>1, <3>1, <3>3, <4>1, <4>2, OneSender
    <3> QED BY <3>2, <3>3
  <2>3. CASE Forget(s) /\ acked' = acked
    BY <1>1, <2>1, <2>3, ForgetKeeps
  <2> QED BY <1>3, <2>2, <2>3 DEF ReadAck
<1>4. CASE AckFails(s) \/ SendFails(s)
  BY <1>1, <1>4, ForgetKeeps DEF AckFails, SendFails
<1>5. ASSUME NEW reliable \in BOOLEAN, NEW to \in Receivers, SendFrame(s, reliable, to)
      PROVE  SenderType'
  <2> DEFINE k == holding[s]
             f == [n |-> frames + 1, reliable |-> reliable, to |-> to]
  <2>1. /\ k # 0 /\ frames < MaxFrames
        /\ tx' = [tx EXCEPT ![k].wire = IF tx[k].up THEN Append(@, f) ELSE @]
        /\ awaiting' = [awaiting EXCEPT ![s] = IF reliable THEN f.n ELSE 0]
        /\ UNCHANGED <<holding, acked, routed, reading>>
    BY <1>5 DEF SendFrame
  <2>2. f \in Frames /\ f.n \in Nat
    BY <2>1, RelayAssumption DEF HubInv, Frames
  <2> HIDE DEF f
  <2>3. k \in TxIds /\ tx \in [TxIds -> TxType]
    BY <2>1 DEF SenderType
  <2>4. tx' = [tx EXCEPT ![k] = Sent(k, f)]
    BY <2>1, <2>3 DEF Sent, TxType
  <2>5. Sent(k, f) \in TxType
    BY <2>2, <2>3, SentType
  <2>6. awaiting' \in [Senders -> Nat] /\ holding' \in [Senders -> TxIds \cup {0}]
        /\ acked' \subseteq Nat
    BY <2>1, <2>2 DEF SenderType
  <2> HIDE DEF k
  <2> QED BY <2>1, <2>3, <2>4, <2>5, <2>6, OneSender
<1> QED BY <1>1, <1>2, <1>3, <1>4, <1>5

\* The tasks of the server, and connections that break.
LEMMA ServingKeeps ==
  ASSUME SenderType, HubInv, NEW k \in TxIds, HandleFrame(k) \/ SenderEnds(k) \/ BreakTx(k)
  PROVE  SenderType' /\ HubInv'
<1>1. tx \in [TxIds -> TxType] /\ UNCHANGED <<holding, awaiting, acked, reading>>
  BY DEF SenderType, HandleFrame, SenderEnds, BreakTx
<1>2. CASE HandleFrame(k)
  <2> DEFINE f == Head(tx[k].wire)
             ok == Routable(f, tx[k].source)
  <2>1. /\ tx[k].wire # <<>>
        /\ Route(f, tx[k].source)
        /\ UNCHANGED <<peers, newest, frames>>
    BY <1>2 DEF HandleFrame
  <2>2. ok \in BOOLEAN
    BY DEF Routable
  <2>3. tx' = [tx EXCEPT ![k] = HandledNow(k, f, ok)]
    BY <1>1, <1>2 DEF HandleFrame, HandledNow, RequiresAck, TxType
  <2> HIDE DEF ok
  <2>4. f \in Frames /\ HandledNow(k, f, ok) \in TxType
    BY <2>1, <2>2, HandledType
  <2> HIDE DEF f
  <2>5. HubInv' /\ routed' \in [RxIds -> Seq(Nat)]
    BY <2>1, <2>4, RouteKeepsHub
  <2>6. tx' \in [TxIds -> TxType]
    BY <1>1, <2>3, <2>4
  <2> QED BY <1>1, <2>5, <2>6 DEF SenderType
<1>3. CASE SenderEnds(k)
  <2>1. tx' = [tx EXCEPT ![k] = Closed(k)] /\ Closed(k) \in TxType
    BY <1>1, <1>3, ClosedType DEF SenderEnds, Closed
  <2>2. UNCHANGED <<rx, peers, newest, frames, routed>> /\ frames' \in Nat
    BY <1>3 DEF SenderEnds, HubInv
  <2> QED BY <1>1, <2>1, <2>2, OneSender, SendingKeepsHub DEF SenderType
<1>4. CASE BreakTx(k)
  <2>1. tx' = [tx EXCEPT ![k] = Broken(k)] /\ Broken(k) \in TxType
    BY <1>1, <1>4, BrokenType DEF BreakTx, Broken
  <2>2. UNCHANGED <<rx, peers, newest, frames, routed>> /\ frames' \in Nat
    BY <1>4 DEF BreakTx, HubInv
  <2> QED BY <1>1, <2>1, <2>2, OneSender, SendingKeepsHub DEF SenderType
<1> QED BY <1>2, <1>3, <1>4

\* The receive loops and the server's end of their connections.
LEMMA ReceivingKeeps ==
  ASSUME SenderType, HubInv, NEW c \in RxIds,
         \/ AcceptRx(c) \/ RefuseRx(c) \/ Upgrade(c) \/ UpgradeFails(c)
         \/ Forward(c) \/ StreamEnds(c) \/ BreakRx(c)
  PROVE  SenderType' /\ HubInv'
<1>1. HubInv'
  BY AcceptKeeps, RefuseKeeps, EndKeeps, ReceiverKeeps
<1>2. UNCHANGED <<tx, holding, awaiting, routed, acked>>
  BY DEF AcceptRx, RefuseRx, Upgrade, UpgradeFails, Forward, StreamEnds, BreakRx
<1>3. reading' \in [Receivers -> RxIds \cup {0}]
  BY DEF SenderType, AcceptRx, RefuseRx, Upgrade, UpgradeFails, Forward, StreamEnds, BreakRx
<1> QED BY <1>1, <1>2, <1>3 DEF SenderType

LEMMA LoopsKeep ==
  ASSUME SenderType, HubInv, NEW d \in Receivers,
         ConnectRx(d) \/ ReceiveFrame(d) \/ ReadFails(d)
  PROVE  SenderType' /\ HubInv'
<1>1. UNCHANGED <<tx, holding, awaiting, routed, acked>>
  BY DEF ConnectRx, ReceiveFrame, ReadFails
<1>2. CASE ConnectRx(d)
  <2> DEFINE c == LowestOf(UnusedRx)
  <2>1. reading' = [reading EXCEPT ![d] = c] /\ UnusedRx # {}
    BY <1>2 DEF ConnectRx
  <2>2. c \in RxIds
    <3>1. UnusedRx \in SUBSET Nat
      BY RelayAssumption DEF UnusedRx, RxIds
    <3>2. \E e \in UnusedRx : \A f \in UnusedRx : e <= f
      BY <2>1, <3>1, LeastIs
    <3> QED BY <3>2 DEF LowestOf, UnusedRx
  <2> HIDE DEF c
  <2>3. reading' \in [Receivers -> RxIds \cup {0}]
    BY <2>1, <2>2 DEF SenderType
  <2> QED BY <1>1, <1>2, <2>3, ConnectKeeps DEF SenderType
<1>3. CASE ReceiveFrame(d) \/ ReadFails(d)
  <2>1. reading[d] \in RxIds
    BY <1>3 DEF SenderType, ReceiveFrame, ReadFails
  <2>2. HubInv'
    BY <1>3, <2>1, LoopKeeps
  <2>3. reading' \in [Receivers -> RxIds \cup {0}]
    BY <1>3 DEF SenderType, ReceiveFrame, ReadFails
  <2> QED BY <1>1, <2>2, <2>3 DEF SenderType
<1> QED BY <1>2, <1>3

LEMMA RelayStep == SenderType /\ HubInv /\ [Next]_vars => SenderType' /\ HubInv'
<1> SUFFICES ASSUME SenderType, HubInv, [Next]_vars PROVE SenderType' /\ HubInv'
  OBVIOUS
<1>1. ASSUME NEW d \in Receivers, ConnectRx(d) \/ ReceiveFrame(d) \/ ReadFails(d)
      PROVE  SenderType' /\ HubInv'
  BY <1>1, LoopsKeep
<1>2. ASSUME NEW c \in RxIds,
             \/ AcceptRx(c) \/ RefuseRx(c) \/ Upgrade(c) \/ UpgradeFails(c)
             \/ Forward(c) \/ StreamEnds(c) \/ BreakRx(c)
      PROVE  SenderType' /\ HubInv'
  BY <1>2, ReceivingKeeps
<1>3. ASSUME NEW s \in Senders,
             \/ ConnectTx(s) \/ ReadAck(s) \/ AckFails(s) \/ SendFails(s)
             \/ \E reliable \in BOOLEAN, to \in Receivers : SendFrame(s, reliable, to)
      PROVE  SenderType' /\ HubInv'
  BY <1>3, SendingKeeps
<1>4. ASSUME NEW k \in TxIds, HandleFrame(k) \/ SenderEnds(k) \/ BreakTx(k)
      PROVE  SenderType' /\ HubInv'
  BY <1>4, ServingKeeps
<1>5. ASSUME NEW d \in RelayDevices, Switch(d) PROVE SenderType' /\ HubInv'
  <2>1. UNCHANGED <<rx, peers, newest, frames>> /\ frames' \in Nat
    BY <1>5 DEF Switch, HubInv
  <2>2. UNCHANGED <<tx, holding, awaiting, routed, acked, reading>>
    BY <1>5 DEF Switch
  <2> QED BY <2>1, <2>2, SendingKeepsHub DEF SenderType
<1>6. CASE UNCHANGED vars
  <2>1. UNCHANGED <<rx, peers, newest, frames>> /\ frames' \in Nat
    BY <1>6 DEF vars, HubInv
  <2>2. UNCHANGED <<tx, holding, awaiting, routed, acked, reading>>
    BY <1>6 DEF vars
  <2> QED BY <2>1, <2>2, SendingKeepsHub DEF SenderType
<1>7. CASE Next
  BY <1>7, <1>1, <1>2, <1>3, <1>4, <1>5 DEF Next
<1> QED BY <1>6, <1>7

-----------------------------------------------------------------------------
(* What becomes of the numbers put into a channel.                         *)

\* What went through a connection is what was put into its channel, up to a break; on a
\* connection the server has not accepted there is nothing.
Flows(r, q) ==
    /\ r.server \in {"none", "requested"} =>
         q = <<>> /\ r.got = <<>> /\ r.socket = <<>> /\ r.channel = <<>>
    /\ IF r.up /\ r.server \in Open
       THEN (r.got \o r.socket) \o r.channel = q
       ELSE \E cut \in Seq(Nat) : (r.got \o r.socket) \o cut = q

FlowInv == \A c \in RxIds : Flows(rx[c], routed[c])

LEMMA MovedOn ==
  ASSUME NEW a \in Seq(Nat), NEW b \in Seq(Nat), b # <<>>
  PROVE  Append(a, Head(b)) \o Tail(b) = a \o b
<1>1. Tail(b) \in Seq(Nat) /\ Head(b) \in Nat
  BY TailType
<1>2. Append(a, Head(b)) \in Seq(Nat)
  BY <1>1
<1>3. Len(Append(a, Head(b)) \o Tail(b)) = Len(a \o b)
  BY <1>1, <1>2
<1>4. \A i \in 1..Len(a \o b) : (Append(a, Head(b)) \o Tail(b))[i] = (a \o b)[i]
  BY <1>1, <1>2
<1>5. Append(a, Head(b)) \o Tail(b) \in Seq(Nat) /\ a \o b \in Seq(Nat)
  BY <1>1, <1>2
<1> QED BY <1>3, <1>4, <1>5, SeqEqual

LEMMA Regroup ==
  ASSUME NEW a \in Seq(Nat), NEW b \in Seq(Nat), NEW u \in Seq(Nat)
  PROVE  a \o (b \o u) = (a \o b) \o u
<1>1. a \o (b \o u) \in Seq(Nat) /\ (a \o b) \o u \in Seq(Nat)
  OBVIOUS
<1>2. Len(a \o (b \o u)) = Len((a \o b) \o u)
  OBVIOUS
<1>3. \A i \in 1..Len(a \o (b \o u)) : (a \o (b \o u))[i] = ((a \o b) \o u)[i]
  OBVIOUS
<1> QED BY ONLY <1>1, <1>2, <1>3, SeqEqual

LEMMA PutBehind ==
  ASSUME NEW a \in Seq(Nat), NEW b \in Seq(Nat), NEW x \in Nat
  PROVE  a \o Append(b, x) = Append(a \o b, x)
<1>1. a \o Append(b, x) = a \o (b \o <<x>>)
  BY AppendIsConcat
<1>2. a \o (b \o <<x>>) = (a \o b) \o <<x>>
  BY ConcatAssociative
<1>3. a \o b \in Seq(Nat)
  OBVIOUS
<1> QED BY <1>1, <1>2, <1>3, AppendIsConcat

LEMMA FlowTypes ==
  ASSUME NEW r \in RxType
  PROVE  /\ r.got \in Seq(Nat) /\ r.socket \in Seq(Nat) /\ r.channel \in Seq(Nat)
         /\ r.got \o r.socket \in Seq(Nat)
<1>1. r.got \in Seq(Nat) /\ r.socket \in Seq(Nat) /\ r.channel \in Seq(Nat)
  BY DEF RxType
<1> QED BY <1>1

\* On an intact connection or not, what has been read or sent is a beginning.
LEMMA FlowsUpTo ==
  ASSUME NEW r \in RxType, NEW q \in Seq(Nat), Flows(r, q)
  PROVE  \E cut \in Seq(Nat) : (r.got \o r.socket) \o cut = q
  BY FlowTypes DEF Flows

LEMMA EmptyFlows ==
  ASSUME NEW r \in RxType, r.got = <<>>, r.socket = <<>>, r.channel = <<>>
  PROVE  Flows(r, <<>>)
<1>1. <<>> \in Seq(Nat) /\ <<>> \o <<>> = <<>>
  BY ConcatEmptySeq
<1> QED BY <1>1 DEF Flows

\* A connection that ends or breaks keeps what is on its way to the loop.
LEMMA CutFlows ==
  ASSUME NEW r \in RxType, NEW e \in RxType, NEW q \in Seq(Nat), Flows(r, q),
         r.server \notin {"none", "requested"},
         e.server \notin {"none", "requested"}, e.got = r.got, e.socket = r.socket,
         ~(e.up /\ e.server \in Open)
  PROVE  Flows(e, q)
  BY FlowsUpTo DEF Flows

LEMMA ForwardFlows ==
  ASSUME NEW r \in RxType, NEW q \in Seq(Nat), Flows(r, q),
         r.server = "streaming", r.channel # <<>>, NEW e \in RxType,
         e.server = r.server, e.up = r.up, e.got = r.got, e.channel = Tail(r.channel),
         e.socket = IF r.up THEN Append(r.socket, Head(r.channel)) ELSE r.socket
  PROVE  Flows(e, q)
<1>1. CASE r.up
  <2>1. Head(r.channel) \in Nat /\ Tail(r.channel) \in Seq(Nat)
    BY FlowTypes, TailType
  <2>2. e.got \o e.socket = Append(r.got \o r.socket, Head(r.channel))
    <3>1. r.got \in Seq(Nat) /\ r.socket \in Seq(Nat)
      BY FlowTypes
    <3>2. r.got \o Append(r.socket, Head(r.channel)) = Append(r.got \o r.socket, Head(r.channel))
      BY <2>1, <3>1, PutBehind
    <3> QED BY <1>1, <3>2
  <2>3. Append(r.got \o r.socket, Head(r.channel)) \o Tail(r.channel)
          = (r.got \o r.socket) \o r.channel
    BY FlowTypes, MovedOn
  <2>4. r.server \in Open
    BY DEF Open
  <2> QED BY <1>1, <2>2, <2>3, <2>4 DEF Flows
<1>2. CASE ~r.up
  BY <1>2, FlowsUpTo DEF Flows
<1> QED BY <1>1, <1>2

LEMMA ReceiveFlows ==
  ASSUME NEW r \in RxType, NEW q \in Seq(Nat), Flows(r, q), r.socket # <<>>,
         NEW e \in RxType, e.server = r.server, e.up = r.up, e.channel = r.channel,
         e.got = Append(r.got, Head(r.socket)), e.socket = Tail(r.socket)
  PROVE  Flows(e, q)
<1>1. e.got \o e.socket = r.got \o r.socket
  BY FlowTypes, MovedOn, ZenonT(60)
<1> QED BY <1>1 DEF Flows

\* What is lost at a read that fails was cut off already.
LEMMA ReadFailsFlows ==
  ASSUME NEW r \in RxType, NEW q \in Seq(Nat), Flows(r, q), ~r.up,
         NEW e \in RxType, e.server = r.server, e.up = r.up, e.channel = r.channel,
         e.got = r.got, e.socket = <<>>
  PROVE  Flows(e, q)
<1>1. PICK cut \in Seq(Nat) : (r.got \o r.socket) \o cut = q
  BY FlowsUpTo
<1>2. (e.got \o e.socket) \o (r.socket \o cut) = q
  <2>1. e.got \o e.socket = r.got
    BY FlowTypes, ConcatEmptySeq
  <2>2. r.got \o (r.socket \o cut) = (r.got \o r.socket) \o cut
    <3>1. r.got \in Seq(Nat) /\ r.socket \in Seq(Nat)
      BY FlowTypes
    <3> QED BY <1>1, <3>1, Regroup, ZenonT(60)
  <2> QED BY <1>1, <2>1, <2>2
<1>3. r.socket \o cut \in Seq(Nat)
  BY FlowTypes
<1> QED BY <1>2, <1>3 DEF Flows

LEMMA RouteFlows ==
  ASSUME NEW r \in RxType, NEW q \in Seq(Nat), Flows(r, q), r.server \in Open,
         NEW n \in Nat, NEW e \in RxType, e.server = r.server, e.up = r.up,
         e.got = r.got, e.socket = r.socket, e.channel = Append(r.channel, n)
  PROVE  Flows(e, Append(q, n))
<1>1. r.server \notin {"none", "requested"}
  BY DEF Open
<1>2. CASE r.up
  <2>1. r.got \o r.socket \in Seq(Nat) /\ r.channel \in Seq(Nat)
    BY FlowTypes
  <2>2. (r.got \o r.socket) \o Append(r.channel, n) = Append((r.got \o r.socket) \o r.channel, n)
    BY <2>1, PutBehind
  <2> QED BY <1>1, <1>2, <2>2 DEF Flows
<1>3. CASE ~r.up
  <2>1. PICK cut \in Seq(Nat) : (r.got \o r.socket) \o cut = q
    BY FlowsUpTo
  <2>2. (r.got \o r.socket) \o Append(cut, n) = Append(q, n) /\ Append(cut, n) \in Seq(Nat)
    <3>1. r.got \o r.socket \in Seq(Nat) /\ Append(cut, n) \in Seq(Nat)
      BY FlowTypes
    <3> QED BY <2>1, <3>1, PutBehind
  <2> QED BY <1>1, <1>3, <2>2 DEF Flows
<1> QED BY <1>2, <1>3

LEMMA OneFlow ==
  ASSUME HubInv, FlowInv, NEW c \in RxIds, NEW r \in RxType, rx' = [rx EXCEPT ![c] = r],
         Flows(r, routed[c]), UNCHANGED routed
  PROVE  FlowInv'
<1>1. rx'[c] = r /\ \A e \in RxIds \ {c} : rx'[e] = rx[e]
  BY DEF HubInv
<1> QED BY <1>1 DEF FlowInv

LEMMA FlowNow ==
  ASSUME HubInv, SenderType, FlowInv, NEW c \in RxIds
  PROVE  rx[c] \in RxType /\ routed[c] \in Seq(Nat) /\ Flows(rx[c], routed[c])
  BY DEF HubInv, SenderType, FlowInv

LEMMA AcceptingFlows ==
  ASSUME HubInv, SenderType, FlowInv, NEW c \in RxIds, AcceptRx(c) \/ RefuseRx(c)
  PROVE  FlowInv'
<1> DEFINE p == IF rx[c].up THEN "none" ELSE "ended"
           r == IF AcceptRx(c) THEN [rx[c] EXCEPT !.server = "registered"]
                ELSE [Idle EXCEPT !.server = p]
<1>1. rx[c].server = "requested" /\ rx' = [rx EXCEPT ![c] = r] /\ UNCHANGED routed
  BY DEF AcceptRx, RefuseRx, HubInv
<1>2. /\ routed[c] = <<>> /\ rx[c].got = <<>> /\ rx[c].socket = <<>> /\ rx[c].channel = <<>>
      /\ rx[c] \in RxType
  BY <1>1, FlowNow DEF Flows
<1>3. r \in RxType /\ r.got = <<>> /\ r.socket = <<>> /\ r.channel = <<>>
  <2>1. /\ [rx[c] EXCEPT !.server = "registered"] \in RxType
        /\ [rx[c] EXCEPT !.server = "registered"].got = <<>>
        /\ [rx[c] EXCEPT !.server = "registered"].socket = <<>>
        /\ [rx[c] EXCEPT !.server = "registered"].channel = <<>>
    BY <1>2 DEF RxType, ServerPlaces
  <2>2. p \in ServerPlaces
    BY DEF ServerPlaces
  <2> HIDE DEF p
  <2>3. /\ [Idle EXCEPT !.server = p] \in RxType
        /\ [Idle EXCEPT !.server = p].got = <<>>
        /\ [Idle EXCEPT !.server = p].socket = <<>>
        /\ [Idle EXCEPT !.server = p].channel = <<>>
    BY <2>2, IdleType DEF RxType, Idle
  <2> QED BY <2>1, <2>3
<1> HIDE DEF r
<1> QED BY <1>1, <1>2, <1>3, EmptyFlows, OneFlow

LEMMA ServedFlows ==
  ASSUME HubInv, SenderType, FlowInv, NEW c \in RxIds,
         Upgrade(c) \/ UpgradeFails(c) \/ StreamEnds(c) \/ BreakRx(c)
  PROVE  FlowInv'
<1>1. rx[c] \in RxType /\ routed[c] \in Seq(Nat) /\ Flows(rx[c], routed[c])
  BY FlowNow
<1>2. CASE Upgrade(c)
  <2> DEFINE r == [rx[c] EXCEPT !.server = "streaming"]
  <2>1. rx' = [rx EXCEPT ![c] = r] /\ rx[c].server = "registered" /\ rx[c].up
        /\ UNCHANGED routed
    BY <1>2 DEF Upgrade, HubInv
  <2>2. /\ r \in RxType /\ r.server = "streaming" /\ r.up = rx[c].up /\ r.got = rx[c].got
        /\ r.socket = rx[c].socket /\ r.channel = rx[c].channel
    BY <1>1 DEF RxType, ServerPlaces
  <2> HIDE DEF r
  <2>3. Flows(r, routed[c])
    BY <1>1, <2>1, <2>2 DEF Flows, Open
  <2> QED BY <2>1, <2>2, <2>3, OneFlow
<1>3. CASE UpgradeFails(c) \/ StreamEnds(c)
  <2> DEFINE r == [[rx[c] EXCEPT !.server = "ended"] EXCEPT !.channel = <<>>]
  <2>1. rx' = [rx EXCEPT ![c] = r] /\ rx[c].server \in {"registered", "streaming"}
        /\ UNCHANGED routed
    BY <1>3 DEF UpgradeFails, StreamEnds, HubInv
  <2>2. r \in RxType /\ r.server = "ended"
    BY <1>1, EndedType
  <2>3. r.got = rx[c].got /\ r.socket = rx[c].socket
    BY <1>1 DEF RxType
  <2> HIDE DEF r
  <2>4. Flows(r, routed[c])
    BY <1>1, <2>1, <2>2, <2>3, CutFlows DEF Open
  <2> QED BY <2>1, <2>2, <2>4, OneFlow
<1>4. CASE BreakRx(c)
  <2> DEFINE r == [rx[c] EXCEPT !.up = FALSE]
  <2>1. rx' = [rx EXCEPT ![c] = r] /\ UNCHANGED routed
    BY <1>4 DEF BreakRx, HubInv
  <2>2. /\ r \in RxType /\ ~r.up /\ r.server = rx[c].server /\ r.got = rx[c].got
        /\ r.socket = rx[c].socket /\ r.channel = rx[c].channel
    BY <1>1 DEF RxType
  <2> HIDE DEF r
  <2>3. Flows(r, routed[c])
    BY <1>1, <2>2, FlowsUpTo DEF Flows
  <2> QED BY <2>1, <2>2, <2>3, OneFlow
<1> QED BY <1>2, <1>3, <1>4

LEMMA ForwardingFlows ==
  ASSUME HubInv, SenderType, FlowInv, NEW c \in RxIds, Forward(c)
  PROVE  FlowInv'
<1> DEFINE q == IF rx[c].up THEN Append(rx[c].socket, Head(rx[c].channel)) ELSE rx[c].socket
           t == Tail(rx[c].channel)
           r == [[rx[c] EXCEPT !.channel = t] EXCEPT !.socket = q]
<1>1. rx[c] \in RxType /\ routed[c] \in Seq(Nat) /\ Flows(rx[c], routed[c])
  BY FlowNow
<1>2. rx' = [rx EXCEPT ![c] = r] /\ rx[c].channel # <<>> /\ rx[c].server = "streaming"
      /\ UNCHANGED routed
  BY <1>1 DEF Forward, HubInv, RxType
<1>3. q \in Seq(Nat) /\ t \in Seq(Nat)
  BY <1>1, <1>2, FlowTypes, TailType
<1> HIDE DEF q, t
<1>4. /\ r \in RxType /\ r.server = rx[c].server /\ r.up = rx[c].up /\ r.got = rx[c].got
      /\ r.channel = t /\ r.socket = q
  BY <1>1, <1>3 DEF RxType
<1> HIDE DEF r
<1>5. Flows(r, routed[c])
  BY <1>1, <1>2, <1>4, ForwardFlows DEF q, t
<1> QED BY <1>2, <1>4, <1>5, OneFlow

LEMMA LoopFlows ==
  ASSUME HubInv, SenderType, FlowInv, NEW d \in Receivers,
         ConnectRx(d) \/ ReceiveFrame(d) \/ ReadFails(d)
  PROVE  FlowInv'
<1>1. CASE ConnectRx(d)
  <2> DEFINE c == LowestOf(UnusedRx)
             r == [[[Idle EXCEPT !.server = "requested"] EXCEPT !.device = d] EXCEPT !.up = TRUE]
  <2>1. rx' = [rx EXCEPT ![c] = r] /\ UNCHANGED routed /\ UnusedRx # {}
    BY <1>1 DEF ConnectRx
  <2>2. r \in RxType /\ r.got = <<>> /\ r.socket = <<>> /\ r.channel = <<>>
    <3>1. [Idle EXCEPT !.server = "requested"] \in RxType
      BY IdleType DEF RxType, ServerPlaces
    <3> QED BY <3>1 DEF RxType, Idle
  <2>3. c \in UnusedRx
    <3>1. UnusedRx \in SUBSET Nat
      BY RelayAssumption DEF UnusedRx, RxIds
    <3>2. \E e \in UnusedRx : \A f \in UnusedRx : e <= f
      BY <2>1, <3>1, LeastIs
    <3> QED BY <3>2 DEF LowestOf
  <2> HIDE DEF c, r
  <2>4. c \in RxIds /\ routed[c] = <<>>
    BY <2>3, FlowNow DEF UnusedRx, Flows
  <2> QED BY <2>1, <2>2, <2>4, EmptyFlows, OneFlow
<1>2. CASE ReceiveFrame(d) \/ ReadFails(d)
  <2> DEFINE c == reading[d]
  <2>1. c \in RxIds
    BY <1>2 DEF SenderType, ReceiveFrame, ReadFails
  <2>2. rx[c] \in RxType /\ routed[c] \in Seq(Nat) /\ Flows(rx[c], routed[c])
    BY <2>1, FlowNow
  <2>3. CASE ReceiveFrame(d)
    <3> DEFINE t == Tail(rx[c].socket)
               g == Append(rx[c].got, Head(rx[c].socket))
               r == [[rx[c] EXCEPT !.socket = t] EXCEPT !.got = g]
    <3>1. rx' = [rx EXCEPT ![c] = r] /\ rx[c].socket # <<>> /\ UNCHANGED routed
      BY <2>2, <2>3 DEF ReceiveFrame, HubInv, RxType
    <3>2. t \in Seq(Nat) /\ g \in Seq(Nat)
      <4>1. t \in Seq(Nat) /\ Head(rx[c].socket) \in Nat /\ rx[c].got \in Seq(Nat)
        BY <2>2, <3>1, FlowTypes, TailType
      <4> QED BY <4>1
    <3> HIDE DEF t, g
    <3>3. /\ r \in RxType /\ r.server = rx[c].server /\ r.up = rx[c].up
          /\ r.channel = rx[c].channel /\ r.got = g /\ r.socket = t
      BY <2>2, <3>2 DEF RxType
    <3> HIDE DEF r
    <3>4. Flows(r, routed[c])
      BY <2>2, <3>1, <3>3, ReceiveFlows DEF t, g
    <3> HIDE DEF c
    <3> QED BY <2>1, <3>1, <3>3, <3>4, OneFlow
  <2>4. CASE ReadFails(d)
    <3> DEFINE r == [rx[c] EXCEPT !.socket = <<>>]
    <3>1. rx' = [rx EXCEPT ![c] = r] /\ ~rx[c].up /\ UNCHANGED routed
      BY <2>4 DEF ReadFails, HubInv
    <3>2. /\ r \in RxType /\ r.server = rx[c].server /\ r.up = rx[c].up
          /\ r.channel = rx[c].channel /\ r.got = rx[c].got /\ r.socket = <<>>
      <4>1. <<>> \in Seq(Nat)
        OBVIOUS
      <4> QED BY <2>2, <4>1 DEF RxType
    <3> HIDE DEF r
    <3>3. Flows(r, routed[c])
      BY <2>2, <3>1, <3>2, ReadFailsFlows
    <3> HIDE DEF c
    <3> QED BY <2>1, <3>1, <3>2, <3>3, OneFlow
  <2> QED BY <1>2, <2>3, <2>4
<1> QED BY <1>1, <1>2

\* The task of a sending connection puts a number into a channel, or nowhere.
LEMMA RoutingFlows ==
  ASSUME HubInv, SenderType, FlowInv, NEW f \in Frames, NEW source, Route(f, source)
  PROVE  /\ FlowInv'
         /\ \/ UNCHANGED routed /\ ~Routable(f, source)
            \/ /\ Routable(f, source)
               /\ \E c \in RxIds : routed' = [routed EXCEPT ![c] = Append(routed[c], f.n)]
<1>1. CASE ~Routable(f, source)
  BY <1>1 DEF Route, FlowInv
<1>2. CASE Routable(f, source)
  <2> DEFINE c == peers[f.to]
             q == Append(rx[c].channel, f.n)
             r == [rx[c] EXCEPT !.channel = q]
             u == Append(routed[c], f.n)
  <2>1. c \in RxIds /\ f.n \in Nat /\ rx[c].server \in Open
    BY <1>2, FrameFields DEF Routable, HubInv, ChannelOpen, Open
  <2>2. rx[c] \in RxType /\ routed[c] \in Seq(Nat) /\ Flows(rx[c], routed[c])
        /\ rx[c].channel \in Seq(Nat)
    BY <2>1, FlowNow, FlowTypes
  <2>3. q \in Seq(Nat)
    BY <2>1, <2>2
  <2>4. rx' = [rx EXCEPT ![c] = r] /\ routed' = [routed EXCEPT ![c] = u]
    BY <1>2, <2>1, <2>2 DEF Route, HubInv, SenderType, RxType
  <2> HIDE DEF q, c
  <2>5. /\ r \in RxType /\ r.server = rx[c].server /\ r.up = rx[c].up /\ r.got = rx[c].got
        /\ r.socket = rx[c].socket /\ r.channel = q
    BY <2>2, <2>3 DEF RxType
  <2> HIDE DEF r, u
  <2>6. Flows(r, u)
    BY <2>1, <2>2, <2>5, RouteFlows DEF q, u
  <2>7. rx'[c] = r /\ routed'[c] = u
        /\ \A e \in RxIds \ {c} : rx'[e] = rx[e] /\ routed'[e] = routed[e]
    BY <2>1, <2>4 DEF HubInv, SenderType
  <2>8. FlowInv'
    BY <2>6, <2>7 DEF FlowInv
  <2> QED BY <1>2, <2>1, <2>4, <2>8 DEF u
<1> QED BY <1>1, <1>2

-----------------------------------------------------------------------------
(* The numbers of the frames: each is on one wire, or was routed once.     *)

OnWiresOnce ==
    /\ \A k \in TxIds : \A i \in DOMAIN tx[k].wire : tx[k].wire[i].n <= frames
    /\ \A k, l \in TxIds : \A i \in DOMAIN tx[k].wire, j \in DOMAIN tx[l].wire :
         tx[k].wire[i].n = tx[l].wire[j].n => k = l /\ i = j

NumbersInv ==
    /\ OnWiresOnce
    /\ \A c \in RxIds : \A n \in ToSet(routed[c]) :
         /\ n <= frames
         /\ \A k \in TxIds : \A i \in DOMAIN tx[k].wire : tx[k].wire[i].n # n
    /\ \A c, e \in RxIds : \A n \in ToSet(routed[c]) : n \in ToSet(routed[e]) => c = e

LEMMA SetOfAppend ==
  ASSUME NEW q \in Seq(Nat), NEW x \in Nat
  PROVE  ToSet(Append(q, x)) = ToSet(q) \cup {x}
<1>1. /\ DOMAIN q = 1..Len(q) /\ Len(q) \in Nat
      /\ DOMAIN Append(q, x) = 1..(Len(q) + 1)
      /\ \A i \in 1..Len(q) : Append(q, x)[i] = q[i]
      /\ Append(q, x)[Len(q) + 1] = x
  OBVIOUS
<1>2. \A i \in 1..(Len(q) + 1) : i = Len(q) + 1 \/ i \in 1..Len(q)
  BY <1>1
<1>3. Len(q) + 1 \in 1..(Len(q) + 1) /\ 1..Len(q) \subseteq 1..(Len(q) + 1)
  BY <1>1
<1> QED BY <1>1, <1>2, <1>3 DEF ToSet

\* A wire loses its head, everything, or nothing.
LEMMA WireShrinks ==
  ASSUME SenderType, NumbersInv, NEW k \in TxIds, NEW t \in TxType,
         tx' = [tx EXCEPT ![k] = t], NEW d \in {0, 1},
         \A i \in DOMAIN t.wire : i + d \in DOMAIN tx[k].wire /\ t.wire[i] = tx[k].wire[i + d],
         UNCHANGED frames
  PROVE  /\ OnWiresOnce'
         /\ UNCHANGED routed => NumbersInv'
<1>1. tx'[k] = t /\ \A l \in TxIds \ {k} : tx'[l] = tx[l]
  BY DEF SenderType
<1> DEFINE was(l, i) == IF l = k THEN i + d ELSE i
<1>2. \A l \in TxIds : \A i \in DOMAIN tx'[l].wire :
        was(l, i) \in DOMAIN tx[l].wire /\ tx'[l].wire[i] = tx[l].wire[was(l, i)]
  BY <1>1
<1>3. \A l \in TxIds : \A i, j \in DOMAIN tx'[l].wire : was(l, i) = was(l, j) => i = j
  <2>1. \A l \in TxIds : tx'[l].wire \in Seq(Frames)
    BY <1>1 DEF SenderType, TxType
  <2>2. \A l \in TxIds : \A i \in DOMAIN tx'[l].wire : i \in Nat
    BY <2>1
  <2> QED BY <2>2
<1> HIDE DEF was
<1>4. \A l, m \in TxIds : \A i \in DOMAIN tx'[l].wire, j \in DOMAIN tx'[m].wire :
        tx'[l].wire[i].n = tx'[m].wire[j].n => l = m /\ i = j
  BY <1>2, <1>3 DEF NumbersInv, OnWiresOnce
<1>5. \A l \in TxIds : \A i \in DOMAIN tx'[l].wire : tx'[l].wire[i].n <= frames'
  BY <1>2 DEF NumbersInv, OnWiresOnce
<1>6. UNCHANGED routed => \A c \in RxIds : \A n \in ToSet(routed'[c]) :
        /\ n <= frames'
        /\ \A l \in TxIds : \A i \in DOMAIN tx'[l].wire : tx'[l].wire[i].n # n
  BY <1>2 DEF NumbersInv, OnWiresOnce
<1> QED BY <1>4, <1>5, <1>6 DEF NumbersInv, OnWiresOnce

\* A new frame has a new number.
\* A frame with the next number goes on the wire of the connection k.
Grows(k, t, f) ==
    /\ tx' = [tx EXCEPT ![k] = t] /\ f.n = frames + 1 /\ frames' = frames + 1
    /\ t.wire = IF tx[k].up THEN Append(tx[k].wire, f) ELSE tx[k].wire
    /\ UNCHANGED routed

LEMMA WireGrows ==
  ASSUME SenderType, HubInv, NumbersInv, NEW k \in TxIds, NEW t \in TxType, NEW f \in Frames,
         Grows(k, t, f)
  PROVE  NumbersInv'
<1> USE DEF Grows
<1>1. tx'[k] = t /\ \A l \in TxIds \ {k} : tx'[l] = tx[l]
  BY DEF SenderType
<1>2. /\ \A l \in TxIds : tx[l].wire \in Seq(Frames) /\ routed \in [RxIds -> Seq(Nat)]
      /\ frames \in Nat
  BY DEF SenderType, TxType, HubInv
<1> DEFINE w == tx[k].wire
<1>3. \A i \in DOMAIN Append(w, f) :
        \/ i \in DOMAIN w /\ Append(w, f)[i] = w[i]
        \/ i = Len(w) + 1 /\ i \notin DOMAIN w /\ Append(w, f)[i] = f
  <2>1. w \in Seq(Frames)
    BY <1>2
  <2> QED BY <2>1
<1>4. \A l \in TxIds : \A i \in DOMAIN tx'[l].wire :
        \/ i \in DOMAIN tx[l].wire /\ tx'[l].wire[i] = tx[l].wire[i]
        \/ l = k /\ i = Len(w) + 1 /\ tx'[l].wire[i] = f
  BY <1>1, <1>3
<1>5. \A l \in TxIds : \A i \in DOMAIN tx[l].wire :
        tx[l].wire[i].n <= frames /\ tx[l].wire[i].n \in Nat
  <2>1. \A l \in TxIds : \A i \in DOMAIN tx[l].wire : tx[l].wire[i] \in Frames
    BY <1>2
  <2> QED BY <2>1, FrameFields DEF NumbersInv, OnWiresOnce
<1>6. \A l \in TxIds : \A i \in DOMAIN tx[l].wire : tx[l].wire[i].n # f.n
  BY <1>2, <1>5
<1>7. \A l, m \in TxIds : \A i \in DOMAIN tx'[l].wire, j \in DOMAIN tx'[m].wire :
        tx'[l].wire[i].n = tx'[m].wire[j].n => l = m /\ i = j
  BY <1>4, <1>6 DEF NumbersInv, OnWiresOnce
<1>8. \A l \in TxIds : \A i \in DOMAIN tx'[l].wire : tx'[l].wire[i].n <= frames'
  BY <1>2, <1>4, <1>5
<1>9. \A c \in RxIds : \A n \in ToSet(routed'[c]) :
        /\ n <= frames'
        /\ \A l \in TxIds : \A i \in DOMAIN tx'[l].wire : tx'[l].wire[i].n # n
  <2>1. \A c \in RxIds : \A n \in ToSet(routed[c]) : n \in Nat /\ n <= frames /\ n # f.n
    BY <1>2 DEF NumbersInv, ToSet
  <2> SUFFICES ASSUME NEW c \in RxIds, NEW n \in ToSet(routed[c])
               PROVE  /\ n <= frames + 1
                      /\ \A l \in TxIds : \A i \in DOMAIN tx'[l].wire : tx'[l].wire[i].n # n
    OBVIOUS
  <2>2. \A l \in TxIds : \A i \in DOMAIN tx[l].wire : tx[l].wire[i].n # n
    BY DEF NumbersInv
  <2>3. n <= frames + 1
    <3>1. frames \in Nat /\ n \in Nat /\ n <= frames
      BY <1>2, <2>1
    <3> QED BY <3>1
  <2> QED BY <1>4, <2>1, <2>2, <2>3
<1> QED BY <1>7, <1>8, <1>9 DEF NumbersInv, OnWiresOnce

\* A number leaves its wire for one channel at most.
LEMMA HandlingNumbers ==
  ASSUME SenderType, NumbersInv, NEW k \in TxIds, NEW t \in TxType,
         tx' = [tx EXCEPT ![k] = t], tx[k].wire # <<>>, t.wire = Tail(tx[k].wire),
         NEW f, f = Head(tx[k].wire), UNCHANGED frames,
         \/ UNCHANGED routed
         \/ \E c \in RxIds : routed' = [routed EXCEPT ![c] = Append(routed[c], f.n)]
  PROVE  NumbersInv'
<1>1. tx[k].wire \in Seq(Frames) /\ routed \in [RxIds -> Seq(Nat)]
  BY DEF SenderType, TxType
<1>2. /\ \A i \in DOMAIN t.wire : i + 1 \in DOMAIN tx[k].wire
                                  /\ t.wire[i] = tx[k].wire[i + 1] /\ i + 1 # 1
      /\ 1 \in DOMAIN tx[k].wire /\ f = tx[k].wire[1] /\ f \in Frames
  BY <1>1
<1>3. tx'[k] = t /\ \A l \in TxIds \ {k} : tx'[l] = tx[l]
  BY DEF SenderType
<1>4. CASE UNCHANGED routed
  BY <1>2, <1>4, WireShrinks
<1>5. ASSUME NEW c \in RxIds, routed' = [routed EXCEPT ![c] = Append(routed[c], f.n)]
      PROVE  NumbersInv'
  <2>1. f.n \in Nat /\ f.n <= frames
    BY <1>2, FrameFields DEF NumbersInv, OnWiresOnce
  <2>2. ToSet(routed'[c]) = ToSet(routed[c]) \cup {f.n}
        /\ \A e \in RxIds \ {c} : routed'[e] = routed[e]
    BY <1>1, <1>5, <2>1, SetOfAppend
  <2>3. \A i \in DOMAIN t.wire : t.wire[i].n # f.n
    BY <1>2 DEF NumbersInv, OnWiresOnce
  <2>4. \A l \in TxIds \ {k} : \A i \in DOMAIN tx[l].wire : tx[l].wire[i].n # f.n
    BY <1>2 DEF NumbersInv, OnWiresOnce
  <2>5. OnWiresOnce'
    BY <1>2, WireShrinks
  <2>6. ASSUME NEW e \in RxIds, NEW n \in ToSet(routed'[e])
        PROVE  /\ n <= frames'
               /\ \A l \in TxIds : \A i \in DOMAIN tx'[l].wire : tx'[l].wire[i].n # n
    <3>1. CASE n = f.n
      <4>1. n <= frames'
        BY <2>1, <3>1
      <4>2. ASSUME NEW l \in TxIds, NEW i \in DOMAIN tx'[l].wire PROVE tx'[l].wire[i].n # n
        <5>1. CASE l = k
          BY <1>3, <2>3, <3>1, <5>1
        <5>2. CASE l # k
          BY <1>3, <2>4, <3>1, <5>2
        <5> QED BY <5>1, <5>2
      <4> QED BY <4>1, <4>2
    <3>2. CASE n # f.n
      <4>1. n \in ToSet(routed[e])
        BY <2>2, <3>2
      <4>2. n <= frames'
        BY <4>1 DEF NumbersInv, OnWiresOnce
      <4>3. \A l \in TxIds : \A i \in DOMAIN tx[l].wire : tx[l].wire[i].n # n
        BY <4>1 DEF NumbersInv, OnWiresOnce
      <4>4. ASSUME NEW l \in TxIds, NEW i \in DOMAIN tx'[l].wire PROVE tx'[l].wire[i].n # n
        <5>1. CASE l = k
          <6>1. i + 1 \in DOMAIN tx[k].wire /\ t.wire[i] = tx[k].wire[i + 1]
            BY <1>2, <1>3, <5>1
          <6>2. tx'[l].wire[i] = tx[k].wire[i + 1]
            BY <1>3, <5>1, <6>1
          <6>3. tx[k].wire[i + 1].n # n
            BY <4>3, <6>1
          <6> QED BY <6>2, <6>3
        <5>2. CASE l # k
          BY <1>3, <4>3, <5>2
        <5> QED BY <5>1, <5>2
      <4> QED BY <4>2, <4>4
    <3> QED BY <3>1, <3>2
  <2>7. \A e \in RxIds : f.n \notin ToSet(routed[e])
    BY <1>2 DEF NumbersInv, OnWiresOnce
  <2>8. \A e, g \in RxIds : \A n \in ToSet(routed'[e]) : n \in ToSet(routed'[g]) => e = g
    BY <2>2, <2>7 DEF NumbersInv
  <2> QED BY <2>5, <2>6, <2>8 DEF NumbersInv
<1> QED BY <1>4, <1>5

-----------------------------------------------------------------------------
(* The answers a sender reads.                                             *)

WasRouted(n) == \E c \in RxIds : n \in ToSet(routed[c])

\* On the connection a sender holds, the frame awaited is on the wire or answered, and no
\* other.
Answering(t, a) ==
    /\ \A i \in DOMAIN t.acks : i = 1 /\ t.acks[i].n = a
    /\ \A i \in DOMAIN t.wire : t.wire[i].reliable => t.wire[i].n = a /\ t.acks = <<>>

\* An answer names a frame, and says of no frame that it was routed which was not.
Truthful(t) ==
    \A i \in DOMAIN t.acks : t.acks[i].n # 0 /\ (t.acks[i].ok => WasRouted(t.acks[i].n))

Answered(s) ==
    /\ holding[s] = 0 => awaiting[s] = 0
    /\ holding[s] # 0 =>
         /\ tx[holding[s]].source = s /\ tx[holding[s]].server # "none"
         /\ Answering(tx[holding[s]], awaiting[s])

AnswersInv ==
    /\ \A s \in Senders : Answered(s)
    /\ \A k \in TxIds : Truthful(tx[k])
    /\ \A n \in acked : WasRouted(n)

LEMMA TailOfOne ==
  ASSUME NEW q \in Seq(AckType), q # <<>>, Len(q) = 1
  PROVE  Tail(q) = <<>>
<1>1. Tail(q) \in Seq(AckType) /\ Len(Tail(q)) = 0
  BY HeadTailProperties
<1> QED BY <1>1, EmptySeq

LEMMA EmptyByDomain ==
  ASSUME NEW q \in Seq(AckType), \A i \in DOMAIN q : FALSE
  PROVE  q = <<>>
<1>1. Len(q) \in Nat /\ DOMAIN q = 1..Len(q)
  OBVIOUS
<1>2. Len(q) = 0
  <2>1. Len(q) \notin 1..Len(q)
    BY <1>1
  <2> QED BY <1>1, <2>1
<1> QED BY <1>2, EmptySeq

LEMMA NoAnswers ==
  ASSUME NEW t, t.acks = <<>>
  PROVE  Truthful(t) /\ (t.wire = <<>> => \A a : Answering(t, a))
<1>1. DOMAIN t.acks = {} /\ (t.wire = <<>> => DOMAIN t.wire = {})
  OBVIOUS
<1> QED BY <1>1 DEF Truthful, Answering

\* A step of a sender s: it changes one connection k, which no other sender holds.
StepOf(s, k, t, h, a) ==
    /\ tx' = [tx EXCEPT ![k] = t] /\ holding' = [holding EXCEPT ![s] = h]
    /\ awaiting' = [awaiting EXCEPT ![s] = a]
    /\ \A u \in Senders \ {s} : holding[u] # k
    /\ h = 0 => a = 0
    /\ h = k => t.source = s /\ t.server # "none" /\ Answering(t, a)
    /\ Truthful(t) /\ UNCHANGED routed /\ \A n \in acked' : WasRouted(n)

LEMMA SenderStep ==
  ASSUME SenderType, AnswersInv, NEW s \in Senders, NEW k \in TxIds, NEW t \in TxType,
         NEW h \in {0, k}, NEW a \in Nat, StepOf(s, k, t, h, a)
  PROVE  AnswersInv'
<1> USE DEF StepOf
<1>1. /\ tx'[k] = t /\ \A l \in TxIds \ {k} : tx'[l] = tx[l]
      /\ holding'[s] = h /\ awaiting'[s] = a
      /\ \A u \in Senders \ {s} : holding'[u] = holding[u] /\ awaiting'[u] = awaiting[u]
  BY DEF SenderType
<1>2. \A n : WasRouted(n)' <=> WasRouted(n)
  BY DEF WasRouted
<1>3. \A l \in TxIds : Truthful(tx[l])'
  BY <1>1, <1>2 DEF AnswersInv, Truthful
<1>4. Answered(s)'
  BY <1>1, TxIdsArePositive DEF Answered
<1>5. ASSUME NEW u \in Senders, u # s PROVE Answered(u)'
  <2>1. Answered(u) /\ holding[u] \in TxIds \cup {0} /\ holding[u] # k
    BY <1>5 DEF AnswersInv, SenderType
  <2>2. holding[u] # 0 => tx'[holding[u]] = tx[holding[u]]
    BY <1>1, <2>1
  <2> QED BY <1>1, <1>5, <2>1, <2>2 DEF Answered
<1> QED BY <1>2, <1>3, <1>4, <1>5 DEF AnswersInv

LEMMA OtherSenders ==
  ASSUME SenderType, AnswersInv, NEW s \in Senders, holding[s] # 0
  PROVE  /\ holding[s] \in TxIds
         /\ \A u \in Senders \ {s} : holding[u] # holding[s]
         /\ Answering(tx[holding[s]], awaiting[s])
         /\ tx[holding[s]].source = s /\ tx[holding[s]].server # "none"
  BY DEF AnswersInv, SenderType, Answered

LEMMA ForgettingAnswers ==
  ASSUME SenderType, AnswersInv, NEW s \in Senders, Forget(s), UNCHANGED <<routed, acked>>
  PROVE  AnswersInv'
<1> DEFINE k == holding[s]
<1>1. /\ holding' = [holding EXCEPT ![s] = 0]
      /\ awaiting' = [awaiting EXCEPT ![s] = 0]
      /\ tx' = [tx EXCEPT ![k].up = FALSE, ![k].acks = <<>>]
      /\ \A n \in acked' : WasRouted(n)
  BY DEF Forget, AnswersInv
<1>2. CASE k = 0
  <2>1. k \notin TxIds
    BY <1>2, TxIdsArePositive
  <2>2. tx' = tx /\ holding' = holding /\ awaiting' = awaiting
    BY <1>1, <1>2, <2>1 DEF SenderType, AnswersInv, Answered
  <2>3. \A n : WasRouted(n)' <=> WasRouted(n)
    BY DEF WasRouted
  <2> QED BY <2>2, <2>3 DEF AnswersInv, Truthful, Answered
<1>3. CASE k # 0
  <2>1. k \in TxIds /\ \A u \in Senders \ {s} : holding[u] # k
    BY <1>3, OtherSenders
  <2>2. tx' = [tx EXCEPT ![k] = Dropped(k)]
    BY <1>1, <2>1 DEF Dropped, SenderType, TxType
  <2> HIDE DEF k
  <2>3. Dropped(k) \in TxType /\ Dropped(k).acks = <<>>
    BY <2>1, DroppedType DEF Dropped, SenderType, TxType
  <2>4. Truthful(Dropped(k))
    BY <2>3, NoAnswers
  <2>5. 0 # k
    BY <1>3
  <2>6. StepOf(s, k, Dropped(k), 0, 0)
    BY <1>1, <2>1, <2>2, <2>3, <2>4, <2>5 DEF StepOf
  <2> QED BY <2>1, <2>2, <2>3, <2>4, <2>5, <2>6, SenderStep
<1> QED BY <1>2, <1>3

LEMMA SendingAnswers ==
  ASSUME SenderType, HubInv, AnswersInv, NEW s \in Senders, NEW reliable \in BOOLEAN,
         NEW to \in Receivers, SendFrame(s, reliable, to)
  PROVE  /\ AnswersInv'
         /\ NumbersInv => NumbersInv'
<1> DEFINE k == holding[s]
           f == [n |-> frames + 1, reliable |-> reliable, to |-> to]
           a == IF reliable THEN f.n ELSE 0
<1>1. /\ k # 0 /\ frames < MaxFrames /\ awaiting[s] = 0 /\ frames' = frames + 1
      /\ tx' = [tx EXCEPT ![k].wire = IF tx[k].up THEN Append(@, f) ELSE @]
      /\ awaiting' = [awaiting EXCEPT ![s] = a]
      /\ UNCHANGED <<holding, acked, routed>>
  BY DEF SendFrame
<1>2. f \in Frames /\ f.n \in Nat /\ f.n = frames + 1 /\ f.reliable = reliable /\ a \in Nat
  BY <1>1, RelayAssumption DEF HubInv, Frames
<1>3. a = IF f.reliable THEN f.n ELSE 0
  OBVIOUS
<1> HIDE DEF f, a
<1>4. k \in TxIds /\ \A u \in Senders \ {s} : holding[u] # k
  BY <1>1, OtherSenders
<1>5. Answering(tx[k], 0) /\ tx[k].source = s /\ tx[k].server # "none"
  BY <1>1, OtherSenders
<1>6. tx' = [tx EXCEPT ![k] = Sent(k, f)] /\ holding' = [holding EXCEPT ![s] = k]
  BY <1>1, <1>4 DEF Sent, SenderType, TxType
<1> HIDE DEF k
<1> DEFINE t == Sent(k, f)
<1>7. /\ t \in TxType /\ t.acks = tx[k].acks /\ t.source = s /\ t.server # "none"
      /\ t.wire = IF tx[k].up THEN Append(tx[k].wire, f) ELSE tx[k].wire
  BY <1>2, <1>4, <1>5, SentType
<1> HIDE DEF t
<1>8. Truthful(tx[k]) /\ Truthful(t)
  BY <1>4, <1>7 DEF AnswersInv, Truthful
<1>9. tx[k].acks = <<>> /\ tx[k].wire \in Seq(Frames)
  <2>1. tx[k].acks \in Seq(AckType) /\ tx[k].wire \in Seq(Frames)
    BY <1>4 DEF SenderType, TxType
  <2>2. \A i \in DOMAIN tx[k].acks : FALSE
    BY <1>5, <1>8 DEF Answering, Truthful
  <2> QED BY <2>1, <2>2, EmptyByDomain
<1>10. \A i \in DOMAIN tx[k].wire : ~tx[k].wire[i].reliable
  <2>1. \A i \in DOMAIN tx[k].wire : tx[k].wire[i] \in Frames
    BY <1>9
  <2> QED BY <1>5, <2>1, FrameFields DEF Answering
<1>11. \A i \in DOMAIN t.wire : t.wire[i].reliable => t.wire[i] = f
  <2>1. \A i \in DOMAIN Append(tx[k].wire, f) :
          \/ i \in DOMAIN tx[k].wire /\ Append(tx[k].wire, f)[i] = tx[k].wire[i]
          \/ Append(tx[k].wire, f)[i] = f
    BY <1>9
  <2> QED BY <1>7, <1>10, <2>1
<1>12. Answering(t, a)
  <2>1. DOMAIN t.acks = {}
    BY <1>7, <1>9
  <2> QED BY <1>3, <1>7, <1>9, <1>11, <2>1 DEF Answering
<1>13. AnswersInv'
  <2>1. \A n \in acked' : WasRouted(n)
    BY <1>1 DEF AnswersInv
  <2>2. k # 0 /\ k \in {0, k}
    BY <1>4, TxIdsArePositive
  <2>3. StepOf(s, k, t, k, a)
    BY <1>1, <1>4, <1>6, <1>7, <1>8, <1>12, <2>1, <2>2, <1>5 DEF StepOf, t
  <2> QED BY <1>2, <1>4, <1>7, <2>2, <2>3, SenderStep
<1>14. ASSUME NumbersInv PROVE NumbersInv'
  <2>1. tx' = [tx EXCEPT ![k] = t]
    BY <1>6 DEF t
  <2>2. Grows(k, t, f)
    BY <1>1, <1>2, <1>7, <2>1 DEF Grows
  <2> QED BY <1>2, <1>4, <1>7, <1>14, <2>2, WireGrows
<1> QED BY <1>13, <1>14

LEMMA ReadingAnswers ==
  ASSUME SenderType, AnswersInv, NEW s \in Senders, ReadAck(s)
  PROVE  AnswersInv'
<1> DEFINE k == holding[s]
<1>1. awaiting[s] # 0 /\ tx[k].acks # <<>> /\ UNCHANGED routed
  BY DEF ReadAck
<1>2. k # 0
  BY <1>1 DEF AnswersInv, Answered
<1>3. /\ k \in TxIds /\ \A u \in Senders \ {s} : holding[u] # k
      /\ Answering(tx[k], awaiting[s]) /\ tx[k].source = s /\ tx[k].server # "none"
      /\ Truthful(tx[k])
  BY <1>2, OtherSenders DEF AnswersInv
<1>4. CASE Head(tx[k].acks).ok /\ acked' = acked \cup {awaiting[s]}
           /\ awaiting' = [awaiting EXCEPT ![s] = 0]
           /\ tx' = [tx EXCEPT ![k].acks = Tail(@)] /\ holding' = holding
  <2>1. tx[k].acks \in Seq(AckType)
    BY <1>3 DEF SenderType, TxType
  <2>2. 1 \in DOMAIN tx[k].acks /\ Head(tx[k].acks) = tx[k].acks[1]
    BY <1>1, <2>1
  <2>3. WasRouted(awaiting[s])
    BY <1>3, <1>4, <2>2 DEF Answering, Truthful
  <2>4. Tail(tx[k].acks) = <<>>
    <3>1. DOMAIN tx[k].acks = 1..Len(tx[k].acks) /\ Len(tx[k].acks) \in Nat
      BY <2>1
    <3>2. Len(tx[k].acks) = 1
      <4>1. Len(tx[k].acks) \in DOMAIN tx[k].acks
        BY <2>2, <3>1
      <4> QED BY <1>3, <4>1 DEF Answering
    <3> QED BY <1>1, <2>1, <3>2, TailOfOne
  <2>5. tx' = [tx EXCEPT ![k] = Read(k)] /\ holding' = [holding EXCEPT ![s] = k]
    BY <1>3, <1>4 DEF Read, SenderType, TxType
  <2>6. \A n \in acked' : WasRouted(n)
    BY <1>4, <2>3 DEF AnswersInv
  <2>7. \A i \in DOMAIN tx[k].wire : ~tx[k].wire[i].reliable
    BY <1>1, <1>3 DEF Answering
  <2> HIDE DEF k
  <2> DEFINE t == Read(k)
  <2>8. /\ t \in TxType /\ t.acks = <<>> /\ t.source = s /\ t.server # "none"
        /\ t.wire = tx[k].wire
    BY <1>1, <1>3, <2>4, ReadType
  <2> HIDE DEF t
  <2>9. Truthful(t) /\ Answering(t, 0)
    <3>1. DOMAIN t.acks = {}
      BY <2>8
    <3> QED BY <2>7, <2>8, <3>1 DEF Answering, Truthful
  <2>10. k # 0 /\ k \in {0, k} /\ 0 \in Nat
    BY <1>3, TxIdsArePositive
  <2>11. StepOf(s, k, t, k, 0)
    BY <1>1, <1>3, <1>4, <2>5, <2>6, <2>8, <2>9, <2>10 DEF StepOf, t
  <2> QED BY <1>3, <2>8, <2>10, <2>11, SenderStep
<1>5. CASE Forget(s) /\ acked' = acked
  BY <1>1, <1>5, ForgettingAnswers
<1> QED BY <1>4, <1>5 DEF ReadAck

LEMMA ConnectingAnswers ==
  ASSUME SenderType, AnswersInv, NEW s \in Senders, ConnectTx(s)
  PROVE  /\ AnswersInv'
         /\ NumbersInv => NumbersInv'
<1> DEFINE k == LowestOf(UnusedTx)
<1>1. /\ tx' = [tx EXCEPT ![k] = Connected(s)] /\ UnusedTx # {} /\ holding[s] = 0
      /\ holding' = [holding EXCEPT ![s] = k]
      /\ UNCHANGED <<awaiting, acked, routed, frames>>
  BY DEF ConnectTx, Connected
<1>2. k \in TxIds /\ tx[k].server = "none"
  <2>1. UnusedTx \in SUBSET Nat
    BY RelayAssumption DEF UnusedTx, TxIds
  <2>2. \E e \in UnusedTx : \A f \in UnusedTx : e <= f
    BY <1>1, <2>1, LeastIs
  <2> QED BY <2>2 DEF LowestOf, UnusedTx
<1> HIDE DEF k
<1> DEFINE t == Connected(s)
<1>3. /\ t \in TxType /\ t.wire = <<>> /\ t.acks = <<>> /\ t.source = s /\ t.server # "none"
  BY ConnectedType
<1> HIDE DEF t
<1>4. Truthful(t) /\ \A a : Answering(t, a)
  BY <1>3, NoAnswers
<1>5. \A u \in Senders \ {s} : holding[u] # k
  BY <1>2, TxIdsArePositive DEF AnswersInv, Answered
<1>6. awaiting' = [awaiting EXCEPT ![s] = 0] /\ k # 0 /\ k \in {0, k} /\ 0 \in Nat
  BY <1>1, <1>2, TxIdsArePositive DEF AnswersInv, Answered, SenderType
<1>7. \A n \in acked' : WasRouted(n)
  BY <1>1 DEF AnswersInv
<1>8. AnswersInv'
  <2>1. StepOf(s, k, t, k, 0)
    BY <1>1, <1>3, <1>4, <1>5, <1>6, <1>7 DEF StepOf, t
  <2> QED BY <1>2, <1>3, <1>6, <2>1, SenderStep
<1>9. NumbersInv => NumbersInv'
  <2>1. \A i \in DOMAIN t.wire : FALSE
    BY <1>3
  <2> QED BY <1>1, <1>2, <1>3, <2>1, WireShrinks DEF t
<1> QED BY <1>8, <1>9

\* A step of the task of a connection, whoever holds it.
LEMMA TaskStep ==
  ASSUME SenderType, AnswersInv, NEW k \in TxIds, NEW t \in TxType,
         tx' = [tx EXCEPT ![k] = t], t.source = tx[k].source, t.server # "none",
         UNCHANGED <<holding, awaiting, acked>>,
         \A n : WasRouted(n) => WasRouted(n)',
         \A a \in Nat : Answering(tx[k], a) => Answering(t, a),
         Truthful(t)'
  PROVE  AnswersInv'
<1>1. tx'[k] = t /\ \A l \in TxIds \ {k} : tx'[l] = tx[l]
  BY DEF SenderType
<1>2. ASSUME NEW l \in TxIds PROVE Truthful(tx[l])'
  <2>1. CASE l = k
    BY <1>1, <2>1 DEF Truthful
  <2>2. CASE l # k
    <3>1. Truthful(tx[l]) /\ tx'[l] = tx[l]
      BY <1>1, <2>2 DEF AnswersInv
    <3> QED BY <3>1 DEF Truthful
  <2> QED BY <2>1, <2>2
<1>3. ASSUME NEW s \in Senders PROVE Answered(s)'
  <2>1. Answered(s) /\ holding[s] \in TxIds \cup {0} /\ awaiting[s] \in Nat
    BY DEF AnswersInv, SenderType
  <2>2. CASE holding[s] = k
    BY <1>1, <2>1, <2>2 DEF Answered
  <2>3. CASE holding[s] # k
    BY <1>1, <2>1, <2>3 DEF Answered
  <2> QED BY <2>2, <2>3
<1> QED BY <1>2, <1>3 DEF AnswersInv

LEMMA HandlingAnswers ==
  ASSUME SenderType, HubInv, FlowInv, NumbersInv, AnswersInv, NEW k \in TxIds, HandleFrame(k),
         NEW f, NEW ok, NEW t, f = Head(tx[k].wire), ok = Routable(f, tx[k].source),
         t = HandledNow(k, f, ok)
  PROVE  FlowInv' /\ NumbersInv' /\ AnswersInv'
<1>1. /\ tx[k].wire # <<>> /\ tx[k].server = "streaming"
      /\ Route(f, tx[k].source)
      /\ UNCHANGED <<holding, awaiting, acked, frames>>
  BY DEF HandleFrame
<1>2. ok \in BOOLEAN
  BY DEF Routable
<1>3. tx' = [tx EXCEPT ![k] = t]
  BY DEF HandleFrame, HandledNow, RequiresAck, SenderType, TxType
<1>4. /\ f \in Frames /\ t \in TxType /\ t.wire = Tail(tx[k].wire)
      /\ t.acks = IF f.reliable /\ tx[k].up THEN Append(tx[k].acks, [n |-> f.n, ok |-> ok])
                  ELSE tx[k].acks
      /\ t.server \in {tx[k].server, "ended"} /\ t.source = tx[k].source
  BY <1>1, <1>2, HandledType
<1>5. /\ tx[k].wire \in Seq(Frames) /\ tx[k].acks \in Seq(AckType)
      /\ f = tx[k].wire[1] /\ 1 \in DOMAIN tx[k].wire
      /\ \A i \in DOMAIN Tail(tx[k].wire) :
           i + 1 \in DOMAIN tx[k].wire /\ Tail(tx[k].wire)[i] = tx[k].wire[i + 1] /\ i + 1 # 1
  <2>1. tx[k].wire \in Seq(Frames) /\ tx[k].acks \in Seq(AckType)
    BY DEF SenderType, TxType
  <2> QED BY <1>1, <2>1
<1>6. /\ FlowInv'
      /\ \/ UNCHANGED routed /\ ~ok
         \/ ok /\ \E c \in RxIds : routed' = [routed EXCEPT ![c] = Append(routed[c], f.n)]
  BY <1>1, <1>4, RoutingFlows
<1>7. NumbersInv'
  BY <1>1, <1>3, <1>4, <1>6, HandlingNumbers
<1>8. f.n \in Nat /\ f.n # 0
  BY <1>4, FrameFields
<1>9. /\ \A n : WasRouted(n) => WasRouted(n)'
      /\ ok => WasRouted(f.n)'
  <2>1. CASE UNCHANGED routed /\ ~ok
    BY <2>1 DEF WasRouted
  <2>2. ASSUME NEW c \in RxIds, routed' = [routed EXCEPT ![c] = Append(routed[c], f.n)]
        PROVE  /\ \A n : WasRouted(n) => WasRouted(n)'
               /\ WasRouted(f.n)'
    <3>1. routed[c] \in Seq(Nat) /\ routed \in [RxIds -> Seq(Nat)]
      BY DEF SenderType
    <3>2. ToSet(routed'[c]) = ToSet(routed[c]) \cup {f.n}
          /\ \A e \in RxIds \ {c} : routed'[e] = routed[e]
      BY <1>8, <2>2, <3>1, SetOfAppend
    <3>3. WasRouted(f.n)'
      BY <3>2 DEF WasRouted
    <3>4. ASSUME NEW n, NEW e \in RxIds, n \in ToSet(routed[e]) PROVE n \in ToSet(routed'[e])
      BY <3>2, <3>4
    <3> QED BY <3>3, <3>4 DEF WasRouted
  <2> QED BY <1>6, <2>1, <2>2
<1>10. \A i \in DOMAIN t.acks :
         \/ i \in DOMAIN tx[k].acks /\ t.acks[i] = tx[k].acks[i]
         \/ /\ f.reliable /\ t.acks[i] = [n |-> f.n, ok |-> ok]
            /\ i = Len(tx[k].acks) + 1
  <2> DEFINE x == [n |-> f.n, ok |-> ok]
  <2>1. \A i \in DOMAIN Append(tx[k].acks, x) :
          \/ i \in DOMAIN tx[k].acks /\ Append(tx[k].acks, x)[i] = tx[k].acks[i]
          \/ Append(tx[k].acks, x)[i] = x /\ i = Len(tx[k].acks) + 1
    <3> HIDE DEF x
    <3> QED BY <1>5
  <2> HIDE DEF x
  <2>2. CASE f.reliable /\ tx[k].up
    <3>1. t.acks = Append(tx[k].acks, x)
      BY ONLY <1>4, <2>2 DEF x
    <3> QED BY ONLY <2>1, <2>2, <3>1 DEF x
  <2>3. CASE ~(f.reliable /\ tx[k].up)
    BY ONLY <1>4, <2>3
  <2> QED BY ONLY <2>2, <2>3
<1>11. Truthful(t)'
  <2>1. Truthful(tx[k])
    BY DEF AnswersInv
  <2>2. ASSUME NEW i \in DOMAIN t.acks
        PROVE  t.acks[i].n # 0 /\ (t.acks[i].ok => WasRouted(t.acks[i].n)')
    <3>1. CASE i \in DOMAIN tx[k].acks /\ t.acks[i] = tx[k].acks[i]
      <4>1. t.acks[i].n # 0 /\ (t.acks[i].ok => WasRouted(t.acks[i].n))
        BY <2>1, <3>1 DEF Truthful
      <4> QED BY <1>9, <4>1
    <3>2. CASE t.acks[i] = [n |-> f.n, ok |-> ok]
      <4>1. t.acks[i].n = f.n /\ t.acks[i].ok = ok
        BY ONLY <3>2
      <4>2. t.acks[i].n # 0
        BY ONLY <1>8, <4>1
      <4>3. t.acks[i].ok => WasRouted(t.acks[i].n)'
        BY ONLY <1>9, <4>1
      <4> QED BY ONLY <4>2, <4>3
    <3> QED BY <1>10, <3>1, <3>2
  <2> QED BY <2>2 DEF Truthful
<1>12. ASSUME NEW a \in Nat, Answering(tx[k], a) PROVE Answering(t, a)
  <2>1. f.reliable => f.n = a /\ tx[k].acks = <<>>
    BY <1>5, <1>12 DEF Answering
  <2>2. ASSUME NEW i \in DOMAIN t.acks PROVE i = 1 /\ t.acks[i].n = a
    <3>1. CASE i \in DOMAIN tx[k].acks /\ t.acks[i] = tx[k].acks[i]
      BY ONLY <1>12, <3>1 DEF Answering
    <3>2. CASE f.reliable /\ t.acks[i] = [n |-> f.n, ok |-> ok] /\ i = Len(tx[k].acks) + 1
      <4>1. f.n = a /\ Len(tx[k].acks) = 0
        BY ONLY <2>1, <3>2
      <4>2. t.acks[i].n = f.n
        BY ONLY <3>2
      <4> QED BY ONLY <3>2, <4>1, <4>2
    <3> QED BY ONLY <1>10, <2>2, <3>1, <3>2
  <2>3. ASSUME NEW i \in DOMAIN t.wire, t.wire[i].reliable
        PROVE  t.wire[i].n = a /\ t.acks = <<>>
    <3>1. i + 1 \in DOMAIN tx[k].wire /\ t.wire[i] = tx[k].wire[i + 1] /\ i + 1 # 1
      BY <1>4, <1>5
    <3>2. t.wire[i].n = a /\ tx[k].acks = <<>>
      BY <1>12, <2>3, <3>1 DEF Answering
    <3>3. f.n # t.wire[i].n
      <4>1. \A m, j \in DOMAIN tx[k].wire : tx[k].wire[m].n = tx[k].wire[j].n => m = j
        BY DEF NumbersInv, OnWiresOnce
      <4> QED BY ONLY <1>5, <3>1, <4>1
    <3>4. ~f.reliable
      BY <2>1, <3>2, <3>3
    <3> QED BY <1>4, <3>2, <3>4
  <2> QED BY <2>2, <2>3 DEF Answering
<1>13. t.server # "none"
  BY <1>1, <1>4
<1>14. AnswersInv'
  BY <1>1, <1>3, <1>4, <1>9, <1>11, <1>12, <1>13, TaskStep
<1> QED BY <1>6, <1>7, <1>14

LEMMA EndingAnswers ==
  ASSUME SenderType, HubInv, FlowInv, NumbersInv, AnswersInv, NEW k \in TxIds,
         SenderEnds(k) \/ BreakTx(k), NEW t, t = IF SenderEnds(k) THEN Closed(k) ELSE Broken(k)
  PROVE  FlowInv' /\ NumbersInv' /\ AnswersInv'
<1>1. /\ tx' = [tx EXCEPT ![k] = t]
      /\ UNCHANGED <<rx, routed, frames, holding, awaiting, acked>>
  BY DEF SenderEnds, BreakTx, Closed, Broken, SenderType
<1>2. /\ t \in TxType /\ t.acks = tx[k].acks /\ t.source = tx[k].source
      /\ t.wire = <<>> \/ t.wire = tx[k].wire
      /\ t.server \in {tx[k].server, "ended"}
  BY ClosedType, BrokenType
<1>3. \A i \in DOMAIN t.wire : i \in DOMAIN tx[k].wire /\ t.wire[i] = tx[k].wire[i]
  BY <1>2
<1>4. \A i \in DOMAIN t.wire : i + 0 = i
  <2>1. t.wire \in Seq(Frames)
    BY <1>2 DEF TxType
  <2> QED BY <2>1
<1>5. NumbersInv'
  <2>1. \A i \in DOMAIN t.wire : i + 0 \in DOMAIN tx[k].wire /\ t.wire[i] = tx[k].wire[i + 0]
    BY <1>3, <1>4
  <2>2. 0 \in {0, 1}
    OBVIOUS
  <2> QED BY <1>1, <1>2, <2>1, <2>2, WireShrinks
<1>6. \A n : WasRouted(n)' <=> WasRouted(n)
  BY <1>1 DEF WasRouted
<1>7. Truthful(t)'
  BY <1>2, <1>6 DEF AnswersInv, Truthful
<1>8. \A a \in Nat : Answering(tx[k], a) => Answering(t, a)
  BY <1>2, <1>3 DEF Answering
<1>9. t.server = "none" => tx[k].server = "none"
  BY <1>2
<1>10. AnswersInv'
  <2>1. ASSUME NEW l \in TxIds PROVE Truthful(tx[l])'
    <3>1. CASE l = k
      BY <1>1, <1>7, <3>1 DEF Truthful, SenderType
    <3>2. CASE l # k
      BY <1>1, <1>6, <3>2 DEF AnswersInv, Truthful, SenderType
    <3> QED BY <3>1, <3>2
  <2>2. ASSUME NEW s \in Senders PROVE Answered(s)'
    <3>1. Answered(s) /\ holding[s] \in TxIds \cup {0} /\ awaiting[s] \in Nat
      BY DEF AnswersInv, SenderType
    <3>2. CASE holding[s] = k
      BY <1>1, <1>2, <1>8, <1>9, <3>1, <3>2 DEF Answered, SenderType
    <3>3. CASE holding[s] # k
      BY <1>1, <3>1, <3>3 DEF Answered, SenderType
    <3> QED BY <3>2, <3>3
  <2> QED BY <1>1, <1>6, <2>1, <2>2 DEF AnswersInv
<1> QED BY <1>1, <1>5, <1>10 DEF FlowInv

\* Steps of the receiving side change neither a wire, an answer nor what was routed.
LEMMA ElsewhereAnswers ==
  ASSUME NumbersInv, AnswersInv, UNCHANGED <<tx, holding, awaiting, routed, frames, acked>>
  PROVE  NumbersInv' /\ AnswersInv'
<1>1. \A n : WasRouted(n)' <=> WasRouted(n)
  BY DEF WasRouted
<1> QED BY <1>1 DEF NumbersInv, OnWiresOnce, AnswersInv, Truthful, Answered

RelayInv == SenderType /\ HubInv /\ FlowInv /\ NumbersInv /\ AnswersInv

LEMMA InitRelay == Init => RelayInv
<1> SUFFICES ASSUME Init PROVE FlowInv /\ NumbersInv /\ AnswersInv
  BY InitHub, InitSender DEF RelayInv
<1>1. /\ rx = [c \in RxIds |-> Idle] /\ routed = [c \in RxIds |-> <<>>]
      /\ tx = [k \in TxIds |-> Unused] /\ acked = {}
      /\ holding = [s \in Senders |-> 0] /\ awaiting = [s \in Senders |-> 0]
  BY DEF Init
<1>2. /\ Idle \in RxType /\ Idle.got = <<>> /\ Idle.socket = <<>> /\ Idle.channel = <<>>
      /\ Unused.wire = <<>> /\ Unused.acks = <<>>
  BY IdleType, UnusedType DEF Idle
<1>3. FlowInv
  BY <1>1, <1>2, EmptyFlows DEF FlowInv
<1>4. \A k \in TxIds : Truthful(tx[k]) /\ DOMAIN tx[k].wire = {}
  BY <1>1, <1>2, NoAnswers
<1>5. \A c \in RxIds : ToSet(routed[c]) = {}
  BY <1>1 DEF ToSet
<1>6. NumbersInv
  BY <1>4, <1>5 DEF NumbersInv, OnWiresOnce
<1>7. AnswersInv
  BY <1>1, <1>4 DEF AnswersInv, Answered
<1> QED BY <1>3, <1>6, <1>7

LEMMA RelayInvStep == RelayInv /\ [Next]_vars => RelayInv'
<1> SUFFICES ASSUME RelayInv, [Next]_vars PROVE FlowInv' /\ NumbersInv' /\ AnswersInv'
  BY RelayStep DEF RelayInv
<1> USE DEF RelayInv
<1>1. ASSUME NEW d \in Receivers, ConnectRx(d) \/ ReceiveFrame(d) \/ ReadFails(d)
      PROVE  FlowInv' /\ NumbersInv' /\ AnswersInv'
  <2>1. UNCHANGED <<tx, holding, awaiting, routed, frames, acked>>
    BY <1>1 DEF ConnectRx, ReceiveFrame, ReadFails
  <2> QED BY <1>1, <2>1, LoopFlows, ElsewhereAnswers
<1>2. ASSUME NEW c \in RxIds,
             \/ AcceptRx(c) \/ RefuseRx(c) \/ Upgrade(c) \/ UpgradeFails(c)
             \/ Forward(c) \/ StreamEnds(c) \/ BreakRx(c)
      PROVE  FlowInv' /\ NumbersInv' /\ AnswersInv'
  <2>1. UNCHANGED <<tx, holding, awaiting, routed, frames, acked>>
    BY <1>2 DEF AcceptRx, RefuseRx, Upgrade, UpgradeFails, Forward, StreamEnds, BreakRx
  <2>2. FlowInv'
    BY <1>2, AcceptingFlows, ServedFlows, ForwardingFlows
  <2> QED BY <2>1, <2>2, ElsewhereAnswers
<1>3. ASSUME NEW s \in Senders, ConnectTx(s) \/ ReadAck(s) \/ AckFails(s) \/ SendFails(s)
      PROVE  FlowInv' /\ NumbersInv' /\ AnswersInv'
  <2>1. FlowInv'
    BY <1>3 DEF FlowInv, ConnectTx, ReadAck, AckFails, SendFails
  <2>2. CASE ConnectTx(s)
    BY <2>1, <2>2, ConnectingAnswers
  <2>3. CASE ReadAck(s) \/ AckFails(s) \/ SendFails(s)
    <3>1. AnswersInv'
      BY <2>3, ReadingAnswers, ForgettingAnswers DEF AckFails, SendFails
    <3>2. NumbersInv'
      <4>1. UNCHANGED <<routed, frames>>
        BY <2>3 DEF ReadAck, AckFails, SendFails
      <4>2. ASSUME NEW k \in TxIds PROVE tx'[k].wire = tx[k].wire
        <5>1. \/ tx' = [tx EXCEPT ![holding[s]].acks = Tail(@)]
              \/ tx' = [tx EXCEPT ![holding[s]].up = FALSE, ![holding[s]].acks = <<>>]
          BY <2>3 DEF ReadAck, AckFails, SendFails, Forget
        <5>2. tx \in [TxIds -> TxType] /\ tx[k] \in TxType
          BY DEF SenderType
        <5>3. CASE k = holding[s]
          <6>1. CASE tx' = [tx EXCEPT ![holding[s]].acks = Tail(@)]
            <7>1. tx'[k] = [tx[k] EXCEPT !.acks = Tail(@)]
              BY ONLY <5>2, <5>3, <6>1
            <7> QED BY ONLY <5>2, <7>1 DEF TxType
          <6>2. CASE tx' = [tx EXCEPT ![holding[s]].up = FALSE, ![holding[s]].acks = <<>>]
            <7>1. tx'[k] = [tx[k] EXCEPT !.up = FALSE, !.acks = <<>>]
              BY ONLY <5>2, <5>3, <6>2
            <7> QED BY ONLY <5>2, <7>1 DEF TxType
          <6> QED BY ONLY <5>1, <6>1, <6>2
        <5>4. CASE k # holding[s]
          BY <5>1, <5>2, <5>4
        <5> QED BY <5>3, <5>4
      <4> QED BY <4>1, <4>2 DEF NumbersInv, OnWiresOnce
    <3> QED BY <2>1, <3>1, <3>2
  <2> QED BY <1>3, <2>2, <2>3
<1>4. ASSUME NEW s \in Senders, NEW reliable \in BOOLEAN, NEW to \in Receivers,
             SendFrame(s, reliable, to)
      PROVE  FlowInv' /\ NumbersInv' /\ AnswersInv'
  <2>1. FlowInv'
    BY <1>4 DEF FlowInv, SendFrame
  <2> QED BY <1>4, <2>1, SendingAnswers
<1>5. ASSUME NEW k \in TxIds, HandleFrame(k) \/ SenderEnds(k) \/ BreakTx(k)
      PROVE  FlowInv' /\ NumbersInv' /\ AnswersInv'
  <2>1. CASE HandleFrame(k)
    <3>1. \E f, ok, t : /\ f = Head(tx[k].wire) /\ ok = Routable(f, tx[k].source)
                       /\ t = HandledNow(k, f, ok)
      OBVIOUS
    <3> QED BY <2>1, <3>1, HandlingAnswers
  <2>2. CASE SenderEnds(k) \/ BreakTx(k)
    <3>1. \E t : t = IF SenderEnds(k) THEN Closed(k) ELSE Broken(k)
      OBVIOUS
    <3> QED BY <2>2, <3>1, EndingAnswers
  <2> QED BY <1>5, <2>1, <2>2
<1>6. CASE (\E d \in RelayDevices : Switch(d)) \/ UNCHANGED vars
  <2>1. UNCHANGED <<tx, holding, awaiting, routed, frames, acked, rx>>
    BY <1>6 DEF Switch, vars
  <2> QED BY <2>1, ElsewhereAnswers DEF FlowInv
<1>7. CASE Next
  BY <1>7, <1>1, <1>2, <1>3, <1>4, <1>5, <1>6 DEF Next
<1> QED BY <1>6, <1>7

\* The end of an older connection never takes the registration of the connection the
\* server accepted last, however accepting, upgrading and ending interleave
\* (unregister_if_current).
THEOREM NewestStays == Spec => []NewestRouted
<1>1. SenderType /\ HubInv => NewestRouted
  BY DEF HubInv
<1> QED BY InitHub, InitSender, RelayStep, <1>1, PTL DEF Spec

\* What the hub put into a channel comes out at the receive loop, in that order and
\* without a gap, up to where the connection broke.
THEOREM RelayConserves == Spec => []RelayConserved
<1>1. RelayInv => RelayConserved
  <2> SUFFICES ASSUME RelayInv, NEW c \in RxIds
               PROVE  IF Intact(c) THEN Through(c) = routed[c]
                      ELSE IsPrefix(rx[c].got, routed[c])
    BY DEF RelayConserved
  <2>1. rx[c] \in RxType /\ routed[c] \in Seq(Nat) /\ Flows(rx[c], routed[c])
    BY FlowNow DEF RelayInv
  <2>2. CASE Intact(c)
    BY <2>1, <2>2 DEF Intact, Through, Flows, Open
  <2>3. IsPrefix(rx[c].got, routed[c])
    <3>1. rx[c].got \in Seq(Nat) /\ rx[c].socket \in Seq(Nat)
      BY <2>1, FlowTypes
    <3>2. PICK cut \in Seq(Nat) : (rx[c].got \o rx[c].socket) \o cut = routed[c]
      BY <2>1, FlowsUpTo
    <3>3. routed[c] = rx[c].got \o (rx[c].socket \o cut) /\ rx[c].socket \o cut \in Seq(Nat)
      <4>1. \A a, b, u \in Seq(Nat) : a \o (b \o u) = (a \o b) \o u /\ b \o u \in Seq(Nat)
        BY Regroup
      <4> QED BY <3>1, <3>2, <4>1
    <3>4. \A a, b \in Seq(Nat) : IsPrefix(a, a \o b)
      <4> SUFFICES ASSUME NEW a \in Seq(Nat), NEW b \in Seq(Nat) PROVE IsPrefix(a, a \o b)
        OBVIOUS
      <4>1. /\ Len(a) \in Nat /\ Len(a \o b) = Len(a) + Len(b) /\ Len(b) \in Nat
            /\ \A i \in 1..Len(a) : (a \o b)[i] = a[i]
            /\ a \o b \in Seq(Nat)
        OBVIOUS
      <4>2. SubSeq(a \o b, 1, Len(a)) = SubSeq(a, 1, Len(a))
        BY <4>1
      <4> QED BY <4>1, <4>2 DEF IsPrefix
    <3> QED BY <3>1, <3>3, <3>4
  <2> QED BY <2>2, <2>3
<1> QED BY InitRelay, RelayInvStep, <1>1, PTL DEF Spec

\* The answer a sender reads is the one to the frame it waits for.
THEOREM AnswersMatch == Spec => []AckMatches
<1>1. RelayInv => AckMatches
  BY DEF RelayInv, AnswersInv, Answered, Answering, AckMatches
<1> QED BY InitRelay, RelayInvStep, <1>1, PTL DEF Spec

\* A frame the sender was told is routed was put into one channel, once for all
\* connections, and has not been lost while that connection lives: the answers of
\* send_frame are worth what they say, over any breaks, refusals and late handling.
THEOREM AckedIsOnItsWay == Spec => []AckedOnItsWay
<1>1. RelayInv => AckedOnItsWay
  <2> SUFFICES ASSUME RelayInv, NEW n \in acked
               PROVE  \E c \in RxIds :
                        /\ n \in ToSet(routed[c])
                        /\ Intact(c) => n \in ToSet(Through(c))
                        /\ \A e \in RxIds \ {c} : n \notin ToSet(routed[e])
    BY DEF AckedOnItsWay
  <2>1. PICK c \in RxIds : n \in ToSet(routed[c])
    BY DEF RelayInv, AnswersInv, WasRouted
  <2>2. Intact(c) => Through(c) = routed[c]
    BY FlowNow DEF RelayInv, Intact, Through, Flows, Open
  <2>3. \A e \in RxIds \ {c} : n \notin ToSet(routed[e])
    BY <2>1 DEF RelayInv, NumbersInv
  <2> QED BY <2>1, <2>2, <2>3
<1> QED BY InitRelay, RelayInvStep, <1>1, PTL DEF Spec

-----------------------------------------------------------------------------
(* The clipboard.                                                          *)

ContentType == [text : Texts \cup {Nothing}, copy : Nat, at : Devices]

WatchType ==
  [pc : {"waiting", "handling", "ended"}, last : ContentType, changed : BOOLEAN,
   seen : ContentType \cup {Nothing}, version : Nat, start : Nat, linked : BOOLEAN]

FrameType == [source : Devices \X Nat, version : Nat, content : ContentType]

\* A content was copied on d or on a device before it.
From(rank, content, d) == content.at = d \/ rank[content.at] < rank[d]

ClipboardTypeOK ==
  /\ links \in Links
  /\ clip \in [Devices -> ContentType] /\ copies \in Nat
  /\ watch \in [Devices -> WatchType]
  /\ wire \in [Devices -> Seq(FrameType)] /\ queue \in [Devices -> Seq(FrameType)]

\* What d has, and what it is about to send or has sent.
Behind(rank, d) ==
  /\ From(rank, clip[d], d) /\ (clip[d].at = d => clip[d].copy <= copies)
  /\ watch[d].pc = "handling" =>
       d \in Watchers /\ watch[d].seen \in ContentType /\ From(rank, watch[d].seen, d)
  /\ wire[d] # <<>> => d \in Watchers
  /\ \A i \in DOMAIN wire[d] : From(rank, wire[d][i].content, d)

\* What waits for the clipboard thread of d was copied on a device before d.
Onward(rank, d) == \A i \in DOMAIN queue[d] : rank[queue[d][i].content.at] < rank[d]

OnwardInv(rank) ==
  ClipboardTypeOK /\ \A d \in Devices : Behind(rank, d) /\ Onward(rank, d)

LEMMA TargetIs ==
  ASSUME links \in Links, NEW d \in Watchers
  PROVE  d \in Devices /\ Target(d) \in Devices /\ <<d, Target(d)>> \in links
<1>1. PICK l \in links : d = l[1]
  BY DEF Watchers
<1>2. l \in Devices \X Devices
  BY ClipboardAssumption
<1>3. d \in Devices /\ \E e \in Devices : <<d, e>> \in links
  BY <1>1, <1>2
<1> QED BY <1>3 DEF Target

LEMMA InitOnward ==
  ASSUME NEW rank \in [Devices -> Nat], ClipboardInit
  PROVE  OnwardInv(rank)
<1>1. clip \in [Devices -> ContentType]
  BY DEF ClipboardInit, ContentType
<1>2. \A d \in Devices : Watching(clip[d], 1) \in WatchType
  BY <1>1 DEF Watching, WatchType
<1>3. watch \in [Devices -> WatchType]
  BY <1>2 DEF ClipboardInit
<1>4. wire \in [Devices -> Seq(FrameType)] /\ queue \in [Devices -> Seq(FrameType)]
  BY DEF ClipboardInit
<1>5. ClipboardTypeOK
  BY <1>1, <1>3, <1>4 DEF ClipboardInit, ClipboardTypeOK
<1>6. ASSUME NEW d \in Devices PROVE Behind(rank, d) /\ Onward(rank, d)
  <2>1. /\ clip[d].at = d /\ clip[d].copy = 0 /\ copies = 0 /\ watch[d].pc = "waiting"
        /\ wire[d] = <<>> /\ queue[d] = <<>>
    BY DEF ClipboardInit, Watching
  <2> QED BY <2>1 DEF Behind, Onward, From
<1> QED BY <1>5, <1>6 DEF OnwardInv

\* The clipboard of a device is set; its watch process may be told.
LEMMA SetClipIs ==
  ASSUME ClipboardTypeOK, NEW e \in Devices, NEW content \in ContentType, SetClip(e, content)
  PROVE  /\ clip' \in [Devices -> ContentType] /\ watch' \in [Devices -> WatchType]
         /\ clip'[e] = content /\ \A d \in Devices \ {e} : clip'[d] = clip[d]
         /\ \A d \in Devices : watch'[d].pc = watch[d].pc /\ watch'[d].seen = watch[d].seen
<1>1. watch' = [watch EXCEPT ![e] = [watch[e] EXCEPT !.changed = TRUE]]
  BY DEF SetClip, ClipboardTypeOK
<1>2. [watch[e] EXCEPT !.changed = TRUE] \in WatchType
  BY DEF ClipboardTypeOK, WatchType
<1> QED BY <1>1, <1>2 DEF SetClip, ClipboardTypeOK, WatchType

\* Steps of the watch process of d that set no clipboard and send nothing.
LEMMA WatchKeepsOnward ==
  ASSUME NEW rank \in [Devices -> Nat], OnwardInv(rank), NEW d \in Devices, NEW w \in WatchType,
         watch' = [watch EXCEPT ![d] = w],
         w.pc = "handling" =>
           d \in Watchers /\ w.seen \in ContentType /\ From(rank, w.seen, d),
         UNCHANGED <<links, clip, wire, queue, copies>>
  PROVE  OnwardInv(rank)'
<1>1. ClipboardTypeOK'
  BY DEF OnwardInv, ClipboardTypeOK
<1>2. ASSUME NEW e \in Devices PROVE Behind(rank, e)' /\ Onward(rank, e)'
  <2>1. watch'[e] = IF e = d THEN w ELSE watch[e]
    BY DEF OnwardInv, ClipboardTypeOK
  <2> QED BY <2>1 DEF OnwardInv, Behind, Onward, Watchers
<1> QED BY <1>1, <1>2 DEF OnwardInv

LEMMA HandledIs ==
  ASSUME ClipboardTypeOK, NEW d \in Devices, watch[d].pc = "handling",
         watch[d].seen \in ContentType
  PROVE  \E w \in WatchType : Handled(d) = [watch EXCEPT ![d] = w] /\ w.pc = "waiting"
                              /\ w.version = watch[d].version
<1> DEFINE w == [watch[d] EXCEPT !.pc = "waiting", !.last = watch[d].seen, !.changed = FALSE,
                                 !.seen = Nothing]
<1>1. w \in WatchType /\ w.pc = "waiting" /\ w.version = watch[d].version
  BY DEF ClipboardTypeOK, WatchType
<1>2. Handled(d) = [watch EXCEPT ![d] = w]
  BY DEF Handled, ClipboardTypeOK
<1> QED BY <1>1, <1>2

LEMMA WatcherKeepsOnward ==
  ASSUME NEW rank \in [Devices -> Nat], OnwardInv(rank), NEW d \in Devices,
         \/ Notice(d) \/ WatchFails(d) \/ WatchStarts(d)
         \/ \E sensitive \in BOOLEAN : Skip(d, sensitive)
  PROVE  OnwardInv(rank)'
<1>1. watch[d] \in WatchType /\ clip[d] \in ContentType /\ ClipboardTypeOK
      /\ DOMAIN watch = Devices
  BY DEF OnwardInv, ClipboardTypeOK
<1>2. UNCHANGED <<links, clip, wire, queue, copies>>
  BY DEF Notice, WatchFails, WatchStarts, Skip, faultVars
<1>3. CASE Notice(d)
  <2>1. CASE clip[d].text = watch[d].last.text
    <3> DEFINE w == [watch[d] EXCEPT !.changed = FALSE]
    <3>1. w \in WatchType /\ w.pc = "waiting" /\ watch' = [watch EXCEPT ![d] = w]
      BY <1>1, <1>3, <2>1 DEF Notice, WatchType
    <3> HIDE DEF w
    <3> QED BY <1>2, <3>1, WatchKeepsOnward
  <2>2. CASE clip[d].text # watch[d].last.text
    <3> DEFINE w == [watch[d] EXCEPT !.pc = "handling", !.seen = clip[d]]
    <3>1. w \in WatchType /\ w.seen = clip[d] /\ watch' = [watch EXCEPT ![d] = w]
          /\ d \in Watchers
      BY <1>1, <1>3, <2>2 DEF Notice, WatchType
    <3>2. From(rank, clip[d], d)
      BY DEF OnwardInv, Behind
    <3> HIDE DEF w
    <3> QED BY <1>1, <1>2, <3>1, <3>2, WatchKeepsOnward
  <2> QED BY <2>1, <2>2
<1>4. CASE WatchFails(d)
  <2> DEFINE w == [watch[d] EXCEPT !.pc = "ended"]
  <2>1. w \in WatchType /\ w.pc = "ended" /\ watch' = [watch EXCEPT ![d] = w]
    BY <1>1, <1>4 DEF WatchFails, WatchType
  <2> HIDE DEF w
  <2> QED BY <1>2, <2>1, WatchKeepsOnward
<1>5. CASE WatchStarts(d)
  <2> DEFINE w == Watching(clip[d], watch[d].start + 1)
  <2>1. watch[d].start \in Nat
    BY <1>1 DEF WatchType
  <2>2. w \in WatchType /\ w.pc = "waiting" /\ watch' = [watch EXCEPT ![d] = w]
    BY <1>1, <1>5, <2>1 DEF WatchStarts, WatchType, Watching
  <2> HIDE DEF w
  <2> QED BY <1>2, <2>2, WatchKeepsOnward
<1>6. CASE \E sensitive \in BOOLEAN : Skip(d, sensitive)
  <2>1. watch[d].pc = "handling" /\ watch' = Handled(d) /\ watch[d].seen \in ContentType
    BY <1>6 DEF Skip, OnwardInv, Behind
  <2>2. PICK w \in WatchType : Handled(d) = [watch EXCEPT ![d] = w] /\ w.pc = "waiting"
    BY <1>1, <2>1, HandledIs
  <2> QED BY <1>2, <2>1, <2>2, WatchKeepsOnward
<1> QED BY <1>3, <1>4, <1>5, <1>6

LEMMA SendKeepsOnward ==
  ASSUME NEW rank \in [Devices -> Nat], OnwardInv(rank), NEW d \in Devices, SendChange(d)
  PROVE  OnwardInv(rank)'
<1>1. /\ watch[d].pc = "handling" /\ watch[d].seen \in ContentType /\ d \in Watchers
      /\ From(rank, watch[d].seen, d) /\ ClipboardTypeOK
      /\ UNCHANGED <<links, clip, queue, copies>>
  BY DEF SendChange, OnwardInv, Behind, faultVars
<1>2. watch[d] \in WatchType /\ watch[d].version \in Nat /\ wire[d] \in Seq(FrameType)
      /\ DOMAIN watch = Devices /\ DOMAIN wire = Devices
  BY <1>1 DEF ClipboardTypeOK, WatchType
<1>3. Frame(d) \in FrameType /\ Frame(d).content = watch[d].seen
  BY <1>1, <1>2 DEF Frame, FrameType, WatchType
<1>4. PICK v \in WatchType : Handled(d) = [watch EXCEPT ![d] = v] /\ v.pc = "waiting"
                             /\ v.version = watch[d].version
  BY <1>1, HandledIs
<1> DEFINE w == [v EXCEPT !.version = v.version + 1]
<1>5. w \in WatchType /\ w.pc = "waiting"
  <2>1. v.version + 1 \in Nat
    BY <1>2, <1>4
  <2> QED BY <1>4, <2>1 DEF WatchType
<1>6. watch' = [watch EXCEPT ![d] = w]
  BY <1>2, <1>4 DEF SendChange
<1> HIDE DEF w
<1> DEFINE p == wire'[d]
<1>7. /\ wire' = [wire EXCEPT ![d] = p]
      /\ p = wire[d] \/ p = Append(wire[d], Frame(d))
  <2>1. CASE watch[d].linked
    <3>1. wire' = [wire EXCEPT ![d] = Append(wire[d], Frame(d))]
      BY <2>1 DEF SendChange
    <3> QED BY <1>2, <3>1
  <2>2. CASE ~watch[d].linked
    <3>1. wire' = wire /\ wire \in [Devices -> Seq(FrameType)]
      BY <1>1, <2>2 DEF SendChange, ClipboardTypeOK
    <3> QED BY <3>1
  <2> QED BY <2>1, <2>2
<1> HIDE DEF p
<1>8. p \in Seq(FrameType) /\ \A i \in DOMAIN p : From(rank, p[i].content, d)
  <2>1. \A i \in DOMAIN wire[d] : From(rank, wire[d][i].content, d)
    BY DEF OnwardInv, Behind
  <2>2. CASE p = wire[d]
    BY <1>2, <2>1, <2>2
  <2>3. CASE p = Append(wire[d], Frame(d))
    <3>1. p \in Seq(FrameType)
      BY <1>2, <1>3, <2>3
    <3>2. \A i \in DOMAIN p : \/ i \in DOMAIN wire[d] /\ p[i] = wire[d][i]
                              \/ p[i] = Frame(d)
      BY <1>2, <1>3, <2>3
    <3> QED BY <1>1, <1>3, <2>1, <3>1, <3>2
  <2> QED BY <1>7, <2>2, <2>3
<1>9. ClipboardTypeOK'
  BY <1>1, <1>5, <1>6, <1>7, <1>8 DEF ClipboardTypeOK
<1>10. ASSUME NEW e \in Devices PROVE Behind(rank, e)' /\ Onward(rank, e)'
  <2>1. /\ watch'[e] = IF e = d THEN w ELSE watch[e]
        /\ wire'[e] = IF e = d THEN p ELSE wire[e]
    BY <1>2, <1>6, <1>7
  <2> QED BY <1>1, <1>5, <1>8, <2>1 DEF OnwardInv, Behind, Onward, Watchers
<1> QED BY <1>9, <1>10 DEF OnwardInv

\* A frame that goes from the wire of d into the queue of its target, or is dropped there.
LEMMA ReceiveKeepsOnward ==
  ASSUME NEW rank \in [Devices -> Nat], \A ls \in Links : \A l \in ls : rank[l[1]] < rank[l[2]],
         OnwardInv(rank), NEW d \in Devices, ReceiveClip(d)
  PROVE  OnwardInv(rank)'
<1> DEFINE e == Target(d)
           frame == Head(wire[d])
           rest == Tail(wire[d])
           q == queue'[e]
<1>1. ClipboardTypeOK /\ wire[d] # <<>> /\ d \in Watchers /\ UNCHANGED <<links, clip, watch, copies>>
  BY DEF ReceiveClip, OnwardInv, Behind, faultVars
<1>2. e \in Devices /\ <<d, e>> \in links /\ links \in Links
  BY <1>1, TargetIs DEF ClipboardTypeOK
<1>3. rank[d] < rank[e]
  BY <1>2
<1>4. wire[d] \in Seq(FrameType) /\ queue[e] \in Seq(FrameType)
      /\ DOMAIN wire = Devices /\ DOMAIN queue = Devices
  BY <1>1, <1>2 DEF ClipboardTypeOK
<1>5. /\ rest \in Seq(FrameType) /\ frame \in FrameType
      /\ 1 \in DOMAIN wire[d] /\ frame = wire[d][1]
      /\ \A i \in DOMAIN rest : i + 1 \in DOMAIN wire[d] /\ rest[i] = wire[d][i + 1]
  BY <1>1, <1>4
<1>6. \A i \in DOMAIN wire[d] : From(rank, wire[d][i].content, d)
  BY DEF OnwardInv, Behind
<1>7. From(rank, frame.content, d) /\ \A i \in DOMAIN rest : From(rank, rest[i].content, d)
  BY <1>5, <1>6
<1>8. rank[frame.content.at] < rank[e]
  <2>1. frame.content.at \in Devices
    BY <1>5 DEF FrameType, ContentType
  <2> QED BY <1>2, <1>3, <1>7, <2>1 DEF From
<1>9. /\ wire' = [wire EXCEPT ![d] = rest]
      /\ queue' = [queue EXCEPT ![e] = q] /\ (q = queue[e] \/ q = Append(queue[e], frame))
  <2>1. /\ wire' = [wire EXCEPT ![d] = rest]
        /\ queue' = IF Len(queue[e]) < QueueSize
                    THEN [queue EXCEPT ![e] = Append(queue[e], frame)] ELSE queue
    BY DEF ReceiveClip
  <2>2. CASE Len(queue[e]) < QueueSize
    <3>1. queue' = [queue EXCEPT ![e] = Append(queue[e], frame)]
      BY <2>1, <2>2
    <3> QED BY <1>2, <1>4, <2>1, <3>1
  <2>3. CASE ~(Len(queue[e]) < QueueSize)
    <3>1. queue' = queue /\ queue \in [Devices -> Seq(FrameType)]
      BY <1>1, <2>1, <2>3 DEF ClipboardTypeOK
    <3> QED BY <1>2, <2>1, <3>1
  <2> QED BY <2>2, <2>3
<1> HIDE DEF e, frame, rest, q
<1>10. q \in Seq(FrameType) /\ \A i \in DOMAIN q : rank[q[i].content.at] < rank[e]
  <2>1. \A i \in DOMAIN queue[e] : rank[queue[e][i].content.at] < rank[e]
    BY <1>2 DEF OnwardInv, Onward
  <2>2. CASE q = queue[e]
    BY <1>4, <2>1, <2>2
  <2>3. CASE q = Append(queue[e], frame)
    <3>1. q \in Seq(FrameType)
      BY <1>4, <1>5, <2>3
    <3>2. \A i \in DOMAIN q : \/ i \in DOMAIN queue[e] /\ q[i] = queue[e][i]
                              \/ q[i] = frame
      BY <1>4, <1>5, <2>3
    <3> QED BY <1>8, <2>1, <3>1, <3>2
  <2> QED BY <1>9, <2>2, <2>3
<1>11. ClipboardTypeOK'
  BY <1>1, <1>5, <1>9, <1>10 DEF ClipboardTypeOK
<1>12. ASSUME NEW f \in Devices PROVE Behind(rank, f)' /\ Onward(rank, f)'
  <2>1. /\ wire'[f] = IF f = d THEN rest ELSE wire[f]
        /\ queue'[f] = IF f = e THEN q ELSE queue[f]
    BY <1>2, <1>4, <1>9
  <2> QED BY <1>1, <1>7, <1>10, <2>1 DEF OnwardInv, Behind, Onward, Watchers
<1> QED BY <1>11, <1>12 DEF OnwardInv

\* What the clipboard thread applies was copied elsewhere.
LEMMA ApplyKeepsOnward ==
  ASSUME NEW rank \in [Devices -> Nat], OnwardInv(rank), NEW e \in Devices, Apply(e)
  PROVE  /\ OnwardInv(rank)'
         /\ clip'[e] = clip[e] \/ clip'[e].at # e
         /\ \A d \in Devices \ {e} : clip'[d] = clip[d]
<1> DEFINE frame == Head(queue[e])
           rest == Tail(queue[e])
<1>1. /\ ClipboardTypeOK /\ queue[e] # <<>> /\ queue' = [queue EXCEPT ![e] = rest]
      /\ SetClip(e, frame.content) \/ UNCHANGED <<clip, watch>>
      /\ UNCHANGED <<links, wire, copies>>
  BY DEF Apply, OnwardInv, faultVars
<1>2. queue[e] \in Seq(FrameType) /\ DOMAIN queue = Devices
  BY <1>1 DEF ClipboardTypeOK
<1>3. /\ rest \in Seq(FrameType) /\ frame \in FrameType
      /\ 1 \in DOMAIN queue[e] /\ frame = queue[e][1]
      /\ \A i \in DOMAIN rest : i + 1 \in DOMAIN queue[e] /\ rest[i] = queue[e][i + 1]
  BY <1>1, <1>2
<1> HIDE DEF frame, rest
<1>4. \A i \in DOMAIN queue[e] : rank[queue[e][i].content.at] < rank[e]
  BY DEF OnwardInv, Onward
<1>5. frame.content \in ContentType /\ rank[frame.content.at] < rank[e]
  BY <1>3, <1>4 DEF FrameType
<1>6. frame.content.at # e
  <2>1. rank[e] \in Nat
    OBVIOUS
  <2> QED BY <1>5, <2>1
<1>7. /\ clip' \in [Devices -> ContentType] /\ watch' \in [Devices -> WatchType]
      /\ clip'[e] = frame.content \/ clip'[e] = clip[e]
      /\ \A d \in Devices \ {e} : clip'[d] = clip[d]
      /\ \A d \in Devices : watch'[d].pc = watch[d].pc /\ watch'[d].seen = watch[d].seen
  <2>1. CASE SetClip(e, frame.content)
    BY <1>1, <1>5, <2>1, SetClipIs
  <2>2. CASE UNCHANGED <<clip, watch>>
    BY <1>1, <2>2 DEF ClipboardTypeOK
  <2> QED BY <1>1, <2>1, <2>2
<1>8. ClipboardTypeOK'
  BY <1>1, <1>3, <1>7 DEF ClipboardTypeOK
<1>9. ASSUME NEW d \in Devices PROVE Behind(rank, d)' /\ Onward(rank, d)'
  <2>1. /\ queue'[d] = IF d = e THEN rest ELSE queue[d]
        /\ d # e => clip'[d] = clip[d]
    BY <1>1, <1>2, <1>7
  <2>2. Behind(rank, d)'
    BY <1>1, <1>5, <1>6, <1>7, <2>1 DEF OnwardInv, Behind, Watchers, From
  <2>3. Onward(rank, d)'
    BY <1>3, <1>4, <2>1 DEF OnwardInv, Onward
  <2> QED BY <2>2, <2>3
<1> QED BY <1>6, <1>7, <1>8, <1>9 DEF OnwardInv

\* The user copies something.
LEMMA CopyKeepsOnward ==
  ASSUME NEW rank \in [Devices -> Nat], OnwardInv(rank), NEW e \in Devices, NEW text \in Texts,
         Copy(e, text)
  PROVE  /\ OnwardInv(rank)'
         /\ clip[e].at = e => clip'[e].copy > clip[e].copy
         /\ \A d \in Devices \ {e} : clip'[d] = clip[d]
<1> DEFINE content == [text |-> text, copy |-> copies + 1, at |-> e]
<1>1. /\ ClipboardTypeOK /\ copies \in Nat /\ copies' = copies + 1 /\ SetClip(e, content)
      /\ UNCHANGED <<links, wire, queue>>
  BY DEF Copy, OnwardInv, ClipboardTypeOK, faultVars
<1>2. content \in ContentType /\ content.at = e /\ content.copy = copies + 1
  BY <1>1 DEF ContentType
<1> HIDE DEF content
<1>3. /\ clip' \in [Devices -> ContentType] /\ watch' \in [Devices -> WatchType]
      /\ clip'[e] = content /\ \A d \in Devices \ {e} : clip'[d] = clip[d]
      /\ \A d \in Devices : watch'[d].pc = watch[d].pc /\ watch'[d].seen = watch[d].seen
  BY <1>1, <1>2, SetClipIs
<1>4. ClipboardTypeOK'
  BY <1>1, <1>3 DEF ClipboardTypeOK
<1>5. ASSUME NEW d \in Devices PROVE Behind(rank, d)' /\ Onward(rank, d)'
  <2>1. clip[d].copy \in Nat
    BY <1>1 DEF ClipboardTypeOK, ContentType
  <2> QED BY <1>1, <1>2, <1>3, <2>1 DEF OnwardInv, Behind, Onward, Watchers, From
<1>6. clip[e].at = e => clip[e].copy <= copies /\ clip[e].copy \in Nat
  BY <1>1 DEF OnwardInv, Behind, ClipboardTypeOK, ContentType
<1> QED BY <1>1, <1>2, <1>3, <1>4, <1>5, <1>6 DEF OnwardInv

\* A service ends, with what waits for it and is on the way to it, or starts.
LEMMA ServiceKeepsOnward ==
  ASSUME NEW rank \in [Devices -> Nat], OnwardInv(rank), NEW e \in Devices,
         ServiceEnds(e) \/ ServiceStarts(e)
  PROVE  OnwardInv(rank)' /\ UNCHANGED clip
<1>1. ClipboardTypeOK
  BY DEF OnwardInv
<1>2. CASE ServiceEnds(e)
  <2>1. /\ queue' = [queue EXCEPT ![e] = <<>>]
        /\ wire' = [d \in Devices |-> IF d \in Affected(e) THEN <<>> ELSE wire[d]]
        /\ watch' = [d \in Devices |->
                       [watch[d] EXCEPT !.linked = @ /\ ~(d \in Watchers /\ Target(d) = e)]]
        /\ UNCHANGED <<links, clip, copies>>
    BY <1>2 DEF ServiceEnds
  <2>2. \A d \in Devices : /\ watch'[d] \in WatchType /\ watch'[d].pc = watch[d].pc
                           /\ watch'[d].seen = watch[d].seen
    <3>1. ASSUME NEW d \in Devices, NEW still \in BOOLEAN
          PROVE  LET w == [watch[d] EXCEPT !.linked = still]
                 IN  w \in WatchType /\ w.pc = watch[d].pc /\ w.seen = watch[d].seen
      BY <1>1 DEF ClipboardTypeOK, WatchType
    <3>2. ASSUME NEW d \in Devices
          PROVE  \E still \in BOOLEAN : watch'[d] = [watch[d] EXCEPT !.linked = still]
      BY <2>1
    <3>3. ASSUME NEW d \in Devices
          PROVE  /\ watch'[d] \in WatchType /\ watch'[d].pc = watch[d].pc
                 /\ watch'[d].seen = watch[d].seen
      <4>1. PICK still \in BOOLEAN : watch'[d] = [watch[d] EXCEPT !.linked = still]
        BY <3>2
      <4> QED BY <3>1, <4>1
    <3> QED BY <3>3
  <2>3. /\ queue' \in [Devices -> Seq(FrameType)] /\ wire' \in [Devices -> Seq(FrameType)]
        /\ \A d \in Devices : /\ queue'[d] = queue[d] \/ queue'[d] = <<>>
                              /\ wire'[d] = wire[d] \/ wire'[d] = <<>>
    BY <1>1, <2>1 DEF ClipboardTypeOK
  <2>4. watch' \in [Devices -> WatchType]
    BY <2>1, <2>2
  <2>5. ClipboardTypeOK'
    BY <1>1, <2>1, <2>3, <2>4 DEF ClipboardTypeOK
  <2>6. ASSUME NEW d \in Devices PROVE Behind(rank, d)' /\ Onward(rank, d)'
    <3>1. wire'[d] = <<>> => DOMAIN wire'[d] = {}
      OBVIOUS
    <3>2. queue'[d] = <<>> => DOMAIN queue'[d] = {}
      OBVIOUS
    <3>3. Behind(rank, d)'
      BY <2>1, <2>2, <2>3, <3>1 DEF OnwardInv, Behind, Watchers
    <3>4. Onward(rank, d)'
      BY <2>3, <3>2 DEF OnwardInv, Onward
    <3> QED BY <3>3, <3>4
  <2> QED BY <2>1, <2>5, <2>6 DEF OnwardInv
<1>3. CASE ServiceStarts(e)
  BY <1>3 DEF ServiceStarts, faultVars, OnwardInv, ClipboardTypeOK, Behind, Onward, Watchers
<1> QED BY <1>2, <1>3

LEMMA OnwardStep ==
  ASSUME NEW rank \in [Devices -> Nat], \A ls \in Links : \A l \in ls : rank[l[1]] < rank[l[2]],
         OnwardInv(rank), [ClipboardNext]_clipboardVars
  PROVE  /\ OnwardInv(rank)'
         /\ \A d \in Devices :
              clip[d].at = d /\ clip'[d].at = d /\ clip'[d].text # clip[d].text =>
                clip'[d].copy > clip[d].copy
<1>1. CASE UNCHANGED clipboardVars
  BY <1>1 DEF clipboardVars, OnwardInv, ClipboardTypeOK, Behind, Onward, Watchers
<1>2. ASSUME NEW e \in Devices, NEW text \in Texts, Copy(e, text)
      PROVE  /\ OnwardInv(rank)'
             /\ \A d \in Devices :
                  clip[d].at = d /\ clip'[d].at = d /\ clip'[d].text # clip[d].text =>
                    clip'[d].copy > clip[d].copy
  BY <1>2, CopyKeepsOnward
<1>3. ASSUME NEW e \in Devices,
             \/ Notice(e) \/ WatchFails(e) \/ WatchStarts(e)
             \/ \E sensitive \in BOOLEAN : Skip(e, sensitive)
      PROVE  OnwardInv(rank)' /\ UNCHANGED clip
  BY <1>3, WatcherKeepsOnward DEF Notice, WatchFails, WatchStarts, Skip
<1>4. ASSUME NEW e \in Devices, SendChange(e) \/ ReceiveClip(e)
      PROVE  OnwardInv(rank)' /\ UNCHANGED clip
  BY <1>4, SendKeepsOnward, ReceiveKeepsOnward DEF SendChange, ReceiveClip
<1>5. ASSUME NEW e \in Devices, Apply(e)
      PROVE  /\ OnwardInv(rank)'
             /\ clip'[e] = clip[e] \/ clip'[e].at # e
             /\ \A d \in Devices \ {e} : clip'[d] = clip[d]
  BY <1>5, ApplyKeepsOnward
<1>6. ASSUME NEW e \in Devices, ServiceEnds(e) \/ ServiceStarts(e)
      PROVE  OnwardInv(rank)' /\ UNCHANGED clip
  BY <1>6, ServiceKeepsOnward
<1> QED BY <1>1, <1>2, <1>3, <1>4, <1>5, <1>6 DEF ClipboardNext

\* Where devices watch for each other in one direction, without a cycle, what a user copied
\* never comes back to replace what was copied later on the same device, for any number of
\* devices, copies, losses and restarts (kmsync clipboard-watch, apply_remote_content).
THEOREM NothingEchoes ==
  ASSUME NEW rank \in [Devices -> Nat], \A ls \in Links : \A l \in ls : rank[l[1]] < rank[l[2]]
  PROVE  ClipboardSpec => NoEcho
<1>1. ClipboardInit => OnwardInv(rank)
  BY InitOnward
<1>2. OnwardInv(rank) /\ [ClipboardNext]_clipboardVars => OnwardInv(rank)'
  BY OnwardStep
<1>3. ASSUME OnwardInv(rank), [ClipboardNext]_clipboardVars
      PROVE  [\A d \in Devices :
                clip[d].at = d /\ clip'[d].at = d /\ clip'[d].text # clip[d].text =>
                  clip'[d].copy > clip[d].copy]_clipboardVars
  BY <1>3, OnwardStep
<1> QED BY <1>1, <1>2, <1>3, PTL DEF ClipboardSpec, NoEcho
=============================================================================
