------------------------- MODULE DesktopCapture_proofs -------------------------
(***************************************************************************)
(* Who has control and whether the local pointer is shown, for any targets *)
(* that come and go, any keys, screens and queues; what is on the way from *)
(* the router to the keys of a target, also of a single one; where source  *)
(* and target take the pointer to be, for any displays, screen and edge.   *)
(***************************************************************************)
EXTENDS DesktopCapture, SingleCapture, Pointer, SequenceTheorems, FiniteSetTheorems,
        NaturalsInduction, WellFoundedInduction, TLAPS

RouterType ==
  [plan : SUBSET Targets, active : Targets \cup {NoTarget}, remote : Pointers,
   cooldown : BOOLEAN]

RouterInv ==
  /\ router \in RouterType
  /\ hidden \in BOOLEAN
  /\ planChannel \in Seq(SUBSET Targets)
  /\ online \in SUBSET Targets
  /\ ControlIsPlanned

(* Whatever the user does: every event of KeyEvent and MoveEvent.          *)
UserEvents ==
  [kind : {"key", "move"}, key : Keys \cup {"none"}, down : BOOLEAN,
   edge : Targets \cup {NoTarget}, by : {-1, 0, 1}]

LEMMA ClampedType == ASSUME NEW x \in Int PROVE Clamped(x) \in Pointers
  BY CaptureAssumption DEF Clamped, Pointers

LEMMA EventFields ==
  ASSUME NEW e \in UserEvents
  PROVE  e.by \in Int /\ e.edge \in Targets \cup {NoTarget}
  BY DEF UserEvents

LEMMA MovedType ==
  ASSUME NEW r \in RouterType, NEW e \in UserEvents
  PROVE  Moved(r, e) \in RouterType /\ Moved(r, e).active = r.active
         /\ Moved(r, e).plan = r.plan
<1>1. r.remote + e.by \in Int
  BY EventFields, CaptureAssumption DEF RouterType, Pointers
<1>2. Clamped(r.remote + e.by) \in Pointers
  BY <1>1, ClampedType
<1> QED BY <1>2 DEF Moved, RouterType

LEMMA LocalRouterType ==
  ASSUME NEW p \in SUBSET Targets
  PROVE  /\ LocalRouter(p) \in RouterType
         /\ LocalRouter(p).active = NoTarget /\ LocalRouter(p).plan = p
  BY CaptureAssumption DEF LocalRouter, RouterType, Pointers

(* What the callback starts from: the router it had, or a fresh one for    *)
(* another plan.                                                           *)
LEMMA ReplannedCases ==
  ASSUME RouterInv
  PROVE  /\ Replanned \in RouterType
         /\ \/ Replanned = router
            \/ Replanned.active = NoTarget /\ Replanned.plan # router.plan
<1>1. CASE planChannel # <<>> /\ Head(planChannel) # router.plan
  <2>1. Head(planChannel) \in SUBSET Targets
    BY <1>1 DEF RouterInv
  <2> QED BY <1>1, <2>1, LocalRouterType DEF Replanned
<1>2. CASE ~(planChannel # <<>> /\ Head(planChannel) # router.plan)
  BY <1>2 DEF Replanned, RouterInv
<1> QED BY <1>1, <1>2

(* What one captured event does to control and pointer.                    *)
RouteKeeps(r) ==
  /\ router' \in RouterType /\ hidden' \in BOOLEAN
  /\ router'.plan = r.plan
  /\ router'.active # NoTarget => router'.active \in router'.plan /\ hidden'
  /\ r.active # NoTarget /\ router'.active = NoTarget => ~hidden'

LEMMA RouteStep ==
  ASSUME RouterInv, NEW e \in UserEvents, Route(e)
  PROVE  RouteKeeps(Replanned)
<1> DEFINE r == Replanned
<1>1. r \in RouterType /\ (r.active # NoTarget => r.active \in r.plan /\ hidden)
  BY ReplannedCases DEF RouterInv, ControlIsPlanned
<1>2. hidden \in BOOLEAN
  BY DEF RouterInv
<1>3. CASE StayLocal(r, e)
  BY <1>1, <1>2, <1>3 DEF StayLocal, Local, RouteKeeps
<1>4. CASE ReleaseControl(r, e)
  <2>1. router' = Released(r) /\ hidden' = (hidden /\ r.active = NoTarget)
    BY <1>4 DEF ReleaseControl, Local, RestorePointer
  <2>2. r.plan \in SUBSET Targets
    BY <1>1 DEF RouterType
  <2>3. Released(r) \in RouterType /\ Released(r).active = NoTarget /\ Released(r).plan = r.plan
    BY <2>2, LocalRouterType DEF Released, RouterType
  <2> QED BY <2>1, <2>3, <1>2 DEF RouteKeeps
<1>5. CASE EnterTarget(r, e)
  <2> DEFINE taking == [r EXCEPT !.active = e.edge, !.remote = 0]
  <2>1. e.edge \in r.plan /\ r.active = NoTarget
    BY <1>5 DEF EnterTarget, Entering
  <2>2. taking \in RouterType /\ taking.active = e.edge /\ taking.plan = r.plan
    <3>1. e.edge \in Targets \cup {NoTarget} /\ 0 \in Pointers
      BY EventFields, CaptureAssumption DEF Pointers
    <3> QED BY <1>1, <3>1 DEF RouterType
  <2>3. router' = Moved(taking, e) /\ hidden' = TRUE
    BY <1>5 DEF EnterTarget
  <2>4. Moved(taking, e) \in RouterType /\ Moved(taking, e).active = e.edge
        /\ Moved(taking, e).plan = r.plan
    BY <2>2, MovedType
  <2> QED BY <2>1, <2>3, <2>4 DEF RouteKeeps
<1>6. CASE SendRemote(r, e)
  <2>1. r.active # NoTarget /\ router' = Moved(r, e) /\ hidden' = hidden
    BY <1>6 DEF SendRemote
  <2>2. Moved(r, e) \in RouterType /\ Moved(r, e).active = r.active /\ Moved(r, e).plan = r.plan
    BY <1>1, MovedType
  <2> QED BY <1>1, <1>2, <2>1, <2>2 DEF RouteKeeps
<1> QED BY <1>3, <1>4, <1>5, <1>6 DEF Route

(* Every event of the user is routed; the rest leaves control and pointer  *)
(* alone, but for the cooldown and the end of the capture loop.            *)
LEMMA UserRoutes ==
  ASSUME UserActs \/ UserStirs
  PROVE  \E e \in UserEvents : Route(e)
<1>1. ASSUME NEW k \in Keys, Press(k) \/ Release(k) PROVE \E e \in UserEvents : Route(e)
  <2>1. \A d \in BOOLEAN : KeyEvent(k, d) \in UserEvents
    BY DEF UserEvents, KeyEvent
  <2> QED BY <1>1, <2>1 DEF Press, Release
<1>2. ASSUME NEW e \in Targets \cup {NoTarget}, NEW d \in {-1, 0, 1}, Move(e, d)
      PROVE  \E f \in UserEvents : Route(f)
  <2>1. MoveEvent(e, d) \in UserEvents
    BY DEF UserEvents, MoveEvent
  <2> QED BY <1>2, <2>1 DEF Move
<1> QED BY <1>1, <1>2 DEF UserActs, UserStirs

Restores == router.active # NoTarget /\ router'.active = NoTarget
              => ~hidden' \/ router'.plan # router.plan

LEMMA ControlStep == RouterInv /\ [Next]_vars => RouterInv' /\ Restores
<1> SUFFICES ASSUME RouterInv, [Next]_vars PROVE RouterInv' /\ Restores
  OBVIOUS
<1>1. CASE PresenceChanges \/ RefreshPlan
  <2>1. UNCHANGED <<router, hidden>>
    BY <1>1 DEF PresenceChanges, RefreshPlan, captureVars
  <2>2. CASE PresenceChanges
    BY <2>1, <2>2 DEF PresenceChanges, RouterInv, ControlIsPlanned, Restores
  <2>3. CASE RefreshPlan
    <3>1. planChannel' = <<online>> /\ online' = online
      BY <2>3 DEF RefreshPlan
    <3>2. planChannel' \in Seq(SUBSET Targets)
      BY <3>1 DEF RouterInv
    <3> QED BY <2>1, <3>1, <3>2 DEF RouterInv, ControlIsPlanned, Restores
  <2> QED BY <1>1, <2>2, <2>3
<1>2. CASE UserActs \/ UserStirs
  <2>1. PICK e \in UserEvents : Route(e)
    BY <1>2, UserRoutes
  <2>2. RouteKeeps(Replanned)
    BY <2>1, RouteStep
  <2>3. planChannel' = <<>> /\ online' = online
    BY <2>1 DEF Route
  <2>4. RouterInv'
    BY <2>2, <2>3 DEF RouteKeeps, RouterInv, ControlIsPlanned
  <2>5. Restores
    BY <2>2, ReplannedCases DEF RouteKeeps, Restores
  <2> QED BY <2>4, <2>5
<1>3. CASE CooldownEnds
  <2>1. router' = [router EXCEPT !.cooldown = FALSE] /\ UNCHANGED <<hidden, planChannel, online>>
    BY <1>3 DEF CooldownEnds, planVars
  <2>2. router' \in RouterType /\ router'.active = router.active /\ router'.plan = router.plan
    BY <2>1 DEF RouterInv, RouterType
  <2> QED BY <2>1, <2>2 DEF RouterInv, ControlIsPlanned, Restores
<1>4. CASE CaptureEnds
  <2>1. router' = LocalRouter({}) /\ hidden' = FALSE /\ planChannel' = <<>> /\ online' = online
    BY <1>4 DEF CaptureEnds
  <2>2. router' \in RouterType /\ router'.active = NoTarget
        /\ planChannel' \in Seq(SUBSET Targets)
    BY <2>1, LocalRouterType
  <2> QED BY <2>1, <2>2 DEF RouterInv, ControlIsPlanned, Restores
<1>5. CASE Enqueue \/ TransmitStep \/ UNCHANGED vars
  <2>1. UNCHANGED <<router, hidden, planChannel, online>>
    BY <1>5 DEF Enqueue, TransmitStep, TakeEvent, Coalesce, DropInBackoff, Send, SendFails, vars,
                captureVars, planVars
  <2> QED BY <2>1 DEF RouterInv, ControlIsPlanned, Restores
<1> QED BY <1>1, <1>2, <1>3, <1>4, <1>5 DEF Next

LEMMA InitRouter == Init => RouterInv
<1> SUFFICES ASSUME Init PROVE RouterInv
  OBVIOUS
<1>1. online \in SUBSET Targets /\ router = LocalRouter(online) /\ hidden = FALSE
      /\ planChannel = <<>>
  BY DEF Init
<1>2. planChannel \in Seq(SUBSET Targets)
  BY <1>1
<1> QED BY <1>1, <1>2, LocalRouterType DEF RouterInv, ControlIsPlanned

(* Remote control never outlives its target's place in the plan, and the   *)
(* local pointer stays hidden all the while.                               *)
THEOREM ControlStaysPlanned == Spec => []ControlIsPlanned
<1>1. RouterInv => ControlIsPlanned
  BY DEF RouterInv
<1> QED BY <1>1, InitRouter, ControlStep, PTL DEF Spec

(* Control that comes back leaves the pointer shown, unless a new plan     *)
(* took it away.                                                           *)
THEOREM PointerComesBack == Spec => HandoverRestores
<1>1. RouterInv /\ [Next]_vars => [Restores]_vars
  BY ControlStep
<1>2. HandoverRestores <=> [][Restores]_vars
  BY DEF HandoverRestores, Restores
<1> QED BY <1>1, <1>2, InitRouter, ControlStep, PTL DEF Spec

-----------------------------------------------------------------------------
(* Keys on the way: what DownAfter makes of sequences of events.           *)

EventType ==
  [to : Targets \cup {NoTarget}, kind : {"key", "move", "position"}, key : Keys \cup {"none"},
   down : BOOLEAN, at : Int]

(* The event decides whether key k is down on target t.                    *)
Decides(q, t, k) == q.kind = "key" /\ q.to = t /\ q.key = k

(* DownAfter, one key at a time.                                           *)
LEMMA DownAfterMember ==
  ASSUME NEW S, NEW qs \in Seq(S), NEW K, NEW t, NEW k
  PROVE  k \in DownAfter(K, qs, t) <=>
           \/ k \in K /\ \A i \in DOMAIN qs : ~Decides(qs[i], t, k)
           \/ \E i \in DOMAIN qs :
                /\ Decides(qs[i], t, k) /\ qs[i].down
                /\ \A j \in DOMAIN qs : Decides(qs[j], t, k) => j <= i
<1> DEFINE strokes == {i \in DOMAIN qs : qs[i].kind = "key" /\ qs[i].to = t}
           latest == {i \in strokes : \A j \in strokes : qs[j].key = qs[i].key => j <= i}
<1>1. k \in DownAfter(K, qs, t) <=>
        \/ k \in K /\ \A i \in strokes : qs[i].key # k
        \/ \E i \in latest : qs[i].down /\ qs[i].key = k
  BY DEF DownAfter
<1>2. (\A i \in strokes : qs[i].key # k) <=> \A i \in DOMAIN qs : ~Decides(qs[i], t, k)
  BY DEF Decides
<1>3. (\E i \in latest : qs[i].down /\ qs[i].key = k) <=>
        \E i \in DOMAIN qs : /\ Decides(qs[i], t, k) /\ qs[i].down
                             /\ \A j \in DOMAIN qs : Decides(qs[j], t, k) => j <= i
  BY DEF Decides
<1> QED BY <1>1, <1>2, <1>3

(* Events that come one after the other act one after the other.           *)
LEMMA DownAfterConcat ==
  ASSUME NEW S, NEW ps \in Seq(S), NEW qs \in Seq(S), NEW K, NEW t
  PROVE  /\ ps \o qs \in Seq(S)
         /\ DownAfter(K, ps \o qs, t) = DownAfter(DownAfter(K, ps, t), qs, t)
<1> DEFINE s == ps \o qs
           m == Len(ps)
<1>1. /\ s \in Seq(S) /\ m \in Nat /\ Len(qs) \in Nat
      /\ DOMAIN s = 1 .. m + Len(qs) /\ DOMAIN ps = 1 .. m /\ DOMAIN qs = 1 .. Len(qs)
      /\ \A i \in 1 .. m : s[i] = ps[i]
      /\ \A i \in 1 .. Len(qs) : s[m + i] = qs[i]
  OBVIOUS
<1> HIDE DEF s, m
<1>2. \A i \in DOMAIN s : i \in DOMAIN ps \/ \E j \in DOMAIN qs : i = m + j
  <2> SUFFICES ASSUME NEW i \in DOMAIN s, i \notin DOMAIN ps
               PROVE  \E j \in DOMAIN qs : i = m + j
    OBVIOUS
  <2>1. i - m \in DOMAIN qs /\ i = m + (i - m)
    BY <1>1
  <2> QED BY <2>1
<1>3. \A i \in DOMAIN ps : i \in DOMAIN s /\ s[i] = ps[i] /\ i <= m
  BY <1>1
<1>4. \A i \in DOMAIN qs : m + i \in DOMAIN s /\ s[m + i] = qs[i] /\ m + i > m
  BY <1>1
<1> SUFFICES ASSUME NEW k
             PROVE  k \in DownAfter(K, s, t) <=> k \in DownAfter(DownAfter(K, ps, t), qs, t)
  BY <1>1 DEF s
<1>5. k \in DownAfter(K, s, t) <=>
        \/ k \in K /\ \A i \in DOMAIN s : ~Decides(s[i], t, k)
        \/ \E i \in DOMAIN s : /\ Decides(s[i], t, k) /\ s[i].down
                               /\ \A j \in DOMAIN s : Decides(s[j], t, k) => j <= i
  BY <1>1, DownAfterMember
<1>6. k \in DownAfter(K, ps, t) <=>
        \/ k \in K /\ \A i \in DOMAIN ps : ~Decides(ps[i], t, k)
        \/ \E i \in DOMAIN ps : /\ Decides(ps[i], t, k) /\ ps[i].down
                                /\ \A j \in DOMAIN ps : Decides(ps[j], t, k) => j <= i
  BY DownAfterMember
<1>7. k \in DownAfter(DownAfter(K, ps, t), qs, t) <=>
        \/ k \in DownAfter(K, ps, t) /\ \A i \in DOMAIN qs : ~Decides(qs[i], t, k)
        \/ \E i \in DOMAIN qs : /\ Decides(qs[i], t, k) /\ qs[i].down
                                /\ \A j \in DOMAIN qs : Decides(qs[j], t, k) => j <= i
  BY DownAfterMember
<1>8. CASE \A i \in DOMAIN qs : ~Decides(qs[i], t, k)
  <2>1. \A i \in DOMAIN s : Decides(s[i], t, k) => i \in DOMAIN ps /\ Decides(ps[i], t, k)
    BY <1>2, <1>3, <1>4, <1>8
  <2>2. (\A i \in DOMAIN s : ~Decides(s[i], t, k)) <=> \A i \in DOMAIN ps : ~Decides(ps[i], t, k)
    BY <1>3, <2>1
  <2>3. (\E i \in DOMAIN s : /\ Decides(s[i], t, k) /\ s[i].down
                             /\ \A j \in DOMAIN s : Decides(s[j], t, k) => j <= i)
          <=> \E i \in DOMAIN ps : /\ Decides(ps[i], t, k) /\ ps[i].down
                                   /\ \A j \in DOMAIN ps : Decides(ps[j], t, k) => j <= i
    BY <1>3, <2>1
  <2> QED BY <1>5, <1>6, <1>7, <1>8, <2>2, <2>3
<1>9. CASE \E i \in DOMAIN qs : Decides(qs[i], t, k)
  <2>1. PICK h \in DOMAIN qs : Decides(qs[h], t, k)
    BY <1>9
  <2>2. m + h \in DOMAIN s /\ Decides(s[m + h], t, k) /\ m + h > m
    BY <1>4, <2>1
  <2>3. ASSUME NEW i \in DOMAIN s, Decides(s[i], t, k), s[i].down,
               \A j \in DOMAIN s : Decides(s[j], t, k) => j <= i
        PROVE  \E n \in DOMAIN qs : /\ Decides(qs[n], t, k) /\ qs[n].down
                                    /\ \A j \in DOMAIN qs : Decides(qs[j], t, k) => j <= n
    <3>1. m + h <= i
      BY <2>2, <2>3
    <3>2. i \notin DOMAIN ps
      BY <1>1, <2>1, <3>1
    <3>3. PICK n \in DOMAIN qs : i = m + n
      BY <1>2, <3>2
    <3>4. \A j \in DOMAIN qs : Decides(qs[j], t, k) => m + j <= m + n
      BY <1>4, <2>3, <3>3
    <3>5. \A j \in DOMAIN qs : m + j <= m + n => j <= n
      BY <1>1
    <3> QED BY <1>4, <2>3, <3>3, <3>4, <3>5
  <2>4. ASSUME NEW n \in DOMAIN qs, Decides(qs[n], t, k), qs[n].down,
               \A j \in DOMAIN qs : Decides(qs[j], t, k) => j <= n
        PROVE  \E i \in DOMAIN s : /\ Decides(s[i], t, k) /\ s[i].down
                                   /\ \A j \in DOMAIN s : Decides(s[j], t, k) => j <= i
    <3>1. ASSUME NEW j \in DOMAIN s, Decides(s[j], t, k) PROVE j <= m + n
      <4>1. CASE j \in DOMAIN ps
        BY <1>1, <4>1
      <4>2. ASSUME NEW a \in DOMAIN qs, j = m + a PROVE j <= m + n
        <5>1. Decides(qs[a], t, k)
          BY <1>4, <3>1, <4>2
        <5>2. a <= n
          BY <2>4, <5>1
        <5> QED BY <1>1, <4>2, <5>2
      <4> QED BY <1>2, <4>1, <4>2
    <3>2. m + n \in DOMAIN s /\ s[m + n] = qs[n]
      BY <1>4
    <3> QED BY <2>4, <3>1, <3>2
  <2> QED BY <1>5, <1>7, <1>9, <2>2, <2>3, <2>4
<1> QED BY <1>8, <1>9

(* One event, and none.                                                    *)
LEMMA DownAfterOne ==
  ASSUME NEW q \in EventType, NEW K, NEW t
  PROVE  /\ <<q>> \in Seq(EventType)
         /\ DownAfter(K, <<q>>, t) =
              IF q.kind = "key" /\ q.to = t
              THEN IF q.down THEN K \cup {q.key} ELSE K \ {q.key}
              ELSE K
<1>1. <<q>> \in Seq(EventType) /\ DOMAIN <<q>> = {1} /\ <<q>>[1] = q
  OBVIOUS
<1>2. ASSUME NEW k
      PROVE  k \in DownAfter(K, <<q>>, t) <=>
               IF Decides(q, t, k) THEN q.down ELSE k \in K
  <2> DEFINE qs == <<q>>
  <2>1. qs \in Seq(EventType) /\ DOMAIN qs = {1} /\ qs[1] = q
    BY <1>1
  <2> HIDE DEF qs
  <2>2. k \in DownAfter(K, qs, t) <=>
          \/ k \in K /\ \A i \in DOMAIN qs : ~Decides(qs[i], t, k)
          \/ \E i \in DOMAIN qs :
               /\ Decides(qs[i], t, k) /\ qs[i].down
               /\ \A j \in DOMAIN qs : Decides(qs[j], t, k) => j <= i
    BY <2>1, DownAfterMember
  <2>3. k \in DownAfter(K, qs, t) <=>
          \/ k \in K /\ ~Decides(q, t, k)
          \/ Decides(q, t, k) /\ q.down
    BY <2>1, <2>2
  <2> QED BY <2>3 DEF qs
<1>3. CASE q.kind = "key" /\ q.to = t
  <2>1. \A k : Decides(q, t, k) <=> k = q.key
    BY <1>3 DEF Decides
  <2>2. q.down \in BOOLEAN
    BY DEF EventType
  <2> QED BY <1>1, <1>2, <1>3, <2>1, <2>2
<1>4. CASE ~(q.kind = "key" /\ q.to = t)
  <2>1. \A k : ~Decides(q, t, k)
    BY <1>4 DEF Decides
  <2> QED BY <1>1, <1>2, <1>4, <2>1
<1> QED BY <1>3, <1>4

LEMMA DownAfterNone ==
  ASSUME NEW K, NEW t
  PROVE  <<>> \in Seq(EventType) /\ DownAfter(K, <<>>, t) = K
<1>1. <<>> \in Seq(EventType) /\ DOMAIN <<>> = {}
  OBVIOUS
<1>2. \A k : k \in DownAfter(K, <<>>, t) <=> k \in K
  BY <1>1, DownAfterMember
<1> QED BY <1>1, <1>2

(* The line of events is its parts, in order.                              *)
LEMMA LineParts ==
  ASSUME NEW a \in Seq(EventType), NEW b \in Seq(EventType), NEW c \in Seq(EventType),
         NEW d \in Seq(EventType), NEW K, NEW t
  PROVE  DownAfter(K, a \o b \o c \o d, t)
           = DownAfter(DownAfter(DownAfter(DownAfter(K, a, t), b, t), c, t), d, t)
<1> DEFINE ab == a \o b
           abc == ab \o c
<1>1. ab \in Seq(EventType) /\ DownAfter(K, ab, t) = DownAfter(DownAfter(K, a, t), b, t)
  BY DownAfterConcat
<1> HIDE DEF ab
<1>2. abc \in Seq(EventType) /\ DownAfter(K, abc, t) = DownAfter(DownAfter(K, ab, t), c, t)
  BY <1>1, DownAfterConcat
<1> HIDE DEF abc
<1>3. DownAfter(K, abc \o d, t) = DownAfter(DownAfter(K, abc, t), d, t)
  BY <1>2, DownAfterConcat
<1>4. abc \o d = a \o b \o c \o d
  BY DEF abc, ab
<1> QED BY <1>1, <1>2, <1>3, <1>4

LEMMA LastOfLine ==
  ASSUME NEW qs \in Seq(EventType), NEW q \in EventType, NEW K, NEW t
  PROVE  /\ Append(qs, q) \in Seq(EventType)
         /\ DownAfter(K, Append(qs, q), t) = DownAfter(DownAfter(K, qs, t), <<q>>, t)
<1> DEFINE one == <<q>>
<1>1. one \in Seq(EventType) /\ Append(qs, q) = qs \o one /\ Append(qs, q) \in Seq(EventType)
  BY AppendIsConcat, AppendProperties
<1> HIDE DEF one
<1>2. DownAfter(K, qs \o one, t) = DownAfter(DownAfter(K, qs, t), one, t)
  BY <1>1, DownAfterConcat
<1> QED BY <1>1, <1>2 DEF one

LEMMA HeadOfLine ==
  ASSUME NEW qs \in Seq(EventType), qs # <<>>, NEW K, NEW t
  PROVE  /\ Head(qs) \in EventType /\ <<Head(qs)>> \in Seq(EventType)
         /\ Tail(qs) \in Seq(EventType)
         /\ DownAfter(K, qs, t) = DownAfter(DownAfter(K, <<Head(qs)>>, t), Tail(qs), t)
<1>1. Head(qs) \in EventType /\ Tail(qs) \in Seq(EventType) /\ <<Head(qs)>> \in Seq(EventType)
  OBVIOUS
<1> DEFINE h == <<Head(qs)>>
           r == Tail(qs)
           s == h \o r
<1>2. /\ Len(qs) \in Nat \ {0} /\ Len(r) = Len(qs) - 1
      /\ \A i \in 1 .. Len(qs) - 1 : r[i] = qs[i + 1]
      /\ Head(qs) = qs[1]
  OBVIOUS
<1>3. h \in Seq(EventType) /\ Len(h) = 1 /\ h[1] = qs[1] /\ r \in Seq(EventType)
  BY <1>1, <1>2
<1> HIDE DEF h, r
<1>4. s \in Seq(EventType) /\ Len(s) = Len(h) + Len(r)
      /\ \A i \in 1 .. Len(h) + Len(r) : s[i] = IF i <= Len(h) THEN h[i] ELSE r[i - Len(h)]
  BY <1>3, ConcatProperties
<1>5. DownAfter(K, s, t) = DownAfter(DownAfter(K, h, t), r, t)
  BY <1>3, DownAfterConcat
<1> HIDE DEF s
<1>6. \A i \in 1 .. Len(qs) : s[i] = qs[i]
  <2> SUFFICES ASSUME NEW i \in 1 .. Len(qs) PROVE s[i] = qs[i]
    OBVIOUS
  <2>1. CASE i = 1
    BY <1>2, <1>3, <1>4, <2>1
  <2>2. CASE i # 1
    <3>1. i - 1 \in 1 .. Len(qs) - 1 /\ (i - 1) + 1 = i /\ ~(i <= 1)
      BY <1>2, <2>2
    <3> QED BY <1>2, <1>3, <1>4, <3>1
  <2> QED BY <2>1, <2>2
<1>7. s = qs
  BY <1>2, <1>3, <1>4, <1>6, SeqEqual
<1> QED BY <1>1, <1>5, <1>7 DEF h, r

(* The events between the router and the targets.                          *)
WayInv ==
  /\ hand \in Seq(EventType) /\ pending \in Seq(EventType)
  /\ queue \in Seq(EventType) /\ outbox \in Seq(EventType)
  /\ hand # <<>> => hand = <<Head(hand)>>
  /\ pending # <<>> => pending = <<Head(pending)>>
  /\ routed = [t \in Targets |-> routed[t]] /\ down = [t \in Targets |-> down[t]]
  /\ KeysOnTheWay

(* What is down on t once the four parts of the line have come to it.      *)
Arrived(K, a, b, c, d, t) ==
  DownAfter(DownAfter(DownAfter(DownAfter(K, a, t), b, t), c, t), d, t)

LEMMA WayNow ==
  ASSUME WayInv
  PROVE  \A t \in Targets \ lost : routed[t] = Arrived(down[t], hand, pending, queue, outbox, t)
BY LineParts DEF WayInv, KeysOnTheWay, OnTheWay, Arrived

LEMMA WayNext ==
  ASSUME hand' \in Seq(EventType), pending' \in Seq(EventType),
         queue' \in Seq(EventType), outbox' \in Seq(EventType),
         \A t \in Targets \ lost' :
           routed'[t] = Arrived(down'[t], hand', pending', queue', outbox', t)
  PROVE  KeysOnTheWay'
BY LineParts DEF KeysOnTheWay, OnTheWay, Arrived

(* An event that is no key, or not for t, leaves the keys of t as they are. *)
LEMMA NoStroke ==
  ASSUME NEW q \in EventType, NEW t, q.kind # "key" \/ q.to # t, NEW K
  PROVE  DownAfter(K, <<q>>, t) = K
BY DownAfterOne

LEMMA LosesOnlyItsTarget ==
  ASSUME NEW q \in EventType, Lose(q), NEW t \in Targets \ lost', NEW K
  PROVE  t \in Targets \ lost /\ DownAfter(K, <<q>>, t) = K
<1>1. t \notin lost /\ (q.kind # "key" \/ q.to # t)
  BY DEF Lose, Reliable
<1> QED BY <1>1, NoStroke

LEMMA EnqueueKeeps == ASSUME WayInv, Enqueue PROVE WayInv'
<1> DEFINE q == Head(outbox)
<1>1. /\ outbox # <<>> /\ outbox' = Tail(outbox)
      /\ UNCHANGED <<hand, pending, routed, down>>
  BY DEF Enqueue, transmitVars
<1>2. /\ q \in EventType /\ outbox' \in Seq(EventType)
      /\ \A K, t : DownAfter(K, outbox, t) = DownAfter(DownAfter(K, <<q>>, t), outbox', t)
  BY <1>1, HeadOfLine DEF WayInv
<1>3. queue \in Seq(EventType) /\ hand \in Seq(EventType) /\ pending \in Seq(EventType)
  BY DEF WayInv
<1>4. CASE queue' = Append(queue, q) /\ lost' = lost
  <2> HIDE DEF q
  <2>1. queue' \in Seq(EventType)
    BY <1>2, <1>3, <1>4, LastOfLine
  <2>2. \A K, t : DownAfter(K, queue', t) = DownAfter(DownAfter(K, queue, t), <<q>>, t)
    BY <1>2, <1>3, <1>4, LastOfLine
  <2>3. \A t \in Targets \ lost' :
          routed'[t] = Arrived(down'[t], hand', pending', queue', outbox', t)
    BY <1>1, <1>2, <1>4, <2>2, WayNow DEF Arrived
  <2>4. KeysOnTheWay'
    BY <1>1, <1>2, <1>3, <2>1, <2>3, WayNext
  <2> QED BY <1>1, <1>2, <2>1, <2>4 DEF WayInv
<1>5. CASE Lose(q) /\ queue' = queue
  <2> HIDE DEF q
  <2>1. ASSUME NEW t \in Targets \ lost'
        PROVE  routed'[t] = Arrived(down'[t], hand', pending', queue', outbox', t)
    <3>1. t \in Targets \ lost /\ \A K : DownAfter(K, <<q>>, t) = K
      BY <1>2, <1>5, LosesOnlyItsTarget
    <3> QED BY <1>1, <1>2, <1>5, <3>1, WayNow DEF Arrived
  <2>2. KeysOnTheWay'
    BY <1>1, <1>2, <1>3, <1>5, <2>1, WayNext
  <2> QED BY <1>1, <1>2, <1>5, <2>2 DEF WayInv
<1> QED BY <1>4, <1>5 DEF Enqueue

(* The transmit thread takes the next event, or drops it as stale.         *)
LEMMA TakeKeeps == ASSUME WayInv, TakeEvent PROVE WayInv'
<1>1. /\ hand = <<>> /\ pending' = <<>> /\ pending \o queue # <<>>
      /\ queue' = IF pending = <<>> THEN Tail(queue) ELSE queue
      /\ UNCHANGED <<outbox, routed, down, lost>>
  BY DEF TakeEvent, captureVars, targetVars
<1>2. /\ queue \in Seq(EventType) /\ pending \in Seq(EventType) /\ outbox \in Seq(EventType)
      /\ (pending # <<>> => pending = <<Head(pending)>>)
  BY DEF WayInv
<1>3. \A K, t : DownAfter(K, <<>>, t) = K
  BY DownAfterNone
<1> DEFINE q == Head(pending \o queue)
<1>4. /\ q \in EventType /\ queue' \in Seq(EventType)
      /\ \A K, t : DownAfter(DownAfter(K, pending, t), queue, t)
                     = DownAfter(DownAfter(K, <<q>>, t), queue', t)
  <2>1. CASE pending = <<>>
    <3>1. pending \o queue = queue
      BY <1>2, <2>1, ConcatEmptySeq
    <3>2. queue # <<>> /\ queue' = Tail(queue) /\ q = Head(queue)
      BY <1>1, <2>1, <3>1
    <3> HIDE DEF q
    <3>3. q \in EventType /\ Tail(queue) \in Seq(EventType)
          /\ \A K, t : DownAfter(K, queue, t) = DownAfter(DownAfter(K, <<q>>, t), Tail(queue), t)
      BY <1>2, <3>2, HeadOfLine
    <3> QED BY <1>3, <2>1, <3>2, <3>3
  <2>2. CASE pending # <<>>
    <3>1. Head(pending) \in EventType /\ pending = <<Head(pending)>>
      BY <1>2, <2>2
    <3>2. Head(pending \o queue) = Head(pending)
      <4>1. Len(pending) \in Nat \ {0} /\ Len(queue) \in Nat
        BY <1>2, <2>2
      <4>2. pending \o queue \in Seq(EventType) /\ (pending \o queue)[1] = pending[1]
        BY <1>2, <4>1, ConcatProperties
      <4> QED BY <1>1, <1>2, <2>2, <4>2
    <3>3. q = Head(pending)
      BY <3>2
    <3> QED BY <1>1, <1>2, <2>2, <3>1, <3>3
  <2> QED BY <2>1, <2>2
<1>5. hand' = <<q>> \/ (~Reliable(q) /\ hand' = <<>>)
  BY DEF TakeEvent
<1> HIDE DEF q
<1>6. /\ hand' \in Seq(EventType) /\ (hand' # <<>> => hand' = <<Head(hand')>>)
      /\ \A K, t : DownAfter(K, hand', t) = DownAfter(K, <<q>>, t)
  <2>1. CASE hand' = <<q>>
    BY <1>4, <2>1
  <2>2. CASE ~Reliable(q) /\ hand' = <<>>
    <3>1. q.kind # "key"
      BY <2>2 DEF Reliable
    <3> QED BY <1>3, <1>4, <2>2, <3>1, NoStroke
  <2> QED BY <1>5, <2>1, <2>2
<1>7. \A t \in Targets \ lost' :
        routed'[t] = Arrived(down'[t], hand', pending', queue', outbox', t)
  BY <1>1, <1>3, <1>4, <1>6, WayNow DEF Arrived
<1>8. pending' \in Seq(EventType) /\ outbox' \in Seq(EventType)
  BY <1>1, <1>2
<1>9. KeysOnTheWay'
  BY <1>4, <1>6, <1>7, <1>8, WayNext
<1> QED BY <1>1, <1>4, <1>6, <1>8, <1>9 DEF WayInv

(* A burst is coalesced, or the event that ends it is parked.              *)
LEMMA CoalesceKeeps == ASSUME WayInv, Coalesce PROVE WayInv'
<1> DEFINE h == Head(hand)
           q == Head(queue)
<1>1. /\ hand # <<>> /\ IsMotion(h) /\ pending = <<>> /\ queue # <<>>
      /\ queue' = Tail(queue)
      /\ UNCHANGED <<outbox, routed, down, lost>>
  BY DEF Coalesce, captureVars, targetVars
<1>2. \/ CanCoalesce(h, q) /\ hand' = <<Coalesced(h, q)>> /\ pending' = pending
      \/ pending' = <<q>> /\ hand' = hand
  BY DEF Coalesce
<1>3. /\ hand \in Seq(EventType) /\ hand = <<h>> /\ h \in EventType
      /\ queue \in Seq(EventType) /\ outbox \in Seq(EventType)
  BY <1>1 DEF WayInv
<1>4. /\ q \in EventType /\ queue' \in Seq(EventType)
      /\ \A K, t : DownAfter(K, queue, t) = DownAfter(DownAfter(K, <<q>>, t), queue', t)
  BY <1>1, <1>3, HeadOfLine
<1> HIDE DEF h, q
<1>5. \A K, t : DownAfter(K, <<>>, t) = K /\ DownAfter(K, hand, t) = K
  BY <1>1, <1>3, DownAfterNone, NoStroke DEF IsMotion
<1>6. /\ hand' \in Seq(EventType) /\ hand' = <<Head(hand')>>
      /\ pending' \in Seq(EventType) /\ (pending' # <<>> => pending' = <<Head(pending')>>)
      /\ \A K, t : DownAfter(K, hand', t) = K /\ DownAfter(K, pending', t) = DownAfter(K, <<q>>, t)
  <2>1. CASE CanCoalesce(h, q) /\ hand' = <<Coalesced(h, q)>> /\ pending' = pending
    <3>1. q.kind # "key" /\ h.kind # "key"
      BY <1>1, <2>1 DEF CanCoalesce, IsMotion
    <3>2. Coalesced(h, q) \in EventType /\ Coalesced(h, q).kind # "key"
      <4>1. h.at + q.at \in Int
        BY <1>3, <1>4 DEF EventType
      <4>2. CASE h.kind = "move"
        <5>1. Coalesced(h, q) = [h EXCEPT !.at = h.at + q.at]
          BY <4>2 DEF Coalesced
        <5> QED BY <1>3, <3>1, <4>1, <5>1 DEF EventType
      <4>3. CASE h.kind # "move"
        BY <1>4, <3>1, <4>3 DEF Coalesced
      <4> QED BY <4>2, <4>3
    <3>3. \A K, t : DownAfter(K, hand', t) = K
      BY <2>1, <3>2, NoStroke
    <3>4. \A K, t : DownAfter(K, <<q>>, t) = K
      BY <1>4, <3>1, NoStroke
    <3>5. hand' \in Seq(EventType) /\ hand' = <<Head(hand')>>
      BY <2>1, <3>2
    <3> QED BY <1>1, <1>5, <2>1, <3>3, <3>4, <3>5
  <2>2. CASE pending' = <<q>> /\ hand' = hand
    BY <1>3, <1>4, <1>5, <2>2
  <2> QED BY <1>2, <2>1, <2>2
<1>7. \A t \in Targets \ lost' :
        routed'[t] = Arrived(down'[t], hand', pending', queue', outbox', t)
  BY <1>1, <1>4, <1>5, <1>6, WayNow DEF Arrived
<1>8. outbox' \in Seq(EventType)
  BY <1>1, <1>3
<1>9. KeysOnTheWay'
  BY <1>4, <1>6, <1>7, <1>8, WayNext
<1> QED BY <1>1, <1>4, <1>6, <1>8, <1>9 DEF WayInv

(* The event in hand is dropped, sent or lost.                             *)
LEMMA SendKeeps == ASSUME WayInv, DropInBackoff \/ Send \/ SendFails PROVE WayInv'
<1> DEFINE q == Head(hand)
<1>1. /\ hand # <<>> /\ hand' = <<>> /\ UNCHANGED <<pending, queue, outbox, routed>>
  BY DEF DropInBackoff, Send, SendFails, ReadyToSend, captureVars
<1>2. /\ hand = <<q>> /\ q \in EventType
      /\ pending \in Seq(EventType) /\ queue \in Seq(EventType) /\ outbox \in Seq(EventType)
  BY <1>1 DEF WayInv
<1>3. \A K, t : DownAfter(K, <<>>, t) = K
  BY DownAfterNone
<1>4. /\ down' = [t \in Targets |-> down'[t]]
      /\ \A t \in Targets \ lost' : t \notin lost /\ down'[t] = DownAfter(down[t], <<q>>, t)
  <2>1. CASE Send
    <3>1. /\ lost' = lost
          /\ down' = IF q.kind # "key" THEN down
                     ELSE [down EXCEPT ![q.to] = IF q.down THEN down[q.to] \cup {q.key}
                                                 ELSE down[q.to] \ {q.key}]
      BY <2>1 DEF Send
    <3>2. down = [t \in Targets |-> down[t]]
      BY DEF WayInv
    <3> HIDE DEF q
    <3>3. down' = [t \in Targets |-> down'[t]]
      <4>1. CASE q.kind # "key"
        BY <3>1, <3>2, <4>1
      <4>2. CASE q.kind = "key"
        BY <3>1, <3>2, <4>2
      <4> QED BY <4>1, <4>2
    <3>4. ASSUME NEW t \in Targets PROVE down'[t] = DownAfter(down[t], <<q>>, t)
      <4>1. DownAfter(down[t], <<q>>, t) =
              IF q.kind = "key" /\ q.to = t
              THEN IF q.down THEN down[t] \cup {q.key} ELSE down[t] \ {q.key}
              ELSE down[t]
        BY <1>2, DownAfterOne
      <4>2. CASE q.kind = "key" /\ q.to = t
        BY <3>1, <3>2, <4>1, <4>2
      <4>3. CASE ~(q.kind = "key" /\ q.to = t)
        BY <3>1, <3>2, <4>1, <4>3
      <4> QED BY <4>2, <4>3
    <3> QED BY <3>1, <3>3, <3>4
  <2>2. CASE DropInBackoff
    <3>1. ~Reliable(q) /\ UNCHANGED <<down, lost>>
      BY <2>2 DEF DropInBackoff, MayDrop, targetVars
    <3> HIDE DEF q
    <3> QED BY <1>2, <3>1, NoStroke DEF Reliable, WayInv
  <2>3. CASE SendFails
    <3>1. Lose(q) /\ down' = down
      BY <2>3 DEF SendFails
    <3> HIDE DEF q
    <3> QED BY <1>2, <3>1, LosesOnlyItsTarget DEF WayInv
  <2> QED BY <2>1, <2>2, <2>3
<1> HIDE DEF q
<1>5. \A t \in Targets \ lost' :
        routed'[t] = Arrived(down'[t], hand', pending', queue', outbox', t)
  BY <1>1, <1>2, <1>3, <1>4, WayNow DEF Arrived
<1>6. hand' \in Seq(EventType)
  BY <1>1
<1>7. KeysOnTheWay'
  BY <1>1, <1>2, <1>5, <1>6, WayNext
<1> QED BY <1>1, <1>4, <1>6, <1>7 DEF WayInv

(* What the router sends for one event: keys act as the history says.      *)
LEMMA RemoteStrokes ==
  ASSUME NEW r \in RouterType, r.active \in Targets, NEW e \in UserEvents, NEW t, NEW K
  PROVE  /\ RemoteEvents(r, e) \in Seq(EventType)
         /\ DownAfter(K, RemoteEvents(r, e), t) =
              IF e.kind = "key" /\ t = r.active
              THEN IF e.down THEN K \cup {e.key} ELSE K \ {e.key}
              ELSE K
<1> DEFINE position == Queued(r.active, "position", "none", FALSE, r.remote)
           move == Queued(r.active, "move", "none", FALSE, e.by)
           key == Queued(r.active, "key", e.key, e.down, r.remote)
<1>1. r.remote \in Int /\ e.by \in Int /\ e.key \in Keys \cup {"none"} /\ e.down \in BOOLEAN
      /\ e.kind \in {"key", "move"}
  BY CaptureAssumption DEF RouterType, Pointers, UserEvents
<1>2. /\ position \in EventType /\ position.kind = "position"
      /\ move \in EventType /\ move.kind = "move"
  BY <1>1 DEF Queued, EventType
<1>3. /\ key \in EventType /\ key.kind = "key" /\ key.to = r.active
      /\ key.key = e.key /\ key.down = e.down
  BY <1>1 DEF Queued, EventType
<1>4. RemoteEvents(r, e) = IF e.kind = "move" THEN IF e.by = 0 THEN <<>> ELSE <<move>>
                           ELSE (IF NeedsPointerSync(e) THEN <<position>> ELSE <<>>) \o <<key>>
  BY DEF RemoteEvents
<1> HIDE DEF position, move, key
<1>5. /\ <<>> \in Seq(EventType) /\ <<position>> \in Seq(EventType)
      /\ <<move>> \in Seq(EventType) /\ <<key>> \in Seq(EventType)
  BY <1>2, <1>3
<1>6. /\ DownAfter(K, <<>>, t) = K /\ DownAfter(K, <<move>>, t) = K
      /\ DownAfter(K, <<position>>, t) = K
  BY <1>2, DownAfterNone, NoStroke
<1>7. DownAfter(K, <<key>>, t) = IF t = r.active
                                 THEN IF e.down THEN K \cup {e.key} ELSE K \ {e.key} ELSE K
  BY <1>3, DownAfterOne, ZenonT(60)
<1>8. CASE e.kind = "move"
  BY <1>4, <1>5, <1>6, <1>8
<1>9. CASE e.kind = "key"
  <2>1. CASE NeedsPointerSync(e)
    <3> DEFINE p == <<position>>
               k == <<key>>
    <3>1. p \in Seq(EventType) /\ k \in Seq(EventType) /\ RemoteEvents(r, e) = p \o k
      BY <1>4, <1>5, <1>9, <2>1
    <3>2. DownAfter(K, p, t) = K
      BY <1>6
    <3> HIDE DEF p, k
    <3>3. p \o k \in Seq(EventType) /\ DownAfter(K, p \o k, t) = DownAfter(DownAfter(K, p, t), k, t)
      BY <3>1, DownAfterConcat
    <3>4. RemoteEvents(r, e) \in Seq(EventType)
          /\ DownAfter(K, RemoteEvents(r, e), t) = DownAfter(K, k, t)
      BY <3>1, <3>2, <3>3
    <3> QED BY <1>7, <1>9, <3>4 DEF k
  <2>2. CASE ~NeedsPointerSync(e)
    <3>1. RemoteEvents(r, e) = <<>> \o <<key>>
      BY <1>4, <1>9, <2>2
    <3>2. RemoteEvents(r, e) = <<key>>
      BY <1>5, <3>1, ConcatEmptySeq
    <3> QED BY <1>5, <1>7, <1>9, <3>2
  <2> QED BY <2>1, <2>2
<1> QED BY <1>1, <1>8, <1>9

LEMMA RouteKeepsWay ==
  ASSUME RouterInv, WayInv, NEW e \in UserEvents, Route(e)
  PROVE  WayInv'
<1> DEFINE r == Replanned
<1>1. /\ outbox = <<>> /\ UNCHANGED <<hand, pending, queue, down, lost>>
      /\ \/ StayLocal(r, e) \/ ReleaseControl(r, e) \/ EnterTarget(r, e) \/ SendRemote(r, e)
  BY DEF Route, transmitVars, targetVars
<1>2. r \in RouterType
  BY ReplannedCases
<1> HIDE DEF r
<1>3. /\ hand \in Seq(EventType) /\ pending \in Seq(EventType) /\ queue \in Seq(EventType)
      /\ routed = [t \in Targets |-> routed[t]] /\ down = [t \in Targets |-> down[t]]
  BY DEF WayInv
<1>4. \A K, t : DownAfter(K, outbox, t) = K
  BY <1>1, DownAfterNone
<1>5. /\ outbox' \in Seq(EventType) /\ routed' = [t \in Targets |-> routed'[t]]
      /\ \A t \in Targets : routed'[t] = DownAfter(routed[t], outbox', t)
  <2>1. CASE StayLocal(r, e) \/ ReleaseControl(r, e)
    <3>1. UNCHANGED <<outbox, routed>>
      BY <2>1 DEF StayLocal, ReleaseControl, Local
    <3>2. outbox' \in Seq(EventType)
      BY <1>1, <3>1
    <3> QED BY <1>3, <1>4, <3>1, <3>2
  <2>2. CASE EnterTarget(r, e)
    <3> DEFINE taking == [r EXCEPT !.active = e.edge, !.remote = 0]
               position == Queued(e.edge, "position", "none", FALSE, 0)
               p == <<position>>
               m == RemoteEvents(taking, e)
    <3>1. /\ e.kind = "move" /\ e.edge \in r.plan /\ routed' = routed
          /\ outbox' = p \o m
      BY <2>2 DEF EnterTarget, Entering
    <3>2. e.edge \in Targets
      BY <1>2, <3>1 DEF RouterType
    <3>3. taking \in RouterType /\ taking.active = e.edge
      <4>1. 0 \in Pointers
        BY CaptureAssumption DEF Pointers
      <4> QED BY <1>2, <3>2, <4>1 DEF RouterType
    <3>4. position \in EventType /\ position.kind # "key"
      BY <3>2 DEF Queued, EventType
    <3> HIDE DEF taking, position
    <3>5. p \in Seq(EventType) /\ \A K, t : DownAfter(K, p, t) = K
      BY <3>4, NoStroke
    <3>6. m \in Seq(EventType) /\ \A K, t : DownAfter(K, m, t) = K
      BY <3>1, <3>2, <3>3, RemoteStrokes
    <3> HIDE DEF p, m
    <3>7. p \o m \in Seq(EventType) /\ \A K, t : DownAfter(K, p \o m, t) = K
      BY <3>5, <3>6, DownAfterConcat
    <3> QED BY <1>3, <3>1, <3>7
  <2>3. CASE SendRemote(r, e)
    <3>1. /\ r.active # NoTarget /\ outbox' = RemoteEvents(r, e)
          /\ routed' = IF e.kind # "key" THEN routed
                       ELSE [routed EXCEPT ![r.active] =
                               IF e.down THEN routed[r.active] \cup {e.key}
                               ELSE routed[r.active] \ {e.key}]
      BY <2>3 DEF SendRemote
    <3>2. r.active \in Targets
      BY <1>2, <3>1 DEF RouterType
    <3>3. outbox' \in Seq(EventType)
          /\ \A K, t : DownAfter(K, outbox', t) =
                         IF e.kind = "key" /\ t = r.active
                         THEN IF e.down THEN K \cup {e.key} ELSE K \ {e.key}
                         ELSE K
      BY <1>2, <3>1, <3>2, RemoteStrokes
    <3>4. CASE e.kind = "key"
      <4>1. routed' = [t \in Targets |-> routed'[t]]
        BY <1>3, <3>1, <3>4
      <4>2. \A t \in Targets : routed'[t] = IF t = r.active
                                            THEN IF e.down THEN routed[t] \cup {e.key}
                                                 ELSE routed[t] \ {e.key}
                                            ELSE routed[t]
        BY <1>3, <3>1, <3>4
      <4> QED BY <3>3, <3>4, <4>1, <4>2, ZenonT(60)
    <3>5. CASE e.kind # "key"
      BY <1>3, <3>1, <3>3, <3>5
    <3> QED BY <3>4, <3>5
  <2> QED BY <1>1, <2>1, <2>2, <2>3
<1>6. \A t \in Targets \ lost' :
        routed'[t] = Arrived(down'[t], hand', pending', queue', outbox', t)
  BY <1>1, <1>4, <1>5, WayNow DEF Arrived
<1>7. KeysOnTheWay'
  BY <1>1, <1>3, <1>5, <1>6, WayNext
<1> QED BY <1>1, <1>3, <1>5, <1>7 DEF WayInv

LEMMA InitWay == Init => WayInv
<1> SUFFICES ASSUME Init PROVE WayInv
  OBVIOUS
<1>1. /\ hand = <<>> /\ pending = <<>> /\ queue = <<>> /\ outbox = <<>>
      /\ down = [t \in Targets |-> {}] /\ routed = [t \in Targets |-> {}]
  BY DEF Init
<1>2. <<>> \in Seq(EventType) /\ \A K, t : DownAfter(K, <<>>, t) = K
  BY DownAfterNone
<1>3. <<>> \o <<>> \o <<>> \o <<>> = <<>>
  BY <1>2, ConcatEmptySeq
<1>4. KeysOnTheWay
  BY <1>1, <1>2, <1>3 DEF KeysOnTheWay, OnTheWay
<1> QED BY <1>1, <1>2, <1>4 DEF WayInv

LEMMA WayStep ==
  ASSUME RouterInv, WayInv, [Next]_vars
  PROVE  WayInv'
<1>1. CASE UserActs \/ UserStirs
  BY <1>1, UserRoutes, RouteKeepsWay
<1>2. CASE Enqueue
  BY <1>2, EnqueueKeeps
<1>3. CASE TransmitStep
  BY <1>3, TakeKeeps, CoalesceKeeps, SendKeeps DEF TransmitStep
<1>4. CASE PresenceChanges \/ RefreshPlan \/ CooldownEnds \/ CaptureEnds \/ UNCHANGED vars
  <2>1. UNCHANGED <<hand, pending, queue, outbox, routed, down, lost>>
    BY <1>4 DEF PresenceChanges, RefreshPlan, CooldownEnds, CaptureEnds, vars, captureVars,
                transmitVars, targetVars
  <2> QED BY <2>1 DEF WayInv, KeysOnTheWay, OnTheWay
<1> QED BY <1>1, <1>2, <1>3, <1>4 DEF Next

(* Between the router and a target no key is lost, swapped or held back    *)
(* for good by coalescing, parking, stale moves and back-off: for any      *)
(* targets, keys, capacity of the queue and length of a run.               *)
THEOREM KeysStayOnTheWay == Spec => []KeysOnTheWay
<1>1. WayInv => KeysOnTheWay
  BY DEF WayInv
<1>2. Init => RouterInv /\ WayInv
  BY InitRouter, InitWay
<1>3. (RouterInv /\ WayInv) /\ [Next]_vars => (RouterInv /\ WayInv)'
  BY ControlStep, WayStep
<1> QED BY <1>1, <1>2, <1>3, PTL DEF Spec

-----------------------------------------------------------------------------
(* The capture for a single target.  A captured event as the target takes  *)
(* it, to reuse what is known of DownAfter: keys are mapped.               *)
Taken(q) ==
  [to |-> NoTarget, kind |-> q.kind, key |-> IF q.kind = "key" THEN Mapped(q.key).key ELSE "none",
   down |-> q.kind = "key" /\ Mapped(q.key).down]

AllTaken(qs) == [i \in DOMAIN qs |-> Taken(qs[i])]

LEMMA TypedIsDown ==
  ASSUME NEW S, NEW qs \in Seq(S), NEW K
  PROVE  TypedAfter(K, qs) = DownAfter(K, AllTaken(qs), NoTarget)
<1> DEFINE strokes == {i \in DOMAIN qs : qs[i].kind = "key"}
           KeyOf(i) == Mapped(qs[i].key).key
           latest == {i \in strokes : \A j \in strokes : KeyOf(j) = KeyOf(i) => j <= i}
           s == AllTaken(qs)
           mine == {i \in DOMAIN s : s[i].kind = "key" /\ s[i].to = NoTarget}
           newest == {i \in mine : \A j \in mine : s[j].key = s[i].key => j <= i}
<1>1. DOMAIN s = DOMAIN qs /\ \A i \in DOMAIN qs : s[i] = Taken(qs[i])
  BY DEF AllTaken
<1>2. \A i \in DOMAIN qs : /\ s[i].kind = qs[i].kind /\ s[i].to = NoTarget
                           /\ qs[i].kind = "key" => /\ s[i].key = KeyOf(i)
                                                    /\ s[i].down <=> Mapped(qs[i].key).down
  <2> SUFFICES ASSUME NEW i \in DOMAIN qs
               PROVE  /\ s[i].kind = qs[i].kind /\ s[i].to = NoTarget
                      /\ qs[i].kind = "key" => /\ s[i].key = KeyOf(i)
                                               /\ s[i].down <=> Mapped(qs[i].key).down
    OBVIOUS
  <2>1. s[i] = Taken(qs[i])
    BY <1>1
  <2> HIDE DEF s
  <2>2. s[i].kind = qs[i].kind /\ s[i].to = NoTarget
    BY <2>1 DEF Taken
  <2>3. qs[i].kind = "key" => s[i].key = KeyOf(i)
    BY <2>1 DEF Taken
  <2>4. s[i].down = (qs[i].kind = "key" /\ Mapped(qs[i].key).down)
    BY <2>1 DEF Taken
  <2> QED BY <2>2, <2>3, <2>4
<1>3. TypedAfter(K, qs) = {k \in K : \A i \in strokes : KeyOf(i) # k}
                            \cup {KeyOf(i) : i \in {i \in latest : Mapped(qs[i].key).down}}
  BY DEF TypedAfter
<1>4. DownAfter(K, s, NoTarget) = {k \in K : \A i \in mine : s[i].key # k}
                                    \cup {s[i].key : i \in {i \in newest : s[i].down}}
  BY DEF DownAfter
<1> HIDE DEF s
<1>5. mine = strokes
  BY <1>1, <1>2
<1>6. \A i \in strokes : s[i].key = KeyOf(i) /\ (s[i].down <=> Mapped(qs[i].key).down)
  BY <1>2
<1> HIDE DEF strokes, mine, KeyOf
<1>7. newest = latest
  BY <1>5, <1>6
<1>8. latest \subseteq strokes
  OBVIOUS
<1> HIDE DEF newest, latest
<1>9. {k \in K : \A i \in mine : s[i].key # k} = {k \in K : \A i \in strokes : KeyOf(i) # k}
  BY <1>5, <1>6
<1>10. {i \in newest : s[i].down} = {i \in latest : Mapped(qs[i].key).down}
  BY <1>6, <1>7, <1>8
<1>11. {s[i].key : i \in {i \in newest : s[i].down}}
         = {KeyOf(i) : i \in {i \in latest : Mapped(qs[i].key).down}}
  BY <1>6, <1>8, <1>10
<1> QED BY <1>3, <1>4, <1>9, <1>11 DEF s

LEMMA TypedAfterConcat ==
  ASSUME NEW S, NEW ps \in Seq(S), NEW qs \in Seq(S), NEW K
  PROVE  /\ ps \o qs \in Seq(S)
         /\ TypedAfter(K, ps \o qs) = TypedAfter(TypedAfter(K, ps), qs)
<1> DEFINE T == {Taken(q) : q \in S}
           s == ps \o qs
<1>1. /\ s \in Seq(S) /\ Len(s) = Len(ps) + Len(qs) /\ Len(ps) \in Nat /\ Len(qs) \in Nat
      /\ \A i \in 1 .. Len(ps) + Len(qs) : s[i] = IF i <= Len(ps) THEN ps[i]
                                                  ELSE qs[i - Len(ps)]
  BY ConcatProperties
<1> HIDE DEF s
<1>2. \A r \in Seq(S) : AllTaken(r) \in Seq(T) /\ Len(AllTaken(r)) = Len(r)
                        /\ \A i \in 1 .. Len(r) : AllTaken(r)[i] = Taken(r[i])
  <2> SUFFICES ASSUME NEW r \in Seq(S)
               PROVE  AllTaken(r) \in Seq(T) /\ Len(AllTaken(r)) = Len(r)
                      /\ \A i \in 1 .. Len(r) : AllTaken(r)[i] = Taken(r[i])
    OBVIOUS
  <2>1. DOMAIN r = 1 .. Len(r) /\ Len(r) \in Nat /\ \A i \in 1 .. Len(r) : r[i] \in S
    OBVIOUS
  <2>2. AllTaken(r) = [i \in 1 .. Len(r) |-> Taken(r[i])] /\ \A i \in 1 .. Len(r) : Taken(r[i]) \in T
    BY <2>1 DEF AllTaken
  <2> HIDE DEF T
  <2> QED BY <2>1, <2>2
<1> HIDE DEF T
<1>3. AllTaken(s) = AllTaken(ps) \o AllTaken(qs)
  <2> DEFINE a == AllTaken(ps)
             b == AllTaken(qs)
             c == AllTaken(s)
             d == a \o b
  <2>1. /\ a \in Seq(T) /\ b \in Seq(T) /\ c \in Seq(T)
        /\ Len(a) = Len(ps) /\ Len(b) = Len(qs) /\ Len(c) = Len(s)
        /\ \A i \in 1 .. Len(ps) : a[i] = Taken(ps[i])
        /\ \A i \in 1 .. Len(qs) : b[i] = Taken(qs[i])
        /\ \A i \in 1 .. Len(s) : c[i] = Taken(s[i])
    BY <1>1, <1>2
  <2> HIDE DEF a, b, c
  <2>2. /\ d \in Seq(T) /\ Len(d) = Len(a) + Len(b)
        /\ \A i \in 1 .. Len(a) + Len(b) : d[i] = IF i <= Len(a) THEN a[i] ELSE b[i - Len(a)]
    <3>1. a \in Seq(T) /\ b \in Seq(T)
      BY <2>1
    <3> QED BY <3>1, ConcatProperties
  <2> HIDE DEF d
  <2>3. ASSUME NEW i \in 1 .. Len(c) PROVE c[i] = d[i]
    <3>1. CASE i <= Len(ps)
      <4>1. i \in 1 .. Len(ps) /\ i \in 1 .. Len(s) /\ i \in 1 .. Len(a) + Len(b) /\ i <= Len(a)
        BY <1>1, <2>1, <3>1
      <4>2. s[i] = ps[i]
        <5>1. i \in 1 .. Len(ps) + Len(qs)
          BY ONLY <1>1, <4>1
        <5> QED BY ONLY <1>1, <3>1, <5>1
      <4>3. d[i] = a[i]
        BY ONLY <2>2, <4>1
      <4> QED BY ONLY <2>1, <4>1, <4>2, <4>3
    <3>2. CASE ~(i <= Len(ps))
      <4>1. i - Len(ps) \in 1 .. Len(qs)
        BY <1>1, <2>1, <3>2
      <4> QED BY <1>1, <2>1, <2>2, <3>2, <4>1
    <3> QED BY <3>1, <3>2
  <2>4. c = d
    BY <1>1, <2>1, <2>2, <2>3, SeqEqual
  <2> QED BY <2>4 DEF a, b, c, d
<1>4. DownAfter(K, AllTaken(ps) \o AllTaken(qs), NoTarget)
        = DownAfter(DownAfter(K, AllTaken(ps), NoTarget), AllTaken(qs), NoTarget)
  <2> DEFINE a == AllTaken(ps)
             b == AllTaken(qs)
  <2>1. a \in Seq(T) /\ b \in Seq(T)
    BY <1>2
  <2> HIDE DEF a, b
  <2>2. DownAfter(K, a \o b, NoTarget) = DownAfter(DownAfter(K, a, NoTarget), b, NoTarget)
    BY <2>1, DownAfterConcat
  <2> QED BY <2>2 DEF a, b
<1>5. TypedAfter(K, s) = DownAfter(K, AllTaken(s), NoTarget)
  BY <1>1, TypedIsDown
<1>6. TypedAfter(K, ps) = DownAfter(K, AllTaken(ps), NoTarget)
  BY TypedIsDown
<1>7. TypedAfter(TypedAfter(K, ps), qs) = DownAfter(TypedAfter(K, ps), AllTaken(qs), NoTarget)
  BY TypedIsDown
<1> QED BY <1>1, <1>3, <1>4, <1>5, <1>6, <1>7 DEF s

LEMMA TypedAfterFew ==
  ASSUME NEW K, NEW q
  PROVE  TypedAfter(K, <<>>) = K /\ TypedAfter(K, <<q>>) = Typed(K, q)
<1>1. TypedAfter(K, <<>>) = K
  <2>1. DOMAIN <<>> = {}
    OBVIOUS
  <2> QED BY <2>1 DEF TypedAfter
<1>2. TypedAfter(K, <<q>>) = Typed(K, q)
  <2> DEFINE qs == <<q>>
             strokes == {i \in DOMAIN qs : qs[i].kind = "key"}
             KeyOf(i) == Mapped(qs[i].key).key
             latest == {i \in strokes : \A j \in strokes : KeyOf(j) = KeyOf(i) => j <= i}
  <2>1. DOMAIN qs = {1} /\ qs[1] = q
    OBVIOUS
  <2>2. TypedAfter(K, qs) = {k \in K : \A i \in strokes : KeyOf(i) # k}
                              \cup {KeyOf(i) : i \in {i \in latest : Mapped(qs[i].key).down}}
    BY DEF TypedAfter
  <2> HIDE DEF qs
  <2>3. CASE q.kind = "key"
    <3>1. strokes = {1} /\ KeyOf(1) = Mapped(q.key).key
      BY <2>1, <2>3
    <3>2. latest = {1}
      BY <3>1
    <3>3. Mapped(qs[1].key).down <=> Mapped(q.key).down
      BY <2>1
    <3> HIDE DEF strokes, latest, KeyOf
    <3>4. TypedAfter(K, qs) = (K \ {Mapped(q.key).key})
                                \cup (IF Mapped(q.key).down THEN {Mapped(q.key).key} ELSE {})
      BY <2>2, <3>1, <3>2, <3>3
    <3> QED BY <2>3, <3>4 DEF Typed, qs
  <2>4. CASE q.kind # "key"
    <3>1. strokes = {}
      BY <2>1, <2>4
    <3>2. latest = {}
      BY <3>1
    <3> HIDE DEF strokes, latest, KeyOf
    <3>3. TypedAfter(K, qs) = K
      BY <2>2, <3>1, <3>2
    <3> QED BY <2>4, <3>3 DEF Typed, qs
  <2> QED BY <2>3, <2>4
<1> QED BY <1>1, <1>2

(* Whatever is captured: moves, entries and the strokes of the user.       *)
SingleEvents ==
  {Motion, Entry} \cup
  {Stroke(CapturedKeyEvent(Profile.source, k, d, h)) :
     k \in UserKeys, d \in BOOLEAN, h \in SUBSET UserKeys}

SingleInv ==
  /\ taken \in Seq(SingleEvents) /\ parked \in Seq(SingleEvents)
  /\ channel \in Seq(SingleEvents) /\ outgoing \in Seq(SingleEvents)
  /\ taken # <<>> => taken = <<Head(taken)>>
  /\ parked # <<>> => parked = <<Head(parked)>>
  /\ pressed \subseteq UserKeys
  /\ mode \in {"edge", "always", "locked"}
  /\ TypedAsRouted

(* What is down on the target once the four parts of the line have come.   *)
TypedOnce(K, a, b, c, d) == TypedAfter(TypedAfter(TypedAfter(TypedAfter(K, a), b), c), d)

LEMMA SingleParts ==
  ASSUME NEW S, NEW a \in Seq(S), NEW b \in Seq(S), NEW c \in Seq(S), NEW d \in Seq(S), NEW K
  PROVE  TypedAfter(K, a \o b \o c \o d) = TypedOnce(K, a, b, c, d)
<1> DEFINE ab == a \o b
           abc == ab \o c
<1>1. ab \in Seq(S) /\ TypedAfter(K, ab) = TypedAfter(TypedAfter(K, a), b)
  BY TypedAfterConcat
<1> HIDE DEF ab
<1>2. abc \in Seq(S) /\ TypedAfter(K, abc) = TypedAfter(TypedAfter(K, ab), c)
  BY <1>1, TypedAfterConcat
<1> HIDE DEF abc
<1>3. TypedAfter(K, abc \o d) = TypedAfter(TypedAfter(K, abc), d)
  BY <1>2, TypedAfterConcat
<1>4. abc \o d = a \o b \o c \o d
  BY DEF abc, ab
<1> QED BY <1>1, <1>2, <1>3, <1>4 DEF TypedOnce

LEMMA SingleNow ==
  ASSUME SingleInv, ~missed
  PROVE  intended = TypedOnce(typed, taken, parked, channel, outgoing)
<1>1. /\ taken \in Seq(SingleEvents) /\ parked \in Seq(SingleEvents)
      /\ channel \in Seq(SingleEvents) /\ outgoing \in Seq(SingleEvents)
      /\ intended = TypedAfter(typed, taken \o parked \o channel \o outgoing)
  BY DEF SingleInv, TypedAsRouted
<1> HIDE DEF SingleEvents
<1> QED BY <1>1, SingleParts

LEMMA SingleThen ==
  ASSUME taken' \in Seq(SingleEvents), parked' \in Seq(SingleEvents),
         channel' \in Seq(SingleEvents), outgoing' \in Seq(SingleEvents),
         ~missed' => intended' = TypedOnce(typed', taken', parked', channel', outgoing')
  PROVE  TypedAsRouted'
<1> HIDE DEF SingleEvents
<1>1. TypedAfter(typed', taken' \o parked' \o channel' \o outgoing')
        = TypedOnce(typed', taken', parked', channel', outgoing')
  BY SingleParts
<1> QED BY <1>1 DEF TypedAsRouted

LEMMA NoKeyTypes ==
  ASSUME NEW qs, ~HasKey(qs), NEW K
  PROVE  TypedAfter(K, qs) = K
<1>1. {i \in DOMAIN qs : qs[i].kind = "key"} = {}
  BY DEF HasKey
<1> QED BY <1>1 DEF TypedAfter

LEMMA FirstTyped ==
  ASSUME NEW S, NEW qs \in Seq(S), qs # <<>>, NEW K
  PROVE  /\ Head(qs) \in S /\ <<Head(qs)>> \in Seq(S) /\ Tail(qs) \in Seq(S)
         /\ TypedAfter(K, qs) = TypedAfter(Typed(K, Head(qs)), Tail(qs))
<1>1. Head(qs) \in S /\ Tail(qs) \in Seq(S) /\ <<Head(qs)>> \in Seq(S)
  OBVIOUS
<1> DEFINE h == <<Head(qs)>>
           r == Tail(qs)
           s == h \o r
<1>2. /\ Len(qs) \in Nat \ {0} /\ Len(r) = Len(qs) - 1
      /\ \A i \in 1 .. Len(qs) - 1 : r[i] = qs[i + 1]
      /\ Head(qs) = qs[1]
  OBVIOUS
<1>3. h \in Seq(S) /\ Len(h) = 1 /\ h[1] = qs[1] /\ r \in Seq(S)
  BY <1>1, <1>2
<1>4. TypedAfter(K, h) = Typed(K, Head(qs))
  BY TypedAfterFew
<1> HIDE DEF h, r
<1>5. s \in Seq(S) /\ Len(s) = Len(h) + Len(r)
      /\ \A i \in 1 .. Len(h) + Len(r) : s[i] = IF i <= Len(h) THEN h[i] ELSE r[i - Len(h)]
  BY <1>3, ConcatProperties
<1>6. TypedAfter(K, s) = TypedAfter(TypedAfter(K, h), r)
  BY <1>3, TypedAfterConcat
<1> HIDE DEF s
<1>7. \A i \in 1 .. Len(qs) : s[i] = qs[i]
  <2> SUFFICES ASSUME NEW i \in 1 .. Len(qs) PROVE s[i] = qs[i]
    OBVIOUS
  <2>1. CASE i = 1
    BY <1>2, <1>3, <1>5, <2>1
  <2>2. CASE i # 1
    <3>1. i - 1 \in 1 .. Len(qs) - 1 /\ (i - 1) + 1 = i /\ ~(i <= 1)
      BY <1>2, <2>2
    <3> QED BY <1>2, <1>3, <1>5, <3>1
  <2> QED BY <2>1, <2>2
<1>8. s = qs
  BY <1>2, <1>3, <1>5, <1>7, SeqEqual
<1> QED BY <1>1, <1>4, <1>6, <1>8 DEF h, r

LEMMA LastTyped ==
  ASSUME NEW S, NEW qs \in Seq(S), NEW q \in S, NEW K
  PROVE  /\ Append(qs, q) \in Seq(S)
         /\ TypedAfter(K, Append(qs, q)) = Typed(TypedAfter(K, qs), q)
<1> DEFINE one == <<q>>
<1>1. one \in Seq(S) /\ Append(qs, q) = qs \o one /\ Append(qs, q) \in Seq(S)
  BY AppendIsConcat, AppendProperties
<1>2. \A L : TypedAfter(L, one) = Typed(L, q)
  BY TypedAfterFew
<1> HIDE DEF one
<1>3. TypedAfter(K, qs \o one) = TypedAfter(TypedAfter(K, qs), one)
  BY <1>1, TypedAfterConcat
<1> QED BY <1>1, <1>2, <1>3

(* The capture callback: what it puts into the line, it intends.           *)
LEMMA UserIntends ==
  ASSUME pressed \subseteq UserKeys, mode \in {"edge", "always", "locked"}, UserInput
  PROVE  /\ UNCHANGED <<taken, parked, channel, typed, missed, mode>>
         /\ pressed' \subseteq UserKeys
         /\ \/ UNCHANGED <<outgoing, intended>>
            \/ /\ outgoing = <<>>
               /\ \E q \in SingleEvents :
                    /\ outgoing' = Append(<<>>, q) \/ outgoing' = Append(<<Entry>>, q)
                    /\ intended' = Typed(intended, q)
<1>1. ASSUME NEW q \in SingleEvents, NEW ed, RouteSingle(q, ed)
      PROVE  /\ UNCHANGED <<taken, parked, channel, typed, missed, mode>>
             /\ \/ UNCHANGED <<outgoing, intended>>
                \/ /\ outgoing = <<>>
                   /\ outgoing' = Append(<<>>, q) \/ outgoing' = Append(<<Entry>>, q)
                   /\ intended' = Typed(intended, q)
  <2>1. UNCHANGED <<taken, parked, channel, typed, missed, mode>> /\ outgoing = <<>>
    BY <1>1 DEF RouteSingle, threadVars, farVars
  <2>2. \/ StaysLocal
        \/ Forward(<<>>, q)
        \/ RouteAtEdge(q, ed)
    <3>1. PICK excepted \in BOOLEAN :
            CASE SystemReserved(q) \/ excepted \/ mode = "locked" -> StaysLocal
              [] mode = "always" -> Forward(<<>>, q) /\ UNCHANGED <<control, cooling, concealed>>
              [] mode = "edge" -> RouteAtEdge(q, ed)
      BY <1>1 DEF RouteSingle
    <3>2. CASE mode = "locked"
      BY <3>1, <3>2
    <3>3. CASE mode = "always"
      BY <3>1, <3>3
    <3>4. CASE mode = "edge"
      BY <3>1, <3>4
    <3> QED BY <3>2, <3>3, <3>4
  <2>3. RouteAtEdge(q, ed) =>
          UNCHANGED <<outgoing, intended>> \/ Forward(<<>>, q) \/ Forward(<<Entry>>, q)
    BY DEF RouteAtEdge, StaysLocal
  <2>4. StaysLocal => UNCHANGED <<outgoing, intended>>
    BY DEF StaysLocal
  <2> QED BY <2>1, <2>2, <2>3, <2>4 DEF Forward
<1>2. ASSUME NEW k \in UserKeys,
             LET now == IF k \in pressed THEN pressed \ {k} ELSE pressed \cup {k}
                 stroke == CapturedKeyEvent(Profile.source, k, k \in now, now)
             IN  /\ pressed' = now /\ UNCHANGED atEdge
                 /\ \/ RouteSingle(Stroke(stroke), atEdge)
                    \/ phase # "capturing" /\ UNCHANGED <<phase, localVars, outgoing, channel,
                                                          threadVars, farVars, missed>>
      PROVE  /\ pressed' \subseteq UserKeys
             /\ \/ UNCHANGED <<taken, parked, channel, typed, missed, mode, outgoing, intended>>
                \/ \E q \in SingleEvents : RouteSingle(q, atEdge)
  <2> DEFINE now == IF k \in pressed THEN pressed \ {k} ELSE pressed \cup {k}
             stroke == CapturedKeyEvent(Profile.source, k, k \in now, now)
  <2>1. now \in SUBSET UserKeys /\ (k \in now) \in BOOLEAN
    OBVIOUS
  <2> DEFINE goesDown == k \in now
  <2>2. Stroke(stroke) \in SingleEvents
    <3>1. stroke = CapturedKeyEvent(Profile.source, k, goesDown, now)
      OBVIOUS
    <3>2. goesDown \in BOOLEAN
      OBVIOUS
    <3> HIDE DEF now, goesDown, stroke
    <3> QED BY <2>1, <3>1, <3>2 DEF SingleEvents
  <2>3. \/ RouteSingle(Stroke(stroke), atEdge)
        \/ UNCHANGED <<taken, parked, channel, typed, missed, mode, outgoing, intended>>
    BY <1>2 DEF localVars, threadVars, farVars
  <2>4. pressed' = now
    BY <1>2
  <2> QED BY <2>1, <2>2, <2>3, <2>4
<1>3. ASSUME atEdge' \in BOOLEAN, UNCHANGED pressed, RouteSingle(Motion, atEdge')
      PROVE  pressed' \subseteq UserKeys /\ \E q \in SingleEvents : RouteSingle(q, atEdge')
  BY <1>3 DEF SingleEvents
<1> QED BY <1>1, <1>2, <1>3 DEF UserInput

LEMMA UserKeeps == ASSUME SingleInv, UserInput PROVE SingleInv'
<1>1. /\ taken \in Seq(SingleEvents) /\ parked \in Seq(SingleEvents)
      /\ channel \in Seq(SingleEvents) /\ outgoing \in Seq(SingleEvents)
      /\ pressed \subseteq UserKeys /\ mode \in {"edge", "always", "locked"}
  BY DEF SingleInv
<1>2. UNCHANGED <<taken, parked, channel, typed, missed, mode>> /\ pressed' \subseteq UserKeys
  BY <1>1, UserIntends
<1>3. CASE UNCHANGED <<outgoing, intended>>
  BY <1>2, <1>3 DEF SingleInv, TypedAsRouted
<1>4. ASSUME outgoing = <<>>, NEW q \in SingleEvents, intended' = Typed(intended, q),
             outgoing' = Append(<<>>, q) \/ outgoing' = Append(<<Entry>>, q)
      PROVE  SingleInv'
  <2> DEFINE none == <<>>
             first == <<Entry>>
  <2>1. first \in Seq(SingleEvents) /\ none \in Seq(SingleEvents) /\ ~HasKey(first)
    BY DEF SingleEvents, HasKey, Entry
  <2>2. \A K : TypedAfter(K, <<>>) = K /\ TypedAfter(K, none) = K /\ TypedAfter(K, first) = K
    BY <2>1, NoKeyTypes, TypedAfterFew
  <2>3. outgoing' = Append(none, q) \/ outgoing' = Append(first, q)
    BY <1>4
  <2>4. PICK front \in Seq(SingleEvents) :
          outgoing' = Append(front, q) /\ \A K : TypedAfter(K, front) = K
    <3> HIDE DEF none, first, SingleEvents
    <3> QED BY <2>1, <2>2, <2>3
  <2> HIDE DEF SingleEvents, first, none
  <2>5. outgoing' \in Seq(SingleEvents) /\ \A K : TypedAfter(K, outgoing') = Typed(K, q)
    BY <1>4, <2>4, LastTyped
  <2>6. ~missed' => intended' = TypedOnce(typed', taken', parked', channel', outgoing')
    BY <1>2, <1>4, <2>2, <2>5, SingleNow DEF TypedOnce
  <2>7. TypedAsRouted'
    BY <1>1, <1>2, <2>5, <2>6, SingleThen
  <2> QED BY <1>2, <2>5, <2>7 DEF SingleInv
<1> QED BY <1>1, <1>3, <1>4, UserIntends

LEMMA EnqueueSingleKeeps == ASSUME SingleInv, EnqueueSingle PROVE SingleInv'
<1> DEFINE q == Head(outgoing)
<1>1. /\ outgoing # <<>> /\ outgoing' = Tail(outgoing)
      /\ UNCHANGED <<taken, parked, typed, intended, pressed, mode>>
      /\ \/ channel' = Append(channel, q) /\ missed' = missed
         \/ missed' = (missed \/ HasKey(<<q>>)) /\ channel' = channel
  BY DEF EnqueueSingle, localVars, userInput, threadVars, farVars
<1>2. /\ taken \in Seq(SingleEvents) /\ parked \in Seq(SingleEvents)
      /\ channel \in Seq(SingleEvents) /\ outgoing \in Seq(SingleEvents)
  BY DEF SingleInv
<1> HIDE DEF SingleEvents
<1>3. /\ q \in SingleEvents /\ outgoing' \in Seq(SingleEvents)
      /\ \A K : TypedAfter(K, outgoing) = TypedAfter(Typed(K, q), outgoing')
  BY <1>1, <1>2, FirstTyped
<1> HIDE DEF q
<1>4. CASE channel' = Append(channel, q) /\ missed' = missed
  <2>1. channel' \in Seq(SingleEvents)
        /\ \A K : TypedAfter(K, channel') = Typed(TypedAfter(K, channel), q)
    BY <1>2, <1>3, <1>4, LastTyped
  <2>2. ~missed' => intended' = TypedOnce(typed', taken', parked', channel', outgoing')
    BY <1>1, <1>3, <1>4, <2>1, SingleNow DEF TypedOnce
  <2>3. TypedAsRouted'
    BY <1>1, <1>2, <1>3, <2>1, <2>2, SingleThen
  <2> QED BY <1>1, <1>3, <2>1, <2>3 DEF SingleInv
<1>5. CASE missed' = (missed \/ HasKey(<<q>>)) /\ channel' = channel
  <2>1. ~missed' => ~missed /\ \A K : Typed(K, q) = K
    <3>1. ~missed' => ~missed /\ ~HasKey(<<q>>)
      BY <1>5
    <3> QED BY <3>1, NoKeyTypes, TypedAfterFew, ZenonT(30)
  <2>2. ~missed' => intended' = TypedOnce(typed', taken', parked', channel', outgoing')
    BY <1>1, <1>3, <1>5, <2>1, SingleNow DEF TypedOnce
  <2>3. TypedAsRouted'
    BY <1>1, <1>2, <1>3, <1>5, <2>2, SingleThen
  <2> QED BY <1>1, <1>2, <1>3, <1>5, <2>3 DEF SingleInv
<1> QED BY <1>1, <1>4, <1>5

(* The transmit thread takes, coalesces and parks.                         *)
LEMMA TakeSingleKeeps == ASSUME SingleInv, TakeSingle PROVE SingleInv'
<1> DEFINE q == Head(parked \o channel)
<1>1. /\ taken = <<>> /\ parked \o channel # <<>> /\ taken' = <<q>> /\ parked' = <<>>
      /\ channel' = IF parked = <<>> THEN Tail(channel) ELSE channel
      /\ UNCHANGED <<outgoing, typed, intended, pressed, missed, mode>>
  BY DEF TakeSingle, localVars, userInput, farVars
<1>2. /\ parked \in Seq(SingleEvents) /\ channel \in Seq(SingleEvents)
      /\ outgoing \in Seq(SingleEvents) /\ (parked # <<>> => parked = <<Head(parked)>>)
  BY DEF SingleInv
<1> HIDE DEF SingleEvents
<1>3. \A K : TypedAfter(K, <<>>) = K
  BY TypedAfterFew
<1>4. /\ q \in SingleEvents /\ channel' \in Seq(SingleEvents)
      /\ \A K : TypedAfter(TypedAfter(K, parked), channel) = TypedAfter(Typed(K, q), channel')
  <2>1. CASE parked = <<>>
    <3>1. parked \o channel = channel
      BY <1>2, <2>1, ConcatEmptySeq
    <3>2. channel # <<>> /\ channel' = Tail(channel) /\ q = Head(channel)
      BY <1>1, <2>1, <3>1
    <3> HIDE DEF q
    <3>3. q \in SingleEvents /\ channel' \in Seq(SingleEvents)
          /\ \A K : TypedAfter(K, channel) = TypedAfter(Typed(K, q), channel')
      BY <1>2, <3>2, FirstTyped
    <3> QED BY <1>3, <2>1, <3>3
  <2>2. CASE parked # <<>>
    <3>1. Head(parked) \in SingleEvents /\ parked = <<Head(parked)>>
      BY <1>2, <2>2
    <3>2. Head(parked \o channel) = Head(parked)
      <4>1. Len(parked) \in Nat \ {0} /\ Len(channel) \in Nat
        BY <1>2, <2>2
      <4>2. parked \o channel \in Seq(SingleEvents) /\ (parked \o channel)[1] = parked[1]
        BY <1>2, <4>1, ConcatProperties
      <4> QED BY <1>1, <1>2, <2>2, <4>2
    <3>3. q = Head(parked)
      BY <3>2
    <3>4. \A K : TypedAfter(K, parked) = Typed(K, Head(parked))
      BY <3>1, TypedAfterFew
    <3> QED BY <1>1, <1>2, <2>2, <3>1, <3>3, <3>4
  <2> QED BY <2>1, <2>2
<1> HIDE DEF q
<1>5. /\ taken' \in Seq(SingleEvents) /\ taken' = <<Head(taken')>> /\ parked' \in Seq(SingleEvents)
      /\ \A K : TypedAfter(K, taken') = Typed(K, q)
  BY <1>1, <1>4, TypedAfterFew
<1>6. ~missed' => intended' = TypedOnce(typed', taken', parked', channel', outgoing')
  BY <1>1, <1>3, <1>4, <1>5, SingleNow DEF TypedOnce
<1>7. TypedAsRouted'
  BY <1>1, <1>2, <1>4, <1>5, <1>6, SingleThen
<1>8. /\ outgoing' \in Seq(SingleEvents) /\ pressed' \subseteq UserKeys
      /\ mode' \in {"edge", "always", "locked"}
  BY <1>1, <1>2 DEF SingleInv
<1> QED BY <1>1, <1>4, <1>5, <1>7, <1>8 DEF SingleInv

LEMMA BurstKeeps == ASSUME SingleInv, CoalesceBurst PROVE SingleInv'
<1> DEFINE q == Head(channel)
<1>1. /\ taken # <<>> /\ IsMouseMove(Head(taken)) /\ parked = <<>> /\ channel # <<>>
      /\ channel' = Tail(channel)
      /\ \/ IsMouseMove(q) /\ taken' = <<q>> /\ parked' = parked
         \/ parked' = <<q>> /\ taken' = taken
      /\ UNCHANGED <<outgoing, typed, intended, pressed, missed, mode>>
  BY DEF CoalesceBurst, localVars, userInput, farVars
<1>2. /\ taken \in Seq(SingleEvents) /\ taken = <<Head(taken)>>
      /\ parked \in Seq(SingleEvents) /\ channel \in Seq(SingleEvents)
      /\ outgoing \in Seq(SingleEvents) /\ pressed' \subseteq UserKeys
      /\ mode' \in {"edge", "always", "locked"}
  BY <1>1 DEF SingleInv
<1> HIDE DEF SingleEvents
<1>3. /\ q \in SingleEvents /\ channel' \in Seq(SingleEvents)
      /\ \A K : TypedAfter(K, channel) = TypedAfter(Typed(K, q), channel')
  BY <1>1, <1>2, FirstTyped
<1> HIDE DEF q
<1>4. \A K : TypedAfter(K, <<>>) = K /\ TypedAfter(K, <<q>>) = Typed(K, q)
             /\ TypedAfter(K, <<Head(taken)>>) = Typed(K, Head(taken))
  BY TypedAfterFew
<1>5. \A K, x : IsMouseMove(x) => Typed(K, x) = K
  BY DEF Typed, IsMouseMove
<1>6. /\ taken' \in Seq(SingleEvents) /\ taken' = <<Head(taken')>>
      /\ parked' \in Seq(SingleEvents) /\ (parked' # <<>> => parked' = <<Head(parked')>>)
      /\ \A K : TypedAfter(TypedAfter(K, taken'), parked') = Typed(K, q)
      /\ \A K : TypedAfter(TypedAfter(K, taken), parked) = K
  <2>1. \A K : TypedAfter(K, taken) = K
    BY <1>1, <1>2, <1>4, <1>5
  <2>2. CASE IsMouseMove(q) /\ taken' = <<q>> /\ parked' = parked
    <3>1. taken' \in Seq(SingleEvents) /\ taken' = <<Head(taken')>>
      BY <1>3, <2>2
    <3>2. parked' = <<>> /\ parked' \in Seq(SingleEvents)
      BY <1>1, <1>2, <2>2
    <3>3. \A K : TypedAfter(K, taken') = Typed(K, q)
      BY <1>4, <2>2
    <3>4. \A K : TypedAfter(K, parked') = K /\ TypedAfter(K, parked) = K
      BY <1>1, <1>4, <3>2
    <3> QED BY <2>1, <3>1, <3>2, <3>3, <3>4
  <2>3. CASE parked' = <<q>> /\ taken' = taken
    BY <1>1, <1>2, <1>3, <1>4, <2>1, <2>3
  <2> QED BY <1>1, <2>2, <2>3
<1>7. ~missed' => intended' = TypedOnce(typed', taken', parked', channel', outgoing')
  BY <1>1, <1>3, <1>6, SingleNow DEF TypedOnce
<1>8. TypedAsRouted'
  BY <1>1, <1>2, <1>3, <1>6, <1>7, SingleThen
<1> QED BY <1>1, <1>2, <1>3, <1>6, <1>8 DEF SingleInv

(* The event in hand is sent; the target types it or has given up.         *)
LEMMA SendSingleKeeps == ASSUME SingleInv, SendSingle PROVE SingleInv'
<1> DEFINE q == Head(taken)
<1>1. /\ taken # <<>> /\ taken' = <<>>
      /\ typed' = IF injecting' THEN Typed(typed, q) ELSE typed
      /\ missed' = (missed \/ (~injecting' /\ HasKey(taken)))
      /\ UNCHANGED <<parked, channel, outgoing, intended, pressed, mode>>
  BY DEF SendSingle, localVars, userInput
<1>2. /\ taken = <<q>> /\ taken' \in Seq(SingleEvents) /\ parked \in Seq(SingleEvents)
      /\ channel \in Seq(SingleEvents) /\ outgoing \in Seq(SingleEvents)
  BY <1>1 DEF SingleInv
<1>3. \A K : TypedAfter(K, taken) = Typed(K, q) /\ TypedAfter(K, <<>>) = K
  BY <1>2, TypedAfterFew
<1>4. ~missed' => ~missed /\ typed' = TypedAfter(typed, taken)
  <2>1. ~missed' => ~missed /\ (injecting' \/ ~HasKey(taken))
    BY <1>1
  <2>2. ~HasKey(taken) => TypedAfter(typed, taken) = typed
    BY NoKeyTypes
  <2> HIDE DEF q
  <2> QED BY <1>1, <1>3, <2>1, <2>2
<1> HIDE DEF SingleEvents, q
<1>5. ~missed' => intended' = TypedOnce(typed', taken', parked', channel', outgoing')
  BY <1>1, <1>3, <1>4, SingleNow DEF TypedOnce
<1>6. TypedAsRouted'
  BY <1>1, <1>2, <1>5, SingleThen
<1> QED BY <1>1, <1>2, <1>6 DEF SingleInv

(* The connection is lost: what waits is lost with it.                     *)
LEMMA SendFailKeeps == ASSUME SingleInv, SendSingleFails PROVE SingleInv'
<1>1. /\ taken' = <<>> /\ parked' = <<>> /\ channel' = <<>>
      /\ missed' = (missed \/ HasKey(taken \o parked \o channel))
      /\ UNCHANGED <<outgoing, typed, intended, pressed, mode>>
  BY DEF SendSingleFails, localVars, userInput, farVars
<1>2. /\ taken \in Seq(SingleEvents) /\ parked \in Seq(SingleEvents)
      /\ channel \in Seq(SingleEvents) /\ outgoing \in Seq(SingleEvents)
      /\ <<>> \in Seq(SingleEvents)
  BY DEF SingleInv
<1> HIDE DEF SingleEvents
<1>3. \A K : TypedAfter(K, <<>>) = K
  BY TypedAfterFew
<1> DEFINE waiting == taken \o parked \o channel
<1>4. \A K : TypedAfter(K, waiting) = TypedAfter(TypedAfter(TypedAfter(K, taken), parked), channel)
  <2> DEFINE tp == taken \o parked
  <2>1. tp \in Seq(SingleEvents)
        /\ \A K : TypedAfter(K, tp) = TypedAfter(TypedAfter(K, taken), parked)
    BY <1>2, TypedAfterConcat
  <2> HIDE DEF tp
  <2>2. \A K : TypedAfter(K, tp \o channel) = TypedAfter(TypedAfter(K, tp), channel)
    BY <1>2, <2>1, TypedAfterConcat
  <2> QED BY <2>1, <2>2 DEF tp
<1>5. ~missed' => ~missed /\ \A K : TypedAfter(K, waiting) = K
  BY <1>1, NoKeyTypes
<1> HIDE DEF waiting
<1>6. ~missed' => intended' = TypedOnce(typed', taken', parked', channel', outgoing')
  BY <1>1, <1>3, <1>4, <1>5, SingleNow DEF TypedOnce
<1>7. TypedAsRouted'
  BY <1>1, <1>2, <1>6, SingleThen
<1> QED BY <1>1, <1>2, <1>7 DEF SingleInv

LEMMA SingleStep == SingleInv /\ [SingleNext]_singleVars => SingleInv'
<1> SUFFICES ASSUME SingleInv, [SingleNext]_singleVars PROVE SingleInv'
  OBVIOUS
<1>1. CASE Connect \/ ConnectFails \/ CaptureReturns \/ JoinThread \/ CooldownPasses
             \/ ThreadEnds \/ LinkLost \/ TargetReachable \/ UNCHANGED singleVars
  <2>1. UNCHANGED <<taken, parked, channel, outgoing, typed, intended, pressed, missed, mode>>
    BY <1>1 DEF Connect, ConnectFails, CaptureReturns, JoinThread, CooldownPasses, ThreadEnds,
                LinkLost, TargetReachable, singleVars, localVars, userInput, threadVars, farVars
  <2> QED BY <2>1 DEF SingleInv, TypedAsRouted
<1> QED BY <1>1, UserKeeps, EnqueueSingleKeeps, TakeSingleKeeps, BurstKeeps, SendSingleKeeps,
           SendFailKeeps DEF SingleNext, TransmitSingle

(* What the router of a single target has routed and what is typed there   *)
(* differ by what is on the way, for every profile, hot key, mode, size of *)
(* the channel and number of lost connections.                             *)
THEOREM KeysArriveMapped == SingleSpec => []TypedAsRouted
<1>1. SingleInit => SingleInv
  <2> SUFFICES ASSUME SingleInit PROVE SingleInv
    OBVIOUS
  <2>1. /\ taken = <<>> /\ parked = <<>> /\ channel = <<>> /\ outgoing = <<>>
        /\ pressed = {} /\ typed = {} /\ intended = {}
        /\ mode \in {"edge", "always", "locked"}
    BY SingleCaptureAssumption DEF SingleInit
  <2>2. <<>> \in Seq(SingleEvents)
    OBVIOUS
  <2>3. <<>> \o <<>> \o <<>> \o <<>> = <<>>
    BY <2>2, ConcatEmptySeq
  <2>4. TypedAsRouted
    BY <2>1, <2>3, TypedAfterFew DEF TypedAsRouted
  <2> QED BY <2>1, <2>2, <2>4 DEF SingleInv
<1>2. SingleInv => TypedAsRouted
  BY DEF SingleInv
<1> QED BY <1>1, <1>2, SingleStep, PTL DEF SingleSpec

-----------------------------------------------------------------------------
(* The pointer between two screens. *)

LEMMA LeastIs ==
  ASSUME NEW S \in SUBSET Nat, S # {}
  PROVE  \E x \in S : \A y \in S : x <= y
<1> DEFINE R == {p \in Nat \X Nat : p[1] < p[2]}
<1>1. IsWellFoundedOn(R, Nat)
  BY NatLessThanWellFounded DEF OpToRel
<1>2. \A x, y \in Nat : <<y, x>> \in R <=> y < x
  OBVIOUS
<1> HIDE DEF R
<1>3. PICK x \in S : \A y \in S : ~ (<<y, x>> \in R)
  BY <1>1, WFMin
<1>4. ASSUME NEW y \in S PROVE x <= y
  <2>1. x \in Nat /\ y \in Nat
    OBVIOUS
  <2>2. ~ (y < x)
    BY <1>2, <1>3, <2>1
  <2> QED BY <2>1, <2>2
<1> QED BY <1>4

(* A finite set of integers has a least member: of the sets without one    *)
(* take a smallest, and leave out any member.                              *)
LEMMA LeastOfFinite ==
  ASSUME NEW S \in SUBSET Int, IsFiniteSet(S), S # {}
  PROVE  \E x \in S : \A y \in S : x <= y
<1> DEFINE Bad(T) == /\ T \in SUBSET Int /\ IsFiniteSet(T) /\ T # {}
                     /\ \A x \in T : \E y \in T : ~ (x <= y)
           sizes == {n \in Nat : \E T \in SUBSET Int : Bad(T) /\ Cardinality(T) = n}
<1>1. SUFFICES ASSUME sizes # {} PROVE FALSE
  <2>1. Cardinality(S) \in Nat
    BY FS_CardinalityType
  <2> QED BY <2>1
<1>2. PICK n \in sizes : \A m \in sizes : n <= m
  <2>1. sizes \in SUBSET Nat
    OBVIOUS
  <2> HIDE DEF sizes
  <2> QED BY <1>1, <2>1, LeastIs
<1>3. PICK T \in SUBSET Int : Bad(T) /\ Cardinality(T) = n
  OBVIOUS
<1>4. PICK a \in T : TRUE
  BY <1>3
<1> DEFINE rest == T \ {a}
<1>5. IsFiniteSet(rest) /\ Cardinality(rest) = n - 1 /\ n \in Nat
  BY <1>3, <1>4, FS_RemoveElement
<1>6. Cardinality(rest) \in Nat
  BY <1>5, FS_CardinalityType
<1>7. ~Bad(rest)
  <2>1. SUFFICES ASSUME Bad(rest) PROVE FALSE
    OBVIOUS
  <2>2. n - 1 \in sizes
    BY <1>5, <1>6, <2>1
  <2> HIDE DEF sizes
  <2> QED BY <1>2, <1>5, <2>2
<1>8. CASE rest = {}
  <2>1. \A y \in T : y = a
    BY <1>8
  <2> QED BY <1>3, <1>4, <2>1
<1>9. CASE rest # {}
  <2>1. PICK x \in rest : \A y \in rest : x <= y
    BY <1>5, <1>7, <1>9
  <2>2. x \in Int /\ a \in Int /\ x \in T
    BY <1>3, <1>4
  <2>3. CASE x <= a
    BY <1>3, <2>1, <2>2, <2>3
  <2>4. CASE ~ (x <= a)
    <3>1. \A y \in T : a <= y
      BY <1>3, <2>1, <2>2, <2>4
    <3> QED BY <1>3, <1>4, <3>1
  <2> QED BY <2>3, <2>4
<1> QED BY <1>8, <1>9

LEMMA MinIs ==
  ASSUME NEW S \in SUBSET Int, IsFiniteSet(S), S # {}
  PROVE  Min(S) \in S /\ \A y \in S : Min(S) <= y
  BY LeastOfFinite DEF Min

LEMMA MaxIs ==
  ASSUME NEW S \in SUBSET Int, IsFiniteSet(S), S # {}
  PROVE  Max(S) \in S /\ \A y \in S : y <= Max(S)
<1> DEFINE neg == {-x : x \in S}
           f == [x \in S |-> -x]
<1>1. f \in Surjection(S, neg)
  BY DEF Surjection
<1>2. IsFiniteSet(neg)
  BY <1>1, FS_Surjection
<1>3. neg \in SUBSET Int /\ neg # {}
  <2>1. \A x \in S : x \in Int /\ -x \in Int
    OBVIOUS
  <2> QED BY <2>1
<1>4. PICK m \in neg : \A y \in neg : m <= y
  BY <1>2, <1>3, LeastOfFinite
<1>5. PICK x \in S : m = -x
  BY <1>4
<1>6. ASSUME NEW y \in S PROVE x >= y
  <2>1. -y \in neg /\ y \in Int /\ x \in Int
    OBVIOUS
  <2>2. -x <= -y
    BY <1>4, <1>5, <2>1
  <2> QED BY <2>1, <2>2
<1>7. Max(S) \in S /\ \A y \in S : Max(S) >= y
  BY <1>6 DEF Max
<1> QED BY <1>7

(* Along one axis: a screen of w pixels that share Unit parts.             *)
LEMMA Divided ==
  ASSUME NEW w \in Nat \ {0}, NEW u \in Nat \ {0}, u % w = 0, NEW d \in Int
  PROVE  (d * u) \div w \in Int /\ w * ((d * u) \div w) = d * u
<1> DEFINE x == d * u
           e == x \div w
<1>1. u = w * (u \div w) /\ u \div w \in Int
  OBVIOUS
<1>2. PICK q \in Int : u = w * q
  BY <1>1
<1>3. x \in Int /\ x = w * (d * q) /\ d * q \in Int
  BY <1>2
<1> DEFINE k == d * q
<1> HIDE DEF x, k
<1>4. e \in Int /\ w * e <= x /\ x < w * e + w
  BY <1>3
<1> HIDE DEF e
<1>5. k \in Int /\ x = w * k
  BY <1>3 DEF k
<1>6. ~ (k <= e - 1)
  <2>1. k <= e - 1 => w * k <= w * (e - 1) /\ w * (e - 1) = w * e - w
    BY <1>4, <1>5
  <2> QED BY <1>4, <1>5, <2>1
<1>7. ~ (e + 1 <= k)
  <2>1. e + 1 <= k => w * (e + 1) <= w * k /\ w * (e + 1) = w * e + w
    BY <1>4, <1>5
  <2> QED BY <1>4, <1>5, <2>1
<1>8. e = k
  BY <1>4, <1>5, <1>6, <1>7
<1> QED BY <1>4, <1>5, <1>8 DEF e, x

LEMMA OneAxis ==
  ASSUME NEW w \in Nat \ {0}, NEW u \in Nat \ {0}, u % w = 0, NEW d \in Int,
         NEW r \in 0..u, NEW t \in Int, 0 <= t, t <= (w - 1) * u,
         t <= w * r, w * r <= t + u
  PROVE  LET r2 == Clamp(r + (d * u) \div w, 0, u)
             t2 == Clamp(t + d * u, 0, (w - 1) * u)
         IN  /\ r2 \in 0..u /\ t2 \in Int /\ 0 <= t2 /\ t2 <= (w - 1) * u
             /\ t2 <= w * r2 /\ w * r2 <= t2 + u
<1> DEFINE e == (d * u) \div w
           D == d * u
           W == w * u
           p == w * r
           r2 == Clamp(r + e, 0, u)
           t2 == Clamp(t + D, 0, (w - 1) * u)
<1>1. e \in Int /\ w * e = D
  BY Divided
<1>2. D \in Int /\ W \in Int /\ p \in Int /\ (w - 1) * u = W - u /\ 0 <= W - u
  OBVIOUS
<1>3. r + e \in Int /\ w * (r + e) = p + D
  BY <1>1
<1>4. w * 0 = 0 /\ w * u = W
  OBVIOUS
<1>5. r + e < 0 => p + D < 0
  BY <1>3
<1>6. r + e > u => p + D > W
  BY <1>3
<1>7. ~ (r + e < 0) /\ ~ (r + e > u) => 0 <= p + D /\ p + D <= W
  BY <1>3
<1>8. t2 = Clamp(t + D, 0, W - u) /\ t <= W - u /\ t <= p /\ p <= t + u
  BY <1>2
<1> HIDE DEF e, D, W, p, t2
<1>9. /\ r2 \in 0..u /\ t2 \in Int /\ 0 <= t2 /\ t2 <= W - u
      /\ t2 <= w * r2 /\ w * r2 <= t2 + u
  <2>1. CASE r + e < 0
    <3>1. r2 = 0 /\ t2 = 0
      BY <1>2, <1>5, <1>8, <2>1 DEF Clamp
    <3> QED BY <1>2, <1>4, <3>1
  <2>2. CASE r + e > u
    <3>1. r2 = u /\ t2 = W - u
      BY <1>1, <1>2, <1>6, <1>8, <2>2 DEF Clamp
    <3> QED BY <1>2, <1>4, <3>1
  <2>3. CASE ~ (r + e < 0) /\ ~ (r + e > u)
    <3>1. r2 = r + e /\ w * r2 = p + D
      BY <1>1, <1>3, <2>3 DEF Clamp
    <3>2. t2 \in Int /\ 0 <= t2 /\ t2 <= W - u /\ t2 <= p + D /\ p + D <= t2 + u
      BY <1>2, <1>7, <1>8, <2>3 DEF Clamp
    <3>3. r2 \in 0..u
      BY <1>1, <2>3, <3>1
    <3> HIDE DEF r2
    <3> QED BY <1>2, <3>1, <3>2, <3>3
  <2> QED BY <1>1, <2>1, <2>2, <2>3
<1> QED BY <1>2, <1>9 DEF e, D, t2

Points == [x : Int, y : Int]
Ratios == [x : 0..Unit, y : 0..Unit]

(* Along one axis a tracked pointer is at most a pixel behind of where the *)
(* source takes it to be, and on the screen.                               *)
Behind(t, w, r) == 0 <= t /\ t <= (w - 1) * Unit /\ t <= w * r /\ w * r <= t + Unit

Follows(s, t, r) ==
  /\ t.tracked = <<t.shown>> /\ t.shown \in Points
  /\ Behind(t.shown.x, s.width, r.x) /\ Behind(t.shown.y, s.height, r.y)

PointerInv ==
  /\ layout \in Layouts /\ screen \in Screens /\ edge \in Edges
  /\ at \in Points /\ ratio \in Ratios
  /\ restore = <<>> \/ \E p \in Points : restore = <<p>>
  /\ away => restore # <<>>
  /\ away /\ exact /\ screen.kind = "windows" => Follows(screen, Target, ratio)

LEMMA ClampType ==
  ASSUME NEW v \in Int, NEW h \in Int, 0 <= h
  PROVE  Clamp(v, 0, h) \in Int /\ Clamp(v, 0, h) \in 0..h
  BY DEF Clamp

LEMMA SpanIs ==
  ASSUME NEW S \in SUBSET Int, IsFiniteSet(S), NEW T \in SUBSET Int, IsFiniteSet(T),
         S # {}, NEW s \in S, NEW t \in T, s < t
  PROVE  Min(S) \in Int /\ Max(T) - Min(S) \in Nat \ {0}
<1>1. Min(S) \in Int /\ Min(S) <= s
  BY MinIs
<1>2. Max(T) \in Int /\ t <= Max(T)
  BY MaxIs
<1> QED BY <1>1, <1>2

LEMMA BoundsType ==
  ASSUME layout \in Layouts
  PROVE  /\ Bounds.x \in Int /\ Bounds.y \in Int
         /\ Bounds.width \in Nat \ {0} /\ Bounds.height \in Nat \ {0}
<1>1. /\ layout \in SUBSET [x : Int, y : Int, width : Nat \ {0}, height : Nat \ {0}]
      /\ IsFiniteSet(layout)
  BY PointerAssumption
<1>2. PICK d \in layout : TRUE
  BY PointerAssumption
<1> DEFINE xs == {c.x : c \in layout}
           rs == {c.x + c.width : c \in layout}
           ys == {c.y : c \in layout}
           bs == {c.y + c.height : c \in layout}
<1>3. IsFiniteSet(xs) /\ IsFiniteSet(rs) /\ IsFiniteSet(ys) /\ IsFiniteSet(bs)
  <2>1. [c \in layout |-> c.x] \in Surjection(layout, xs)
    BY DEF Surjection
  <2>2. [c \in layout |-> c.x + c.width] \in Surjection(layout, rs)
    BY DEF Surjection
  <2>3. [c \in layout |-> c.y] \in Surjection(layout, ys)
    BY DEF Surjection
  <2>4. [c \in layout |-> c.y + c.height] \in Surjection(layout, bs)
    BY DEF Surjection
  <2> HIDE DEF xs, rs, ys, bs
  <2> QED BY <1>1, <2>1, <2>2, <2>3, <2>4, FS_Surjection
<1>4. xs \in SUBSET Int /\ rs \in SUBSET Int /\ ys \in SUBSET Int /\ bs \in SUBSET Int
  BY <1>1
<1>5. /\ d.x \in xs /\ d.x + d.width \in rs /\ d.x < d.x + d.width
      /\ d.y \in ys /\ d.y + d.height \in bs /\ d.y < d.y + d.height
  BY <1>1, <1>2
<1>6. /\ Bounds.x = Min(xs) /\ Bounds.width = Max(rs) - Min(xs)
      /\ Bounds.y = Min(ys) /\ Bounds.height = Max(bs) - Min(ys)
  BY DEF Bounds, VirtualBounds
<1> HIDE DEF xs, rs, ys, bs
<1>7. Min(xs) \in Int /\ Max(rs) - Min(xs) \in Nat \ {0}
  BY <1>3, <1>4, <1>5, SpanIs
<1>8. Min(ys) \in Int /\ Max(bs) - Min(ys) \in Nat \ {0}
  BY <1>3, <1>4, <1>5, SpanIs
<1> QED BY <1>6, <1>7, <1>8

LEMMA EntryType ==
  ASSUME layout \in Layouts, NEW p \in Points
  PROVE  DesktopEntry(p) \in Ratios
<1>1. ASSUME NEW v \in Int, NEW low \in Int, NEW length \in Nat \ {0}
      PROVE  Clamp(((v - low) * Unit) \div length, 0, Unit) \in 0..Unit
  <2>1. Unit \in Nat \ {0} /\ (v - low) * Unit \in Int
    BY PointerAssumption
  <2>2. ((v - low) * Unit) \div length \in Int
    BY <2>1
  <2> QED BY <2>1, <2>2, ClampType
<1>2. p.x \in Int /\ p.y \in Int /\ 0 \in 0..Unit /\ Unit \in 0..Unit
  BY PointerAssumption DEF Points
<1> QED BY <1>1, <1>2, BoundsType DEF DesktopEntry, EntryPosition, Ratios

LEMMA ScreenType ==
  ASSUME NEW s \in Screens
  PROVE  /\ s.width \in Nat \ {0} /\ s.height \in Nat \ {0}
         /\ s.kind \in {"windows", "macos", "x11"}
         /\ Unit % s.width = 0 /\ Unit % s.height = 0
         /\ Unit \in Nat \ {0} /\ MaxDelta \in Nat
  BY PointerAssumption

LEMMA AdvancedType ==
  ASSUME layout \in Layouts, screen \in Screens, NEW r \in Ratios, NEW d \in Deltas
  PROVE  Advanced(r, d) \in Points
<1>1. /\ ReferenceSize.width \in Nat \ {0} /\ ReferenceSize.height \in Nat \ {0}
      /\ Unit \in Nat /\ d.x \in Int /\ d.y \in Int /\ r.x \in Int /\ r.y \in Int
  BY BoundsType, ScreenType DEF ReferenceSize, Deltas, Ratios
<1>2. d.x * Unit \in Int /\ d.y * Unit \in Int
  BY <1>1
<1>3. (d.x * Unit) \div ReferenceSize.width \in Int /\ (d.y * Unit) \div ReferenceSize.height \in Int
  BY <1>1, <1>2
<1> QED BY <1>1, <1>3 DEF Advanced, Point, Points

LEMMA RatioType ==
  ASSUME NEW p \in Points
  PROVE  Point(Clamp(p.x, 0, Unit), Clamp(p.y, 0, Unit)) \in Ratios
<1>1. p.x \in Int /\ p.y \in Int /\ Unit \in Int /\ 0 <= Unit
  BY PointerAssumption DEF Points
<1> QED BY <1>1, ClampType DEF Point, Ratios

LEMMA AxisPositioned ==
  ASSUME NEW w \in Nat \ {0}, NEW r \in 0..Unit, Unit \in Nat
  PROVE  Behind((w - 1) * r, w, r) /\ (w - 1) * r \in Int
         /\ Clamp((w - 1) * r, 0, (w - 1) * Unit) = (w - 1) * r
<1>1. (w - 1) * r \in Int /\ (w - 1) * Unit \in Int /\ w * r \in Int /\ w - 1 \in Nat
  OBVIOUS
<1>2. (w - 1) * r = w * r - r
  OBVIOUS
<1>3. 0 <= (w - 1) * r /\ (w - 1) * r <= (w - 1) * Unit
  OBVIOUS
<1> QED BY <1>1, <1>2, <1>3 DEF Behind, Clamp

LEMMA PositionedFollows ==
  ASSUME screen \in Screens, screen.kind = "windows", NEW r \in Ratios
  PROVE  Follows(screen, Positioned(r), r)
<1> DEFINE w == screen.width
           h == screen.height
           n == Point((w - 1) * r.x, (h - 1) * r.y)
<1>1. Positioned(r) = [tracked |-> <<n>>, shown |-> OnScreen(n)]
  BY DEF Positioned, WindowsPositioned, WindowsNormalized
<1>2. w \in Nat \ {0} /\ h \in Nat \ {0} /\ Unit \in Nat /\ r.x \in 0..Unit /\ r.y \in 0..Unit
  BY ScreenType DEF Ratios
<1>3. n.x = (w - 1) * r.x /\ n.y = (h - 1) * r.y /\ n = [x |-> n.x, y |-> n.y]
  BY DEF Point
<1>4. /\ Behind(n.x, w, r.x) /\ n.x \in Int /\ Clamp(n.x, 0, (w - 1) * Unit) = n.x
      /\ Behind(n.y, h, r.y) /\ n.y \in Int /\ Clamp(n.y, 0, (h - 1) * Unit) = n.y
  BY <1>2, <1>3, AxisPositioned
<1> HIDE DEF n
<1>5. OnScreen(n) = n /\ n \in Points
  BY <1>3, <1>4 DEF OnScreen, Point, Points
<1> QED BY <1>1, <1>4, <1>5 DEF Follows

LEMMA ClampTwice ==
  ASSUME NEW v \in Int, NEW h \in Int, 0 <= h
  PROVE  Clamp(Clamp(v, 0, h), 0, h) = Clamp(v, 0, h)
  BY DEF Clamp

LEMMA MovedFollows ==
  ASSUME screen \in Screens, screen.kind = "windows", NEW d \in Deltas, NEW r \in Ratios,
         NEW was, Follows(screen, was, r)
  PROVE  Follows(screen, PointerMoved(was, d),
                 Point(Clamp(Advanced(r, d).x, 0, Unit), Clamp(Advanced(r, d).y, 0, Unit)))
<1> DEFINE w == screen.width
           h == screen.height
           s == was.shown
           m == Point(s.x + d.x * Unit, s.y + d.y * Unit)
           to == OnScreen(m)
           q == Advanced(r, d)
           r2 == Point(Clamp(q.x, 0, Unit), Clamp(q.y, 0, Unit))
<1>1. /\ w \in Nat \ {0} /\ h \in Nat \ {0} /\ Unit \in Nat \ {0}
      /\ Unit % w = 0 /\ Unit % h = 0 /\ r.x \in 0..Unit /\ r.y \in 0..Unit
      /\ d.x \in Int /\ d.y \in Int
  BY ScreenType DEF Ratios, Deltas
<1>2. /\ was.tracked = <<s>> /\ s.x \in Int /\ s.y \in Int
      /\ Behind(s.x, w, r.x) /\ Behind(s.y, h, r.y)
  BY DEF Follows, Points
<1>3. RemotePointer(was.tracked, was.shown) = s
  BY <1>2 DEF RemotePointer
<1>4. PointerMoved(was, d) = [tracked |-> <<to>>, shown |-> OnScreen(to)]
  BY <1>3 DEF PointerMoved, WindowsMoved
<1>5. q.x = r.x + (d.x * Unit) \div w /\ q.y = r.y + (d.y * Unit) \div h
  BY DEF Advanced, ReferenceSize, Reported, Point
<1>6. /\ to.x = Clamp(s.x + d.x * Unit, 0, (w - 1) * Unit)
      /\ to.y = Clamp(s.y + d.y * Unit, 0, (h - 1) * Unit)
      /\ to = [x |-> to.x, y |-> to.y]
  BY DEF OnScreen, Point
<1>7. r2.x = Clamp(q.x, 0, Unit) /\ r2.y = Clamp(q.y, 0, Unit)
  BY DEF Point
<1> HIDE DEF w, h, s, m, to, q, r2
<1>8. to.x \in Int /\ Behind(to.x, w, r2.x)
  <2>1. 0 <= s.x /\ s.x <= (w - 1) * Unit /\ s.x <= w * r.x /\ w * r.x <= s.x + Unit
    BY <1>2 DEF Behind
  <2> QED BY <1>1, <1>2, <1>5, <1>6, <1>7, <2>1, OneAxis DEF Behind
<1>9. to.y \in Int /\ Behind(to.y, h, r2.y)
  <2>1. 0 <= s.y /\ s.y <= (h - 1) * Unit /\ s.y <= h * r.y /\ h * r.y <= s.y + Unit
    BY <1>2 DEF Behind
  <2> QED BY <1>1, <1>2, <1>5, <1>6, <1>7, <2>1, OneAxis DEF Behind
<1>10. OnScreen(to) = to
  <2>1. Clamp(to.x, 0, (w - 1) * Unit) = to.x /\ Clamp(to.y, 0, (h - 1) * Unit) = to.y
    BY <1>1, <1>8, <1>9 DEF Behind, Clamp
  <2> QED BY <1>6, <2>1 DEF OnScreen, Point, w, h
<1>11. to \in Points
  BY <1>6, <1>8, <1>9 DEF Points
<1> QED BY <1>4, <1>8, <1>9, <1>10, <1>11 DEF Follows, w, h, q, r2

LEMMA AfterType ==
  ASSUME at \in Points, NEW d \in Deltas
  PROVE  After(d) \in Points
<1>1. at.x + d.x \in Int /\ at.y + d.y \in Int
  BY PointerAssumption DEF Points, Deltas
<1> QED BY <1>1 DEF After, Point, Points

LEMMA EnterKeeps == ASSUME PointerInv, NEW d \in Deltas, Enter(d) PROVE PointerInv'
<1> DEFINE p == After(d)
           entry == DesktopEntry(p)
           next == Advanced(entry, d)
           moved == Point(Clamp(next.x, 0, Unit), Clamp(next.y, 0, Unit))
<1>1. /\ layout \in Layouts /\ screen \in Screens /\ edge \in Edges /\ at \in Points
      /\ UNCHANGED <<layout, screen, edge, at>>
  BY DEF PointerInv, Enter, setting
<1>2. p \in Points /\ entry \in Ratios
  BY <1>1, AfterType, EntryType
<1>3. /\ restore' = <<p>>
      /\ \/ ratio' = entry /\ Becomes(Positioned(entry))
         \/ ratio' = moved /\ Becomes(PointerMoved(Positioned(entry), d))
  BY DEF Enter
<1> HIDE DEF p, entry
<1>4. moved \in Ratios
  BY <1>1, <1>2, AdvancedType, RatioType
<1>5. screen.kind = "windows" => Follows(screen, Positioned(entry), entry)
  BY <1>1, <1>2, PositionedFollows
<1>6. screen.kind = "windows" => Follows(screen, PointerMoved(Positioned(entry), d), moved)
  BY <1>1, <1>2, <1>5, MovedFollows
<1> HIDE DEF next, moved
<1>7. ratio' \in Ratios
  BY <1>2, <1>3, <1>4
<1>8. screen.kind = "windows" => Follows(screen, [tracked |-> tracked', shown |-> shown'], ratio')
  <2>1. \A t : Becomes(t) => tracked' = t.tracked /\ shown' = t.shown
    BY DEF Becomes
  <2> QED BY <1>3, <1>5, <1>6, <2>1 DEF Follows
<1>9. screen'.kind = "windows" => Follows(screen', Target', ratio')
  BY <1>1, <1>8 DEF Target
<1> QED BY <1>1, <1>2, <1>3, <1>7, <1>9 DEF PointerInv

LEMMA MoveRemoteKeeps == ASSUME PointerInv, NEW d \in Deltas, MoveRemote(d) PROVE PointerInv'
<1> DEFINE next == Advanced(ratio, d)
           moved == Point(Clamp(next.x, 0, Unit), Clamp(next.y, 0, Unit))
<1>1. /\ layout \in Layouts /\ screen \in Screens /\ edge \in Edges /\ at \in Points
      /\ ratio \in Ratios
      /\ UNCHANGED <<layout, screen, edge, at, restore, away>>
      /\ away /\ restore # <<>> /\ (restore = <<>> \/ \E p \in Points : restore = <<p>>)
  BY DEF PointerInv, MoveRemote, setting
<1>2. /\ ratio' = moved
      /\ \/ Becomes(PointerMoved(Target, d)) /\ UNCHANGED exact
         \/ exact' = FALSE
  BY DEF MoveRemote
<1>3. moved \in Ratios
  BY <1>1, AdvancedType, RatioType
<1>4. exact /\ screen.kind = "windows" => Follows(screen, PointerMoved(Target, d), moved)
  BY <1>1, MovedFollows DEF PointerInv
<1> HIDE DEF moved
<1>5. exact' /\ screen.kind = "windows"
        => Follows(screen, [tracked |-> tracked', shown |-> shown'], ratio')
  BY <1>2, <1>4 DEF Becomes, Follows
<1>6. exact' /\ screen'.kind = "windows" => Follows(screen', Target', ratio')
  BY <1>1, <1>5 DEF Target
<1> QED BY <1>1, <1>2, <1>3, <1>6 DEF PointerInv

LEMMA ButtonKeeps == ASSUME PointerInv, Button PROVE PointerInv'
<1>1. /\ screen \in Screens /\ ratio \in Ratios
      /\ UNCHANGED <<layout, screen, edge, at, away, restore, ratio>>
      /\ tracked' = Positioned(ratio).tracked /\ shown' = Positioned(ratio).shown
  BY DEF PointerInv, Button, setting, Becomes
<1>2. screen.kind = "windows" => Follows(screen, Positioned(ratio), ratio)
  BY <1>1, PositionedFollows
<1>3. screen.kind = "windows" => Follows(screen, [tracked |-> tracked', shown |-> shown'], ratio)
  BY <1>1, <1>2 DEF Follows
<1>4. screen'.kind = "windows" => Follows(screen', Target', ratio')
  BY <1>1, <1>3 DEF Target
<1> QED BY <1>1, <1>4 DEF PointerInv

LEMMA PointerStep == PointerInv /\ [PointerNext]_pointerVars => PointerInv'
<1> SUFFICES ASSUME PointerInv, [PointerNext]_pointerVars PROVE PointerInv'
  OBVIOUS
<1>1. ASSUME NEW d \in Deltas, MoveLocal(d) PROVE PointerInv'
  <2>1. at' \in Points /\ ~away /\ UNCHANGED <<layout, screen, edge, away, restore, ratio>>
    BY <1>1, AfterType DEF MoveLocal, PointerInv, setting
  <2> QED BY <2>1 DEF PointerInv
<1>2. ASSUME away, PointerRelease PROVE PointerInv'
  <2>1. /\ away' = FALSE /\ at' = restore[1] /\ restore' = <<>>
        /\ UNCHANGED <<layout, screen, edge, ratio>>
    BY <1>2 DEF PointerRelease, RestoreLocalPointer, setting
  <2>2. restore[1] \in Points
    BY <1>2 DEF PointerInv
  <2> QED BY <2>1, <2>2 DEF PointerInv
<1>3. CASE CooldownOver \/ UNCHANGED pointerVars
  <2>1. UNCHANGED <<layout, screen, edge, at, away, restore, ratio, tracked, shown, exact>>
    BY <1>3 DEF CooldownOver, pointerVars, setting
  <2> QED BY <2>1 DEF PointerInv, Target
<1>4. CASE ReleaseHotkey
  BY <1>2, <1>4 DEF ReleaseHotkey
<1>5. CASE PointerMotion
  <2>1. PICK d \in Deltas : MoveLocal(d) \/ Enter(d) \/ Return(d) \/ MoveRemote(d)
    BY <1>5 DEF PointerMotion
  <2>2. Return(d) => away /\ PointerRelease
    BY DEF Return
  <2> QED BY <1>1, <1>2, <2>1, <2>2, EnterKeeps, MoveRemoteKeeps
<1> QED BY <1>3, <1>4, <1>5, ButtonKeeps DEF PointerNext

LEMMA PointerStart == PointerInit => PointerInv
<1> SUFFICES ASSUME PointerInit PROVE PointerInv
  OBVIOUS
<1>1. at \in Points
  <2>1. PICK d \in layout : at = Point(d.x, d.y)
    BY DEF PointerInit
  <2>2. layout \in SUBSET [x : Int, y : Int, width : Nat \ {0}, height : Nat \ {0}]
    BY PointerAssumption DEF PointerInit
  <2> QED BY <2>1, <2>2 DEF Point, Points
<1>2. Point(0, 0) \in Ratios
  BY PointerAssumption DEF Point, Ratios
<1> QED BY <1>1, <1>2 DEF PointerInit, PointerInv

(* The source knows, to a pixel and a half, where the pointer of a Windows *)
(* target is: for any displays, size of the target, edge and motions, as   *)
(* long as none is lost.  Each axis on its own: what the target clamps at  *)
(* one pixel less than its size the source clamps at its size, and a       *)
(* motion moves both by the same amount, so one stays at most a pixel      *)
(* behind the other.                                                       *)
THEOREM PointersStayTogether == PointerSpec => []PointersAgree
<1>1. PointerInv => PointersAgree
  <2> SUFFICES ASSUME PointerInv, away, exact, screen.kind = "windows"
               PROVE  Near(shown, Believed)
    BY DEF PointersAgree
  <2>1. /\ screen.width \in Nat /\ screen.height \in Nat /\ Unit \in Nat
        /\ ratio.x \in Int /\ ratio.y \in Int
    BY ScreenType DEF PointerInv, Ratios
  <2>2. /\ shown.x \in Int /\ shown.y \in Int
        /\ Behind(shown.x, screen.width, ratio.x) /\ Behind(shown.y, screen.height, ratio.y)
    BY DEF PointerInv, Follows, Target, Points
  <2>3. screen.width * ratio.x \in Int /\ screen.height * ratio.y \in Int
    BY <2>1
  <2> QED BY <2>1, <2>2, <2>3 DEF Near, Believed, Point, Behind
<1> QED BY <1>1, PointerStart, PointerStep, PTL DEF PointerSpec

(* Rounding to a pixel moves a position by half a pixel at most.           *)
LEMMA RoundedIs ==
  ASSUME NEW v \in Int, Unit \in Nat \ {0}
  PROVE  /\ Rounded(v) \in Int
         /\ 2 * Rounded(v) <= 2 * v + Unit /\ 2 * v - Unit <= 2 * Rounded(v)
<1> DEFINE x == 2 * v + Unit
           u == 2 * Unit
           k == x \div u
<1>1. k \in Int /\ u * k <= x /\ x <= u * k + u
  OBVIOUS
<1>2. k * Unit \in Int /\ u * k = 2 * (k * Unit)
  BY <1>1
<1>3. Rounded(v) = k * Unit
  BY DEF Rounded
<1> HIDE DEF k
<1> QED BY <1>1, <1>2, <1>3

(* Along one axis a position sent again puts the pointer near to where the *)
(* source takes it to be.                                                  *)
LEMMA AxisNear ==
  ASSUME NEW w \in Nat \ {0}, NEW r \in 0..Unit, Unit \in Nat \ {0}, NEW v \in Int,
         2 * v <= 2 * (w * r) + Unit, 2 * (w * r) - 3 * Unit <= 2 * v
  PROVE  2 * (Clamp(v, 0, (w - 1) * Unit) - w * r) \in -3 * Unit..3 * Unit
<1>1. (w - 1) * r \in Int /\ (w - 1) * Unit \in Int /\ w * r \in Int /\ w * Unit \in Int
  OBVIOUS
<1>2. (w - 1) * Unit = w * Unit - Unit /\ 0 <= (w - 1) * Unit
  OBVIOUS
<1>3. 0 <= w * r /\ w * r <= w * Unit
  OBVIOUS
<1> QED BY <1>1, <1>2, <1>3 DEF Clamp

(* A button goes down where the source takes the pointer to be, whatever   *)
(* motion was lost before and whatever system injects it.                  *)
THEOREM ButtonsLand == PointerSpec => ButtonLands
<1>1. ASSUME PointerInv, Button PROVE Near(shown', Believed)
  <2> DEFINE w == screen.width
             h == screen.height
             r == ratio
  <2>1. /\ w \in Nat \ {0} /\ h \in Nat \ {0} /\ Unit \in Nat \ {0}
        /\ r.x \in 0..Unit /\ r.y \in 0..Unit /\ screen.kind \in {"windows", "macos", "x11"}
    BY <1>1, ScreenType DEF PointerInv, Ratios
  <2>2. shown' = Positioned(r).shown
    BY <1>1 DEF Button, Becomes
  <2>3. /\ (w - 1) * r.x \in Int /\ (w - 1) * r.x = w * r.x - r.x /\ w * r.x \in Int
        /\ (h - 1) * r.y \in Int /\ (h - 1) * r.y = h * r.y - r.y /\ h * r.y \in Int
    BY <2>1
  <2>4. PICK p \in Points :
          /\ shown' = OnScreen(p)
          /\ 2 * p.x <= 2 * (w * r.x) + Unit /\ 2 * (w * r.x) - 3 * Unit <= 2 * p.x
          /\ 2 * p.y <= 2 * (h * r.y) + Unit /\ 2 * (h * r.y) - 3 * Unit <= 2 * p.y
    <3>1. CASE screen.kind = "windows"
      <4>1. shown' = OnScreen(Point((w - 1) * r.x, (h - 1) * r.y))
        BY <2>2, <3>1 DEF Positioned, WindowsPositioned, WindowsNormalized
      <4> HIDE DEF w, h, r
      <4> QED BY <2>1, <2>3, <4>1 DEF Point, Points
    <3>2. CASE screen.kind = "macos"
      <4>1. shown' = OnScreen(Point(w * r.x, h * r.y))
        BY <2>2, <3>2 DEF Positioned, MacPositioned, MacNormalized
      <4> HIDE DEF w, h, r
      <4> QED BY <2>1, <2>3, <4>1 DEF Point, Points
    <3>3. CASE screen.kind = "x11"
      <4>1. shown' = OnScreen(Point(Rounded((w - 1) * r.x), Rounded((h - 1) * r.y)))
        BY <2>2, <3>3 DEF Positioned, XPositioned, XAbsolutePosition
      <4> HIDE DEF w, h, r
      <4>2. /\ Rounded((w - 1) * r.x) \in Int
            /\ 2 * Rounded((w - 1) * r.x) <= 2 * ((w - 1) * r.x) + Unit
            /\ 2 * ((w - 1) * r.x) - Unit <= 2 * Rounded((w - 1) * r.x)
        BY <2>1, <2>3, RoundedIs
      <4>3. /\ Rounded((h - 1) * r.y) \in Int
            /\ 2 * Rounded((h - 1) * r.y) <= 2 * ((h - 1) * r.y) + Unit
            /\ 2 * ((h - 1) * r.y) - Unit <= 2 * Rounded((h - 1) * r.y)
        BY <2>1, <2>3, RoundedIs
      <4> QED BY <2>1, <2>3, <4>1, <4>2, <4>3 DEF Point, Points
    <3> QED BY <2>1, <3>1, <3>2, <3>3
  <2>5. shown'.x = Clamp(p.x, 0, (w - 1) * Unit) /\ shown'.y = Clamp(p.y, 0, (h - 1) * Unit)
    BY <2>4 DEF OnScreen, Point
  <2>6. Believed.x = w * r.x /\ Believed.y = h * r.y /\ p.x \in Int /\ p.y \in Int
    BY DEF Believed, Point, Points
  <2> HIDE DEF w, h, r
  <2>7. 2 * (shown'.x - Believed.x) \in -3 * Unit..3 * Unit
    BY <2>1, <2>4, <2>5, <2>6, AxisNear
  <2>8. 2 * (shown'.y - Believed.y) \in -3 * Unit..3 * Unit
    BY <2>1, <2>4, <2>5, <2>6, AxisNear
  <2> QED BY <2>7, <2>8 DEF Near
<1>2. PointerInv => [Button => Near(shown', Believed)]_pointerVars
  BY <1>1
<1> QED BY <1>2, PointerStart, PointerStep, PTL DEF PointerSpec, ButtonLands

-----------------------------------------------------------------------------
(* The local pointer of the commands with one target.                      *)

HiddenInv == HiddenOnlyAway /\ mode \in {"edge", "always", "locked"}

LEMMA HiddenInit == SingleInit => HiddenInv
  BY SingleCaptureAssumption DEF SingleInit, HiddenInv, HiddenOnlyAway

LEMMA HiddenStep ==
  ASSUME HiddenInv, [SingleNext]_singleVars
  PROVE  HiddenInv'
<1>1. CASE Connect \/ ConnectFails \/ JoinThread
  BY <1>1 DEF Connect, ConnectFails, JoinThread, localVars, HiddenInv, HiddenOnlyAway
<1>2. CASE CaptureReturns
  BY <1>2 DEF CaptureReturns, HiddenInv, HiddenOnlyAway
<1>3. CASE UserInput
  <2>1. CASE UNCHANGED <<phase, localVars>>
    BY <2>1 DEF localVars, HiddenInv, HiddenOnlyAway
  <2>2. CASE \E q, at_edge : RouteSingle(q, at_edge)
    <3>1. PICK q, at_edge : RouteSingle(q, at_edge)
      BY <2>2
    <3>2. phase = "capturing" /\ UNCHANGED <<phase, mode>>
      BY <3>1 DEF RouteSingle
    <3>3. CASE UNCHANGED <<control, concealed>>
      BY <3>2, <3>3 DEF HiddenInv, HiddenOnlyAway
    <3>4. CASE RouteAtEdge(q, at_edge)
      <4>1. CASE ReleaseByHotkey
        <5>1. concealed => control
          BY DEF HiddenInv, HiddenOnlyAway
        <5>2. ~concealed'
          BY <4>1, <5>1, Zenon DEF ReleaseByHotkey
        <5> QED BY <3>2, <5>2 DEF HiddenInv, HiddenOnlyAway
      <4>2. CASE control' = TRUE
        BY <3>2, <4>2 DEF HiddenInv, HiddenOnlyAway
      <4>3. CASE UNCHANGED <<control, concealed>>
        BY <3>3, <4>3
      <4> QED BY <3>4, <4>1, <4>2, <4>3 DEF RouteAtEdge, StaysLocal
    <3>5. StaysLocal => UNCHANGED <<control, concealed>>
      BY DEF StaysLocal
    <3>6. PICK excepted \in BOOLEAN :
            CASE SystemReserved(q) \/ excepted \/ mode = "locked" -> StaysLocal
              [] mode = "always" -> Forward(<<>>, q) /\ UNCHANGED <<control, cooling, concealed>>
              [] mode = "edge" -> RouteAtEdge(q, at_edge)
      BY <3>1 DEF RouteSingle
    <3>7. CASE mode = "locked"
      BY <3>3, <3>5, <3>6, <3>7
    <3>8. CASE mode = "always"
      BY <3>3, <3>5, <3>6, <3>8
    <3>9. CASE mode = "edge"
      BY <3>3, <3>4, <3>5, <3>6, <3>9
    <3> QED BY <3>7, <3>8, <3>9 DEF HiddenInv
  <2> QED BY <1>3, <2>1, <2>2 DEF UserInput
<1>4. CASE \/ UNCHANGED singleVars \/ CooldownPasses \/ EnqueueSingle \/ TransmitSingle
           \/ LinkLost \/ TargetReachable
  <2>1. UNCHANGED <<phase, mode, control, concealed>>
    BY <1>4 DEF singleVars, localVars, CooldownPasses, EnqueueSingle, TransmitSingle, TakeSingle,
                CoalesceBurst, SendSingle, SendSingleFails, ThreadEnds, LinkLost, TargetReachable
  <2> QED BY <2>1 DEF HiddenInv, HiddenOnlyAway
<1> QED BY <1>1, <1>2, <1>3, <1>4 DEF SingleNext

\* The local pointer is hidden only while control is at the target, through the hot key, lost
\* connections and the end of the capture loop (apply_local_pointer_action,
\* restore_local_pointer_if_hidden).
THEOREM PointerIsGivenBack == SingleSpec => []HiddenOnlyAway
<1>1. HiddenInv /\ [SingleNext]_singleVars => HiddenInv'
  BY HiddenStep
<1>2. HiddenInv => HiddenOnlyAway
  BY DEF HiddenInv
<1> QED BY HiddenInit, <1>1, <1>2, PTL DEF SingleSpec
=============================================================================
