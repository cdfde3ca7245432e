----------------------------- MODULE Values_proofs -----------------------------
(***************************************************************************)
(* What one device keeps: the counters, latencies and crash reports, for   *)
(* any number of events, any capacity and any threads; its identity, for   *)
(* any installed package, processes, starts and failures.  What it shows:  *)
(* the labels of window and web panel, for any state, and the layout that  *)
(* is edited, for any devices.  What its adapters capture and inject: the  *)
(* input of a hand, for any keys, turns, motions and pairs of systems.     *)
(* What it is told: its command line and its profile, however they are     *)
(* written.                                                                *)
(***************************************************************************)
EXTENDS Telemetry, Identity, DesktopView, StatusLabels, Devices, Commands, ProfileText,
        WireFormat_proofs, FiniteSetTheorems

CapturePlaces == {"idle", "reserved", "sent", "full", "gone", "full canceled", "gone canceled"}

(* What the callback and the transmit thread add to the depth before it    *)
(* agrees with the queue again.                                            *)
Reserved == IF capture \in {"reserved", "full", "gone"} THEN 1 ELSE 0
Uncounted == IF transmit = "received" THEN 1 ELSE 0

(* The event of the callback that is not counted yet.                      *)
InCallback == IF capture = "idle" THEN 0 ELSE 1

CountersType ==
  /\ queue \in Nat /\ arrived \in Nat /\ open \in BOOLEAN
  /\ capture \in CapturePlaces /\ transmit \in {"idle", "received"}
  /\ stats \in [depth : Nat, enqueued : Nat, full : Nat, gone : Nat]

CountersInv ==
  /\ CountersType
  /\ open => stats.depth = queue + Reserved + Uncounted
  /\ stats.enqueued + stats.full + stats.gone + InCallback = arrived

LEMMA InitCounters == TelemetryInit => CountersInv
  BY DEF TelemetryInit, Zero, CountersInv, CountersType, CapturePlaces, Reserved, Uncounted,
         InCallback

LEMMA FewerByOne ==
  ASSUME NEW n \in Nat
  PROVE  Fewer(n) \in Nat /\ (n > 0 => Fewer(n) = n - 1)
  BY DEF Fewer

LEMMA NextCounters == CountersInv /\ [TelemetryNext]_telemetryVars => CountersInv'
<1> SUFFICES ASSUME CountersInv, [TelemetryNext]_telemetryVars PROVE CountersInv'
  OBVIOUS
<1> DEFINE StatsType == [depth : Nat, enqueued : Nat, full : Nat, gone : Nat]
<1>a. /\ queue \in Nat /\ arrived \in Nat /\ open \in BOOLEAN /\ stats \in StatsType
      /\ capture \in CapturePlaces /\ transmit \in {"idle", "received"}
      /\ open => stats.depth = queue + Reserved + Uncounted
      /\ stats.enqueued + stats.full + stats.gone + InCallback = arrived
  BY DEF CountersInv, CountersType
<1>b. /\ stats.depth \in Nat /\ stats.enqueued \in Nat /\ stats.full \in Nat /\ stats.gone \in Nat
      /\ Reserved \in {0, 1} /\ Uncounted \in {0, 1} /\ InCallback \in {0, 1}
  BY <1>a DEF Reserved, Uncounted, InCallback
<1>c. SUFFICES
        /\ queue' \in Nat /\ arrived' \in Nat /\ open' \in BOOLEAN /\ stats' \in StatsType
        /\ capture' \in CapturePlaces /\ transmit' \in {"idle", "received"}
        /\ open' => stats'.depth = queue' + Reserved' + Uncounted'
        /\ stats'.enqueued + stats'.full + stats'.gone + InCallback' = arrived'
  BY DEF CountersInv, CountersType
<1>d. /\ Fewer(stats.depth) \in Nat
      /\ stats.depth > 0 => Fewer(stats.depth) = stats.depth - 1
  BY <1>b, FewerByOne
<1>1. CASE Reserve
  <2>1. stats' = [stats EXCEPT !.depth = stats.depth + 1] /\ UNCHANGED <<queue, open, transmit>>
        /\ capture = "idle" /\ capture' = "reserved" /\ arrived' = arrived + 1
    BY <1>1 DEF Reserve
  <2>2. /\ stats' \in StatsType /\ stats'.depth = stats.depth + 1
        /\ stats'.enqueued = stats.enqueued /\ stats'.full = stats.full /\ stats'.gone = stats.gone
    BY <1>a, <1>b, <2>1
  <2>3. Reserved = 0 /\ Reserved' = 1 /\ Uncounted' = Uncounted /\ InCallback = 0 /\ InCallback' = 1
        /\ capture' \in CapturePlaces
    BY <2>1 DEF Reserved, Uncounted, InCallback, CapturePlaces
  <2> QED BY <1>a, <1>b, <2>1, <2>2, <2>3
<1>2. CASE TrySend
  <2>1. UNCHANGED <<open, transmit, stats, arrived>> /\ capture = "reserved"
    BY <1>2 DEF TrySend
  <2>2. Reserved = 1 /\ InCallback = 1 /\ Uncounted' = Uncounted
    BY <2>1 DEF Reserved, InCallback, Uncounted
  <2>3. CASE open /\ queue < Capacity
    <3>1. capture' = "sent" /\ queue' = queue + 1
      BY <1>2, <2>3 DEF TrySend
    <3>2. Reserved' = 0 /\ InCallback' = 1 /\ capture' \in CapturePlaces
      BY <3>1 DEF Reserved, InCallback, CapturePlaces
    <3> QED BY <1>a, <1>b, <2>1, <2>2, <3>1, <3>2
  <2>4. CASE ~(open /\ queue < Capacity)
    <3>1. capture' \in {"full", "gone"} /\ queue' = queue
      BY <1>2, <2>4 DEF TrySend
    <3>2. Reserved' = 1 /\ InCallback' = 1 /\ capture' \in CapturePlaces
      BY <3>1 DEF Reserved, InCallback, CapturePlaces
    <3> QED BY <1>a, <1>b, <2>1, <2>2, <3>1, <3>2
  <2> QED BY <2>3, <2>4
<1>3. CASE Commit
  <2>1. stats' = [stats EXCEPT !.enqueued = stats.enqueued + 1]
        /\ UNCHANGED <<queue, open, transmit, arrived>> /\ capture = "sent" /\ capture' = "idle"
    BY <1>3 DEF Commit
  <2>2. /\ stats' \in StatsType /\ stats'.depth = stats.depth
        /\ stats'.enqueued = stats.enqueued + 1
        /\ stats'.full = stats.full /\ stats'.gone = stats.gone
    BY <1>a, <1>b, <2>1
  <2>3. Reserved' = Reserved /\ Uncounted' = Uncounted /\ InCallback = 1 /\ InCallback' = 0
        /\ capture' \in CapturePlaces
    BY <2>1 DEF Reserved, Uncounted, InCallback, CapturePlaces
  <2> QED BY <1>a, <1>b, <2>1, <2>2, <2>3
<1>4. CASE Cancel
  <2>1. stats' = [stats EXCEPT !.depth = Fewer(stats.depth)]
        /\ UNCHANGED <<queue, open, transmit, arrived>>
    BY <1>4 DEF Cancel
  <2>c. capture \in {"full", "gone"} /\ capture' \in {"full canceled", "gone canceled"}
    BY <1>4 DEF Cancel
  <2>2. /\ stats' \in StatsType /\ stats'.depth = Fewer(stats.depth)
        /\ stats'.enqueued = stats.enqueued /\ stats'.full = stats.full /\ stats'.gone = stats.gone
    BY <1>a, <1>d, <2>1
  <2>3. Reserved = 1 /\ Reserved' = 0 /\ Uncounted' = Uncounted /\ InCallback' = InCallback
        /\ capture' \in CapturePlaces
    BY <2>1, <2>c DEF Reserved, Uncounted, InCallback, CapturePlaces
  <2>4. open => Fewer(stats.depth) = stats.depth - 1
    BY <1>a, <1>b, <1>d, <2>3
  <2>5. open' => stats'.depth = queue' + Reserved' + Uncounted'
    BY <1>a, <1>b, <2>1, <2>2, <2>3, <2>4
  <2>6. stats'.enqueued + stats'.full + stats'.gone + InCallback' = arrived'
    BY <1>a, <2>1, <2>2, <2>3
  <2> QED BY <1>a, <2>1, <2>2, <2>3, <2>5, <2>6
<1>5. CASE CountDrop
  <2>1. UNCHANGED <<queue, open, transmit, arrived>>
    BY <1>5 DEF CountDrop
  <2>c. capture' = "idle" /\ capture \in {"full canceled", "gone canceled"}
    BY <1>5 DEF CountDrop
  <2>2. /\ stats' \in StatsType /\ stats'.depth = stats.depth
        /\ stats'.enqueued = stats.enqueued
        /\ \/ stats'.full = stats.full + 1 /\ stats'.gone = stats.gone
           \/ stats'.full = stats.full /\ stats'.gone = stats.gone + 1
    <3>1. CASE stats' = [stats EXCEPT !.full = stats.full + 1]
      BY <1>a, <1>b, <3>1
    <3>2. CASE stats' = [stats EXCEPT !.gone = stats.gone + 1]
      BY <1>a, <1>b, <3>2
    <3> QED BY <1>5, <3>1, <3>2 DEF CountDrop
  <2>3. Reserved' = Reserved /\ Uncounted' = Uncounted /\ InCallback = 1 /\ InCallback' = 0
        /\ capture' \in CapturePlaces
    BY <2>1, <2>c DEF Reserved, Uncounted, InCallback, CapturePlaces
  <2>4. open' => stats'.depth = queue' + Reserved' + Uncounted'
    BY <1>a, <2>1, <2>2, <2>3
  <2>5. stats'.enqueued + stats'.full + stats'.gone + InCallback' = arrived'
    BY <1>a, <1>b, <2>1, <2>2, <2>3
  <2> QED BY <1>a, <2>1, <2>2, <2>3, <2>4, <2>5
<1>6. CASE Receive
  <2>1. queue > 0 /\ queue' = queue - 1 /\ transmit = "idle" /\ transmit' = "received"
        /\ UNCHANGED <<open, capture, stats, arrived>>
    BY <1>6 DEF Receive
  <2>2. Reserved' = Reserved /\ Uncounted = 0 /\ Uncounted' = 1 /\ InCallback' = InCallback
    BY <2>1 DEF Reserved, Uncounted, InCallback
  <2> QED BY <1>a, <1>b, <2>1, <2>2
<1>7. CASE CountReceived
  <2>1. stats' = [stats EXCEPT !.depth = Fewer(stats.depth)]
        /\ UNCHANGED <<queue, open, capture, arrived>> /\ transmit = "received"
        /\ transmit' = "idle"
    BY <1>7 DEF CountReceived
  <2>2. /\ stats' \in StatsType /\ stats'.depth = Fewer(stats.depth)
        /\ stats'.enqueued = stats.enqueued /\ stats'.full = stats.full /\ stats'.gone = stats.gone
    BY <1>a, <1>d, <2>1
  <2>3. Reserved' = Reserved /\ Uncounted = 1 /\ Uncounted' = 0 /\ InCallback' = InCallback
    BY <2>1 DEF Reserved, Uncounted, InCallback
  <2>4. open => Fewer(stats.depth) = stats.depth - 1
    BY <1>a, <1>b, <1>d, <2>3
  <2> QED BY <1>a, <1>b, <2>1, <2>2, <2>3, <2>4
<1>8. CASE TransmitEnds
  <2>1. open' = FALSE /\ UNCHANGED <<queue, capture, transmit, stats, arrived>>
    BY <1>8 DEF TransmitEnds
  <2> QED BY <1>a, <2>1 DEF InCallback
<1>9. CASE UNCHANGED queueVars
  BY <1>a, <1>9 DEF queueVars, Reserved, Uncounted, InCallback
<1>10. CASE \/ Wake \/ ReadDepth \/ ReadDrops \/ Report \/ StopReporter \/ Join
            \/ \E r \in Recorders : FetchMax(r) \/ (\E v \in Latencies : StoreLast(r, v))
            \/ \E p \in Panicking : TakeNumber(p) \/ WriteReport(p)
                                    \/ (\E t \in Times : Panic(p, t))
            \/ UNCHANGED telemetryVars
  <2>1. UNCHANGED queueVars
    BY <1>10 DEF Wake, ReadDepth, ReadDrops, Report, StopReporter, Join, FetchMax, StoreLast,
                 TakeNumber, WriteReport, Panic, telemetryVars
  <2> QED BY <1>9, <2>1
<1> QED BY <1>1, <1>2, <1>3, <1>4, <1>5, <1>6, <1>7, <1>8, <1>10 DEF TelemetryNext

(* The depth is never less than the queue, and that of the queue when      *)
(* neither side is at work, for any capacity and number of events.         *)
THEOREM DepthTells == TelemetrySpec => []DepthIsTrue
<1>1. CountersInv => DepthIsTrue
  BY DEF CountersInv, CountersType, Reserved, Uncounted, DepthIsTrue
<1> QED BY <1>1, InitCounters, NextCounters, PTL DEF TelemetrySpec

(* Every event is counted once, as sent or under one cause of a drop.      *)
THEOREM EventsAreCounted == TelemetrySpec => []EveryEventCounts
<1>1. CountersInv => EveryEventCounts
  BY DEF CountersInv, CountersType, InCallback, EveryEventCounts
<1> QED BY <1>1, InitCounters, NextCounters, PTL DEF TelemetrySpec

-----------------------------------------------------------------------------
(* Crash reports: the numbers taken are different and below the next, so   *)
(* no name is used twice.                                                  *)

HookType == [at : {"no", "stamped", "numbered", "written"}, time : Times \cup {0},
             sequence : Nat]

NameOf(p) == <<panicked[p].time, panicked[p].sequence>>
HasNumber(p) == panicked[p].at \in {"numbered", "written"}

CrashInv ==
  /\ panicked \in [Panicking -> HookType] /\ sequence \in Nat
  /\ \A p \in Panicking : HasNumber(p) => panicked[p].sequence < sequence
  /\ \A p, q \in Panicking :
        HasNumber(p) /\ HasNumber(q) /\ panicked[p].sequence = panicked[q].sequence => p = q
  /\ \A p \in Panicking :
        panicked[p].at = "written" => NameOf(p) \in DOMAIN files /\ files[NameOf(p)] = p

LEMMA InitCrash == TelemetryInit => CrashInv
  BY DEF TelemetryInit, Hook, HookType, CrashInv, HasNumber

LEMMA PanicKeeps ==
  ASSUME CrashInv, NEW p \in Panicking, NEW t \in Times, Panic(p, t)
  PROVE  CrashInv'
<1>1. panicked' = [panicked EXCEPT ![p] = Hook("stamped", t, 0)]
      /\ UNCHANGED <<sequence, files>>
  BY DEF Panic
<1>2. Hook("stamped", t, 0) \in HookType /\ Hook("stamped", t, 0).at = "stamped"
  BY DEF Hook, HookType
<1> QED BY <1>1, <1>2 DEF CrashInv, HasNumber, NameOf

LEMMA NumberKeeps ==
  ASSUME CrashInv, NEW p \in Panicking, TakeNumber(p)
  PROVE  CrashInv'
<1> DEFINE h == Hook("numbered", panicked[p].time, sequence)
<1>1. panicked' = [panicked EXCEPT ![p] = h] /\ sequence' = sequence + 1 /\ files' = files
  BY DEF TakeNumber, Numbered
<1>2. h \in HookType /\ h.at = "numbered" /\ h.sequence = sequence
  BY DEF CrashInv, Hook, HookType
<1> HIDE DEF h
<1>3. panicked' \in [Panicking -> HookType] /\ sequence' \in Nat
      /\ panicked'[p] = h /\ \A q \in Panicking \ {p} : panicked'[q] = panicked[q]
  BY <1>1, <1>2 DEF CrashInv
<1>4. \A q \in Panicking \ {p} :
         HasNumber(q) => panicked[q].sequence \in Nat /\ panicked[q].sequence < sequence
  BY DEF CrashInv, HookType
<1>5. \A q \in Panicking : HasNumber(q)' => panicked'[q].sequence < sequence'
  <2>1. sequence \in Nat
    BY DEF CrashInv
  <2> QED BY <1>1, <1>2, <1>3, <1>4, <2>1 DEF HasNumber
<1>6. \A q, r \in Panicking :
         HasNumber(q)' /\ HasNumber(r)' /\ panicked'[q].sequence = panicked'[r].sequence => q = r
  <2>1. \A q \in Panicking \ {p} : HasNumber(q) => panicked[q].sequence # sequence
    <3>1. sequence \in Nat
      BY DEF CrashInv
    <3> QED BY <1>4, <3>1
  <2> QED BY <1>2, <1>3, <2>1 DEF CrashInv, HasNumber
<1>7. \A q \in Panicking :
         panicked'[q].at = "written" => NameOf(q)' \in DOMAIN files' /\ files'[NameOf(q)'] = q
  BY <1>1, <1>2, <1>3 DEF CrashInv, NameOf
<1> QED BY <1>3, <1>5, <1>6, <1>7 DEF CrashInv

LEMMA WriteKeeps ==
  ASSUME CrashInv, NEW p \in Panicking, WriteReport(p)
  PROVE  CrashInv'
<1>1. /\ panicked[p].at = "numbered"
      /\ files' = [n \in DOMAIN files \cup {NameOf(p)} |-> IF n = NameOf(p) THEN p ELSE files[n]]
      /\ panicked' = [panicked EXCEPT ![p] = [panicked[p] EXCEPT !.at = "written"]]
      /\ sequence' = sequence
  BY DEF WriteReport, NameOf, CrashInv
<1>2. panicked[p] \in HookType
  BY DEF CrashInv
<1>3. [panicked[p] EXCEPT !.at = "written"] \in HookType
      /\ [panicked[p] EXCEPT !.at = "written"].at = "written"
      /\ [panicked[p] EXCEPT !.at = "written"].time = panicked[p].time
      /\ [panicked[p] EXCEPT !.at = "written"].sequence = panicked[p].sequence
  BY <1>2 DEF HookType
<1>4. /\ panicked' \in [Panicking -> HookType]
      /\ panicked'[p].at = "written" /\ NameOf(p)' = NameOf(p) /\ HasNumber(p)
      /\ \A q \in Panicking \ {p} : panicked'[q] = panicked[q]
      /\ \A q \in Panicking : panicked'[q].sequence = panicked[q].sequence
                              /\ (HasNumber(q)' <=> HasNumber(q))
  BY <1>1, <1>3 DEF CrashInv, NameOf, HasNumber
<1>5. ASSUME NEW q \in Panicking, panicked'[q].at = "written"
      PROVE  NameOf(q)' \in DOMAIN files' /\ files'[NameOf(q)'] = q
  <2>1. CASE q = p
    BY <1>1, <1>4, <2>1
  <2>2. CASE q # p
    <3>1. panicked'[q] = panicked[q] /\ NameOf(q)' = NameOf(q) /\ HasNumber(q)
      BY <1>4, <1>5, <2>2 DEF NameOf, HasNumber
    <3>2. panicked[q].sequence # panicked[p].sequence
      BY <1>4, <2>2, <3>1 DEF CrashInv
    <3>3. NameOf(q) # NameOf(p)
      BY <3>2 DEF NameOf
    <3>4. NameOf(q) \in DOMAIN files /\ files[NameOf(q)] = q
      BY <1>5, <3>1 DEF CrashInv
    <3> QED BY <1>1, <3>1, <3>3, <3>4
  <2> QED BY <2>1, <2>2
<1>6. \A q \in Panicking : HasNumber(q)' => panicked'[q].sequence < sequence'
  BY <1>1, <1>4 DEF CrashInv
<1>7. \A q, r \in Panicking :
         HasNumber(q)' /\ HasNumber(r)' /\ panicked'[q].sequence = panicked'[r].sequence => q = r
  BY <1>4 DEF CrashInv
<1>8. sequence' \in Nat
  BY <1>1 DEF CrashInv
<1> QED BY <1>4, <1>5, <1>6, <1>7, <1>8 DEF CrashInv

LEMMA NextCrash == CrashInv /\ [TelemetryNext]_telemetryVars => CrashInv'
<1> SUFFICES ASSUME CrashInv, [TelemetryNext]_telemetryVars PROVE CrashInv'
  OBVIOUS
<1>1. CASE \E p \in Panicking : TakeNumber(p) \/ WriteReport(p) \/ (\E t \in Times : Panic(p, t))
  BY <1>1, PanicKeeps, NumberKeeps, WriteKeeps
<1>2. CASE UNCHANGED crashVars
  BY <1>2 DEF crashVars, CrashInv, HasNumber, NameOf
<1>3. CASE \/ Reserve \/ TrySend \/ Commit \/ Cancel \/ CountDrop \/ Receive \/ CountReceived
           \/ TransmitEnds \/ Wake \/ ReadDepth \/ ReadDrops \/ Report \/ StopReporter \/ Join
           \/ \E r \in Recorders : FetchMax(r) \/ (\E v \in Latencies : StoreLast(r, v))
           \/ UNCHANGED telemetryVars
  <2>1. UNCHANGED crashVars
    BY <1>3 DEF Reserve, TrySend, Commit, Cancel, CountDrop, Receive, CountReceived,
                TransmitEnds, Wake, ReadDepth, ReadDrops, Report, StopReporter, Join, FetchMax,
                StoreLast, telemetryVars
  <2> QED BY <1>2, <2>1
<1> QED BY <1>1, <1>3 DEF TelemetryNext

(* A crash report that was written stays, for any threads that panic at    *)
(* any times.                                                              *)
THEOREM CrashReportsStay == TelemetrySpec => []ReportsKept
<1>1. CrashInv => ReportsKept
  BY DEF CrashInv, ReportsKept
<1> QED BY <1>1, InitCrash, NextCrash, PTL DEF TelemetrySpec

-----------------------------------------------------------------------------
(* The identity.                                                           *)

IdFiles ==
  [kind : {"none", "blank", "junk"}]
    \cup [kind : {"file"}, id : Nat, key : Nat, how : {"inline", "ref", "neither"}]

LoadPlaces == {"off", "seed", "open seed", "copy config", "find identity", "copy identity",
               "copying identity", "ensure", "open template", "create", "configure", "ready",
               "read", "store", "write", "return"}

(* The file can be used: the key it names is in the credential store.      *)
Usable(f) == f.kind = "file" /\ f.how = "ref" /\ UsesStore => f.key \in secrets

(* An identity is only written behind its key; nothing is copied and       *)
(* nothing read that could not be used.                                    *)
KeyInv ==
  /\ identities \in [Dirs -> IdFiles]
  /\ mem \in [Processes -> IdFiles]
  /\ pc \in [Processes -> LoadPlaces]
  /\ made \in Nat
  /\ \A d \in Dirs : Usable(identities[d])
  /\ \A p \in Processes : pc[p] = "write" => Usable(mem[p])
  /\ \A p \in Processes : pc[p] = "store" => UsesStore

LEMMA ConfigDirIsOne == ConfigDir \in Dirs
<1> DEFINE found == {i \in DOMAIN Candidates : Exists(Candidates[i])}
<1>1. DOMAIN Candidates = 1..6 /\ \A i \in 1..6 : Candidates[i] \in Dirs
  BY DEF Candidates, Dirs
<1>2. Candidates[1] = "cwd/configs"
  BY DEF Candidates
<1>3. found # {} => \E i \in found : \A j \in found : i <= j
  <2>1. found \in SUBSET Nat
    BY <1>1
  <2> HIDE DEF found
  <2> QED BY <2>1, LeastIs
<1>4. found # {} => (CHOOSE i \in found : \A j \in found : i <= j) \in DOMAIN Candidates
  <2>1. found # {} => (CHOOSE i \in found : \A j \in found : i <= j) \in found
    BY <1>3
  <2> QED BY <2>1
<1>5. "user" \in Dirs
  BY DEF Dirs
<1> QED BY <1>1, <1>2, <1>4, <1>5 DEF ConfigDir

LEMMA SeedFromIsOne == SeedFrom \in Dirs
<1>1. {"exe/configs", "package/configs"} \subseteq Dirs
  <2>1. Candidates[3] = "exe/configs" /\ Candidates[6] = "package/configs"
        /\ 3 \in DOMAIN Candidates /\ 6 \in DOMAIN Candidates
    BY DEF Candidates
  <2> QED BY <2>1 DEF Dirs
<1> QED BY <1>1 DEF SeedFrom

LEMMA InitKey == IdentityInit => KeyInv
<1> SUFFICES ASSUME NEW p \in Packages, Installed(p) PROVE KeyInv
  BY DEF IdentityInit
<1>1. /\ env = [os |-> p.os, installed |-> p.installed, home |-> p.home]
      /\ identities = [d \in Dirs |-> IF d \in DOMAIN p.identities THEN p.identities[d]
                                      ELSE NoFile]
      /\ secrets = IF p.os = "windows" THEN {Old} ELSE {}
      /\ pc = [q \in Processes |-> "off"] /\ mem = [q \in Processes |-> NoFile]
      /\ made = Old
  BY DEF Installed
<1>2. NoFile \in IdFiles /\ NoFile.kind # "file"
  BY DEF NoFile, IdFiles
<1>3. ASSUME NEW d \in Dirs
      PROVE  identities[d] \in IdFiles /\ Usable(identities[d])
  <2>1. CASE d \in DOMAIN p.identities
    <3>1. identities[d] = p.identities[d]
      BY <1>1, <2>1
    <3>2. /\ p.identities[d] \in IdFiles
          /\ p.identities[d].kind = "file" /\ p.identities[d].how = "ref" =>
               p.identities[d].key = Old
      <4> DEFINE f == p.identities[d]
      <4>1. \/ f \in {NoFile, Blank, Junk}
            \/ f \in [kind : {"file"}, id : {NoId, Old}, key : {Old},
                      how : {"inline", "ref", "neither"}]
        BY <2>1, PackagesAssumption
      <4>2. CASE f \in {NoFile, Blank, Junk}
        BY <4>2 DEF NoFile, Blank, Junk, IdFiles
      <4>3. CASE f \in [kind : {"file"}, id : {NoId, Old}, key : {Old},
                        how : {"inline", "ref", "neither"}]
        BY <4>3 DEF IdFiles, NoId, Old
      <4> QED BY <4>1, <4>2, <4>3
    <3> QED BY <1>1, <3>1, <3>2 DEF Usable, UsesStore
  <2>2. CASE d \notin DOMAIN p.identities
    BY <1>1, <1>2, <2>2 DEF Usable
  <2> QED BY <2>1, <2>2
<1>4. identities \in [Dirs -> IdFiles]
  BY <1>1, <1>3
<1> QED BY <1>1, <1>2, <1>3, <1>4 DEF KeyInv, Old, LoadPlaces

(* Steps that change neither the files nor the store, and lead no process  *)
(* to writing.                                                             *)
LEMMA MovesKeepKey ==
  ASSUME KeyInv, NEW p \in Processes, NEW to \in LoadPlaces, to \notin {"write", "store"},
         pc' = [pc EXCEPT ![p] = to], UNCHANGED <<env, identities, secrets, mem>>,
         made' \in Nat
  PROVE  KeyInv'
  BY DEF KeyInv, Usable, UsesStore

LEMMA StartKeepsKey ==
  ASSUME KeyInv, NEW p \in Processes,
         \/ Start(p) \/ Seed(p) \/ Open(p) \/ ConfigCopied(p) \/ FindIdentity(p)
         \/ SeedFails(p) \/ Ensure(p) \/ Created(p) \/ LoadConfig(p)
         \/ BeginLoad(p) \/ LoadFails(p) \/ Return(p) \/ Killed(p)
  PROVE  KeyInv'
<1>1. UNCHANGED <<env, identities, secrets, mem, made>> /\ made' \in Nat
  BY DEF Start, Seed, Open, ConfigCopied, FindIdentity, SeedFails, Ensure, Created,
         LoadConfig, BeginLoad, LoadFails, Return, Killed, disk, history, KeyInv
<1>2. \E to \in LoadPlaces : to \notin {"write", "store"} /\ pc' = [pc EXCEPT ![p] = to]
  <2>1. CASE \/ Start(p) \/ Seed(p) \/ Open(p) \/ ConfigCopied(p) \/ FindIdentity(p)
             \/ SeedFails(p) \/ Ensure(p)
    BY <2>1 DEF Start, Seed, Open, ConfigCopied, FindIdentity, SeedFails, Ensure, At, LoadPlaces
  <2>2. CASE \/ Created(p) \/ LoadConfig(p) \/ BeginLoad(p) \/ LoadFails(p) \/ Return(p)
             \/ Killed(p)
    BY <2>2 DEF Created, LoadConfig, BeginLoad, LoadFails, Return, Killed, At, LoadPlaces
  <2> QED BY <2>1, <2>2
<1> QED BY <1>1, <1>2, MovesKeepKey

LEMMA CopyKeepsKey ==
  ASSUME KeyInv, NEW p \in Processes, CopyIdentity(p) \/ IdentityCopied(p)
  PROVE  KeyInv'
<1> DEFINE f == IF CopyIdentity(p) THEN Blank ELSE identities[SeedFrom]
<1>1. f \in IdFiles /\ Usable(f)
  BY SeedFromIsOne DEF KeyInv, Usable, Blank, IdFiles
<1>2. /\ identities' = [identities EXCEPT ![ConfigDir] = f]
      /\ UNCHANGED <<env, secrets, mem, made>>
      /\ pc' = [pc EXCEPT ![p] = IF CopyIdentity(p) THEN "copying identity" ELSE "ensure"]
  BY DEF CopyIdentity, IdentityCopied, At, history
<1> HIDE DEF f
<1>3. \A g : Usable(g)' <=> Usable(g)
  BY <1>2 DEF Usable, UsesStore
<1>4. identities' \in [Dirs -> IdFiles] /\ \A d \in Dirs : identities'[d] \in {f, identities[d]}
  BY <1>1, <1>2, ConfigDirIsOne DEF KeyInv
<1>5. \A d \in Dirs : Usable(identities[d])'
  BY <1>1, <1>2, <1>4 DEF KeyInv, Usable, UsesStore
<1>6. /\ pc' \in [Processes -> LoadPlaces]
      /\ \A q \in Processes : pc'[q] = "write" => pc[q] = "write" /\ mem'[q] = mem[q]
      /\ \A q \in Processes : pc'[q] = "store" => UsesStore'
  BY <1>2 DEF KeyInv, LoadPlaces, UsesStore
<1>7. \A q \in Processes : pc'[q] = "write" => Usable(mem[q])'
  BY <1>2, <1>6 DEF KeyInv, Usable, UsesStore
<1> QED BY <1>2, <1>4, <1>5, <1>6, <1>7 DEF KeyInv

LEMMA OrderOnStore ==
  /\ UsesStore => Order[1] = "store" /\ After("store") = "write"
  /\ After("write") = "return"
<1>1. CASE UsesStore
  <2>1. Order = <<"store", "write">>
    BY <1>1 DEF Order
  <2>2. DOMAIN Order = {1, 2} /\ Order[1] = "store" /\ Order[2] = "write" /\ Len(Order) = 2
    BY <2>1
  <2>3. (CHOOSE i \in DOMAIN Order : Order[i] = "store") = 1
    BY <2>2
  <2>4. (CHOOSE i \in DOMAIN Order : Order[i] = "write") = 2
    BY <2>2
  <2> QED BY <2>2, <2>3, <2>4 DEF After
<1>2. CASE ~UsesStore
  <2>1. Order = <<"write">>
    BY <1>2 DEF Order
  <2>2. DOMAIN Order = {1} /\ Order[1] = "write" /\ Len(Order) = 1
    BY <2>1
  <2>3. (CHOOSE i \in DOMAIN Order : Order[i] = "write") = 1
    BY <2>2
  <2> QED BY <1>2, <2>2, <2>3 DEF After
<1> QED BY <1>1, <1>2

(* A process that takes an identity to write it has one that can be used,  *)
(* unless it goes on to store the key.                                     *)
LEMMA TakingKeepsKey ==
  ASSUME KeyInv, NEW p \in Processes, NEW f \in IdFiles, f.kind = "file",
         NEW to \in LoadPlaces, Takes(p, f, to), UNCHANGED <<env, identities, secrets>>,
         to = "write" => Usable(f), to = "store" => UsesStore
  PROVE  KeyInv'
<1>1. /\ pc' = [pc EXCEPT ![p] = to] /\ mem' = [mem EXCEPT ![p] = WithId(f)]
      /\ made' = IF f.id = NoId THEN made + 1 ELSE made
  BY DEF Takes
<1>2. made \in Nat /\ made + 1 \in Nat
  BY DEF KeyInv
<1>3. WithId(f) \in IdFiles /\ WithId(f).how = f.how /\ WithId(f).key = f.key
      /\ WithId(f).kind = f.kind
  BY <1>2 DEF WithId, IdFiles
<1>4. to = "write" => Usable(WithId(f))
  BY <1>3 DEF Usable
<1>5. /\ pc' \in [Processes -> LoadPlaces] /\ mem' \in [Processes -> IdFiles]
      /\ pc'[p] = to /\ mem'[p] = WithId(f)
      /\ \A q \in Processes \ {p} : pc'[q] = pc[q] /\ mem'[q] = mem[q]
  BY <1>1, <1>3 DEF KeyInv
<1>6. \A q \in Processes : pc'[q] = "write" => Usable(mem'[q])
  BY <1>4, <1>5 DEF KeyInv
<1>7. \A q \in Processes : pc'[q] = "write" => Usable(mem[q])'
  BY <1>6 DEF Usable, UsesStore
<1>8. \A d \in Dirs : Usable(identities[d])'
  BY DEF KeyInv, Usable, UsesStore
<1>9. \A q \in Processes : pc'[q] = "store" => UsesStore'
  BY <1>5 DEF KeyInv, UsesStore
<1> QED BY <1>1, <1>2, <1>5, <1>7, <1>8, <1>9 DEF KeyInv

LEMMA GeneratingKeepsKey ==
  ASSUME KeyInv, NEW p \in Processes, Generates(p), UNCHANGED <<env, identities, secrets>>
  PROVE  KeyInv'
<1> DEFINE f == File(NoId, made + 1, IF UsesStore THEN "ref" ELSE "inline")
<1>1. f \in IdFiles /\ f.kind = "file" /\ f.how = IF UsesStore THEN "ref" ELSE "inline"
  BY DEF File, IdFiles, NoId, KeyInv
<1>2. Takes(p, f, Order[1])
  BY DEF Generates
<1>3. Order[1] \in LoadPlaces /\ (Order[1] = "write" => ~UsesStore)
      /\ (Order[1] = "store" => UsesStore)
  BY OrderOnStore DEF Order, LoadPlaces
<1> HIDE DEF f
<1>4. Order[1] = "write" => Usable(f)
  BY <1>1, <1>3 DEF Usable
<1> QED BY <1>1, <1>2, <1>3, <1>4, TakingKeepsKey

LEMMA GivingUpKeepsKey ==
  ASSUME KeyInv, NEW p \in Processes, GivesUp(p), UNCHANGED <<env, identities, secrets>>
  PROVE  KeyInv'
  BY MovesKeepKey DEF GivesUp, KeyInv, LoadPlaces

LEMMA ReadKeepsKey ==
  ASSUME KeyInv, NEW p \in Processes, ReadLocal(p) \/ ReadStored(p)
  PROVE  KeyInv'
<1>1. UNCHANGED <<env, identities, secrets>>
  BY DEF ReadLocal, ReadStored, disk
<1>2. Here \in IdFiles /\ Usable(Here)
  BY ConfigDirIsOne DEF KeyInv, Here
<1>3. CASE ReadLocal(p)
  <2>1. ~UsesStore /\ (Generates(p) \/ GivesUp(p) \/ (Here.kind = "file" /\ Takes(p, Here, "write")))
    BY <1>3 DEF ReadLocal
  <2> QED BY <1>1, <1>2, <2>1, GeneratingKeepsKey, GivingUpKeepsKey, TakingKeepsKey DEF LoadPlaces
<1>4. CASE ReadStored(p)
  <2>1. CASE Here.kind = "file" /\ Here.how = "ref"
             /\ Takes(p, Here, IF Complete(Here) THEN "return" ELSE "write")
    BY <1>1, <1>2, <2>1, TakingKeepsKey DEF LoadPlaces
  <2>2. CASE Here.kind = "file" /\ Here.how = "inline"
             /\ Takes(p, [Here EXCEPT !.how = "ref"], Order[1])
    <3>1. [Here EXCEPT !.how = "ref"] \in IdFiles /\ [Here EXCEPT !.how = "ref"].kind = "file"
      BY <1>2, <2>2 DEF IdFiles
    <3>2. Order[1] = "store" /\ UsesStore
      BY <1>4, OrderOnStore DEF ReadStored
    <3> QED BY <1>1, <2>2, <3>1, <3>2, TakingKeepsKey DEF LoadPlaces
  <2>3. CASE Generates(p) \/ GivesUp(p)
    BY <1>1, <2>3, GeneratingKeepsKey, GivingUpKeepsKey
  <2> QED BY <1>4, <2>1, <2>2, <2>3 DEF ReadStored
<1> QED BY <1>3, <1>4

LEMMA KeepingKeepsKey ==
  ASSUME KeyInv, NEW p \in Processes, Store(p) \/ Write(p)
  PROVE  KeyInv'
<1>1. CASE Store(p)
  <2>1. /\ pc' = [pc EXCEPT ![p] = After("store")]
        /\ secrets' = secrets \cup {mem[p].key}
        /\ UNCHANGED <<env, identities, mem, made>>
    BY <1>1 DEF Store, At, history
  <2>2. \A f : Usable(f) => Usable(f)'
    BY <2>1 DEF Usable, UsesStore
  <2>3. Usable(mem[p])'
    BY <2>1 DEF Usable
  <2>4. \A q \in Processes : pc'[q] = "write" => Usable(mem[q])'
    <3>1. ASSUME NEW q \in Processes, q # p, pc'[q] = "write" PROVE Usable(mem[q])'
      BY <2>1, <3>1 DEF KeyInv, Usable, UsesStore
    <3> QED BY <2>3, <3>1
  <2>5. \A d \in Dirs : Usable(identities[d])'
    BY <2>1 DEF KeyInv, Usable, UsesStore
  <2>6. pc' = [pc EXCEPT ![p] = "write"]
    BY <1>1, <2>1, OrderOnStore DEF KeyInv, Store, At
  <2>7. pc' \in [Processes -> LoadPlaces]
        /\ \A q \in Processes : pc'[q] = "store" => UsesStore'
    BY <2>1, <2>6 DEF KeyInv, LoadPlaces, UsesStore
  <2> QED BY <2>1, <2>4, <2>5, <2>7 DEF KeyInv
<1>2. CASE Write(p)
  <2>1. /\ pc[p] = "write" /\ pc' = [pc EXCEPT ![p] = "return"]
        /\ identities' = [identities EXCEPT ![ConfigDir] = mem[p]]
        /\ UNCHANGED <<env, secrets, mem, made>>
    BY <1>2, OrderOnStore DEF Write, At, history
  <2>2. Usable(mem[p]) /\ mem[p] \in IdFiles
    BY <2>1 DEF KeyInv
  <2>3. identities' \in [Dirs -> IdFiles]
        /\ \A d \in Dirs : identities'[d] = mem[p] \/ identities'[d] = identities[d]
    BY <2>1, <2>2, ConfigDirIsOne DEF KeyInv
  <2>4. \A d \in Dirs : Usable(identities[d])'
    BY <2>1, <2>2, <2>3 DEF KeyInv, Usable, UsesStore
  <2>5. \A q \in Processes : pc'[q] = "write" => pc[q] = "write" /\ Usable(mem[q])'
    BY <2>1 DEF KeyInv, Usable, UsesStore
  <2>6. pc' \in [Processes -> LoadPlaces]
        /\ \A q \in Processes : pc'[q] = "store" => UsesStore'
    BY <2>1 DEF KeyInv, LoadPlaces, UsesStore
  <2> QED BY <2>1, <2>3, <2>4, <2>5, <2>6 DEF KeyInv
<1> QED BY <1>1, <1>2

LEMMA KeyStep == KeyInv /\ [IdentityNext]_identityVars => KeyInv'
<1> SUFFICES ASSUME KeyInv, [IdentityNext]_identityVars PROVE KeyInv'
  OBVIOUS
<1>1. CASE UNCHANGED identityVars
  BY <1>1 DEF identityVars, KeyInv, Usable, UsesStore
<1> QED BY <1>1, StartKeepsKey, CopyKeepsKey, ReadKeepsKey, KeepingKeepsKey DEF IdentityNext

(* Whatever fails or is killed between two calls, a device never has an    *)
(* identity file whose key is not there (load_or_generate_with_store).     *)
THEOREM KeyStaysStored == IdentitySpec => []KeyIsStored
<1>1. KeyInv => KeyIsStored
  BY ConfigDirIsOne DEF KeyInv, Usable, KeyIsStored, Here
<1> QED BY InitKey, KeyStep, <1>1, PTL DEF IdentitySpec

-----------------------------------------------------------------------------
(* The labels of the window. *)

LEMMA DesktopIs ==
  ASSUME NEW s \in Desktops
  PROVE  /\ s.masterState \in {"Connecting", "Disconnected", "SelfDevice"}
         /\ s.kind \in {"Unknown", "Idle", "Listening", "Armed", "Failed"}
         /\ s.progress \in {"none", "captured", "routed", "sent", "received", "injected"}
         /\ s.reported \in BOOLEAN /\ s.relayConnected \in BOOLEAN
         /\ s.targets \in Targets
  BY DEF Desktops, MasterStates, Kinds, Progresses

(* The role follows from the master alone, and what is said of targets is  *)
(* said on a master, what is said of the own receiver on a client.         *)
LEMMA RoleIs ==
  ASSUME NEW s \in Desktops
  PROVE  /\ RoleOf(s) = "master" <=> s.masterState = "SelfDevice"
         /\ RoleOf(s) = "client" <=> s.masterState # "SelfDevice"
         /\ ShowsMaster(s) <=> s.masterState = "SelfDevice"
         /\ ShowsClient(s) <=> s.masterState # "SelfDevice"
         /\ Waiting(s) \/ UnknownReceiver(s) \/ OutsideSubnet(s) => s.masterState = "SelfDevice"
         /\ OwnReceiverOffline(s) => s.masterState # "SelfDevice"
  BY DesktopIs DEF RoleOf, ShowsMaster, ShowsClient, Waiting, UnknownReceiver, OutsideSubnet,
     OwnReceiverOffline

LEMMA WindowSaysPanel == ASSUME NEW s \in Desktops PROVE WindowLabel(s) = PanelLabel(s)
<1>1. CASE MasterError(s)
  BY <1>1 DEF WindowLabel, PanelLabel
<1>2. CASE ~MasterError(s)
  <2>1. s.kind # "Failed"
    BY <1>2 DEF MasterError
  <2>2. CASE s.kind = "Unknown"
    BY <1>2, <2>2, RoleIs, DesktopIs DEF WindowLabel, PanelLabel, RuntimeLabel, PanelRuntime,
       TargetLabel, NoLabel
  <2>3. CASE s.kind = "Idle"
    BY <1>2, <2>3, RoleIs, DesktopIs DEF WindowLabel, PanelLabel, RuntimeLabel, PanelRuntime,
       TargetLabel, NoLabel
  <2>4. CASE s.kind = "Armed"
    BY <1>2, <2>4, RoleIs, DesktopIs DEF WindowLabel, PanelLabel, RuntimeLabel, PanelRuntime,
       TargetLabel, NoLabel
  <2>5. CASE s.kind = "Listening"
    BY <1>2, <2>5, RoleIs, DesktopIs DEF WindowLabel, PanelLabel, RuntimeLabel, PanelRuntime,
       TargetLabel, NoLabel, ClientRuntimeLabel
  <2> QED BY <2>1, <2>2, <2>3, <2>4, <2>5, DesktopIs
<1> QED BY <1>1, <1>2

(* Where each label that names a cause or a progress comes from.           *)
LEMMA PanelMeans ==
  ASSUME NEW s \in Desktops
  PROVE  /\ PanelLabel(s) = "waiting for receiver" => Waiting(s)
         /\ PanelLabel(s) = "server outdated" => UnknownReceiver(s)
         /\ PanelLabel(s) = "unreachable network" => OutsideSubnet(s)
         /\ PanelLabel(s) = "waiting for master"
              => s.masterState = "Disconnected" /\ s.relayConnected
         /\ PanelLabel(s) \in {"sent", "routed", "captured", "received", "injected"}
              => /\ ~MasterError(s)
                 /\ \/ s.kind = "Armed" /\ s.masterState = "SelfDevice"
                    \/ /\ s.kind = "Listening" /\ s.masterState # "SelfDevice"
                       /\ s.masterState # "Disconnected" \/ s.relayConnected
<1>1. CASE MasterError(s)
  BY <1>1 DEF PanelLabel
<1>2. CASE ~MasterError(s) /\ ~PanelRuntime(s)
  BY <1>2, DesktopIs DEF PanelLabel, ChannelLabel
<1>3. CASE ~MasterError(s) /\ PanelRuntime(s)
  <2>1. s.kind # "Failed" /\ s.kind # "Unknown"
    BY <1>3 DEF MasterError, PanelRuntime
  <2>2. CASE s.kind = "Idle"
    BY <1>3, <2>2 DEF PanelLabel
  <2>3. CASE s.kind = "Armed"
    BY <1>3, <2>3, RoleIs, DesktopIs DEF PanelLabel, PanelRuntime
  <2>4. CASE s.kind = "Listening"
    BY <1>3, <2>4, RoleIs, DesktopIs DEF PanelLabel, PanelRuntime
  <2> QED BY <2>1, <2>2, <2>3, <2>4, DesktopIs
<1> QED BY <1>1, <1>2, <1>3

(* The two translations agree, and say what list, report and colours say,  *)
(* of every desktop state: for any targets in any number.                  *)
THEOREM PanelsSayTheSame == LabelSpec => []PanelsAgree
<1>1. LabelInit => desktop \in Desktops
  BY DEF LabelInit
<1>2. desktop \in Desktops /\ [LabelNext]_desktop => (desktop \in Desktops)'
  <2> SUFFICES ASSUME desktop \in Desktops, LabelNext PROVE desktop' \in Desktops
    OBVIOUS
  <2>1. CASE \E kind \in Kinds : desktop' = [desktop EXCEPT !.kind = kind]
    BY <2>1 DEF Desktops
  <2>2. CASE \E state \in MasterStates : desktop' = [desktop EXCEPT !.masterState = state]
    BY <2>2 DEF Desktops
  <2> QED BY <2>1, <2>2 DEF LabelNext
<1>3. desktop \in Desktops => PanelsAgree
  <2> SUFFICES ASSUME desktop \in Desktops PROVE PanelsAgree
    OBVIOUS
  <2>1. PanelLabel(desktop) = "waiting for receiver" =>
          \E t \in desktop.targets : DeviceLabel(t) = "receiver not connected"
    BY PanelMeans DEF Waiting, DeviceLabel
  <2>2. PanelLabel(desktop) \in {"server outdated", "waiting for master", "unreachable network"}
          => PanelLabel(desktop) \in Warnings(desktop)
    <3>1. CASE PanelLabel(desktop) = "server outdated"
      BY <3>1, PanelMeans DEF Warnings
    <3>2. CASE PanelLabel(desktop) = "waiting for master"
      BY <3>2, PanelMeans, RoleIs DEF Warnings
    <3>3. CASE PanelLabel(desktop) = "unreachable network"
      BY <3>3, PanelMeans DEF Warnings, OutsideSubnet
    <3> QED BY <3>1, <3>2, <3>3
  <2>3. PanelLabel(desktop) \in {"sent", "routed", "captured", "received", "injected"}
          => PanelKey(desktop) = "retrying"
    BY PanelMeans, RoleIs DEF PanelKey
  <2> QED BY <2>1, <2>2, <2>3, WindowSaysPanel DEF PanelsAgree
<1> QED BY <1>1, <1>2, <1>3, PTL DEF LabelSpec

-----------------------------------------------------------------------------
(* The layout of the window. *)

IsLayout(layout) == layout = [slot \in Slots |-> layout[slot]]

(* A device that is in two places of the edited layout was loaded there.   *)
Explained(layout, before) ==
  \A s, t \in Slots : s # t /\ layout[s] = layout[t] /\ layout[s] # NoDevice =>
      before[s] = layout[s] /\ before[t] = layout[t]

LEMMA ClearedIsExplained ==
  ASSUME NEW layout, IsLayout(layout), NEW before,
         Explained(layout, before), NEW slot \in Slots, NEW id, NEW new,
         new = ClearDuplicates([layout EXCEPT ![slot] = id], slot)
  PROVE  IsLayout(new) /\ Explained(new, before)
<1>1. /\ IsLayout(new) /\ new[slot] = id
      /\ \A s \in Slots \ {slot} : new[s] = IF layout[s] = id THEN NoDevice ELSE layout[s]
  BY DEF ClearDuplicates, IsLayout
<1>2. \A s \in Slots \ {slot} : new[s] # id \/ new[s] = NoDevice
  BY ONLY <1>1
<1>3. \A s \in Slots \ {slot} : new[s] # NoDevice => new[s] = layout[s]
  BY ONLY <1>1
<1>4. ASSUME NEW s \in Slots, NEW t \in Slots, s # t, new[s] = new[t], new[s] # NoDevice
      PROVE  before[s] = new[s] /\ before[t] = new[t]
  <2>1. s # slot /\ t # slot
    BY ONLY <1>1, <1>2, <1>4, slot \in Slots
  <2>2. new[s] = layout[s] /\ new[t] = layout[t]
    BY ONLY <1>3, <1>4, <2>1
  <2>3. layout[s] = layout[t] /\ layout[s] # NoDevice
    BY ONLY <1>4, <2>2
  <2>4. before[s] = layout[s] /\ before[t] = layout[t]
    BY ONLY <1>4, <2>3, Explained(layout, before) DEF Explained
  <2> QED BY ONLY <2>2, <2>4
<1>5. Explained(new, before)
  BY ONLY <1>4 DEF Explained
<1> QED BY ONLY <1>1, <1>5

(* A save is refused only for a computer that was loaded in two places,    *)
(* whatever is selected, saved, removed and listed anew, for any computers *)
(* and layouts to begin with (native_layout_clear_duplicate_targets).      *)
THEOREM EditsKeepValid == ViewSpec => []EditsStayValid
<1> DEFINE Inv == IsLayout(edited) /\ Explained(edited, loaded.layout)
<1>1. ViewInit => Inv
  BY DEF ViewInit, Listed, Loaded, Shown, Explained, IsLayout
<1>2. Inv /\ [ViewNext]_viewVars => Inv'
  <2> SUFFICES ASSUME Inv, [ViewNext]_viewVars PROVE Inv'
    OBVIOUS
  <2>1. ASSUME NEW slot \in Slots, NEW id \in DeviceIds \cup {NoDevice}, EditSlot(slot, id)
        PROVE  Inv'
    <3>1. edited' = ClearDuplicates([edited EXCEPT ![slot] = id], slot) /\ UNCHANGED loaded
      BY <2>1 DEF EditSlot
    <3>2. IsLayout(edited') /\ Explained(edited', loaded.layout)
      BY <3>1, ClearedIsExplained
    <3> QED BY <3>1, <3>2
  <2>2. ASSUME NEW items, NEW layout, Load(items, layout) PROVE Inv'
    BY <2>2 DEF Load, Loaded, Shown, Explained, IsLayout
  <2>3. CASE Relist \/ UNCHANGED viewVars
    BY <2>3 DEF Relist, viewVars, Explained, IsLayout
  <2>4. CASE SaveLayout \/ Refreshed \/ \E id \in OldIds : RemoveDevice(id)
    BY <2>2, <2>4 DEF SaveLayout, Refreshed, RemoveDevice
  <2> QED BY <2>1, <2>3, <2>4 DEF ViewNext
<1>3. Inv => EditsStayValid
  BY DEF EditsStayValid, Explained
<1> QED BY <1>1, <1>2, <1>3, PTL DEF ViewSpec

-----------------------------------------------------------------------------
(* What one computer captures and another injects.                         *)

(* Sets of events of which Pressed makes events of the same set.           *)
IsEvents(S) ==
  \A e \in S : PressedOf(e) \in Seq(S) /\ \A axis \in Axes : TurnOf(e, axis) \in Int

LEMMA PressedIs ==
  ASSUME NEW S, IsEvents(S), NEW s \in Seq(S)
  PROVE  \E h : /\ h \in [0..Len(s) -> Seq(S)] /\ h[0] = <<>>
                /\ \A n \in 1..Len(s) : h[n] = h[n - 1] \o PressedOf(s[n])
                /\ Pressed(s) = h[Len(s)]
<1> DEFINE N == Len(s)
           seqs == [n \in 1..N |-> PressedOf(s[n])]
           P == CHOOSE f : f = [n \in 0..N |-> IF n = 0 THEN <<>> ELSE f[n - 1] \o PressedOf(s[n])]
<1>1. N \in Nat /\ \A n \in 1..N : s[n] \in S
  OBVIOUS
<1>2. seqs \in Seq(Seq(S)) /\ Len(seqs) = N /\ \A n \in 1..N : seqs[n] = PressedOf(s[n])
  <2>1. \A n \in 1..N : PressedOf(s[n]) \in Seq(S)
    BY <1>1 DEF IsEvents
  <2> HIDE DEF N
  <2> QED BY <1>1, <2>1
<1>3. Pressed(s) = P[N]
  BY DEF Pressed
<1> HIDE DEF seqs, N
<1>4. PICK h : Gathered(h, seqs, S)
  BY <1>2, GatheredIs
<1>5. /\ h \in [0..N -> Seq(S)] /\ h[0] = <<>>
      /\ \A n \in 1..N : h[n] = h[n - 1] \o PressedOf(s[n])
  BY <1>2, <1>4 DEF Gathered
<1>6. h = [n \in 0..N |-> IF n = 0 THEN <<>> ELSE h[n - 1] \o PressedOf(s[n])]
  <2> HIDE DEF P
  <2>1. ASSUME NEW n \in 0..N
        PROVE  h[n] = IF n = 0 THEN <<>> ELSE h[n - 1] \o PressedOf(s[n])
    <3>1. CASE n = 0
      BY <1>5, <3>1
    <3>2. CASE n # 0
      <4>1. n \in 1..N
        BY <1>1, <3>2
      <4> QED BY <1>5, <3>2, <4>1
    <3> QED BY <3>1, <3>2
  <2> QED BY <1>5, <2>1
<1>7. P = [n \in 0..N |-> IF n = 0 THEN <<>> ELSE P[n - 1] \o PressedOf(s[n])]
  BY <1>6
<1> HIDE DEF P
<1>p. \A n \in 0..N : P[n] = IF n = 0 THEN <<>> ELSE P[n - 1] \o PressedOf(s[n])
  BY <1>7
<1> DEFINE A == {n \in 0..N : P[n] = h[n]}
<1>8. 0 \in A
  BY <1>1, <1>5, <1>7
<1>9. ASSUME NEW n \in 0..(N - 1), n \in A PROVE n + 1 \in A
  <2>1. n + 1 \in 1..N /\ (n + 1) - 1 = n /\ n + 1 \in 0..N
    BY <1>1
  <2>2. P[n + 1] = P[n] \o PressedOf(s[n + 1])
    <3>1. n + 1 # 0
      BY <2>1
    <3> QED BY <1>p, <2>1, <3>1
  <2>3. h[n + 1] = h[n] \o PressedOf(s[n + 1])
    BY <1>5, <2>1
  <2> QED BY <1>9, <2>1, <2>2, <2>3
<1> HIDE DEF A
<1>10. \A n \in 0..N : n \in A
  BY <1>1, <1>8, <1>9, UpTo
<1>11. P[N] = h[N]
  BY <1>1, <1>10 DEF A
<1> QED BY <1>3, <1>5, <1>11 DEF N

(* The sums of numbers, one by one.                                       *)
LEMMA SumIs ==
  ASSUME NEW N \in Nat, NEW turns, \A n \in 1..N : turns[n] \in Int
  PROVE  \E h \in [0..N -> Int] : h[0] = 0 /\ \A n \in 1..N : h[n] = h[n - 1] + turns[n]
<1> DEFINE L == Int
           none == 0
           adds == [n \in 1..N |-> [x \in L |-> x + turns[n]]]
<1>1. none \in L
  OBVIOUS
<1>2. adds \in [1..N -> [L -> L]]
  OBVIOUS
<1>3. \A n \in 1..N, x \in L : adds[n][x] = x + turns[n]
  OBVIOUS
<1> HIDE DEF adds, L, none
<1>4. \E h \in [0..N -> L] : h[0] = none /\ \A n \in 1..N : h[n] = adds[n][h[n - 1]]
  BY <1>1, <1>2, Recursion
<1>5. PICK h \in [0..N -> L] : h[0] = none /\ \A n \in 1..N : h[n] = adds[n][h[n - 1]]
  BY <1>4
<1>6. \A n \in 1..N : h[n] = h[n - 1] + turns[n]
  <2>1. \A n \in 1..N : h[n - 1] \in L
    OBVIOUS
  <2> QED BY <1>3, <1>5, <2>1
<1> QED BY <1>5, <1>6 DEF L, none

LEMMA TurnedIs ==
  ASSUME NEW S, IsEvents(S), NEW s \in Seq(S), NEW axis \in Axes
  PROVE  \E h : /\ h \in [0..Len(s) -> Int] /\ h[0] = 0
                /\ \A n \in 1..Len(s) : h[n] = h[n - 1] + TurnOf(s[n], axis)
                /\ Turned(s, axis) = h[Len(s)]
<1> DEFINE N == Len(s)
           turns == [n \in 1..N |-> TurnOf(s[n], axis)]
           P == CHOOSE f : f = [n \in 0..N |-> IF n = 0 THEN 0 ELSE f[n - 1] + TurnOf(s[n], axis)]
<1>1. N \in Nat /\ \A n \in 1..N : s[n] \in S
  OBVIOUS
<1>2. \A n \in 1..N : TurnOf(s[n], axis) \in Int
  BY <1>1 DEF IsEvents
<1>3. Turned(s, axis) = P[N]
  BY DEF Turned
<1> HIDE DEF N
<1>4. PICK h \in [0..N -> Int] : h[0] = 0 /\ \A n \in 1..N : h[n] = h[n - 1] + turns[n]
  <2>1. \A n \in 1..N : turns[n] \in Int
    BY <1>2
  <2> HIDE DEF turns
  <2> QED BY <1>1, <2>1, SumIs
<1>6. h[0] = 0 /\ h \in [0..N -> Int]
  BY <1>4
<1>7. \A n \in 1..N : h[n] = h[n - 1] + TurnOf(s[n], axis)
  BY <1>4
<1>8. h = [n \in 0..N |-> IF n = 0 THEN 0 ELSE h[n - 1] + TurnOf(s[n], axis)]
  BY <1>1, <1>6, <1>7
<1>9. P = [n \in 0..N |-> IF n = 0 THEN 0 ELSE P[n - 1] + TurnOf(s[n], axis)]
  BY <1>8
<1> HIDE DEF P
<1>p. \A n \in 0..N : P[n] = IF n = 0 THEN 0 ELSE P[n - 1] + TurnOf(s[n], axis)
  BY <1>9
<1> DEFINE A == {n \in 0..N : P[n] = h[n]}
<1>10. 0 \in A
  BY <1>1, <1>6, <1>9
<1>11. ASSUME NEW n \in 0..(N - 1), n \in A PROVE n + 1 \in A
  <2>1. n + 1 \in 1..N /\ (n + 1) - 1 = n /\ n + 1 \in 0..N
    BY <1>1
  <2>2. P[n + 1] = P[n] + TurnOf(s[n + 1], axis)
    <3>1. n + 1 # 0
      BY <2>1
    <3> QED BY <1>p, <2>1, <3>1
  <2> QED BY <1>7, <1>11, <2>1, <2>2
<1> HIDE DEF A
<1>12. \A n \in 0..N : n \in A
  BY <1>1, <1>10, <1>11, UpTo
<1>13. P[N] = h[N]
  BY <1>1, <1>12 DEF A
<1> QED BY <1>3, <1>6, <1>7, <1>13 DEF N

LEMMA Joining ==
  ASSUME NEW S
  PROVE  \A a, b, c \in Seq(S) : (a \o b) \o c = a \o (b \o c)
<1> SUFFICES ASSUME NEW a \in Seq(S), NEW b \in Seq(S), NEW c \in Seq(S)
             PROVE  (a \o b) \o c = a \o (b \o c)
  OBVIOUS
<1>1. /\ a \o b \in Seq(S) /\ b \o c \in Seq(S)
      /\ (a \o b) \o c \in Seq(S) /\ a \o (b \o c) \in Seq(S)
  OBVIOUS
<1>2. Len((a \o b) \o c) = Len(a \o (b \o c))
  OBVIOUS
<1>3. \A i \in 1..Len((a \o b) \o c) : ((a \o b) \o c)[i] = (a \o (b \o c))[i]
  OBVIOUS
<1> QED BY <1>1, <1>2, <1>3

(* What is pressed in the one and then in the other.                       *)
LEMMA PressedJoins ==
  ASSUME NEW S, IsEvents(S), NEW s \in Seq(S), NEW t \in Seq(S)
  PROVE  Pressed(s \o t) = Pressed(s) \o Pressed(t) /\ Pressed(s) \in Seq(S)
<1>j. \A a, b, c \in Seq(S) : (a \o b) \o c = a \o (b \o c)
  BY Joining
<1> DEFINE u == s \o t
           K == Len(s)
           N == Len(t)
<1>1. u \in Seq(S) /\ K \in Nat /\ N \in Nat /\ Len(u) = K + N
      /\ (\A i \in 1..K : u[i] = s[i]) /\ \A i \in 1..N : u[K + i] = t[i]
  BY Joined
<1> HIDE DEF u
<1>2. PICK f : /\ f \in [0..K -> Seq(S)] /\ f[0] = <<>>
               /\ \A n \in 1..K : f[n] = f[n - 1] \o PressedOf(s[n])
               /\ Pressed(s) = f[K]
  BY PressedIs
<1>3. PICK g : /\ g \in [0..N -> Seq(S)] /\ g[0] = <<>>
               /\ \A n \in 1..N : g[n] = g[n - 1] \o PressedOf(t[n])
               /\ Pressed(t) = g[N]
  BY PressedIs
<1>4. PICK h : /\ h \in [0..(K + N) -> Seq(S)] /\ h[0] = <<>>
               /\ \A n \in 1..(K + N) : h[n] = h[n - 1] \o PressedOf(u[n])
               /\ Pressed(u) = h[K + N]
  <2>1. \E h : /\ h \in [0..Len(u) -> Seq(S)] /\ h[0] = <<>>
               /\ \A n \in 1..Len(u) : h[n] = h[n - 1] \o PressedOf(u[n])
               /\ Pressed(u) = h[Len(u)]
    BY <1>1, PressedIs
  <2> QED BY <1>1, <2>1
<1>5. /\ \A n \in 1..K : s[n] \in S /\ PressedOf(s[n]) \in Seq(S)
      /\ \A n \in 1..N : t[n] \in S /\ PressedOf(t[n]) \in Seq(S)
  BY DEF IsEvents
<1> HIDE DEF K, N
<1> DEFINE A == {n \in 0..K : h[n] = f[n]}
           B == {n \in 0..N : h[K + n] = f[K] \o g[n]}
<1>6. h[K] = f[K]
  <2>1. 0 \in A
    BY <1>1, <1>2, <1>4
  <2>2. ASSUME NEW n \in 0..(K - 1), n \in A PROVE n + 1 \in A
    <3>1. n + 1 \in 1..K /\ n + 1 \in 1..(K + N) /\ (n + 1) - 1 = n /\ n + 1 \in 0..K
      BY <1>1
    <3>2. h[n + 1] = h[n] \o PressedOf(u[n + 1])
      BY <1>4, <3>1
    <3>3. f[n + 1] = f[n] \o PressedOf(s[n + 1])
      BY <1>2, <3>1
    <3>4. u[n + 1] = s[n + 1]
      BY <1>1, <3>1
    <3> QED BY <2>2, <3>1, <3>2, <3>3, <3>4
  <2> HIDE DEF A
  <2>3. \A n \in 0..K : n \in A
    BY <1>1, <2>1, <2>2, UpTo
  <2> QED BY <1>1, <2>3 DEF A
<1>7. h[K + N] = f[K] \o g[N]
  <2>0. f[K] \in Seq(S)
    BY <1>1, <1>2
  <2>1. 0 \in B
    <3>1. f[K] \o <<>> = f[K] /\ K + 0 = K /\ 0 \in 0..N
      BY <1>1, <2>0
    <3> QED BY <1>3, <1>6, <3>1
  <2>2. ASSUME NEW n \in 0..(N - 1), n \in B PROVE n + 1 \in B
    <3>1. n + 1 \in 1..N /\ K + (n + 1) \in 1..(K + N) /\ (n + 1) - 1 = n /\ n + 1 \in 0..N
          /\ (K + (n + 1)) - 1 = K + n /\ n \in 0..N
      BY <1>1
    <3>2. h[K + (n + 1)] = h[K + n] \o PressedOf(u[K + (n + 1)])
      BY <1>4, <3>1
    <3>3. g[n + 1] = g[n] \o PressedOf(t[n + 1])
      BY <1>3, <3>1
    <3>4. u[K + (n + 1)] = t[n + 1]
      BY <1>1, <3>1
    <3>5. h[K + n] = f[K] \o g[n]
      BY <2>2
    <3>6. g[n] \in Seq(S) /\ PressedOf(t[n + 1]) \in Seq(S)
      BY <1>3, <1>5, <3>1
    <3>7. (f[K] \o g[n]) \o PressedOf(t[n + 1]) = f[K] \o (g[n] \o PressedOf(t[n + 1]))
      BY <1>j, <2>0, <3>6
    <3>8. h[K + (n + 1)] = f[K] \o g[n + 1]
      BY <3>2, <3>3, <3>4, <3>5, <3>7
    <3> QED BY <3>1, <3>8
  <2> HIDE DEF B
  <2>3. \A n \in 0..N : n \in B
    BY <1>1, <2>1, <2>2, UpTo
  <2>4. N \in B
    BY <1>1, <2>3
  <2> QED BY <2>4 DEF B
<1>8. f[K] \in Seq(S)
  BY <1>1, <1>2
<1> QED BY <1>2, <1>3, <1>4, <1>7, <1>8 DEF u

(* Wheels turn in both by what they turn in each.                          *)
LEMMA TurnedJoins ==
  ASSUME NEW S, IsEvents(S), NEW s \in Seq(S), NEW t \in Seq(S), NEW axis \in Axes
  PROVE  /\ Turned(s \o t, axis) = Turned(s, axis) + Turned(t, axis)
         /\ Turned(s, axis) \in Int /\ Turned(t, axis) \in Int
<1> DEFINE u == s \o t
           K == Len(s)
           N == Len(t)
<1>1. u \in Seq(S) /\ K \in Nat /\ N \in Nat /\ Len(u) = K + N
      /\ (\A i \in 1..K : u[i] = s[i]) /\ \A i \in 1..N : u[K + i] = t[i]
  BY Joined
<1> HIDE DEF u
<1>2. PICK f : /\ f \in [0..K -> Int] /\ f[0] = 0
               /\ \A n \in 1..K : f[n] = f[n - 1] + TurnOf(s[n], axis)
               /\ Turned(s, axis) = f[K]
  BY TurnedIs
<1>3. PICK g : /\ g \in [0..N -> Int] /\ g[0] = 0
               /\ \A n \in 1..N : g[n] = g[n - 1] + TurnOf(t[n], axis)
               /\ Turned(t, axis) = g[N]
  BY TurnedIs
<1>4. PICK h : /\ h \in [0..(K + N) -> Int] /\ h[0] = 0
               /\ \A n \in 1..(K + N) : h[n] = h[n - 1] + TurnOf(u[n], axis)
               /\ Turned(u, axis) = h[K + N]
  <2>1. \E h : /\ h \in [0..Len(u) -> Int] /\ h[0] = 0
               /\ \A n \in 1..Len(u) : h[n] = h[n - 1] + TurnOf(u[n], axis)
               /\ Turned(u, axis) = h[Len(u)]
    BY <1>1, TurnedIs
  <2> QED BY <1>1, <2>1
<1>5. \A n \in 1..N : t[n] \in S /\ TurnOf(t[n], axis) \in Int
  BY DEF IsEvents
<1> HIDE DEF K, N
<1> DEFINE A == {n \in 0..K : h[n] = f[n]}
           B == {n \in 0..N : h[K + n] = f[K] + g[n]}
<1>6. h[K] = f[K]
  <2>1. 0 \in A
    BY <1>1, <1>2, <1>4
  <2>2. ASSUME NEW n \in 0..(K - 1), n \in A PROVE n + 1 \in A
    <3>1. n + 1 \in 1..K /\ n + 1 \in 1..(K + N) /\ (n + 1) - 1 = n /\ n + 1 \in 0..K
      BY <1>1
    <3>2. h[n + 1] = h[n] + TurnOf(u[n + 1], axis)
      BY <1>4, <3>1
    <3>3. f[n + 1] = f[n] + TurnOf(s[n + 1], axis)
      BY <1>2, <3>1
    <3>4. u[n + 1] = s[n + 1]
      BY <1>1, <3>1
    <3> QED BY <2>2, <3>1, <3>2, <3>3, <3>4
  <2> HIDE DEF A
  <2>3. \A n \in 0..K : n \in A
    BY <1>1, <2>1, <2>2, UpTo
  <2> QED BY <1>1, <2>3 DEF A
<1>7. h[K + N] = f[K] + g[N]
  <2>0. f[K] \in Int
    BY <1>1, <1>2
  <2>1. 0 \in B
    BY <1>1, <1>3, <1>6, <2>0
  <2>2. ASSUME NEW n \in 0..(N - 1), n \in B PROVE n + 1 \in B
    <3>1. n + 1 \in 1..N /\ K + (n + 1) \in 1..(K + N) /\ (n + 1) - 1 = n /\ n + 1 \in 0..N
          /\ (K + (n + 1)) - 1 = K + n /\ n \in 0..N
      BY <1>1
    <3>2. h[K + (n + 1)] = h[K + n] + TurnOf(u[K + (n + 1)], axis)
      BY <1>4, <3>1
    <3>3. g[n + 1] = g[n] + TurnOf(t[n + 1], axis)
      BY <1>3, <3>1
    <3>4. u[K + (n + 1)] = t[n + 1]
      BY <1>1, <3>1
    <3>5. h[K + n] = f[K] + g[n]
      BY <2>2
    <3>6. g[n] \in Int /\ TurnOf(t[n + 1], axis) \in Int
      BY <1>3, <1>5, <3>1
    <3>8. h[K + (n + 1)] = f[K] + g[n + 1]
      BY <2>0, <3>2, <3>3, <3>4, <3>5, <3>6
    <3> QED BY <3>1, <3>8
  <2> HIDE DEF B
  <2>3. \A n \in 0..N : n \in B
    BY <1>1, <2>1, <2>2, UpTo
  <2>4. N \in B
    BY <1>1, <2>3
  <2> QED BY <2>4 DEF B
<1>8. f[K] \in Int /\ g[N] \in Int
  BY <1>1, <1>2, <1>3
<1> QED BY <1>2, <1>3, <1>4, <1>7, <1>8 DEF u

(* What goes from device to device.                                        *)
DeviceEvents ==
  {ButtonEvent(b, s) : b \in Buttons, s \in States}
    \cup {KeyEvent(k, s) : k \in Positions, s \in States}
    \cup {Scroll(axis, q) : axis \in Axes, q \in Int} \cup Motion

LEMMA WholeTurns ==
  ASSUME NEW q \in Int, q % 4 = 0
  PROVE  4 * Notches(q) = q /\ 4 * (Abs(q) \div 4) = Abs(q) /\ Abs(q) \div 4 \in Nat
         /\ Notches(q) \in Int /\ Abs(q) \in Nat
<1>1. PICK k \in Int : q = 4 * k
  OBVIOUS
<1>2. CASE k >= 0
  <2>1. Abs(q) = 4 * k /\ (4 * k + 2) \div 4 = k /\ (4 * k) \div 4 = k
    BY <1>1, <1>2 DEF Abs
  <2> QED BY <1>1, <1>2, <2>1 DEF Notches, Sign, Abs
<1>3. CASE k < 0
  <2> DEFINE m == -k
  <2>1. m \in Nat /\ Abs(q) = 4 * m /\ (4 * m + 2) \div 4 = m /\ (4 * m) \div 4 = m
    BY <1>1, <1>3 DEF Abs
  <2> QED BY <1>1, <1>3, <2>1 DEF Notches, Sign, Abs
<1> QED BY <1>1, <1>2, <1>3

LEMMA EventsAre ==
  /\ IsEvents(DeviceEvents)
  /\ \A e \in DeviceEvents :
       \/ e.kind = "button" /\ e.button \in Buttons /\ e.state \in States
          /\ e = ButtonEvent(e.button, e.state)
       \/ e.kind = "key" /\ e.key \in Positions /\ e.state \in States
          /\ e = KeyEvent(e.key, e.state)
       \/ e.kind = "scroll" /\ e.axis \in Axes /\ e.quarters \in Int
          /\ e = Scroll(e.axis, e.quarters)
       \/ e.kind = "move" /\ e.by \in Motions /\ e.full \in BOOLEAN /\ e = Move(e.by, e.full)
<1>1. ASSUME NEW e \in DeviceEvents
      PROVE \/ e.kind = "button" /\ e.button \in Buttons /\ e.state \in States
               /\ e = ButtonEvent(e.button, e.state)
            \/ e.kind = "key" /\ e.key \in Positions /\ e.state \in States
               /\ e = KeyEvent(e.key, e.state)
            \/ e.kind = "scroll" /\ e.axis \in Axes /\ e.quarters \in Int
               /\ e = Scroll(e.axis, e.quarters)
            \/ e.kind = "move" /\ e.by \in Motions /\ e.full \in BOOLEAN
               /\ e = Move(e.by, e.full)
  BY DEF DeviceEvents, Motion, ButtonEvent, KeyEvent, Scroll, Move
<1>2. ASSUME NEW e \in DeviceEvents, NEW axis \in Axes
      PROVE  PressedOf(e) \in Seq(DeviceEvents) /\ TurnOf(e, axis) \in Int
  <2>1. TurnOf(e, axis) \in Int
    BY <1>1 DEF TurnOf
  <2>2. CASE e.kind = "scroll"
    BY <2>1, <2>2 DEF PressedOf
  <2>3. CASE e.kind = "move"
    <3>1. PICK v \in Motions : \E full \in BOOLEAN : e = Move(v, full)
      BY <1>1, <2>3
    <3>2. PICK full \in BOOLEAN : e = Move(v, full)
      BY <3>1
    <3> DEFINE yes == TRUE
    <3>3. PressedOf(e) = <<[e EXCEPT !.full = yes]>>
      BY <2>3 DEF PressedOf
    <3>4. yes \in BOOLEAN
      OBVIOUS
    <3> HIDE DEF yes
    <3>5. [e EXCEPT !.full = yes] = Move(v, yes)
      BY <3>2 DEF Move
    <3>6. Move(v, yes) \in DeviceEvents
      BY <3>4 DEF DeviceEvents, Motion
    <3> QED BY <2>1, <3>3, <3>5, <3>6
  <2>4. CASE e.kind \notin {"scroll", "move"}
    <3>1. PressedOf(e) = <<e>>
      BY <2>4 DEF PressedOf
    <3> QED BY <2>1, <3>1
  <2> QED BY <2>2, <2>3, <2>4
<1> QED BY <1>1, <1>2 DEF IsEvents, Axes

LEMMA OneIs ==
  ASSUME NEW S, IsEvents(S)
  PROVE  /\ Pressed(<<>>) = <<>> /\ \A axis \in Axes : Turned(<<>>, axis) = 0
         /\ \A e \in S : /\ Pressed(<<e>>) = PressedOf(e)
                         /\ \A axis \in Axes : Turned(<<e>>, axis) = TurnOf(e, axis)
<1>1. <<>> \in Seq(S) /\ Len(<<>>) = 0
  OBVIOUS
<1>2. Pressed(<<>>) = <<>>
  BY <1>1, PressedIs
<1>3. ASSUME NEW axis \in Axes PROVE Turned(<<>>, axis) = 0
  BY <1>1, TurnedIs
<1>4. ASSUME NEW e \in S PROVE Pressed(<<e>>) = PressedOf(e)
  <2> DEFINE s == <<e>>
  <2>1. s \in Seq(S) /\ Len(s) = 1 /\ s[1] = e
    OBVIOUS
  <2> HIDE DEF s
  <2>2. PICK h : /\ h[0] = <<>> /\ \A n \in 1..Len(s) : h[n] = h[n - 1] \o PressedOf(s[n])
                 /\ Pressed(s) = h[Len(s)]
    BY <2>1, PressedIs
  <2>3. h[1] = h[0] \o PressedOf(e)
    <3>1. 1 \in 1..Len(s) /\ 1 - 1 = 0
      BY <2>1
    <3> QED BY <2>1, <2>2, <3>1
  <2>4. PressedOf(e) \in Seq(S)
    BY DEF IsEvents
  <2>5. <<>> \o PressedOf(e) = PressedOf(e)
    BY <2>4
  <2> QED BY <2>1, <2>2, <2>3, <2>5 DEF s
<1>5. ASSUME NEW e \in S, NEW axis \in Axes PROVE Turned(<<e>>, axis) = TurnOf(e, axis)
  <2> DEFINE s == <<e>>
  <2>1. s \in Seq(S) /\ Len(s) = 1 /\ s[1] = e
    OBVIOUS
  <2> HIDE DEF s
  <2>2. PICK h : /\ h[0] = 0 /\ \A n \in 1..Len(s) : h[n] = h[n - 1] + TurnOf(s[n], axis)
                 /\ Turned(s, axis) = h[Len(s)]
    BY <2>1, TurnedIs
  <2>3. h[1] = h[0] + TurnOf(e, axis)
    <3>1. 1 \in 1..Len(s) /\ 1 - 1 = 0
      BY <2>1
    <3> QED BY <2>1, <2>2, <3>1
  <2>4. TurnOf(e, axis) \in Int
    BY DEF IsEvents
  <2> QED BY <2>1, <2>2, <2>3, <2>4 DEF s
<1> QED BY <1>2, <1>3, <1>4, <1>5

LEMMA FlattenOne ==
  ASSUME NEW T, NEW x \in Seq(T)
  PROVE  FlattenSeq(<<x>>) = x
<1> DEFINE seqs == <<x>>
           F == CHOOSE f : f = [i \in 1..1 |-> IF i = 1 THEN seqs[i] ELSE f[i - 1] \o seqs[i]]
           g == [i \in 1..1 |-> x]
<1>1. Len(seqs) = 1 /\ seqs[1] = x
  OBVIOUS
<1>2. FlattenSeq(seqs) = F[1]
  BY <1>1 DEF FlattenSeq
<1> HIDE DEF seqs
<1>3. g = [i \in 1..1 |-> IF i = 1 THEN seqs[i] ELSE g[i - 1] \o seqs[i]]
  BY <1>1
<1> HIDE DEF g
<1>4. F = [i \in 1..1 |-> IF i = 1 THEN seqs[i] ELSE F[i - 1] \o seqs[i]]
  BY <1>3
<1> HIDE DEF F
<1>5. F[1] = seqs[1]
  BY <1>4
<1> QED BY <1>1, <1>2, <1>5 DEF seqs

(* Two sequences that say the same of buttons, keys, motion and wheels.    *)
Agree(s, t) == Pressed(s) = Pressed(t) /\ \A axis \in Axes : Turned(s, axis) = Turned(t, axis)

(* A button has its number of X to itself.                                 *)
LEMMA XButtonIs ==
  ASSUME NEW b \in Buttons, NEW state
  PROVE  XButtonEvent([detail |-> XButton[b], state |-> state]) = <<ButtonEvent(b, state)>>
<1> DEFINE r == [detail |-> XButton[b], state |-> state]
           bs == {c \in Buttons : XButton[c] = r.detail}
<1>1. \A c, d \in Buttons : XButton[c] = XButton[d] => c = d
  BY DEF XButton, Buttons
<1>2. bs = {b}
  BY <1>1
<1> HIDE DEF bs
<1>3. (CHOOSE c \in bs : TRUE) = b /\ bs # {}
  BY <1>2
<1> QED BY <1>3 DEF XButtonEvent, bs

(* A key is the only one that bears its letter.                            *)
LEMMA KeyOfItsLetter ==
  ASSUME NEW key \in Positions, NEW letters, letters[key] = Standard[key], NEW state
  PROVE  WindowsKeyEvent(letters, KeyEvent(key, state)) = <<KeyEvent(key, state)>>
<1>1. \A p \in Positions : Standard[p] = Standard[key] => p = key
  BY DevicesAssumption
<1>2. KeyOfLetter(Standard[key]) = key
  BY <1>1 DEF KeyOfLetter
<1>3. KeyEvent(key, state).key = key /\ KeyEvent(key, state).state = state
  BY DEF KeyEvent
<1> QED BY <1>2, <1>3 DEF WindowsKeyEvent

(* What a capture loop reports one to one.                                 *)
LEMMA CapturedAlone ==
  ASSUME NEW a \in Actions, NEW kind \in {"windows", "macos", "x11"}, NEW letters,
         KnownTo(kind, a), Whole(a), ~(kind = "x11" /\ a.kind = "scroll"), Turns \subseteq Int,
         kind = "windows" /\ a.kind = "key" => letters[a.key] = Standard[a.key]
  PROVE  Captured(kind, letters, a) = <<a>>
<1>1. \/ a.kind = "button" /\ a.button \in Buttons /\ a.state \in States
         /\ a = ButtonEvent(a.button, a.state)
      \/ a.kind = "key" /\ a.key \in Positions /\ a = KeyEvent(a.key, a.state)
      \/ a.kind = "scroll" /\ a.quarters \in Int /\ a = Scroll(a.axis, a.quarters)
  BY DEF Actions, ButtonEvent, KeyEvent, Scroll
<1>2. CASE kind = "windows"
  <2>1. CASE a.kind = "button" /\ a.button \in {"back", "forward"}
    <3>1. XButtonFromData(IF a.button = "back" THEN 1 ELSE 2) = a.button
      BY <2>1 DEF XButtonFromData
    <3> QED BY <1>1, <1>2, <2>1, <3>1 DEF Captured, WindowsCapturedInput
  <2>2. CASE a.kind = "key"
    <3>1. WindowsKeyEvent(letters, a) = <<a>>
      BY <1>1, <1>2, <2>2, KeyOfItsLetter
    <3> QED BY <1>2, <2>2, <3>1 DEF Captured, WindowsCapturedInput
  <2>3. CASE a.kind # "key" /\ ~(a.kind = "button" /\ a.button \in {"back", "forward"})
    BY <1>2, <2>3 DEF Captured, WindowsCapturedInput
  <2> QED BY <2>1, <2>2, <2>3
<1>3. CASE kind = "macos"
  <2> DEFINE R == MacReports(a)
             C == [i \in DOMAIN R |-> MacCapturedInput(R[i])]
  <2>1. Captured(kind, letters, a) = FlattenSeq(C)
    BY <1>3 DEF Captured
  <2>2. /\ R = <<R[1]>> /\ MacCapturedInput(R[1]) = <<a>>
    <3>1. CASE a.kind = "button"
      <4> DEFINE type == IF a.button \in {"left", "right"} THEN a.button ELSE "other"
                 r == [type |-> type, state |-> a.state]
      <4>1. R = <<r>>
        BY <3>1 DEF MacReports
      <4>2. a.button \in {"left", "right", "middle"}
        BY <1>3, <3>1 DEF KnownTo
      <4>3. (IF type = "other" THEN "middle" ELSE type) = a.button
        BY <4>2
      <4>4. "type" \in DOMAIN r /\ r.type = type /\ r.state = a.state
        OBVIOUS
      <4> HIDE DEF r, type
      <4>5. MacCapturedInput(r) = <<ButtonEvent(a.button, a.state)>>
        BY <4>3, <4>4 DEF MacCapturedInput
      <4> QED BY <1>1, <3>1, <4>1, <4>5
    <3>2. CASE a.kind = "scroll"
      <4>1. R = <<a>>
        BY <3>2 DEF MacReports
      <4>2. 4 * Notches(a.quarters) = a.quarters
        BY <1>1, <3>2, WholeTurns DEF Whole
      <4>3. "type" \notin DOMAIN a
        BY <1>1, <3>2 DEF Scroll
      <4>4. MacCapturedInput(a) = <<Scroll(a.axis, a.quarters)>>
        BY <3>2, <4>2, <4>3 DEF MacCapturedInput
      <4> QED BY <1>1, <3>2, <4>1, <4>4
    <3>3. CASE a.kind = "key"
      <4>1. R = <<a>>
        BY <3>3 DEF MacReports
      <4>3. "type" \notin DOMAIN a
        BY <1>1, <3>3 DEF KeyEvent
      <4>4. MacCapturedInput(a) = <<a>>
        BY <3>3, <4>3 DEF MacCapturedInput
      <4> QED BY <4>1, <4>4
    <3> QED BY <1>1, <3>1, <3>2, <3>3
  <2> HIDE DEF R
  <2>3. C = <<<<a>>>>
    BY <2>2
  <2> QED BY <2>1, <2>3, <<a>> \in Seq({a}), FlattenOne
<1>4. CASE kind = "x11"
  <2> DEFINE R == XReports(a)
             C == [i \in DOMAIN R |-> XCaptured(R[i])]
  <2>1. Captured(kind, letters, a) = FlattenSeq(C)
    BY <1>4 DEF Captured
  <2>2. /\ R = <<R[1]>> /\ XCaptured(R[1]) = <<a>>
    <3>1. CASE a.kind = "button"
      <4> DEFINE r == [detail |-> XButton[a.button], state |-> a.state]
      <4>1. R = <<r>>
        BY <3>1 DEF XReports
      <4>2. XCaptured(r) = XButtonEvent(r)
        BY DEF XCaptured
      <4>3. XButtonEvent(r) = <<ButtonEvent(a.button, a.state)>>
        BY <1>1, <3>1, XButtonIs
      <4> QED BY <1>1, <3>1, <4>1, <4>2, <4>3
    <3>2. CASE a.kind = "key"
      <4>1. R = <<a>>
        BY <3>2 DEF XReports
      <4>2. "detail" \notin DOMAIN a
        BY <1>1, <3>2 DEF KeyEvent
      <4> QED BY <4>1, <4>2 DEF XCaptured
    <3> QED BY <1>1, <1>4, <3>1, <3>2
  <2> HIDE DEF R
  <2>3. C = <<<<a>>>>
    BY <2>2
  <2> QED BY <2>1, <2>3, <<a>> \in Seq({a}), FlattenOne
<1> QED BY <1>2, <1>3, <1>4

(* A wheel of X: a press and a release for each notch.                     *)
LEMMA XWheelCaptured ==
  ASSUME NEW a \in Actions, a.kind = "scroll", Whole(a), Turns \subseteq Int, NEW letters
  PROVE  LET t == Scroll(a.axis, 4 * Sign(a.quarters))
         IN  /\ Captured("x11", letters, a) \in Seq({t})
             /\ Agree(Captured("x11", letters, a), <<a>>)
             /\ t \in DeviceEvents /\ a.quarters # 0 /\ a \in DeviceEvents
<1> DEFINE q == a.quarters
           K == Abs(q) \div 4
           t == Scroll(a.axis, 4 * Sign(q))
           R == XReports(a)
           C == [i \in DOMAIN R |-> XCaptured(R[i])]
           D == DeviceEvents
<1>1. q \in Int \ {0} /\ q % 4 = 0 /\ a = Scroll(a.axis, q) /\ a.axis \in Axes /\ a \in D
  BY DEF Actions, ButtonEvent, KeyEvent, Scroll, Whole, DeviceEvents
<1>2. K \in Nat /\ 4 * K = Abs(q)
  BY <1>1, WholeTurns
<1> HIDE DEF K
<1>3. t \in D /\ IsEvents(D)
  <2>1. 4 * Sign(q) \in Int
    BY DEF Sign
  <2> QED BY <1>1, <2>1, EventsAre DEF DeviceEvents
<1>4. XWheel(a.axis, q) \in 4..7
      /\ \A state : XButtonEvent([detail |-> XWheel(a.axis, q), state |-> state])
                     = IF state = "pressed" THEN <<t>> ELSE <<>>
  <2> DEFINE w == XWheel(a.axis, q)
  <2>1. w = (IF a.axis = "y" THEN IF q > 0 THEN 4 ELSE 5 ELSE IF q < 0 THEN 6 ELSE 7)
    BY DEF XWheel
  <2>2. ASSUME NEW state
        PROVE  XButtonEvent([detail |-> w, state |-> state])
                 = IF state = "pressed" THEN <<t>> ELSE <<>>
    <3> DEFINE r == [detail |-> w, state |-> state]
    <3>1. {b \in Buttons : XButton[b] = r.detail} = {}
      BY <2>1 DEF XButton, Buttons
    <3>2. r.detail = w /\ r.state = state /\ w \in 4..7
      BY <2>1
    <3>3. t = CASE w = 4 -> Scroll("y", 4) [] w = 5 -> Scroll("y", -4)
                [] w = 6 -> Scroll("x", -4) [] w = 7 -> Scroll("x", 4)
      BY <1>1, <2>1 DEF Sign, Axes
    <3> HIDE DEF w, r, t
    <3> QED BY <3>1, <3>2, <3>3 DEF XButtonEvent, r
  <2> QED BY <2>1, <2>2
<1>5. /\ Len(R) = 2 * K /\ DOMAIN R = 1..(2 * K)
      /\ \A i \in 1..(2 * K) : R[i] = [detail |-> XWheel(a.axis, q),
                                      state |-> IF i % 2 = 1 THEN "pressed" ELSE "released"]
  <2>1. R = [n \in 1..(2 * K) |-> [detail |-> XWheel(a.axis, q),
                                 state |-> IF n % 2 = 1 THEN "pressed" ELSE "released"]]
    BY DEF XReports, K
  <2> HIDE DEF R
  <2> QED BY <1>2, <2>1
<1>7. Captured("x11", letters, a) = FlattenSeq(C)
  BY DEF Captured
<1> HIDE DEF R, t, q
<1>6. /\ Len(C) = 2 * K /\ C \in Seq(Seq({t}))
      /\ \A i \in 1..(2 * K) : C[i] = IF i % 2 = 1 THEN <<t>> ELSE <<>>
  <2>1. ASSUME NEW i \in 1..(2 * K) PROVE XCaptured(R[i]) = IF i % 2 = 1 THEN <<t>> ELSE <<>>
    <3>1. "detail" \in DOMAIN R[i]
      BY <1>5
    <3>2. XCaptured(R[i]) = XButtonEvent(R[i])
      BY <3>1 DEF XCaptured
    <3> QED BY <1>4, <1>5, <3>2
  <2>2. \A i \in 1..(2 * K) : C[i] = IF i % 2 = 1 THEN <<t>> ELSE <<>>
    BY <1>5, <2>1
  <2>3. C = [i \in 1..(2 * K) |-> C[i]]
    BY <1>5
  <2>5. \A i \in 1..(2 * K) : C[i] \in Seq({t})
    <3>1. <<t>> \in Seq({t}) /\ <<>> \in Seq({t})
      OBVIOUS
    <3> QED BY <2>2, <3>1
  <2> HIDE DEF C
  <2>4. 2 * K \in Nat
    BY <1>2
  <2> QED BY <2>2, <2>3, <2>4, <2>5
<1> HIDE DEF C
<1>8. PICK h : Gathered(h, C, {t})
  BY <1>6, GatheredIs
<1>9. Captured("x11", letters, a) = h[2 * K]
  BY <1>6, <1>7, <1>8, FlattenIs
<1>10. /\ h \in [0..(2 * K) -> Seq({t})] /\ h[0] = <<>>
       /\ \A n \in 1..(2 * K) : h[n] = h[n - 1] \o C[n]
  BY <1>6, <1>8 DEF Gathered
<1>11. \A s \in Seq({t}) : s \in Seq(D)
  BY <1>3
<1> DEFINE turn(m, axis) == IF axis # a.axis THEN 0 ELSE IF q > 0 THEN 4 * m ELSE -(4 * m)
           S == {m \in 0..K : /\ Pressed(h[2 * m]) = <<>>
                              /\ \A axis \in Axes : Turned(h[2 * m], axis) = turn(m, axis)}
<1>12. /\ Pressed(<<>>) = <<>> /\ \A axis \in Axes : Turned(<<>>, axis) = 0
       /\ Pressed(<<t>>) = PressedOf(t) /\ Pressed(<<a>>) = PressedOf(a)
       /\ \A axis \in Axes : /\ Turned(<<t>>, axis) = TurnOf(t, axis)
                             /\ Turned(<<a>>, axis) = TurnOf(a, axis)
  BY <1>1, <1>3, OneIs
<1>13. /\ PressedOf(t) = <<>> /\ PressedOf(a) = <<>>
       /\ \A axis \in Axes :
            /\ TurnOf(t, axis) = IF axis # a.axis THEN 0 ELSE IF q > 0 THEN 4 ELSE -4
            /\ TurnOf(a, axis) = IF axis # a.axis THEN 0 ELSE q
  BY <1>1 DEF PressedOf, TurnOf, t, Scroll, Sign, q
<1>14. 0 \in S
  BY <1>2, <1>10, <1>12
<1>15. ASSUME NEW m \in 0..(K - 1), m \in S PROVE m + 1 \in S
  <2> DEFINE n == 2 * m
  <2>0. m \in Nat /\ m + 1 \in 0..K
    BY <1>2
  <2>1. /\ n \in 0..(2 * K) /\ n + 1 \in 1..(2 * K) /\ n + 2 \in 1..(2 * K)
        /\ (n + 1) - 1 = n /\ (n + 2) - 1 = n + 1 /\ 2 * (m + 1) = n + 2 /\ m + 1 \in 0..K
        /\ (n + 1) % 2 = 1 /\ (n + 2) % 2 = 0
    BY ONLY <1>2, <2>0
  <2>2. C[n + 1] = <<t>> /\ C[n + 2] = <<>>
    BY <1>6, <2>1
  <2> HIDE DEF n
  <2>3. h[n + 1] = h[n] \o <<t>> /\ h[n + 2] = h[n + 1] \o <<>> /\ h[n] \in Seq({t})
    BY <1>10, <2>1, <2>2
  <2> DEFINE b == h[n]
             c == <<t>>
  <2>4. h[n + 2] = b \o c /\ b \in Seq(D) /\ c \in Seq(D)
    BY <1>3, <1>11, <2>3
  <2> HIDE DEF b, c
  <2>5. Pressed(b \o c) = Pressed(b) \o Pressed(c)
    BY <1>3, <2>4, PressedJoins
  <2>6. \A axis \in Axes : Turned(b \o c, axis) = Turned(b, axis) + Turned(c, axis)
    BY <1>3, <2>4, TurnedJoins
  <2>7. Pressed(b) = <<>> /\ \A axis \in Axes : Turned(b, axis) = turn(m, axis)
    BY <1>15 DEF b, n
  <2>8. Pressed(c) = <<>> /\ \A axis \in Axes :
          Turned(c, axis) = IF axis # a.axis THEN 0 ELSE IF q > 0 THEN 4 ELSE -4
    BY <1>12, <1>13 DEF c
  <2>9. Pressed(h[n + 2]) = <<>>
    BY <2>4, <2>5, <2>7, <2>8
  <2>10. ASSUME NEW axis \in Axes PROVE Turned(h[n + 2], axis) = turn(m + 1, axis)
    BY <2>1, <2>4, <2>6, <2>7, <2>8
  <2> QED BY <2>1, <2>9, <2>10
<1> HIDE DEF S
<1>16. \A m \in 0..K : m \in S
  BY <1>2, <1>14, <1>15, UpTo
<1>17. K \in S
  BY <1>2, <1>16
<1>18. /\ Pressed(h[2 * K]) = <<>>
       /\ \A axis \in Axes : Turned(h[2 * K], axis) = IF axis # a.axis THEN 0 ELSE q
  <2>1. Pressed(h[2 * K]) = <<>> /\ \A axis \in Axes : Turned(h[2 * K], axis) = turn(K, axis)
    BY <1>17 DEF S
  <2>2. \A axis \in Axes : turn(K, axis) = IF axis # a.axis THEN 0 ELSE q
    BY <1>1, <1>2 DEF Abs
  <2> QED BY <2>1, <2>2
<1>19. h[2 * K] \in Seq({t})
  BY <1>2, <1>10
<1>20. Agree(h[2 * K], <<a>>)
  BY <1>12, <1>13, <1>18 DEF Agree
<1> QED BY <1>1, <1>3, <1>9, <1>19, <1>20 DEF t, q

(* What the injector of a target can be given: buttons it knows, whole     *)
(* notches, on X no more than it presses in one go.                        *)
Sendable(kind) ==
  {e \in DeviceEvents :
     /\ KnownTo(kind, e) /\ Whole(e)
     /\ e.kind = "scroll" => e.quarters # 0 /\ (kind = "x11" => Abs(e.quarters) <= 1020)}

InjectedBy(kind, e, read) ==
  CASE kind = "windows" -> WindowsInjected(e)
    [] kind = "macos" -> MacInjected(e)
    [] kind = "x11" -> XInjected(e, read)

LEMMA InjectedAsIs ==
  ASSUME NEW kind \in {"windows", "macos", "x11"}, NEW e \in Sendable(kind), NEW read,
         kind = "x11" /\ e.kind = "key" => read = Standard,
         \A p, q \in Positions : Standard[p] = Standard[q] => p = q
  PROVE  InjectedBy(kind, e, read) = <<e>>
<1>1. e \in DeviceEvents /\ KnownTo(kind, e) /\ Whole(e)
      /\ (e.kind = "scroll" => e.quarters # 0 /\ (kind = "x11" => Abs(e.quarters) <= 1020))
  BY DEF Sendable
<1>2. CASE e.kind = "button"
  <2>1. e.button \in Buttons /\ e = ButtonEvent(e.button, e.state)
    BY <1>1, <1>2, EventsAre
  <2>2. CASE kind = "windows"
    BY <1>2, <2>2 DEF InjectedBy, WindowsInjected
  <2>3. CASE kind = "macos"
    <3>1. e.button \in {"left", "right", "middle"}
      BY <1>1, <1>2, <2>3 DEF KnownTo
    <3>2. (IF e.button \in {"left", "right"} THEN e.button ELSE "middle") = e.button
      BY <3>1
    <3> QED BY <1>2, <2>1, <2>3, <3>2 DEF InjectedBy, MacInjected
  <2>4. CASE kind = "x11"
    <3>1. XButtonEvent([detail |-> XButton[e.button], state |-> e.state])[1] = e
      BY <2>1, XButtonIs
    <3> QED BY <1>2, <2>4, <3>1 DEF InjectedBy, XInjected
  <2> QED BY <2>2, <2>3, <2>4
<1>3. CASE e.kind = "scroll"
  <2> DEFINE q == e.quarters
             n == Notches(q)
  <2>1. q \in Int \ {0} /\ e = Scroll(e.axis, q) /\ q % 4 = 0
    BY <1>1, <1>3, EventsAre DEF Whole
  <2>2. 4 * n = q /\ n \in Int
    BY <2>1, WholeTurns
  <2>3. CASE kind = "windows"
    BY <1>3, <2>1, <2>2, <2>3 DEF InjectedBy, WindowsInjected
  <2>4. CASE kind = "macos"
    BY <1>3, <2>1, <2>2, <2>4 DEF InjectedBy, MacInjected
  <2>5. CASE kind = "x11"
    <3>1. Abs(q) <= 1020
      BY <1>1, <1>3, <2>5
    <3> DEFINE k == IF Abs(n) > 255 THEN 255 ELSE Abs(n)
    <3>2. XScrolled(e) = IF n = 0 THEN <<>> ELSE <<Scroll(e.axis, 4 * Sign(n) * k)>>
      BY DEF XScrolled
    <3> HIDE DEF n, q
    <3>3. n # 0 /\ Abs(n) <= 255 /\ Abs(n) \in Nat
      BY <2>1, <2>2, <3>1 DEF Abs
    <3>4. k = Abs(n)
      BY <3>3
    <3>5. 4 * Sign(n) * Abs(n) = q
      BY <2>1, <2>2 DEF Sign, Abs
    <3> HIDE DEF k
    <3>6. XScrolled(e) = <<e>>
      BY <2>1, <3>2, <3>3, <3>4, <3>5
    <3> QED BY <1>3, <2>5, <3>6 DEF InjectedBy, XInjected
  <2> QED BY <2>3, <2>4, <2>5
<1>4. CASE e.kind = "key"
  <2>1. e.key \in Positions /\ e = KeyEvent(e.key, e.state)
    BY <1>1, <1>4, EventsAre
  <2>2. CASE kind = "x11"
    <3> DEFINE bearers == {p \in Positions : read[p] = Keysym(e.key)}
    <3>1. bearers = {e.key}
      BY <1>4, <2>1, <2>2 DEF Keysym
    <3>2. XKeycode(read, e.key) = e.key
      <4>1. XKeycode(read, e.key) = IF bearers = {} THEN e.key ELSE CHOOSE p \in bearers : TRUE
        BY DEF XKeycode
      <4> HIDE DEF bearers
      <4> QED BY <3>1, <4>1
    <3> QED BY <1>4, <2>1, <2>2, <3>2 DEF InjectedBy, XInjected
  <2>3. CASE kind # "x11"
    BY <1>4, <2>3 DEF InjectedBy, WindowsInjected, MacInjected
  <2> QED BY <2>2, <2>3
<1>5. CASE e.kind = "move"
  BY <1>5 DEF InjectedBy, WindowsInjected, MacInjected, XInjected
<1> QED BY <1>1, <1>2, <1>3, <1>4, <1>5, EventsAre

(* No injection was refused and all the user did is common to both ends.   *)
Smooth == ~refused /\ target # "wayland" /\ \A i \in DOMAIN done : Common(done[i])

(* What was applied and what is on its way say what was done.              *)
OnItsWay ==
  /\ applied \in Seq(DeviceEvents) /\ net \in Seq(Sendable(target))
  /\ Agree(applied \o net, done)
  /\ \A i \in DOMAIN net : net[i].kind = "key" => \E j \in DOMAIN done : done[j].kind = "key"

DevicesInv ==
  /\ source \in SystemKinds /\ target \in TargetSystems
  /\ capturing => source # "wayland"
  /\ done \in Seq(DeviceEvents)
  /\ Smooth => OnItsWay

(* 255 notches at once are all a wheel of X turns by.                      *)
Reach == "x11" \in TargetSystems => \A q \in Turns : Abs(q) <= 1020

LEMMA InitDevices == DevicesInit => DevicesInv
<1> SUFFICES ASSUME DevicesInit PROVE DevicesInv
  OBVIOUS
<1>1. /\ source \in SystemKinds /\ target \in TargetSystems /\ ~capturing
      /\ done = <<>> /\ applied = <<>> /\ net = <<>>
  BY DevicesAssumption DEF DevicesInit
<1>2. applied \o net = done
  BY <1>1
<1> QED BY <1>1, <1>2 DEF DevicesInv, OnItsWay, Agree

LEMMA Sent ==
  ASSUME NEW kind, NEW s \in Seq(Sendable(kind))
  PROVE  s \in Seq(DeviceEvents)
BY DEF Sendable

(* Once it is not smooth it stays so.                                      *)
LEMMA SmoothBefore ==
  ASSUME DevicesInv, [DevicesNext]_devicesVars, Smooth'
  PROVE  Smooth
<1>1. done \in Seq(DeviceEvents)
  BY DEF DevicesInv
<1>2. target' = target /\ source' = source /\ keyboard' = keyboard
  BY DEF DevicesNext, devicesVars, computers, StartHooks, StartTap, StartRawEvents, Starts, CaptureEnds,
         Reroute, Act, Hand, Inject, XConnect, Refuse, Remap
<1>3. \/ done' = done
      \/ \E a : done' = Append(done, a)
  BY DEF DevicesNext, devicesVars, computers, StartHooks, StartTap, StartRawEvents, Starts, CaptureEnds,
         Reroute, Act, Hand, Inject, XConnect, Refuse, Remap
<1>4. DOMAIN done \subseteq DOMAIN done' /\ \A i \in DOMAIN done : done'[i] = done[i]
  BY <1>1, <1>3
<1>5. ~refused' => ~refused /\ (injector' = injector \/ injector = <<>>)
  BY DEF DevicesNext, devicesVars, computers, StartHooks, StartTap, StartRawEvents, Starts, CaptureEnds,
         Reroute, Act, Hand, Inject, XConnect, Refuse, Remap
<1>6. ~refused' /\ target' # "wayland" /\ \A i \in DOMAIN done' : Common(done[i])' 
  BY <1>4 DEF Smooth
<1>7. ASSUME NEW i \in DOMAIN done PROVE Common(done[i])
  <2>1. done'[i] = done[i] /\ i \in DOMAIN done'
    BY <1>4
  <2>2. StandardRead' => StandardRead
    BY <1>2, <1>5, <1>6 DEF StandardRead
  <2>3. Common(done[i])'
    BY <1>6, <2>1
  <2> QED BY <1>2, <2>1, <2>2, <2>3 DEF Common, KnownTo, Whole, MovesWhole, SameLetter
<1> QED BY <1>2, <1>5, <1>6, <1>7 DEF Smooth

(* What the user does while it is captured and routed is added to what is  *)
(* on its way.                                                             *)
LEMMA Adding ==
  ASSUME DevicesInv, Smooth, NEW a \in DeviceEvents, NEW s \in Seq(Sendable(target)),
         Agree(s, <<a>>), \A i \in DOMAIN s : s[i].kind = a.kind,
         applied' = applied, target' = target, done' = Append(done, a), net' = net \o s
  PROVE  OnItsWay'
<1> DEFINE D == DeviceEvents
           way == applied \o net
<1>1. /\ applied \in Seq(D) /\ net \in Seq(Sendable(target)) /\ done \in Seq(D)
      /\ Agree(way, done)
      /\ \A i \in DOMAIN net : net[i].kind = "key" => \E j \in DOMAIN done : done[j].kind = "key"
  BY DEF DevicesInv, OnItsWay
<1>2. IsEvents(D) /\ net \in Seq(D) /\ s \in Seq(D)
  BY <1>1, Sent, EventsAre
<1>3. way \in Seq(D)
  BY <1>1, <1>2
<1>4. applied' \o net' = way \o s
  <2>1. \A x, y, z \in Seq(D) : (x \o y) \o z = x \o (y \o z)
    BY ONLY Joining
  <2>2. applied \in Seq(D) /\ net \in Seq(D) /\ s \in Seq(D)
    BY <1>1, <1>2
  <2> HIDE DEF D
  <2>3. (applied \o net) \o s = applied \o (net \o s)
    BY <2>1, <2>2
  <2> QED BY <2>3
<1> HIDE DEF way
<1> DEFINE one == <<a>>
<1>5. done' = done \o one /\ one \in Seq(D)
  BY <1>1
<1>o. Agree(s, one)
  OBVIOUS
<1> HIDE DEF one
<1>6. Agree(way \o s, done \o one)
  <2>1. Pressed(way \o s) = Pressed(way) \o Pressed(s)
    BY <1>2, <1>3, PressedJoins
  <2>2. Pressed(done \o one) = Pressed(done) \o Pressed(one)
    BY <1>1, <1>2, <1>5, PressedJoins
  <2>3. ASSUME NEW axis \in Axes
        PROVE  Turned(way \o s, axis) = Turned(done \o one, axis)
    <3>1. Turned(way \o s, axis) = Turned(way, axis) + Turned(s, axis)
      BY <1>2, <1>3, TurnedJoins
    <3>2. Turned(done \o one, axis) = Turned(done, axis) + Turned(one, axis)
      BY <1>1, <1>2, <1>5, TurnedJoins
    <3> QED BY <1>1, <1>o, <3>1, <3>2 DEF Agree
  <2> QED BY <1>1, <1>o, <2>1, <2>2, <2>3 DEF Agree
<1>7. net' \in Seq(Sendable(target))
  BY <1>1
<1>8. ASSUME NEW i \in DOMAIN net', net'[i].kind = "key"
      PROVE  \E j \in DOMAIN done' : done'[j].kind = "key"
  <2>1. /\ Len(done') = Len(done) + 1 /\ DOMAIN done' = 1..(Len(done) + 1)
        /\ DOMAIN done = 1..Len(done) /\ Len(done) \in Nat
        /\ done'[Len(done) + 1] = a /\ \A j \in DOMAIN done : done'[j] = done[j]
    BY <1>1
  <2>2. CASE i \in DOMAIN net
    <3>1. net'[i] = net[i]
      BY <1>1, <2>2
    <3>2. PICK j \in DOMAIN done : done[j].kind = "key"
      BY <1>1, <1>8, <2>2, <3>1
    <3> QED BY <2>1, <3>2
  <2>3. CASE i \notin DOMAIN net
    <3>1. i - Len(net) \in DOMAIN s /\ net'[i] = s[i - Len(net)]
      BY <1>1, <2>3
    <3>2. a.kind = "key"
      BY <1>8, <3>1
    <3>3. Len(done) + 1 \in DOMAIN done'
      BY <2>1
    <3> QED BY <2>1, <3>2, <3>3
  <2> QED BY <2>2, <2>3
<1> QED BY <1>1, <1>4, <1>5, <1>6, <1>7, <1>8 DEF OnItsWay, Agree

(* What was done last is common to both ends.                              *)
LEMMA LastIsCommon ==
  ASSUME DevicesInv, NEW a \in DeviceEvents, done' = Append(done, a), Smooth',
         UNCHANGED <<source, target, keyboard>>
  PROVE  KnownTo(source, a) /\ KnownTo(target, a) /\ Whole(a) /\ MovesWhole(a) /\ SameLetter(a)
<1>1. PICK n : n \in DOMAIN done' /\ done'[n] = a
  <2>1. Len(done) \in Nat /\ DOMAIN done' = 1..(Len(done) + 1) /\ done'[Len(done) + 1] = a
    BY DEF DevicesInv
  <2>2. Len(done) + 1 \in DOMAIN done'
    BY <2>1
  <2> QED BY <2>1, <2>2
<1>2. Common(done[n])'
  BY <1>1 DEF Smooth
<1> QED BY <1>1, <1>2 DEF Common, KnownTo, Whole, MovesWhole, SameLetter

LEMMA ActKeeps ==
  ASSUME Reach, DevicesInv, Smooth, Smooth', NEW a \in Actions, Act(a)
  PROVE  OnItsWay'
<1>1. /\ applied' = applied /\ target' = target /\ source' = source /\ keyboard' = keyboard
      /\ source \in SystemKinds /\ target \in TargetSystems /\ done \in Seq(DeviceEvents)
      /\ (capturing => source # "wayland") /\ OnItsWay
  BY DEF Act, DevicesInv, computers
<1>2. Turns \subseteq Int
  BY DevicesAssumption
<1> DEFINE s == Captured(source, keyboard, a)
<1>3. CASE ~(capturing /\ routed)
  <2>1. net' = net /\ done' = done
    BY <1>3 DEF Act
  <2> QED BY <1>1, <2>1 DEF OnItsWay, Agree
<1>4. CASE capturing /\ routed
  <2>1. done' = Append(done, a)
    BY <1>4 DEF Act
  <2>2. net' = IF s = <<>> THEN net ELSE net \o s
    BY <1>4 DEF Act
  <2>3. a \in DeviceEvents
    BY <1>2 DEF Actions, DeviceEvents
  <2>4. KnownTo(source, a) /\ KnownTo(target, a) /\ Whole(a) /\ SameLetter(a)
    BY <1>1, <2>1, <2>3, LastIsCommon
  <2>5. source \in {"windows", "macos", "x11"}
    BY <1>1, <1>4 DEF SystemKinds
  <2>6. a.kind = "scroll" => a.quarters \in Turns \ {0} /\ a.quarters \in Int
    <3>1. \/ a.kind \in {"button", "key"}
          \/ \E axis \in Axes, q \in Turns \ {0} : a = Scroll(axis, q)
      BY DEF Actions, ButtonEvent, KeyEvent
    <3>2. \A axis \in Axes, q \in Turns \ {0} : Scroll(axis, q).quarters = q
      BY DEF Scroll
    <3> QED BY <1>2, <3>1, <3>2
  <2>7. /\ s \in Seq(Sendable(target)) /\ Agree(s, <<a>>)
        /\ \A i \in DOMAIN s : s[i].kind = a.kind
    <3>1. CASE source = "x11" /\ a.kind = "scroll"
      <4> DEFINE t == Scroll(a.axis, 4 * Sign(a.quarters))
      <4>1. s \in Seq({t}) /\ Agree(s, <<a>>) /\ t \in DeviceEvents
        BY <1>2, <2>4, <3>1, XWheelCaptured
      <4>2. t.kind = "scroll" /\ t.quarters \in {4, -4}
        BY DEF Scroll, Sign
      <4>3. t \in Sendable(target)
        <5>1. KnownTo(target, t) /\ Whole(t) /\ t.quarters # 0 /\ Abs(t.quarters) <= 1020
          BY <4>2 DEF KnownTo, Whole, Abs
        <5> HIDE DEF t
        <5> QED BY <4>1, <5>1 DEF Sendable
      <4> HIDE DEF t, s
      <4>4. s \in Seq(Sendable(target)) /\ \A i \in DOMAIN s : s[i] = t
        BY <4>1, <4>3
      <4> QED BY <3>1, <4>1, <4>2, <4>4
    <3>2. CASE ~(source = "x11" /\ a.kind = "scroll")
      <4>1. s = <<a>>
        BY <1>2, <2>4, <2>5, <3>2, CapturedAlone DEF SameLetter
      <4>2. a \in Sendable(target)
        BY <1>1, <2>3, <2>4, <2>6 DEF Sendable, Reach
      <4> HIDE DEF s
      <4> QED BY <4>1, <4>2 DEF Agree
    <3> QED BY <3>1, <3>2
  <2> HIDE DEF s
  <2>8. net' = net \o s
    <3>1. net \in Seq(Sendable(target))
      BY <1>1 DEF OnItsWay
    <3>2. net \o <<>> = net
      BY <3>1
    <3> QED BY <2>2, <3>2
  <2> QED BY <1>1, <2>1, <2>3, <2>7, <2>8, Adding
<1> QED BY <1>3, <1>4

LEMMA HandKeeps ==
  ASSUME DevicesInv, Smooth, Smooth', NEW a \in Motion, Hand(a)
  PROVE  OnItsWay'
<1>1. /\ applied' = applied /\ target' = target /\ source' = source /\ keyboard' = keyboard
      /\ source \in SystemKinds /\ done \in Seq(DeviceEvents)
      /\ (capturing => source # "wayland") /\ OnItsWay
  BY DEF Hand, DevicesInv, computers
<1> DEFINE s == MovedTo(source, a, Plus(cursor, a.by))
<1>2. net' = IF capturing /\ routed /\ s # <<>> THEN net \o s ELSE net
  BY DEF Hand
<1>3. done' = IF capturing /\ routed /\ (source = "windows" => last # <<>>)
              THEN Append(done, a) ELSE done
  BY DEF Hand
<1>4. a \in DeviceEvents /\ a.kind = "move"
  BY DEF DeviceEvents, Motion, Move
<1>5. CASE ~(capturing /\ routed)
  BY <1>1, <1>2, <1>3, <1>5 DEF OnItsWay, Agree
<1>6. CASE capturing /\ routed /\ source = "windows"
  <2>1. CASE last = <<>>
    <3>1. s = <<>>
      BY <1>6, <2>1 DEF MovedTo, WindowsMotion
    <3> HIDE DEF s
    <3>2. net' = net /\ done' = done
      BY <1>2, <1>3, <1>6, <2>1, <3>1
    <3> QED BY <1>1, <3>2 DEF OnItsWay, Agree
  <2>2. CASE last # <<>>
    <3>1. done' = Append(done, a)
      BY <1>3, <1>6, <2>2
    <3>2. MovesWhole(a)
      BY <1>1, <1>4, <3>1, LastIsCommon
    <3> QED BY <1>4, <1>6, <3>2 DEF MovesWhole
  <2> QED BY <2>1, <2>2
<1>7. CASE capturing /\ routed /\ source # "windows"
  <2>1. done' = Append(done, a)
    BY <1>3, <1>7
  <2>2. KnownTo(target, a) /\ MovesWhole(a)
    BY <1>1, <1>4, <2>1, LastIsCommon
  <2>3. source \in {"macos", "x11"}
    BY <1>1, <1>7 DEF SystemKinds
  <2> DEFINE yes == TRUE
             m == Move(a.by, yes)
  <2>4. s = <<m>>
    <3>1. CASE source = "macos"
      BY <3>1 DEF MovedTo
    <3>2. CASE source = "x11"
      <4>1. a.full
        BY <1>4, <2>2, <3>2 DEF MovesWhole
      <4> QED BY <3>2, <4>1 DEF MovedTo, XRawMotion
    <3> QED BY <2>3, <3>1, <3>2
  <2> HIDE DEF s
  <2>5. yes \in BOOLEAN
    OBVIOUS
  <2>6. PressedOf(a) = <<[a EXCEPT !.full = yes]>> /\ \A e : e.kind = "move" =>
          PressedOf(e) = <<[e EXCEPT !.full = yes]>>
    BY <1>4 DEF PressedOf
  <2> HIDE DEF yes
  <2>7. PICK v \in Motions, full \in BOOLEAN : a = Move(v, full)
    BY DEF Motion
  <2>8. m \in DeviceEvents /\ m.kind = "move"
    BY <2>5, <2>7 DEF DeviceEvents, Motion, Move
  <2>9. [a EXCEPT !.full = yes] = m /\ [m EXCEPT !.full = yes] = m
    BY <2>7 DEF Move
  <2>10. m \in Sendable(target)
    BY <2>8 DEF Sendable, KnownTo, Whole
  <2> HIDE DEF m
  <2>11. PressedOf(m) = PressedOf(a)
    BY <2>6, <2>8, <2>9
  <2>12. \A axis \in Axes : TurnOf(m, axis) = TurnOf(a, axis)
    BY <1>4, <2>8 DEF TurnOf
  <2>13. Agree(<<m>>, <<a>>)
    <3>1. IsEvents(DeviceEvents)
      BY EventsAre
    <3>2. \A e \in DeviceEvents : /\ Pressed(<<e>>) = PressedOf(e)
                                  /\ \A axis \in Axes : Turned(<<e>>, axis) = TurnOf(e, axis)
      BY <3>1, OneIs
    <3> QED BY <1>4, <2>8, <2>11, <2>12, <3>2 DEF Agree
  <2>14. net' = net \o s /\ s \in Seq(Sendable(target)) /\ \A i \in DOMAIN s : s[i].kind = a.kind
    BY <1>2, <1>4, <1>7, <2>4, <2>8, <2>10
  <2> QED BY <1>1, <1>4, <2>1, <2>4, <2>13, <2>14, Adding
<1> QED BY <1>5, <1>6, <1>7

(* What is injected is what was on its way.                                *)
LEMMA InjectKeeps ==
  ASSUME DevicesInv, Smooth, Inject
  PROVE  OnItsWay'
<1> DEFINE e == Head(net)
           D == DeviceEvents
<1>1. /\ applied \in Seq(D) /\ net \in Seq(Sendable(target)) /\ done \in Seq(D)
      /\ Agree(applied \o net, done)
      /\ \A i \in DOMAIN net : net[i].kind = "key" => \E j \in DOMAIN done : done[j].kind = "key"
      /\ target \in SystemKinds /\ target # "wayland" /\ net # <<>>
  BY DevicesAssumption DEF DevicesInv, OnItsWay, Inject, Smooth
<1>2. target \in {"windows", "macos", "x11"}
  BY <1>1 DEF SystemKinds
<1>3. applied' = applied \o InjectedBy(target, e, injector[1]) /\ net' = Tail(net)
      /\ UNCHANGED <<target, done>>
  BY <1>2 DEF Inject, InjectedBy, computers
<1>4. e \in Sendable(target) /\ e = net[1] /\ 1 \in DOMAIN net
  BY <1>1
<1>5. target = "x11" /\ e.kind = "key" => injector[1] = Standard
  <2> SUFFICES ASSUME target = "x11", e.kind = "key" PROVE injector[1] = Standard
    OBVIOUS
  <2>1. PICK j \in DOMAIN done : done[j].kind = "key"
    BY <1>1, <1>4
  <2>2. StandardRead
    BY <2>1 DEF Smooth, Common
  <2> QED BY <2>2 DEF StandardRead, Inject
<1>6. InjectedBy(target, e, injector[1]) = <<e>>
  BY <1>2, <1>4, <1>5, DevicesAssumption, InjectedAsIs
<1> DEFINE one == <<e>>
           rest == Tail(net)
<1>7. net \in Seq(D) /\ one \in Seq(D) /\ rest \in Seq(D) /\ net = one \o rest
  <2>1. net \in Seq(D)
    BY <1>1, Sent
  <2> QED BY <1>1, <2>1
<1> HIDE DEF e
<1>8. applied' = applied \o one /\ net' = rest
  BY <1>3, <1>6
<1> HIDE DEF one, rest
<1>9. applied' \o net' = applied \o net
  <2>1. \A x, y, z \in Seq(D) : (x \o y) \o z = x \o (y \o z)
    BY ONLY Joining
  <2>2. (applied \o one) \o rest = applied \o (one \o rest)
    BY <1>1, <1>7, <2>1
  <2> QED BY <1>7, <1>8, <2>2
<1>10. applied' \in Seq(D) /\ net' \in Seq(Sendable(target)) /\ DOMAIN net' \subseteq DOMAIN net
       /\ \A i \in DOMAIN net' : net'[i] = net[i + 1] /\ i + 1 \in DOMAIN net
  BY <1>1, <1>7, <1>8 DEF rest
<1> QED BY <1>1, <1>3, <1>9, <1>10 DEF OnItsWay, Agree

LEMMA NextDevices ==
  ASSUME Reach
  PROVE  DevicesInv /\ [DevicesNext]_devicesVars => DevicesInv'
<1> SUFFICES ASSUME DevicesInv, [DevicesNext]_devicesVars PROVE DevicesInv'
  OBVIOUS
<1>1. source' = source /\ target' = target
  BY DEF DevicesNext, devicesVars, computers, StartHooks, StartTap, StartRawEvents, Starts, CaptureEnds,
         Reroute, Act, Hand, Inject, XConnect, Refuse, Remap
<1>2. capturing' => capturing \/ source \in {"windows", "macos", "x11"}
  BY DEF DevicesNext, devicesVars, computers, StartHooks, StartTap, StartRawEvents, Starts, CaptureEnds,
         Reroute, Act, Hand, Inject, XConnect, Refuse, Remap
<1>3. done' = done \/ \E a \in DeviceEvents : done' = Append(done, a)
  <2>1. Turns \subseteq Int
    BY DevicesAssumption
  <2>2. Actions \subseteq DeviceEvents /\ Motion \subseteq DeviceEvents
    BY <2>1 DEF Actions, DeviceEvents
  <2> QED BY <2>2 DEF DevicesNext, devicesVars, computers, StartHooks, StartTap, StartRawEvents, Starts,
         CaptureEnds, Reroute, Act, Hand, Inject, XConnect, Refuse, Remap
<1>4. done' \in Seq(DeviceEvents)
  BY <1>3 DEF DevicesInv
<1>5. ASSUME Smooth' PROVE OnItsWay'
  <2>1. Smooth /\ OnItsWay
    BY <1>5, SmoothBefore DEF DevicesInv
  <2>2. CASE Inject
    BY <2>1, <2>2, InjectKeeps
  <2>3. ASSUME NEW a \in Actions, Act(a) PROVE OnItsWay'
    BY <1>5, <2>1, <2>3, ActKeeps
  <2>4. ASSUME NEW a \in Motion, Hand(a) PROVE OnItsWay'
    BY <1>5, <2>1, <2>4, HandKeeps
  <2>5. CASE Refuse
    BY <1>5, <2>5 DEF Refuse, Smooth
  <2>6. CASE \/ UNCHANGED devicesVars \/ StartHooks \/ StartTap \/ StartRawEvents \/ CaptureEnds
             \/ Reroute \/ XConnect \/ \E m \in Mappings : Remap(m)
    <3>1. applied' = applied /\ net' = net /\ done' = done
      BY <2>6 DEF devicesVars, computers, StartHooks, StartTap, StartRawEvents, Starts, CaptureEnds,
                  Reroute, XConnect, Remap
    <3> QED BY <1>1, <2>1, <3>1 DEF OnItsWay, Agree
  <2> QED BY <2>2, <2>3, <2>4, <2>5, <2>6 DEF DevicesNext
<1> QED BY <1>1, <1>2, <1>4, <1>5 DEF DevicesInv

(* Buttons, keys, wheels and motion arrive at the target as they were made *)
(* at the source, for any number of keys, layouts, turns and motions and   *)
(* any restarts, as far as a wheel of X turns at once and a Windows source *)
(* has its keys where the standard keyboard has them.                      *)
THEOREM InputIsKept ==
  ASSUME Reach
  PROVE  DevicesSpec => []ArrivesAsIs
<1>1. DevicesInv => ArrivesAsIs
  <2> SUFFICES ASSUME DevicesInv, net = <<>>, Smooth
               PROVE  /\ Pressed(applied) = Pressed(done)
                      /\ \A axis \in Axes : Turned(applied, axis) = Turned(done, axis)
    BY DEF ArrivesAsIs, Smooth
  <2>1. applied \in Seq(DeviceEvents) /\ Agree(applied \o net, done)
    BY DEF DevicesInv, OnItsWay
  <2>2. applied \o net = applied
    BY <2>1
  <2> QED BY <2>1, <2>2 DEF Agree
<1>2. DevicesInv /\ [DevicesNext]_devicesVars => DevicesInv'
  BY NextDevices
<1> QED BY <1>1, <1>2, InitDevices, PTL DEF DevicesSpec

-----------------------------------------------------------------------------
(* The command line: what macOS adds is not one's own, which needs an      *)
(* induction along the line.                                               *)

(* The function that the arguments that are one's own come from.           *)
LEMMA OwnIs ==
  ASSUME NEW line, line \in Seq(ToSet(line))
  PROVE  \E own :
           /\ OwnArguments(line) = own[Len(line)]
           /\ \A n \in 0..Len(line) :
                own[n] = IF n = 0 THEN <<>>
                         ELSE IF line[n] = SerialNumber THEN own[n - 1]
                              ELSE Append(own[n - 1], line[n])
<1> DEFINE N == Len(line)
           T == Seq(ToSet(line))
           first == <<>>
           step == [n \in 1..N |-> [s \in T |->
                     IF line[n] = SerialNumber THEN s ELSE Append(s, line[n])]]
<1>1. first \in T /\ N \in Nat
  OBVIOUS
<1>2. step \in [1..N -> [T -> T]]
  <2>1. \A n \in 1..N : \A s \in T : Append(s, line[n]) \in T
    OBVIOUS
  <2> HIDE DEF T
  <2> QED BY <2>1
<1>3. PICK f \in [0..N -> T] : f[0] = first /\ \A n \in 1..N : f[n] = step[n][f[n - 1]]
  <2> HIDE DEF T, first, step, N
  <2>1. Recursions(T, first, N, step) # {}
    BY ONLY <1>1, <1>2, RecursionIs
  <2> QED BY <2>1 DEF Recursions
<1> DEFINE Is(h) == h = [n \in 0..N |-> IF n = 0 THEN <<>>
                                       ELSE IF line[n] = SerialNumber THEN h[n - 1]
                                            ELSE Append(h[n - 1], line[n])]
           own == CHOOSE h : Is(h)
<1>4. \A n \in 0..N : f[n] = IF n = 0 THEN <<>>
                              ELSE IF line[n] = SerialNumber THEN f[n - 1]
                                   ELSE Append(f[n - 1], line[n])
  <2> TAKE n \in 0..N
  <2>1. CASE n = 0
    BY <1>3, <2>1
  <2>2. CASE n # 0
    <3>1. n \in 1..N /\ n - 1 \in 0..N
      BY <1>1, <2>2
    <3>2. f[n - 1] \in T /\ f[n] = step[n][f[n - 1]]
      BY <1>3, <3>1
    <3> HIDE DEF T
    <3> QED BY <2>2, <3>1, <3>2
  <2> QED BY <2>1, <2>2
<1>5. Is(f)
  <2>1. f = [n \in 0..N |-> f[n]]
    BY <1>3
  <2> QED BY <1>4, <2>1
<1>6. Is(own)
  BY <1>5
<1>7. OwnArguments(line) = own[N]
  BY DEF OwnArguments
<1>8. \A n \in 0..N : own[n] = IF n = 0 THEN <<>>
                                ELSE IF line[n] = SerialNumber THEN own[n - 1]
                                     ELSE Append(own[n - 1], line[n])
  <2> HIDE DEF own
  <2> QED BY <1>6
<1> QED BY <1>7, <1>8

(* Without an argument of macOS a line is its own.                         *)
LEMMA OwnOfClean ==
  ASSUME NEW line, line \in Seq(ToSet(line)), SerialNumber \notin ToSet(line)
  PROVE  OwnArguments(line) = line
<1> DEFINE N == Len(line)
<1>1. PICK own : /\ OwnArguments(line) = own[N]
                 /\ \A n \in 0..N :
                      own[n] = IF n = 0 THEN <<>>
                               ELSE IF line[n] = SerialNumber THEN own[n - 1]
                                    ELSE Append(own[n - 1], line[n])
  BY OwnIs
<1> DEFINE S == {n \in 0..N : own[n] = SubSeq(line, 1, n)}
<1>2. 0 \in S /\ N \in Nat
  <2>1. N \in Nat /\ 0 \in 0..N /\ SubSeq(line, 1, 0) = <<>>
    OBVIOUS
  <2>2. own[0] = <<>>
    BY <1>1, <2>1
  <2> QED BY <2>1, <2>2
<1>3. ASSUME NEW n \in 0..(N - 1), n \in S PROVE n + 1 \in S
  <2>1. n + 1 \in 1..N /\ n + 1 # 0 /\ (n + 1) - 1 = n /\ n + 1 \in 0..N
    BY <1>2
  <2>2. line[n + 1] # SerialNumber
    BY <2>1
  <2>3. own[n + 1] = Append(own[n], line[n + 1])
    BY <1>1, <2>1, <2>2
  <2>4. own[n] = SubSeq(line, 1, n)
    BY <1>3
  <2>5. Append(SubSeq(line, 1, n), line[n + 1]) = SubSeq(line, 1, n + 1)
    <3> DEFINE m == n + 1
    <3>1. m \in 1..Len(line) /\ m - 1 = n
      BY <2>1
    <3> HIDE DEF m
    <3>2. Append(SubSeq(line, 1, m - 1), line[m]) = SubSeq(line, 1, m)
      BY <3>1, Appended DEF IsText
    <3> QED BY <3>1, <3>2 DEF m
  <2> QED BY <2>1, <2>3, <2>4, <2>5
<1>4. \A n \in 0..N : n \in S
  <2>1. \A n \in 0..(N - 1) : n \in S => n + 1 \in S
    BY <1>3
  <2> HIDE DEF S
  <2> QED BY <1>2, <2>1, UpTo
<1>5. own[N] = SubSeq(line, 1, N)
  BY <1>2, <1>4
<1> QED BY <1>1, <1>5

(* A sequence is one of its elements.                                      *)
LEMMA ItsOwn ==
  ASSUME NEW S, NEW s \in Seq(S)
  PROVE  /\ s \in Seq(ToSet(s)) /\ ToSet(s) \subseteq S
         /\ \A k \in 1..Len(s) : s[k] \in ToSet(s)
<1>1. \A k \in 1..Len(s) : s[k] \in ToSet(s)
  BY DEF ToSet
<1>2. Len(s) \in Nat /\ s = [k \in 1..Len(s) |-> s[k]]
  OBVIOUS
<1>3. ToSet(s) \subseteq S
  BY DEF ToSet
<1> QED BY <1>1, <1>2, <1>3

(* A sequence with one more element among the others.                      *)
LEMMA Inserted ==
  ASSUME NEW s, s \in Seq(ToSet(s)), NEW i \in 1..(Len(s) + 1), NEW e
  PROVE  /\ InsertAt(s, i, e) \in Seq(ToSet(InsertAt(s, i, e)))
         /\ Len(InsertAt(s, i, e)) = Len(s) + 1
         /\ \A k \in 1..(Len(s) + 1) :
              InsertAt(s, i, e)[k] = IF k < i THEN s[k] ELSE IF k = i THEN e ELSE s[k - 1]
<1> DEFINE N == Len(s)
           T == ToSet(s) \cup {e}
           a == SubSeq(s, 1, i - 1)
           c == SubSeq(s, i, N)
           t == InsertAt(s, i, e)
<1>1. N \in Nat /\ s \in Seq(T)
  OBVIOUS
<1>2. a \in Seq(T) /\ Len(a) = i - 1 /\ \A k \in 1..(i - 1) : a[k] = s[k]
  BY <1>1
<1>3. c \in Seq(T) /\ Len(c) = N + 1 - i /\ \A k \in 1..(N + 1 - i) : c[k] = s[k + i - 1]
  BY <1>1
<1>4. t = (a \o <<e>>) \o c
  BY DEF InsertAt
<1>0. N = Len(s) /\ i \in 1..(N + 1)
  OBVIOUS
<1> HIDE DEF a, c, t, N
<1>5. /\ a \o <<e>> \in Seq(T) /\ Len(a \o <<e>>) = i
      /\ \A k \in 1..(i - 1) : (a \o <<e>>)[k] = s[k]
      /\ (a \o <<e>>)[i] = e
  BY <1>1, <1>2
<1> DEFINE b == a \o <<e>>
<1> HIDE DEF b, T
<1>6. t = b \o c /\ b \in Seq(T) /\ Len(b) = i /\ (\A k \in 1..(i - 1) : b[k] = s[k]) /\ b[i] = e
  BY <1>4, <1>5 DEF b
<1>7. t \in Seq(T) /\ Len(t) = N + 1
  <2>0. N \in Nat /\ i \in Nat
    BY <1>0, <1>1
  <2>4. c \in Seq(T)
    BY <1>3
  <2>5. b \in Seq(T)
    BY <1>6
  <2>1. b \o c \in Seq(T) /\ Len(b \o c) = Len(b) + Len(c)
    BY <2>4, <2>5
  <2>2. Len(b) = i /\ Len(c) = N + 1 - i /\ i + (N + 1 - i) = N + 1
    BY <1>3, <1>6, <2>0
  <2>3. Len(b \o c) = N + 1
    BY <2>1, <2>2
  <2> QED BY <1>6, <2>1, <2>3
<1>8. ASSUME NEW k \in 1..(N + 1)
      PROVE  t[k] = IF k < i THEN s[k] ELSE IF k = i THEN e ELSE s[k - 1]
  <2>1. CASE k <= i
    <3>1. t[k] = b[k]
      BY <1>0, <1>1, <1>3, <1>6, <2>1, Joined
    <3> QED BY <1>0, <1>1, <1>6, <2>1, <3>1
  <2>2. CASE i < k
    <3>0. Len(c) = N + 1 - i /\ N \in Nat /\ i \in Nat /\ k \in Nat /\ k <= N + 1
      BY <1>0, <1>1, <1>3
    <3>1. k - i \in 1..Len(c) /\ i + (k - i) = k /\ (k - i) + i - 1 = k - 1
      BY <2>2, <3>0
    <3>2. \A j \in 1..Len(c) : (b \o c)[Len(b) + j] = c[j]
      <4>1. b \in Seq(T) /\ c \in Seq(T)
        BY <1>3, <1>6
      <4> QED BY <4>1, Joined
    <3>3. t[k] = c[k - i]
      BY <1>6, <3>1, <3>2
    <3>4. c[k - i] = s[k - 1]
      BY <1>3, <3>1
    <3> QED BY <1>1, <2>2, <3>3, <3>4
  <2> QED BY <1>1, <2>1, <2>2
<1>9. t \in Seq(ToSet(t))
  BY <1>7, ItsOwn
<1> QED BY <1>7, <1>8, <1>9 DEF t, N

(* What macOS adds is not one's own, wherever it stands.                   *)
LEMMA OwnOfAdded ==
  ASSUME NEW line, line \in Seq(ToSet(line)), SerialNumber \notin ToSet(line),
         NEW i \in 1..(Len(line) + 1)
  PROVE  OwnArguments(InsertAt(line, i, SerialNumber)) = line
<1> DEFINE N == Len(line)
           t == InsertAt(line, i, SerialNumber)
<1>1. /\ t \in Seq(ToSet(t)) /\ Len(t) = N + 1
      /\ \A k \in 1..(N + 1) :
           t[k] = IF k < i THEN line[k] ELSE IF k = i THEN SerialNumber ELSE line[k - 1]
  BY Inserted
<1> HIDE DEF t
<1>2. PICK own : /\ OwnArguments(t) = own[Len(t)]
                 /\ \A n \in 0..Len(t) :
                      own[n] = IF n = 0 THEN <<>>
                               ELSE IF t[n] = SerialNumber THEN own[n - 1]
                                    ELSE Append(own[n - 1], t[n])
  BY <1>1, OwnIs
<1> DEFINE S == {n \in 0..(N + 1) : own[n] = SubSeq(line, 1, IF n < i THEN n ELSE n - 1)}
<1>3. 0 \in S /\ N \in Nat
  <2>1. N \in Nat /\ 0 \in 0..(N + 1) /\ SubSeq(line, 1, 0) = <<>> /\ 0 < i
    OBVIOUS
  <2>2. own[0] = <<>>
    BY <1>1, <1>2, <2>1
  <2> QED BY <2>1, <2>2
<1>4. ASSUME NEW n \in 0..N, n \in S PROVE n + 1 \in S
  <2> DEFINE m == n + 1
  <2>1. m \in 1..(N + 1) /\ m # 0 /\ m - 1 = n /\ m \in 0..(N + 1) /\ m \in 0..Len(t)
    BY <1>1, <1>3
  <2> HIDE DEF m
  <2>2. \A j \in 1..N : line[j] # SerialNumber
                       /\ Append(SubSeq(line, 1, j - 1), line[j]) = SubSeq(line, 1, j)
    <3> TAKE j \in 1..N
    <3>1. Append(SubSeq(line, 1, j - 1), line[j]) = SubSeq(line, 1, j)
      BY Appended DEF IsText
    <3>2. line[j] # SerialNumber
      OBVIOUS
    <3> QED BY <3>1, <3>2
  <2>3. own[m] = IF t[m] = SerialNumber THEN own[n] ELSE Append(own[n], t[m])
    BY <1>2, <2>1
  <2>4. own[n] = SubSeq(line, 1, IF n < i THEN n ELSE n - 1)
    BY <1>4
  <2>5. t[m] = IF m < i THEN line[m] ELSE IF m = i THEN SerialNumber ELSE line[m - 1]
    BY <1>1, <2>1
  <2>6. CASE m < i
    <3>1. m \in 1..N /\ n < i
      BY <2>1, <2>6, <1>3
    <3> QED BY <2>1, <2>2, <2>3, <2>4, <2>5, <2>6, <3>1 DEF m
  <2>7. CASE m = i
    <3>1. n < i /\ ~ (m < i)
      BY <2>1, <2>7, <1>3
    <3> QED BY <2>1, <2>3, <2>4, <2>5, <2>7, <3>1 DEF m
  <2>8. CASE i < m
    <3>1. n \in 1..N /\ ~ (n < i) /\ ~ (m < i) /\ m # i
      BY <2>1, <2>8, <1>3
    <3>2. t[m] = line[n] /\ line[n] # SerialNumber /\ own[n] = SubSeq(line, 1, n - 1)
      BY <2>1, <2>2, <2>4, <2>5, <3>1
    <3>3. own[m] = SubSeq(line, 1, n)
      BY <2>2, <2>3, <3>1, <3>2
    <3> QED BY <2>1, <3>1, <3>3 DEF m
  <2> QED BY <2>1, <2>6, <2>7, <2>8
<1>5. \A n \in 0..(N + 1) : n \in S
  <2>1. \A n \in 0..((N + 1) - 1) : n \in S => n + 1 \in S
    BY <1>3, <1>4
  <2>2. N + 1 \in Nat
    BY <1>3
  <2> HIDE DEF S, N
  <2> QED BY <1>3, <2>1, <2>2, UpTo
<1>6. own[N + 1] = SubSeq(line, 1, N)
  <2>1. N + 1 \in S /\ ~ (N + 1 < i) /\ (N + 1) - 1 = N
    BY <1>3, <1>5
  <2> QED BY <2>1
<1>7. SubSeq(line, 1, N) = line
  OBVIOUS
<1> QED BY <1>1, <1>2, <1>6, <1>7 DEF t

(* However a line is written, what macOS adds to it at any place leaves the *)
(* parser with the same command, or with the same refusal.                 *)
THEOREM SerialNumberIsIgnored ==
  ASSUME NEW line, line \in Seq(ToSet(line)), SerialNumber \notin ToSet(line),
         NEW i \in 1..(Len(line) + 1)
  PROVE  Parse(InsertAt(line, i, SerialNumber)) = Parse(line)
<1>1. OwnArguments(InsertAt(line, i, SerialNumber)) = OwnArguments(line)
  BY OwnOfAdded, OwnOfClean
<1> QED BY <1>1 DEF Parse

-----------------------------------------------------------------------------
(* The profile.                                                            *)

(* The runs of codes do not overlap.                                       *)
LEMMA RunsAre ==
  /\ \A r \in CodeRuns : r.from \in Nat /\ Len(r.keys) \in Nat /\ DOMAIN r.keys = 1..Len(r.keys)
  /\ \A r, s \in CodeRuns :
       \A i \in 1..Len(r.keys), j \in 1..Len(s.keys) :
         r.from + i - 1 = s.from + j - 1 => r = s /\ i = j
<1> DEFINE Places ==
      {<<4, 26>>, <<30, 20>>, <<51, 49>>, <<103, 13>>, <<136, 2>>, <<144, 2>>, <<224, 8>>,
       <<4207, 2>>, <<4272, 8>>, <<4301, 1>>, <<4322, 1>>, <<4329, 2>>, <<4336, 2>>}
<1>1. \A r \in CodeRuns : <<r.from, Len(r.keys)>> \in Places
  BY DEF CodeRuns, Run
<1>2. \A r \in CodeRuns : DOMAIN r.keys = 1..Len(r.keys)
  BY DEF CodeRuns, Run
<1>3. \A r, s \in CodeRuns : r.from = s.from => r = s
  BY DEF CodeRuns, Run
<1>4. \A p, q \in Places : /\ p[1] \in Nat /\ p[2] \in Nat
                           /\ p[1] < q[1] => p[1] + p[2] <= q[1]
  OBVIOUS
<1> HIDE DEF Places
<1>5. \A r \in CodeRuns : r.from \in Nat /\ Len(r.keys) \in Nat
  <2> SUFFICES ASSUME NEW r \in CodeRuns PROVE r.from \in Nat /\ Len(r.keys) \in Nat
    OBVIOUS
  <2> DEFINE p == <<r.from, Len(r.keys)>>
  <2>1. p \in Places /\ p[1] = r.from /\ p[2] = Len(r.keys)
    BY <1>1
  <2> HIDE DEF p
  <2> QED BY <1>4, <2>1
<1>6. \A r, s \in CodeRuns : r.from < s.from => r.from + Len(r.keys) <= s.from
  <2> SUFFICES ASSUME NEW r \in CodeRuns, NEW s \in CodeRuns, r.from < s.from
               PROVE  r.from + Len(r.keys) <= s.from
    OBVIOUS
  <2> DEFINE p == <<r.from, Len(r.keys)>>
             q == <<s.from, Len(s.keys)>>
  <2>1. p \in Places /\ p[1] = r.from /\ p[2] = Len(r.keys)
    BY <1>1
  <2>2. q \in Places /\ q[1] = s.from
    BY <1>1
  <2> HIDE DEF p, q
  <2> QED BY <1>4, <2>1, <2>2
<1>7. ASSUME NEW r \in CodeRuns, NEW s \in CodeRuns,
             NEW i \in 1..Len(r.keys), NEW j \in 1..Len(s.keys),
             r.from + i - 1 = s.from + j - 1
      PROVE  r = s /\ i = j
  <2>1. /\ r.from \in Nat /\ s.from \in Nat /\ Len(r.keys) \in Nat /\ Len(s.keys) \in Nat
        /\ r.from < s.from => r.from + Len(r.keys) <= s.from
        /\ s.from < r.from => s.from + Len(s.keys) <= r.from
    BY <1>5, <1>6
  <2>2. r.from = s.from
    BY <1>7, <2>1
  <2> QED BY <1>3, <1>7, <2>1, <2>2
<1> QED BY <1>2, <1>5, <1>7

(* A code belongs to one key.                                              *)
LEMMA CodesTell == \A k, l \in Keys : CodeOf[k] = CodeOf[l] => k = l
<1>1. ASSUME NEW k \in Keys
      PROVE  \E r \in CodeRuns : \E i \in 1..Len(r.keys) :
               k = r.keys[i] /\ CodeOf[k] = r.from + i - 1
  <2> DEFINE r == CHOOSE x \in CodeRuns : k \in ToSet(x.keys)
             i == CHOOSE n \in DOMAIN r.keys : r.keys[n] = k
  <2>1. \E x \in CodeRuns : k \in ToSet(x.keys)
    <3>1. PICK K \in {ToSet(x.keys) : x \in CodeRuns} : k \in K
      BY DEF Keys
    <3> QED BY <3>1
  <2>2. r \in CodeRuns /\ k \in ToSet(r.keys)
    BY <2>1
  <2>3. CodeOf[k] = r.from + i - 1
    BY DEF CodeOf
  <2> HIDE DEF r
  <2>4. \E n \in DOMAIN r.keys : r.keys[n] = k
    BY <2>2 DEF ToSet
  <2>5. i \in DOMAIN r.keys /\ r.keys[i] = k
    BY <2>4
  <2> HIDE DEF i
  <2> QED BY <2>2, <2>3, <2>5, RunsAre
<1> SUFFICES ASSUME NEW k \in Keys, NEW l \in Keys, CodeOf[k] = CodeOf[l] PROVE k = l
  OBVIOUS
<1>2. PICK r \in CodeRuns : \E i \in 1..Len(r.keys) : k = r.keys[i] /\ CodeOf[k] = r.from + i - 1
  BY <1>1
<1>3. PICK i \in 1..Len(r.keys) : k = r.keys[i] /\ CodeOf[k] = r.from + i - 1
  BY <1>2
<1>4. PICK s \in CodeRuns : \E j \in 1..Len(s.keys) : l = s.keys[j] /\ CodeOf[l] = s.from + j - 1
  BY <1>1
<1>5. PICK j \in 1..Len(s.keys) : l = s.keys[j] /\ CodeOf[l] = s.from + j - 1
  BY <1>4
<1>6. r = s /\ i = j
  BY <1>3, <1>5, RunsAre
<1> QED BY <1>3, <1>5, <1>6

LEMMA FromCodeIs ==
  /\ FromCode \in [Codes -> Keys] /\ \A k \in Keys : CodeOf[k] \in Codes
  /\ \A k \in Keys : FromCode[CodeOf[k]] = k
<1>1. \A k \in Keys : CodeOf[k] \in Codes
  BY DEF Codes
<1>2. ASSUME NEW c \in Codes
      PROVE  (CHOOSE k \in Keys : CodeOf[k] = c) \in Keys
             /\ CodeOf[CHOOSE k \in Keys : CodeOf[k] = c] = c
  <2>1. \E k \in Keys : CodeOf[k] = c
    BY DEF Codes
  <2> QED BY <2>1
<1>3. FromCode \in [Codes -> Keys]
  BY <1>2 DEF FromCode
<1>4. ASSUME NEW k \in Keys PROVE FromCode[CodeOf[k]] = k
  <2>1. FromCode[CodeOf[k]] \in Keys /\ CodeOf[FromCode[CodeOf[k]]] = CodeOf[k]
    BY <1>1, <1>2 DEF FromCode
  <2> QED BY <2>1, CodesTell
<1> QED BY <1>1, <1>3, <1>4

(* A name belongs to one key, and its own name to itself.                  *)
Aliases ==
  {"return", "esc", "period", "ins", "pgup", "pgdn", "del", "right", "left", "down", "up",
   "lang1", "lang2", "keypad_enter", "keypad1", "media_next", "media_previous", "media_prev",
   "mute", "function"}

LEMMA NamesTell ==
  /\ \A k \in Keys : \A name \in NamesOf(k) : KeysNamed(name) = {k}
  /\ KeysNamed("nothing") = {}
  /\ \A name \in DOMAIN OtherNames : \A k \in Keys : name \in NamesOf(k) => name = k
<1>1. \A k \in Keys : k \notin Aliases \cup {"nothing"}
  <2>1. \A r \in CodeRuns : \A i \in DOMAIN r.keys : r.keys[i] \notin Aliases \cup {"nothing"}
    BY DEF CodeRuns, Run, Aliases
  <2>2. \A k \in Keys : \E r \in CodeRuns : \E i \in DOMAIN r.keys : r.keys[i] = k
    <3> SUFFICES ASSUME NEW k \in Keys
                 PROVE  \E r \in CodeRuns : \E i \in DOMAIN r.keys : r.keys[i] = k
      OBVIOUS
    <3>1. PICK K \in {ToSet(x.keys) : x \in CodeRuns} : k \in K
      BY DEF Keys
    <3>2. PICK x \in CodeRuns : k \in ToSet(x.keys)
      BY <3>1
    <3> QED BY <3>2 DEF ToSet
  <2> QED BY <2>1, <2>2
<1>2. \A k \in DOMAIN OtherNames : OtherNames[k] \subseteq Aliases
  BY DEF OtherNames, Aliases
<1>3. \A k, l \in DOMAIN OtherNames : \A name \in OtherNames[k] : name \in OtherNames[l] => k = l
  BY DEF OtherNames
<1>4. \A k \in DOMAIN OtherNames : k \notin Aliases
  BY DEF OtherNames, Aliases
<1>5. "nothing" \notin Aliases
  BY DEF Aliases
<1>6. \A k, l \in Keys : \A name \in NamesOf(k) : name \in NamesOf(l) => k = l
  BY <1>1, <1>2, <1>3 DEF NamesOf
<1>7. \A k \in Keys : k \in NamesOf(k) /\ "nothing" \notin NamesOf(k)
  BY <1>1, <1>2, <1>5 DEF NamesOf
<1>8. \A name \in DOMAIN OtherNames : \A k \in Keys : name \in NamesOf(k) => name = k
  BY <1>2, <1>4 DEF NamesOf
<1> QED BY <1>6, <1>7, <1>8 DEF KeysNamed

(* The function that the table comes from.                                 *)
LEMMA TableIs ==
  ASSUME NEW m \in Seq(Keys \X Keys)
  PROVE  \E upTo :
           /\ KeyTable(m) = upTo[Len(m)]
           /\ \A n \in 0..Len(m) :
                upTo[n] = IF n = 0 THEN FromCode ELSE WithMapping(upTo[n - 1], m[n])
<1> DEFINE N == Len(m)
           T == [Codes -> Keys]
           first == FromCode
           step == [n \in 1..N |-> [t \in T |-> WithMapping(t, m[n])]]
<1>1. first \in T /\ N \in Nat
  BY FromCodeIs
<1>2. step \in [1..N -> [T -> T]]
  <2>1. \A n \in 1..N : \A t \in T : WithMapping(t, m[n]) \in T
    <3> TAKE n \in 1..N
    <3>1. m[n] \in Keys \X Keys /\ m[n][2] \in Keys
      OBVIOUS
    <3> QED BY <3>1 DEF WithMapping
  <2> HIDE DEF T
  <2> QED BY <2>1
<1>3. PICK f \in [0..N -> T] : f[0] = first /\ \A n \in 1..N : f[n] = step[n][f[n - 1]]
  <2> HIDE DEF T, first, step, N
  <2>1. Recursions(T, first, N, step) # {}
    BY ONLY <1>1, <1>2, RecursionIs
  <2> QED BY <2>1 DEF Recursions
<1> DEFINE Is(h) == h = [n \in 0..N |-> IF n = 0 THEN FromCode ELSE WithMapping(h[n - 1], m[n])]
           upTo == CHOOSE h : Is(h)
<1>4. \A n \in 0..N : f[n] = IF n = 0 THEN FromCode ELSE WithMapping(f[n - 1], m[n])
  <2> TAKE n \in 0..N
  <2>1. CASE n = 0
    BY <1>3, <2>1
  <2>2. CASE n # 0
    <3>1. n \in 1..N /\ n - 1 \in 0..N
      BY <1>1, <2>2
    <3> HIDE DEF T
    <3>2. f[n - 1] \in T /\ f[n] = step[n][f[n - 1]]
      BY <1>3, <3>1
    <3> QED BY <2>2, <3>1, <3>2
  <2> QED BY <2>1, <2>2
<1>5. Is(f)
  <2>1. f = [n \in 0..N |-> f[n]]
    BY <1>3
  <2> QED BY <1>4, <2>1
<1>6. Is(upTo)
  <2> HIDE DEF Is
  <2> QED BY <1>5
<1>7. KeyTable(m) = upTo[N]
  BY DEF KeyTable
<1>8. \A n \in 0..N : upTo[n] = IF n = 0 THEN FromCode ELSE WithMapping(upTo[n - 1], m[n])
  <2> HIDE DEF upTo
  <2> QED BY <1>6
<1> QED BY <1>7, <1>8

(* What is mapped is in the table, what is not is itself.                  *)
LEMMA TableHas ==
  ASSUME NEW m \in Seq(Keys \X Keys),
         \A i, j \in 1..Len(m) : m[i][1] = m[j][1] => i = j
  PROVE  /\ \A i \in 1..Len(m) : KeyTable(m)[CodeOf[m[i][1]]] = m[i][2]
         /\ \A k \in Keys : (\A i \in 1..Len(m) : m[i][1] # k) => KeyTable(m)[CodeOf[k]] = k
<1> DEFINE N == Len(m)
<1>1. PICK upTo : /\ KeyTable(m) = upTo[N]
                  /\ \A n \in 0..N :
                       upTo[n] = IF n = 0 THEN FromCode ELSE WithMapping(upTo[n - 1], m[n])
  BY TableIs
<1>2. N \in Nat /\ \A i \in 1..N : m[i][1] \in Keys /\ m[i][2] \in Keys
  OBVIOUS
<1> DEFINE Has(n) == /\ upTo[n] \in [Codes -> Keys]
                     /\ \A i \in 1..n : upTo[n][CodeOf[m[i][1]]] = m[i][2]
                     /\ \A k \in Keys : (\A i \in 1..n : m[i][1] # k) => upTo[n][CodeOf[k]] = k
           S == {n \in 0..N : Has(n)}
<1>3. 0 \in S
  <2>1. upTo[0] = FromCode /\ 0 \in 0..N
    BY <1>1, <1>2
  <2> QED BY <2>1, FromCodeIs
<1>4. ASSUME NEW n \in 0..(N - 1), n \in S PROVE n + 1 \in S
  <2> DEFINE t == upTo[n]
             u == upTo[n + 1]
             from == m[n + 1][1]
             to == m[n + 1][2]
  <2>1. n + 1 \in 1..N /\ n + 1 # 0 /\ (n + 1) - 1 = n /\ n + 1 \in 0..N /\ n \in Nat
    BY <1>2
  <2>2. u = [t EXCEPT ![CodeOf[from]] = to]
    BY <1>1, <2>1 DEF WithMapping
  <2>3. from \in Keys /\ to \in Keys /\ \A i \in 1..n : m[i][1] # from /\ m[i][1] \in Keys
    BY <1>2, <2>1
  <2>4. /\ t \in [Codes -> Keys]
        /\ \A i \in 1..n : t[CodeOf[m[i][1]]] = m[i][2]
        /\ \A k \in Keys : (\A i \in 1..n : m[i][1] # k) => t[CodeOf[k]] = k
    BY <1>4
  <2> HIDE DEF t, u, from, to
  <2>5. u \in [Codes -> Keys] /\ u[CodeOf[from]] = to
        /\ \A k \in Keys : k # from => u[CodeOf[k]] = t[CodeOf[k]]
    BY <2>2, <2>3, <2>4, CodesTell, FromCodeIs
  <2>6. \A i \in 1..(n + 1) : u[CodeOf[m[i][1]]] = m[i][2]
    <3> TAKE i \in 1..(n + 1)
    <3>1. CASE i = n + 1
      BY <2>5, <3>1 DEF from, to
    <3>2. CASE i # n + 1
      <4>1. i \in 1..n
        BY <2>1, <3>2
      <4> QED BY <2>3, <2>4, <2>5, <4>1
    <3> QED BY <3>1, <3>2
  <2>7. ASSUME NEW k \in Keys, \A i \in 1..(n + 1) : m[i][1] # k PROVE u[CodeOf[k]] = k
    <3>1. k # from /\ \A i \in 1..n : m[i][1] # k
      BY <2>1, <2>7 DEF from
    <3> QED BY <2>4, <2>5, <3>1
  <2> QED BY <2>1, <2>5, <2>6, <2>7 DEF u
<1>5. \A n \in 0..N : n \in S
  <2>1. \A n \in 0..(N - 1) : n \in S => n + 1 \in S
    BY <1>4
  <2> HIDE DEF S, N
  <2> QED BY <1>2, <1>3, <2>1, UpTo
<1>6. Has(N)
  BY <1>2, <1>5
<1> QED BY <1>1, <1>6

(* What is taken for a missing word stands for itself.                     *)
LEMMA DefaultsAre ==
  /\ Fields = {"function_key_mode", "keyboard_mode", "source_layout", "target_layout",
               "non_english"}
  /\ DefaultWord = [f \in Fields |-> DefaultWord[f]]
  /\ \A f \in Fields : /\ DefaultWord[f] \in DOMAIN Words[f]
                       /\ Words[f][DefaultWord[f]] = DefaultWord[f]
  BY DEF Fields, Words, DefaultWord

Names == UNION {NamesOf(k) : k \in Keys}

(* Layouts without contradiction, to which "nobody" is unknown.            *)
Sound(layout) ==
  /\ layout = [targets |-> layout.targets, edges |-> layout.edges]
  /\ layout.targets \in Seq(ToSet(layout.targets)) /\ "left" \in DOMAIN layout.edges
  /\ LayoutParses(layout) /\ "nobody" \notin ToSet(layout.targets)

(* The names of the text are those of the keys K, which are meant.         *)
Says(K) ==
  /\ K \in Seq(Keys \X Keys) /\ Len(K) = Len(text.mapping)
  /\ \A i, j \in 1..Len(K) : K[i][1] = K[j][1] => i = j
  /\ \A i \in 1..Len(K) : \A j \in {1, 2} : text.mapping[i][j] \in NamesOf(K[i][j])
  /\ meantProfile.keys = {K[i] : i \in 1..Len(K)}

ProfileType ==
  /\ text = [mapping |-> text.mapping, source |-> text.source, target |-> text.target,
             preset |-> text.preset, modes |-> text.modes, layout |-> text.layout]
  /\ text.mapping \in Seq(Names \X Names) /\ text.modes = [f \in Fields |-> text.modes[f]]
  /\ text.source \in Systems /\ text.target \in Systems /\ text.preset \in Presets
  /\ meantProfile = [ok |-> meantProfile.ok, keys |-> meantProfile.keys,
                     modes |-> meantProfile.modes, layout |-> meantProfile.layout]
  /\ meantProfile.modes = [f \in Fields |-> meantProfile.modes[f]]
  /\ Sound(text.layout)

ProfileInv ==
  /\ meantProfile.ok \in BOOLEAN
  /\ ~meantProfile.ok => ~TextAccepted(text)
  /\ meantProfile.ok =>
       /\ ProfileType /\ \E K : Says(K)
       /\ text.layout = meantProfile.layout
       /\ \A f \in Fields : /\ GivenText(text, f) \in DOMAIN Words[f]
                            /\ Words[f][GivenText(text, f)] = meantProfile.modes[f]

(* The key of a name is found.                                             *)
LEMMA KeyIsFound ==
  \A k \in Keys : \A name \in NamesOf(k) : KeyNamed(name) = k /\ KeysNamed(name) # {}
  BY NamesTell DEF KeyNamed

(* A text is parsed to the keys it names.                                  *)
LEMMA ParsedSays ==
  ASSUME NEW K, ProfileType, Says(K)
  PROVE  Parsed(text).mappings = K
<1> DEFINE N == Len(K)
           P == Parsed(text).mappings
<1>1. K \in Seq(Keys \X Keys) /\ N = Len(text.mapping) /\ DOMAIN text.mapping = 1..N
  BY DEF Says, ProfileType
<1>2. P = [i \in 1..N |-> <<KeyNamed(text.mapping[i][1]), KeyNamed(text.mapping[i][2])>>]
  BY <1>1 DEF Parsed
<1>3. \A i \in 1..N : P[i] = K[i]
  <2> TAKE i \in 1..N
  <2>1. K[i] \in Keys \X Keys /\ K[i] = <<K[i][1], K[i][2]>>
    BY <1>1
  <2>2. KeyNamed(text.mapping[i][1]) = K[i][1] /\ KeyNamed(text.mapping[i][2]) = K[i][2]
    BY <2>1, KeyIsFound DEF Says
  <2> QED BY <1>2, <2>1, <2>2
<1>4. K = [i \in 1..N |-> K[i]]
  BY <1>1
<1> HIDE DEF P
<1> QED BY <1>2, <1>3, <1>4 DEF P

LEMMA InitProfile == ASSUME ProfileTextInit PROVE ProfileInv
<1> USE ProfileTextAssumption
<1>1. Sound(Plain.layout)
  <2> DEFINE l == Plain.layout
  <2>1. l.targets = <<>> /\ l.edges = [left |-> Missing, right |-> Missing]
        /\ l = [targets |-> l.targets, edges |-> l.edges]
    BY DEF Plain
  <2> HIDE DEF l
  <2>2. /\ DOMAIN l.edges = {"left", "right"}
        /\ l.edges["left"] = Missing /\ l.edges["right"] = Missing
    BY <2>1
  <2>3. LayoutParses(l)
    BY <2>1, <2>2 DEF LayoutParses, IsInjective
  <2>4. ToSet(l.targets) = {}
    BY <2>1 DEF ToSet
  <2> QED BY <2>1, <2>2, <2>3, <2>4 DEF Sound, l
<1>2. \A f \in Fields : GivenText(Plain, f) = DefaultWord[f]
  BY DefaultsAre DEF GivenText, Plain
<1>3. ASSUME NEW pairs \in Mapped, text = [Plain EXCEPT !.mapping = SetToSeq(pairs)],
             meantProfile = [ok |-> TRUE, keys |-> pairs, modes |-> DefaultWord,
                             layout |-> Plain.layout]
      PROVE  ProfileInv
  <2> DEFINE K == SetToSeq(pairs)
  <2>1. /\ K \in Seq(pairs) /\ pairs = {K[i] : i \in 1..Len(K)}
        /\ \A i, j \in 1..Len(K) : K[i] = K[j] => i = j
    BY InSequence
  <2> HIDE DEF K
  <2>2. K \in Seq(Keys \X Keys)
    BY <2>1
  <2>3. \A i \in 1..Len(K) : K[i] \in pairs /\ K[i] \in Keys \X Keys
    BY <2>1, <2>2
  <2>4. /\ text.mapping = K /\ text.source = "macos" /\ text.target = "windows"
        /\ text.preset = "keep_mac_habit" /\ text.modes = DefaultWord
        /\ text.layout = Plain.layout
        /\ text = [mapping |-> text.mapping, source |-> text.source, target |-> text.target,
                   preset |-> text.preset, modes |-> text.modes, layout |-> text.layout]
    BY <1>3 DEF Plain, K
  <2>5. Says(K)
    <3>1. \A i, j \in 1..Len(K) : K[i][1] = K[j][1] => i = j
      BY <2>1, <2>3
    <3>2. \A i \in 1..Len(K) : \A j \in {1, 2} : K[i][j] \in NamesOf(K[i][j])
      BY DEF NamesOf
    <3> QED BY <1>3, <2>1, <2>2, <2>4, <3>1, <3>2 DEF Says
  <2>6. text.mapping \in Seq(Names \X Names)
    <3>1. Keys \subseteq Names
      BY DEF Names, NamesOf
    <3>2. Keys \X Keys \subseteq Names \X Names
      BY <3>1
    <3> HIDE DEF Names
    <3> QED BY <2>2, <2>4, <3>2
  <2>7. ProfileType
    <3>1. text.source \in Systems /\ text.target \in Systems /\ text.preset \in Presets
      BY <2>4 DEF Systems, Presets
    <3>2. meantProfile = [ok |-> meantProfile.ok, keys |-> meantProfile.keys,
                          modes |-> meantProfile.modes, layout |-> meantProfile.layout]
      BY <1>3
    <3>3. meantProfile.modes = DefaultWord
      BY <1>3
    <3> QED BY ONLY <1>1, <2>4, <2>6, <3>1, <3>2, <3>3, DefaultsAre DEF ProfileType
  <2>8. \A f \in Fields : GivenText(text, f) = DefaultWord[f]
    BY <2>4, DefaultsAre DEF GivenText
  <2> QED BY <1>3, <2>4, <2>5, <2>7, <2>8, DefaultsAre DEF ProfileInv
<1>4. ASSUME NEW f \in Fields, NEW w \in DOMAIN Words[f], NEW layout \in TextLayouts,
             text = [Plain EXCEPT !.modes[f] = w, !.layout = layout],
             meantProfile = [ok |-> TRUE, keys |-> {}, layout |-> layout,
                             modes |-> [DefaultWord EXCEPT ![f] = Words[f][w]]]
      PROVE  ProfileInv
  <2>1. /\ text.mapping = <<>> /\ text.source = "macos" /\ text.target = "windows"
        /\ text.preset = "keep_mac_habit" /\ text.modes = [DefaultWord EXCEPT ![f] = w]
        /\ text.layout = layout
        /\ text = [mapping |-> text.mapping, source |-> text.source, target |-> text.target,
                   preset |-> text.preset, modes |-> text.modes, layout |-> text.layout]
    BY <1>4 DEF Plain
  <2>2. Says(<<>>)
    BY <1>4, <2>1 DEF Says
  <2>3. text.modes = [g \in Fields |-> IF g = f THEN w ELSE DefaultWord[g]]
    BY <2>1, DefaultsAre
  <2>4. meantProfile.modes = [g \in Fields |-> IF g = f THEN Words[f][w] ELSE DefaultWord[g]]
    BY <1>4, DefaultsAre
  <2>5. ProfileType
    <3>1. Sound(layout)
      BY DEF Sound
    <3>2. text.source \in Systems /\ text.target \in Systems /\ text.preset \in Presets
      BY <2>1 DEF Systems, Presets
    <3>3. meantProfile = [ok |-> meantProfile.ok, keys |-> meantProfile.keys,
                          modes |-> meantProfile.modes, layout |-> meantProfile.layout]
      BY <1>4
    <3>4. text.modes = [g \in Fields |-> text.modes[g]]
      BY ONLY <2>3
    <3>5. meantProfile.modes = [g \in Fields |-> meantProfile.modes[g]]
      BY ONLY <2>4
    <3>6. text.mapping \in Seq(Names \X Names)
      BY ONLY <2>1
    <3> QED BY ONLY <2>1, <3>1, <3>2, <3>3, <3>4, <3>5, <3>6 DEF ProfileType
  <2>6. \A g \in Fields : /\ GivenText(text, g) \in DOMAIN Words[g]
                          /\ Words[g][GivenText(text, g)] = meantProfile.modes[g]
    <3> TAKE g \in Fields
    <3>1. CASE g = f
      BY <2>3, <2>4, <3>1 DEF GivenText
    <3>2. CASE g # f
      BY <2>3, <2>4, <3>2, DefaultsAre DEF GivenText
    <3> QED BY <3>1, <3>2
  <2> QED BY <1>4, <2>1, <2>2, <2>5, <2>6 DEF ProfileInv
<1>5. PICK t \in PlainTexts : SavedText(t)
  BY DEF ProfileTextInit
<1>6. ASSUME NEW pairs \in Mapped, t = TextOfKeys(pairs) PROVE ProfileInv
  BY <1>3, <1>5, <1>6 DEF SavedText, TextOfKeys
<1>7. ASSUME NEW f \in Fields, NEW w \in DOMAIN Words[f], NEW layout \in TextLayouts,
             t = TextOfWord(f, w, layout)
      PROVE  ProfileInv
  <2>1. /\ text = [Plain EXCEPT !.modes[f] = w, !.layout = layout]
        /\ meantProfile = [ok |-> TRUE, keys |-> {}, layout |-> layout,
                           modes |-> [DefaultWord EXCEPT ![f] = Words[f][w]]]
    BY <1>5, <1>7 DEF SavedText, TextOfWord
  <2> QED BY <1>4, <2>1
<1>8. \/ t \in {TextOfKeys(pairs) : pairs \in Mapped}
      \/ t \in UNION {{TextOfWord(f, w, layout) : w \in DOMAIN Words[f], layout \in TextLayouts} :
                        f \in Fields}
  BY ONLY <1>5 DEF PlainTexts
<1>9. CASE t \in {TextOfKeys(pairs) : pairs \in Mapped}
  BY <1>6, <1>9
<1>10. CASE t \in UNION {{TextOfWord(f, w, layout) : w \in DOMAIN Words[f],
                                                  layout \in TextLayouts} : f \in Fields}
  <2>1. PICK f \in Fields : t \in {TextOfWord(f, w, layout) : w \in DOMAIN Words[f],
                                                         layout \in TextLayouts}
    BY <1>10
  <2>2. PICK w \in DOMAIN Words[f], layout \in TextLayouts : t = TextOfWord(f, w, layout)
    BY <2>1
  <2> QED BY <1>7, <2>2
<1> QED BY <1>8, <1>9, <1>10

(* Another name is one of the same key.                                    *)
LEMMA OtherKeyNameSays ==
  ASSUME NEW i \in DOMAIN text.mapping, NEW j \in {1, 2},
         ProfileInv, meantProfile.ok, UseOtherKeyName(i, j)
  PROVE  ProfileInv'
<1> DEFINE old == text.mapping[i][j]
<1>1. PICK K : Says(K)
  BY DEF ProfileInv
<1>2. /\ ProfileType /\ text.layout = meantProfile.layout
      /\ \A f \in Fields : /\ GivenText(text, f) \in DOMAIN Words[f]
                           /\ Words[f][GivenText(text, f)] = meantProfile.modes[f]
  BY DEF ProfileInv
<1>3. PICK name \in OtherNames[old] : text' = [text EXCEPT !.mapping[i][j] = name]
  BY DEF UseOtherKeyName
<1>4. old \in DOMAIN OtherNames /\ meantProfile' = meantProfile
  BY DEF UseOtherKeyName
<1>5. /\ text.mapping \in Seq(Names \X Names) /\ i \in 1..Len(text.mapping)
      /\ DOMAIN text.mapping = 1..Len(text.mapping)
  BY <1>2 DEF ProfileType
<1>6. /\ K \in Seq(Keys \X Keys) /\ Len(K) = Len(text.mapping) /\ K[i] \in Keys \X Keys
      /\ K[i][j] \in Keys /\ old \in NamesOf(K[i][j])
  BY <1>1, <1>5 DEF Says
<1>7. name \in NamesOf(K[i][j])
  <2>1. old = K[i][j]
    BY <1>4, <1>6, NamesTell
  <2> QED BY <1>3, <1>4, <2>1 DEF NamesOf
<1>8. name \in Names
  BY <1>6, <1>7 DEF Names
<1> DEFINE m == text.mapping
           pair == [m[i] EXCEPT ![j] = name]
           new == [m EXCEPT ![i] = pair]
<1>9. /\ text' = [text EXCEPT !.mapping = new]
  BY <1>3
<1>10. /\ text'.mapping = new /\ text'.source = text.source /\ text'.target = text.target
       /\ text'.preset = text.preset /\ text'.modes = text.modes /\ text'.layout = text.layout
       /\ text' = [mapping |-> text'.mapping, source |-> text'.source, target |-> text'.target,
                   preset |-> text'.preset, modes |-> text'.modes, layout |-> text'.layout]
  <2> HIDE DEF new
  <2> QED BY <1>2, <1>9 DEF ProfileType
<1>11. m \in Seq(Names \X Names) /\ m[i] \in Names \X Names
  BY <1>5
<1>12. pair \in Names \X Names /\ pair[j] = name /\ \A l \in {1, 2} : l # j => pair[l] = m[i][l]
  <2> HIDE DEF m
  <2>1. PICK a \in Names, b \in Names : m[i] = <<a, b>>
    BY <1>11
  <2>2. CASE j = 1
    <3>1. pair = <<name, b>>
      BY <2>1, <2>2
    <3> QED BY <1>8, <2>1, <2>2, <3>1
  <2>3. CASE j = 2
    <3>1. pair = <<a, name>>
      BY <2>1, <2>3
    <3> QED BY <1>8, <2>1, <2>3, <3>1
  <2> QED BY <2>2, <2>3
<1>13. /\ new \in Seq(Names \X Names) /\ Len(new) = Len(m) /\ new[i] = pair
       /\ \A l \in 1..Len(m) : l # i => new[l] = m[l]
  <2> HIDE DEF m, pair
  <2> QED BY <1>5, <1>11, <1>12 DEF m
<1> HIDE DEF pair, new
<1>14. Says(K)'
  <2>1. \A a \in 1..Len(K) : \A l \in {1, 2} : new[a][l] \in NamesOf(K[a][l])
    <3> SUFFICES ASSUME NEW a \in 1..Len(K), NEW l \in {1, 2} PROVE new[a][l] \in NamesOf(K[a][l])
      OBVIOUS
    <3>1. m[a][l] \in NamesOf(K[a][l])
      BY <1>1 DEF Says
    <3>2. CASE a = i /\ l = j
      BY <1>7, <1>12, <1>13, <3>2
    <3>3. CASE a = i /\ l # j
      BY <1>12, <1>13, <3>1, <3>3
    <3>4. CASE a # i
      BY <1>6, <1>13, <3>1, <3>4
    <3> QED BY <3>2, <3>3, <3>4
  <2> QED BY <1>1, <1>4, <1>10, <1>13, <2>1 DEF Says
<1>15. ProfileType'
  BY <1>2, <1>4, <1>10, <1>13 DEF ProfileType
<1>16. \A f \in Fields : GivenText(text, f)' = GivenText(text, f)
  BY <1>10 DEF GivenText
<1> QED BY <1>2, <1>4, <1>10, <1>14, <1>15, <1>16 DEF ProfileInv

LEMMA OtherWordSays ==
  ASSUME NEW f \in Fields, ProfileInv, meantProfile.ok, UseOtherWord(f)
  PROVE  ProfileInv'
<1> USE ProfileTextAssumption
<1>1. PICK K : Says(K)
  BY DEF ProfileInv
<1>2. /\ ProfileType /\ text.layout = meantProfile.layout
      /\ \A g \in Fields : /\ GivenText(text, g) \in DOMAIN Words[g]
                           /\ Words[g][GivenText(text, g)] = meantProfile.modes[g]
  BY DEF ProfileInv
<1>3. PICK w : /\ text' = [text EXCEPT !.modes[f] = w]
               /\ \/ w = Missing /\ meantProfile.modes[f] = DefaultWord[f]
                  \/ w \in DOMAIN Words[f] /\ meantProfile.modes[f] = Words[f][w]
  BY DEF UseOtherWord
<1>4. meantProfile' = meantProfile
  BY DEF UseOtherWord
<1>5. /\ text'.mapping = text.mapping /\ text'.source = text.source
      /\ text'.target = text.target /\ text'.preset = text.preset
      /\ text'.modes = [text.modes EXCEPT ![f] = w] /\ text'.layout = text.layout
      /\ text' = [mapping |-> text'.mapping, source |-> text'.source, target |-> text'.target,
                  preset |-> text'.preset, modes |-> text'.modes, layout |-> text'.layout]
  BY <1>2, <1>3 DEF ProfileType
<1>6. text'.modes = [g \in Fields |-> IF g = f THEN w ELSE text.modes[g]]
  BY <1>2, <1>5 DEF ProfileType
<1>7. ProfileType'
  <2>1. text'.modes = [g \in Fields |-> text'.modes[g]]
    BY ONLY <1>6
  <2> QED BY <1>2, <1>4, <1>5, <2>1 DEF ProfileType
<1>8. Says(K)'
  BY <1>1, <1>4, <1>5 DEF Says
<1>9. \A g \in Fields : /\ GivenText(text', g) \in DOMAIN Words[g]
                        /\ Words[g][GivenText(text', g)] = meantProfile.modes[g]
  <2> TAKE g \in Fields
  <2>1. CASE g # f
    BY <1>2, <1>6, <2>1 DEF GivenText
  <2>2. CASE g = f /\ w = Missing
    BY <1>3, <1>6, <2>2, DefaultsAre DEF GivenText
  <2>3. CASE g = f /\ w # Missing
    BY <1>3, <1>6, <2>3 DEF GivenText
  <2> QED BY <2>1, <2>2, <2>3
<1> QED BY <1>2, <1>4, <1>5, <1>7, <1>8, <1>9 DEF ProfileInv

(* What contradicts itself is refused.                                     *)
LEMMA SpoilIsRefused ==
  ASSUME ProfileInv, meantProfile.ok, Spoil
  PROVE  ProfileInv'
<1>1. PICK K : Says(K)
  BY DEF ProfileInv
<1>2. ProfileType
  BY DEF ProfileInv
<1>3. meantProfile'.ok = FALSE
  BY <1>2 DEF Spoil, ProfileType
<1> DEFINE m == text.mapping
           N == Len(m)
<1>4. m \in Seq(Names \X Names) /\ N \in Nat /\ DOMAIN m = 1..N
  BY <1>2 DEF ProfileType
<1>5. /\ K \in Seq(Keys \X Keys) /\ Len(K) = N /\ DOMAIN K = 1..N
      /\ \A i \in 1..N : K[i] \in Keys \X Keys /\ K[i][1] \in Keys /\ m[i][1] \in NamesOf(K[i][1])
      /\ meantProfile.keys = {K[i] : i \in 1..N}
  BY <1>1 DEF Says
<1>6. ASSUME NEW pair \in meantProfile.keys, pair[1] \in DOMAIN OtherNames,
             NEW name \in OtherNames[pair[1]],
             text' = [text EXCEPT !.mapping = Append(@, <<name, "A">>)]
      PROVE  ~TextAccepted(text')
  <2>1. PICK i \in 1..N : pair = K[i]
    BY <1>5
  <2> DEFINE k == K[i][1]
             new == Append(m, <<name, "A">>)
  <2>2. k \in Keys /\ pair[1] = k
    BY <1>5, <2>1
  <2>3. KeyNamed(m[i][1]) = k /\ KeyNamed(name) = k
    <3>1. name \in NamesOf(k)
      BY <1>6, <2>2 DEF NamesOf
    <3> QED BY <1>5, <2>2, <3>1, KeyIsFound
  <2>4. text'.mapping = new
    BY <1>2, <1>6 DEF ProfileType
  <2>5. /\ DOMAIN new = 1..(N + 1) /\ new[N + 1] = <<name, "A">> /\ new[i] = m[i]
        /\ i \in 1..(N + 1) /\ N + 1 \in 1..(N + 1) /\ i # N + 1
    BY <1>4
  <2> HIDE DEF new
  <2> DEFINE P == Parsed(text').mappings
  <2>6. P = [l \in 1..(N + 1) |-> <<KeyNamed(new[l][1]), KeyNamed(new[l][2])>>]
    BY <2>4, <2>5 DEF Parsed
  <2>7. P[i][1] = k /\ P[N + 1][1] = k /\ DOMAIN P = 1..(N + 1)
    BY <2>3, <2>5, <2>6
  <2> HIDE DEF P
  <2>8. ~Compiles(P)
    BY <2>5, <2>7 DEF Compiles
  <2> QED BY <2>8 DEF TextAccepted, P
<1>7. ASSUME text' = [text EXCEPT !.mapping = Append(@, <<"nothing", "A">>)]
      PROVE  ~TextAccepted(text')
  <2> DEFINE new == Append(m, <<"nothing", "A">>)
  <2>1. text'.mapping = new
    BY <1>2, <1>7 DEF ProfileType
  <2>2. N + 1 \in DOMAIN new /\ new[N + 1] = <<"nothing", "A">>
    BY <1>4
  <2> HIDE DEF new
  <2>3. KeysNamed(new[N + 1][1]) = {}
    BY <2>2, NamesTell
  <2>4. ~Parses(text')
    BY <2>1, <2>2, <2>3 DEF Parses
  <2> QED BY <2>4 DEF TextAccepted
<1> DEFINE layout == text.layout
<1>8. Sound(layout)
  BY <1>2 DEF ProfileType
<1>9. ASSUME text' = [text EXCEPT !.layout.edges.left = "nobody"]
      PROVE  ~TextAccepted(text')
  <2> DEFINE edges == [layout.edges EXCEPT !["left"] = "nobody"]
  <2>1. text' = [text EXCEPT !.layout = [layout EXCEPT !.edges = edges]]
    BY <1>9
  <2> HIDE DEF edges
  <2>2. text'.layout = [layout EXCEPT !.edges = edges]
    BY <1>2, <2>1 DEF ProfileType
  <2>3. text'.layout.edges = edges /\ text'.layout.targets = layout.targets
    <3> HIDE DEF layout
    <3> QED BY <1>8, <2>2 DEF Sound
  <2>4. "left" \in DOMAIN edges /\ edges["left"] = "nobody"
    BY <1>8 DEF Sound, edges
  <2>5. "nobody" # Missing /\ "nobody" \notin ToSet(layout.targets)
    BY <1>8, ProfileTextAssumption DEF Sound
  <2> HIDE DEF layout
  <2>6. ~LayoutParses(text'.layout)
    BY <2>3, <2>4, <2>5 DEF LayoutParses
  <2> QED BY <2>6 DEF TextAccepted, Parses
<1>10. ASSUME text.layout.targets # <<>>,
              text' = [text EXCEPT !.layout.targets = Append(@, @[1])]
       PROVE  ~TextAccepted(text')
  <2> DEFINE t == layout.targets
             new == Append(t, t[1])
             L == Len(t)
  <2>1. text' = [text EXCEPT !.layout = [layout EXCEPT !.targets = new]]
    BY <1>10
  <2>2. t \in Seq(ToSet(t)) /\ t # <<>>
    BY <1>8, <1>10 DEF Sound
  <2>3. L \in Nat /\ L >= 1
    <3> HIDE DEF t
    <3> QED BY <2>2
  <2>4. 1 \in DOMAIN new /\ L + 1 \in DOMAIN new /\ new[1] = new[L + 1] /\ 1 # L + 1
    <3> HIDE DEF t
    <3> QED BY <2>2, <2>3
  <2> HIDE DEF new
  <2>5. text'.layout = [layout EXCEPT !.targets = new]
    BY <1>2, <2>1 DEF ProfileType
  <2>6. text'.layout.targets = new
    <3> HIDE DEF layout
    <3> QED BY <1>8, <2>5 DEF Sound
  <2>7. ~LayoutParses(text'.layout)
    BY <2>4, <2>6 DEF LayoutParses, IsInjective
  <2> QED BY <2>7 DEF TextAccepted, Parses
<1>11. ~TextAccepted(text')
  BY <1>6, <1>7, <1>9, <1>10 DEF Spoil
<1> QED BY <1>3, <1>11 DEF ProfileInv

LEMMA ProfileStep == ProfileInv /\ [ProfileTextNext]_profileTextVars => ProfileInv'
<1> SUFFICES ASSUME ProfileInv, [ProfileTextNext]_profileTextVars PROVE ProfileInv'
  OBVIOUS
<1>1. ASSUME meantProfile.ok, NEW i \in DOMAIN text.mapping, NEW j \in {1, 2},
             UseOtherKeyName(i, j)
      PROVE  ProfileInv'
  BY <1>1, OtherKeyNameSays
<1>2. ASSUME meantProfile.ok, NEW f \in Fields, UseOtherWord(f) PROVE ProfileInv'
  BY <1>2, OtherWordSays
<1>3. ASSUME meantProfile.ok, Spoil PROVE ProfileInv'
  BY <1>3, SpoilIsRefused
<1>4. CASE UNCHANGED profileTextVars
  <2>1. text' = text /\ meantProfile' = meantProfile
    BY <1>4 DEF profileTextVars
  <2>2. ProfileType' = ProfileType /\ \A K : Says(K)' = Says(K)
    BY <2>1 DEF ProfileType, Says
  <2>3. \A f : GivenText(text, f)' = GivenText(text, f)
    BY <2>1
  <2> QED BY <2>1, <2>2, <2>3 DEF ProfileInv
<1> QED BY <1>1, <1>2, <1>3, <1>4 DEF ProfileTextNext

LEMMA ProfileInvFollows == ASSUME ProfileInv PROVE TextIsFollowed
<1>1. CASE ~meantProfile.ok
  BY <1>1 DEF ProfileInv, TextIsFollowed
<1>2. CASE meantProfile.ok
  <2>1. PICK K : Says(K)
    BY <1>2 DEF ProfileInv
  <2>2. /\ ProfileType /\ text.layout = meantProfile.layout
        /\ \A f \in Fields : /\ GivenText(text, f) \in DOMAIN Words[f]
                             /\ Words[f][GivenText(text, f)] = meantProfile.modes[f]
    BY <1>2 DEF ProfileInv
  <2>3. /\ K \in Seq(Keys \X Keys) /\ Len(K) = Len(text.mapping) /\ DOMAIN K = 1..Len(K)
        /\ \A i, j \in 1..Len(K) : K[i][1] = K[j][1] => i = j
        /\ meantProfile.keys = {K[i] : i \in 1..Len(K)}
        /\ DOMAIN text.mapping = 1..Len(K)
    BY <2>1, <2>2 DEF Says, ProfileType
  <2>4. Parsed(text).mappings = K
    BY <2>1, <2>2, ParsedSays
  <2>5. \A i \in 1..Len(K) : K[i][1] \in Keys /\ K[i][2] \in Keys
    BY <2>3
  <2>6. TextAccepted(text)
    <3>1. \A i \in 1..Len(K) : \A j \in {1, 2} : KeysNamed(text.mapping[i][j]) # {}
      BY <2>1, <2>5, KeyIsFound DEF Says
    <3>2. Parses(text)
      BY <2>2, <2>3, <3>1 DEF Parses, ProfileType, ModesParse, Sound
    <3>3. Compiles(K)
      BY <2>3, <2>5, CodesTell DEF Compiles
    <3> QED BY <2>4, <3>2, <3>3 DEF TextAccepted
  <2>7. Parsed(text).modes = meantProfile.modes
    <3>1. Parsed(text).modes = [f \in Fields |-> Words[f][GivenText(text, f)]]
      BY DEF Parsed
    <3>2. meantProfile.modes = [f \in Fields |-> meantProfile.modes[f]]
      BY <2>2 DEF ProfileType
    <3> QED BY <2>2, <3>1, <3>2
  <2>8. Parsed(text).layout = meantProfile.layout
    BY <2>2 DEF Parsed
  <2> DEFINE table == KeyTable(K)
             mapped == {pair[1] : pair \in meantProfile.keys}
  <2>9. /\ \A i \in 1..Len(K) : table[CodeOf[K[i][1]]] = K[i][2]
        /\ \A k \in Keys : (\A i \in 1..Len(K) : K[i][1] # k) => table[CodeOf[k]] = k
    BY <2>3, TableHas
  <2> HIDE DEF table
  <2>10. \A pair \in meantProfile.keys : table[CodeOf[pair[1]]] = pair[2]
    BY <2>3, <2>9
  <2>11. \A k \in Keys \ mapped : table[CodeOf[k]] = k
    BY <2>3, <2>9
  <2> QED BY <1>2, <2>4, <2>6, <2>7, <2>8, <2>10, <2>11 DEF TextIsFollowed, table
<1> QED BY <1>1, <1>2 DEF ProfileInv

(* Every way to write a profile gives what is meant, and what contradicts  *)
(* itself is refused.                                                      *)
THEOREM ProfilesAreFollowed == ProfileTextSpec => []TextIsFollowed
<1>1. ProfileTextInit => ProfileInv
  BY InitProfile
<1>2. ProfileInv => TextIsFollowed
  BY ProfileInvFollows
<1> QED BY <1>1, <1>2, ProfileStep, PTL DEF ProfileTextSpec
=============================================================================
