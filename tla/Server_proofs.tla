---------------------------- MODULE Server_proofs ----------------------------
(***************************************************************************)
(* The parts of the server that share its store, each for any devices,     *)
(* users, editors, names, keys, policies and bounds: releases, registry,   *)
(* profiles, logins and the events that windows follow.                    *)
(***************************************************************************)
EXTENDS Registry, Profiles, Sessions, Releases, WellFoundedInduction,
        FiniteSetTheorems, SequenceTheorems, TLAPS

-----------------------------------------------------------------------------
(* Releases: whoever was offered a version lies in a bucket below the      *)
(* percentage of today, as long as that version is still the latest.       *)

AllAskedAs == UNION {AskedAs[d] : d \in Computers}

AnswerType == [id : AllAskedAs \cup {""}, device : Computers \cup {""}, version : Nat,
               action : {"none", "force", "download", "wait"}]

StillOffered(o) ==
  o[2] <= policy.latest /\ (o[2] = policy.latest => Bucket[o[1]] < policy.percent)

ReleasesInv ==
  /\ policy \in [latest : Nat \ {0}, minimum : Nat, percent : Percents]
  /\ answer \in AnswerType
  /\ offered \subseteq AllAskedAs \X Nat
  /\ answer.version <= policy.latest
  /\ \A o \in offered : StillOffered(o)
  /\ OfferStands

LEMMA BucketNumber == ASSUME NEW id \in AllAskedAs PROVE Bucket[id] \in Int
  BY ReleasesAssumption DEF AllAskedAs

LEMMA PercentNumber == ASSUME NEW p \in Percents PROVE p \in Int
  BY ReleasesAssumption

LEMMA InitReleases == ReleasesInit => ReleasesInv
<1> SUFFICES ASSUME ReleasesInit PROVE ReleasesInv
  OBVIOUS
<1>1. policy \in [latest : Nat \ {0}, minimum : Nat, percent : Percents]
  BY DEF ReleasesInit, FirstPolicies
<1>2. answer \in AnswerType /\ answer.version = 1 /\ answer.action = "none" /\ offered = {}
  BY DEF ReleasesInit, NoAnswer, AnswerType
<1> QED BY <1>1, <1>2 DEF ReleasesInv, OfferStands

LEMMA CheckKeeps ==
  ASSUME ReleasesInv, NEW d \in Computers, NEW id \in AskedAs[d], CheckRelease(d, id)
  PROVE  ReleasesInv'
<1> DEFINE action == AutoUpdateAction(installed[d], id)
<1>1. id \in AllAskedAs
  BY DEF AllAskedAs
<1>2. /\ policy' = policy
      /\ answer' = [id |-> id, device |-> d, version |-> policy.latest, action |-> action]
      /\ offered' = offered \cup (IF action = "download" THEN {<<id, policy.latest>>} ELSE {})
  BY DEF CheckRelease
<1>3. /\ action \in {"none", "force", "download", "wait"}
      /\ action = "download" => InRollout(id, policy.percent)
      /\ action = "wait" => ~InRollout(id, policy.percent)
  BY DEF AutoUpdateAction
<1>4. answer' \in AnswerType /\ answer'.version <= policy'.latest
  <2>1. policy.latest \in Nat
    BY DEF ReleasesInv
  <2> HIDE DEF action
  <2>2. [id |-> id, device |-> d, version |-> policy.latest, action |-> action] \in AnswerType
    BY <1>1, <1>3, <2>1 DEF AnswerType
  <2>3. policy.latest <= policy.latest
    BY <2>1
  <2> QED BY <1>2, <2>2, <2>3
<1>5. offered' \subseteq AllAskedAs \X Nat
  BY <1>1, <1>2 DEF ReleasesInv
<1>6. \A o \in offered' : StillOffered(o)'
  BY <1>2, <1>3 DEF ReleasesInv, StillOffered, InRollout
<1>7. OfferStands'
  <2>1. ASSUME action = "wait", <<id, policy.latest>> \in offered PROVE FALSE
    <3>1. Bucket[id] < policy.percent
      BY <2>1 DEF ReleasesInv, StillOffered
    <3> QED BY <2>1, <3>1, <1>3 DEF InRollout
  <2> QED BY <1>2, <2>1 DEF OfferStands
<1> QED BY <1>2, <1>4, <1>5, <1>6, <1>7 DEF ReleasesInv

LEMMA PolicyKeeps ==
  ASSUME ReleasesInv, NEW p \in Percents, Widen(p) \/ Release(p) \/ Retire
  PROVE  ReleasesInv'
<1>1. answer' = answer /\ offered' = offered
  BY DEF Widen, Release, Retire
<1>2. /\ policy' \in [latest : Nat \ {0}, minimum : Nat, percent : Percents]
      /\ policy'.latest \in {policy.latest, policy.latest + 1}
      /\ policy'.latest = policy.latest => policy'.percent >= policy.percent
  <2>1. policy \in [latest : Nat \ {0}, minimum : Nat, percent : Percents]
        /\ policy.percent \in Int
    BY PercentNumber DEF ReleasesInv
  <2>2. CASE Widen(p)
    BY <2>1, <2>2, PercentNumber DEF Widen
  <2>3. CASE Release(p)
    <3>1. policy' = [policy EXCEPT !.latest = policy.latest + 1, !.percent = p]
      BY <2>3 DEF Release
    <3>2. policy.latest \in Nat /\ policy.latest + 1 # policy.latest
          /\ policy.latest + 1 \in Nat \ {0}
      BY <2>1
    <3>3. policy' \in [latest : Nat \ {0}, minimum : Nat, percent : Percents]
          /\ policy'.latest = policy.latest + 1
      BY <2>1, <3>1, <3>2
    <3> QED BY <3>2, <3>3
  <2>4. CASE Retire
    BY <2>1, <2>4 DEF Retire
  <2> QED BY <2>2, <2>3, <2>4
<1>3. ASSUME NEW o \in offered PROVE StillOffered(o)'
  <2>1. o[1] \in AllAskedAs /\ o[2] \in Nat /\ StillOffered(o)
    BY DEF ReleasesInv
  <2>2. Bucket[o[1]] \in Int /\ policy.percent \in Int /\ policy'.percent \in Int
        /\ policy.latest \in Nat /\ policy'.latest \in Nat
    BY <1>2, <2>1, BucketNumber, PercentNumber DEF ReleasesInv
  <2> QED BY <1>2, <2>1, <2>2 DEF StillOffered
<1>4. answer.version <= policy'.latest
  <2>1. answer.version \in Nat /\ policy.latest \in Nat /\ answer.version <= policy.latest
    BY DEF ReleasesInv, AnswerType
  <2> QED BY <1>2, <2>1
<1> QED BY <1>1, <1>2, <1>3, <1>4 DEF ReleasesInv, OfferStands

LEMMA NextReleases == ReleasesInv /\ [ReleasesNext]_releasesVars => ReleasesInv'
<1> SUFFICES ASSUME ReleasesInv, [ReleasesNext]_releasesVars PROVE ReleasesInv'
  OBVIOUS
<1>1. ASSUME NEW d \in Computers, PrintUpdateCheck(d) PROVE ReleasesInv'
  BY <1>1, CheckKeeps DEF PrintUpdateCheck
<1>2. CASE Install
  <2>1. policy' = policy /\ offered' = offered /\ answer' = NoAnswer
    BY <1>2 DEF Install
  <2>2. NoAnswer \in AnswerType /\ NoAnswer.version <= policy.latest
    <3>1. policy.latest \in Nat \ {0}
      BY DEF ReleasesInv
    <3>2. NoAnswer \in AnswerType
      BY DEF NoAnswer, AnswerType
    <3>3. NoAnswer.version = 1
      BY DEF NoAnswer
    <3> QED BY <3>1, <3>2, <3>3
  <2>3. \A o \in offered' : StillOffered(o)'
    BY <2>1 DEF ReleasesInv, StillOffered
  <2>4. OfferStands'
    BY <2>1 DEF OfferStands, NoAnswer
  <2> QED BY <2>1, <2>2, <2>3, <2>4 DEF ReleasesInv
<1>3. ASSUME NEW p \in Percents, Widen(p) \/ Release(p) PROVE ReleasesInv'
  BY <1>3, PolicyKeeps
<1>4. CASE Retire
  BY <1>4, PolicyKeeps DEF ReleasesInv
<1>5. CASE UNCHANGED releasesVars
  BY <1>5 DEF releasesVars, ReleasesInv, OfferStands, StillOffered
<1> QED BY <1>1, <1>2, <1>3, <1>4, <1>5 DEF ReleasesNext

(* Whatever the versions, policies and hashes: who was offered a version   *)
(* is not told later to wait for it.                                       *)
THEOREM OffersAreKept == ReleasesSpec => []OfferStands
<1>1. ReleasesInv => OfferStands
  BY DEF ReleasesInv
<1> QED BY <1>1, InitReleases, NextReleases, PTL DEF ReleasesSpec

-----------------------------------------------------------------------------
(* Registry: references to devices, and the version of their candidates.   *)

DeviceType == [key : Keys, name : Names, disabled : BOOLEAN]
PresenceType == [lan : Ips \cup {None}, public : Ips, online : BOOLEAN, version : Nat]

\* What a client read is the presence of today, or an older version of it, unless the record
\* was removed since.
ReadEarlier(d) ==
  seen[d] # None /\ d \notin removed =>
    /\ presence[d] # None
    /\ seen[d].version <= presence[d].version
    /\ seen[d].version = presence[d].version =>
         /\ seen[d].lan = presence[d].lan
         /\ Online(d) => seen[d].online

RegistryType ==
  /\ devices \in [Ids -> DeviceType \cup {None}]
  /\ presence \in [Ids -> PresenceType \cup {None}]
  /\ seen \in [Ids -> PresenceType \cup {None}]
  /\ layout \in [Slots -> Ids \cup {None}]
  /\ profiles \subseteq Ids \X Ids

RegistryInv ==
  /\ RegistryType
  /\ NoDanglingRefs
  /\ \A d \in Ids : ReadEarlier(d)

LEMMA RecordsAreThere ==
  /\ \A r \in DeviceType : r # None
  /\ \A p \in PresenceType : p # None
  BY RegistryAssumption DEF DeviceType, PresenceType

LEMMA InitRegistry == RegistryInit => RegistryInv
  BY DEF RegistryInit, RegistryInv, RegistryType, NoDanglingRefs, ReadEarlier

\* References stay good as long as no device they name leaves both sets.
LEMMA RefsStay ==
  ASSUME NoDanglingRefs, Known \cup dropped \subseteq Known' \cup dropped',
         UNCHANGED <<layout, profiles>>
  PROVE  NoDanglingRefs'
  BY DEF NoDanglingRefs

LEMMA RegisterKeeps ==
  ASSUME RegistryInv, NEW i \in Identities, NEW name \in Names, Register(i[1], i[2], name)
  PROVE  RegistryInv'
<1>1. i[1] \in Ids /\ i[2] \in Keys
  BY RegistryAssumption
<1>2. PICK d \in Record(i[1], i[2]) :
        /\ devices' = IF d \in Known THEN devices
                      ELSE [devices EXCEPT ![d] = Device(i[2], name)]
        /\ dropped' = dropped \ {d}
        /\ UNCHANGED <<presence, expired, layout, profiles, seen, removed>>
  BY DEF Register
<1>3. d \in Ids
  BY <1>1, <1>2 DEF Record, Holders, Known
<1>4. Device(i[2], name) \in DeviceType /\ Device(i[2], name) # None
  <2>1. Device(i[2], name) \in DeviceType
    BY <1>1 DEF Device, DeviceType
  <2> QED BY <2>1, RecordsAreThere
<1>5. devices' \in [Ids -> DeviceType \cup {None}]
  <2>1. devices \in [Ids -> DeviceType \cup {None}]
    BY DEF RegistryInv, RegistryType
  <2> QED BY <2>1, <1>2, <1>4
<1>6. d \in Known' /\ Known \subseteq Known'
  <2>1. CASE d \in Known
    BY <2>1, <1>2 DEF Known
  <2>2. CASE d \notin Known
    <3>1. devices' = [devices EXCEPT ![d] = Device(i[2], name)]
      BY <2>2, <1>2
    <3> QED BY <3>1, <1>3, <1>4 DEF RegistryInv, RegistryType, Known
  <2> QED BY <2>1, <2>2
<1>7. NoDanglingRefs'
  BY <1>2, <1>6, RefsStay DEF RegistryInv
<1> QED BY <1>2, <1>5, <1>7 DEF RegistryInv, RegistryType, ReadEarlier, Online

LEMMA EditKeeps ==
  ASSUME RegistryInv, NEW d \in Ids, NEW name \in Names, NEW disabled \in BOOLEAN,
         NEW key \in Keys, Update(d, name, disabled) \/ Reauthorize(d, key)
  PROVE  RegistryInv'
<1>1. d \in Known /\ devices[d] \in DeviceType
  BY DEF Update, Reauthorize, Known, RegistryInv, RegistryType
<1>2. PICK r \in DeviceType : devices' = [devices EXCEPT ![d] = r]
  <2>1. CASE Update(d, name, disabled)
    <3>1. devices' = [devices EXCEPT ![d] =
                        [[devices[d] EXCEPT !.name = name] EXCEPT !.disabled = disabled]]
      BY <2>1, <1>1 DEF Update, RegistryInv, RegistryType
    <3>2. [[devices[d] EXCEPT !.name = name] EXCEPT !.disabled = disabled] \in DeviceType
      BY <1>1 DEF DeviceType
    <3> QED BY <3>1, <3>2
  <2>2. CASE Reauthorize(d, key)
    <3>1. devices' = [devices EXCEPT ![d] =
                        [[devices[d] EXCEPT !.key = key] EXCEPT !.disabled = FALSE]]
      BY <2>2, <1>1 DEF Reauthorize, RegistryInv, RegistryType
    <3>2. [[devices[d] EXCEPT !.key = key] EXCEPT !.disabled = FALSE] \in DeviceType
      BY <1>1 DEF DeviceType
    <3> QED BY <3>1, <3>2
  <2> QED BY <2>1, <2>2
<1>3. UNCHANGED <<presence, expired, layout, profiles, dropped, seen, removed>>
  BY DEF Update, Reauthorize
<1>4. r # None /\ devices' \in [Ids -> DeviceType \cup {None}]
  BY <1>2, RegistryAssumption DEF DeviceType, RegistryInv, RegistryType
<1>5. Known \subseteq Known'
  BY <1>2, <1>4 DEF Known, RegistryInv, RegistryType
<1>6. NoDanglingRefs'
  BY <1>3, <1>5, RefsStay DEF RegistryInv
<1> QED BY <1>3, <1>4, <1>6 DEF RegistryInv, RegistryType, ReadEarlier, Online

\* A new presence is newer, or that of a device that was online, with its LAN address.
LEMMA PresenceKeeps ==
  ASSUME RegistryInv, NEW d \in Ids, NEW p \in PresenceType,
         presence' = [presence EXCEPT ![d] = p],
         presence[d] # None => \/ p.version > presence[d].version
                               \/ /\ p.version = presence[d].version
                                  /\ p.lan = presence[d].lan /\ Online(d),
         expired' \in {expired \ {d}, expired \cup {d}},
         UNCHANGED <<devices, layout, profiles, dropped, seen, removed>>
  PROVE  RegistryInv'
<1>1. p # None /\ p.version \in Nat
  BY RegistryAssumption DEF PresenceType
<1>2. presence' \in [Ids -> PresenceType \cup {None}]
  BY DEF RegistryInv, RegistryType
<1>3. NoDanglingRefs'
  BY RefsStay DEF RegistryInv, Known
<1>4. ASSUME NEW e \in Ids PROVE ReadEarlier(e)'
  <2>1. CASE e # d
    <3>1. presence'[e] = presence[e] /\ seen' = seen /\ (e \in expired' <=> e \in expired)
          /\ removed' = removed /\ ReadEarlier(e)
      BY <2>1 DEF RegistryInv, RegistryType
    <3> QED BY ONLY <3>1 DEF ReadEarlier, Online
  <2>2. CASE e = d
    <3>1. presence'[d] = p /\ seen'[d] = seen[d] /\ removed' = removed /\ ReadEarlier(d)
      BY DEF RegistryInv, RegistryType
    <3>2. ASSUME seen[d] # None, d \notin removed
          PROVE  presence[d] \in PresenceType /\ seen[d].version \in Nat
                 /\ presence[d].version \in Nat
      BY <3>1, <3>2 DEF ReadEarlier, RegistryInv, RegistryType, PresenceType
    <3>3. ASSUME seen[d] # None, d \notin removed
          PROVE  /\ seen[d].version <= p.version
                 /\ seen[d].version = p.version => seen[d].lan = p.lan /\ seen[d].online
      <4>1. /\ presence[d] # None /\ seen[d].version <= presence[d].version
            /\ seen[d].version = presence[d].version =>
                 seen[d].lan = presence[d].lan /\ (Online(d) => seen[d].online)
        BY ONLY <3>1, <3>3 DEF ReadEarlier
      <4>2. CASE p.version > presence[d].version
        BY <1>1, <3>2, <3>3, <4>1, <4>2
      <4>3. CASE p.version = presence[d].version /\ p.lan = presence[d].lan /\ Online(d)
        BY <4>1, <4>3
      <4> QED BY <4>1, <4>2, <4>3
    <3> QED BY <2>2, <1>1, <3>1, <3>3 DEF ReadEarlier
  <2> QED BY <2>1, <2>2
<1> QED BY <1>2, <1>3, <1>4 DEF RegistryInv, RegistryType

LEMMA HeartbeatKeeps ==
  ASSUME RegistryInv, NEW d \in Ids, NEW r \in Reports, Heartbeat(d, r[1], r[2])
  PROVE  RegistryInv'
<1> DEFINE version == IF PresenceChanges(d, r[1]) THEN NextVersion(d) ELSE presence[d].version
           p == Presence(r[1], r[2], TRUE, version)
<1>1. presence' = [presence EXCEPT ![d] = p] /\ expired' = expired \ {d}
      /\ UNCHANGED <<devices, layout, profiles, dropped, seen, removed>>
  BY DEF Heartbeat
<1>2. r[1] \in Ips \cup {None} /\ r[2] \in Ips
  BY RegistryAssumption
<1>3. ASSUME version \in Nat
      PROVE  p \in PresenceType /\ p.version = version /\ p.lan = r[1]
  BY <1>2, <1>3 DEF Presence, PresenceType
<1>4. CASE presence[d] = None
  <2>1. version = 1
    BY <1>4 DEF PresenceChanges, NextVersion
  <2> HIDE DEF p, version
  <2>2. p \in PresenceType
    BY <1>3, <2>1
  <2> QED BY <1>1, <1>4, <2>2, PresenceKeeps
<1>5. CASE presence[d] # None
  <2>1. presence[d] \in PresenceType /\ presence[d].version \in Nat
    BY <1>5 DEF RegistryInv, RegistryType, PresenceType
  <2>2. /\ version \in Nat
        /\ \/ version = presence[d].version + 1
           \/ version = presence[d].version /\ presence[d].lan = r[1] /\ Online(d)
    BY <1>5, <2>1 DEF PresenceChanges, NextVersion
  <2> HIDE DEF p, version
  <2>3. \/ p.version > presence[d].version
        \/ p.version = presence[d].version /\ p.lan = presence[d].lan /\ Online(d)
    BY <1>3, <2>1, <2>2
  <2> QED BY <1>1, <1>3, <2>2, <2>3, PresenceKeeps
<1> QED BY <1>4, <1>5

LEMMA SetOffline ==
  ASSUME NEW q \in PresenceType, NEW v \in Nat
  PROVE  /\ [[q EXCEPT !.online = FALSE] EXCEPT !.version = v] \in PresenceType
         /\ [[q EXCEPT !.online = FALSE] EXCEPT !.version = v].version = v
BY DEF PresenceType

LEMMA OfflineKeeps ==
  ASSUME RegistryInv, NEW d \in Ids, MarkOffline(d)
  PROVE  RegistryInv'
<1>1. presence[d] \in PresenceType /\ presence[d].version \in Nat
  BY DEF MarkOffline, RegistryInv, RegistryType, PresenceType
<1> DEFINE v == presence[d].version + 1
           p == [[presence[d] EXCEPT !.online = FALSE] EXCEPT !.version = v]
<1>2. presence' = [presence EXCEPT ![d] = p] /\ expired' = expired \cup {d}
      /\ UNCHANGED <<devices, layout, profiles, dropped, seen, removed>>
  BY DEF MarkOffline, RegistryInv, RegistryType
<1>3. v \in Nat /\ v > presence[d].version
  BY <1>1
<1>4. p \in PresenceType /\ p.version = v
  <2> HIDE DEF v
  <2> QED BY <1>1, <1>3, SetOffline
<1> HIDE DEF p, v
<1> QED BY <1>2, <1>3, <1>4, PresenceKeeps

LEMMA ExpireKeeps ==
  ASSUME RegistryInv, NEW d \in Ids, Expire(d)
  PROVE  RegistryInv'
<1>1. expired \subseteq expired'
      /\ UNCHANGED <<devices, presence, layout, profiles, dropped, seen, removed>>
  BY DEF Expire
<1>2. RegistryType' /\ NoDanglingRefs'
  BY <1>1, RefsStay DEF RegistryInv, RegistryType, Known
<1>3. \A e \in Ids : ReadEarlier(e)'
  BY <1>1 DEF RegistryInv, ReadEarlier, Online
<1> QED BY <1>2, <1>3 DEF RegistryInv

LEMMA DropKeeps ==
  ASSUME RegistryInv, NEW d \in Ids, NEW r \in Reports, HeartbeatDrops(d, r[1], r[2])
  PROVE  RegistryInv'
<1>1. /\ devices' = [devices EXCEPT ![d] = None]
      /\ presence' = [presence EXCEPT ![d] = None]
      /\ dropped' = dropped \cup {d}
      /\ removed' = removed \cup {d} /\ expired' = expired \ {d}
      /\ UNCHANGED <<layout, profiles, seen>>
  BY DEF HeartbeatDrops
<1>2. Known \subseteq Known' \cup {d}
  BY <1>1 DEF Known, RegistryInv, RegistryType
<1>3. NoDanglingRefs'
  BY <1>1, <1>2, RefsStay DEF RegistryInv
<1>4. RegistryType'
  BY <1>1 DEF RegistryInv, RegistryType
<1>5. ASSUME NEW e \in Ids, e \notin removed' PROVE ReadEarlier(e)'
  <2>1. e # d /\ presence'[e] = presence[e] /\ (e \in expired' <=> e \in expired)
        /\ e \notin removed /\ seen' = seen /\ ReadEarlier(e)
    BY <1>1, <1>5 DEF RegistryInv, RegistryType
  <2> QED BY ONLY <2>1 DEF ReadEarlier, Online
<1> QED BY <1>3, <1>4, <1>5 DEF RegistryInv, ReadEarlier

LEMMA DeleteKeeps ==
  ASSUME RegistryInv, NEW d \in Ids, Delete(d)
  PROVE  RegistryInv'
<1> DEFINE gone == Group(d)
<1>1. gone \subseteq Ids
  BY DEF Group, Known
<1>2. /\ devices' = [e \in Ids |-> IF e \in gone THEN None ELSE devices[e]]
      /\ presence' = [e \in Ids |-> IF e \in gone THEN None ELSE presence[e]]
      /\ expired' = expired \ gone
      /\ removed' = removed \cup gone /\ seen' = seen
      /\ layout' = [s \in Slots |-> IF layout[s] \in gone THEN None ELSE layout[s]]
      /\ profiles' = {p \in profiles : p[1] \notin gone /\ p[2] \notin gone}
      /\ dropped' = dropped \ gone
  BY DEF Delete, Cleared
<1> HIDE DEF gone
<1>3. RegistryType'
  BY <1>2 DEF RegistryInv, RegistryType
<1>4. Known' = Known \ gone
  BY <1>2 DEF Known
<1>5. NoDanglingRefs'
  BY <1>2, <1>4, RegistryAssumption DEF RegistryInv, NoDanglingRefs
<1>6. ASSUME NEW e \in Ids, e \notin removed' PROVE ReadEarlier(e)'
  <2>1. e \notin gone /\ presence'[e] = presence[e] /\ (e \in expired' <=> e \in expired)
        /\ e \notin removed /\ seen' = seen /\ ReadEarlier(e)
    BY <1>2, <1>6 DEF RegistryInv
  <2> QED BY ONLY <2>1 DEF ReadEarlier, Online
<1> QED BY <1>3, <1>5, <1>6 DEF RegistryInv, ReadEarlier

\* What a client is shown is of the type of a presence, and under its version.
LEMMA ShownIs ==
  ASSUME RegistryInv, NEW d \in Ids
  PROVE  /\ Shown(d) \in PresenceType \cup {None}
         /\ Shown(d) # None => presence[d] # None
         /\ presence[d] # None =>
              /\ Shown(d).version = presence[d].version /\ presence[d].version \in Nat
              /\ Shown(d).lan = presence[d].lan /\ Shown(d).online = Online(d)
<1>1. presence[d] \in PresenceType \cup {None} /\ Online(d) \in BOOLEAN
  BY DEF RegistryInv, RegistryType, PresenceType, Online
<1> DEFINE on == Online(d)
<1>2. Shown(d) = IF presence[d] = None THEN None ELSE [presence[d] EXCEPT !.online = on]
  BY DEF Shown
<1> HIDE DEF on
<1>3. on \in BOOLEAN /\ on = Online(d)
  BY <1>1 DEF on
<1>4. CASE presence[d] = None
  BY <1>2, <1>4
<1>5. CASE presence[d] # None
  <2>1. presence[d] \in PresenceType /\ Shown(d) = [presence[d] EXCEPT !.online = on]
    BY <1>1, <1>2, <1>5
  <2> HIDE DEF Shown
  <2>2. Shown(d) \in PresenceType /\ Shown(d).online = on
        /\ Shown(d).version = presence[d].version /\ Shown(d).lan = presence[d].lan
        /\ presence[d].version \in Nat
    BY ONLY <1>3, <2>1 DEF PresenceType
  <2> QED BY <1>3, <1>5, <2>2
<1> QED BY <1>4, <1>5

LEMMA ReadKeeps ==
  ASSUME RegistryInv, ListDevices
  PROVE  RegistryInv'
<1>1. seen' = [d \in Ids |-> IF d \in Known THEN Shown(d) ELSE seen[d]]
      /\ removed' = removed \ Known
      /\ UNCHANGED <<devices, presence, expired, layout, profiles, dropped>>
  BY DEF ListDevices
<1>2. RegistryType'
  <2>1. \A d \in Ids : seen'[d] \in PresenceType \cup {None}
    BY <1>1, ShownIs DEF RegistryInv, RegistryType
  <2>2. seen' \in [Ids -> PresenceType \cup {None}]
    BY <1>1, <2>1
  <2> QED BY <1>1, <2>2 DEF RegistryInv, RegistryType
<1>3. NoDanglingRefs'
  BY <1>1, RefsStay DEF RegistryInv, Known
<1>4. ASSUME NEW e \in Ids PROVE ReadEarlier(e)'
  <2>1. CASE e \in Known
    <3>1. seen'[e] = Shown(e) /\ presence' = presence /\ expired' = expired
      BY <1>1, <2>1
    <3>2. ASSUME seen'[e] # None
          PROVE  /\ presence[e] # None /\ seen'[e].lan = presence[e].lan
                 /\ seen'[e].version = presence[e].version /\ presence[e].version \in Nat
                 /\ seen'[e].online = Online(e)
      BY <3>1, <3>2, ShownIs
    <3>3. Online(e)' <=> Online(e)
      BY ONLY <3>1 DEF Online
    <3>4. seen'[e] # None => presence[e].version <= presence[e].version
      BY <3>2
    <3> QED BY ONLY <3>1, <3>2, <3>3, <3>4 DEF ReadEarlier
  <2>2. CASE e \notin Known
    <3>1. seen'[e] = seen[e] /\ presence' = presence /\ expired' = expired
          /\ (e \in removed' <=> e \in removed) /\ ReadEarlier(e)
      BY <1>1, <2>2 DEF RegistryInv
    <3> QED BY ONLY <3>1 DEF ReadEarlier, Online
  <2> QED BY <2>1, <2>2
<1> QED BY <1>2, <1>3, <1>4 DEF RegistryInv

LEMMA ReferKeeps ==
  ASSUME RegistryInv,
         \/ \E slots \in Layouts : SetLayout(slots)
         \/ \E p \in Pairs : SaveProfile(p[1], p[2])
  PROVE  RegistryInv'
<1>1. UNCHANGED <<devices, presence, expired, dropped, seen, removed>>
  BY DEF SetLayout, SaveProfile
<1>2. layout' \in [Slots -> Ids \cup {None}] /\ profiles' \subseteq Ids \X Ids
  <2>1. layout \in [Slots -> Ids \cup {None}] /\ profiles \subseteq Ids \X Ids
    BY DEF RegistryInv, RegistryType
  <2>2. ASSUME NEW slots \in Layouts, SetLayout(slots)
        PROVE  layout' \in [Slots -> Ids \cup {None}] /\ profiles' = profiles
    BY <2>2, RegistryAssumption DEF SetLayout
  <2>3. ASSUME NEW p \in Pairs, SaveProfile(p[1], p[2])
        PROVE  layout' = layout /\ profiles' \subseteq Ids \X Ids
    BY <2>1, <2>3, RegistryAssumption DEF SaveProfile
  <2> QED BY <2>1, <2>2, <2>3
<1>3. NoDanglingRefs'
  <2>1. ASSUME NEW slots \in Layouts, SetLayout(slots) PROVE NoDanglingRefs'
    BY <1>1, <2>1 DEF SetLayout, RegistryInv, NoDanglingRefs, Known
  <2>2. ASSUME NEW p \in Pairs, SaveProfile(p[1], p[2]) PROVE NoDanglingRefs'
    BY <1>1, <2>2 DEF SaveProfile, RegistryInv, NoDanglingRefs, Known
  <2> QED BY <2>1, <2>2
<1> QED BY <1>1, <1>2, <1>3 DEF RegistryInv, RegistryType, ReadEarlier, Online

LEMMA NextRegistry == RegistryInv /\ [RegistryNext]_registryVars => RegistryInv'
<1> SUFFICES ASSUME RegistryInv, [RegistryNext]_registryVars PROVE RegistryInv'
  OBVIOUS
<1>1. ASSUME NEW i \in Identities, NEW name \in Names, Register(i[1], i[2], name)
      PROVE  RegistryInv'
  BY <1>1, RegisterKeeps
<1>2. ASSUME NEW d \in Ids, NEW name \in Names, NEW disabled \in BOOLEAN,
             Update(d, name, disabled)
      PROVE  RegistryInv'
  <2>1. devices[d] \in DeviceType
    BY <1>2 DEF Update, Known, RegistryInv, RegistryType
  <2>2. devices[d].key \in Keys
    BY <2>1 DEF DeviceType
  <2> QED BY <1>2, <2>2, EditKeeps
<1>3. ASSUME NEW d \in Ids, NEW key \in Keys, Reauthorize(d, key)
      PROVE  RegistryInv'
  <2>1. devices[d] \in DeviceType
    BY <1>3 DEF Reauthorize, Known, RegistryInv, RegistryType
  <2>2. devices[d].name \in Names
    BY <2>1 DEF DeviceType
  <2> QED BY <1>3, <2>2, EditKeeps
<1>4. ASSUME NEW d \in Ids, NEW r \in Reports,
             Heartbeat(d, r[1], r[2]) \/ HeartbeatDrops(d, r[1], r[2])
      PROVE  RegistryInv'
  BY <1>4, HeartbeatKeeps, DropKeeps
<1>5. ASSUME NEW d \in Ids, MarkOffline(d) \/ Expire(d) \/ Delete(d)
      PROVE  RegistryInv'
  BY <1>5, OfflineKeeps, DeleteKeeps, ExpireKeeps
<1>6. CASE UNCHANGED registryVars
  BY <1>6 DEF registryVars, RegistryInv, RegistryType, NoDanglingRefs, ReadEarlier, Known, Online
<1>7. CASE \/ \E slots \in Layouts : SetLayout(slots)
           \/ \E p \in Pairs : SaveProfile(p[1], p[2])
  BY <1>7, ReferKeeps
<1>8. CASE ListDevices
  BY <1>8, ReadKeeps
<1> QED BY <1>1, <1>2, <1>3, <1>4, <1>5, <1>6, <1>7, <1>8 DEF RegistryNext

(* Layout and profiles name devices that exist, or that their own          *)
(* heartbeat removed, after any registrations, edits and deletions.        *)
THEOREM RefsAreGood == RegistrySpec => []NoDanglingRefs
<1>1. RegistryInv => NoDanglingRefs
  BY DEF RegistryInv
<1> QED BY <1>1, InitRegistry, NextRegistry, PTL DEF RegistrySpec

(* The LAN candidates read earlier are still right, and a device shown as  *)
(* offline is not online, as long as their version is the current one and  *)
(* the record was not removed in between, through expiries and changes of  *)
(* address.                                                                *)
THEOREM VersionsTell == RegistrySpec => []SameVersionSameCandidates
<1>1. RegistryInv => SameVersionSameCandidates
  BY DEF RegistryInv, ReadEarlier, SameVersionSameCandidates
<1> QED BY <1>1, InitRegistry, NextRegistry, PTL DEF RegistrySpec

-----------------------------------------------------------------------------
(* Registry: keys.  With the type of the registry the property is          *)
(* inductive by itself.                                                    *)

\* Devices keep their keys, and who had his from an authorisation still has.
LEMMA KeysStay ==
  ASSUME KeyIdentifiesDevice, Known' \subseteq Known,
         \A d \in Known' : /\ devices'[d].key = devices[d].key
                           /\ d \in authorised => d \in authorised'
  PROVE  KeyIdentifiesDevice'
  BY DEF KeyIdentifiesDevice

LEMMA RegisterKeepsKeys ==
  ASSUME RegistryInv, KeyIdentifiesDevice, NEW i \in Identities, NEW name \in Names,
         Register(i[1], i[2], name)
  PROVE  KeyIdentifiesDevice'
<1>1. i[1] \in Ids /\ i[2] \in Keys
  BY RegistryAssumption
<1>2. PICK d \in Record(i[1], i[2]) :
        /\ d \in Known => devices[d].key = i[2]
        /\ devices' = IF d \in Known THEN devices
                      ELSE [devices EXCEPT ![d] = Device(i[2], name)]
        /\ authorised' = authorised
  BY DEF Register
<1>3. CASE d \in Known
  BY <1>2, <1>3, KeysStay DEF Known
<1>4. CASE d \notin Known
  <2>1. d = i[1] /\ Holders(i[2]) = {}
    BY <1>2, <1>4 DEF Record, Holders
  <2>2. devices' = [devices EXCEPT ![d] = Device(i[2], name)]
    BY <1>2, <1>4
  <2>3. devices'[d].key = i[2] /\ \A e \in Ids \ {d} : devices'[e] = devices[e]
    BY <1>1, <2>1, <2>2 DEF RegistryInv, RegistryType, Device
  <2>4. \A e \in Known' : e = d \/ (e # d /\ e \in Known /\ devices'[e] = devices[e])
    BY <2>3 DEF Known
  <2>5. \A e \in Known : devices[e].key # i[2]
    BY <2>1 DEF Holders
  <2> QED BY <1>2, <2>3, <2>4, <2>5 DEF KeyIdentifiesDevice
<1> QED BY <1>3, <1>4

LEMMA ReauthorizeKeepsKeys ==
  ASSUME RegistryInv, KeyIdentifiesDevice, NEW d \in Ids, NEW key \in Keys,
         Reauthorize(d, key)
  PROVE  KeyIdentifiesDevice'
<1>1. devices[d] \in DeviceType /\ d \in Known
  BY DEF Reauthorize, Known, RegistryInv, RegistryType
<1>2. /\ \A e \in Ids \ {d} : devices'[e] = devices[e]
      /\ authorised' = authorised \cup {d}
  BY <1>1 DEF Reauthorize, RegistryInv, RegistryType
<1>3. \A e \in Known' : e = d \/ (e \in Known /\ devices'[e] = devices[e])
  BY <1>2 DEF Known
<1> QED BY <1>2, <1>3 DEF KeyIdentifiesDevice

LEMMA NextKeys ==
  RegistryInv /\ KeyIdentifiesDevice /\ [RegistryNext]_registryVars => KeyIdentifiesDevice'
<1> SUFFICES ASSUME RegistryInv, KeyIdentifiesDevice, [RegistryNext]_registryVars
             PROVE  KeyIdentifiesDevice'
  OBVIOUS
<1>1. ASSUME NEW i \in Identities, NEW name \in Names, Register(i[1], i[2], name)
      PROVE  KeyIdentifiesDevice'
  BY <1>1, RegisterKeepsKeys
<1>2. ASSUME NEW d \in Ids, NEW name \in Names, NEW disabled \in BOOLEAN,
             Update(d, name, disabled)
      PROVE  KeyIdentifiesDevice'
  <2>1. devices[d] \in DeviceType /\ d \in Known
    BY <1>2 DEF Update, Known, RegistryInv, RegistryType
  <2>2. \A e \in Known' : e \in Known /\ devices'[e].key = devices[e].key
    BY <1>2, <2>1 DEF Update, Known, RegistryInv, RegistryType, DeviceType
  <2> QED BY <1>2, <2>2, KeysStay DEF Update
<1>3. ASSUME NEW d \in Ids, NEW key \in Keys, Reauthorize(d, key)
      PROVE  KeyIdentifiesDevice'
  BY <1>3, ReauthorizeKeepsKeys
<1>4. ASSUME NEW d \in Ids, NEW r \in Reports, HeartbeatDrops(d, r[1], r[2])
      PROVE  KeyIdentifiesDevice'
  <2>1. devices' = [devices EXCEPT ![d] = None] /\ authorised' = authorised \ {d}
    BY <1>4 DEF HeartbeatDrops
  <2>2. \A e \in Known' : e \in Known /\ devices'[e] = devices[e] /\ e # d
    BY <2>1 DEF Known, RegistryInv, RegistryType
  <2> QED BY <2>1, <2>2, KeysStay
<1>5. ASSUME NEW d \in Ids, Delete(d)
      PROVE  KeyIdentifiesDevice'
  <2> DEFINE gone == Group(d)
  <2>1. devices' = [e \in Ids |-> IF e \in gone THEN None ELSE devices[e]]
        /\ authorised' = authorised \ gone
    BY <1>5 DEF Delete
  <2> HIDE DEF gone
  <2>2. \A e \in Known' : e \in Known /\ devices'[e] = devices[e] /\ e \notin gone
    BY <2>1 DEF Known
  <2> QED BY <2>1, <2>2, KeysStay
<1>6. CASE UNCHANGED <<devices, authorised>>
  BY <1>6, KeysStay DEF Known
<1>7. ASSUME NEW d \in Ids, NEW r \in Reports, Heartbeat(d, r[1], r[2])
      PROVE  UNCHANGED <<devices, authorised>>
  BY <1>7 DEF Heartbeat
<1>8. ASSUME NEW d \in Ids, MarkOffline(d) \/ Expire(d)
      PROVE  UNCHANGED <<devices, authorised>>
  BY <1>8 DEF MarkOffline, Expire
<1>9. ASSUME \/ ListDevices
             \/ \E slots \in Layouts : SetLayout(slots)
             \/ \E p \in Pairs : SaveProfile(p[1], p[2])
      PROVE  UNCHANGED <<devices, authorised>>
  BY <1>9 DEF ListDevices, SetLayout, SaveProfile
<1> QED
  BY <1>1, <1>2, <1>3, <1>4, <1>5, <1>6, <1>7, <1>8, <1>9 DEF RegistryNext, registryVars

(* Two records have one public key only if an authorisation gave it to one *)
(* of them, for any computers that lose their id or their key, and any     *)
(* deletions: registering makes no second record for a key.                *)
THEOREM KeysTell == RegistrySpec => []KeyIdentifiesDevice
<1>1. RegistryInit => KeyIdentifiesDevice
  BY DEF RegistryInit, KeyIdentifiesDevice, Known
<1>2. RegistryInv /\ KeyIdentifiesDevice /\ [RegistryNext]_registryVars
        => (RegistryInv /\ KeyIdentifiesDevice)'
  BY NextRegistry, NextKeys
<1> QED BY <1>1, <1>2, InitRegistry, PTL DEF RegistrySpec

-----------------------------------------------------------------------------
(* Profiles: what an editor read is the profile of today, or an older      *)
(* version of it; what was answered for is in memory and in the file.      *)

ProfileType == [config : Nat, version : Nat, revision : Nat]
CopyType == [config : Nat, version : Nat, life : Nat]
StoreType == [known : BOOLEAN, profile : ProfileType \cup {NoConfig},
              history : Seq(ProfileType), revision : Nat]

\* The copy of an editor, if the profile was not removed since.
CopyEarlier(e) ==
  copy[e] # NoConfig =>
    /\ copy[e].life <= life
    /\ copy[e].life = life =>
         /\ store.profile # NoConfig
         /\ copy[e].version <= store.profile.version
         /\ copy[e].version = store.profile.version => copy[e].config = store.profile.config

ProfilesInv ==
  /\ store \in StoreType /\ file \in StoreType
  /\ copy \in [Editors -> CopyType \cup {NoConfig}]
  /\ life \in Nat /\ configs \in Nat
  /\ \A e \in Editors : CopyEarlier(e)
  /\ answered \subseteq Configs(store)
  /\ AnsweredIsSaved
  /\ NoLostUpdate

LEMMA ProfilesAreThere ==
  /\ \A p \in ProfileType : p # NoConfig
  /\ \A c \in CopyType : c # NoConfig
  BY ProfilesAssumption DEF ProfileType, CopyType

LEMMA InitProfiles == ProfilesInit => ProfilesInv
<1> SUFFICES ASSUME ProfilesInit PROVE ProfilesInv
  OBVIOUS
<1>1. store \in StoreType /\ file = store
  BY DEF ProfilesInit, StoreType
<1> QED BY <1>1 DEF ProfilesInit, ProfilesInv, CopyEarlier, AnsweredIsSaved, NoLostUpdate

\* Every handler writes the file or fails to, and answers for c only if it did.
LEMMA CommitSaves ==
  ASSUME ProfilesInv, NEW new \in StoreType, NEW c, Commit(new, c),
         Configs(store) \cup ({c} \ {NoConfig}) \subseteq Configs(new)
  PROVE  /\ store' \in StoreType /\ file' \in StoreType
         /\ answered' \subseteq Configs(store)'
         /\ AnsweredIsSaved'
<1>1. store' = new
  BY DEF Commit
<1>2. CASE Saved(new) /\ answered' = answered \cup ({c} \ {NoConfig})
  BY <1>1, <1>2 DEF Saved, ProfilesInv, AnsweredIsSaved, Configs
<1>3. CASE NotSaved /\ UNCHANGED answered
  BY <1>1, <1>3 DEF NotSaved, ProfilesInv, AnsweredIsSaved, Configs
<1> QED BY <1>2, <1>3 DEF Commit

\* A write archives the profile there was, so no configuration is forgotten.
LEMMA ReplacedKeeps ==
  ASSUME ProfilesInv, NEW c \in Nat
  PROVE  /\ Replaced(c) \in StoreType
         /\ Replaced(c).profile = Profile(c, NextProfileVersion, store.revision + 1)
         /\ NextProfileVersion \in Nat
         /\ store.profile # NoConfig => NextProfileVersion = store.profile.version + 1
         /\ Configs(store) \cup {c} \subseteq Configs(Replaced(c))
<1> DEFINE p == Profile(c, NextProfileVersion, store.revision + 1)
<1>1. store \in StoreType
  BY DEF ProfilesInv
<1>2. /\ NextProfileVersion \in Nat
      /\ store.profile # NoConfig => NextProfileVersion = store.profile.version + 1
  BY <1>1 DEF NextProfileVersion, StoreType, ProfileType
<1>3. p \in ProfileType /\ p.config = c
  BY <1>1, <1>2 DEF Profile, ProfileType, StoreType
<1>4. Archived \in Seq(ProfileType)
  BY <1>1 DEF Archived, StoreType
<1>5. /\ Replaced(c) \in StoreType
      /\ Replaced(c).profile = p
      /\ Replaced(c).history = Archived
  <2>1. Replaced(c) = [[[store EXCEPT !.profile = p] EXCEPT !.history = Archived]
                          EXCEPT !.revision = store.revision + 1]
    BY <1>1 DEF Replaced, StoreType
  <2> HIDE DEF p
  <2>2. store.revision + 1 \in Nat
    BY <1>1 DEF StoreType
  <2> QED BY <1>1, <1>3, <1>4, <2>1, <2>2 DEF StoreType
<1>6. p # NoConfig
  BY <1>3, ProfilesAreThere
<1>7. ASSUME NEW x \in Configs(store) PROVE x \in {Archived[i].config : i \in DOMAIN Archived}
  <2>1. CASE store.profile = NoConfig
    BY <1>7, <2>1 DEF Configs, Archived
  <2>2. CASE store.profile # NoConfig
    <3>1. store.history \in Seq(ProfileType) /\ store.profile \in ProfileType
      BY <1>1, <2>2 DEF StoreType
    <3>2. /\ Archived = Append(store.history, store.profile)
          /\ DOMAIN store.history = 1..Len(store.history) /\ Len(store.history) \in Nat
          /\ DOMAIN Archived = 1..(Len(store.history) + 1)
          /\ \A i \in DOMAIN store.history : Archived[i] = store.history[i]
          /\ Archived[Len(store.history) + 1] = store.profile
      BY <3>1, <2>2 DEF Archived
    <3>3. CASE x = store.profile.config
      BY <3>2, <3>3
    <3>4. CASE \E i \in DOMAIN store.history : x = store.history[i].config
      <4>1. PICK i \in DOMAIN store.history : x = store.history[i].config
        BY <3>4
      <4>2. i \in DOMAIN Archived /\ x = Archived[i].config
        BY <4>1, <3>2
      <4> QED BY <4>2
    <3> QED BY <1>7, <2>2, <3>3, <3>4 DEF Configs
  <2> QED BY <2>1, <2>2
<1>8. Configs(store) \cup {c} \subseteq Configs(Replaced(c))
  BY <1>3, <1>5, <1>6, <1>7 DEF Configs
<1> QED BY <1>2, <1>5, <1>8

\* What a search for the first of several places finds is one of them.
LEMMA LeastOf ==
  ASSUME NEW S \in SUBSET Nat, S # {}
  PROVE  Min(S) \in S
<1> DEFINE R == {p \in Nat \X Nat : p[1] < p[2]}
<1>1. IsWellFoundedOn(R, Nat)
  BY NatLessThanWellFounded DEF OpToRel
<1>2. \A x, y \in Nat : <<y, x>> \in R <=> y < x
  OBVIOUS
<1> HIDE DEF R
<1>3. PICK x \in S : \A y \in S : ~ (<<y, x>> \in R)
  BY <1>1, WFMin
<1>4. ASSUME NEW y \in S PROVE x <= y
  <2>1. x \in Nat /\ y \in Nat
    OBVIOUS
  <2>2. ~ (y < x)
    BY <1>2, <1>3, <2>1
  <2> QED BY <2>1, <2>2
<1> QED BY <1>4 DEF Min

LEMMA VersionFound ==
  ASSUME ProfilesInv, store.profile # NoConfig, NEW v, HasVersion(v)
  PROVE  WithVersion(v).config \in Nat
<1>1. store.profile \in ProfileType /\ store.history \in Seq(ProfileType)
  BY DEF ProfilesInv, StoreType
<1>2. CASE store.profile.version = v
  BY <1>1, <1>2 DEF WithVersion, ProfileType
<1>3. CASE store.profile.version # v
  <2> DEFINE h == store.history
             I == {i \in 1..Len(h) : h[i].version = v}
  <2>1. Len(h) \in Nat /\ DOMAIN h = 1..Len(h) /\ \A i \in 1..Len(h) : h[i] \in ProfileType
    BY <1>1
  <2>2. Archived = Append(h, store.profile)
    BY DEF Archived
  <2>3. PICK j \in DOMAIN Archived : Archived[j].version = v
    BY DEF HasVersion, ToSet
  <2>4. j \in 1..(Len(h) + 1) /\ Archived[Len(h) + 1] = store.profile
        /\ \A i \in 1..Len(h) : Archived[i] = h[i]
    BY <1>1, <2>1, <2>2, <2>3
  <2>5. j \in I
    BY <2>1, <2>3, <2>4, <1>3
  <2>6. I \in SUBSET Nat /\ I # {}
    BY <2>1, <2>5
  <2> HIDE DEF I
  <2>7. Min(I) \in I
    BY <2>6, LeastOf
  <2>8. WithVersion(v) = h[Min(I)]
    BY <1>3, <2>6 DEF WithVersion, SelectInSeq, I
  <2>9. h[Min(I)] \in ProfileType
    BY <2>1, <2>7 DEF I
  <2> QED BY <2>8, <2>9 DEF ProfileType
<1> QED BY <1>2, <1>3

\* After a write every copy of today's profile is older than it.
LEMMA WriteKeeps ==
  ASSUME ProfilesInv, NEW c \in Nat, store' = Replaced(c),
         life' = life, copy' = copy
  PROVE  \A e \in Editors : CopyEarlier(e)'
<1>1. /\ store'.profile = Profile(c, NextProfileVersion, store.revision + 1)
      /\ store'.profile \in ProfileType /\ store'.profile # NoConfig
      /\ store'.profile.version = NextProfileVersion
  <2>1. /\ Replaced(c) \in StoreType
        /\ Replaced(c).profile = Profile(c, NextProfileVersion, store.revision + 1)
        /\ NextProfileVersion \in Nat
    BY ReplacedKeeps
  <2>2. Replaced(c).profile \in ProfileType
    BY <2>1 DEF ProfilesInv, StoreType, Profile, ProfileType
  <2> QED BY <2>1, <2>2, ProfilesAreThere DEF Profile
<1>2. ASSUME NEW e \in Editors PROVE CopyEarlier(e)'
  <2>1. CASE copy[e] = NoConfig
    BY <2>1 DEF CopyEarlier
  <2>2. CASE copy[e] # NoConfig
    <3>1. copy[e] \in CopyType /\ CopyEarlier(e)
      BY <2>2 DEF ProfilesInv
    <3>2. CASE copy[e].life # life
      BY <3>1, <3>2, <2>2 DEF CopyEarlier
    <3>3. CASE copy[e].life = life
      <4>1. store.profile # NoConfig /\ copy[e].version <= store.profile.version
        BY <3>1, <3>3, <2>2 DEF CopyEarlier
      <4>2. NextProfileVersion = store.profile.version + 1
        BY <4>1, ReplacedKeeps
      <4>3. store.profile.version \in Nat /\ copy[e].version \in Nat
        BY <3>1, <4>1 DEF ProfilesInv, StoreType, ProfileType, CopyType
      <4>4. copy[e].version < store'.profile.version
        BY <4>1, <4>2, <4>3, <1>1
      <4>5. copy[e].version <= store'.profile.version /\ copy[e].version # store'.profile.version
        BY <4>3, <4>4, <4>2, <1>1
      <4> QED BY <4>5, <3>1, <1>1, <2>2 DEF CopyEarlier
    <3> QED BY <3>2, <3>3
  <2> QED BY <2>1, <2>2
<1> QED BY <1>2

LEMMA WriteSaves ==
  ASSUME ProfilesInv, NEW c \in Nat, NEW d \in {c, NoConfig}, Commit(Replaced(c), d),
         life' = life, copy' = copy, configs' \in Nat, NoLostUpdate'
  PROVE  ProfilesInv'
<1>1. /\ Replaced(c) \in StoreType
      /\ Configs(store) \cup ({d} \ {NoConfig}) \subseteq Configs(Replaced(c))
  BY ReplacedKeeps
<1>2. /\ store' \in StoreType /\ file' \in StoreType
      /\ answered' \subseteq Configs(store)'
      /\ AnsweredIsSaved'
  BY <1>1, CommitSaves
<1>3. \A e \in Editors : CopyEarlier(e)'
  BY WriteKeeps DEF Commit
<1>4. copy' \in [Editors -> CopyType \cup {NoConfig}] /\ life' \in Nat
  BY DEF ProfilesInv
<1> QED BY <1>2, <1>3, <1>4 DEF ProfilesInv

LEMMA UpsertKeeps ==
  ASSUME ProfilesInv, NEW e \in Editors, NEW checks \in BOOLEAN, Upsert(e, checks)
  PROVE  ProfilesInv'
<1>1. configs + 1 \in Nat
  BY DEF ProfilesInv
<1>2. NoLostUpdate'
  <2>1. ASSUME checks, copy[e].life = life, store.profile # NoConfig,
               store.profile.config # copy[e].config
        PROVE  FALSE
    <3>1. copy[e] # NoConfig /\ Accepts(copy[e].version)
      BY <2>1 DEF Upsert
    <3>2. copy[e] \in CopyType /\ CopyEarlier(e)
      BY <3>1 DEF ProfilesInv
    <3>3. copy[e].version # NoConfig
      BY <3>2, ProfilesAssumption DEF CopyType
    <3>4. copy[e].version = store.profile.version
      BY <2>1, <3>1, <3>3 DEF Accepts
    <3> QED BY <2>1, <3>1, <3>2, <3>4 DEF CopyEarlier
  <2>2. overwritten' = (overwritten \/ /\ checks /\ copy[e].life = life
                                       /\ store.profile # NoConfig
                                       /\ store.profile.config # copy[e].config)
    BY DEF Upsert
  <2> QED BY <2>1, <2>2 DEF ProfilesInv, NoLostUpdate
<1>3. Commit(Replaced(configs + 1), configs + 1) /\ configs' = configs + 1
      /\ life' = life /\ copy' = copy
  BY DEF Upsert
<1> QED BY <1>1, <1>2, <1>3, WriteSaves

LEMMA RollbackKeeps ==
  ASSUME ProfilesInv, NEW v, Rollback(v)
  PROVE  ProfilesInv'
<1>1. WithVersion(v).config \in Nat
  BY VersionFound DEF Rollback
<1>2. /\ Commit(Replaced(WithVersion(v).config), NoConfig)
      /\ UNCHANGED <<copy, configs, life, overwritten>>
  BY DEF Rollback
<1>3. configs' \in Nat /\ NoLostUpdate'
  BY <1>2 DEF ProfilesInv, NoLostUpdate
<1> QED BY <1>1, <1>2, <1>3, WriteSaves

LEMMA RemoveKeeps ==
  ASSUME ProfilesInv, DeleteDevice
  PROVE  ProfilesInv'
<1>1. /\ store' = [store EXCEPT !.known = FALSE, !.profile = NoConfig]
      /\ file' = store' \/ file' = file
      /\ life' = life + 1
      /\ answered' = IF store.profile = NoConfig THEN answered
                     ELSE answered \ {store.profile.config}
      /\ UNCHANGED <<copy, configs, overwritten>>
  BY DEF DeleteDevice, Saved, NotSaved
<1>2. store' \in StoreType /\ file' \in StoreType /\ store'.history = store.history
      /\ store'.profile = NoConfig
  BY <1>1 DEF ProfilesInv, StoreType
<1>3. Configs(store) \subseteq Configs(store)'
                               \cup (IF store.profile = NoConfig THEN {}
                                     ELSE {store.profile.config})
  BY <1>2 DEF Configs
<1>4. answered' \subseteq Configs(store)' /\ AnsweredIsSaved'
  BY <1>1, <1>3 DEF ProfilesInv, AnsweredIsSaved
<1>5. ASSUME NEW e \in Editors PROVE CopyEarlier(e)'
  <2>1. copy[e] # NoConfig => copy[e].life \in Nat /\ life \in Nat /\ copy[e].life <= life
    BY DEF ProfilesInv, CopyEarlier, CopyType
  <2> QED BY <1>1, <2>1 DEF CopyEarlier
<1> QED BY <1>1, <1>2, <1>4, <1>5 DEF ProfilesInv, NoLostUpdate

LEMMA RestartKeeps ==
  ASSUME ProfilesInv, Restart
  PROVE  ProfilesInv'
<1>1. /\ store' = file /\ file' = file
      /\ life' = IF store = file THEN life ELSE life + 1
      /\ UNCHANGED <<copy, configs, answered, overwritten>>
  BY DEF Restart
<1>2. ASSUME NEW e \in Editors PROVE CopyEarlier(e)'
  <2>1. copy[e] # NoConfig => copy[e].life \in Nat /\ life \in Nat /\ copy[e].life <= life
    BY DEF ProfilesInv, CopyEarlier, CopyType
  <2> QED BY <1>1, <2>1 DEF ProfilesInv, CopyEarlier
<1>3. answered' \subseteq Configs(store)' /\ AnsweredIsSaved'
  BY <1>1 DEF ProfilesInv, AnsweredIsSaved, Configs
<1> QED BY <1>1, <1>2, <1>3 DEF ProfilesInv, NoLostUpdate

LEMMA ReregisterKeeps ==
  ASSUME ProfilesInv, Reregister
  PROVE  ProfilesInv'
<1> DEFINE new == [store EXCEPT !.known = TRUE]
<1>1. Commit(new, NoConfig) /\ UNCHANGED <<copy, configs, life, overwritten>>
  BY DEF Reregister
<1>2. new \in StoreType /\ new.profile = store.profile /\ new.history = store.history
  BY DEF ProfilesInv, StoreType
<1> HIDE DEF new
<1>3. Configs(store) \cup ({NoConfig} \ {NoConfig}) \subseteq Configs(new)
  BY <1>2 DEF Configs
<1>4. /\ store' \in StoreType /\ file' \in StoreType
      /\ answered' \subseteq Configs(store)'
      /\ AnsweredIsSaved'
  BY <1>1, <1>2, <1>3, CommitSaves
<1>5. store' = new
  BY <1>1 DEF Commit
<1>6. ASSUME NEW e \in Editors PROVE CopyEarlier(e)'
  BY <1>1, <1>2, <1>5 DEF ProfilesInv, CopyEarlier
<1> QED BY <1>1, <1>4, <1>6 DEF ProfilesInv, NoLostUpdate

LEMMA ReadCopyKeeps ==
  ASSUME ProfilesInv, NEW e \in Editors, Read(e)
  PROVE  ProfilesInv'
<1> DEFINE c == [version |-> store.profile.version, config |-> store.profile.config,
                 life |-> life]
<1>1. /\ copy' = [copy EXCEPT ![e] = IF store.profile = NoConfig THEN NoConfig ELSE c]
      /\ UNCHANGED <<store, file, configs, life, answered, overwritten>>
  BY DEF Read
<1>2. store.profile # NoConfig =>
        /\ c \in CopyType
        /\ c.life = life /\ c.version = store.profile.version
        /\ c.config = store.profile.config /\ c.version \in Nat
  BY DEF ProfilesInv, StoreType, ProfileType, CopyType
<1> HIDE DEF c
<1>3. copy' \in [Editors -> CopyType \cup {NoConfig}]
  BY <1>1, <1>2 DEF ProfilesInv
<1>4. ASSUME NEW f \in Editors PROVE CopyEarlier(f)'
  <2>1. CASE f # e \/ store.profile = NoConfig
    BY <1>1, <2>1 DEF ProfilesInv, CopyEarlier
  <2>2. CASE f = e /\ store.profile # NoConfig
    <3>1. copy'[f] = c /\ life' = life /\ store' = store /\ life \in Nat
      BY <1>1, <2>2 DEF ProfilesInv
    <3>2. c.life <= life /\ c.version <= store.profile.version
      BY <1>2, <2>2, <3>1
    <3> QED BY <1>2, <2>2, <3>1, <3>2 DEF CopyEarlier
  <2> QED BY <2>1, <2>2
<1> QED BY <1>1, <1>3, <1>4 DEF ProfilesInv, NoLostUpdate, AnsweredIsSaved, Configs

LEMMA NextProfiles == ProfilesInv /\ [ProfilesNext]_profilesVars => ProfilesInv'
<1> SUFFICES ASSUME ProfilesInv, [ProfilesNext]_profilesVars PROVE ProfilesInv'
  OBVIOUS
<1>1. CASE Pull \/ UNCHANGED profilesVars
  BY <1>1 DEF Pull, profilesVars, ProfilesInv, CopyEarlier, AnsweredIsSaved, NoLostUpdate,
              Configs
<1>2. CASE DeleteDevice \/ Reregister \/ Restart
  BY <1>2, RemoveKeeps, ReregisterKeeps, RestartKeeps
<1>3. CASE \/ \E e \in Editors, checks \in BOOLEAN : Upsert(e, checks)
           \/ \E v \in 1..(MaxConfigs + MaxRollbacks) : Rollback(v)
           \/ \E e \in Editors : Read(e)
  BY <1>3, UpsertKeeps, RollbackKeeps, ReadCopyKeeps
<1> QED BY <1>1, <1>2, <1>3 DEF ProfilesNext

(* No editor that names the version it read overwrites a configuration it  *)
(* has not read, for any editors, rollbacks and restarts.                  *)
THEOREM UpdatesAreKept == ProfilesSpec => []NoLostUpdate
<1>1. ProfilesInv => NoLostUpdate
  BY DEF ProfilesInv
<1> QED BY <1>1, InitProfiles, NextProfiles, PTL DEF ProfilesSpec

(* A write that was answered with success is in the file, whatever saves   *)
(* failed before and after it.                                             *)
THEOREM AnswersAreSaved == ProfilesSpec => []AnsweredIsSaved
<1>1. ProfilesInv => AnsweredIsSaved
  BY DEF ProfilesInv
<1> QED BY <1>1, InitProfiles, NextProfiles, PTL DEF ProfilesSpec

\* The follower has the profile, or the profile is newer than the follower's revision.
\* Revisions never go back, except in a restart that loses unsaved changes.
FollowerInv ==
  /\ cursor \in Nat /\ lossy \in BOOLEAN
  /\ ~lossy =>
       /\ cursor <= store.revision
       /\ store.profile # NoConfig =>
            /\ store.profile.revision <= store.revision
            /\ store.profile.revision <= cursor => mirror = store.profile.config

\* A new profile has a revision the follower cannot have seen.
LEMMA NewRevision ==
  ASSUME ProfilesInv, FollowerInv, NEW c \in Nat, store' = Replaced(c),
         UNCHANGED <<cursor, mirror, lossy>>
  PROVE  FollowerInv'
<1>1. store.revision \in Nat
  BY DEF ProfilesInv, StoreType
<1>2. /\ store'.revision = store.revision + 1
      /\ store'.profile = Profile(c, NextProfileVersion, store.revision + 1)
  BY ReplacedKeeps DEF Replaced, ProfilesInv, StoreType
<1>3. store'.profile.revision = store.revision + 1
  BY <1>2 DEF Profile
<1> QED BY <1>1, <1>2, <1>3 DEF FollowerInv

LEMMA NextFollower ==
  ProfilesInv /\ FollowerInv /\ [ProfilesNext]_profilesVars => FollowerInv'
<1> SUFFICES ASSUME ProfilesInv, FollowerInv, [ProfilesNext]_profilesVars PROVE FollowerInv'
  OBVIOUS
<1>1. store \in StoreType /\ store.revision \in Nat /\ configs \in Nat
      /\ (store.profile # NoConfig => store.profile.revision \in Nat)
  BY DEF ProfilesInv, StoreType, ProfileType
<1>2. ASSUME NEW e \in Editors, NEW checks \in BOOLEAN, Upsert(e, checks) PROVE FollowerInv'
  <2>1. store' = Replaced(configs + 1) /\ UNCHANGED <<cursor, mirror, lossy>>
    BY <1>2 DEF Upsert, Commit
  <2> QED BY <1>1, <2>1, NewRevision
<1>3. ASSUME NEW v, Rollback(v) PROVE FollowerInv'
  <2>1. /\ store.profile # NoConfig /\ HasVersion(v)
        /\ store' = Replaced(WithVersion(v).config) /\ UNCHANGED <<cursor, mirror, lossy>>
    BY <1>3 DEF Rollback, Commit
  <2>2. WithVersion(v).config \in Nat
    BY <2>1, VersionFound
  <2> QED BY <2>1, <2>2, NewRevision
<1>4. CASE Pull
  BY <1>1, <1>4 DEF Pull, FollowerInv
<1>5. CASE Restart
  <2>1. CASE store = file
    BY <1>5, <2>1 DEF Restart, FollowerInv
  <2>2. CASE store # file
    BY <1>5, <2>2 DEF Restart, FollowerInv
  <2> QED BY <2>1, <2>2
<1>6. CASE DeleteDevice \/ Reregister
  <2>1. /\ store'.revision = store.revision /\ store'.profile \in {store.profile, NoConfig}
        /\ UNCHANGED <<cursor, mirror, lossy>>
    BY <1>1, <1>6 DEF DeleteDevice, Reregister, Commit, StoreType
  <2> QED BY <2>1 DEF FollowerInv
<1>7. CASE (\E e \in Editors : Read(e)) \/ UNCHANGED profilesVars
  BY <1>7 DEF Read, profilesVars, FollowerInv
<1> QED BY <1>2, <1>3, <1>4, <1>5, <1>6, <1>7 DEF ProfilesNext

(* A follower at the current revision has the current configuration,       *)
(* through rollbacks, deletions, failed saves and restarts that lose       *)
(* nothing, for any editors.                                               *)
THEOREM FollowerIsCurrent == ProfilesSpec => []CursorMissesNothing
<1>1. ProfilesInit => FollowerInv
  <2> SUFFICES ASSUME ProfilesInit PROVE FollowerInv
    OBVIOUS
  <2>1. cursor = 0 /\ store.revision = 0 /\ store.profile = NoConfig
    BY DEF ProfilesInit
  <2>2. lossy \in BOOLEAN
    BY DEF ProfilesInit
  <2>3. cursor \in Nat /\ cursor <= store.revision
    BY <2>1
  <2> QED BY <2>1, <2>2, <2>3 DEF FollowerInv
<1>2. ProfilesInv /\ FollowerInv => CursorMissesNothing
  BY DEF ProfilesInv, StoreType, ProfileType, FollowerInv, CursorMissesNothing
<1> QED BY <1>1, <1>2, InitProfiles, NextProfiles, NextFollower, PTL DEF ProfilesSpec

-----------------------------------------------------------------------------
(* Sessions: codes and tokens are numbered in the order of their making,   *)
(* so a new one was neither used nor logged out before.                    *)

Challenge == [code : Nat, expired : BOOLEAN]
Used == {logins[i] : i \in DOMAIN logins}

AccountsInv ==
  /\ codes \in Nat /\ tokens \in Nat
  /\ challenges \in [Emails -> Challenge \cup {Absent}]
  /\ logins \in Seq(Nat)
  /\ \A i \in DOMAIN logins : logins[i] <= codes
  /\ \A m \in Emails : challenges[m] # Absent => challenges[m].code <= codes
  /\ \A m, n \in Emails :
        challenges[m] # Absent /\ challenges[n] # Absent /\ m # n =>
            challenges[m].code # challenges[n].code
  /\ DOMAIN refresh \subseteq 1..tokens /\ ended \subseteq 1..tokens
  /\ LoginsAreEarned

LEMMA ChallengesAreThere == \A c \in Challenge : c # Absent
  BY SessionsAssumption DEF Challenge

LEMMA InitAccounts == SessionsInit => AccountsInv
<1> SUFFICES ASSUME SessionsInit PROVE AccountsInv
  OBVIOUS
<1>1. logins = <<>> /\ logins \in Seq(Nat) /\ DOMAIN logins = {}
  BY DEF SessionsInit
<1>2. DOMAIN refresh = {} /\ ended = {}
  BY DEF SessionsInit, NoTokens
<1> QED BY <1>1, <1>2 DEF SessionsInit, AccountsInv, LoginsAreEarned

\* A challenge that goes, or is marked, leaves its code used as often as before.
LEMMA ChallengeGoes ==
  ASSUME AccountsInv, NEW m \in Emails,
         NEW c, challenges' = [challenges EXCEPT ![m] = c],
         c = Absent \/ (challenges[m] # Absent /\ c \in Challenge /\ c.code = challenges[m].code),
         UNCHANGED <<codes, refresh, tokens, logins, ended>>
  PROVE  AccountsInv'
<1>1. challenges' \in [Emails -> Challenge \cup {Absent}]
  BY DEF AccountsInv
<1>2. \A n \in Emails : challenges'[n] # Absent =>
         challenges[n] # Absent /\ challenges'[n].code = challenges[n].code
  BY DEF AccountsInv
<1> QED BY <1>1, <1>2 DEF AccountsInv, LoginsAreEarned

LEMMA StartKeeps ==
  ASSUME AccountsInv, NEW m \in Emails, StartLogin(m)
  PROVE  AccountsInv'
<1> DEFINE c == [code |-> codes + 1, expired |-> FALSE]
<1>1. /\ codes' = codes + 1
      /\ challenges' = [challenges EXCEPT ![m] = c]
      /\ UNCHANGED <<refresh, tokens, logins, ended>>
  BY DEF StartLogin
<1>2. codes \in Nat /\ c \in Challenge /\ c.code = codes + 1
  BY DEF AccountsInv, Challenge
<1> HIDE DEF c
<1>3. challenges' \in [Emails -> Challenge \cup {Absent}]
      /\ challenges'[m] = c /\ \A n \in Emails \ {m} : challenges'[n] = challenges[n]
  BY <1>1, <1>2 DEF AccountsInv
<1>4. \A n \in Emails : challenges[n] # Absent =>
         challenges[n].code \in Nat /\ challenges[n].code <= codes
  BY DEF AccountsInv, Challenge
<1>5. \A i \in DOMAIN logins : logins[i] \in Nat /\ logins[i] <= codes
  BY DEF AccountsInv
<1>6. \A n \in Emails : challenges'[n] # Absent =>
         /\ challenges'[n].code <= codes'
         /\ \A i \in DOMAIN logins' : challenges'[n].code # logins'[i]
  <2>1. ASSUME NEW n \in Emails, n # m, challenges[n] # Absent,
               NEW i \in DOMAIN logins
        PROVE  challenges[n].code # logins[i]
    BY <2>1 DEF AccountsInv, LoginsAreEarned
  <2>2. ASSUME NEW i \in DOMAIN logins PROVE c.code # logins[i]
    BY <1>2, <1>5
  <2>3. ASSUME NEW n \in Emails, n # m, challenges[n] # Absent
        PROVE  challenges[n].code <= codes'
    BY <1>1, <1>2, <1>4, <2>3
  <2> QED BY <1>1, <1>2, <1>3, <2>1, <2>2, <2>3
<1>7. \A n, o \in Emails :
         challenges'[n] # Absent /\ challenges'[o] # Absent /\ n # o =>
             challenges'[n].code # challenges'[o].code
  <2>1. \A n \in Emails \ {m} : challenges[n] # Absent => challenges[n].code # c.code
    BY <1>2, <1>4
  <2> QED BY <1>3, <2>1 DEF AccountsInv
<1>8. \A i \in DOMAIN logins' : logins'[i] <= codes'
  BY <1>1, <1>2, <1>5
<1> QED BY <1>1, <1>2, <1>3, <1>6, <1>7, <1>8 DEF AccountsInv, LoginsAreEarned

LEMMA LoginKeeps ==
  ASSUME AccountsInv, NEW m \in Emails, NEW code, VerifyLogin(m, code)
  PROVE  AccountsInv'
<1>1. /\ challenges[m] # Absent /\ challenges[m].code = code
      /\ challenges' = [challenges EXCEPT ![m] = Absent]
      /\ tokens' = tokens + 1
      /\ refresh' = With(refresh, tokens + 1, m)
      /\ logins' = Append(logins, code)
      /\ UNCHANGED <<codes, ended>>
  BY DEF VerifyLogin, Spent
<1>2. code \in Nat /\ code <= codes /\ \A i \in DOMAIN logins : logins[i] # code
  BY <1>1 DEF AccountsInv, Challenge, LoginsAreEarned
<1>3. /\ logins \in Seq(Nat) /\ Len(logins) \in Nat /\ DOMAIN logins = 1..Len(logins)
      /\ logins' \in Seq(Nat) /\ DOMAIN logins' = 1..(Len(logins) + 1)
      /\ \A i \in DOMAIN logins : logins'[i] = logins[i]
      /\ logins'[Len(logins) + 1] = code
  BY <1>1, <1>2 DEF AccountsInv
<1>4. \A i \in DOMAIN logins' : i \in DOMAIN logins \/ i = Len(logins) + 1
  BY <1>3
<1>5. challenges' \in [Emails -> Challenge \cup {Absent}]
      /\ \A n \in Emails : challenges'[n] # Absent => n # m /\ challenges'[n] = challenges[n]
  BY <1>1 DEF AccountsInv
<1>6. \A i \in DOMAIN logins' : logins'[i] <= codes'
  BY <1>1, <1>2, <1>3, <1>4 DEF AccountsInv
<1>7. \A i, j \in DOMAIN logins' : logins'[i] = logins'[j] => i = j
  BY <1>2, <1>3, <1>4 DEF AccountsInv, LoginsAreEarned
<1>8. ASSUME NEW n \in Emails, challenges'[n] # Absent, NEW i \in DOMAIN logins'
      PROVE  challenges'[n].code # logins'[i]
  <2>1. n # m /\ challenges'[n] = challenges[n] /\ challenges[n] # Absent
    BY <1>5, <1>8
  <2>2. challenges[n].code # code
    BY <1>1, <2>1 DEF AccountsInv
  <2>3. i \in DOMAIN logins => challenges[n].code # logins[i]
    BY <2>1 DEF AccountsInv, LoginsAreEarned
  <2> QED BY <1>3, <1>4, <2>1, <2>2, <2>3
<1>9. /\ tokens' \in Nat
      /\ DOMAIN refresh' \subseteq 1..tokens' /\ ended' \subseteq 1..tokens'
      /\ DOMAIN refresh' \cap ended' = {}
  <2>1. tokens \in Nat /\ DOMAIN refresh \subseteq 1..tokens /\ ended \subseteq 1..tokens
        /\ DOMAIN refresh \cap ended = {}
    BY DEF AccountsInv, LoginsAreEarned
  <2>2. DOMAIN refresh' = DOMAIN refresh \cup {tokens + 1}
    BY <1>1 DEF With
  <2>3. tokens + 1 \notin 1..tokens /\ 1..tokens \subseteq 1..(tokens + 1)
        /\ tokens + 1 \in 1..(tokens + 1)
    BY <2>1
  <2> QED BY <1>1, <2>1, <2>2, <2>3
<1>10. LoginsAreEarned'
  BY <1>7, <1>8, <1>9 DEF LoginsAreEarned
<1> QED BY <1>1, <1>3, <1>5, <1>6, <1>9, <1>10 DEF AccountsInv

LEMMA RefreshKeeps ==
  ASSUME AccountsInv, NEW r, RefreshAccess(r)
  PROVE  AccountsInv'
<1>1. tokens' = tokens + 1 /\ UNCHANGED <<challenges, codes, refresh, logins, ended>>
  BY DEF RefreshAccess
<1>2. tokens \in Nat /\ 1..tokens \subseteq 1..(tokens + 1)
  BY DEF AccountsInv
<1> QED BY <1>1, <1>2 DEF AccountsInv, LoginsAreEarned

LEMMA LogoutKeeps ==
  ASSUME AccountsInv, NEW t, NEW r \in DOMAIN refresh \cup {Absent}, Logout(t, r)
  PROVE  AccountsInv'
<1>1. refresh' = Without(refresh, r) /\ ended' = ended \cup ({r} \ {Absent})
      /\ UNCHANGED <<challenges, codes, tokens, logins>>
  BY DEF Logout
<1>2. DOMAIN refresh' = DOMAIN refresh \ {r}
  BY <1>1 DEF Without
<1>3. ended' \subseteq ended \cup (DOMAIN refresh)
  BY <1>1
<1>4. DOMAIN refresh' \subseteq 1..tokens' /\ ended' \subseteq 1..tokens'
      /\ DOMAIN refresh' \cap ended' = {}
  BY <1>1, <1>2, <1>3 DEF AccountsInv, LoginsAreEarned
<1> QED BY <1>1, <1>4 DEF AccountsInv, LoginsAreEarned

\* Signal sessions and streams leave accounts alone.
LEMMA OthersLeave ==
  ASSUME NEW t, NEW w, NEW s, NEW status, NEW p,
         \/ Subscribe(w, t) \/ StreamEvent(w) \/ EventStreamEnds(w)
         \/ RequestConnect(s, t) \/ SetStatus(s, t, status) \/ AddCandidate(s, t, p)
  PROVE  UNCHANGED accountVars
  BY DEF Subscribe, StreamEvent, EventStreamEnds, RequestConnect, SetStatus, AddCandidate

LEMMA NextAccounts == AccountsInv /\ [SessionsNext]_sessionsVars => AccountsInv'
<1> SUFFICES ASSUME AccountsInv, [SessionsNext]_sessionsVars PROVE AccountsInv'
  OBVIOUS
<1>1. ASSUME NEW m \in Emails, StartLogin(m) \/ \E code \in 1..codes : VerifyLogin(m, code)
      PROVE  AccountsInv'
  BY <1>1, StartKeeps, LoginKeeps
<1>2. ASSUME NEW m \in Emails, CodeExpires(m) \/ VerifyExpired(m)
      PROVE  AccountsInv'
  <2>1. challenges[m] # Absent /\ challenges[m] \in Challenge
    BY <1>2 DEF CodeExpires, VerifyExpired, AccountsInv
  <2>2. CASE CodeExpires(m)
    <3> DEFINE c == [challenges[m] EXCEPT !.expired = TRUE]
    <3>1. challenges' = [challenges EXCEPT ![m] = c]
      BY <2>1, <2>2 DEF CodeExpires, AccountsInv
    <3>2. c \in Challenge /\ c.code = challenges[m].code
      BY <2>1 DEF Challenge
    <3> HIDE DEF c
    <3> QED BY <2>1, <2>2, <3>1, <3>2, ChallengeGoes DEF CodeExpires
  <2>3. CASE VerifyExpired(m)
    BY <2>3, ChallengeGoes DEF VerifyExpired
  <2> QED BY <1>2, <2>2, <2>3
<1>3. ASSUME NEW r \in DOMAIN refresh, RefreshAccess(r) PROVE AccountsInv'
  BY <1>3, RefreshKeeps
<1>4. ASSUME NEW t \in DOMAIN access, NEW r \in DOMAIN refresh \cup {Absent}, Logout(t, r)
      PROVE  AccountsInv'
  BY <1>4, LogoutKeeps
<1>5. ASSUME UNCHANGED accountVars PROVE AccountsInv'
  BY <1>5 DEF accountVars, AccountsInv, LoginsAreEarned
<1>6. CASE \/ \E t \in Callers :
                \/ \E w \in Windows : Subscribe(w, t)
                \/ \E s \in SessionIds :
                    \/ RequestConnect(s, t)
                    \/ \E status \in {"accepted", "rejected", "closed"} : SetStatus(s, t, status)
                    \/ \E p \in Priorities : AddCandidate(s, t, p)
           \/ \E w \in Windows : StreamEvent(w) \/ EventStreamEnds(w)
  BY <1>5, <1>6, OthersLeave
<1>7. CASE UNCHANGED sessionsVars
  BY <1>5, <1>7 DEF sessionsVars
<1> QED BY <1>1, <1>2, <1>3, <1>4, <1>6, <1>7 DEF SessionsNext

(* A code is good for one login and a refresh token that was logged out    *)
(* for none, for any users, codes and tokens.                              *)
THEOREM LoginsAreOnce == SessionsSpec => []LoginsAreEarned
<1>1. AccountsInv => LoginsAreEarned
  BY DEF AccountsInv
<1> QED BY <1>1, InitAccounts, NextAccounts, PTL DEF SessionsSpec

-----------------------------------------------------------------------------
(* Sessions: what the windows know of the signal sessions.                 *)

Users == Emails \cup {Default}
Statuses == {"requested", "accepted", "rejected", "closed"}
SignalType == [user : Users, status : Statuses, closed : BOOLEAN, candidates : Seq(Nat)]
EventType == [id : SessionIds, session : SignalType]
StreamType == [user : Users, queue : Seq(EventType)]

EventsType ==
  /\ \A t \in DOMAIN access : access[t] \in Emails
  /\ \A r \in DOMAIN refresh : refresh[r] \in Emails
  /\ signals \in [SessionIds -> SignalType \cup {Absent}]
  /\ views \in [Windows -> [SessionIds -> SignalType \cup {Absent}]]
  /\ streams \in [Windows -> StreamType \cup {Absent}]

\* A window is told of sessions of its user only, and the user of a session stays.
ToldOwn(w) ==
  \A s \in SessionIds : views[w][s] # Absent =>
    /\ signals[s] # Absent
    /\ views[w][s].user = streams[w].user /\ signals[s].user = streams[w].user

\* Events are about sessions that are there.
EventsOfSessions(w) ==
  \A i \in DOMAIN streams[w].queue :
    LET event == streams[w].queue[i]
    IN  signals[event.id] # Absent /\ event.session.user = signals[event.id].user

\* Event i of a queue is the last one of session s, and tells of it as session is.
LastOf(queue, i, s, session) ==
  /\ i \in DOMAIN queue /\ queue[i].id = s /\ queue[i].session = session
  /\ \A j \in DOMAIN queue : j > i => queue[j].id # s

\* The last event of each session tells of it as it is, unless its last change was not saved;
\* if there is no event, the window knows.
Latest(w) ==
  \A s \in SessionIds \ untold :
    \/ \E i \in DOMAIN streams[w].queue : LastOf(streams[w].queue, i, s, signals[s])
    \/ /\ \A i \in DOMAIN streams[w].queue : streams[w].queue[i].id # s
       /\ views[w][s] # Absent => views[w][s] = signals[s]

WindowInv(w) ==
  streams[w] # Absent =>
    /\ ToldOwn(w) /\ EventsOfSessions(w)
    /\ w \notin lagged => Len(streams[w].queue) <= Channel /\ Latest(w)

EventsInv == EventsType /\ \A w \in Windows : WindowInv(w)

LEMMA SessionsAreThere == \A session \in SignalType : session # Absent
  BY SessionsAssumption DEF SignalType, Users, Statuses

\* A queue and what it becomes by Tail and Append, element by element.
LEMMA TailOf ==
  ASSUME NEW S, NEW q \in Seq(S), q # <<>>
  PROVE  /\ Tail(q) \in Seq(S) /\ Len(Tail(q)) = Len(q) - 1 /\ Len(q) \in Nat \ {0}
         /\ DOMAIN q = 1..Len(q) /\ DOMAIN Tail(q) = 1..(Len(q) - 1)
         /\ \A i \in DOMAIN Tail(q) : i + 1 \in DOMAIN q /\ Tail(q)[i] = q[i + 1]
         /\ Head(q) = q[1] /\ Head(q) \in S
  OBVIOUS

LEMMA AppendTo ==
  ASSUME NEW S, NEW q \in Seq(S), NEW e \in S
  PROVE  /\ Append(q, e) \in Seq(S) /\ Len(Append(q, e)) = Len(q) + 1 /\ Len(q) \in Nat
         /\ DOMAIN q = 1..Len(q) /\ DOMAIN Append(q, e) = 1..(Len(q) + 1)
         /\ \A i \in DOMAIN q : Append(q, e)[i] = q[i]
         /\ Append(q, e)[Len(q) + 1] = e
  OBVIOUS

\* The last event of a session stays the last when the first event of all goes.
LEMMA LastAfterTail ==
  ASSUME NEW q \in Seq(EventType), q # <<>>, NEW i, NEW s, NEW session,
         LastOf(q, i, s, session)
  PROVE  \/ i = 1 /\ \A j \in DOMAIN Tail(q) : Tail(q)[j].id # s
         \/ i - 1 \in DOMAIN Tail(q) /\ LastOf(Tail(q), i - 1, s, session)
<1>1. /\ Len(q) \in Nat \ {0} /\ DOMAIN q = 1..Len(q) /\ DOMAIN Tail(q) = 1..(Len(q) - 1)
      /\ \A k \in DOMAIN Tail(q) : k + 1 \in DOMAIN q /\ Tail(q)[k] = q[k + 1]
  BY TailOf
<1>2. i \in 1..Len(q) /\ q[i].id = s /\ q[i].session = session
      /\ \A j \in 1..Len(q) : j > i => q[j].id # s
  BY <1>1 DEF LastOf
<1> HIDE DEF LastOf
<1>3. \A j \in 1..(Len(q) - 1) : j + 1 \in 1..Len(q) /\ Tail(q)[j] = q[j + 1]
  BY <1>1
<1>4. CASE i = 1
  <2>1. \A j \in 1..(Len(q) - 1) : Tail(q)[j].id # s
    BY <1>2, <1>3, <1>4
  <2> QED BY <1>1, <1>4, <2>1
<1>5. CASE i # 1
  <2>1. i - 1 \in 1..(Len(q) - 1) /\ Tail(q)[i - 1] = q[i]
    BY <1>1, <1>2, <1>3, <1>5
  <2>2. \A j \in 1..(Len(q) - 1) : j > i - 1 => Tail(q)[j].id # s
    BY <1>2, <1>3
  <2> QED BY <1>1, <1>2, <2>1, <2>2 DEF LastOf
<1> QED BY <1>4, <1>5

\* ... and when an event of another session comes.
LEMMA LastAfterAppend ==
  ASSUME NEW q \in Seq(EventType), NEW e \in EventType, NEW s
  PROVE  /\ \A i, session : LastOf(q, i, s, session) /\ e.id # s =>
               LastOf(Append(q, e), i, s, session)
         /\ e.id = s => LastOf(Append(q, e), Len(q) + 1, s, e.session)
         /\ e.id # s /\ (\A i \in DOMAIN q : q[i].id # s) =>
               \A i \in DOMAIN Append(q, e) : Append(q, e)[i].id # s
<1>1. /\ Len(q) \in Nat /\ DOMAIN q = 1..Len(q) /\ DOMAIN Append(q, e) = 1..(Len(q) + 1)
      /\ \A i \in 1..Len(q) : Append(q, e)[i] = q[i]
      /\ Append(q, e)[Len(q) + 1] = e
  BY AppendTo
<1>2. \A i \in DOMAIN Append(q, e) : i \in 1..Len(q) \/ i = Len(q) + 1
  BY <1>1
<1> DEFINE p == Append(q, e)
<1> HIDE DEF p
<1>3. /\ DOMAIN p = 1..(Len(q) + 1) /\ \A i \in 1..Len(q) : p[i] = q[i]
      /\ p[Len(q) + 1] = e /\ \A i \in DOMAIN p : i \in 1..Len(q) \/ i = Len(q) + 1
  BY <1>1, <1>2 DEF p
<1>4. ASSUME NEW i, NEW session, LastOf(q, i, s, session), e.id # s
      PROVE  LastOf(p, i, s, session)
  BY <1>1, <1>3, <1>4 DEF LastOf
<1>5. e.id = s => LastOf(p, Len(q) + 1, s, e.session)
  <2>1. \A j \in DOMAIN p : ~ (j > Len(q) + 1)
    BY <1>1, <1>3
  <2>2. Len(q) + 1 \in DOMAIN p
    BY <1>1, <1>3
  <2> QED BY <1>3, <2>1, <2>2 DEF LastOf
<1>6. e.id # s /\ (\A i \in DOMAIN q : q[i].id # s) => \A i \in DOMAIN p : p[i].id # s
  BY <1>1, <1>3
<1> QED BY <1>4, <1>5, <1>6 DEF p

LEMMA InitEvents == SessionsInit => EventsInv
<1> SUFFICES ASSUME SessionsInit PROVE EventsInv
  OBVIOUS
<1>1. DOMAIN access = {} /\ DOMAIN refresh = {}
  BY DEF SessionsInit, NoTokens
<1>2. views = [w \in Windows |-> [s \in SessionIds |-> Absent]]
  BY DEF SessionsInit, NothingTold
<1>3. EventsType
  BY <1>1, <1>2 DEF SessionsInit, EventsType
<1>4. \A w \in Windows : streams[w] = Absent
  BY DEF SessionsInit
<1> QED BY <1>3, <1>4 DEF EventsInv, WindowInv

\* Logins and logouts change tokens only, and a new token is that of a user.
LEMMA AccountsLeaveEvents ==
  ASSUME EventsInv, UNCHANGED <<signalVars, streamVars>>,
         \A t \in DOMAIN access' : access'[t] \in Emails,
         \A r \in DOMAIN refresh' : refresh'[r] \in Emails
  PROVE  EventsInv'
BY DEF EventsInv, EventsType, WindowInv, ToldOwn, EventsOfSessions, Latest, LastOf,
       signalVars, streamVars

LEMMA CallerIsUser ==
  ASSUME EventsInv, NEW t \in Callers
  PROVE  Caller(t) \in Users
BY DEF EventsInv, EventsType, Callers, Caller, Users

LEMMA SubscribeKeeps ==
  ASSUME EventsInv, NEW w \in Windows, NEW t \in Callers, Subscribe(w, t)
  PROVE  EventsInv'
<1> DEFINE stream == [user |-> Caller(t), queue |-> <<>>]
<1>1. /\ streams' = [streams EXCEPT ![w] = stream]
      /\ views' = [views EXCEPT ![w] = NothingTold]
      /\ lagged' = lagged \ {w}
      /\ UNCHANGED <<access, refresh, signals, untold>>
  BY DEF Subscribe, accountVars, signalVars
<1>2. stream \in StreamType /\ stream.queue = <<>>
  BY CallerIsUser DEF StreamType
<1> HIDE DEF stream
<1>3. NothingTold \in [SessionIds -> SignalType \cup {Absent}]
      /\ \A s \in SessionIds : NothingTold[s] = Absent
  BY DEF NothingTold
<1>4. EventsType'
  BY <1>1, <1>2, <1>3 DEF EventsInv, EventsType
<1>5. /\ streams'[w] = stream /\ views'[w] = NothingTold
      /\ \A v \in Windows \ {w} : streams'[v] = streams[v] /\ views'[v] = views[v]
                                 /\ (v \in lagged' <=> v \in lagged)
  BY <1>1 DEF EventsInv, EventsType
<1>6. WindowInv(w)'
  <2>1. DOMAIN stream.queue = {} /\ Len(stream.queue) = 0
    BY <1>2
  <2>2. ToldOwn(w)'
    BY <1>3, <1>5 DEF ToldOwn
  <2>3. EventsOfSessions(w)'
    BY <1>5, <2>1 DEF EventsOfSessions
  <2>4. Latest(w)'
    BY <1>3, <1>5, <2>1 DEF Latest
  <2> QED BY <1>5, <2>1, <2>2, <2>3, <2>4, SessionsAssumption DEF WindowInv
<1>7. ASSUME NEW v \in Windows \ {w} PROVE WindowInv(v)'
  BY <1>1, <1>5 DEF EventsInv, WindowInv, ToldOwn, EventsOfSessions, Latest
<1> QED BY <1>4, <1>6, <1>7 DEF EventsInv

LEMMA StreamEndKeeps ==
  ASSUME EventsInv, NEW w \in Windows, EventStreamEnds(w)
  PROVE  EventsInv'
<1>1. /\ streams' = [streams EXCEPT ![w] = Absent]
      /\ UNCHANGED <<views, lagged, access, refresh, signals, untold>>
  BY DEF EventStreamEnds, accountVars, signalVars
<1>2. EventsType'
  BY <1>1 DEF EventsInv, EventsType
<1>3. streams'[w] = Absent /\ \A v \in Windows \ {w} : streams'[v] = streams[v]
  BY <1>1 DEF EventsInv, EventsType
<1>4. ASSUME NEW v \in Windows \ {w} PROVE WindowInv(v)'
  BY <1>1, <1>3 DEF EventsInv, WindowInv, ToldOwn, EventsOfSessions, Latest
<1> QED BY <1>2, <1>3, <1>4 DEF EventsInv, WindowInv

LEMMA StreamEventKeeps ==
  ASSUME EventsInv, NEW w \in Windows, StreamEvent(w)
  PROVE  EventsInv'
<1> DEFINE q == streams[w].queue
           event == Head(q)
           told == event.session.user = streams[w].user
<1>1. streams[w] \in StreamType /\ streams[w] # Absent /\ q \in Seq(EventType) /\ q # <<>>
  BY DEF StreamEvent, EventsInv, EventsType, StreamType
<1>2. /\ streams' = [streams EXCEPT ![w] = [streams[w] EXCEPT !.queue = Tail(q)]]
      /\ views' = IF told THEN [views EXCEPT ![w] = [views[w] EXCEPT
                                                        ![event.id] = event.session]]
                  ELSE views
      /\ UNCHANGED <<lagged, access, refresh, signals, untold>>
  BY DEF StreamEvent, EventsInv, EventsType, accountVars, signalVars
<1>3. /\ Tail(q) \in Seq(EventType) /\ Len(Tail(q)) = Len(q) - 1 /\ Len(q) \in Nat \ {0}
      /\ DOMAIN q = 1..Len(q) /\ DOMAIN Tail(q) = 1..(Len(q) - 1)
      /\ \A i \in DOMAIN Tail(q) : i + 1 \in DOMAIN q /\ Tail(q)[i] = q[i + 1]
      /\ event = q[1] /\ event \in EventType
  BY <1>1, TailOf
<1>4. event.id \in SessionIds /\ event.session \in SignalType
  BY <1>3 DEF EventType
<1>5. /\ signals[event.id] # Absent /\ event.session.user = signals[event.id].user
  <2>1. 1 \in DOMAIN q
    BY <1>3
  <2> QED BY <1>1, <1>3, <2>1 DEF EventsInv, WindowInv, EventsOfSessions
<1>6. /\ streams'[w].user = streams[w].user /\ streams'[w].queue = Tail(q)
      /\ streams'[w] \in StreamType
      /\ \A v \in Windows \ {w} : streams'[v] = streams[v] /\ views'[v] = views[v]
  BY <1>1, <1>2, <1>3 DEF EventsInv, EventsType, StreamType
<1>7. \A s \in SessionIds :
        views'[w][s] = IF told /\ s = event.id THEN event.session ELSE views[w][s]
  BY <1>2, <1>4 DEF EventsInv, EventsType
<1> HIDE DEF q, event
<1>8. EventsType'
  <2>1. streams' \in [Windows -> StreamType \cup {Absent}]
    BY <1>1, <1>2, <1>6 DEF EventsInv, EventsType
  <2>2. views' \in [Windows -> [SessionIds -> SignalType \cup {Absent}]]
    BY <1>2, <1>4 DEF EventsInv, EventsType
  <2> QED BY <1>2, <2>1, <2>2 DEF EventsInv, EventsType
<1>9. WindowInv(w)'
  <2>1. ToldOwn(w)'
    <3>1. ToldOwn(w)
      BY <1>1 DEF EventsInv, WindowInv
    <3>2. ASSUME NEW s \in SessionIds, told, s = event.id
          PROVE  /\ signals[s] # Absent /\ views'[w][s].user = streams[w].user
                 /\ signals[s].user = streams[w].user
      <4>1. views'[w][s] = event.session
        BY <1>7, <3>2
      <4> QED BY <1>5, <3>2, <4>1
    <3>3. ASSUME NEW s \in SessionIds, ~(told /\ s = event.id) PROVE views'[w][s] = views[w][s]
      BY <1>7, <3>3
    <3>4. signals' = signals /\ streams'[w].user = streams[w].user
      BY <1>2, <1>6
    <3>5. ASSUME NEW s \in SessionIds, views'[w][s] # Absent
          PROVE  /\ signals'[s] # Absent
                 /\ views'[w][s].user = streams'[w].user /\ signals'[s].user = streams'[w].user
      <4>1. CASE told /\ s = event.id
        BY ONLY <3>2, <3>4, <4>1, s \in SessionIds
      <4>2. CASE ~(told /\ s = event.id)
        <5>1. views'[w][s] = views[w][s]
          BY <3>3, <4>2
        <5>2. /\ signals[s] # Absent /\ views[w][s].user = streams[w].user
              /\ signals[s].user = streams[w].user
          BY ONLY <3>1, <3>5, <5>1, s \in SessionIds DEF ToldOwn
        <5> QED BY ONLY <3>4, <5>1, <5>2
      <4> QED BY ONLY <4>1, <4>2
    <3> QED BY ONLY <3>5 DEF ToldOwn
  <2>2. EventsOfSessions(w)'
    <3>1. EventsOfSessions(w)
      BY <1>1 DEF EventsInv, WindowInv
    <3>2. streams'[w].queue = Tail(q) /\ signals' = signals
      BY ONLY <1>2, <1>6
    <3>3. \A i \in DOMAIN q : /\ signals[q[i].id] # Absent
                             /\ q[i].session.user = signals[q[i].id].user
      BY ONLY <3>1 DEF EventsOfSessions, q
    <3>4. \A i \in DOMAIN Tail(q) : /\ signals[Tail(q)[i].id] # Absent
                                   /\ Tail(q)[i].session.user = signals[Tail(q)[i].id].user
      BY ONLY <1>3, <3>3
    <3> QED BY ONLY <3>2, <3>4 DEF EventsOfSessions
  <2>3. ASSUME w \notin lagged, NEW s \in SessionIds \ untold
        PROVE  \/ \E i \in DOMAIN Tail(q) : LastOf(Tail(q), i, s, signals[s])
               \/ /\ \A i \in DOMAIN Tail(q) : Tail(q)[i].id # s
                  /\ views'[w][s] # Absent => views'[w][s] = signals[s]
    <3>1. /\ ToldOwn(w)
          /\ \/ \E i \in DOMAIN q : LastOf(q, i, s, signals[s])
             \/ /\ \A i \in DOMAIN q : q[i].id # s
                /\ views[w][s] # Absent => views[w][s] = signals[s]
      BY <1>1, <2>3 DEF EventsInv, WindowInv, Latest, q
    <3>2. CASE \A i \in DOMAIN q : q[i].id # s
      <4>1. event.id # s
        BY <1>3, <3>2
      <4>2. views[w][s] # Absent => views[w][s] = signals[s]
        BY <3>1, <3>2 DEF LastOf
      <4> QED BY <1>3, <1>7, <3>2, <4>1, <4>2
    <3>3. ASSUME NEW i \in DOMAIN q, LastOf(q, i, s, signals[s])
          PROVE  \/ \E j \in DOMAIN Tail(q) : LastOf(Tail(q), j, s, signals[s])
                 \/ /\ \A j \in DOMAIN Tail(q) : Tail(q)[j].id # s
                    /\ views'[w][s] # Absent => views'[w][s] = signals[s]
      <4>1. CASE i = 1
        <5>1. event.id = s /\ event.session = signals[s]
          BY <1>3, <3>3, <4>1 DEF LastOf
        <5>2. ~told => views[w][s] = Absent
          BY <1>5, <3>1, <5>1 DEF ToldOwn
        <5>3. views'[w][s] # Absent => views'[w][s] = signals[s]
          BY <1>7, <5>1, <5>2
        <5>4. \/ \A j \in DOMAIN Tail(q) : Tail(q)[j].id # s
              \/ \E j \in DOMAIN Tail(q) : LastOf(Tail(q), j, s, signals[s])
          BY <1>1, <3>3, LastAfterTail DEF q
        <5> QED BY <5>3, <5>4
      <4>2. CASE i # 1
        <5>1. i - 1 \in DOMAIN Tail(q) /\ LastOf(Tail(q), i - 1, s, signals[s])
          BY <1>1, <3>3, <4>2, LastAfterTail
        <5> QED BY <5>1
      <4> QED BY <4>1, <4>2
    <3> QED BY <3>1, <3>2, <3>3
  <2>4. w \notin lagged => Latest(w)'
    <3> DEFINE r == Tail(q)
    <3>1. streams'[w].queue = r /\ signals' = signals /\ untold' = untold
      BY <1>2, <1>6
    <3>2. ASSUME w \notin lagged
          PROVE  \A s \in SessionIds \ untold :
                   \/ \E i \in DOMAIN r : LastOf(r, i, s, signals[s])
                   \/ /\ \A i \in DOMAIN r : r[i].id # s
                      /\ views'[w][s] # Absent => views'[w][s] = signals[s]
      BY <2>3, <3>2
    <3> HIDE DEF r
    <3> QED BY <3>1, <3>2 DEF Latest, LastOf
  <2>5. w \notin lagged => Len(Tail(q)) <= Channel
    <3>1. w \notin lagged => Len(q) <= Channel
      BY <1>1 DEF EventsInv, WindowInv, q
    <3> QED BY <1>3, <3>1, SessionsAssumption
  <2> QED BY <1>2, <1>6, <2>1, <2>2, <2>4, <2>5 DEF WindowInv
<1>10. ASSUME NEW v \in Windows \ {w} PROVE WindowInv(v)'
  BY <1>2, <1>6 DEF EventsInv, WindowInv, ToldOwn, EventsOfSessions, Latest
<1> QED BY <1>8, <1>9, <1>10 DEF EventsInv

\* The queue of a window that has room for an event, and of one that has not.
LEMMA QueuedIs ==
  ASSUME NEW q \in Seq(EventType), NEW e \in EventType
  PROVE  /\ Queued(q, e) \in Seq(EventType)
         /\ Len(q) < Channel => Queued(q, e) = Append(q, e)
         /\ \A i \in DOMAIN Queued(q, e) :
              Queued(q, e)[i] = e \/ \E j \in DOMAIN q : Queued(q, e)[i] = q[j]
<1>1. CASE Len(q) < Channel
  <2>1. Queued(q, e) = Append(q, e)
    BY <1>1 DEF Queued
  <2>2. \A i \in DOMAIN Append(q, e) : Append(q, e)[i] = e
                                       \/ \E j \in DOMAIN q : Append(q, e)[i] = q[j]
    <3>1. \A i \in DOMAIN Append(q, e) : i \in DOMAIN q \/ i = Len(q) + 1
      BY AppendTo
    <3> QED BY <3>1, AppendTo
  <2> QED BY <2>1, <2>2, AppendTo
<1>2. CASE ~ (Len(q) < Channel)
  <2> DEFINE t == Tail(q)
  <2>1. q # <<>>
    BY <1>2, SessionsAssumption
  <2>2. t \in Seq(EventType) /\ \A i \in DOMAIN t : \E j \in DOMAIN q : t[i] = q[j]
    BY <2>1, TailOf
  <2>3. Queued(q, e) = Append(t, e)
    BY <1>2 DEF Queued
  <2> HIDE DEF t
  <2>4. \A i \in DOMAIN Append(t, e) : i \in DOMAIN t \/ i = Len(t) + 1
    BY <2>2, AppendTo
  <2>5. \A i \in DOMAIN Append(t, e) : Append(t, e)[i] = e
                                       \/ \E j \in DOMAIN q : Append(t, e)[i] = q[j]
    BY <2>2, <2>4, AppendTo
  <2> QED BY <1>2, <2>2, <2>3, <2>5, AppendTo
<1> QED BY <1>1, <1>2

\* A session is stored and published to all windows; its user is the one it had.
LEMMA PublishedKeeps ==
  ASSUME EventsInv, NEW s \in SessionIds, NEW session \in SignalType,
         signals' = [signals EXCEPT ![s] = session],
         Publish([id |-> s, session |-> session]), untold' = untold \ {s},
         signals[s] # Absent => session.user = signals[s].user,
         UNCHANGED accountVars
  PROVE  EventsInv'
<1> DEFINE e == [id |-> s, session |-> session]
<1>1. /\ signals' = [signals EXCEPT ![s] = session]
      /\ streams' = [w \in Windows |->
            IF streams[w] = Absent THEN Absent
            ELSE [streams[w] EXCEPT !.queue = Queued(streams[w].queue, e)]]
      /\ lagged' = lagged \cup Lagging
      /\ UNCHANGED <<views, access, refresh>>
  BY DEF Publish, accountVars
<1>2. e \in EventType /\ e.id = s /\ e.session = session
  BY DEF EventType
<1> HIDE DEF e
<1>3. session # Absent /\ signals'[s] = session
      /\ \A r \in SessionIds \ {s} : signals'[r] = signals[r]
  BY <1>1, SessionsAreThere DEF EventsInv, EventsType
<1>4. ASSUME NEW w \in Windows, streams[w] # Absent
      PROVE  /\ streams[w] \in StreamType /\ streams[w].queue \in Seq(EventType)
             /\ streams'[w] \in StreamType /\ streams'[w].user = streams[w].user
             /\ streams'[w].queue = Queued(streams[w].queue, e)
             /\ streams'[w].queue \in Seq(EventType)
  <2>1. streams[w] \in StreamType
    BY <1>4 DEF EventsInv, EventsType
  <2>2. streams[w].queue \in Seq(EventType)
    BY <2>1 DEF StreamType
  <2>3. Queued(streams[w].queue, e) \in Seq(EventType)
    BY <1>2, <2>2, QueuedIs
  <2>4. streams'[w] = [streams[w] EXCEPT !.queue = Queued(streams[w].queue, e)]
    BY <1>1, <1>4
  <2> QED BY <2>1, <2>2, <2>3, <2>4 DEF StreamType
<1>5. EventsType'
  <2>1. \A w \in Windows : streams'[w] \in StreamType \cup {Absent}
    BY <1>1, <1>4
  <2>2. streams' \in [Windows -> StreamType \cup {Absent}]
    BY <1>1, <2>1
  <2> QED BY <1>1, <2>2 DEF EventsInv, EventsType
<1>6. ASSUME NEW w \in Windows, streams'[w] # Absent PROVE WindowInv(w)'
  <2> DEFINE q == streams[w].queue
             p == streams'[w].queue
  <2>1. streams[w] # Absent
    BY <1>1, <1>6
  <2>2. q \in Seq(EventType) /\ p = Queued(q, e) /\ streams'[w].user = streams[w].user
    BY <1>4, <2>1
  <2>3. ToldOwn(w) /\ EventsOfSessions(w)
        /\ (w \notin lagged => Len(q) <= Channel /\ Latest(w))
    BY <2>1 DEF EventsInv, WindowInv
  <2>4. ToldOwn(w)'
    <3>1. ASSUME NEW r \in SessionIds, views[w][r] # Absent
          PROVE  signals'[r] # Absent /\ signals'[r].user = streams[w].user
      BY <1>3, <2>3, <3>1 DEF ToldOwn
    <3> QED BY <1>1, <2>2, <2>3, <3>1 DEF ToldOwn
  <2>5. EventsOfSessions(w)'
    <3>1. ASSUME NEW j \in DOMAIN q
          PROVE  signals'[q[j].id] # Absent /\ q[j].session.user = signals'[q[j].id].user
      <4>1. q[j] \in EventType
        BY <2>2, ElementOfSeq
      <4>2. q[j].id \in SessionIds /\ signals[q[j].id] # Absent
            /\ q[j].session.user = signals[q[j].id].user
        BY <2>3, <4>1 DEF EventsOfSessions, EventType
      <4> QED BY <1>3, <4>2
    <3>2. signals'[e.id] # Absent /\ e.session.user = signals'[e.id].user
      BY <1>2, <1>3
    <3> HIDE DEF q, p
    <3>3. \A i \in DOMAIN p : p[i] = e \/ \E j \in DOMAIN q : p[i] = q[j]
      BY <1>2, <2>2, QueuedIs
    <3>4. \A i \in DOMAIN p : signals'[p[i].id] # Absent
                              /\ p[i].session.user = signals'[p[i].id].user
      BY <3>1, <3>2, <3>3
    <3> QED BY <3>4 DEF EventsOfSessions, p
  <2>6. ASSUME w \notin lagged' PROVE Len(p) <= Channel /\ Latest(w)'
    <3>1. w \notin lagged /\ Len(q) # Channel
      BY <1>1, <2>1, <2>6 DEF Lagging
    <3>2. Len(q) \in Nat /\ Len(q) <= Channel /\ Latest(w) /\ Channel \in Nat
      BY <2>2, <2>3, <3>1, SessionsAssumption
    <3> HIDE DEF q, p
    <3>3. p = Append(q, e) /\ Len(q) < Channel
      <4>1. Len(q) < Channel
        BY <3>1, <3>2
      <4> QED BY <1>2, <2>2, <4>1, QueuedIs
    <3>4. Len(p) = Len(q) + 1 /\ DOMAIN p = 1..(Len(q) + 1) /\ DOMAIN q = 1..Len(q)
      BY <1>2, <2>2, <3>3, AppendTo
    <3>5. Len(p) <= Channel
      BY <3>2, <3>3, <3>4
    <3>6. ASSUME NEW r \in SessionIds \ untold'
          PROVE  \/ \E i \in DOMAIN p : LastOf(p, i, r, signals'[r])
                 \/ /\ \A i \in DOMAIN p : p[i].id # r
                    /\ views[w][r] # Absent => views[w][r] = signals'[r]
      <4>1. CASE r = s
        <5>1. LastOf(Append(q, e), Len(q) + 1, s, e.session)
          BY ONLY <1>2, <2>2, LastAfterAppend
        <5>2. LastOf(p, Len(q) + 1, r, signals'[r])
          BY ONLY <1>2, <1>3, <3>3, <4>1, <5>1
        <5>3. Len(q) + 1 \in DOMAIN p
          BY ONLY <3>2, <3>4
        <5> QED BY ONLY <5>2, <5>3
      <4>2. CASE r # s
        <5>1. signals'[r] = signals[r] /\ e.id # r /\ r \in SessionIds \ untold
          BY <1>2, <1>3, <3>6, <4>2
        <5>2. \/ \E i \in DOMAIN q : LastOf(q, i, r, signals[r])
              \/ /\ \A i \in DOMAIN q : q[i].id # r
                 /\ views[w][r] # Absent => views[w][r] = signals[r]
          BY <3>2, <5>1 DEF Latest, q
        <5>3. \A i \in DOMAIN q : LastOf(q, i, r, signals[r]) => LastOf(p, i, r, signals[r])
          BY <1>2, <2>2, <3>3, <5>1, LastAfterAppend
        <5>4. \A i \in DOMAIN q : i \in DOMAIN p
          BY <3>2, <3>4
        <5>5. (\A i \in DOMAIN q : q[i].id # r) => \A i \in DOMAIN p : p[i].id # r
          BY <1>2, <2>2, <3>3, <5>1, LastAfterAppend
        <5> QED BY <5>1, <5>2, <5>3, <5>4, <5>5
      <4> QED BY <4>1, <4>2
    <3> QED BY <1>1, <3>5, <3>6 DEF Latest, p
  <2> QED BY <2>4, <2>5, <2>6 DEF WindowInv
<1> QED BY <1>5, <1>6 DEF EventsInv, WindowInv

\* A session is changed in memory only.
LEMMA UnsavedKeeps ==
  ASSUME EventsInv, NEW s \in SessionIds, NEW session \in SignalType,
         signals' = [signals EXCEPT ![s] = session], untold' = untold \cup {s},
         signals[s] # Absent => session.user = signals[s].user,
         UNCHANGED <<accountVars, streamVars>>
  PROVE  EventsInv'
<1>1. UNCHANGED <<access, refresh, streams, views, lagged>>
  BY DEF accountVars, streamVars
<1>2. session # Absent /\ signals'[s] = session
      /\ \A r \in SessionIds \ {s} : signals'[r] = signals[r]
  BY SessionsAreThere DEF EventsInv, EventsType
<1>3. \A r \in SessionIds : signals[r] # Absent =>
        signals'[r] # Absent /\ signals'[r].user = signals[r].user
  BY <1>2
<1>4. EventsType'
  BY <1>1 DEF EventsInv, EventsType
<1>5. ASSUME NEW w \in Windows, streams[w] # Absent PROVE WindowInv(w)'
  <2>1. /\ streams[w].queue \in Seq(EventType) /\ ToldOwn(w) /\ EventsOfSessions(w)
        /\ w \notin lagged => Len(streams[w].queue) <= Channel /\ Latest(w)
    BY <1>5 DEF EventsInv, EventsType, StreamType, WindowInv
  <2>2. ToldOwn(w)'
    BY <1>1, <1>3, <2>1 DEF ToldOwn
  <2>3. EventsOfSessions(w)'
    <3>1. \A i \in DOMAIN streams[w].queue : streams[w].queue[i].id \in SessionIds
      <4>1. \A i \in DOMAIN streams[w].queue : streams[w].queue[i] \in EventType
        BY ONLY <2>1, ElementOfSeq
      <4>2. \A x \in EventType : x.id \in SessionIds
        BY ONLY TRUE DEF EventType
      <4> QED BY ONLY <4>1, <4>2
    <3> QED BY <1>1, <1>3, <2>1, <3>1 DEF EventsOfSessions
  <2>4. Latest(w) => Latest(w)'
    <3>1. \A r \in SessionIds \ untold' : r \in SessionIds \ untold /\ signals'[r] = signals[r]
      BY <1>2
    <3> QED BY <1>1, <3>1 DEF Latest, LastOf
  <2> QED BY <1>1, <2>1, <2>2, <2>3, <2>4 DEF WindowInv
<1> QED BY <1>1, <1>4, <1>5 DEF EventsInv, WindowInv

LEMMA ChangedKeeps ==
  ASSUME EventsInv, NEW s \in SessionIds, NEW session \in SignalType, Changed(s, session),
         signals[s] # Absent => session.user = signals[s].user,
         UNCHANGED accountVars
  PROVE  EventsInv'
BY PublishedKeeps, UnsavedKeeps DEF Changed

\* Adding a candidate keeps it a sequence of priorities.
LEMMA CandidateAdded ==
  ASSUME NEW cs \in Seq(Nat), NEW p \in Nat
  PROVE  WithCandidate(cs, p) \in Seq(Nat)
<1> DEFINE higher == {i \in DOMAIN cs : cs[i] >= p}
           n == Cardinality(higher)
<1>1. Len(cs) \in Nat /\ DOMAIN cs = 1..Len(cs)
  OBVIOUS
<1>2. IsFiniteSet(1..Len(cs)) /\ Cardinality(1..Len(cs)) = Len(cs)
  <2>1. 1 \in Int /\ Len(cs) \in Int
    BY <1>1
  <2>2. IsFiniteSet(1..Len(cs))
        /\ Cardinality(1..Len(cs)) = IF 1 > Len(cs) THEN 0 ELSE Len(cs) - 1 + 1
    BY <2>1, FS_Interval, ZenonT(20)
  <2>3. (IF 1 > Len(cs) THEN 0 ELSE Len(cs) - 1 + 1) = Len(cs)
    BY <1>1
  <2>4. Cardinality(1..Len(cs)) = Len(cs)
    BY <2>2, <2>3, SMT
  <2> QED BY <2>2, <2>4, Zenon
<1>3. n \in Nat /\ n <= Len(cs)
  <2>1. higher \in SUBSET (1..Len(cs))
    BY <1>1
  <2>2. IsFiniteSet(higher) /\ n <= Len(cs)
    BY <1>2, <2>1, FS_Subset
  <2> QED BY <2>2, FS_CardinalityType
<1>4. WithCandidate(cs, p) = SubSeq(cs, 1, n) \o <<p>> \o SubSeq(cs, n + 1, Len(cs))
  <2>1. (n + 1) - 1 = n
    BY <1>3
  <2> QED BY <2>1 DEF WithCandidate, InsertAt
<1> HIDE DEF n
<1>5. SubSeq(cs, 1, n) \in Seq(Nat) /\ SubSeq(cs, n + 1, Len(cs)) \in Seq(Nat)
  <2>1. \A i \in 1..n : cs[i] \in Nat
    BY <1>1, <1>3
  <2>2. \A i \in (n + 1)..Len(cs) : cs[i] \in Nat
    BY <1>1, <1>3
  <2> QED BY <1>1, <1>3, <2>1, <2>2
<1>6. <<p>> \in Seq(Nat)
  OBVIOUS
<1> DEFINE a == SubSeq(cs, 1, n)
           b == SubSeq(cs, n + 1, Len(cs))
<1>7. a \in Seq(Nat) /\ b \in Seq(Nat) /\ WithCandidate(cs, p) = a \o <<p>> \o b
  BY <1>4, <1>5
<1> HIDE DEF a, b
<1> QED BY <1>6, <1>7

LEMMA NextEvents == EventsInv /\ [SessionsNext]_sessionsVars => EventsInv'
<1> SUFFICES ASSUME EventsInv, [SessionsNext]_sessionsVars PROVE EventsInv'
  OBVIOUS
<1>1. ASSUME NEW m \in Emails, StartLogin(m) \/ CodeExpires(m) \/ VerifyExpired(m)
      PROVE  EventsInv'
  <2>1. UNCHANGED <<access, refresh, signalVars, streamVars>>
    BY <1>1 DEF StartLogin, CodeExpires, VerifyExpired
  <2> QED BY <2>1, AccountsLeaveEvents DEF EventsInv, EventsType
<1>2. ASSUME NEW m \in Emails, NEW code, VerifyLogin(m, code) PROVE EventsInv'
  <2>1. /\ access' = With(access, tokens + 1, m) /\ refresh' = With(refresh, tokens + 1, m)
        /\ UNCHANGED <<signalVars, streamVars>>
    BY <1>2 DEF VerifyLogin
  <2>2. (\A t \in DOMAIN access' : access'[t] \in Emails)
        /\ \A r \in DOMAIN refresh' : refresh'[r] \in Emails
    BY <2>1 DEF With, EventsInv, EventsType
  <2> QED BY <2>1, <2>2, AccountsLeaveEvents
<1>3. ASSUME NEW r \in DOMAIN refresh, RefreshAccess(r) PROVE EventsInv'
  <2>1. /\ access' = With(access, tokens + 1, refresh[r])
        /\ UNCHANGED <<refresh, signalVars, streamVars>>
    BY <1>3 DEF RefreshAccess
  <2>2. (\A t \in DOMAIN access' : access'[t] \in Emails)
    BY <2>1 DEF With, EventsInv, EventsType
  <2> QED BY <2>1, <2>2, AccountsLeaveEvents DEF EventsInv, EventsType
<1>4. ASSUME NEW t, NEW r, Logout(t, r) PROVE EventsInv'
  <2>1. /\ access' = Without(access, t) /\ refresh' = Without(refresh, r)
        /\ UNCHANGED <<signalVars, streamVars>>
    BY <1>4 DEF Logout
  <2>2. (\A u \in DOMAIN access' : access'[u] \in Emails)
        /\ \A u \in DOMAIN refresh' : refresh'[u] \in Emails
    BY <2>1 DEF Without, EventsInv, EventsType
  <2> QED BY <2>1, <2>2, AccountsLeaveEvents
<1>5. ASSUME NEW w \in Windows,
             StreamEvent(w) \/ EventStreamEnds(w) \/ \E t \in Callers : Subscribe(w, t)
      PROVE  EventsInv'
  BY <1>5, StreamEventKeeps, StreamEndKeeps, SubscribeKeeps
<1>6. ASSUME NEW s \in SessionIds, NEW t \in Callers, RequestConnect(s, t) PROVE EventsInv'
  <2> DEFINE session == [user |-> Caller(t), status |-> "requested", closed |-> FALSE,
                         candidates |-> <<>>]
  <2>1. session \in SignalType
    BY CallerIsUser DEF SignalType, Statuses
  <2>2. signals[s] = Absent /\ Changed(s, session) /\ UNCHANGED accountVars
    BY <1>6 DEF RequestConnect
  <2> HIDE DEF session
  <2> QED BY <2>1, <2>2, ChangedKeeps
<1>7. ASSUME NEW s \in SessionIds, NEW t, NEW status \in {"accepted", "rejected", "closed"},
             SetStatus(s, t, status)
      PROVE  EventsInv'
  <2> DEFINE session == Status(signals[s], status)
  <2>1. signals[s] \in SignalType
    BY <1>7 DEF SetStatus, Owned, EventsInv, EventsType
  <2>2. session = [[signals[s] EXCEPT !.status = status]
                      EXCEPT !.closed = signals[s].closed \/ status = "closed"]
    BY <2>1 DEF Status, SignalType
  <2>3. session \in SignalType /\ session.user = signals[s].user
    <3>1. (signals[s].closed \/ status = "closed") \in BOOLEAN
      OBVIOUS
    <3> DEFINE c == signals[s].closed \/ status = "closed"
    <3> HIDE DEF c
    <3>2. session = [[signals[s] EXCEPT !.status = status] EXCEPT !.closed = c]
          /\ c \in BOOLEAN /\ status \in Statuses
      BY <2>2, <3>1 DEF c, Statuses
    <3> HIDE DEF session
    <3> QED BY <2>1, <3>2 DEF SignalType
  <2> HIDE DEF session
  <2>4. Changed(s, session) /\ UNCHANGED accountVars
    BY <1>7 DEF SetStatus, session
  <2> QED BY <2>3, <2>4, ChangedKeeps
<1>8. ASSUME NEW s \in SessionIds, NEW t, NEW p \in Priorities, AddCandidate(s, t, p)
      PROVE  EventsInv'
  <2> DEFINE cs == WithCandidate(signals[s].candidates, p)
             session == [signals[s] EXCEPT !.candidates = cs]
  <2>1. signals[s] \in SignalType /\ p \in Nat
    BY <1>8, SessionsAssumption DEF AddCandidate, Owned, EventsInv, EventsType
  <2>2. cs \in Seq(Nat)
    <3>1. signals[s].candidates \in Seq(Nat)
      BY <2>1 DEF SignalType
    <3> QED BY <2>1, <3>1, CandidateAdded
  <2>3. Changed(s, session) /\ UNCHANGED accountVars
    BY <1>8, <2>1 DEF AddCandidate, SignalType
  <2> HIDE DEF cs
  <2>4. session \in SignalType /\ session.user = signals[s].user
    BY <2>1, <2>2 DEF SignalType
  <2> HIDE DEF session
  <2> QED BY <2>3, <2>4, ChangedKeeps
<1>9. CASE UNCHANGED sessionsVars
  <2>1. UNCHANGED <<access, refresh, signalVars, streamVars>>
    BY <1>9 DEF sessionsVars, accountVars
  <2> QED BY <2>1, AccountsLeaveEvents DEF EventsInv, EventsType
<1> QED
  BY <1>1, <1>2, <1>3, <1>4, <1>5, <1>6, <1>7, <1>8, <1>9 DEF SessionsNext

(* A window that was sent all its events and missed none knows every       *)
(* signal session it was told of as it is, unless the last change of the   *)
(* session could not be saved, for any users, windows and sessions, and a  *)
(* broadcast channel of any capacity.                                      *)
THEOREM WindowsKnow == SessionsSpec => []WindowsAreCurrent
<1>1. EventsInv => WindowsAreCurrent
  BY DEF EventsInv, WindowInv, Latest, WindowsAreCurrent
<1> QED BY <1>1, InitEvents, NextEvents, PTL DEF SessionsSpec
=============================================================================
