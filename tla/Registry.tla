------------------------------ MODULE Registry ------------------------------
(***************************************************************************)
(* The registry of the server: devices, their presence, what was deleted,  *)
(* and the layout and profiles that refer to devices.  Each handler holds  *)
(* the lock of the store from its checks to its save, so it is one action; *)
(* saves succeed here, and failures of the save are in Profiles.  One user *)
(* and one operating system.  A heartbeat reports one LAN address or none  *)
(* and comes from a public one; the port, the kind of NAT and the display, *)
(* which it compares as it does the LAN address, do not change, and the    *)
(* clock of the server does not step back.                                 *)
(***************************************************************************)
EXTENDS Naturals, FiniteSets

CONSTANTS
    Ids,            \* device ids
    Identities,     \* pairs of an id and a public key that computers register with
    Keys,           \* public keys
    Names,          \* names, as configured on a computer or given by the user
    Ips,            \* addresses
    Reports,        \* the LAN address, or None, and the public address heartbeats come with
    Pairs,          \* pairs of source and target profiles are made for
    Layouts,        \* layouts the user sets
    MaxVersion,     \* bound: versions of presence
    MaxEdits,       \* bound: requests of the user (names, keys, layout, profiles, deletions)
    None

Slots == {"master", "right"}

ASSUME RegistryAssumption ==
    /\ Identities \subseteq Ids \X Keys
    /\ Layouts \subseteq [Slots -> Ids \cup {None}]
    /\ Pairs \subseteq Ids \X Ids
    /\ Reports \subseteq (Ips \cup {None}) \X Ips
    /\ MaxVersion \in Nat \ {0} /\ MaxEdits \in Nat
    /\ None \notin Ids \cup Ips
    /\ None \notin [key : Keys, name : Names, disabled : BOOLEAN]
    /\ None \notin [lan : Ips \cup {None}, public : Ips, online : BOOLEAN, version : Nat]

VARIABLES
    devices,        \* id -> [key, name, disabled], None if there is no such device
    presence,       \* id -> [lan, public, online, version], None before the first heartbeat
    expired,        \* ids whose presence is older than its time to live
    deletedKeys,    \* deleted_device_keys
    tombstones,     \* deleted_presented_devices: a name and an address, of its kind
    layout,         \* slot of the topology -> id or None
    profiles,       \* pairs of source and target that have a profile
    authorised,     \* history: ids whose record has its key from an authorisation
    dropped,        \* history: ids whose heartbeat removed them
    seen,           \* history: what a client last read of a presence, None if nothing
    removed,        \* history: ids whose record was removed since a client last read it
    edits           \* number of requests of the user

registryVars == <<devices, presence, expired, deletedKeys, tombstones, layout, profiles,
                  authorised, dropped, seen, removed, edits>>

Known == {d \in Ids : devices[d] # None}
Device(key, name) == [key |-> key, name |-> name, disabled |-> FALSE]
Presence(lan, public, online, version) ==
    [lan |-> lan, public |-> public, online |-> online, version |-> version]

RegistryInit ==
    /\ devices = [d \in Ids |-> None]
    /\ presence = [d \in Ids |-> None]
    /\ expired = {} /\ deletedKeys = {} /\ tombstones = {}
    /\ layout = [s \in Slots |-> None]
    /\ profiles = {} /\ authorised = {} /\ dropped = {}
    /\ seen = [d \in Ids |-> None]
    /\ removed = {} /\ edits = 0

\* A request of the user.
Edit == edits < MaxEdits /\ edits' = edits + 1

-----------------------------------------------------------------------------
(* Registering.                                                            *)

DeletedElsewhere(id, key) == \E d \in Ids \ {id} : <<d, key>> \in deletedKeys
DeletedHere(id, key) == <<id, key>> \in deletedKeys

\* deleted_device_key_decision; the set is visited in any order, but an entry of another
\* id ends the search.
Decision(id, key) ==
    IF DeletedElsewhere(id, key) THEN "block"
    ELSE IF DeletedHere(id, key) THEN "reactivate" ELSE "none"

Holders(key) == {d \in Known : devices[d].key = key}

\* The record a registration is for: its own id if known, else a record with the key.
Record(id, key) == IF id \in Known \/ Holders(key) = {} THEN {id} ELSE Holders(key)

Register(id, key, name) ==
    /\ ~(id \notin Known /\ Decision(id, key) = "block")
    /\ \E d \in Record(id, key) :
        /\ d \in Known => devices[d].key = key
        /\ devices' = IF d \in Known THEN devices
                      ELSE [devices EXCEPT ![d] = Device(key, name)]
        /\ deletedKeys' = deletedKeys \ {<<d, key>>}
        /\ tombstones' = IF Decision(id, key) = "reactivate"
                         THEN {t \in tombstones : t[1] # name} ELSE tombstones
        /\ dropped' = dropped \ {d}
    /\ UNCHANGED <<presence, expired, layout, profiles, authorised, seen, removed, edits>>

\* update_device: the user renames, disables or enables a device.
Update(d, name, disabled) ==
    /\ Edit
    /\ d \in Known
    /\ devices' = [devices EXCEPT ![d].name = name, ![d].disabled = disabled]
    /\ UNCHANGED <<presence, expired, deletedKeys, tombstones, layout, profiles,
                   authorised, dropped, seen, removed>>

\* reauthorize_device does not look at the keys of the others.
Reauthorize(d, key) ==
    /\ Edit
    /\ d \in Known
    /\ devices' = [devices EXCEPT ![d].key = key, ![d].disabled = FALSE]
    /\ authorised' = authorised \cup {d}
    /\ UNCHANGED <<presence, expired, deletedKeys, tombstones, layout, profiles,
                   dropped, seen, removed>>

-----------------------------------------------------------------------------
(* Presence.                                                               *)

Online(d) == presence[d] # None /\ presence[d].online /\ d \notin expired

\* The LAN address changed, or the device was not online; the public address does not count.
MutantPresenceChanges(d, lan) == presence[d] = None \/ ~Online(d)
PresenceChanges(d, lan) == presence[d] = None \/ ~Online(d) \/ presence[d].lan # lan

NextVersion(d) == IF presence[d] = None THEN 1 ELSE presence[d].version + 1

\* deleted_presented_device_keys: a device is known by its LAN address, else by the public one.
Presented(name, lan, public) ==
    IF lan # None THEN <<name, "lan", lan>> ELSE <<name, "public", public>>

\* A heartbeat that matches a deleted device removes the record and nothing else.
HeartbeatDrops(d, lan, public) ==
    /\ d \in Known /\ ~devices[d].disabled
    /\ Presented(devices[d].name, lan, public) \in tombstones
    /\ devices' = [devices EXCEPT ![d] = None]
    /\ presence' = [presence EXCEPT ![d] = None]
    /\ expired' = expired \ {d}
    /\ dropped' = dropped \cup {d}
    /\ authorised' = authorised \ {d}
    /\ removed' = removed \cup {d}
    /\ UNCHANGED <<deletedKeys, tombstones, layout, profiles, seen, edits>>

Heartbeat(d, lan, public) ==
    /\ d \in Known /\ ~devices[d].disabled
    /\ Presented(devices[d].name, lan, public) \notin tombstones
    /\ LET version == IF PresenceChanges(d, lan) THEN NextVersion(d) ELSE presence[d].version
       IN  /\ version <= MaxVersion
           /\ presence' = [presence EXCEPT ![d] = Presence(lan, public, TRUE, version)]
    /\ expired' = expired \ {d}
    /\ UNCHANGED <<devices, deletedKeys, tombstones, layout, profiles, authorised,
                   dropped, seen, removed, edits>>

\* mark_device_offline
MarkOffline(d) ==
    /\ d \in Known /\ presence[d] # None
    /\ NextVersion(d) <= MaxVersion
    /\ presence' = [presence EXCEPT ![d].online = FALSE, ![d].version = @ + 1]
    /\ expired' = expired \cup {d}
    /\ UNCHANGED <<devices, deletedKeys, tombstones, layout, profiles, authorised,
                   dropped, seen, removed, edits>>

\* The time to live passes without a heartbeat.
Expire(d) ==
    /\ presence[d] # None /\ d \notin expired
    /\ expired' = expired \cup {d}
    /\ UNCHANGED <<devices, presence, deletedKeys, tombstones, layout, profiles,
                   authorised, dropped, seen, removed, edits>>

\* presence_for_device_list: an expired device is shown offline, under the version it has.
Shown(d) ==
    IF presence[d] = None THEN None ELSE [presence[d] EXCEPT !.online = Online(d)]

\* list_devices: a client reads the candidates of all devices, their versions and which are
\* online.
ListDevices ==
    /\ seen' = [d \in Ids |-> IF d \in Known THEN Shown(d) ELSE seen[d]]
    /\ removed' = removed \ Known
    /\ UNCHANGED <<devices, presence, expired, deletedKeys, tombstones, layout, profiles,
                   authorised, dropped, edits>>

-----------------------------------------------------------------------------
(* Deleting.                                                               *)

\* devices_share_presented_identity
Same(d, e) ==
    \/ d = e
    \/ devices[d].key = devices[e].key
    \/ /\ devices[d].name = devices[e].name
       /\ presence[d] # None /\ presence[e] # None
       /\ \/ presence[d].lan # None /\ presence[d].lan = presence[e].lan
          \/ /\ presence[d].lan = None /\ presence[e].lan = None
             /\ presence[d].public = presence[e].public

\* device_deletion_scope: an offline record next to an online one of the same computer is
\* removed alone.
Single(d) == ~Online(d) /\ \E e \in Known \ {d} : Online(e) /\ Same(d, e)

Group(d) == IF Single(d) THEN {d} ELSE {e \in Known : Same(d, e)}

MutantCleared(slots, gone) == [slots EXCEPT !["right"] = IF @ \in gone THEN None ELSE @]

\* clear_deleted_layout_slot, and the master.
Cleared(slots, gone) == [s \in Slots |-> IF slots[s] \in gone THEN None ELSE slots[s]]

Delete(d) ==
    LET gone == Group(d)
    IN  /\ Edit
        /\ d \in Known
        /\ deletedKeys' = deletedKeys \cup {<<e, devices[e].key>> : e \in gone}
        /\ tombstones' = IF Single(d) THEN tombstones
                         ELSE tombstones \cup
                                {Presented(devices[e].name, presence[e].lan, presence[e].public) :
                                 e \in {x \in gone : presence[x] # None}}
        /\ devices' = [e \in Ids |-> IF e \in gone THEN None ELSE devices[e]]
        /\ presence' = [e \in Ids |-> IF e \in gone THEN None ELSE presence[e]]
        /\ expired' = expired \ gone
        /\ layout' = Cleared(layout, gone)
        /\ profiles' = {p \in profiles : p[1] \notin gone /\ p[2] \notin gone}
        /\ dropped' = dropped \ gone
        /\ authorised' = authorised \ gone
        /\ removed' = removed \cup gone
        /\ UNCHANGED seen

-----------------------------------------------------------------------------
(* Layout and profiles: what refers to devices.                            *)

\* upsert_topology: every device named must exist.
SetLayout(slots) ==
    /\ Edit
    /\ \A s \in Slots : slots[s] # None => slots[s] \in Known
    /\ layout' = slots
    /\ UNCHANGED <<devices, presence, expired, deletedKeys, tombstones, profiles,
                   authorised, dropped, seen, removed>>

\* upsert_profile, as far as the registry is concerned.
SaveProfile(source, target) ==
    /\ Edit
    /\ source \in Known /\ target \in Known
    /\ profiles' = profiles \cup {<<source, target>>}
    /\ UNCHANGED <<devices, presence, expired, deletedKeys, tombstones, layout,
                   authorised, dropped, seen, removed>>

RegistryNext ==
    \/ \E i \in Identities, name \in Names : Register(i[1], i[2], name)
    \/ \E d \in Ids :
        \/ \E name \in Names, disabled \in BOOLEAN : Update(d, name, disabled)
        \/ \E key \in Keys : Reauthorize(d, key)
        \/ \E r \in Reports : Heartbeat(d, r[1], r[2]) \/ HeartbeatDrops(d, r[1], r[2])
        \/ MarkOffline(d) \/ Expire(d) \/ Delete(d)
    \/ ListDevices
    \/ \E slots \in Layouts : SetLayout(slots)
    \/ \E p \in Pairs : SaveProfile(p[1], p[2])

RegistrySpec == RegistryInit /\ [][RegistryNext]_registryVars

-----------------------------------------------------------------------------
(* Properties.                                                             *)

\* Two records have one public key only if an authorisation gave it to one of them: however
\* computers lose their id or their key, are deleted and come back, registering finds the
\* record that has the key already.
KeyIdentifiesDevice ==
    \A d, e \in Known :
        devices[d].key = devices[e].key => d = e \/ d \in authorised \/ e \in authorised

\* Layout and profiles refer to devices that exist, or to one its own heartbeat removed:
\* that path cleans up neither.
NoDanglingRefs ==
    /\ \A s \in Slots : layout[s] \in Known \cup dropped \cup {None}
    /\ \A p \in profiles : {p[1], p[2]} \subseteq Known \cup dropped

\* A client that read a version which is still the current one has the LAN candidates of now,
\* and a device it was shown as offline is not online again, as long as the record was not
\* removed in between.
SameVersionSameCandidates ==
    \A d \in Ids \ removed :
        seen[d] # None /\ presence[d] # None /\ seen[d].version = presence[d].version =>
            /\ seen[d].lan = presence[d].lan
            /\ Online(d) => seen[d].online

\* Under one version a client is shown one and the same thing.  The code breaks this: a device
\* whose presence expires is shown offline under the version it was online with.
VersionRises ==
    \A d \in Ids \ removed :
        seen[d] # None /\ presence[d] # None /\ seen[d].version = presence[d].version =>
            Shown(d) = seen[d]
=============================================================================
