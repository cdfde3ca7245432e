------------------------------ MODULE Profiles ------------------------------
(***************************************************************************)
(* The versioned profile of a pair of devices on the server, and how the   *)
(* store is kept: each handler changes the store in memory, then saves it, *)
(* and answers with an error if the save fails, with the change left in    *)
(* memory.  A restart loads the file.  Editors read a profile and write it *)
(* back, with or without the version they expect; a follower asks for the  *)
(* changes after the revision it knows.                                    *)
(*                                                                         *)
(* A configuration is a number, a new one for each write.                  *)
(***************************************************************************)
EXTENDS Naturals, Sequences, SequencesExt

CONSTANTS
    Editors,
    MaxConfigs,     \* bound: configurations written
    MaxRollbacks,   \* bound: rollbacks
    MaxFailures,    \* bound: saves that fail
    MaxCrashes,     \* bound: restarts of the server
    MaxDeletions,   \* bound: deletions of a device of the pair
    NoConfig

ASSUME ProfilesAssumption ==
    /\ MaxConfigs \in Nat /\ MaxRollbacks \in Nat /\ MaxFailures \in Nat
    /\ MaxCrashes \in Nat /\ MaxDeletions \in Nat
    /\ NoConfig \notin Nat
    /\ NoConfig \notin [config : Nat, version : Nat, revision : Nat]
    /\ NoConfig \notin [config : Nat, version : Nat, life : Nat]

VARIABLES
    store,      \* in memory: [known, profile, history, revision]
    file,       \* the same as last saved
    copy,       \* editor -> what it last read: [version, config, life], None if nothing
    cursor,     \* the follower's revision
    mirror,     \* the follower's copy of the configuration, None if none
    configs, rollbacks, failures, crashes, deletions,
    life,       \* history: changes when the profile is removed, or unsaved changes are lost
    lossy,      \* history: a restart lost changes whose save had failed
    answered,   \* history: configurations whose write was answered with success
    overwritten \* history: a write that named a version replaced a configuration its
                \* editor had not read

profilesVars == <<store, file, copy, cursor, mirror, configs, rollbacks, failures, crashes,
                  deletions, life, lossy, answered, overwritten>>

Profile(config, version, revision) ==
    [config |-> config, version |-> version, revision |-> revision]

ProfilesInit ==
    /\ store = [known |-> TRUE, profile |-> NoConfig, history |-> <<>>, revision |-> 0]
    /\ file = store
    /\ copy = [e \in Editors |-> NoConfig]
    /\ cursor = 0 /\ mirror = NoConfig
    /\ configs = 0 /\ rollbacks = 0 /\ failures = 0 /\ crashes = 0 /\ deletions = 0
    /\ life = 0 /\ lossy = FALSE
    /\ answered = {} /\ overwritten = FALSE

-----------------------------------------------------------------------------
(* The end of every handler that changes the store.                        *)

\* save_locked: the file is written aside and renamed, so it is the old or the new one.
Saved(new) == file' = new /\ UNCHANGED failures
NotSaved == failures < MaxFailures /\ failures' = failures + 1 /\ file' = file

MutantCommit(new, c) ==
    /\ store' = new
    /\ Saved(new) \/ NotSaved
    /\ answered' = answered \cup ({c} \ {NoConfig})

\* The store becomes new, and configuration c, if any, is answered for.
Commit(new, c) ==
    /\ store' = new
    /\ \/ Saved(new) /\ answered' = answered \cup ({c} \ {NoConfig})
       \/ NotSaved /\ UNCHANGED answered

-----------------------------------------------------------------------------
(* Handlers.                                                               *)

MutantAccepts(expected) == TRUE

\* The version check of upsert_profile needs both an expectation and a profile.
Accepts(expected) ==
    expected # NoConfig /\ store.profile # NoConfig => expected = store.profile.version

Archived == IF store.profile = NoConfig THEN store.history
            ELSE Append(store.history, store.profile)
NextProfileVersion == IF store.profile = NoConfig THEN 1 ELSE store.profile.version + 1

\* The store after a write of a configuration.
Replaced(config) ==
    [store EXCEPT !.profile = Profile(config, NextProfileVersion, store.revision + 1),
                  !.history = Archived,
                  !.revision = @ + 1]

\* upsert_profile, by an editor that names the version it read or none.
Upsert(e, checks) ==
    LET expected == IF checks THEN copy[e].version ELSE NoConfig
    IN  /\ configs < MaxConfigs /\ store.known
        /\ checks => copy[e] # NoConfig
        /\ Accepts(expected)
        /\ configs' = configs + 1
        /\ Commit(Replaced(configs + 1), configs + 1)
        /\ overwritten' = (overwritten \/ /\ checks /\ copy[e].life = life
                                          /\ store.profile # NoConfig
                                          /\ store.profile.config # copy[e].config)
    /\ UNCHANGED <<copy, cursor, mirror, rollbacks, crashes, deletions, life, lossy>>

\* profile_version: the profile itself, else the first entry of the history.
HasVersion(v) == \E p \in ToSet(Archived) : p.version = v
WithVersion(v) ==
    IF store.profile.version = v THEN store.profile
    ELSE store.history[SelectInSeq(store.history, LAMBDA p : p.version = v)]

\* rollback_profile: the configuration of that version becomes a new version.
Rollback(v) ==
    /\ rollbacks < MaxRollbacks /\ store.profile # NoConfig
    /\ HasVersion(v)
    /\ Commit(Replaced(WithVersion(v).config), NoConfig)
    /\ rollbacks' = rollbacks + 1
    /\ UNCHANGED <<copy, cursor, mirror, configs, crashes, deletions, life, lossy,
                   overwritten>>

\* delete_device of a device of the pair: the profile goes, its history and the revision
\* stay as they are.
DeleteDevice ==
    /\ deletions < MaxDeletions /\ store.known
    /\ deletions' = deletions + 1
    /\ store' = [store EXCEPT !.known = FALSE, !.profile = NoConfig]
    /\ Saved(store') \/ NotSaved
    /\ life' = life + 1
    /\ answered' = IF store.profile = NoConfig THEN answered
                   ELSE answered \ {store.profile.config}
    /\ UNCHANGED <<copy, cursor, mirror, configs, rollbacks, crashes, lossy, overwritten>>

\* The device registers again.
Reregister ==
    /\ ~store.known
    /\ Commit([store EXCEPT !.known = TRUE], NoConfig)
    /\ UNCHANGED <<copy, cursor, mirror, configs, rollbacks, crashes, deletions, life,
                   lossy, overwritten>>

\* list_profiles; it shows memory, saved or not.
Read(e) ==
    /\ copy' = [copy EXCEPT ![e] =
            IF store.profile = NoConfig THEN NoConfig
            ELSE [version |-> store.profile.version, config |-> store.profile.config,
                  life |-> life]]
    /\ UNCHANGED <<store, file, cursor, mirror, configs, rollbacks, failures, crashes,
                   deletions, life, lossy, answered, overwritten>>

\* list_profile_changes
Pull ==
    /\ mirror' = IF store.profile # NoConfig /\ store.profile.revision > cursor
                 THEN store.profile.config ELSE mirror
    /\ cursor' = store.revision
    /\ UNCHANGED <<store, file, copy, configs, rollbacks, failures, crashes, deletions,
                   life, lossy, answered, overwritten>>

\* The server stops and starts again with the file.
Restart ==
    /\ crashes < MaxCrashes
    /\ crashes' = crashes + 1
    /\ store' = file
    /\ life' = IF store = file THEN life ELSE life + 1
    /\ lossy' = (lossy \/ store # file)
    /\ UNCHANGED <<file, copy, cursor, mirror, configs, rollbacks, failures, deletions,
                   answered, overwritten>>

ProfilesNext ==
    \/ \E e \in Editors, checks \in BOOLEAN : Upsert(e, checks)
    \/ \E v \in 1..(MaxConfigs + MaxRollbacks) : Rollback(v)
    \/ \E e \in Editors : Read(e)
    \/ DeleteDevice \/ Reregister \/ Pull \/ Restart

ProfilesSpec == ProfilesInit /\ [][ProfilesNext]_profilesVars

-----------------------------------------------------------------------------
(* Properties.                                                             *)

\* A write that names the version its editor read replaces nothing the editor has not
\* read, whatever others write and roll back in between, as long as the device is not
\* deleted and the server does not lose unsaved changes in between.
NoLostUpdate == ~overwritten

\* A follower whose revision is the current one has the current configuration, also of a
\* profile that was removed and made again, unless a restart lost unsaved changes.
CursorMissesNothing ==
    store.profile # NoConfig /\ cursor = store.revision /\ ~lossy =>
        mirror = store.profile.config

Configs(s) == {s.history[i].config : i \in DOMAIN s.history}
              \cup (IF s.profile = NoConfig THEN {} ELSE {s.profile.config})

\* What was answered with success is in the file, so a restart does not lose it.
AnsweredIsSaved == answered \subseteq Configs(file)
=============================================================================
