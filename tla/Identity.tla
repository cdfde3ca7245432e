------------------------------ MODULE Identity ------------------------------
(***************************************************************************)
(* The first start of a device: where its configuration is, how it is      *)
(* seeded from the installed package (crates/kmsync/src/main.rs), and how  *)
(* the identity beside it is loaded or generated                           *)
(* (crates/kmsync/src/client/mod.rs).                                      *)
(*                                                                         *)
(* The window, the core service and the capture process start together,    *)
(* each with threads of its own, and every one of them loads the identity  *)
(* whenever it needs it, without a lock.  A process may be killed between  *)
(* any two steps, and each call to the system may fail.                    *)
(***************************************************************************)
EXTENDS Naturals, Sequences

CONSTANTS
  Processes,  \* whoever loads the identity
  Packages,   \* what is on the disk before: [os, installed, home, configs, identities]
  MaxStarts,  \* starts of processes
  MaxLoads,   \* loads that begin
  MaxFailures \* calls that fail and processes killed

ASSUME IdentityAssumption ==
  {MaxStarts, MaxLoads, MaxFailures} \subseteq Nat

NoId == 0
Old == 1     \* the device that was installed before

(* An identity file.  Its key is written into it or named by reference.    *)
NoFile == [kind |-> "none"]
Blank == [kind |-> "blank"]
Junk == [kind |-> "junk"]
File(id, key, how) == [kind |-> "file", id |-> id, key |-> key, how |-> how]

(* Files on the disk before; one that names a key names the stored one.    *)
ASSUME PackagesAssumption ==
  \A p \in Packages : \A d \in DOMAIN p.identities :
    LET f == p.identities[d]
    IN  \/ f \in {NoFile, Blank, Junk}
        \/ f \in [kind : {"file"}, id : {NoId, Old}, key : {Old},
                   how : {"inline", "ref", "neither"}]

VARIABLES
  env,        \* [os, installed, home]
  configs,    \* configuration file of each directory: "none", "part" or "whole"
  identities, \* identity file of each directory
  secrets,    \* keys in the system's credential store
  pc,         \* of each process
  mem,        \* identity each process holds
  made,       \* identities generated: they are numbered from Old
  begun,      \* [starts, loads, failures] so far
  alone,      \* history: processes whose load overlapped with no other
  settled     \* history: the identity such a load returned, or NoId

identityVars == <<env, configs, identities, secrets, pc, mem, made, begun, alone, settled>>
disk == <<configs, identities, secrets>>
history == <<made, begun, alone, settled>>

-----------------------------------------------------------------------------
(* Where the configuration is. *)

Candidates == <<"cwd/configs", "cwd/config", "exe/configs", "exe/config", "package/config",
                "package/configs">>

Dirs == {Candidates[i] : i \in DOMAIN Candidates} \cup {"user"}

Exists(dir) == configs[dir] # "none"

(* default_daemon_config_path_from_env *)
ConfigDir ==
  LET found == {i \in DOMAIN Candidates : Exists(Candidates[i])}
  IN  IF env.home /\ env.installed /\ env.os \in {"windows", "macos"} THEN "user"
      ELSE IF found # {} THEN Candidates[CHOOSE i \in found : \A j \in found : i <= j]
      ELSE IF env.home THEN "user" ELSE "cwd/configs"

(* seed_default_daemon_config_if_needed: the directories to copy from.     *)
Bundled == env.os = "macos" /\ env.installed

Seeds ==
  IF Exists(ConfigDir) THEN {}
  ELSE IF Exists("exe/configs") /\ ConfigDir # "exe/configs" THEN {"exe/configs"}
  ELSE IF Bundled /\ Exists("package/configs") THEN {"package/configs"} ELSE {}

Here == identities[ConfigDir]

-----------------------------------------------------------------------------
Installed(p) ==
  /\ env = [os |-> p.os, installed |-> p.installed, home |-> p.home]
  /\ configs = [d \in Dirs |-> IF d \in p.configs THEN "whole" ELSE "none"]
  /\ identities = [d \in Dirs |-> IF d \in DOMAIN p.identities THEN p.identities[d]
                                  ELSE NoFile]
  /\ secrets = IF p.os = "windows" THEN {Old} ELSE {}
  /\ pc = [q \in Processes |-> "off"]
  /\ mem = [q \in Processes |-> NoFile]
  /\ made = Old
  /\ begun = [starts |-> 0, loads |-> 0, failures |-> 0]
  /\ alone = {} /\ settled = NoId

IdentityInit == \E p \in Packages : Installed(p)

Busy(p) == pc[p] \in {"find identity", "copy identity", "copying identity", "read", "store",
                      "write", "return"}

At(p, from, to) == pc[p] = from /\ pc' = [pc EXCEPT ![p] = to]

FailureCounts ==
  /\ begun.failures < MaxFailures
  /\ begun' = [begun EXCEPT !.failures = @ + 1]

-----------------------------------------------------------------------------
(* A process starts: default_daemon_config_path, then                      *)
(* ensure_daemon_config_file, then ClientConfig::load. *)

Start(p) ==
  /\ begun.starts < MaxStarts
  /\ At(p, "off", "seed")
  /\ begun' = [begun EXCEPT !.starts = @ + 1]
  /\ UNCHANGED <<env, disk, mem, made, alone, settled>>

(* What is not there when it is looked for may be there when it is copied. *)
Seed(p) ==
  /\ At(p, "seed", IF Seeds = {} THEN "ensure" ELSE "open seed")
  /\ UNCHANGED <<env, disk, mem, history>>

(* copy_seed_daemon_config and fs::write of the template: both create or   *)
(* empty the file before they fill it.                                     *)
Open(p) ==
  /\ At(p, "open seed", "copy config") \/ At(p, "open template", "create")
  /\ configs' = [configs EXCEPT ![ConfigDir] = "part"]
  /\ UNCHANGED <<env, identities, secrets, mem, history>>

SeedFrom == IF Exists("exe/configs") /\ ConfigDir # "exe/configs" THEN "exe/configs"
            ELSE "package/configs"

ConfigCopied(p) ==
  /\ At(p, "copy config", "find identity")
  /\ configs' = [configs EXCEPT ![ConfigDir] = "whole"]
  /\ alone' = {}
  /\ UNCHANGED <<env, identities, secrets, mem, made, begun, settled>>

(* copy_relative_identity_seed *)
FindIdentity(p) ==
  /\ IF identities[SeedFrom].kind = "none" \/ Here.kind # "none"
     THEN At(p, "find identity", "ensure")
     ELSE At(p, "find identity", "copy identity")
  /\ UNCHANGED <<env, disk, mem, history>>

CopyIdentity(p) ==
  /\ At(p, "copy identity", "copying identity")
  /\ identities' = [identities EXCEPT ![ConfigDir] = Blank]
  /\ UNCHANGED <<env, configs, secrets, mem, history>>

IdentityCopied(p) ==
  /\ At(p, "copying identity", "ensure")
  /\ identities' = [identities EXCEPT ![ConfigDir] = identities[SeedFrom]]
  /\ UNCHANGED <<env, configs, secrets, mem, history>>

(* A failed copy is reported and the start goes on.                        *)
SeedFails(p) ==
  /\ pc[p] \in {"copy config", "copy identity", "copying identity"}
  /\ pc' = [pc EXCEPT ![p] = "ensure"]
  /\ FailureCounts
  /\ UNCHANGED <<env, disk, mem, made, alone, settled>>

Ensure(p) ==
  /\ At(p, "ensure", IF Exists(ConfigDir) THEN "configure" ELSE "open template")
  /\ UNCHANGED <<env, disk, mem, history>>

Created(p) ==
  /\ At(p, "create", "configure")
  /\ configs' = [configs EXCEPT ![ConfigDir] = "whole"]
  /\ UNCHANGED <<env, identities, secrets, mem, history>>

(* Half a configuration cannot be parsed and ends the process.             *)
LoadConfig(p) ==
  /\ IF configs[ConfigDir] = "whole" THEN At(p, "configure", "ready")
     ELSE At(p, "configure", "off")
  /\ UNCHANGED <<env, disk, mem, history>>

-----------------------------------------------------------------------------
(* DeviceIdentity::load_or_generate *)

UsesStore == env.os = "windows"

BeginLoad(p) ==
  /\ begun.loads < MaxLoads
  /\ At(p, "ready", "read")
  /\ begun' = [begun EXCEPT !.loads = @ + 1]
  /\ alone' = IF \E q \in Processes : Busy(q) THEN {} ELSE {p}
  /\ UNCHANGED <<env, disk, mem, made, settled>>

(* A file without a device id is given a new one.                          *)
WithId(f) == IF f.id = NoId THEN [f EXCEPT !.id = made + 1] ELSE f

Takes(p, f, to) ==
  /\ pc' = [pc EXCEPT ![p] = to]
  /\ mem' = [mem EXCEPT ![p] = WithId(f)]
  /\ made' = IF f.id = NoId THEN made + 1 ELSE made

(* The steps that keep a new identity.                                     *)
(* Mutant: the file that names a key is written before the key is stored.  *)
MutantOrder == IF UsesStore THEN <<"write", "store">> ELSE <<"write">>

Order == IF UsesStore THEN <<"store", "write">> ELSE <<"write">>

After(step) ==
  LET i == CHOOSE i \in DOMAIN Order : Order[i] = step
  IN  IF i < Len(Order) THEN Order[i + 1] ELSE "return"

Generates(p) ==
  Takes(p, File(NoId, made + 1, IF UsesStore THEN "ref" ELSE "inline"), Order[1])

GivesUp(p) == pc' = [pc EXCEPT ![p] = "ready"] /\ UNCHANGED <<mem, made>>

Complete(f) == f.id # NoId

(* load_or_generate_local_file *)
ReadLocal(p) ==
  /\ pc[p] = "read" /\ ~UsesStore
  /\ \/ Here.kind \in {"none", "blank"} /\ Generates(p)
     \/ Here.kind = "junk" /\ GivesUp(p)
     \/ /\ Here.kind = "file"
        /\ IF Here.how # "inline" THEN Generates(p)
           ELSE Takes(p, Here, "write")
  /\ UNCHANGED <<env, disk, begun, alone, settled>>

(* load_or_generate_with_store, DeviceIdentityFile::load *)
ReadStored(p) ==
  /\ pc[p] = "read" /\ UsesStore
  /\ \/ Here.kind = "none" /\ Generates(p)
     \/ Here.kind \in {"blank", "junk"} /\ GivesUp(p)
     \/ /\ Here.kind = "file" /\ Here.how = "ref"
        /\ IF Here.key \notin secrets THEN GivesUp(p)
           ELSE Takes(p, Here, IF Complete(Here) THEN "return" ELSE "write")
     \/ Here.kind = "file" /\ Here.how = "inline" /\ Takes(p, [Here EXCEPT !.how = "ref"], Order[1])
     \/ Here.kind = "file" /\ Here.how = "neither" /\ GivesUp(p)
  /\ UNCHANGED <<env, disk, begun, alone, settled>>

Store(p) ==
  /\ At(p, "store", After("store"))
  /\ secrets' = secrets \cup {mem[p].key}
  /\ UNCHANGED <<env, configs, identities, mem, history>>

(* write_device_identity_file, write_device_identity_local_file: written   *)
(* to a temporary file that is renamed.                                    *)
Write(p) ==
  /\ At(p, "write", After("write"))
  /\ identities' = [identities EXCEPT ![ConfigDir] = mem[p]]
  /\ UNCHANGED <<env, configs, secrets, mem, history>>

LoadFails(p) ==
  /\ pc[p] \in {"store", "write"}
  /\ pc' = [pc EXCEPT ![p] = "ready"]
  /\ FailureCounts
  /\ UNCHANGED <<env, disk, mem, made, alone, settled>>

Return(p) ==
  /\ At(p, "return", "ready")
  /\ settled' = IF p \in alone /\ settled = NoId THEN mem[p].id ELSE settled
  /\ UNCHANGED <<env, disk, mem, made, begun, alone>>

Killed(p) ==
  /\ pc[p] # "off"
  /\ pc' = [pc EXCEPT ![p] = "off"]
  /\ FailureCounts
  /\ UNCHANGED <<env, disk, mem, made, alone, settled>>

IdentityNext ==
  \E p \in Processes :
    \/ Start(p) \/ Seed(p) \/ Open(p) \/ ConfigCopied(p) \/ FindIdentity(p)
    \/ CopyIdentity(p)
    \/ IdentityCopied(p) \/ SeedFails(p) \/ Ensure(p) \/ Created(p) \/ LoadConfig(p)
    \/ BeginLoad(p) \/ ReadLocal(p) \/ ReadStored(p) \/ Store(p) \/ Write(p)
    \/ LoadFails(p) \/ Return(p) \/ Killed(p)

IdentitySpec == IdentityInit /\ [][IdentityNext]_identityVars

-----------------------------------------------------------------------------
(* Whatever is killed or fails half-way, an identity file that names a key *)
(* of the credential store names one that is there: a device never has an  *)
(* identity it cannot use.                                                 *)
KeyIsStored ==
  Here.kind = "file" /\ Here.how = "ref" /\ UsesStore => Here.key \in secrets

(* Once a load that overlapped with no other has returned an identity,     *)
(* every load that ends later returns the same one, across restarts.       *)
SettledStays ==
  [][\A p \in Processes : pc[p] = "return" /\ pc'[p] = "ready" /\ settled # NoId
                            => mem[p].id = settled]_identityVars
-----------------------------------------------------------------------------
(* What a load returned is what every later load returns (connect.md:11).  *)
ReusedLater ==
  [][\A p \in Processes :
       pc[p] = "return" /\ pc'[p] = "ready" /\ Here.kind = "file"
         => mem[p].id = Here.id]_identityVars

(* Not kept: a start after an upgrade keeps the device's identity.         *)
UpgradeKeepsIdentity ==
  \A p \in Processes :
    pc[p] = "return" /\ identities["exe/configs"].kind = "file" => mem[p].id = Old
=============================================================================
