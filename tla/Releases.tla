------------------------------- MODULE Releases -------------------------------
(***************************************************************************)
(* Staged release of updates (check_release in crates/kmsync-server/src/   *)
(* main.rs, asked by print_update_check of crates/kmsync/src/client).      *)
(*                                                                         *)
(* A device falls into one of a hundred buckets by a hash of its identity; *)
(* the first percent buckets are offered the latest version.  Versions are *)
(* triples of numbers.  The policy is compiled into the server: a new one  *)
(* comes with a new server.  Installing is the user's.                     *)
(***************************************************************************)
EXTENDS Integers, Sequences

CONSTANTS
  Computers,
  AskedAs,   \* what a device may be asked for by: [device -> set of ids]
  Bucket,       \* [id -> 0..99], the hash of platform, channel and id
  Versions,     \* released one after the other
  Percents      \* to which a release is offered

ASSUME ReleasesAssumption ==
  /\ \A d \in Computers : \A id \in AskedAs[d] : Bucket[id] \in 0..99
  /\ Percents \subseteq 0..100

VARIABLES
  policy,    \* [latest, minimum, percent], versions by their numbers
  installed, \* [device -> version]
  answer,    \* the last answer: [id, device, version, action]
  offered    \* pairs of id and version that were offered to download

releasesVars == <<policy, installed, answer, offered>>

NoAnswer == [id |-> "", device |-> "", version |-> 1, action |-> "none"]

-----------------------------------------------------------------------------
(* parse_version gives three numbers, compared from the first on.          *)
Newer(v, w) ==
  \E i \in 1..3 : /\ Versions[v][i] > Versions[w][i]
                  /\ \A j \in 1..(i - 1) : Versions[v][j] = Versions[w][j]

(* Mutant: the buckets are counted from the other end.                     *)
MutantInRollout(id, percent) == Bucket[id] >= percent

InRollout(id, percent) == Bucket[id] < percent

AutoUpdateAction(current, id) ==
  CASE ~Newer(policy.latest, current) -> "none"
    [] Newer(policy.latest, current) /\ Newer(policy.minimum, current) -> "force"
    [] OTHER -> IF InRollout(id, policy.percent) THEN "download" ELSE "wait"

FirstPolicies == [latest : {1}, minimum : {1}, percent : Percents]

ReleasesInit ==
  /\ policy \in FirstPolicies
  /\ installed = [d \in Computers |-> 1]
  /\ answer = NoAnswer
  /\ offered = {}

CheckRelease(d, id) ==
  LET action == AutoUpdateAction(installed[d], id)
  IN  /\ answer' = [id |-> id, device |-> d, version |-> policy.latest, action |-> action]
      /\ offered' = offered \cup IF action = "download" THEN {<<id, policy.latest>>} ELSE {}
      /\ UNCHANGED <<policy, installed>>

(* update-check, for the identity that was given or for the public key of  *)
(* the device.                                                             *)
PrintUpdateCheck(d) == \E id \in AskedAs[d] : CheckRelease(d, id)

Install ==
  /\ answer.action \in {"download", "force"}
  /\ installed' = [installed EXCEPT ![answer.device] = answer.version]
  /\ answer' = NoAnswer
  /\ UNCHANGED <<policy, offered>>

(* A server with a new policy: a wider rollout, a new version, or one that *)
(* is no longer supported.                                                 *)
Widen(p) ==
  /\ p > policy.percent
  /\ policy' = [policy EXCEPT !.percent = p]
  /\ UNCHANGED <<installed, answer, offered>>

Release(p) ==
  /\ policy.latest < Len(Versions)
  /\ policy' = [policy EXCEPT !.latest = @ + 1, !.percent = p]
  /\ UNCHANGED <<installed, answer, offered>>

Retire ==
  /\ policy.minimum < policy.latest
  /\ policy' = [policy EXCEPT !.minimum = @ + 1]
  /\ UNCHANGED <<installed, answer, offered>>

ReleasesNext ==
  \/ \E d \in Computers : PrintUpdateCheck(d)
  \/ Install
  \/ \E p \in Percents : Widen(p) \/ Release(p)
  \/ Retire

ReleasesSpec == ReleasesInit /\ [][ReleasesNext]_releasesVars

-----------------------------------------------------------------------------
(* Who was offered a version is never told to wait for it again: a wider   *)
(* rollout only adds devices.                                              *)
OfferStands == answer.action = "wait" => <<answer.id, answer.version>> \notin offered

(* A device is offered what it was offered before.  It is not when it is   *)
(* asked for by its public key after it was asked for by an identity that  *)
(* was given: the two fall into different buckets.                         *)
DeviceOfferStands ==
  answer.action = "wait" =>
    \A id \in AskedAs[answer.device] : <<id, answer.version>> \notin offered
===============================================================================
