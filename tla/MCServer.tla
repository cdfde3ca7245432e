------------------------------ MODULE MCServer ------------------------------
(***************************************************************************)
(* The parts of the server that share its store: the registry of devices,  *)
(* the profiles with their file, accounts and signal sessions, and         *)
(* releases.  The lock of the store makes each of their steps atomic, and  *)
(* no property speaks of two of them, so one of Parts moves and the others *)
(* stay in an initial state.                                               *)
(***************************************************************************)
EXTENDS Registry, Profiles, Sessions, Releases

CONSTANTS Parts, a, b, ka, kb, desk, ip1, ip2

VARIABLE part

ServerVars == <<part, registryVars, profilesVars, sessionsVars, releasesVars>>

\* A computer that lost its id but not its key, and one with both new.
MCIdentities == {<<a, ka>>, <<b, ka>>, <<b, kb>>}
OneIdentity == {<<a, ka>>}
MCPairs == {<<a, b>>}
\* A LAN address with a public one, or a public address alone, and either may change.
MCReports == {<<ip1, ip1>>, <<ip2, ip2>>, <<None, ip1>>, <<None, ip2>>}
MCSymmetry == Permutations(Ips)
MCLayouts == {[s \in {"master", "right"} |-> IF s = "master" THEN a ELSE b]}

\* A computer with an identity that is given and a public key, one with a
\* key only, and versions whose texts are not in order.
MCAskedAs == [x |-> {"id", "key"}, y |-> {"other"}]
MCBucket == [id |-> 5, key |-> 60, other |-> 25]
MCVersions == <<<<0, 9, 1>>, <<0, 10, 0>>, <<1, 0, 0>>>>

ServerInit ==
    /\ part \in Parts
    /\ RegistryInit /\ ProfilesInit /\ SessionsInit /\ ReleasesInit
    /\ part # "releases" => policy = CHOOSE p \in FirstPolicies : TRUE

ServerNext ==
    /\ UNCHANGED part
    /\ \/ /\ part = "registry" /\ RegistryNext
          /\ UNCHANGED <<profilesVars, sessionsVars, releasesVars>>
       \/ /\ part = "profiles" /\ ProfilesNext
          /\ UNCHANGED <<registryVars, sessionsVars, releasesVars>>
       \/ /\ part = "sessions" /\ SessionsNext
          /\ UNCHANGED <<registryVars, profilesVars, releasesVars>>
       \/ /\ part = "releases" /\ ReleasesNext
          /\ UNCHANGED <<registryVars, profilesVars, sessionsVars>>

ServerSpec == ServerInit /\ [][ServerNext]_ServerVars
=============================================================================
