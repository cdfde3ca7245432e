------------------------------ MODULE MCService ------------------------------
(***************************************************************************)
(* What the processes of one computer write for each other: the runtime    *)
(* status of the core service's threads, and the configuration that the    *)
(* service, the window and their helpers pass on.  No property speaks of   *)
(* both, so one of Parts moves and the other stays in an initial state.    *)
(***************************************************************************)
EXTENDS RuntimeStatus, DesktopConfig

CONSTANT Parts

VARIABLE part

ServiceVars == <<part, runtimeVars, configVars>>

MCCompanions == {{"service"}, {"ipc"}}

ServiceInit ==
    /\ part \in Parts
    /\ RuntimeInit /\ ConfigInit
    /\ part # "runtime" => role = "client" /\ online = {}
    /\ part # "config" => /\ companions = CHOOSE c \in Companions : TRUE
                          /\ server.master = Me

ServiceNext ==
    /\ UNCHANGED part
    /\ \/ part = "runtime" /\ RuntimeNext /\ UNCHANGED configVars
       \/ part = "config" /\ ConfigNext /\ UNCHANGED runtimeVars

ServiceSpec == ServiceInit /\ [][ServiceNext]_ServiceVars

-----------------------------------------------------------------------------
(* Under the fairness of its part, once nobody edits any more and the      *)
(* server is there, the file and the window come to what the server has.   *)
ConfigConverges == part = "config" /\ ConfigFairness => ConvergesToServer
=============================================================================
