------------------------------- MODULE MCLinks -------------------------------
(***************************************************************************)
(* What links processes: the relay of the server, the discovery of a       *)
(* direct connection, the clipboard that is sent over both, and the local  *)
(* endpoint of the core service.  No property speaks of two of them, so    *)
(* one of Parts moves and the others stay in an initial state.             *)
(***************************************************************************)
EXTENDS RelayHub, Discovery, Clipboard, LocalIpc

CONSTANTS Parts, a, b, s0, s1, c1, c2

VARIABLE part

LinksVars == <<part, vars, discoveryVars, clipboardVars, ipcVars>>

MCSenders == {"master"}
MCReceivers == {"target"}
OneWay == {{<<a, b>>}}
BothWays == {{<<a, b>>, <<b, a>>}}

LinksInit ==
    /\ part \in Parts
    /\ Init /\ DiscoveryInit /\ ClipboardInit /\ IpcInit
    /\ part # "discovery" =>
         /\ caller = "connect"
         /\ net.local = CHOOSE l \in Locals : TRUE
         /\ net.reach = {CHOOSE x \in Addresses : TRUE}
    /\ part # "clipboard" => counters = {} /\ links = CHOOSE l \in Links : TRUE
    /\ part # "ipc" => /\ os = CHOOSE s \in Systems : TRUE
                       /\ \A s \in Services : stage[s] = "off"

LinksNext ==
    /\ UNCHANGED part
    /\ \/ part = "relay" /\ Next /\ UNCHANGED <<discoveryVars, clipboardVars, ipcVars>>
       \/ part = "discovery" /\ DiscoveryNext /\ UNCHANGED <<vars, clipboardVars, ipcVars>>
       \/ part = "clipboard" /\ ClipboardNext /\ UNCHANGED <<vars, discoveryVars, ipcVars>>
       \/ part = "ipc" /\ IpcNext /\ UNCHANGED <<vars, discoveryVars, clipboardVars>>

LinksSpec == LinksInit /\ [][LinksNext]_LinksVars

-----------------------------------------------------------------------------
(* The properties of the parts, each under the fairness of its own.        *)

\* Once nothing breaks any more and nobody switches devices, the relay routes to the
\* connection the receive loop of an enabled device reads.
RelayComesBack == part = "relay" /\ Fairness => ReceiverReachable

\* A target that stays reachable is connected to, however often it could not be reached
\* before.
TargetIsReached == part = "discovery" /\ DiscoveryFairness => ReachableIsReached

\* What a user copied last gets to the other device, unless it was held back, missed or
\* lost.
CopyArrives == part = "clipboard" /\ ClipboardFairness => CopiesArrive

\* A service that runs alone can be reached again and again until it is killed, whatever
\* an earlier one left behind.
ServiceComesBack == part = "ipc" /\ IpcFairness => ComesBack
=============================================================================
