----------------------------- MODULE MCTransport ------------------------------
(***************************************************************************)
(* The data plane that carries frames between two devices, and the         *)
(* listener that hands them to its workers.  The listener is modelled over *)
(* any link, so one of Parts moves and the other stays in an initial       *)
(* state.                                                                  *)
(***************************************************************************)
EXTENDS DataPlane, Listener

CONSTANT Parts

VARIABLE part

TransportVars == <<part, vars, listenerVars>>

\* A long connection with a stream and datagrams, and one that sends nothing, as a probe
\* does, over a small replay window and short epochs.
MCStreams == {"input_reliable"}
MCConnections == {"long", "short"}
MCMaxFrames == [c \in MCConnections |-> IF c = "long" THEN 4 ELSE 1]
MCEpochs == MCConnections \X (0 .. 1)
MCSequences == 1 .. 4

\* One place in each channel: every channel is full as soon as its worker is one frame
\* behind.  The heartbeat stands for both components that are started again.
MCCapacity == [w \in Workers |-> 1]

TransportInit == part \in Parts /\ Init /\ ListenerInit

TransportNext ==
  /\ UNCHANGED part
  /\ \/ part = "data" /\ Next /\ UNCHANGED listenerVars
     \/ part = "listener" /\ ListenerNext /\ UNCHANGED vars

TransportSpec == TransportInit /\ [][TransportNext]_TransportVars

\* The listener on its own (Parts = {"listener"}), with the fairness of its threads.
ListenerAlone == TransportSpec /\ ListenerFairness

-----------------------------------------------------------------------------
(* The properties of the listener under the fairness of its threads.       *)

\* A worker that failed takes the process down, to be started afresh.
FailureStops == part = "listener" /\ ListenerFairness => FailureStopsService

\* No receive thread stays with a frame for ever, neither at a full input channel nor
\* because the clipboard or the control worker hangs.
LoopsMove == part = "listener" /\ ListenerFairness => ReceiveLoopsMove
=============================================================================
