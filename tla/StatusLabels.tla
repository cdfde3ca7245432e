---------------------------- MODULE StatusLabels ----------------------------
(***************************************************************************)
(* What the desktop window and the web panel say of the synchronisation    *)
(* channel: each has its own translation of the desktop state into words.  *)
(***************************************************************************)
EXTENDS Naturals

CONSTANTS Targets     \* sets of peers in the layout, see TargetPeer

VARIABLE desktop      \* a desktop state, as far as the labels look at it

Kinds == {"Unknown", "Idle", "Listening", "Armed", "Failed"}
MasterStates == {"Connecting", "Disconnected", "SelfDevice"}

\* A peer of the layout; subnet says whether it shares a subnet with this computer, and is
\* "none" when no address is known.
TargetPeer == [online : BOOLEAN, relay : {"unknown", "offline", "online"},
               subnet : {"same", "other", "none"}]

\* The counters of a status: how far events have come.
Progresses == {"none", "captured", "routed", "sent", "received", "injected"}

\* A permission the system has not given; reported says that a refresh has failed.
Desktops ==
    [masterState : MasterStates, missing : {"none", "capture", "inject"},
     reported : BOOLEAN, ownRelay : {"unknown", "offline", "online"},
     kind : Kinds, relayConnected : BOOLEAN, progress : Progresses, targets : Targets]

LabelInit == desktop \in Desktops

\* The runtime and the master change while everything else stays.
LabelNext ==
    \/ \E kind \in Kinds : desktop' = [desktop EXCEPT !.kind = kind]
    \/ \E state \in MasterStates : desktop' = [desktop EXCEPT !.masterState = state]

LabelSpec == LabelInit /\ [][LabelNext]_desktop

\* role_for_topology: both follow from the master of the topology.
RoleOf(s) == IF s.masterState = "SelfDevice" THEN "master" ELSE "client"

\* desktop_sync_permission_error
PermissionError(s) ==
    \/ RoleOf(s) = "master" /\ s.targets # {} /\ s.missing = "capture"
    \/ RoleOf(s) = "client" /\ s.masterState # "Disconnected" /\ s.missing = "inject"

\* attach_desktop_sync_runtime_status
MasterError(s) == s.reported \/ PermissionError(s) \/ s.kind = "Failed"

\* The state of a device in the list, and of a place of the layout.
DeviceLabel(t) ==
    CASE ~t.online -> "offline"
      [] t.online /\ t.relay = "unknown" -> "to be verified"
      [] t.online /\ t.relay = "online" -> "receiver online"
      [] t.online /\ t.relay = "offline" -> "receiver not connected"

ShowsMaster(s) == RoleOf(s) = "master" \/ s.masterState = "SelfDevice"
ShowsClient(s) == RoleOf(s) = "client"
OwnReceiverOffline(s) == RoleOf(s) = "client" /\ s.ownRelay = "offline"

Waiting(s) == RoleOf(s) = "master" /\ \E t \in s.targets : t.online /\ t.relay = "offline"
UnknownReceiver(s) ==
    RoleOf(s) = "master" /\ \E t \in s.targets : t.online /\ t.relay = "unknown"
OutsideSubnet(s) ==
    RoleOf(s) = "master" /\ \E t \in s.targets :
        t.online /\ t.subnet = "other" /\ t.relay # "online"

-----------------------------------------------------------------------------
(* native_desktop.rs                                                       *)

NoLabel == "no label"

ClientRuntimeLabel(s) ==
    CASE s.progress \in {"injected", "received"} -> s.progress
      [] s.progress \notin {"injected", "received"} /\ ~s.relayConnected -> "relay connecting"
      [] OTHER -> "waiting for input"

MutantTargetLabel(s, otherwise) ==
    CASE UnknownReceiver(s) -> "server outdated"
      [] ~UnknownReceiver(s) /\ OutsideSubnet(s) -> "unreachable network"
      [] ~OutsideSubnet(s) /\ ~UnknownReceiver(s) /\ Waiting(s) -> "waiting for receiver"
      [] OTHER -> otherwise

TargetLabel(s, otherwise) ==
    CASE OutsideSubnet(s) -> "unreachable network"
      [] ~OutsideSubnet(s) /\ UnknownReceiver(s) -> "server outdated"
      [] ~OutsideSubnet(s) /\ ~UnknownReceiver(s) /\ Waiting(s) -> "waiting for receiver"
      [] OTHER -> otherwise

\* sync_runtime_status_label
RuntimeLabel(s) ==
    CASE s.kind = "Idle" /\ ShowsMaster(s) -> "waiting for devices"
      [] s.kind = "Listening" /\ ShowsClient(s) /\ OwnReceiverOffline(s) -> "relay offline"
      [] s.kind = "Listening" /\ ShowsClient(s) /\ ~OwnReceiverOffline(s)
           /\ s.masterState = "Disconnected" /\ s.relayConnected -> "waiting for master"
      [] s.kind = "Listening" /\ ShowsClient(s) /\ ~OwnReceiverOffline(s)
           /\ s.masterState # "Disconnected" -> ClientRuntimeLabel(s)
      [] s.kind = "Armed" /\ ShowsMaster(s) ->
           IF s.progress = "sent" THEN "sent"
           ELSE TargetLabel(s, IF s.progress \in {"routed", "captured"} THEN s.progress
                               ELSE "capturing")
      [] s.kind = "Failed" -> "needs attention"
      [] OTHER -> NoLabel

\* sync_channel_state_label
ChannelLabel(state) ==
    CASE state = "Connecting" -> "connecting"
      [] state = "Disconnected" -> "disconnected"
      [] state = "SelfDevice" -> "this computer"

\* native_layout_section_status
WindowLabel(s) ==
    IF MasterError(s) THEN "needs attention"
    ELSE IF RuntimeLabel(s) # NoLabel THEN RuntimeLabel(s)
    ELSE TargetLabel(s, ChannelLabel(s.masterState))

-----------------------------------------------------------------------------
(* desktop_panel.rs                                                        *)

\* The runtime decides, where it has something to say.
PanelRuntime(s) ==
    CASE s.kind = "Armed" -> ShowsMaster(s)
      [] s.kind = "Idle" -> ShowsMaster(s)
      [] s.kind = "Listening" ->
           ShowsClient(s) /\ (\/ OwnReceiverOffline(s) \/ s.relayConnected
                              \/ s.masterState # "Disconnected")
      [] s.kind = "Failed" -> TRUE
      [] OTHER -> FALSE

\* master_connection_state_label
PanelLabel(s) ==
    CASE MasterError(s) -> "needs attention"
      [] ~MasterError(s) /\ ~PanelRuntime(s) ->
           IF OutsideSubnet(s) THEN "unreachable network"
           ELSE IF UnknownReceiver(s) THEN "server outdated"
           ELSE IF Waiting(s) THEN "waiting for receiver"
           ELSE ChannelLabel(s.masterState)
      [] OTHER ->
           CASE s.kind = "Failed" -> "needs attention"
             [] s.kind = "Idle" -> "waiting for devices"
             [] s.kind = "Armed" /\ s.progress = "sent" -> "sent"
             [] s.kind = "Armed" /\ s.progress # "sent" ->
                  IF OutsideSubnet(s) THEN "unreachable network"
                  ELSE IF UnknownReceiver(s) THEN "server outdated"
                  ELSE IF Waiting(s) THEN "waiting for receiver"
                  ELSE IF s.progress \in {"routed", "captured"} THEN s.progress
                  ELSE "capturing"
             [] s.kind = "Listening" /\ OwnReceiverOffline(s) -> "relay offline"
             [] s.kind = "Listening" /\ ~OwnReceiverOffline(s)
                  /\ s.masterState = "Disconnected" -> "waiting for master"
             [] OTHER -> IF s.progress \in {"injected", "received"} THEN s.progress
                         ELSE IF s.relayConnected THEN "waiting for input"
                         ELSE "relay connecting"

\* master_connection_state_key: the colour of the panel
PanelKey(s) ==
    LET busy == \/ s.kind = "Armed" /\ ShowsMaster(s)
                \/ s.kind = "Listening" /\ ShowsClient(s)
                     /\ (s.masterState # "Disconnected" \/ s.relayConnected)
        stopped == s.kind = "Failed" \/ (s.kind = "Idle" /\ ShowsMaster(s))
    IN  CASE MasterError(s) -> "disconnected"
          [] ~MasterError(s) /\ busy -> "retrying"
          [] ~MasterError(s) /\ stopped -> "disconnected"
          [] ~MasterError(s) /\ ~busy /\ ~stopped ->
               IF OutsideSubnet(s) \/ UnknownReceiver(s) \/ Waiting(s) THEN "retrying"
               ELSE CASE s.masterState = "Connecting" -> "connecting"
                      [] s.masterState = "Disconnected" -> "disconnected"
                      [] s.masterState = "SelfDevice" -> "self_device"

-----------------------------------------------------------------------------
(* main.rs: the diagnostic report                                          *)

\* desktop_targets_not_on_local_subnet does not look at the relay.
Warnings(s) ==
    {w \in {"runtime failed", "server outdated", "waiting for master", "unreachable network"} :
        CASE w = "runtime failed" -> s.kind = "Failed"
          [] w = "server outdated" -> UnknownReceiver(s)
          [] w = "waiting for master" ->
               RoleOf(s) = "client" /\ s.masterState = "Disconnected" /\ s.relayConnected
          [] w = "unreachable network" ->
               RoleOf(s) = "master" /\ \E t \in s.targets : t.online /\ t.subnet = "other"}

-----------------------------------------------------------------------------
(* Properties.                                                             *)

\* The window and the panel say the same of every state; when they wait for a receiver the
\* list of devices shows which one; what they give as the cause the diagnostic report warns
\* of; and the panel is not coloured as disconnected while it says that events flow.
PanelsAgree ==
    /\ WindowLabel(desktop) = PanelLabel(desktop)
    /\ PanelLabel(desktop) = "waiting for receiver" =>
         \E t \in desktop.targets : DeviceLabel(t) = "receiver not connected"
    /\ PanelLabel(desktop) \in {"server outdated", "waiting for master",
                               "unreachable network"} =>
         PanelLabel(desktop) \in Warnings(desktop)
    /\ PanelLabel(desktop) \in {"sent", "routed", "captured", "received", "injected"} =>
         PanelKey(desktop) = "retrying"
=============================================================================
