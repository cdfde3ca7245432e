---------------------------- MODULE DesktopConfig ----------------------------
(***************************************************************************)
(* The configuration file of a computer, the topology on the server and    *)
(* what the desktop window shows.  The core service, the local IPC and the *)
(* window each build the desktop state, which fetches the topology and     *)
(* caches it in the file; each setter reads the file, changes a few keys   *)
(* and replaces the file, without a lock.                                  *)
(***************************************************************************)
EXTENDS Naturals

CONSTANTS
    Me, Nobody,
    Peers,          \* the other devices the server knows at first
    Refreshers,     \* threads of background refreshes
    Companions,     \* bound: sets of threads of the core service that run beside the window
    MaxEdits,       \* bound: edits in the window, requests to the IPC, saves elsewhere
    MaxSaves,       \* bound: saves in the window
    MaxOutages      \* bound: outages of the server and failures to build a state

ASSUME DesktopConfigAssumption ==
    /\ Me \notin Peers /\ Nobody \notin Peers \cup {Me}
    /\ Refreshers \cap {Nobody, "service", "ipc", "window"} = {}
    /\ MaxEdits \in Nat /\ MaxSaves \in Nat /\ MaxOutages \in Nat

\* A layout is abstracted to the devices placed in it.
Topologies == [master : Peers \cup {Me, Nobody}, layout : SUBSET Peers]

VARIABLES
    companions,     \* the threads of the core service that run in this behaviour
    configFile,     \* [endpoint, master, layout]
    server,         \* the topology on the server
    serverPeers,    \* devices the server knows
    serverUp,
    builder,        \* thread -> a build of the desktop state in progress
    built,          \* refresh thread -> its result, sent and not received
    receiver,       \* the refresh thread the window listens to, or Nobody
    ui,             \* the window's thread: pc, and what it saves
    form,           \* the master flag and the layout as edited in the window
    shown,          \* the state the window shows
    ipc,            \* the request the local IPC handles, and its answer
    edits, outages,
    saves           \* saves of the window so far

configVars == <<companions, configFile, server, serverPeers, serverUp, builder, built,
                receiver, ui, form, shown, ipc, edits, outages, saves>>
serverVars == <<companions, server, serverPeers, serverUp>>
windowVars == <<built, receiver, ui, form, shown>>
countVars == <<edits, outages, saves>>

Builders == Refreshers \cup {"service", "ipc", "window"}
Resting == [pc |-> "resting"]

\* The computer's own id is known from the server's list of devices only.
View(endpoint, topology, since, known) ==
    [endpoint |-> endpoint, master |-> topology.master, layout |-> topology.layout,
     since |-> since, known |-> known]

\* NativeDesktopViewModel::from_state, effective_desktop_role
FormOf(view) == [isMaster |-> view.known /\ view.master = Me, layout |-> view.layout]

ConfigInit ==
    /\ companions \in Companions
    /\ configFile = [endpoint |-> "right", master |-> Nobody, layout |-> {}]
    /\ server \in {[master |-> Me, layout |-> Peers], [master |-> Nobody, layout |-> {}]}
    /\ serverPeers = Peers /\ serverUp = TRUE
    /\ builder = [b \in Builders |-> Resting]
    /\ built = [r \in Refreshers |-> {}]
    /\ receiver = Nobody
    /\ ui = [pc |-> "idle"]
    /\ shown = View("right", configFile, 0, FALSE)
    /\ form = FormOf(shown)
    /\ ipc = [pc |-> "idle"]
    /\ edits = 0 /\ outages = 0 /\ saves = 0

-----------------------------------------------------------------------------
(* build_local_desktop_state, step by step.                                *)

\* Both configurations are loaded.  How old a state is matters to the window only.
Load(b) ==
    builder' = [builder EXCEPT ![b] =
                  [pc |-> "fetching", config |-> configFile,
                   since |-> IF b \in {"service", "ipc"} THEN 0 ELSE saves]]

ServerReachable(b) == serverUp /\ builder[b].config.endpoint = "right"

\* The devices and the topology are fetched.
FetchTopology(b) ==
    /\ builder[b].pc = "fetching" /\ ServerReachable(b)
    /\ builder' = [builder EXCEPT ![b] =
                     [pc |-> "reading", view |-> View(@.config.endpoint, server, @.since, TRUE)]]
    /\ UNCHANGED <<configFile, serverVars, windowVars, ipc, countVars>>

\* set_topology_in_config_file reads the whole file (of what it keeps, only the endpoint is
\* in the model) ...
ReadText(b) ==
    /\ builder[b].pc = "reading"
    /\ builder' = [builder EXCEPT ![b] = [pc |-> "writing", view |-> @.view,
                                          kept |-> configFile.endpoint]]
    /\ UNCHANGED <<configFile, serverVars, windowVars, ipc, countVars>>

Built(b, view) ==
    builder' = [builder EXCEPT ![b] = IF b = "service" THEN Resting
                                      ELSE [pc |-> "built", view |-> view]]

\* ... and replaces it.  The state has the topology as it was fetched.
WriteText(b) ==
    /\ builder[b].pc = "writing"
    /\ configFile' = [endpoint |-> builder[b].kept, master |-> builder[b].view.master,
                      layout |-> builder[b].view.layout]
    /\ Built(b, {builder[b].view})
    /\ UNCHANGED <<serverVars, windowVars, ipc, countVars>>

\* Without the server the state is that of the file and the own id is not known; without a
\* readable file, or status file, there is none.  (Devices and topology are fetched together.)
BuildOffline(b) ==
    /\ builder[b].pc = "fetching" /\ ~ServerReachable(b)
    /\ LET config == builder[b].config
       IN  Built(b, {View(config.endpoint, config, builder[b].since, FALSE)})
    /\ UNCHANGED <<configFile, serverVars, windowVars, ipc, countVars>>

BuildFails(b) ==
    /\ builder[b].pc = "fetching" /\ outages < MaxOutages
    /\ outages' = outages + 1
    /\ Built(b, {})
    /\ UNCHANGED <<configFile, serverVars, windowVars, ipc, edits, saves>>

-----------------------------------------------------------------------------
(* The core service and the local IPC.                                     *)

\* The supervisor, the refresh worker and GetDesktopState build one state after the other.
ServiceBuilds ==
    /\ "service" \in companions /\ builder["service"] = Resting
    /\ Load("service")
    /\ UNCHANGED <<configFile, serverVars, windowVars, ipc, countVars>>

\* SetLayout, SetDeviceRole and SetServerEndpoint: read ...
IpcReads ==
    /\ "ipc" \in companions /\ ipc.pc = "idle"
    /\ edits < MaxEdits /\ edits' = edits + 1
    /\ ipc' \in [pc : {"writing"}, text : {configFile},
                 set : [layout : SUBSET Peers] \cup [master : {Me, Nobody}]
                         \cup [endpoint : {"right", "wrong"}]]
    /\ UNCHANGED <<configFile, serverVars, builder, windowVars, outages, saves>>

\* The keys of set replace those of text.
Updated(text, set) ==
    [key \in DOMAIN text |-> IF key \in DOMAIN set THEN set[key] ELSE text[key]]

\* ... write, and build the state for the answer.
IpcWrites ==
    /\ ipc.pc = "writing"
    /\ configFile' = Updated(ipc.text, ipc.set)
    /\ ipc' = [pc |-> "applied", set |-> ipc.set]
    /\ UNCHANGED <<serverVars, builder, windowVars, countVars>>

IpcBuilds ==
    /\ ipc.pc = "applied" /\ builder["ipc"] = Resting
    /\ Load("ipc")
    /\ UNCHANGED <<configFile, serverVars, windowVars, ipc, countVars>>

\* ConfigApplied with the state, or an error.
IpcAnswers ==
    /\ ipc.pc = "applied" /\ builder["ipc"].pc = "built"
    /\ builder' = [builder EXCEPT !["ipc"] = Resting]
    /\ ipc' = [pc |-> "idle"]
    /\ UNCHANGED <<configFile, serverVars, windowVars, countVars>>

-----------------------------------------------------------------------------
(* The desktop window.                                                     *)

Edit ==
    /\ ui.pc = "idle" /\ edits < MaxEdits
    /\ form' \in [isMaster : BOOLEAN, layout : SUBSET Peers] \ {form}
    /\ edits' = edits + 1
    /\ UNCHANGED <<configFile, serverVars, builder, built, receiver, ui, shown, ipc,
                   outages, saves>>

\* The master a save names: this device, which is none while its id is not known, or the one
\* shown, which may be this one still.
FormMaster ==
    IF form.isMaster THEN IF shown.known THEN Me ELSE Nobody ELSE shown.master

Saving(kind, set) == [pc |-> "writing", kind |-> kind, set |-> set, text |-> configFile]

SaveEndpoint ==
    /\ ui.pc = "idle" /\ saves < MaxSaves
    /\ \E endpoint \in {"right", "wrong"} :
          ui' = Saving("endpoint", [endpoint |-> endpoint])
    /\ UNCHANGED <<configFile, serverVars, builder, built, receiver, form, shown, ipc,
                   countVars>>

\* save_current_device_config and save_layout; the form is saved, edited or not.
Save(kind) ==
    /\ ui.pc = "idle" /\ saves < MaxSaves
    /\ ui' = IF kind = "device" THEN Saving(kind, [master |-> FormMaster])
             ELSE Saving(kind, [master |-> FormMaster, layout |-> form.layout])
    /\ UNCHANGED <<configFile, serverVars, builder, built, receiver, form, shown, ipc,
                   countVars>>

\* delete_device: the server deletes first, and forgets where the device was.
Delete(p) ==
    /\ ui.pc = "idle" /\ saves < MaxSaves
    /\ serverUp /\ shown.endpoint = "right" /\ p \in serverPeers
    /\ serverPeers' = serverPeers \ {p}
    /\ server' = [master |-> IF server.master = p THEN Nobody ELSE server.master,
                  layout |-> server.layout \ {p}]
    /\ form' = [form EXCEPT !.layout = @ \ {p}]
    /\ ui' = Saving("layout", [master |-> IF FormMaster = p THEN Nobody ELSE FormMaster,
                               layout |-> form.layout \ {p}])
    /\ UNCHANGED <<companions, configFile, serverUp, builder, built, receiver, shown, ipc,
                   countVars>>

WindowWrites ==
    /\ ui.pc = "writing"
    /\ configFile' = Updated(ui.text, ui.set)
    /\ saves' = saves + 1
    /\ ui' = CASE ui.kind = "endpoint" -> [pc |-> "reloading"]
               [] ui.kind = "layout" -> [pc |-> "pushing", master |-> ui.set.master,
                                         layout |-> ui.set.layout]
               [] OTHER -> [pc |-> "asking", master |-> ui.set.master]
    /\ UNCHANGED <<serverVars, builder, built, receiver, form, shown, ipc, edits, outages>>

WindowReaches == serverUp /\ configFile.endpoint = "right"

\* sync_current_device_topology_to_server keeps the layout of the server, or takes the one
\* of the window when it cannot be had.
AskLayout ==
    /\ ui.pc = "asking"
    /\ ui' = [pc |-> "pushing", master |-> ui.master,
              layout |-> IF WindowReaches THEN server.layout ELSE form.layout]
    /\ UNCHANGED <<configFile, serverVars, builder, built, receiver, form, shown, ipc,
                   countVars>>

\* The server takes a topology whose devices it knows.
Push ==
    /\ ui.pc = "pushing"
    /\ server' = IF /\ WindowReaches
                    /\ ({ui.master} \ {Me, Nobody}) \cup ui.layout \subseteq serverPeers
                 THEN [master |-> ui.master, layout |-> ui.layout] ELSE server
    /\ ui' = [pc |-> "reloading"]
    /\ UNCHANGED <<companions, configFile, serverPeers, serverUp, builder, built,
                   receiver, form, shown, ipc, countVars>>

\* reload_state builds a state in the window's own thread.
Reload ==
    /\ ui.pc = "reloading" /\ builder["window"] = Resting
    /\ Load("window")
    /\ UNCHANGED <<configFile, serverVars, windowVars, ipc, countVars>>

ShowView(view) == shown' = view /\ form' = FormOf(view)

\* NativeBackgroundRefresh::reset: a refresh begun before is not listened to any more.
Reset == Nobody

Reloaded ==
    /\ ui.pc = "reloading" /\ builder["window"].pc = "built"
    /\ \/ \E view \in builder["window"].view : ShowView(view)
       \/ builder["window"].view = {} /\ UNCHANGED <<shown, form>>
    /\ receiver' = Reset
    /\ builder' = [builder EXCEPT !["window"] = Resting]
    /\ ui' = [pc |-> "idle"]
    /\ UNCHANGED <<configFile, serverVars, built, ipc, countVars>>

\* refresh_if_due: a refresh is started when none is listened to.
StartRefresh(r) ==
    /\ ui.pc = "idle" /\ receiver = Nobody
    /\ builder[r] = Resting
    /\ Load(r) /\ receiver' = r
    /\ built' = [built EXCEPT ![r] = {}]
    /\ UNCHANGED <<configFile, serverVars, ui, form, shown, ipc, countVars>>

\* The thread sends its result and ends; with no receiver that has no effect.
RefreshEnds(r) ==
    /\ builder[r].pc = "built"
    /\ builder' = [builder EXCEPT ![r] = Resting]
    /\ built' = [built EXCEPT ![r] = IF receiver = r THEN {builder[r].view} ELSE {}]
    /\ UNCHANGED <<configFile, serverVars, receiver, ui, form, shown, ipc, countVars>>

MutantPolled(view) == IF view = {} THEN receiver ELSE Nobody
\* The receiver is given up with the result, whichever it is.
Polled(view) == Nobody

\* The result replaces the form as well, edited or not.
Poll ==
    /\ ui.pc = "idle" /\ receiver \in Refreshers
    /\ \E view \in built[receiver] :
          /\ receiver' = Polled(view)
          /\ IF view = {} THEN UNCHANGED <<shown, form>> ELSE \E v \in view : ShowView(v)
    /\ built' = [built EXCEPT ![receiver] = {}]
    /\ UNCHANGED <<configFile, serverVars, builder, ui, ipc, countVars>>

-----------------------------------------------------------------------------
(* The rest of the world.                                                  *)

OtherComputerSaves ==
    /\ edits < MaxEdits /\ edits' = edits + 1 /\ serverUp
    /\ server' \in [master : {Nobody, Me} \cup serverPeers, layout : SUBSET serverPeers]
    /\ server' # server
    /\ UNCHANGED <<companions, configFile, serverPeers, serverUp, builder, windowVars,
                   ipc, outages, saves>>

Outage ==
    /\ \/ serverUp /\ outages < MaxOutages /\ outages' = outages + 1
       \/ ~serverUp /\ UNCHANGED outages
    /\ serverUp' = ~serverUp
    /\ UNCHANGED <<companions, configFile, server, serverPeers, builder, windowVars, ipc,
                   edits, saves>>

ConfigNext ==
    \/ \E b \in Builders : \/ FetchTopology(b) \/ ReadText(b) \/ WriteText(b)
                           \/ BuildOffline(b) \/ BuildFails(b)
    \/ ServiceBuilds
    \/ IpcReads \/ IpcWrites \/ IpcBuilds \/ IpcAnswers
    \/ Edit \/ SaveEndpoint \/ Save("device") \/ Save("layout")
    \/ \E p \in Peers : Delete(p)
    \/ WindowWrites \/ AskLayout \/ Push \/ Reload \/ Reloaded
    \/ \E r \in Refreshers : StartRefresh(r) \/ RefreshEnds(r)
    \/ Poll \/ OtherComputerSaves \/ Outage

\* Threads run: a build that began ends, the service and the window build again and again.
ConfigFairness ==
    /\ \A b \in Builders :
          WF_configVars(FetchTopology(b) \/ ReadText(b) \/ WriteText(b) \/ BuildOffline(b))
    /\ WF_configVars(ServiceBuilds)
    /\ WF_configVars(IpcWrites \/ IpcBuilds \/ IpcAnswers)
    /\ WF_configVars(WindowWrites \/ AskLayout \/ Push \/ Reload \/ Reloaded)
    /\ WF_configVars(\E r \in Refreshers : StartRefresh(r))
    /\ \A r \in Refreshers : WF_configVars(RefreshEnds(r))
    /\ WF_configVars(Poll)

ConfigSpec == ConfigInit /\ [][ConfigNext]_configVars /\ ConfigFairness

-----------------------------------------------------------------------------
(* Properties.                                                             *)

\* What the window starts to show was read after its last save: a background refresh that
\* began before the save never brings back what the save replaced.
ShownIsFresh == [][shown' # shown => shown'.since = saves]_shown

Cached == [master |-> configFile.master, layout |-> configFile.layout]
Displayed == [master |-> shown.master, layout |-> shown.layout]

\* Once nobody edits any more and the server is there, the file holds the topology of the
\* server and the window shows it, whatever the threads had read before.
ConvergesToServer ==
    (<>[](serverUp /\ configFile.endpoint = "right" /\ ui.pc = "idle")) =>
        <>[](Cached = server /\ Displayed = server)

\* The answer to an applied SetLayout has the layout that was asked for.
LayoutApplied ==
    ipc.pc = "applied" /\ "layout" \in DOMAIN ipc.set =>
        \A view \in IF builder["ipc"].pc = "built" THEN builder["ipc"].view ELSE {} :
            view.layout = ipc.set.layout
=============================================================================
