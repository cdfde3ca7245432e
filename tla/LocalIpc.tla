------------------------------ MODULE LocalIpc -------------------------------
(***************************************************************************)
(* The endpoint on which core services answer the windows and tools of     *)
(* their computer: a service binds it, answers one request, drops it and   *)
(* binds it again. A desktop window that starts asks the service for its   *)
(* health and starts one where none that suits it answers.                 *)
(***************************************************************************)
EXTENDS Naturals, Sequences, FiniteSets, SequencesExt

CONSTANTS
    Services,       \* core service processes
    Old,            \* those of another version, configuration or way of starting
    Callers,        \* windows and tools that ask
    NoOne,
    Systems,        \* operating systems looked at
    MaxStarts,      \* bound: services started by windows or users
    MaxKills,       \* bound: services killed from outside
    MaxGone         \* bound: callers that end before they ask

ASSUME LocalIpcAssumption ==
    /\ Old \subseteq Services /\ Services # Old
    /\ NoOne \notin Services \cup Callers
    /\ Systems \subseteq {"linux", "macos", "windows"}

VARIABLES
    os,
    endpointFile,           \* the service whose latest listener the socket file names
    stage,          \* service -> where the thread of the endpoint is
    pending,        \* service -> connections its listener has not accepted
    peer,           \* service -> the connection it is serving
    port,           \* the service that owns the port of the data plane
    ended,          \* service -> why it ended
    asking,         \* caller -> how far it is
    with,           \* caller -> the service it is connected to
    health,         \* caller -> what it knows of the service
    starts, kills, gone

ipcVars == <<os, endpointFile, stage, pending, peer, port, ended, asking, with, health,
             starts, kills, gone>>
serviceVars == <<endpointFile, stage, pending, peer, port, ended>>
callerVars == <<asking, with, health>>
bounds == <<os, starts, kills, gone>>

Stages == {"off", "bind", "probe", "remove", "rebind", "listen", "unlink", "read"}
Probe == "probe"    \* a connection that another service opened and closed at once

Up == {s \in Services : stage[s] # "off"}
Unix == os # "windows"

\* A caller reaches the service the file names while it listens, or any free pipe.
EndpointReachable(s) ==
    /\ stage[s] = "listen"
    /\ IF Unix THEN endpointFile = s ELSE pending[s] = <<>>

IpcInit ==
    /\ os \in Systems
    /\ endpointFile = NoOne /\ port = NoOne
    /\ \E running \in {{}} \cup {{s} : s \in Services} :
          stage = [s \in Services |-> IF s \in running THEN "bind" ELSE "off"]
    /\ pending = [s \in Services |-> <<>>]
    /\ peer = [s \in Services |-> NoOne]
    /\ ended = [s \in Services |-> "no"]
    /\ asking = [c \in Callers |-> "idle"]
    /\ with = [c \in Callers |-> NoOne]
    /\ health = [c \in Callers |-> "unknown"]
    /\ starts = 0 /\ kills = 0 /\ gone = 0

-----------------------------------------------------------------------------
(* The service.                                                            *)

\* Callers whose connection breaks learn nothing: read_core_service_health fails.
Broken(callers) ==
    /\ asking' = [c \in Callers |-> IF c \in callers THEN "told" ELSE asking[c]]
    /\ with' = [c \in Callers |-> IF c \in callers THEN NoOne ELSE with[c]]
    /\ health' = [c \in Callers |-> IF c \in callers THEN "failed" ELSE health[c]]

\* The process ends with everything it holds; only the socket file stays.
Ends(services, why) ==
    /\ stage' = [s \in Services |-> IF s \in services THEN "off" ELSE stage[s]]
    /\ pending' = [s \in Services |-> IF s \in services THEN <<>> ELSE pending[s]]
    /\ peer' = [s \in Services |-> IF s \in services THEN NoOne ELSE peer[s]]
    /\ ended' = [s \in Services |-> IF s \in services THEN why ELSE ended[s]]
    /\ port' = IF port \in services THEN NoOne ELSE port
    /\ Broken({c \in Callers : with[c] \in services})
    /\ UNCHANGED <<endpointFile, bounds>>

BindPort(s) ==
    /\ stage[s] # "off" /\ port # s
    /\ \/ /\ port = NoOne /\ port' = s
          /\ UNCHANGED <<endpointFile, stage, pending, peer, ended, callerVars, bounds>>
       \/ port # NoOne /\ Ends({s}, "port")

MutantBind(s) ==
    /\ stage[s] = "bind"
    /\ \/ /\ ~Unix \/ endpointFile = NoOne
          /\ endpointFile' = IF Unix THEN s ELSE endpointFile
          /\ stage' = [stage EXCEPT ![s] = "listen"]
          /\ UNCHANGED <<pending, peer, port, ended, callerVars, bounds>>
       \/ Unix /\ endpointFile # NoOne /\ Ends({s}, "ipc")

\* A file in the way may belong to a service that listens, or be left over.
Bind(s) ==
    /\ stage[s] = "bind"
    /\ endpointFile' = IF Unix /\ endpointFile = NoOne THEN s ELSE endpointFile
    /\ stage' = [stage EXCEPT ![s] = IF Unix /\ endpointFile # NoOne THEN "probe" ELSE "listen"]
    /\ UNCHANGED <<pending, peer, port, ended, callerVars, bounds>>

\* bind_unix_listener: whoever answers keeps the endpoint, and the service ends.
ProbeFile(s) ==
    /\ stage[s] = "probe"
    /\ \/ /\ \E t \in Services :
                /\ endpointFile = t /\ stage[t] = "listen"
                /\ pending' = [pending EXCEPT ![t] = Append(@, Probe)]
          /\ stage' = [stage EXCEPT ![s] = "off"]
          /\ ended' = [ended EXCEPT ![s] = "ipc"]
          /\ port' = IF port = s THEN NoOne ELSE port
          /\ UNCHANGED <<endpointFile, peer, callerVars, bounds>>
       \/ /\ \A t \in Services : endpointFile = t => stage[t] # "listen"
          /\ stage' = [stage EXCEPT ![s] = "remove"]
          /\ UNCHANGED <<endpointFile, pending, peer, port, ended, callerVars, bounds>>

RemoveStale(s) ==
    /\ stage[s] = "remove" /\ endpointFile' = NoOne
    /\ stage' = [stage EXCEPT ![s] = "rebind"]
    /\ UNCHANGED <<pending, peer, port, ended, callerVars, bounds>>

Rebind(s) ==
    /\ stage[s] = "rebind"
    /\ \/ /\ endpointFile = NoOne /\ endpointFile' = s /\ stage' = [stage EXCEPT ![s] = "listen"]
          /\ UNCHANGED <<pending, peer, port, ended, callerVars, bounds>>
       \/ endpointFile # NoOne /\ Ends({s}, "ipc")

\* The connections that the listener takes down with it.
Dropped(s) == {c \in Callers : with[c] = s /\ c # Head(pending[s])}

\* The listener is closed with the first connection; its file is removed a step later.
Accept(s) ==
    /\ stage[s] = "listen" /\ pending[s] # <<>>
    /\ peer' = [peer EXCEPT ![s] = Head(pending[s])]
    /\ pending' = [pending EXCEPT ![s] = <<>>]
    /\ stage' = [stage EXCEPT ![s] = IF Unix THEN "unlink" ELSE "read"]
    /\ Broken(Dropped(s))
    /\ UNCHANGED <<endpointFile, port, ended, bounds>>

\* Whichever listener the file names by now.
Unlink(s) ==
    /\ stage[s] = "unlink" /\ endpointFile' = NoOne
    /\ stage' = [stage EXCEPT ![s] = "read"]
    /\ UNCHANGED <<pending, peer, port, ended, callerVars, bounds>>

\* core_service_health_is_compatible_for_exe: same program, configuration and start.
Suits(s) == s \notin Old

\* The answer may take as long as the server of the system does; then the loop binds again.
Answer(s) ==
    /\ stage[s] = "read" /\ peer[s] \in Callers /\ asking[peer[s]] = "asked"
    /\ asking' = [asking EXCEPT ![peer[s]] = "told"]
    /\ health' = [health EXCEPT ![peer[s]] = IF Suits(s) THEN "suits" ELSE "other"]
    /\ with' = [with EXCEPT ![peer[s]] = NoOne]
    /\ peer' = [peer EXCEPT ![s] = NoOne]
    /\ stage' = [stage EXCEPT ![s] = "bind"]
    /\ UNCHANGED <<endpointFile, pending, port, ended, bounds>>

\* Nobody there to read from: serve_one fails, and with it the whole service.
RequestFails(s) ==
    /\ stage[s] = "read"
    /\ peer[s] = Probe \/ (peer[s] \in Callers /\ asking[peer[s]] = "gone")
    /\ Ends({s}, "ipc")

-----------------------------------------------------------------------------
(* Callers: read_core_service_health and what a window makes of it.        *)

CallerConnects(c) ==
    /\ asking[c] = "idle"
    /\ \/ \E s \in Services :
            /\ EndpointReachable(s)
            /\ pending' = [pending EXCEPT ![s] = Append(@, c)]
            /\ asking' = [asking EXCEPT ![c] = "connected"]
            /\ with' = [with EXCEPT ![c] = s]
            /\ UNCHANGED health
       \/ /\ \A s \in Services : ~EndpointReachable(s)
          /\ asking' = [asking EXCEPT ![c] = "told"]
          /\ health' = [health EXCEPT ![c] = "failed"]
          /\ UNCHANGED <<pending, with>>
    /\ UNCHANGED <<endpointFile, stage, peer, port, ended, bounds>>

Ask(c) ==
    /\ asking[c] = "connected" /\ asking' = [asking EXCEPT ![c] = "asked"]
    /\ UNCHANGED <<with, health, serviceVars, bounds>>

Goes(c) ==
    /\ asking[c] = "connected" /\ gone < MaxGone /\ gone' = gone + 1
    /\ asking' = [asking EXCEPT ![c] = "gone"]
    /\ UNCHANGED <<with, health, serviceVars, os, starts, kills>>

Startable == {s \in Services \ Old : stage[s] = "off" /\ ended[s] = "no"}

Starts(s) ==
    /\ starts < MaxStarts /\ starts' = starts + 1
    /\ stage' = [stage EXCEPT ![s] = "bind"]
    /\ UNCHANGED <<endpointFile, pending, peer, port, ended, os, kills, gone>>

\* The stop command ends those services, and c goes on to start one.
Stopped(services, c) ==
    LET cut == {d \in Callers : with[d] \in services} IN
    /\ stage' = [s \in Services |-> IF s \in services THEN "off" ELSE stage[s]]
    /\ pending' = [s \in Services |-> IF s \in services THEN <<>> ELSE pending[s]]
    /\ peer' = [s \in Services |-> IF s \in services THEN NoOne ELSE peer[s]]
    /\ ended' = [s \in Services |-> IF s \in services THEN "killed" ELSE ended[s]]
    /\ port' = IF port \in services THEN NoOne ELSE port
    /\ asking' = [d \in Callers |-> IF d \in cut THEN "told" ELSE asking[d]]
    /\ with' = [d \in Callers |-> IF d \in cut THEN NoOne ELSE with[d]]
    /\ health' = [d \in Callers |-> IF d \in cut \cup {c} THEN "failed" ELSE health[d]]

\* ensure_core_service_for_desktop. On Windows, and in an installed macOS application, one
\* that does not suit is stopped first, where it runs from the same place; elsewhere, and
\* where it does not, the new one is started beside it.
Settle(c) ==
    /\ asking[c] = "told"
    /\ \/ /\ health[c] = "suits" \/ starts = MaxStarts \/ Startable = {}
          /\ asking' = [asking EXCEPT ![c] = "done"]
          /\ UNCHANGED <<with, health, serviceVars, bounds>>
       \/ /\ health[c] = "failed" \/ (health[c] = "other" /\ Unix)
          /\ asking' = [asking EXCEPT ![c] = "done"]
          /\ \E s \in Startable : Starts(s)
          /\ UNCHANGED <<with, health>>
       \/ /\ health[c] = "other" /\ os # "linux" /\ Startable # {} /\ starts < MaxStarts
          /\ \E stopped \in SUBSET Up : Stopped(stopped, c)
          /\ UNCHANGED <<endpointFile, bounds>>

\* Only tools that ask for the status come again; a window starts a service once.
AskAgain(c) ==
    /\ asking[c] = "done" /\ asking' = [asking EXCEPT ![c] = "idle"]
    /\ UNCHANGED <<with, health, serviceVars, bounds>>

\* The user, or the login of the next user.
StartByHand ==
    \E s \in Startable : Starts(s) /\ UNCHANGED callerVars

Kill(s) ==
    /\ stage[s] # "off" /\ kills < MaxKills /\ kills' = kills + 1
    /\ stage' = [stage EXCEPT ![s] = "off"]
    /\ pending' = [pending EXCEPT ![s] = <<>>]
    /\ peer' = [peer EXCEPT ![s] = NoOne]
    /\ ended' = [ended EXCEPT ![s] = "killed"]
    /\ port' = IF port = s THEN NoOne ELSE port
    /\ Broken({c \in Callers : with[c] = s})
    /\ UNCHANGED <<endpointFile, os, starts, gone>>

ServiceStep(s) ==
    \/ BindPort(s) \/ Bind(s) \/ ProbeFile(s) \/ RemoveStale(s) \/ Rebind(s)
    \/ Accept(s) \/ Unlink(s) \/ Answer(s) \/ RequestFails(s)

CallerStep(c) == CallerConnects(c) \/ Ask(c) \/ Settle(c) \/ AskAgain(c)

IpcNext ==
    \/ \E s \in Services : ServiceStep(s) \/ Kill(s)
    \/ \E c \in Callers : CallerStep(c) \/ Goes(c)
    \/ StartByHand

\* Every thread that can run does, and a caller that has connected asks.
IpcFairness ==
    /\ \A s \in Services : WF_ipcVars(ServiceStep(s))
    /\ \A c \in Callers : WF_ipcVars(Ask(c))

IpcSpec == IpcInit /\ [][IpcNext]_ipcVars /\ IpcFairness

-----------------------------------------------------------------------------
(* Properties.                                                             *)

\* A service that runs while no other does, and whose callers stay until they have asked,
\* can be reached again and again until it is killed, whatever was killed before it and
\* left its file behind.
ComesBack ==
    [](Cardinality(Up) <= 1 /\ gone = 0) =>
        \A s \in Services : stage[s] # "off" ~> (EndpointReachable(s) \/ ended[s] = "killed")

\* Nobody who has connected waits for ever.
CallersReturn ==
    \A c \in Callers : asking[c] \in {"connected", "asked"} ~>
                       asking[c] \notin {"connected", "asked"}

\* Core services stay in the background: where two of them met at the endpoint, one is left.
StaysResident == (\E s \in Services : ended[s] \in {"ipc", "port"}) => Up # {}

\* A service that waits for callers can be found.
NotDeaf == \A s \in Services : Unix /\ stage[s] = "listen" => endpointFile = s
=============================================================================
