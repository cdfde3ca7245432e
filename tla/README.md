# kmsync in TLA+: models, checks and proofs

kmsync shares one keyboard and mouse between computers. The device whose keyboard is in use (the
master) captures input events; while its pointer is beyond an edge of the screen, the events go to the
device placed at that edge (the target) over QUIC or through a relay on the server, and the target injects
them into its operating system. The server keeps the registry of devices, their layout and profiles. A window on
each computer shows and edits what the server and the core service of that computer have.

This directory holds TLA+ modules translated from the Rust source, TLC configurations that check them on
small instances, and theorems checked by TLAPS. `PROJECT.json` lists components, runs, the source lines each
definition stands for, findings, hazards and theorems; this file explains them.

    tlc -config Transport.cfg MCTransport.tla      # a run: the module and cfg PROJECT.json names
    tlapm Server_proofs.tla                        # a proof module

All paths below are relative to `src/`; `main.rs` alone is `crates/kmsync/src/main.rs`, `client` is
`crates/kmsync/src/client/mod.rs`, and the server is `crates/kmsync-server/src/main.rs`.

## 1. Inventory

| component | state | operations | where |
|---|---|---|---|
| desktop capture router | plan, active target, remote pointer, cooldown, pointer to restore | route an event, replace the plan | `main.rs` 2093–2480 |
| plan refresh worker | channel of one plan | build the plan every 2 s, offer it | `main.rs` 2540–2590 |
| capture queue | channel of 1024 events | enqueue with 25 ms grace, drop | `main.rs` 5538–5690 |
| transmit thread | senders per target, back-off per target, parked event | stale check, coalesce, connect, send, forget a sender | `main.rs` 5751–6080 |
| single-target capture | control, cooldown, the connection | connect again, route by mode and hot key, map and send | `main.rs` 4893–5010, 5471–5690, 7345–7640 |
| direct data plane | connections, sealers (epoch, sequence), replay windows, channel of results | connect, seal and send, open, reject, hand over | `crates/kmsync/src/transport.rs` |
| receive threads | the endpoint, the relay socket | sort frames into three channels; reconnect (relay only) | `main.rs` 3583–3650, 3858–3960 |
| injection thread | next number, two reorder maps, gap deadline, pressed keys, current target | accept, buffer, recover a gap, inject, release | `main.rs` 3653–3740, 3962–4330, `crates/kmsync-core/src/input_state.rs` |
| clipboard thread, watch process | what was applied last; what was seen last | apply a write; poll, sign, send, hold back | `main.rs` 4330–4560, 6216–6260 |
| core service | component threads, result channels | start, restart, stop the process | `main.rs` 2974–3230, 3335–3530 |
| runtime status | one JSON file | replaced by five writers | `main.rs` 2594–2972 |
| desktop state, configuration | configuration file, merged view | fetch, merge, cache, save | `main.rs` 785–860, 1701–1960, `desktop_config.rs`, `desktop_state.rs` |
| local endpoint | a socket or pipe | bind, probe, answer one request, bind again | `crates/kmsync-core/src/local_ipc.rs`, `main.rs` 544–710, 3195–3230 |
| desktop window, web panel | what is shown, what is being edited | refresh, save, push, reload; labels | `native_desktop.rs`, `crates/kmsync-ui` |
| discovery | candidates, those that failed | list, mDNS, order, try, give up | `client` 695–840, 1113–1620, 2075–2414 |
| identity | configuration directory, credential store | seed, load, generate | `client` 55–360, `main.rs` 6860–7070 |
| frames, keys, profiles, commands | none | encode, decode, parse, compile | `protocol.rs`, `event.rs`, `profile.rs`, `keymap.rs`, `main.rs` 6405–7400 |
| platform adapters | last positions, injector connections | capture, suppress, inject | `platform/` |
| metrics, crash reports | atomics; a sequence number | count, record, report | `main.rs` 5036–5380 |
| server: registry and presence | devices, deletions, heartbeats | register, update, heartbeat, offline, delete | server 1168–1862 |
| server: layout, profiles | topologies, profiles, revisions | save, roll back, pull, clean up on deletion | server 1863–2130 |
| server: relay hub | sender channel per device | register, route, answer, unregister | server 109–170, 986–1130 |
| server: sessions, events, login | sessions, streams, codes, tokens | create, list, answer; follow; log in, refresh, log out | server 649–960 |
| server: releases | a policy | offer by bucket | server 424–600 |
| server: persistence | the store, its file | load, save under the lock | server 174–195, 2206–2280 |

**How they interact.** Captured event → router → capture queue → transmit thread → QUIC connection or relay
socket → receive thread → bounded channel → injection thread → operating system. A refresh worker feeds the router
from the desktop state, which the control-plane client fills from the server. Everything between two arrows
is a channel between threads, or a network; each thread owns its state. The exceptions are the map
of openers in the endpoint (under a lock that is released before the result is handed over), the atomics of the
metrics, and three sets of files that threads and processes rewrite without a lock: runtime status, configuration,
identity. The server's handlers hold the lock of its store until they have saved.

**What is hard.**

* *Ordering.* One numbering runs over mouse moves, which may be lost or overtaken, and key events,
  which may not. Both lanes meet in the injection thread, with two buffers and a deadline between them.
* *Conservation.* A key that is down on the target must have been pressed by somebody and must come up again,
  over lossy sends, reconnections, changes of the target, adapter errors and the end of a thread.
* *Stale state.* The router changes plans while a target is controlled; a reconnected sender starts a new numbering
  towards an old receiver; candidates are as old as a heartbeat; a refresh shows what a save has replaced.
* *Files without locks.* Read, change and write are three steps, and another process comes between them.
* *Connections that overlap.* A relay connection ends after its successor was accepted; an answer comes after the sender stopped
  waiting; a socket file outlives its process.
* *Boundaries.* The replay window and its bitmap, the reorder window, full queues, offsets in frames and packets.
* *Failure.* Which thread's error ends which others, what nobody starts again, and what a failed save leaves in memory.

Correct, per component:

| component | what must hold |
|---|---|
| injection | no number twice or backwards; no key held that the thread forgot; no reliable frame blocked for ever |
| path | the keys of user and target agree once everything has arrived |
| data plane | a replay is never accepted, a fresh frame in the window never refused; streams without gaps |
| listener | one failure stops the service or is repaired, never leaves it half alive; input is not held up by the clipboard |
| routers | one device at a time has control; the pointer comes back; what was routed is typed; source and target agree where the pointer is |
| files of a computer | a failure shown gives way to a later success; file and window come to what the server has; the identity's key is stored |
| links | the latest connection is routed to; what was acknowledged is on its way; a target or service that can be reached is found; a copied text arrives |
| server | references are good; a version tells what was read; no update is lost; what was answered is saved; a login code counts once; an offer stands |
| values | what was encoded is decoded, what was typed is meant, what was pressed is injected, and two panels say the same |

## 2. Modules

| module | models | checked in |
|---|---|---|
| `InputDelivery` | abstract: what a receiver promises of the frames that reach it | `InputInjection` (refinement) |
| `InputInjection` | the injection thread | itself, `InputPath` |
| `InputPath` | transmit thread, links, receive threads, composed with `InputInjection` | itself |
| `ReplayGuard` | abstract: the replay windows of an opener, over any frames in any order | through `DataPlane` |
| `DataPlane` | connections, sealing, streams, datagrams, reader tasks, channel; composed with `ReplayGuard` | `MCTransport` |
| `Listener` | receive threads, channels, workers, waiting functions, core service | `MCTransport` |
| `DesktopCapture` | plan, router, capture queue, transmit thread, targets | `MCCapture` |
| `SingleCapture`, `Keymap` | single-target capture; the compiled profile and the keys of the platforms | `MCCapture` |
| `Pointer` | the pointer across an edge or corner, and what three systems make of it | `MCCapture` |
| `RuntimeStatus`, `DesktopConfig` | the status file and its writers; the configuration file, window, server | `MCService` |
| `RelayHub` | the hub, its connections, the receive loop and the sender | `MCLinks` |
| `Discovery` | search for a direct connection | `MCLinks` |
| `Clipboard` | watch process and clipboard thread of two devices | `MCLinks` |
| `LocalIpc` | the endpoint of the core services, those who ask, services that are killed | `MCLinks` |
| `Registry`, `Profiles`, `Sessions`, `Releases` | the parts of the server's store | `MCServer` |
| `Identity`, `Telemetry`, `DesktopView`, `StatusLabels`, `WireFormat`, `Devices`, `MdnsDiscovery`, `Commands`, `ProfileText` | what one device reads, computes and shows | `MCValues` |
| `…_proofs` | theorems about the modules they extend, section 4 | — |

**Modules of several parts.** `MCTransport`, `MCCapture`, `MCServer`, `MCLinks`, `MCService` and `MCValues` extend modules whose properties
do not relate to each other. The variable `part`, chosen at the beginning from the constant `Parts`, says which of them moves; the
others stay in one initial state, so that the state space is the sum and not the product. Invariants are checked of all parts;
liveness is stated as `part = "relay" /\ Fairness => …`, each part under the fairness of its own. `Parts` in the cfg restricts a run to
one part. Where parts do act on each other they are composed: `InputPath` extends `InputInjection`, `DataPlane` uses
`ReplayGuard`, `SingleCapture` uses `Keymap`.

### InputInjection

`inject_received_frames` owns all of its state. A pass of its loop is cut at each call of the platform adapter,
since these can fail, as can the clock it asks for its statistics; `pc` names the place.

| TLA+ | code |
|---|---|
| `nextSequence`, `pending` | `ReliableInputSequencer`: next number and buffered reliable frames |
| `early` | `pending_unreliable`, mouse moves ahead of the next number |
| `deadline`, `DeadlinePasses` | the gap deadline (none, armed, passed) of `recv_timeout` |
| `tracked`, `held`, `lost` | `RemoteInputState`; what the system holds down; releases it refused |
| `DropOld`, `AcceptNext`, `BufferReliable`, `BufferEarlyMove`, `JumpAhead` | the outcomes of `accept` and of the test for early moves |
| `Inject`, `InjectFails`, `ReleaseForTargetFails`, `SkipStaleMove`, `ClockFails` | `inject_received_input_frame` and its exits; the last is `now_micros()?`, which returns without a release (`pc = "clockless"`) |
| `DrainEarly`, `DrainPending`, `DrainDone` | `inject_ready_pending_input_frames` |
| `RecoverGap`, `LeaveLoop`, `ExitRecover`, `ExitRelease` | `recover_pending_input_gap`, the end of the channel, the loop behind the main loop, the final release |

A frame's content is reduced to press, release or nothing, which is all `RemoteInputState` tells apart; a
mouse move can be stale or not. `Frames` is a constant: any set of frames, from any number of senders, so
the properties hold whatever the senders do.

### InputPath

Adds the user, the sender (`link`, `sequence`), an ordered stream and lossy datagrams for a direct connection, an
ordered relay, and the failures of each. `Transmit` sends on the existing connection or makes one, preferring direct;
`TransmitFails` forgets the sender; `DropInBackoff` is the 500 ms after a failure. `LoseDirect` ends the
endpoint's receive loop, as `Listener` explains, and `LoseRelay` drops what is between the sockets. `Timely` says that
the stream is never later than the gap deadline: with it, time passes only when the stream is empty. `abandoned` is a history variable: the keys the user holds whose press, or whose hold on
the target, a jump of the sequencer gave up. A jump takes more lost moves in a row than the window; the run makes it with a window of 1, the code's is 64.

### ReplayGuard, DataPlane, Listener

`ReplayGuard` is `SequenceReplayWindow` with its bitmap, one window per connection and key epoch, plus the
history of accepted numbers (`opened`). `DataPlane` is the whole of the endpoint: `SendFrame` seals and writes
(`DataPlaneSealer`, rotation after `RotationFrames`), `OpenFrame` reads and opens under the lock, `PutResult` waits for
a place in the channel while it occupies a worker thread, `ReportEnd` tells of the end of a connection, `ReceiveFrame`
and `ReceiveError` are the thread in `recv_frame`. A frame is its header (lane, epoch, number): envelopes come
from the sealer of their own connection, so decryption succeeds.

`Listener` has two receive threads, three bounded channels, three workers, and the functions that wait for their results. A channel is
the number of frames in it. `Dispatch` blocks for a key, drops a move, clipboard or control frame when the
channel is full; `DispatchFails` is a channel whose worker is gone. `WaitListener` and `WaitCore` read the results as they
come. `Retried` names the components the core service starts again (`heartbeat`; `desktop_capture` on Windows and Linux).

### DesktopCapture, SingleCapture, Pointer

| TLA+ | code |
|---|---|
| `PresenceChanges` | a target comes or goes in the desktop state |
| `RefreshPlan`, `Replanned` | refresh worker with `try_send`; `replace_plan` |
| `Route` = `StayLocal`, `ReleaseControl`, `EnterTarget`, `SendRemote` | the exits of `route_at_with_application` |
| `RemoteEvents` | a move; a position before each button (`NeedsPointerSync`) |
| `CooldownEnds`, `CaptureEnds` | 250 ms after a return; the capture stream ends |
| `Enqueue` | `enqueue_desktop_capture`: waits 25 ms for a place, then drops the event |
| `TakeEvent`, `Coalesce`, `DropInBackoff`, `Send`, `SendFails` | `transmit_desktop_capture_events` |
| `lost` | history: targets for which the code itself gave up a reliable event |

In `DesktopCapture` a target lies at one edge and its pointer is a distance from it; in `Pointer` there are layouts of displays, corners,
ratios and the conversions of Windows, macOS and X11, with positions in fractions of a pixel so that the arithmetic is exact.
`SingleCapture` has the loop around `run_capture_connect`, the router's modes, the hot key, coalescing and a target
that gives up injecting at a key its platform does not have (`Keymap`).

### RuntimeStatus and DesktopConfig

`RuntimeStatus` has the file (`file`: state, writer, run, targets) and every thread that replaces it, for each run of the capture loop.
Reading a counter and writing the file are two steps, and a write may fail, which the code only logs (`unwritten` remembers the statuses that were
not written since). `DesktopConfig` cuts building a state into `FetchTopology`, `ReadText`,
`WriteText`, saving into file, push and reload, and lets window, background refresh, core service and local
IPC do so at the same time, while another computer saves on the server and the server is sometimes down. Without the server the own id is unknown, so the
form of the window is that of a client, and a save names no master.

### RelayHub, Discovery, Clipboard, LocalIpc

| module | state | steps |
|---|---|---|
| `RelayHub` | `peers` (the hub), `rx` and `tx` (both ends of a connection), `reading`, `holding`, `awaiting` | connect, accept, refuse, upgrade, forward, end; send, handle, answer, give up; break, disable |
| `Discovery` | `net` (server, list, addresses, reachability), `seen`, `offers`, `tried` | list, mDNS, try, connect, relay, sender fails; target and device move |
| `Clipboard` | clipboard, watch process, frames, queue, service of each device | copy, notice, send, skip, receive, apply, fail, restart |
| `LocalIpc` | socket file, stage of each service, pending connections, callers | bind, probe, remove a stale file, accept, answer, unlink; ask, start a service; kill |

A handler of the relay that registers a connection, the upgrade and the task are separate actions, because a connection can break or be
replaced between them. In `LocalIpc` Unix and Windows differ in what a killed process leaves and in what a second binder gets.

### The server's store

Each handler is one action, since it holds the lock from its checks to its save. `Registry` has the decision table of a
registration (id, key, deletions), presence with its version, what a client is shown of it (an expired device is shown offline under the version it has),
and the clean-up a deletion does, whose heartbeat variant does less. Versions of a removed record start at 1 again while clients hold the earlier ones (`removed`).
`Profiles` keeps memory and file apart: `Saved`, `NotSaved`, `Restart`. `Sessions` has codes and tokens, signal sessions whose save may fail after the
change in memory and before the event (`untold`), and event streams over a bounded broadcast channel. `Releases` has buckets, percentages and versions in three fields.

### The values of one device

`Identity` and `Telemetry` are concurrent: processes that seed and load the same files and may be killed between two calls; atomics read and
changed one at a time. `Devices` is two adapters with a queue between them. The others take an input and convert it, step by step where the code
does (`WireFormat`: encode, travel whole or cut, decode; `MdnsDiscovery`: answers, damaged or not, until the deadline, with names read
by the number of pointers that are followed), rewrite an input in every way that should not matter (`ProfileText`), or compare two
hand-written tables over every state (`StatusLabels`).

`Commands` has two sides that share nothing: the parser, with its words and with its defaults as the separate values they are in the code, and what is promised to who
types a line: the usage `print_help` prints, and the defaults of `docs/USER_GUIDE.md` (383, 434, 452). `Understood` compares them for every command, with every number of
arguments, each written in every way of `Spelled`; an argument may be misspelt, a needed one forgotten, and macOS may add its own.

`DesktopView` has the list of the server, the entry kept of each computer, the stored layout (`placed`), the same in the entries kept (`ShownLayout`), and what
the window loaded and edits (`loaded`, `edited`): a save writes what is edited, or is refused; a deletion writes it without the computer, unvalidated.

In `Devices` a key is a place on the keyboard. What a Windows source sends of it is the key whose place on the standard keyboard has the letter that the source's
layout has there (`KeyOfLetter`), or nothing if no key is named so; macOS, X11 and all injectors go by the place.

## 3. Runs

Passing runs (two workers):

| run | parts and instance | distinct states | properties |
|---|---|---|---|
| `injection` | 1 key, 2 targets, numbers 1–4, window 2, queue 1, every number on both lanes with any content | 355 k | `HeldIsTracked`, `ReleasedAtReturn`, `InOrder`, refinement `ImplementsDelivery` |
| `path` | 1 key, window 1, 5 events, 1 failure, direct and relay, timely stream, jumps over the window included | 659 k | `DifferenceOnTheWay`, `NoneDroppedOnline`, `Settles` |
| `transport` | data: 4 frames on one connection, 1 on another, window 2, bitmap of 3, epochs of 3 frames, channel 2, 2 worker threads; listener: channels of 1 place, heartbeat retried | 477 k | `VerdictIsExact`, `StreamPrefix`, `FailureStops`, `LoopsMove` |
| `capture` | desktop: 2 targets, 4 keys, width 2, queue 2, 1 change of presence, 3 inputs; single: Mac to Windows, 3 modes, 4 events, 1 lost connection; pointer: 1 or 2 displays, 3 screens, 3 edges | 1.6 M | `ControlIsPlanned`, `KeysOnTheWay`, `TypedAsRouted`, `PointersAgree`, `HandoverRestores`, `PlansConverge` |
| `server` | registry: 2 ids, 3 identities, 2 names, 2 addresses, 3 edits; profiles: 2 editors, 3 writes, 1 rollback, failure, restart, deletion; sessions: 2 codes, 3 tokens, 3 signals; releases: 3 versions, 4 percentages | 3.4 M | `NoDanglingRefs`, `SameVersionSameCandidates`, `NoLostUpdate`, `AnsweredIsSaved`, `LoginsAreEarned`, `OfferStands` |
| `links` | relay: 3 receiving and 2 sending connections, 2 frames, 2 breaks, 2 switches; discovery: 3 addresses, 3 changes of the network; clipboard: 2 devices, 4 copies and sends, 1 fault; endpoint: 2 services, 2 callers, 1 start, kill and caller that goes | 1.1 M | `NewestRouted`, `AckedOnItsWay`, `RelayComesBack`, `TargetIsReached`, `CopyArrives`, `ServiceComesBack` |
| `service` | status: 1 target, 2 runs, 2 failures, 1 change; configuration: service or IPC beside window and refresh, 1 edit, save and outage | 2.6 M | `RecoveryShows`, `ConfigConverges` |
| `values` | the nine modules of one device, instances in `MCValues` | 1.5 M | `KeyIsStored`, `DepthIsTrue`, `EditsStayValid`, `PanelsAgree`, `FramesRoundTrip`, `ArrivesAsIs`, `WholeIsUnderstood`, `Understood`, `TextIsFollowed` |

The other four runs are expected to fail: each is one statement of the repository that the code does not keep (section 6).

The modules state more than the cfgs list. Proved for every value of the constants in section 4 are `PendingInWindow`, `BitmapIsHistory`, `StreamConserved`, `RefusedIsLate`, `StopsOnlyForCause`, `ButtonLands`, `HiddenOnlyAway`, `AckMatches`,
`RelayConserved`, `KeyIdentifiesDevice`, `CursorMissesNothing`, `WindowsAreCurrent`, `ShownIsFresh`, `EveryEventCounts` and `ReportsKept`.
Others are stated only: type invariants (`TypeOK`, `DataPlaneTypeOK`, …), `BufferedAhead` and `ReturnsWhenClosed`
(one sender within the window), `KeysNotDropped`, `ButtonWhereAimed`, `WayBack`, `ArmedComesBack`, `OrderDoesNotMatter`,
`PlacesFollowTheComputer`, `BestChosen`, `DesktopRelinks`, `SettledStays`, `MaxCovers`, `InjectedIsSkipped`,
`CallersReturn`. TLC finds no violation of them on the instances of the runs (of the first two,
with one sender of six frames and a window of five); `ButtonWhereAimed`, `OrderDoesNotMatter` and `SettledStays` are action
properties, and `DesktopRelinks`, `CallersReturn` and `ArmedComesBack` hold under the fairness of their part.

**Why the bounds are enough.** A window of 2 with four numbers has a number in every relation to it: old, next, inside,
at the edge, beyond. In the path the window is 1, so that a jump takes three events, and five leave a press and a release around it. Four sealed frames over epochs of three cross a rotation, a bitmap of three is shifted within
and past its width, and with a channel of two and two workers both threads can be blocked at once. Channels of
one place are full as soon as a worker is one frame behind. Two targets are needed for a plan that changes while another
target has control; three inputs cross an edge, press and come back; the fourth that `capture_held` has is the release
afterwards. Three receiving connections are an old one, its successor and one that replaces it while the first is still ending; two frames
are one that is acknowledged and one whose answer comes too late. Two ids and three identities are a device, the same computer with a new
id, and another one. Three writes of a profile are what two editors and a deletion need. Four copies let a text
come back after another. Two services are one that was killed, or that is of another version, and one that follows. Two runs of the capture
loop let a thread of the first write after the second began. The frames, texts, layouts, profiles, commands and services of `values`
are one of every kind and every way to write it. The proofs of section 4 have none of these bounds: every safety
property of a passing run is proved, but for `Understood`, which is a comparison of finite tables.

**Deadlock.** Every cfg says `CHECK_DEADLOCK FALSE`, because each system may stop: injection thread, capture
loop and service process return, conversions end with their output, and in the other models the user's events, the frames and
the failures are bounded. That nothing waits for ever where it must not is stated as liveness instead.

**Fairness.** Only what runs by itself is fair; users, losses, failures, kills and changes of the network are free.

* `InputPath`: the thread, time, and the delivery of what is in flight.
* `Listener`: `WF` for the waiting functions, the injection worker and a send to a worker that is gone. `SF` for `Dispatch`: a blocked sender
  of a Rust channel is queued and served in turn. The clipboard and control workers are not
  fair: they may hang, and `LoopsMove` must hold all the same.
* `DesktopCapture`: refresh worker, `Enqueue`, the transmit thread, and `UserStirs`: some event is captured again and again,
  since a plan is only applied when one is.
* `RelayHub`: the receive loop, which sleeps and connects again, and the server's handling of requests and of closed sockets.
* `Discovery`: the caller. Both callers are loops.
* `Clipboard`: the waiting, sending, receiving and applying threads. Not a process that has ended: nobody restarts the watch.
* `LocalIpc`: each service, and a caller that has connected. Whether a caller stays is up to it; `ComesBack` is about callers that do.
* `DesktopConfig`: each thread within a build or a save, the start and end of a refresh, and the poll of the window, which redraws at an interval.
* `DataPlane`, `ReplayGuard`, the server's store, `Pointer` and the values: safety only. `InputInjection`, `SingleCapture` and
  `RuntimeStatus` state a fairness of their threads that no property of a run needs.

**Mutants.** `PROJECT.json` gives for every property of a passing run a wrong version of a definition
(`Mutant…`, next to the original) under which TLC finds that property violated.

## 4. Proofs

TLAPS 1.4.5 with Z3, Zenon and LS4; every step is proved, for every value of the constants that satisfies the named assumptions.

| theorem | statement | argument |
|---|---|---|
| **injection thread and path** (`InputInjection_proofs`) | | |
| `TypeCorrect`, `KeysAccountedFor`, `ReleasesAtReturn`, `InjectsInOrder`, `BuffersStayInWindow` | `TypeOK`, `HeldIsTracked`, `ReleasedAtReturn`, `InOrder`, `PendingInWindow` for any keys, targets and frames, any window and queue | `IInv` |
| `Implements` | `InputInjection` implements `InputDelivery` | step by step from `IInv` |
| `NoKeyEventDropped` | a timely stream and connections that hold: `NoneDroppedOnline`, whichever moves are lost or late | `PathType`, `OrderInv` |
| `KeysComeThrough` | the same: `DifferenceOnTheWay`, which excepts the keys a jump gave up | `HoldInv` |
| **data plane** (`DataPlane_proofs`) | | |
| `BitmapMirrorsHistory`, `GuardIsExact` | the bitmap is the history; verdicts are exact, for any window and width | `GuardInv` |
| `UsesGuard`, `OpensExactly`, `MirrorsInUse` | the data plane only makes `ReplayGuard` steps, so both results hold in it | `Numbered`, then `UsesGuard` as a refinement |
| `StreamsArePrefixes`, `StreamsAreConserved` | `StreamPrefix`, `StreamConserved` for any connections, lanes, workers and channel | `Carried`, `AllInLine` |
| `RefusalsAreLate` | `RefusedIsLate` | `OpensExactly` with what was handed on |
| **capture** (`DesktopCapture_proofs`) | | |
| `ControlStaysPlanned`, `PointerComesBack` | `ControlIsPlanned`, `HandoverRestores` for any targets, keys, widths and queues | `RouterInv` |
| `KeysStayOnTheWay`, `KeysArriveMapped` | `KeysOnTheWay` of the desktop router, `TypedAsRouted` of the single one, for any line and any profile that compiles | `WayInv`, `SingleInv` |
| `PointersStayTogether`, `ButtonsLand` | `PointersAgree`, `ButtonLands` for any displays, screen, edge and motion | `PointerInv` |
| `PointerIsGivenBack` | `HiddenOnlyAway` | `HiddenInv` |
| **core service** (`Service_proofs`) | | |
| `RecoveryIsShown` | `RecoveryShows` for any runs, failures and changes | `RecoveryInv` |
| `StopsForCause` | `StopsOnlyForCause` for any capacities and retried components | `CauseInv` |
| `WindowShowsFresh` | `ShownIsFresh` for any refreshers, edits, saves and outages | `FreshInv` |
| **one device** (`Values_proofs`) | | |
| `DepthTells`, `EventsAreCounted`, `CrashReportsStay` | `DepthIsTrue`, `EveryEventCounts`, `ReportsKept` for any capacity, number of events and threads | `CountersInv`, `CrashInv` |
| `KeyStaysStored` | `KeyIsStored` for any processes, directories, packages and failures | `KeyInv` |
| `PanelsSayTheSame`, `EditsKeepValid` | `PanelsAgree` for any state; `EditsStayValid` for any list, layout, edit, deletion and refresh | case by case |
| `InputIsKept` | `ArrivesAsIs` for any keys, turns, motions, number of actions and restarts, between any two of the systems | `DevicesInv` |
| `SerialNumberIsIgnored` | what macOS adds to a line changes nothing of how it is parsed, wherever it is | induction over the line |
| `ProfilesAreFollowed` | `TextIsFollowed` for any mapping that maps no key twice and any layout | `ProfileInv` |
| **what is read from the network** (`WireFormat_proofs`) | | |
| `FramesAreUnderstood` | `FramesRoundTrip` for frames of every kind with texts, names and lists of any length, cut anywhere or followed by anything | `WireInv` |
| `ChunksMakeTheFile` | the chunks of a transfer, in order, are the file, for any file and size of chunk | `UpTo` |
| `AnswersAreUnderstood` | `WholeIsUnderstood` for any services, addresses and faults, however the names are compressed | `MdnsInv` |
| **links** (`Links_proofs`) | | |
| `NewestStays` | `NewestRouted` for any devices, connections and breaks, also with requests handled after their connection is gone | `HubInv` |
| `RelayConserves`, `AnswersMatch`, `AckedIsOnItsWay` | `RelayConserved`, `AckMatches`, `AckedOnItsWay` | `RelayInv` |
| `NothingEchoes` | `NoEcho`, if no device watches for itself along a chain of watchers | `OnwardInv` |
| **server** (`Server_proofs`) | | |
| `RefsAreGood`, `VersionsTell` | `NoDanglingRefs`, `SameVersionSameCandidates` for any devices, identities, layouts and numbers of edits | `RegistryInv` |
| `KeysTell` | `KeyIdentifiesDevice` for any devices, keys, deletions and authorisations | `RegistryInv` |
| `UpdatesAreKept`, `AnswersAreSaved` | `NoLostUpdate`, `AnsweredIsSaved` for any editors, failures, restarts and rollbacks | `ProfilesInv` |
| `FollowerIsCurrent` | `CursorMissesNothing` | `FollowerInv` |
| `LoginsAreOnce` | `LoginsAreEarned` for any users, codes and tokens | `AccountsInv` |
| `WindowsKnow` | `WindowsAreCurrent` for any windows, sessions, candidates and channel | `EventsInv` |
| `OffersAreKept` | `OfferStands` for any hashes, versions and policies | `ReleasesInv` |

**Assumptions** are the named `ASSUME`s of the modules, which TLC evaluates on every run. Most say that sets are not empty, capacities positive
and model values for "none" no values of the kind they stand in for. The others:

* `FramesAssumption`: a frame sent as unreliable is a mouse move and presses nothing. `PathAssumption`: all frames of a path name its one
  receiver, and whatever can be captured has a frame.
* `SingleCaptureAssumption`: the profile compiles, and the user's keys are among those the platform captures; a profile that does not compile is refused
  before capture starts.
* `PointerAssumption`: displays and screens are of positive size, and the unit in which positions are counted is a multiple of the width and the height
  of every screen, so that a ratio is an exact fraction. The rounding of `f32` is left out (section 7).
* `PackagesAssumption`: what an installer leaves is no file, a blank or damaged one, or one of an older installation.
* `WireAssumption`: what is sent are frames the program makes (`IsFrame`): an image has sides of at least 1 and four bytes for each pixel, and the name of
  a file is one `sanitize_clipboard_file_name` returns. That lengths fit their fields is no assumption but a condition of `FramesRoundTrip`.
* `DevicesAssumption`: the standard mapping of positions to keys is one-to-one.
* `CommandsAssumption`: what is typed is known for each kind of argument of the usage, and is not the argument macOS adds.
  `ProfileTextAssumption`: a meant mapping maps no key twice, and a meant layout is one the parser accepts.
* `MdnsAssumption`: services have instance names of their own, equal hosts have equal addresses, and no name of a host has more labels than pointers are followed:
  a longer one, compressed label by label, the code refuses.
* `LayoutsAssumption`: the layouts a window starts from have each device once; section 6 has what happens otherwise.
* `Unbounded` (a hypothesis of the theorems about `DataPlane`'s use of the guard): the epochs and numbers in use are all of `Connections × Nat` and the positive
  numbers; TLC uses finite sets in their place.

The theorems with a hypothesis of their own have it because the property is false without it, which a run or section 6 shows:

* `Timely`, and connections that hold (`failures = 0`, part of the property): a stream frame is not later than the 20 ms deadline.
  `NoneDroppedOnline` is violated with `Timely = FALSE`.
* `Reach` in `InputIsKept`: towards X11 no wheel is turned by more than 255 notches at once, which is the most `x11_scroll_button_sequence` injects.
* the rank of `NothingEchoes`, a numbering of the devices that grows from watcher to watched: watching without a cycle. With two devices that watch
  each other the property is violated.

**Why the invariants are strengthened.**

* `HeldIsTracked` is not inductive: a release of all keys may fail half-way, so `IInv` adds that what was given up was
  given up by a failure (`GivenUpOnlyOnFailure`). `InOrder` needs that the frame in hand is the one the sequencer
  has just passed (`InHandInPlace`), or the buffers could hand out a number again. `PendingInWindow` relies on both.
* `OrderInv` sees queue, both maps, the frame in hand, stream, relay and datagrams as one line (`Orderly`): what is nearer to the thread is older, move and key
  never share a number, and once the deadline has passed every early move is older than the reliable frames still to come. `HoldInv` then says that the keys held by the
  receiver, changed by the events of this line in the order of their numbers, are those the user holds (`Accounts`). It names for each key
  the last event of the line about it, since a fold over frames in three containers has no order to go by; the keys a jump gave up have none.
* `GuardInv` says bit *i* of a window is set exactly when *highest − i* was accepted, through a shift of any distance; exactness of the
  verdicts follows. `Numbered` says a sealer never sealed a number it has yet to give out, and `OpensExactly` is then `GuardIsExact`
  through the refinement.
* `AllInLine` gives each envelope of a stream its place: one that is received, in the channel, in a reader's hand or under way has exactly the
  earlier ones of its stream in front of it. `StreamPrefix` alone says nothing of the three places before.
* `RouterInv` ties the active target, the plan, the hidden pointer and the end of the capture loop.
* `WayInv` and `SingleInv` are the property and the shape of the line: the transmit thread has at most one event in hand and one parked. That taking,
  coalescing and parking change nothing is then a lemma about a concatenation of four sequences.
* `PointerInv` bounds, while no motion was lost, the pointer of the target on each axis by the ratio the router tracks, within one pixel on one side
  (`Follows`). The property allows a pixel and a half on either side, which a motion does not preserve.
* `RecoveryInv` remembers who failed: a failure in the file is that of a thread that has yet to write a success, whose flag is still up,
  or whose success could not be written.
  `CauseInv` says of every report in a channel that its cause is true. `FreshInv` adds what each thread has read, and that the window
  listens to no refresh between its save and the reload.
* `KeyInv` adds the places in the code between two writes, and what a process has in memory there.
* `HubInv` adds that the connection accepted last has been accepted, so that a connection accepted now is another one, and that
  an end takes away a registration only if it is its own. `RelayInv` adds how frames flow through a connection (`FlowInv`), that a number is on one wire
  or routed into one connection (`NumbersInv`), and that an answer on the way tells what happened (`AnswersInv`).
* `OnwardInv` says that what a device holds or sends was copied on a device of no higher rank, and what waits for it on one of a lower: a text never comes home.
* `RegistryInv` says that what a client has read of a device is not later than what the server has (`ReadEarlier`): equal versions then
  mean equal LAN addresses, as long as the record was not removed in between.
* `ProfilesInv` says the same of an editor's copy within one life of a profile (`CopyEarlier`), and that the memory holds what was
  answered whether or not it is saved yet. `FollowerInv` bounds the follower's cursor by the server's revision, as long as no restart lost a change.
* `AccountsInv` keeps codes of different users apart and every code and token below its counter.
* `EventsInv` says that a window that has lost nothing has in its queue, for each session, the present state as the last event about it, or shows it,
  unless the last change of that session was not saved.
* `ReleasesInv` says that whoever was offered the latest version lies below the percentage of today.
* `CountersInv` is the sum behind the depth: it is the queue, plus what is reserved and not yet sent, plus what is received and not yet counted.
* `WireInv` says where in the wire each cell of the frame lies, which makes of every offset a decoder computes the end of a cell (`Ends`): what is read there
  is what was written there, and a wire that ends earlier ends within a cell that is read.
* `DevicesInv` says what was typed, turned and moved is what was injected, followed by what the queue will inject and by what the
  adapter has yet to report; for a wheel on X11 that is a sum over button presses.
* `ProfileInv` says that each rewriting step leaves a text that reads as meant, whichever steps came before.
* `MdnsInv` says of each answer that was not damaged that parsing it yields what its services advertise. Behind it is that every label in a packet begins
  a name that can be read in as many jumps as the name has labels (`LabelsRead`), which stays true as records are appended since a pointer only
  leads back: reading is monotonic in the jumps (`NamesGrow`) and in the packet (`NamesStay`).

**Recursion.** The library's induction theorems take an operator as a parameter, which the provers cannot instantiate. `UpTo` of
`WireFormat_proofs` makes an induction over the *set* of numbers that have a property, from `<` on the naturals being well-founded;
`RecursionIs` gives the function a recursive definition stands for, and lemmas about it follow by `UpTo`. This serves recursive functions and the folds
of the community modules, not RECURSIVE operators, of which the modules proved about have none. `StreamPrefix`, `KeysOnTheWay` and `TypedAsRouted`
need no recursion: what is down after a sequence is what the last event about each key says.

**Only model-checked.**

* Liveness: `Settles`, `FailureStops`, `LoopsMove`, `PlansConverge`, `RelayComesBack`, `TargetIsReached`, `CopyArrives`, `ServiceComesBack`,
  `ConfigConverges`. They rest on fairness and `ENABLED`, which this prover does not handle.
* `BestChosen` of `Discovery` and `WayBack` of `Pointer`: the first sorts with the community modules' recursive operators; the second depends
  on the sizes of the displays and screens of the run.
* `Understood` of `Commands`: the tables of the usage against those of the parser, over the words of the run.
* `LocalIpc`, `KeysNotDropped` of `Listener`, and the type invariants of the other modules, which the inductive invariants contain as
  far as they need them.

## 5. What the passing runs say about the code

* The replay window is exact: a refusal of a frame of the own connection has one cause, that
  it is older than the window. In the code the window is 64 frames over all lanes, so a stream frame overtaken
  by 64 or more datagrams is refused, and `recv_frame` reports the refusal as an error.
* Frames of a stream stay in order although opening and handing over are two steps, because one task reads one stream.
* Between the router and the target a key is lost in two places only: the queue that stays full, and a failed send. Coalescing,
  parking and back-off lose none.
* A button lands where the router's pointer is, because the router sends the position before it; between buttons the two may
  drift, since coalescing drops the deltas of earlier moves and macOS tracks a pointer beyond the screen.
* No reliable frame is dropped as old while connections hold and the stream is timely (`NoKeyEventDropped`). Keys come
  through as well. When more than 64 moves in a row are lost, `accept` jumps ahead: it releases what is held and clears its map, so presses
  are given up, but no release is (`KeysComeThrough`): the jump leaves no key down.
* However a computer loses its id or its key and comes back, registering makes no second record for a key. Authorising a device with a key
  does not look for one, so it can.
* What a client read of a device is its present LAN address as long as the version is the same. That holds of neither the public
  address nor of a device that has meanwhile expired (section 6).
* The window refuses to save a layout only for a computer that it was loaded with twice, and never because of what was selected since.
* Every line that follows the printed usage is parsed as what it says, with the defaults the guide promises.
* Unless devices watch each other in a circle, the clipboard cannot bring an older text back over a newer one.
* What the window shows was read after its last save: a refresh that began before is thrown away.
* A hanging clipboard never blocks input. A full input queue does block the receive loop, until the injection worker takes a frame.
* The clean-up of an old relay connection never takes the registration of a newer one (`unregister_if_current`). A registration
  whose upgrade fails stays until the next connection, so `rx_online` may be true of a device that does not receive.
* A frame the relay acknowledged is in the channel of the target's connection, once; it is lost only if that connection breaks.
* An expected version stops every lost update, except across a deletion of the device, after which versions start at 1 again,
  and across a restart that loses an unsaved change.
* A failed send gives way to the next success in the status file, because the flag is read and cleared by the thread that writes.
* The configuration file and the window come to what the server has, although each writer overwrites the others: every build fetches again.
* A stale socket is removed by the service that finds nobody behind it, so one service alone is always reachable again.

## 6. Findings

| run | what TLC shows | what the repository says |
|---|---|---|
| `path_blocked` | more lost moves in a row than the window: `accept` clears its own map, an early move stays behind and hides every later gap; a reliable frame waits for ever | test `injection_loop_does_not_block_reliable_input_after_unreliable_sequence_gap`, `main.rs:12820` |
| `path_restart` | a new sender numbers from 1, and its events are dropped as old | `connect.md:366` |
| `listener_deaf` | after the first peer that disconnects nobody reads the QUIC endpoint, and the service runs on | `todo.md:36` |
| `capture_held` | a key pressed remotely and let go after control came back stays down on the target | `todo.md:167` |

The modules state further properties that the code does not keep. Putting one into the cfg of its run, in place of the others and with `Parts` set
to its part, shows a counterexample:

| property | module | what happens | what the repository says |
|---|---|---|---|
| `NoneDroppedOnline` with `Timely = FALSE` | `InputPath` | a stream frame 20 ms later than a datagram behind it is skipped and dropped | `docs/DESKTOP_CLIENT_DESIGN.md:292`, key loss 0 |
| `NoneLeftDown` | `InputInjection` | the clock is asked for statistics before a frame is injected; set to before 1970 that is an error, and the thread returns without releasing what it holds (`main.rs:4302`) | `todo.md:168`, a failing injection releases the keys |
| `VersionRises` | `Registry` | a device whose presence expires is shown offline under the version it was online with, and one that beats from another public address keeps its version (server 1314, 1777) | `connect.md:128` |
| `PositionsArrive` | `Devices` | the hook of Windows reads a key as the letter its layout has there, and the injector presses the place that letter has on a standard keyboard (`windows.rs` 1093, 774): on another layout another key is pressed | `docs/DESKTOP_CLIENT_DESIGN.md:232`, `todo.md:157` |
| `PointerShownLocally` | `DesktopCapture` | a plan that changes while a target is controlled leaves the local pointer hidden | `todo.md:176` |
| `NoEcho` (with `Links <- BothWays`) | `Clipboard` | an older text comes back from the other device and replaces a newer copy; `NothingEchoes` shows that it takes such a cycle | — |
| `LayoutApplied` | `DesktopConfig` | `SetLayout` over the local IPC reaches the file, not the server, and the next build brings the old layout back (`main.rs:1909`) | `ui.md` §6 |
| `StaysResident`, `NotDeaf` | `LocalIpc` | two services that meet can both end; one may listen on a socket whose file names another | — |
| `LostLinkIsReplaced`, `NothingStuck`, `EdgeIsCrossed`, `TargetKeepsInjecting` (with `Minus` in `UserKeys`) | `SingleCapture` | a lost connection is noticed only when the next event is routed; modifiers changed between press and release leave a key down; control is taken by a key; a key the target's platform lacks ends its injection | `todo.md:37`, `todo.md:86`, `ui.md:414` |
| `ReusedLater`, `UpgradeKeepsIdentity` | `Identity` | two processes at a first start generate two identities, and the later write wins | `connect.md:11` |
| `BackToDirect` | `Discovery` | a relayed sender keeps the relay until it fails | `connect.md:182` |
| `NoEchoAnywhere`, `MotionArrives` (with `MaxActions = 3`) | `Devices` | macOS and X11 capture what they inject; suppressed motion on Windows has no delta, and X11 drops motion along one axis | `todo.md:159` |
| `DeviceOfferStands` | `Releases` | an identity that is given and the public key fall into different buckets | `docs/USER_GUIDE.md:357` |
| `HeardIsFound` | `MdnsDiscovery` | a service whose records came in two packets is not found | — |
| `StatusFollowsRole` | `RuntimeStatus` | a late thread of the capture loop overwrites the listener's status of a client | — |
| `RxOnlineIsTrue` | `RelayHub` | see section 5 | — |
| `ShownIsValid` | `DesktopView` | a layout stored for two entries of one computer is shown with that computer twice, and a save of it is refused | — |
| `PointersAlwaysAgree` | `Pointer` | see section 5 | — |

Seen while reading, without a property of their own:

* The probes of the control-plane client and of the core service (`client` 1442, `main.rs` 4780–4810) open a QUIC connection and
  drop it, which ends the peer's receive loop in the way `listener_deaf` shows.
* Keys held on a target are released when its injection thread ends, but the channel it reads is never
  closed (`main.rs:3355`, `4115`): a disconnection alone releases nothing.
* A key held locally when control crosses the edge stays down locally, and its release goes to the target.
* A save whose request to the server fails is reported as saved, and the reload that follows overwrites it (`native_desktop.rs` 510–541).
  A save from a window that shows an older topology overwrites the newer one.
* A deletion in the window writes the layout that is being edited without validating it (`native_desktop.rs` 543–600).
* A change of a signal session whose save fails is answered as an error and told to no window, but stays in memory (server 687, 738, 770).
* A deleted device that registers again under another name keeps the tombstone of the old one, and a heartbeat after it was renamed back
  removes it (server 1245, 1749).
* Any status can be set on a signal session at any time, also after it was closed (server 719).
* `profile_revision` is not changed by a deletion; presence versions and profile versions start again at 1 after one.
* Closing the window marks the device offline while its core service keeps sending heartbeats.
* A caller of the local endpoint that connects and writes nothing blocks it, and one that hangs up early ends the service (`main.rs:3222`).
* `encode_vec` writes the length 0 for a name of more than 65535 bytes where `encode_into` refuses it; a button frame of the first
  protocol version is shorter than the test for the least length accepts (`protocol.rs:735`).
* One stored profile that does not parse makes the `profiles` command fail for all of them (`client` 2400).
* An extra argument of most commands is ignored.

## 7. Not modelled

* Encryption, certificates, revocation: a frame is its header. Relay tokens (server 596–648), which are handed out and never checked.
* Scrolling and multipliers in the routers, input methods and keyboard layouts other than that of `Devices`.
* Layout, colours and HTML of the user interface; the text of the diagnostic reports; the detection of display servers; the Windows service
  wrapper; what the `print_*` commands print; packaging scripts, whose results are the initial states of `Identity`.
* The time to live of a remote clipboard content and the one-shot `clip-send`; the receiving side of a file transfer, which only logs.
* Code nothing calls (`client` 1307–1401).
* Rounding of `f32` in `Pointer`.
* Most of the names of keys: `ProfileText` and `Commands` have one for each family (`event.rs` 345–430 has more aliases), and each name of a mode is its own meaning.
* A clock of the server that goes back, with which an expired presence would be shown online again.
* Devices and topology are fetched by two requests and shown together; `DesktopConfig` fetches the topology, `DesktopView` has one list for both.

## 8. Plan

Done: the models of all components but those of section 7, with their checks; proofs of all safety properties of the passing runs but `Understood`,
and of the further ones section 3 names.

To come, proofs:

1. **`Listener`**: `KeysNotDropped`, with the channels' type, and that a full clipboard channel leaves the input channel alone, as an action property.
2. **`LocalIpc`**: who owns the socket file, for any number of services; what of `NotDeaf` is true when only one service runs.
3. **Abstract specifications** for the links, each shown to be implemented: the hub as one register per device; the data plane's streams
   as queues, from `AllInLine`; the profile store as a compare-and-set register, from `ProfilesInv`.
4. **`Pointer`**: the condition on displays, screens and threshold under which `WayBack` holds, and its proof.

Models: the receiving end of a file transfer once it writes files; the relay tokens once something checks them; the composition of
`Registry` and `Discovery`, so that candidates age as the heartbeats of `Registry` make them.
