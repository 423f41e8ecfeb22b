# evsuits: models, model checks and proofs

TLA+ models of the services of `evsuits` (an edge/cloud video surveillance suite,
C++17, ZeroMQ, ffmpeg, LevelDB), checked with TLC and, where a theorem is stated,
proved with TLAPS. Paths below are under `src/opencv-motion-detect/` unless they
start otherwise.

## 1. The system

A *device* runs `evdaemon`, which forks one process per configured *module*:
`evmgr` (message router), `evpuller` (camera stream in), `evslicer` (recorder),
`evpusher` (stream out) and `evmlmotion` (motion detector). In the cloud,
`evcloudsvc` keeps the configuration, the status of every device and camera, and
the software releases.

| Component | Source | State it keeps | Operations | Talks to |
|---|---|---|---|---|
| evmgr | `evmgr.cpp` | status table, message cache per peer, event queue | `handleEdgeMsg`: notification, message to a peer, ping, broadcast; restart | all modules of the device (ROUTER), evdaemon (DEALER) |
| evdaemon | `evdaemon.cpp` | status, enabled, config, pids of the modules; old and new configuration; database | `handleEdgeMsg`, `handleCloudMsg`, `startSubSystems`, `reloadCfg`, `ping`, HTTP routes | modules (ROUTER), cloud (DEALER), OS (fork, SIGCHLD) |
| process start | `inc/zmqhelper.cpp`, `singprocess.hpp` | UDP-port lock, ROUTER/DEALER sockets | `forkSubsystem`, `setupDealer`, `setupRouter`, `recvConfigMsg` | kernel, ZeroMQ |
| configuration difference | `inc/utils.cpp` | none | `getModulesOperFromConfDiff`, `getModuleGidsFromCfg`, `getPeerId` | evdaemon, evcloudsvc |
| evslicer | `evslicer.cpp`, `dirmon.cpp`, `postfile.cpp` | slices on disk, ring of slices, event queue, upload state | segment writer, `fileMonHandler`, `insertTsList`, `findSlicesByRange`, event thread, reschedule threads | evpuller (SUB and via evmgr), evmlmotion (events), video server (HTTP) |
| evcloudsvc | `evcloudsvc.cpp` | configuration map (devices to modules, modules to managers, clusters), peer data, device and camera status, release bundles; database | `handleMsg`, `handleConnection`, `processReportMsg`, `config`, `applyClusterCfg`, HTTP routes | evdaemons (ROUTER), operators (HTTP) |
| evpuller, evpusher | `evpuller.cpp`, `evpusher.cpp` | stream format, connection, packet count | announce the format, answer the request for it, publish packets; ask for it, exit at a second one, ask again after a write error | evslicer, evpusher, evmlmotion through evmgr |
| evmlmotion | `evmlmotion.cpp` | detection state, queue of openings and closings, event being put together | `detectMotion`, `makeEvent`, event thread | evslicer through evmgr, evdaemon |
| evwifi | `evwifi.cpp` | wireless mode | HTTP form, shell commands | host |
| reverse tunnel, database wrappers, helpers | `reverse_tun.hpp`, `database*.cpp`, `networks.hpp`, `inc/*` | none of the system's | byte forwarding, one-value reads and writes | - |

What is hard, by component (the full list with lines is `hazards` in
`PROJECT.json`):

* *evmgr, evdaemon, evcloudsvc*: a connect and a disconnect of a peer are the same
  two-frame message, and only the receiver's own table tells them apart. Correct
  means: the table agrees with the connections, messages held for a peer are
  neither lost, nor doubled, nor overtaken.
* *evdaemon*: two threads share the tables, `startSubSystems` is guarded by a lock
  but its callers' reads are not; configurations arrive while processes start and
  stop; a STOP can reach a process that ignores it; the daemon restarts and kills
  its children. Correct means: one process per enabled module, running the newest
  settings, none for the others, and the cloud told so.
* *evslicer*: writer, directory monitor, message threads, one event thread and
  sleeping threads share the ring and the queue; files vanish between a choice and
  its use; retries. Correct means: every event is handled or ends for a reason, with
  the slices in which it was recorded; ring and disk do not drift apart.
* *evpuller and its consumers*: the format of a stream is announced once and asked for
  by each consumer, over a router that holds, drops and forgets; a second format ends a
  consumer, as does a wait of 30 s. Correct means: the restarts come to an end, with
  everybody on the format of the evpuller that runs.
* *evmlmotion*: an event is opened and closed by counting seconds over frames that may
  be skipped, and leaves through a queue two threads share without a lock. Correct
  means: no confirmed motion outside an event, no event cut short, each sent once.
* *evcloudsvc*: indices that count from opposite ends, saves that fail, reports
  that refer to what was reported before, a configuration that is undone over what
  messages wrote meanwhile. Correct means: the active bundle is the one that was
  made active, and what is shown of devices and modules is explained by the last
  thing they said and comes right in the end; a device has the configuration the
  cloud has, and so has the database.

## 2. Modules

| Module | What it is |
|---|---|
| `BoundedQueue` | the code's "push, and pop the oldest beyond the limit" |
| `EvMgr` | evmgr with the ROUTER socket below it |
| `EvDaemon` | evdaemon with the processes it forks and their connections |
| `EvSlicer` | evslicer with the disk and the directory monitor |
| `ReleaseBundle` | the release bundles of evcloudsvc |
| `CloudStatus` | evcloudsvc's view of devices and of a camera, with the evdaemons that report |
| `CloudConfig` | evcloudsvc's configurations, the tables made from them, the database, and what devices are sent |
| `StreamHandshake` | how the format of a stream gets from evpuller to its consumers, through evmgr |
| `LoopRestart` | how evdaemon counts the restarts of a module and reports them |
| `StreamRestart` | the two composed: consumers that restart, and the count evdaemon keeps of it |
| `Motion` | the motion detector and its event thread |
| `Mailbox` | the abstract promise of evmgr, implemented by `EvMgr` |
| `MCEvMgr`, `MCEvDaemon`, `MCEvSlicer`, `MCReleaseBundle`, `MCCloudStatus`, `MCCloudConfig`, `MCStreamRestart`, `MCMotion` | instances for TLC |
| `EvMgrProofs`, `EvDaemonProofs`, `EvSlicerProofs`, `StreamRestartProofs`, `ReleaseBundleProofs`, `CloudStatusProofs`, `CloudConfigProofs`, `MotionProofs` | theorems and proofs |

### EvMgr

`status` is `peerData["status"]` (absent or 0 is "down", a timestamp is "up": the
time is never read), `cachedMsg` and `eventQue` are the code's queues. `connected`,
`inbox` and `delivered` are the transport: what each connection still has queued for
the router and what the router handed to each. Notifications carry a label that no
guard of the router reads. One action per branch of `handleEdgeMsg`
(`HandleNotify`, `HandlePeerMsg`, `HandlePing`, `HandleBroadcast`, `HandleOther`);
`Connect`, `Disconnect`, `Send` are the modules, `Restart` is a crash of evmgr or
the STOP evdaemon sends it. `Connect` does not wait until the old connection's
frames are read, which is a superset of what the socket allows. `Configured` are
the peers for which `findConfigModule` finds something; the others are marked up by
their messages and never down. `ended` is a history variable: how a message ended
that is not given to a module.

### Mailbox

What the modules rely on, without toggle, cache or connections: a message is posted,
and then handed over, once, to a module it is for, or lost; the modules named in
`Ordered` never get a message behind a younger one of the same sender. A broadcast is
handed to several at once. `EvMgr` implements it (`IsMailbox == Mail!Spec`) with
`waiting` the messages unread or held, `given` what was delivered and `posted` the
number of messages sent; `Ordered` are the peers the configuration names. A message
to the router itself only takes an id, an eviction, a restart and a send to a peer
that has gone are `Lose`, and so is what a broadcast does not reach.

### EvDaemon

`status`, `enabled`, `peerConfig` are the three tables (`enabled` holds the modules
whose entry is 1), `config`, `oldConfig`, `saved` the configurations. `router` and
`cloud` say where the two threads are: a handler is cut where the other thread can
change what matters - between marking a peer up and sending the configuration that
was read for it (`NotifyUp`, `SendConfig`), between resetting the status and getting
`mutSubsystem` (`NotifyDown`, `StartAgain`), and between the operations of a change
(`BeginChange`, `Operate`). Everything between two cuts is one step. `procs` are the
processes alive, each booting, waiting for its configuration or running, with the
commands on their way to it; `inbox` holds what the daemon has not read. The model
follows the real lock (held in the constructor only), the real `recvConfigMsg`
(drops a STOP) and the ROUTER without handover. `Reboot` is the constructor: the
children are gone (systemd ends the whole unit), the tables are loaded from the
database and everything enabled is forked. `Spaced` limits the surroundings of one run:
configurations come at rest, and processes crash only between the changes. A configuration maps each module to a
setting, to a disabled setting or to "absent". `Operations` gives what the walk over
the JSON difference can yield for a module that changed, and `Lumped` the modules for
which it may yield nothing: a class of modules that a known camera gets or loses as a
whole has a path that none of its expressions matches (`inc/utils.cpp`:345, 454, 535,
624). The walk itself is not modelled, so which of the modules that come or go do so in
such a way is a choice. `FailConfig` is a configuration whose loading ends in an exception
or whose saving fails (evdaemon.cpp:735-744): it is the present one from then on, and
nothing is done. `Readable` says how far the loading of a configuration gets. `missed` is
history: the modules whose last change brought no operation. A `fork` that fails leaves
what a process leaves that dies before it connects (`CrashAtBoot`).

### EvSlicer

A slice is named by the time it starts at. `OpenSlice` and `WriteSlice` are the
muxer, `notices` the changes the directory monitor reports (of every kind, also of
removals, since the filter is never installed), `FileMonHandler` and `Inserted` the
ring. The event thread is cut into taking an event, reading the ring, looking at the
files and uploading, because the monitor thread runs in between. `CheckFiles` with a
missing file is the uncaught `file_size` exception, i.e. a restart. `Outcomes` are
the return codes of `postFiles` and of the video server as far as the code tells
them apart.

### ReleaseBundle

The bundle list, the active index and their saved copy; `Save` may fail, after which
memory and database differ until a restart. A release is its `releaseId`.

### StreamHandshake, LoopRestart, StreamRestart

A format is the number of the evpuller process that sent it. `PullerStarts`,
`PullerGoesLive` (fifth packet: announcement, and `gotFormat`), `PullerAnswers`
(`handleEdgeMsg`, which waits for `gotFormat`) and `PullerDies` (camera not opened,
not read, or silent for 30 s) are evpuller. A consumer is `evslicer`, `evpusher` or
`evmlmotion`, whose code for this is the same: `SendsHello` resets `gotFormat` and
sends, `TakesFormat` is the branch of `handleEdgeMsg` (the first is kept, a second ends
the process), `SetsUpStream` and `GivesUp` end the wait, `Resets` is the error after
which evpusher and evslicer free the format and ask again. `GivesUp` is free when
nothing is under way any more, and counts as a fault when the 30 s pass before
something that is under way arrives. `MgrReads` is evmgr's handler cut down to these
messages: it toggles, routes, holds and hands over; the announcement goes to the peers
that are up. `MgrCrashes` forgets everything unread, held and queued, and the peers connect
again. `Reconnects` is a connection that is lost and made again while its peer goes on:
what was on the way may be lost, evmgr reads two notifications, and the peer does nothing.
`gap` is history: the consumers that lost a connection since they asked, and evpuller when
it did since it announced itself.

`LoopRestart` follows one module that stays enabled: the counter of its connections, whether
there was one, and how long the module has been silent, since every message of it sets its
status to the present (`Talks`, evdaemon.cpp:601). The router thread reports frequent
restarts, the heartbeat thread forgets the count after `Stable` seconds of silence, or while
the module is down. Both reports say "recover" (286 and 157), so the cloud raises no alarm
for either: `loop` is only which of the two was sent last. The counter is compared with the
clock, as in the code, so `Delta` is negative for every clock that has passed the first
seconds of 1970. `StreamRestart` composes the two: every start of the watched consumer is
`Connected`, every end `Disconnected`. The router thread calls `startSubSystems` with a
module of its own only at a disconnect (565), so no other start asks for the count.

### Motion

A frame is `FirstFrame`, `MotionFrame` or `StillFrame`; what the picture analysis
finds is a choice, also that the contrast is too low to tell (the code then returns
before the state machine, so the frame changes nothing). `detectMotion` compares whole
seconds of the packet time. `Made` is `makeEvent` with the limit of the queue. The event
thread is cut between its `front` and its `pop`, because the main thread may drop the
oldest in between; each access to the queue is taken as atomic. `suspect` and `motions`
are history: the motion that aroused suspicion, and the motions that became an event.
The branch of the state PRE for motion after more than `pre` seconds cannot be reached
(the time of the last motion was just set) and is left out.

### CloudStatus

`up` is what the evdaemons take to be connected, `beat` a heartbeat composed and not
yet sent (`ping` runs under `mutHeartBeat`, which the router thread does not take),
`pending` the dealer sockets, `inbox` what the cloud has not read. `online`,
`listed` (`mod2ipc`), `expected`, `slot` with `current`, `issues` and `mgrTerminal` are the
entries of `peerData` for one camera; a module without an entry has `expected` "none", and
an entry that was read before it was written is "null". The cluster may have a camera
without a serial number, which `applyClusterCfg` lets pass (evcloudsvc.cpp:285) and at which
`buildIpcStatus` ends in an exception (64, 175), before or after it has listed the modules
of this camera (`Flaws`, `NotBuilt`); so does a restart that loads it. `HandleConnection`,
`HandleReport` and `HandlePing` are the branches of `handleMsg`; `BeginConfig`,
`EndConfig` and `UndoConfig` are `config()`, cut where the message thread can write
what putting the copy back undoes; `Restart` reads `saved`. `Drop` loses what was on
the way, keeps what was not yet written, and may keep what had arrived;
`ResetDealer` and `Reboot` keep nothing that was not yet sent. `AV_OPENOUTPUT` stands
for the categories that never change the status. Left out: the list of the last
reports, the list of devices without configuration, the copies of events, routing
between devices (no evdaemon sends such a message). `undone`, `outrun` and `stray` (modules
listed by a configuration whose status was not built) are history.

It is assumed that a manager runs a module of each configuration it has:
`loadConfigMap` (evcloudsvc.cpp:205) loads configurations by the devices of modules
(341), so the cluster of a manager without a module of its own is not loaded again.

### CloudConfig

`tables` holds `configMap` and the two fields of `peerData` that count here, `savedMap`
and `savedConfig` the database. A cluster is named by the serial number of its manager.
A request is `Begin`, one `ApplyCluster` per cluster (`Refuse` stops half way, `Accept`
saves the cluster at once), and `Complete` or `Undo`; between these steps the message
thread runs (`HandleConnection`, `Heartbeat`) and devices come and go. `Delta` is the
set of devices the request sends its result to: `Changed` stands for
`getModulesOperFromConfDiff` by the devices of the modules it names. An evdaemon that
gets a configuration acts on the modules that carry its own number (`OwnPart`).
`Delete` is POST /delete. Four history variables name what the code is known to do
otherwise, so that the properties can speak of the rest: `untold` (devices that the
difference does not name, whose cluster was forgotten, or that got a configuration which
was undone), `misread` (devices whose mark "online" was changed by an undo or a deletion),
`unsure` (clusters last touched by a refused request or a deletion, or whose configuration
a restart did not load), `mapUnsure` (a deletion that was not saved, or came during a
request). Section 4 describes each.

## 3. Runs

| Run | Shows | Bounds, and why they are enough |
|---|---|---|
| `EvMgr` | toggle, order, one place for every message, losses only before a notice, held messages handed over, refinement of `Mailbox` | one configured peer and one stranger, 3 messages, 3 connections, 1 crash, cache of 2, event queue of 1: one message more than the cache holds, a reconnection of each side, and an eviction from both queues all happen |
| `EvDaemonCrash` | status, processes and reports agree and every enabled module ends up running while the configuration stands | evmgr and two modules, 3 crashes, 2 messages, 1 restart of the daemon; a module crashes again while the daemon still handles its first crash. Processes die only after they connected (section 4) |
| `EvDaemonSpaced` | after each of up to 4 configurations the device comes to rest, as configured in every module with which the change was carried out; nothing unwanted is forked later | evmgr and one module that can have two settings, be disabled, be absent, or be in a configuration whose loading ends before it; each may fail to be saved, and a module that comes or goes may be passed over: every sequence of four changes, from a device without configuration, with 2 late reports or commands, 2 crashes of processes between the changes and 1 restart of the daemon, which may cut a change off: a module crashes twice between two changes, or once after each of two, with a late report unread |
| `EvDaemonRaces` | what still holds when configurations arrive at any time | 2 configurations, 1 crash (also before connecting), 1 message, 1 restart |
| `EvDaemonSecond` (violation) | a second instance does not ignore itself | as found |
| `EvDaemonRemovedFork` (violation) | a removed module is started again | as found |
| `EvSlicer` | events in one place, right slices, ring and disk agree, events end | 4 slices with a ring of 2 (two removals), 2 events with a queue of 1, one of them perhaps queued without the limit, 1 empty slice, 1 crash; events that start with a slice or inside one and last zero or two units |
| `ReleaseBundle` | the active index stays right; DELETE and GET agree on positions | 3 releases at most at a time, positions from below the first to behind the last, 1 restart |
| `CloudStatus` | the toggle, what is shown of modules of a lost or silent manager, no traces of removed modules, and that the status follows in the end | two devices with one module each, one of them the manager; 3 events out of ups, downs, reports, lost connections, resets, reboots, restarts, configurations (one that disables the manager's module and takes the other away, one without modules, each with or without a camera that ends the building of the status); 1 message of each device on its way. Three suffice for "up, and the report of the end is lost" and "up, copied, down, undone"; heartbeats, reconnections and reads are not counted |
| `CloudConfig` | devices have what the cloud has, a restart brings back what memory had | two devices, each the manager of a cluster, one cluster with a module on either device; 2 requests out of five (a module that changes, moves or disappears, a second cluster that takes a module over, is broken, or comes with an empty one), 1 deletion, 1 lost connection or restart: a request refused after its first cluster, a connection during a request and the restart after each of them happen |
| `StreamRestart` | the consumer ends up streaming, with the right format unless a lost connection kept it from being told; frequent restarts are reported when there were such, and then always | 1 consumer (several only share evpuller's queue; the proofs are for any number), 2 evpuller processes, 2 faults, 1 crash of evmgr, a cache of 2, a report after a count of more than 1, connections counted up to 4: answer and announcement cross, formats outlive their sender, a connection is lost between question and answer, and the consumer restarts often enough to be reported |
| `Motion` | events cover the motion, are not cut short, arrive once and in order | 10 seconds with `pre` 1, `post` 2, a longest duration of 3, a queue of 3, one restart: an event is forced to end and goes on, two follow each other, and the queue overflows between `front` and `pop` |

`CHECK_DEADLOCK FALSE` stands where the bounds (or all processes at rest) stop the
system. Every property has a mutant in `PROJECT.json`: a small plausible bug in one
definition under which the run finds the property violated.

### Fairness

* `EvMgr!FairSpec`: the router thread is a loop around a blocking receive, and a
  ROUTER socket fair-queues its connections: `WF` of `HandleEdgeMsg(p)` for each peer.
  Modules owe nothing: they may never connect or send.
* `EvDaemon!FairSpec`: both threads are such loops, `startSubSystems` gets its lock
  because its holder never blocks in it, and the kernel runs every process. Crashes,
  configurations and reports have no fairness.
* `EvSlicer!FairSpec`: event thread, each sleeping thread and the monitor. Not the
  writer: the camera may stop, which is why `EventsEnd` promises an end only to an
  event that the ring has passed.
* `CloudStatus!FairSpec`: the message thread of the cloud as evmgr's, the heartbeat
  thread, the reconnection ZeroMQ makes by itself, and the end of an HTTP request.
  `StatusFollows` speaks of modules that stay up and configured.
* `StreamRestart!FairSpec`: evdaemon starts what is down (`EveryModuleRuns`), the
  threads of evpuller, of the consumers and of evmgr run, a camera that was opened
  delivers packets until it fails, time passes and the heartbeat runs. Faults, lost
  connections among them, have no fairness and are finitely many.

## 4. What does not hold

Findings kept as runs (`findings` in `PROJECT.json`): `EvDaemonSecond`,
`EvDaemonRemovedFork`.

Met while modelling, faithfully in the models, and not kept as runs of their own:

* evdaemon.cpp:413-414, comment "not running": a module that was just told to stop
  has status 1 while its process still runs; enabling it again forks a second one.
* `inc/zmqhelper.cpp`:192: a STOP sent to a process waiting for its configuration is
  dropped, so a module removed at that moment keeps its process. This is why
  `RestIsAsConfigured` is checked for configurations that arrive at rest.
* `inc/utils.cpp`:514: a property other than `enabled` that changes in a module which
  stays disabled starts the module (evdaemon.cpp:303 says such a start is refused).
* A process that dies before it connects is never started again: the SIGCHLD handler
  (evdaemon.cpp:1072) only reaps. `EveryModuleRuns` is therefore checked without such
  deaths; `EvDaemonRaces` has them.
* `inc/utils.cpp`:345, 454, 535, 624: a class of modules that is added to or removed from a
  known camera as a whole has the path `/SN/ipcs/N/modules/<class>`, which none of the
  expressions matches. On the device an added class is not started until the daemon
  restarts, and a removed one keeps running and is started again when it crashes. The same
  goes for all cameras of a cluster that had none. `RestIsAsConfigured` and
  `ForkOnlyWanted` speak of the modules that were not passed over (`missed`).
* evdaemon.cpp:735-744: when the new configuration cannot be loaded to its end or saved, the
  handler returns with the tables half changed and nothing started or stopped. The same
  configuration sent again has an empty difference to it, and the next one is compared
  with it; a restart of the daemon brings back the one before.
* `inc/zmqhelper.cpp`:220: a child whose `execl` fails returns from `forkSubsystem` and goes
  on as a second evdaemon. Not modelled: the programs are installed together.
* evdaemon.cpp:527, comment "within 3s": slow reconnections are counted like quick
  ones. evdaemon.cpp:139-140, comment "not offline": the count is forgotten while the
  module is down.
* evdaemon.cpp:286: the report that a module "is restarting frequently" has the status
  "recover", as has the one that it is no longer (157), and evcloudsvc.cpp:683-708 only
  takes issues away for it: an operator is never shown a restart loop. The time compared at
  142 is that of the last message of the module (601), so of a module that reports at
  least every 22 s the count is never forgotten while it is up.
* evslicer.cpp:1155: on the codes 4 and 7 the first failure sets the count but does
  not queue the event again. evslicer.cpp:749-750, comment "check old files": the age
  has the wrong sign and no old slice is removed.
* evcloudsvc.cpp:1144: DELETE with a `releaseId` passes the index at which it was found,
  counted from the oldest, on as a position, which counts from the newest: the bundle
  at the mirrored position is deleted (`Delete` has the case).
* evcloudsvc.cpp:1369: a camera is counted as ok when the status of its modules is the
  expected one; `evcloudsvc-cloud-api.md`:411 says "ipcs that have no issue". An error a
  module reported stays as an issue when the next heartbeat shows it running again.
* evcloudsvc.cpp:529 with `inc/utils.cpp`:535 and 454: only the devices named by the
  difference are sent a new configuration. A class of modules that comes or goes in a
  cluster that is known, and a setting of the cluster, have paths none of the
  expressions match, so nobody is told until the device connects again
  (`evcloudsvc-cloud-api.md`:96 "set or change configuration for edge device").
* evcloudsvc.cpp:385: which cluster a module belongs to is kept by device and class; of
  two clusters with a module of a class on one device, the last posted is the only one
  the device is sent. Nothing is taken out of the tables when a module leaves a cluster.
* evcloudsvc.cpp:504: the clusters of a request that come before the one refused are
  saved and stay saved, while memory goes back; a restart loads them.
* evcloudsvc.cpp:541: a device that connected during a request that is undone has been
  sent the half-changed configuration and is not sent another; its mark "online" is put
  back, so its next disconnect is read as a connect, and its next connect as a
  disconnect, upon which nothing is sent.
* evcloudsvc.cpp:1455-1491: deleting a device leaves the modules of its cluster on other
  devices in the map without a configuration, its own configuration in the database
  (from where a restart can bring it back), and forgets that it is online.
* evcloudsvc.cpp:206: at a start the configurations are loaded by the devices that run a
  module; that of a manager without a module of its own is not.
* evcloudsvc.cpp:394-402: an exception in `applyClusterCfg` leaves `code` 0, and the
  cluster is accepted.
* `inc/utils.cpp`:186-188: the `continue` skips `idx++`, so of a camera other than the first
  no module is found when the whole camera is added or removed.
* evmgr.cpp:309: an announcement skips the peers that are taken for down and is not held for
  them. A consumer that streams, loses its connection to evmgr for a moment and connects
  again is not told of an evpuller that was replaced meanwhile and does not ask: it goes on
  with the old format for good. A crash of evmgr does the same to every consumer, and to an
  evpuller whose announcement is unread. `FormatAgrees` is therefore stated for the
  consumers that did not lose their connection since they asked, while evpuller did not lose
  its own since it announced itself (`gap`); `AllStream` for all.
* evmlmotion.cpp:742: the longest duration of an event is only looked at when there is
  motion in the state IN; motion that falls in the state POST each time (pauses longer
  than half of `post`) makes an event of any length (line 49: "max event video length in
  minutes"). evmlmotion.cpp:647: frames without contrast change nothing, so an event
  stays open in the dark.
* evcloudsvc.cpp:540-542: a configuration that fails puts back a copy of all tables.
  A notification read meanwhile is forgotten, and the next one is taken for its
  opposite; `OnlineAgrees`, `CurrentIsExplained` and `MgrIssueAgrees` are stated for
  the other histories, `OfflineShowsNone`, `OnlyKnown` and `StatusFollows` for all.
* evcloudsvc.cpp:442-448: a cluster that is in `configMap` and not in `peerData`, or the
  other way round (as a restart leaves one whose manager runs no module), is taken out of
  both when a request names it. Its modules stay in the map, and their devices are told
  nothing.
* evcloudsvc.cpp:596-628: only the disconnect of the manager marks modules down.
  When another device of the cluster is lost with its last reports, the cloud goes
  on showing its modules running; `CurrentIsExplained` and `OfflineShowsNone` are
  about the manager's own modules.
* evcloudsvc.cpp:590: `mgrTerminal.online` is set at a connect and never reset.
* evdaemon.cpp:106: heartbeats leave out the modules that are down, so a heartbeat
  that was composed before a module went down and is sent after the report makes the
  cloud show it running until it next goes down (`outrun`).
* evcloudsvc.cpp:175-178: after a camera without a serial number the modules of the cameras
  before it are listed without a status. Their reports are taken (656), so a module that the
  status of its camera does not have is shown running, and a module that leaves such a
  configuration stays listed. `OnlyKnown` speaks of the others (`stray`).
* evslicer.cpp:908: the report of a failed upload always says "recover".
* evmlmotion.cpp:821: the event is cleared after it was sent, and with it the sender it was
  given once at the start (786), so only the first event names its sender; `SlicerTold` compares the times of events only.

## 5. Proofs

Every theorem holds for all values of the constants (any sets of peers, devices or
modules, any bounds) that satisfy the named `ASSUME` of its module; TLC evaluates
these on the runs. `PROJECT.json` lists the theorems, the lemmas stand beside them.

**`EvMgrProofs`** (`EvMgrAssumption`): `TypeCorrect` (`Spec => []TypeOK`, with the
limits of the queues), `ToggleIsRight` (`Spec => []ToggleAgrees`), `UpIsFlushed`
(`Spec => []UpMeansFlushed`), `LossIsBeforeNotice` (`Spec => LostOnlyBeforeNotice`, an
action property). The inductive invariant is

    RouterInv == TypeOK /\ InboxAlternates /\ ToggleAgrees /\ UpMeansFlushed

`ToggleAgrees` alone is not inductive: that the next notification is a connect while
the peer is down needs the shape of everything still unread. `InboxAlternates` says
it: along one connection's queue a disconnect is followed by a connect and by nothing
else, a connect follows nothing else, and the last entry agrees with `connected`.
Reading the head then flips the toggle exactly when the head's meaning flips. Two
lemmas on `PushDropOldest` show that a push keeps a queue within its limit and its
newest element.
`UpMeansFlushed` needs the toggle, since a message is held only while the table says
down. A lost message had a target without a connection which the table says is up or
which has something unread, and by the alternation the last thing unread from it is
its disconnect.

In the same module, `OrderIsKept` (`Spec => []InOrder`) and `Implements`
(`Spec => IsMailbox`, the refinement of `Mailbox`). The invariant is

    OrderInv == RouterInv /\ UnreadInOrder /\ HeldInOrder /\ GivenInOrder

The unread messages of a sender have rising numbers, all greater than those already
held or given; what is held for a peer is in each sender's order and behind what it
was given. `UpMeansFlushed` is what makes a hand-over at once keep the order: nothing
older can still be held. With it every step of the router is one of `Mailbox` or
leaves it unchanged.
`InOnePlace` (`Spec => []ExactlyOnePlace`) follows from `OrderInv` and
`PlaceInv`: only a notification has no number, no message is twice in what is unread or
held, and what is unread, held, given and lost are disjoint and make up all that was sent.

**`StreamRestartProofs`** (`StreamRestartAssumption`): `ReportIsEarned` and `LoopIsNoticed`
(`ReportEarned`, `LoopNoticed`), with the invariant `CountBehind`: the counter never passes
the connections since it was last forgotten, and is at most two behind them, the first that
is not counted and the second that only creates it.
`FormatIsRight` (`Spec => []FormatAgrees`, from `StreamHandshakeAssumption`) holds for any
number of consumers, evpuller processes, faults, lost connections and crashes of evmgr. Its
invariant `FormatInv` says: what is queued for evmgr takes it from what it believes of a
peer to what the peer is (`TurnsRight`); the last thing a consumer queued after asking is
the question, unless it lost a connection since (`HelloLast`); and, as long as evpuller did
not lose its own after its announcement, a live evpuller has no toggle behind its
announcement (`AnnounceLast`), and a consumer that asked has the format of the running
evpuller, or its question, the answer or the announcement is under way (`AllInformed`). A
question that evmgr would hold, and might drop, is one that reaches it before the
announcement of evpuller, which then goes to the asker too: evmgr takes the asker for up
(`PullerIsUp`, `ConsumerIsUp`).

**`ReleaseBundleProofs`** (`ReleaseBundleAssumption`): `ActiveStaysRight`
(`Spec => []ActiveIsRight`) and `PositionIsShown` (`Spec => PositionDeletesShown`). The
invariant `BundleInv` says the same of the copy in the database, from which a restart
reads, and that the releases of a list are distinct; `ErasedIndex` is the lemma on the
positions left when one bundle is taken out.

**`CloudStatusProofs`** (`CloudStatusAssumption`): `TypeCorrect`, `TableAgrees`
(`OnlineAgrees`), `OfflineIsShown` (`OfflineShowsNone`), `KnownAreShown` (`OnlyKnown`) and
`MgrIssueIsRight` (`MgrIssueAgrees`), all from `CloudInv`. Its parts: what is unread of a
device alternates between connects and disconnects, from what the table says to what
the connection is (as in `InboxAlternates`; only while no copy was put back in
between); the tables are sound, i.e. a manager that is offline has none of its modules
shown running and nothing is shown of a module the camera's status does not have, unless an
exception kept it out (`Sound`); and the copy
`config()` made of them is sound too, and explains what has been read since. The last
part is why the properties survive a configuration that fails.
`ShownIsExplained` (`CurrentIsExplained`) needs `ShownInv`: for a module that is down
and was not declared up since, whatever is unread or kept in the socket and would show
it running is followed by something that silences it, and while it is shown running
something unread of its manager still says that it is down. What is still in the socket of a device reaches the
cloud only when the device connects, so the socket of a connected device keeps nothing.

**`CloudConfigProofs`** (`CloudConfigAssumption`): `DatabaseIsRight`
(`Spec => []RestartKeeps`) and `DevicesAreServed` (`Spec => []DevicesFollow`), for any
number of devices, clusters, classes and requests. `KeepsInv` says what the database
follows while a request is worked on: the copy of the tables, in all clusters but those of
the request, so that an undo is right, and the tables, in the clusters already accepted, so
that a completion is. It needs that the saved map has every cluster and every module of a
manager that memory has (`Covered`), since a restart loads no other configuration.
`FollowInv` has the same two sides for the devices: one that was not sent anything early
has what the copy says, and one that neither is to be told nor is passed over has what the
tables say. It needs that the mark "online" and the parity of the notifications unread give
the state of a connection (`MarkIsRight`), so that a device which connects is found to be
new and is sent its configuration, and that a module with a cluster is listed for its device
(`Listed`). `AcceptedOwn` is the lemma on the difference: a device it does not name, and
from which no class of modules comes or goes, has the modules it had.

**`MotionProofs`** (`MotionAssumption`): `NoMotionIsLost` (`MotionCovered`),
`NoEventIsCut` (`NotCutShort`) and `SlicerIsTold` (`SlicerTold`). `MotionInv` relates the state of the detector to the log
of openings and closings: in the states IN and POST the last entry is an opening no later
than any motion not yet covered, in NONE and PRE it is a closing, and no closing comes
before `Post` has passed since the last motion unless the event had its longest duration.
`RelayInv` is about the event thread. As long as nothing was dropped, what was relayed and
what waits make up the log, and each event sent pairs an opening relayed with the closing
behind it. When something was dropped only the times are left: what was sent is not after
the copy that the thread holds, and the copy is not after anything that waits.

**`EvDaemonProofs`** (`EvDaemonAssumption`): `TypeCorrect`, `OneWorks` (`OneRunning`) and
`RestartIsEnabled` (`RestartOnlyEnabled`), from `DaemonInv`. Two processes of a module may
exist at once, so `OneRunning` needs that an identity belongs to at most one process and
that only its owner was ever sent a configuration: the other one never leaves its
constructor. And what the newest configuration disables is not in the daemon's table of
enabled modules, at every point where a restart can read it, unless the configuration that
disables it was not loaded or its operation not carried out.
`StatusIsRight` (`StatusAgrees`), `OneExists` (`OneProcess`) and `ReportIsRight`
(`ReportAgrees`) hold while the configuration stands and no process dies before it
connects: their statements assume `Standing`, which is what the constants of
`EvDaemonCrash` say. `StandInv` adds what is unread of a module: it leads from what the
daemon takes the module for to its connections, a connect coming first and a disconnect
last; and nothing is unread of a module that has not connected yet or waits to be started
again. `FirstSlot` (some slots of a finite number have a first one) shows that a fork takes
a free slot; it is proved from the well-foundedness of strict subsets.

`RestIsRight` (`RestIsAsConfigured`) and `ForksAreWanted` (`ForkOnlyWanted`) are about
configurations that do come, and assume `SpacedOut`: configurations arrive at rest, processes
crash only between the changes and once they have connected (`Spaced` and not `CrashAtBoot`,
as in `EvDaemonSpaced`); no configuration changes evmgr, or the settings of a module that
stays disabled; and `MaxPids`, a bound of the model, leaves room for a process of every
module. The constants of `EvDaemonSpaced` satisfy all of it. The daemon itself may crash
at any time, any number of reports and commands may be late, and configurations may fail to
be loaded or saved or be passed over for classes of modules. What the code does otherwise:

* a configuration that arrives while a process waits for the one before may lose the STOP
  (section 4);
* a crash while a change is carried out may end in two processes: the router thread has set
  the status to 0 and waits for the lock, the change takes 0 for not running and forks, and
  then the check of the router thread (evdaemon.cpp:274) refuses only what is disabled or
  removed, and forks again;
* a changed evmgr meets the same race, as it is stopped before any change is carried out;
* a change of a module that stays disabled starts it, and a process that dies before it
  connects is never started again (both in section 4).

The invariant is `SpreadInv`. The operations of a change are carried out one by one, so a
module is `Underway` until its own is done, and until then everything about it is judged by
the old configuration: `Shown` is the setting its processes are to show. Of a module in
`missed` nothing was done when its configuration changed, so nobody knows which setting its
process has, if it has one: it may show any (`May`), and it is treated like an enabled one
(`Served`), since a process of it, if it dies, may be started again. Two further
abbreviations carry the argument: `Seen`, what the daemon last read of the connection, and
`Owners`, the processes that own the identity. Per module `ModInv` says

* `Leads`: what is unread takes `Seen` to `Owners`, as in `StandInv`;
* `OnOk`: if a setting is shown, every process of the module is on its way to run just that,
  or any if the module was missed (a boot nobody heard of, a wait with the connect unread,
  the send about to happen or the configuration in its queue, a run with that setting or
  with a STOP ahead of it), or there is none and a notification or the restart itself will
  bring one, or none is due;
* `OffOk`: otherwise the process it may still have runs and was told to stop, so it cannot
  be caught waiting, where a STOP is thrown away;
* `Ready`: a missed module that is to be sent a configuration has one in the tables;
* `Calm`: before its operation nothing but reports happens to a module, which `Quiet` gives
  when the configuration arrives;
* `Tabled` and `Routed`: the tables and the router's own copies follow the setting shown. A
  late report that overwrites "disabled" or "removed" is why `Tabled` speaks of `enabled`
  and `peerConfig`, not of the status, when it says what may be started again.

`SpreadStep` is proved module by module: `OneModule` reduces a step to the module it is
about, once `AloneKeeps` has disposed of the others; the change of the configuration, the
first start and a restart touch all modules and have lemmas of their own (`TakeSpread`,
`LostSpread`, `BeginSpread`, `ColdSpread`, `StartSpread`). TLC checked `SpreadInv` on two and three
modules, with crashes and restarts, before it was proved.

**`EvSlicerProofs`** (`EvSlicerAssumption`): `TypeCorrect`, `RingIsOnDisk` (`RingOnDisk`),
`NoneIsForgotten` (`NoSliceForgotten`), `InOnePlace` (`EventInOnePlace`) and
`OverlapIsChosen` (`ChosenOverlap`). Removing a file is noticed like writing one, and the
path noticed is then taken for a finished slice: `RingOnDisk` alone is not inductive. The
invariant `DiskInv` adds `GoneAreOld`: a slice that was told of, or is to be told of, and
is gone from the disk is older than every slice of a full ring, so putting it into the
ring takes it out again at once. `EventInv` keeps the four places of an event apart, with
no event twice in any of them; `OverlapIsChosen` also needs that no event ends before it
begins. `LeastExists` (a finite set of numbers has a least element) is proved from the
well-foundedness of strict subsets.

Only model-checked: the liveness properties, i.e. `HeldIsHandedOver`, `EveryModuleRuns`,
`RestIsReached`, `StatusFollows`, `EventsEnd` and `AllStream` (liveness under fairness is
outside what the prover can do). Every invariant and action property of a
passing run is the statement of a theorem. `RestIsRight` says what is true at rest; that
rest is reached is `RestIsReached`, which stays with TLC.

## 6. What is left out

* Accesses to JSON objects, `std::set` and sockets that two threads share without a
  lock are taken as atomic, and so is each access to `evtQueue` of the motion detector.
  What a torn tree or socket does is undefined, and its outcomes cannot be enumerated;
  the lines are listed as hazards.
* `CloudConfig` and `CloudStatus` take the HTTP requests of evcloudsvc one at a time: its
  server has eight threads and `config` takes no lock, so two requests at the same
  moment race on the same JSON objects (see the first point).
* Message contents, logging, process ids, addresses, shell commands, the remuxing of
  packets, the analysis of pictures, HTTP transport.
* evdaemon's own copy of the message cache (the code of evmgr), its HTTP routes and
  `BOOTSTRAP=false`.
* `enableRelease` in evcloudsvc.cpp is called from nowhere.
* opencv-yolo, rtsp-relay, motion.py and the test programs are not part of the
  installed system; the reverse tunnel and the database wrappers hold no state of it.
* The map covers a small share of all lines under `src/`, since most of them are headers
  of other projects (json.hpp, clipp.h, httplib.h, spdlog, filesystem.hpp,
  concurrentqueue.hpp) that are kept in the tree.

## 7. Plan

Done: `EvMgr`, `EvDaemon`, `EvSlicer`, `ReleaseBundle`, `LoopRestart`, `CloudStatus`, `Mailbox`
and its refinement, `StreamHandshake` with `StreamRestart`, `CloudConfig`, `Motion`; the
proofs of section 5.

Left, in the order of importance:

1. The walk of the configuration difference (`cfg_diff` paths to modules and operations)
   against a definition by what changed.
2. `evwifi`: the retries of its mode changes.
3. What still holds of the processes when configurations come at any time and modules crash
   during a change, beyond `OneRunning` and `RestartOnlyEnabled`.
