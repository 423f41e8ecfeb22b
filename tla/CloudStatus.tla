------------------------------ MODULE CloudStatus ------------------------------
(***************************************************************************)
(* evcloudsvc: what the cloud believes of the devices and of one camera    *)
(* (evcloudsvc.cpp), and the evdaemons that report to it (evdaemon.cpp).   *)
(*                                                                         *)
(* A camera is served by modules on one or more devices; one device is the *)
(* manager of its cluster.  Every evdaemon tells the cloud when a module   *)
(* connects or disconnects, relays the reports of its modules, and sends a *)
(* heartbeat that lists the modules that are up, and never those that are  *)
(* not.  The router thread of evdaemon sends reports while its heartbeat   *)
(* thread has composed a list and not yet sent it.                         *)
(*                                                                         *)
(* In the cloud one thread handles messages; config(), on a thread of the  *)
(* HTTP server, copies the tables, changes them and puts the copy back     *)
(* when something fails, without a lock.  The model cuts it between the    *)
(* change and the end: what messages write there is what putting the copy  *)
(* back undoes.  Each single access to a table is taken as atomic.         *)
(***************************************************************************)
EXTENDS Integers, Sequences

CONSTANTS
    Devices,        \* the devices that connect to the cloud
    Modules,        \* the modules that serve the camera
    Host,           \* the device each module runs on
    Mgr,            \* the device whose cluster configuration has the camera
    Configs,        \* configurations an operator may post
    InitConfig,     \* the one in the database at first
    MaxQueue,       \* bound: messages of a device on their way
    MaxEvents       \* bound: modules going up or down, their reports, connections
                    \* lost, dealers reset, devices and clouds restarted,
                    \* configurations posted, all together

Wanted == {"on", "off", "none"}

\* Where the cluster has a camera without a serial number, which stops the building of
\* the status: nowhere, before this camera or after it.
Flaws == {"none", "before", "after"}

ASSUME CloudStatusAssumption ==
    /\ Host \in [Modules -> Devices]
    /\ Mgr \in Devices
    /\ Devices \cap Modules = {}
    /\ Configs \cup {InitConfig} \subseteq [Modules -> Wanted]
    \* loadConfigMap finds the configuration of a manager only when a module of
    \* its own has been configured.
    /\ \A cfg \in Configs \cup {InitConfig} :
          (\A m \in Modules : Host[m] = Mgr => cfg[m] = "none")
             => \A m \in Modules : cfg[m] = "none"
    /\ {MaxQueue, MaxEvents} \subseteq Nat

VARIABLES
    \* the devices
    up,           \* modules the evdaemons take to be connected
    beat,         \* the heartbeat composed and not yet sent: <<>> or <<modules>>
    connected,    \* devices with a live connection to the cloud
    pending,      \* messages in the dealer socket of a device
    inbox,        \* messages of a device the cloud has not read
    \* the tables of the cloud
    online,       \* peerData["online"]: devices with a time, not 0
    listed,       \* mod2ipc: the modules the camera is known to have
    expected,     \* ipcStatus["expected"]; "none" is no entry, "null" one read before
                  \* it was written
    slot,         \* what ipcStatus["current"] has of a module: "none", "null", "bool"
    current,      \* modules whose ipcStatus["current"] is true
    issues,       \* ipcStatus["issues"]: <<module or manager, category>>
    mgrTerminal,  \* ipcStatus["mgrTerminal"]["online"]
    saved, flaw,  \* the configuration in the database
    \* config()
    job,          \* where it is
    copy,         \* oldPeerData
    \* history
    undone,       \* a copy put back undid what messages had written meanwhile
    outrun,       \* modules a heartbeat or a copy says are up after they went down
    stray,        \* modules listed by a configuration whose status was not built
    events        \* number of events that are bounded

device == <<up, beat, connected, pending>>
status == <<listed, expected, slot, current, issues, stray>>
tables == <<online, status, mgrTerminal>>
posting == <<saved, flaw, job, copy>>
vars == <<up, beat, connected, pending, inbox, online, listed, expected, slot, current,
          issues, mgrTerminal, saved, flaw, job, copy, undone, outrun, stray, events>>

--------------------------------------------------------------------------------
(* Messages *)

\* AV_MODOFFLINE and AV_WRITEPIPE change the status of the module when they
\* recover; AV_OPENOUTPUT stands for those that do not.
Categories == {"AV_MODOFFLINE", "AV_WRITEPIPE", "AV_OPENOUTPUT"}
Reviving == {"AV_MODOFFLINE", "AV_WRITEPIPE"}

\* An active AV_OPENOUTPUT has the level "fatal", every other report "error".
Level(c, active) == IF active /\ c = "AV_OPENOUTPUT" THEN "fatal" ELSE "error"

NoteFrame == [kind : {"connect", "disconnect"}]
ReportFrame == [kind : {"report"}, mod : Modules, cat : Categories, active : BOOLEAN]
PingFrame == [kind : {"ping"}, mods : SUBSET Modules]
Frame == NoteFrame \cup ReportFrame \cup PingFrame

Note(k) == [kind |-> k]
Report(m, c, a) == [kind |-> "report", mod |-> m, cat |-> c, active |-> a]
Ping(ms) == [kind |-> "ping", mods |-> ms]

IsNote(f) == f.kind \in {"connect", "disconnect"}

MgrOffline == <<Mgr, "AV_MGROFFLINE">>

Nowhere == [m \in Modules |-> "none"]

Tables == [online |-> online, listed |-> listed, expected |-> expected, slot |-> slot,
           current |-> current, issues |-> issues, mgrTerminal |-> mgrTerminal,
           stray |-> stray]

NoCopy == [online |-> {}, listed |-> {}, expected |-> Nowhere, slot |-> Nowhere,
           current |-> {}, issues |-> {}, mgrTerminal |-> FALSE, stray |-> {}]

Event == events < MaxEvents /\ events' = events + 1

--------------------------------------------------------------------------------
(* evdaemon *)

Room(d) == Len(inbox[d]) + Len(pending[d]) < MaxQueue

\* The dealer socket keeps what is sent while there is no connection.
SendToCloud(d, f) ==
    IF d \in connected
    THEN inbox' = [inbox EXCEPT ![d] = Append(@, f)] /\ UNCHANGED pending
    ELSE pending' = [pending EXCEPT ![d] = Append(@, f)] /\ UNCHANGED inbox

\* handleEdgeMsg: a module connects or disconnects.
ModuleUp(m) ==
    /\ m \notin up /\ Room(Host[m]) /\ Event
    /\ up' = up \cup {m}
    /\ SendToCloud(Host[m], Report(m, "AV_MODOFFLINE", FALSE))
    /\ outrun' = outrun \ {m}
    /\ UNCHANGED <<beat, connected, tables, posting, undone>>

ModuleDown(m) ==
    /\ m \in up /\ Room(Host[m]) /\ Event
    /\ up' = up \ {m}
    /\ SendToCloud(Host[m], Report(m, "AV_MODOFFLINE", TRUE))
    /\ UNCHANGED <<beat, connected, tables, posting, undone, outrun>>

\* handleEdgeMsg: a report of a module to evcloudsvc is passed on.
Relay(m) ==
    /\ m \in up /\ Room(Host[m]) /\ Event
    /\ \E c \in Categories \ {"AV_MODOFFLINE"}, a \in BOOLEAN :
          SendToCloud(Host[m], Report(m, c, a))
    /\ UNCHANGED <<up, beat, connected, tables, posting, undone, outrun>>

\* ping: the list is composed from the status table and then sent, under
\* mutHeartBeat, which the router thread does not take.
ComposeBeat(d) ==
    /\ beat[d] = <<>>
    /\ beat' = [beat EXCEPT ![d] = <<{m \in up : Host[m] = d}>>]
    /\ UNCHANGED <<up, connected, pending, inbox, tables, posting, undone, outrun, events>>

SendBeat(d) ==
    /\ beat[d] # <<>> /\ Room(d)
    /\ SendToCloud(d, Ping(Head(beat[d])))
    /\ beat' = [beat EXCEPT ![d] = <<>>]
    /\ outrun' = outrun \cup (Head(beat[d]) \ up)
    /\ UNCHANGED <<up, connected, tables, posting, undone, events>>

--------------------------------------------------------------------------------
(* The connection *)

Connect(d) ==
    /\ d \notin connected
    /\ connected' = connected \cup {d}
    /\ inbox' = [inbox EXCEPT ![d] = Append(@, Note("connect")) \o pending[d]]
    /\ pending' = [pending EXCEPT ![d] = <<>>]
    /\ UNCHANGED <<up, beat, tables, posting, undone, outrun, events>>

\* The messages of d after the first i.
After(d, i) == SubSeq(inbox[d], i + 1, Len(inbox[d]))

\* The notification of a connection has been made once its device is connected:
\* a lost connection loses messages, never a notification.
Cuts(d) == {i \in 0..Len(inbox[d]) : \A n \in i+1..Len(inbox[d]) : ~IsNote(inbox[d][n])}

\* The connection breaks: messages after the first i did not arrive; of these,
\* the ones not yet written to the network stay in the dealer socket.
Cut(d, i, keep) ==
    /\ connected' = connected \ {d}
    /\ inbox' = [inbox EXCEPT ![d] = Append(SubSeq(@, 1, i), Note("disconnect"))]
    /\ pending' = [pending EXCEPT ![d] = keep]

Drop(d) ==
    /\ d \in connected /\ Event
    /\ \E i \in Cuts(d) : \E j \in i..Len(inbox[d]) : Cut(d, i, After(d, j))
    /\ UNCHANGED <<up, beat, tables, posting, undone, outrun>>

\* setUpDealer closes the socket and makes another, under mutHeartBeat.
ResetDealer(d) ==
    /\ beat[d] = <<>> /\ Event
    /\ IF d \in connected
       THEN \E i \in Cuts(d) : Cut(d, i, <<>>)
       ELSE pending' = [pending EXCEPT ![d] = <<>>] /\ UNCHANGED <<connected, inbox>>
    /\ UNCHANGED <<up, beat, tables, posting, undone, outrun>>

\* evdaemon ends and its modules with it; nobody reports that they are down.
Reboot(d) ==
    /\ Event
    /\ IF d \in connected
       THEN \E i \in Cuts(d) : Cut(d, i, <<>>)
       ELSE pending' = [pending EXCEPT ![d] = <<>>] /\ UNCHANGED <<connected, inbox>>
    /\ up' = {m \in up : Host[m] # d}
    /\ beat' = [beat EXCEPT ![d] = <<>>]
    /\ UNCHANGED <<tables, posting, undone, outrun>>

--------------------------------------------------------------------------------
(* evcloudsvc: handleMsg *)

\* ipcStatus has the camera.
HasStatus == \E m \in Modules : expected[m] # "none"

\* mgr2ipc has the manager before the camera has an entry, and keeps it.
Managed(d) == d = Mgr /\ HasStatus

\* The reports of module m are taken: mod2ipc leads to the camera.
Known(m) == m \in listed /\ HasStatus

ReadFrom(d) ==
    /\ inbox' = [inbox EXCEPT ![d] = Tail(@)]
    /\ UNCHANGED <<device, posting, undone, events>>

\* Mutant of PeerGone: the status of the modules stays when the manager goes.
PeerGoneKeep(d) ==
    /\ online' = online \ {d}
    /\ issues' = IF Managed(d) THEN issues \cup {MgrOffline} ELSE issues
    /\ UNCHANGED <<mgrTerminal, current>>

\* Mutant of PeerGone: a device that manages no camera is not marked offline.
PeerGoneMgrOnly(d) ==
    /\ online' = IF Managed(d) THEN online \ {d} ELSE online
    /\ current' = IF Managed(d) THEN {} ELSE current
    /\ issues' = IF Managed(d) THEN issues \cup {MgrOffline} ELSE issues
    /\ UNCHANGED mgrTerminal

\* Mutant of PeerCame: the issue of the manager is not withdrawn.
PeerCameKeep(d) ==
    /\ online' = online \cup {d}
    /\ mgrTerminal' = (mgrTerminal \/ Managed(d))
    /\ UNCHANGED <<current, issues>>

\* The two branches of handleConnection; the configuration it sends to the
\* device changes no table.
PeerCame(d) ==
    /\ online' = online \cup {d}
    /\ mgrTerminal' = (mgrTerminal \/ Managed(d))
    /\ issues' = IF Managed(d) THEN {x \in issues : x[1] # d} ELSE issues
    /\ UNCHANGED current

PeerGone(d) ==
    /\ online' = online \ {d}
    /\ current' = IF Managed(d) THEN {} ELSE current
    /\ issues' = IF Managed(d) THEN issues \cup {MgrOffline} ELSE issues
    /\ UNCHANGED mgrTerminal

HandleConnection(d) ==
    /\ inbox[d] # <<>> /\ IsNote(Head(inbox[d]))
    /\ ReadFrom(d)
    /\ IF d \in online THEN PeerGone(d) ELSE PeerCame(d)
    /\ UNCHANGED <<listed, expected, slot, stray, outrun>>

\* Every four-frame message marks its sender online.
Seen(d) == online' = online \cup {d}

Revived(ms, c) ==
    IF c \in Reviving
    THEN /\ current' = current \cup ms
         /\ slot' = [m \in Modules |-> IF m \in ms THEN "bool" ELSE slot[m]]
    ELSE UNCHANGED <<current, slot>>

\* Mutant of Recover: an offline module stays offline until it says so itself.
RecoverIssueOnly(ms, c) ==
    LET known == {m \in ms : Known(m)}
    IN  /\ issues' = issues \ {<<m, c>> : m \in known}
        /\ IF c = "AV_WRITEPIPE" THEN Revived(known, c) ELSE UNCHANGED <<current, slot>>
        /\ UNCHANGED expected

\* processReportMsg of "recover" reports of the category c for the modules ms.
Recover(ms, c) ==
    LET known == {m \in ms : Known(m)}
    IN  /\ issues' = issues \ {<<m, c>> : m \in known}
        /\ Revived(known, c)
        /\ UNCHANGED expected

\* processReportMsg of an "active" report: it becomes an issue when the status
\* it leaves is not the expected one.  What is read and not there is made, and is null:
\* a null status differs from any expectation, and from none at all only when it is set.
Activate(m, c) ==
    IF ~Known(m) THEN UNCHANGED <<expected, slot, current, issues>>
    ELSE /\ current' = IF Level(c, TRUE) = "error" THEN current \ {m} ELSE current
         /\ slot' = [slot EXCEPT ![m] = IF Level(c, TRUE) = "error" THEN "bool"
                                        ELSE IF @ = "none" THEN "null" ELSE @]
         /\ expected' = [expected EXCEPT ![m] = IF @ = "none" THEN "null" ELSE @]
         /\ issues' = IF IF expected'[m] = "null" \/ slot'[m] = "null"
                         THEN expected'[m] # "null" \/ slot'[m] # "null"
                         ELSE (m \in current') # (expected[m] = "on")
                      THEN issues \cup {<<m, c>>} ELSE issues

HandleReport(d) ==
    /\ inbox[d] # <<>> /\ Head(inbox[d]).kind = "report"
    /\ LET r == Head(inbox[d])
       IN  IF r.active THEN Activate(r.mod, r.cat) ELSE Recover({r.mod}, r.cat)
    /\ ReadFrom(d)
    /\ Seen(d)
    /\ UNCHANGED <<listed, mgrTerminal, stray, outrun>>

\* A heartbeat carries an AV_MODOFFLINE "recover" report for each module it lists.
HandlePing(d) ==
    /\ inbox[d] # <<>> /\ Head(inbox[d]).kind = "ping"
    /\ Recover(Head(inbox[d]).mods, "AV_MODOFFLINE")
    /\ ReadFrom(d)
    /\ Seen(d)
    /\ UNCHANGED <<listed, mgrTerminal, stray, outrun>>

HandleMsg(d) == HandleConnection(d) \/ HandleReport(d) \/ HandlePing(d)

--------------------------------------------------------------------------------
(* evcloudsvc: config, buildIpcStatus, loadConfigMap *)

Named(cfg) == {m \in Modules : cfg[m] # "none"}

\* The modules the status has and the configuration has not.
Removed(cfg) == {m \in Modules : slot[m] # "none" /\ cfg[m] = "none"}

\* Mutant of Built: the issues of removed modules stay.
BuiltKeepIssues(cfg) ==
    /\ listed' = (listed \cup Named(cfg)) \ Removed(cfg)
    /\ expected' = cfg
    /\ slot' = [m \in Modules |-> IF cfg[m] = "none" THEN "none"
                                  ELSE IF slot[m] = "none" THEN "bool" ELSE slot[m]]
    /\ current' = {m \in current : cfg[m] = "on"}
    /\ stray' = stray \ (Named(cfg) \cup Removed(cfg))
    /\ UNCHANGED issues

\* A configuration with modules for the camera is merged into its status: modules that
\* are gone lose their entries, new ones are down, one that was up and is disabled is
\* down.  A module that is listed and has no status is not noticed when it is gone.
Built(cfg) ==
    /\ listed' = (listed \cup Named(cfg)) \ Removed(cfg)
    /\ expected' = cfg
    /\ slot' = [m \in Modules |-> IF cfg[m] = "none" THEN "none"
                                  ELSE IF slot[m] = "none" THEN "bool" ELSE slot[m]]
    /\ current' = {m \in current : cfg[m] = "on"}
    /\ issues' = {x \in issues : x[1] \notin Removed(cfg)}
    /\ stray' = stray \ (Named(cfg) \cup Removed(cfg))

\* An exception ends the building after the modules in written have been listed: nothing
\* is merged.
NotBuilt(written) ==
    /\ listed' = listed \cup written
    /\ stray' = stray \cup {m \in written : expected[m] \notin {"on", "off"}}
    /\ UNCHANGED <<expected, slot, current, issues>>

\* What a camera without a serial number leaves of the listing of this one.
Written(cfg, f) == IF f = "before" THEN {} ELSE Named(cfg)

\* buildIpcStatus.  A camera without modules is not in the shadow at all and stays as
\* it was.
BuildIpcStatus(cfg, f) ==
    IF Named(cfg) = {} THEN UNCHANGED status
    ELSE IF f = "none" THEN Built(cfg)
    ELSE NotBuilt(Written(cfg, f))

\* applyClusterCfg accepts the configuration, whatever a camera lacks, and it is saved.
Accepted(cfg, f) ==
    /\ job' = "applied" /\ saved' = cfg /\ flaw' = f
    /\ BuildIpcStatus(cfg, f)

\* It is not saved, or refused for a module without the fields it needs, on which
\* buildIpcStatus, called all the same, may stop as well.
Refused(cfg, f) ==
    /\ job' = "failed" /\ UNCHANGED <<saved, flaw>>
    /\ \/ BuildIpcStatus(cfg, f)
       \/ \E written \in SUBSET Named(cfg) : NotBuilt(written)

\* The tables are copied, the configuration is applied, and buildIpcStatus is
\* called whether that failed or not.
BeginConfig ==
    /\ job = "idle" /\ Event
    /\ copy' = Tables
    /\ \E cfg \in Configs, f \in Flaws : Accepted(cfg, f) \/ Refused(cfg, f)
    /\ UNCHANGED <<device, inbox, online, mgrTerminal, undone, outrun>>

\* The configuration map is saved.
EndConfig ==
    /\ job = "applied"
    /\ job' = "idle" /\ copy' = NoCopy
    /\ UNCHANGED <<device, inbox, tables, saved, flaw, undone, outrun, events>>

\* Something failed, perhaps the saving of the map: the copy is put back, over
\* whatever messages have changed since.  The database is not put back.
UndoConfig ==
    /\ job \in {"applied", "failed"}
    /\ job' = "idle" /\ copy' = NoCopy
    /\ online' = copy.online /\ mgrTerminal' = copy.mgrTerminal
    /\ listed' = copy.listed /\ expected' = copy.expected /\ slot' = copy.slot
    /\ current' = copy.current /\ issues' = copy.issues /\ stray' = copy.stray
    /\ undone' = (undone \/ copy.online # online)
    /\ outrun' = outrun \cup ((copy.current \ current) \ up)
    /\ UNCHANGED <<device, inbox, saved, flaw, events>>

\* loadConfigMap: the status is built anew from the database, if it can be.
LoadConfigMap ==
    /\ listed' = Written(saved, flaw)
    /\ expected' = IF flaw = "none" THEN saved ELSE Nowhere
    /\ slot' = [m \in Modules |-> IF flaw = "none" /\ saved[m] # "none" THEN "bool" ELSE "none"]
    /\ stray' = IF flaw = "after" THEN Named(saved) ELSE {}
    /\ current' = {} /\ issues' = {} /\ mgrTerminal' = FALSE

\* What may be left in the dealer socket of d when its connection ends.
Kept(d) == IF d \in connected THEN {After(d, j) : j \in Cuts(d)} ELSE {pending[d]}

\* evcloudsvc ends and starts again: its socket and the connections are gone,
\* messages on their way are lost or still in the dealer sockets.
Restart ==
    /\ Event
    /\ connected' = {}
    /\ inbox' = [d \in Devices |-> <<>>]
    /\ pending' \in {p \in [Devices -> UNION {Kept(d) : d \in Devices}] :
                        \A d \in Devices : p[d] \in Kept(d)}
    /\ online' = {}
    /\ LoadConfigMap
    /\ job' = "idle" /\ copy' = NoCopy
    /\ undone' = FALSE
    /\ UNCHANGED <<up, beat, saved, flaw, outrun>>

--------------------------------------------------------------------------------
Init ==
    /\ up = {} /\ connected = {}
    /\ beat = [d \in Devices |-> <<>>]
    /\ pending = [d \in Devices |-> <<>>]
    /\ inbox = [d \in Devices |-> <<>>]
    /\ online = {} /\ current = {} /\ issues = {} /\ mgrTerminal = FALSE
    /\ saved = InitConfig /\ flaw = "none"
    /\ listed = Named(InitConfig) /\ expected = InitConfig
    /\ slot = [m \in Modules |-> IF InitConfig[m] = "none" THEN "none" ELSE "bool"]
    /\ job = "idle" /\ copy = NoCopy
    /\ undone = FALSE /\ outrun = {} /\ stray = {}
    /\ events = 0

Next ==
    \/ \E m \in Modules : ModuleUp(m) \/ ModuleDown(m) \/ Relay(m)
    \/ \E d \in Devices :
          \/ ComposeBeat(d) \/ SendBeat(d)
          \/ Connect(d) \/ Drop(d) \/ ResetDealer(d) \/ Reboot(d)
          \/ HandleMsg(d)
    \/ BeginConfig \/ EndConfig \/ UndoConfig
    \/ Restart

Spec == Init /\ [][Next]_vars

\* Fairness: the message thread of the cloud is a loop around a receive that is
\* fair to the connections; the heartbeat thread of evdaemon is a timed loop; the
\* dealer socket reconnects by itself; an HTTP request comes to its end.
FairSpec ==
    /\ Spec
    /\ \A d \in Devices :
          /\ WF_vars(HandleMsg(d))
          /\ WF_vars(ComposeBeat(d) \/ SendBeat(d))
          /\ WF_vars(Connect(d))
    /\ WF_vars(EndConfig \/ UndoConfig)

--------------------------------------------------------------------------------
(* Properties *)

\* The tables and messages have the types the code gives them; evcloudsvc.cpp:585
\* relies on the issues of a manager being filed under its name.
TypeOK ==
    /\ up \subseteq Modules /\ connected \subseteq Devices
    /\ beat \in [Devices -> {<<>>} \cup {<<ms>> : ms \in SUBSET Modules}]
    /\ inbox \in [Devices -> Seq(Frame)]
    /\ pending \in [Devices -> Seq(Frame \ NoteFrame)]
    /\ online \subseteq Devices /\ current \subseteq Modules
    /\ expected \in [Modules -> Wanted \cup {"null"}] /\ saved \in [Modules -> Wanted]
    /\ slot \in [Modules -> {"none", "null", "bool"}]
    /\ listed \subseteq Modules /\ stray \subseteq Modules /\ flaw \in Flaws
    /\ issues \subseteq (Modules \X Categories) \cup {MgrOffline}
    /\ mgrTerminal \in BOOLEAN /\ undone \in BOOLEAN /\ outrun \subseteq Modules
    /\ job \in {"idle", "applied", "failed"}

Notes(d) == {i \in DOMAIN inbox[d] : IsNote(inbox[d][i])}

\* handleConnection tells a connect from a disconnect by its own table only
\* (evcloudsvc.cpp:562), a table that every message of the device also sets (756):
\* unless a failed configuration has put back an old table, the table plus the
\* notifications still unread give the true state of the connection.
OnlineAgrees ==
    ~undone => \A d \in Devices :
        /\ Notes(d) = {} => (d \in online <=> d \in connected)
        /\ \A i \in Notes(d) :
              (\A j \in Notes(d) : i <= j)
                  => (d \in online <=> inbox[d][i].kind = "disconnect")

Quiet(d) == inbox[d] = <<>> /\ d \in connected

\* Heartbeats never say that a module is down (evdaemon.cpp:106), and messages are
\* lost with connections: when everything of the manager has been read, a module of
\* its own that the cloud shows running is up, except one that a heartbeat or a
\* copy put back declared up after its end had been reported.
CurrentIsExplained ==
    ~undone /\ Quiet(Mgr) =>
        \A m \in current \ up : Host[m] = Mgr => m \in outrun

\* While the manager is offline the cloud shows none of its modules running,
\* whatever a failed configuration has put back (evcloudsvc.cpp:605, 542).
OfflineShowsNone ==
    Mgr \notin online => \A m \in current : Host[m] # Mgr

\* Only modules that the status of the camera lists are shown running or have issues, also
\* when a report about a module that was removed arrives late (evcloudsvc.cpp:656, 156):
\* except those that a configuration listed and an exception (evcloudsvc.cpp:175) kept
\* out of the status.
OnlyKnown ==
    /\ \A m \in current \ stray : expected[m] \in {"on", "off"}
    /\ \A x \in issues : x[1] \in Modules \ stray => expected[x[1]] \in {"on", "off"}

\* The issue "manager offline" is shown only of a manager that is offline, unless a
\* copy put back has turned the meaning of the notifications round.
MgrIssueAgrees == ~undone /\ MgrOffline \in issues => Mgr \notin online

\* A module that stays up and stays configured is in the end shown running, without
\* the issue of being offline, and its device online: through lost messages, resets,
\* restarts of either side and configurations put back.
StatusFollows ==
    \A m \in Modules :
        <>[](m \in up /\ expected[m] # "none")
            => <>[](/\ m \in current /\ Host[m] \in online
                    /\ <<m, "AV_MODOFFLINE">> \notin issues)
================================================================================
