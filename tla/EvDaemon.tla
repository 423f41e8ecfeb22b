-------------------------------- MODULE EvDaemon --------------------------------
(***************************************************************************)
(* evdaemon: the supervisor of a device.  It forks one process per module  *)
(* of the cluster configuration that runs on this device, hands each the   *)
(* configuration when it connects, starts it again when it disconnects,    *)
(* and stops and starts modules as new configurations come from the cloud  *)
(* (evdaemon.cpp).                                                         *)
(*                                                                         *)
(* Two threads share the tables without a lock: the router thread          *)
(* (handleEdgeMsg) and the cloud thread (handleCloudMsg); only             *)
(* startSubSystems holds mutSubsystem.  The model cuts the handlers where  *)
(* the other thread can interfere with an effect that matters: between     *)
(* marking a peer up and sending it its configuration, before the lock,    *)
(* and between the operations of a configuration change.                   *)
(*                                                                         *)
(* Every process takes the UDP-port lock of its module while it is being   *)
(* constructed (SingletonProcess), connects, waits for its configuration   *)
(* and only then leaves the constructor, which drops the lock.  The ROUTER *)
(* socket ignores a second connection with an identity it already has.     *)
(***************************************************************************)
EXTENDS Integers, Sequences, FiniteSets

CONSTANTS
    Modules,        \* the modules of this device
    Mgr,            \* evmgr among them: it is not reported to the cloud, and
                    \* is stopped before any change of the configuration
    Settings,       \* the settings of an enabled module
    OffSettings,    \* the settings of a module that is configured but disabled
    Configs,        \* configurations the cloud may send
    InitConfig,     \* the configuration saved on the device at first
    Readable,       \* the modules that reloadCfg gets to in each configuration, all of
                    \* them unless an exception ends it
    Spaced,         \* TRUE: configurations come only when all is quiet, and crashes only
                    \* between the changes they bring
    CrashAtBoot,    \* TRUE: a process may die before it connects
    MaxPids,        \* bound: processes alive at a time
    MaxCrashes,     \* bound: crashes of processes
    MaxReconfigs,   \* bound: configurations received
    MaxMsgs,        \* bound: reports and relayed commands
    MaxReboots      \* bound: crashes of evdaemon

Pids == 1..MaxPids
CfgValues == Settings \cup OffSettings \cup {"absent"}
NoConfig == [m \in Modules |-> "absent"]

ASSUME EvDaemonAssumption ==
    /\ Mgr \in Modules /\ "free" \notin Modules
    /\ Configs \cup {InitConfig} \subseteq [Modules -> CfgValues]
    /\ NoConfig \notin Configs
    /\ Readable \in [Configs \cup {InitConfig, NoConfig} -> SUBSET Modules]
    /\ Readable[InitConfig] = Modules /\ Readable[NoConfig] = Modules
    /\ Settings \cap OffSettings = {}
    /\ (Settings \cup OffSettings) \cap {"absent", "none", "null", "STOP"} = {}
    /\ {MaxPids, MaxCrashes, MaxReconfigs, MaxMsgs, MaxReboots} \subseteq Nat

VARIABLES
    \* the tables of the daemon
    status,      \* peerData["status"]
    enabled,     \* modules whose peerData["enabled"] is 1
    peerConfig,  \* peerData["config"]: the setting, "none" when absent
    config,      \* the newest configuration
    oldConfig,   \* the one before it
    saved,       \* the copy in the local database
    coldStart,   \* bColdStart
    reported,    \* last report about each module sent to the cloud
    \* where the two threads are
    router,      \* the router thread
    cloud,       \* the cloud thread: "idle", "start" or "ops"
    todo,        \* operations of the change under way
    \* the processes and their connections
    procs,       \* the processes alive
    inbox,       \* unread notifications and messages of each identity
    \* history
    missed,      \* modules whose last change of configuration brought no operation
    \* bounds
    crashes, reconfigs, msgs, reboots

tables  == <<status, enabled, peerConfig, config, oldConfig, saved, coldStart, reported>>
threads == <<router, cloud, todo>>
net     == <<procs, inbox>>
bounds  == <<crashes, reconfigs, msgs, reboots>>
vars    == <<status, enabled, peerConfig, config, oldConfig, saved, coldStart, reported,
             router, cloud, todo, procs, inbox, missed, crashes, reconfigs, msgs, reboots>>

--------------------------------------------------------------------------------
(* Processes *)

Free == [mod |-> "free", at |-> "free", attached |-> FALSE, cmds |-> <<>>, cfg |-> "none"]

NewProc(m) == [Free EXCEPT !.mod = m, !.at = "boot"]

ProcsOf(m) == {i \in Pids : procs[i].mod = m}
Attached(m) == {i \in ProcsOf(m) : procs[i].attached}

\* The UDP lock: held from the start of the constructor to its end.
LockHeld(m) == \E i \in ProcsOf(m) : procs[i].at = "waiting"

\* Mutant of IdentityFree: the socket hands an identity over to a new connection.
IdentityOver(m) == TRUE

\* The ROUTER socket is set up without ROUTER_HANDOVER: it keeps an identity until its last message has been read.
IdentityFree(m) == Attached(m) = {} /\ inbox[m] = <<>>

\* fork() puts a process in a free slot.  One that fails leaves what a process leaves that
\* dies before it connects (CrashAtBoot).
Fork(ps, m) ==
    LET i == CHOOSE j \in Pids : ps[j] = Free /\ \A k \in 1..j - 1 : ps[k] # Free
    IN  [ps EXCEPT ![i] = NewProc(m)]

CanFork == \E i \in Pids : procs[i] = Free

\* Fork every module of a set of modules, each into a free slot of its own.
ForkAll(ps, ms) ==
    LET slot == CHOOSE f \in [ms -> Pids] :
                    /\ \A m \in ms : ps[f[m]] = Free
                    /\ \A m, n \in ms : f[m] = f[n] => m = n
    IN  [i \in Pids |-> IF \E m \in ms : slot[m] = i
                        THEN NewProc(CHOOSE m \in ms : slot[m] = i) ELSE ps[i]]

\* Send to an identity: lost unless a live process owns the connection.
SendTo(ps, m, c) ==
    [i \in Pids |-> IF ps[i].mod = m /\ ps[i].attached
                    THEN [ps[i] EXCEPT !.cmds = Append(@, c)] ELSE ps[i]]

\* A process ends: the kernel closes its connection.
Exit(i) ==
    /\ procs' = [procs EXCEPT ![i] = Free]
    /\ inbox' = IF procs[i].attached
                THEN [inbox EXCEPT ![procs[i].mod] = Append(@, "disconnect")]
                ELSE inbox

\* The constructor of a module up to recvConfigMsg: a process that finds the
\* lock taken exits; otherwise it holds the lock and connects.
Boot(i) ==
    LET m == procs[i].mod
    IN  /\ procs[i].at = "boot"
        /\ \/ /\ LockHeld(m)
              /\ Exit(i)
           \/ /\ ~LockHeld(m)
              /\ procs' = [procs EXCEPT ![i].at = "waiting",
                                        ![i].attached = IdentityFree(m)]
              /\ inbox' = IF IdentityFree(m)
                          THEN [inbox EXCEPT ![m] = Append(@, "connect")]
                          ELSE inbox
        /\ UNCHANGED <<tables, threads, missed, bounds>>

\* A message from the daemon: recvConfigMsg drops everything but the
\* configuration; after it, a configuration has no handler and STOP exits.
Receive(i) ==
    LET c == Head(procs[i].cmds)
        rest == [procs EXCEPT ![i].cmds = Tail(@)]
    IN  /\ procs[i].cmds # <<>>
        /\ \/ /\ procs[i].at = "waiting" /\ c = "STOP"
              /\ procs' = rest
              /\ UNCHANGED inbox
           \/ /\ procs[i].at = "waiting" /\ c \in Settings
              /\ procs' = [rest EXCEPT ![i].at = "running", ![i].cfg = c]
              /\ UNCHANGED inbox
           \/ /\ procs[i].at = "running" /\ c # "STOP"
              /\ procs' = rest
              /\ UNCHANGED inbox
           \/ /\ \/ procs[i].at = "running" /\ c = "STOP"
                 \/ procs[i].at = "waiting" /\ c \notin Settings \cup {"STOP"}
              /\ Exit(i)
        /\ UNCHANGED <<tables, threads, missed, bounds>>

Crash(i) ==
    /\ procs[i] # Free
    /\ CrashAtBoot \/ procs[i].attached
    /\ Spaced => cloud = "idle"
    /\ crashes < MaxCrashes
    /\ crashes' = crashes + 1
    /\ Exit(i)
    /\ UNCHANGED <<tables, threads, missed, reconfigs, msgs, reboots>>

\* A running module reports something to the cloud through the daemon.
Report(i) ==
    /\ procs[i].at = "running" /\ procs[i].attached
    /\ msgs < MaxMsgs
    /\ msgs' = msgs + 1
    /\ inbox' = [inbox EXCEPT ![procs[i].mod] = Append(@, "msg")]
    /\ UNCHANGED <<tables, threads, procs, missed, crashes, reconfigs, reboots>>

--------------------------------------------------------------------------------
(* The router thread *)

Idle == [at |-> "idle", mod |-> Mgr, cfg |-> "none"]

Read(m, kinds) ==
    /\ router = Idle
    /\ inbox[m] # <<>>
    /\ Head(inbox[m]) \in kinds
    /\ inbox' = [inbox EXCEPT ![m] = Tail(@)]

\* Mutant of Tell: the test for evmgr inverted.
TellMgrOnly(m, s) == reported' = IF m = Mgr THEN [reported EXCEPT ![m] = s] ELSE reported

\* The reports that a module came up or went; none about evmgr.
Tell(m, s) == reported' = IF m = Mgr THEN reported ELSE [reported EXCEPT ![m] = s]

\* Mutant of MarkDown: the reset is missing.
KeepStatus(m) == UNCHANGED status

MarkDown(m) == status' = [status EXCEPT ![m] = "down"]

\* A notification from a peer that is absent, unknown or down: it is taken for
\* a connect.  Reading the entry of a module that has none creates it ("null").
NotifyUp(m) ==
    /\ Read(m, {"connect", "disconnect"})
    /\ status[m] \in {"absent", "unknown", "down"}
    /\ status' = [status EXCEPT ![m] = "up"]
    /\ Tell(m, "recover")
    /\ peerConfig' = [peerConfig EXCEPT ![m] = IF @ = "none" THEN "null" ELSE @]
    /\ router' = [at |-> "send", mod |-> m, cfg |-> peerConfig'[m]]
    /\ UNCHANGED <<enabled, config, oldConfig, saved, coldStart, cloud, todo, procs,
                   missed, bounds>>

\* ... and its configuration is sent.
SendConfig ==
    /\ router.at = "send"
    /\ procs' = SendTo(procs, router.mod, router.cfg)
    /\ router' = Idle
    /\ UNCHANGED <<tables, cloud, todo, inbox, missed, bounds>>

\* A notification from any other peer is taken for a disconnect; a module that
\* was stopped for good stays stopped, any other is to be started again.
NotifyDown(m) ==
    /\ Read(m, {"connect", "disconnect"})
    /\ status[m] \in {"up", "disabled", "removed"}
    /\ Tell(m, "active")
    /\ \/ /\ status[m] = "up"
          /\ MarkDown(m)
          /\ router' = [at |-> "start", mod |-> m, cfg |-> "none"]
       \/ /\ status[m] # "up"
          /\ UNCHANGED <<status, router>>
    /\ UNCHANGED <<enabled, peerConfig, config, oldConfig, saved, coldStart, cloud, todo,
                   procs, missed, bounds>>

\* Mutants of MayStart: the table of enabled modules or the table of configurations
\* not consulted, or a module that is down not started.
MayStartNotDown(m) ==
    status[m] \notin {"disabled", "removed", "down"} /\ peerConfig[m] # "none" /\ m \in enabled
MayStartDisabled(m) == status[m] \notin {"disabled", "removed"} /\ peerConfig[m] # "none"
MayStartRemoved(m) == status[m] \notin {"disabled", "removed"} /\ m \in enabled

\* The condition under which startSubSystems starts a module of a list.
MayStart(m) ==
    /\ status[m] \notin {"disabled", "removed"}
    /\ peerConfig[m] # "none"
    /\ m \in enabled

\* startSubSystems({m}), once mutSubsystem is free.
StartAgain ==
    LET m == router.mod
    IN  /\ router.at = "start"
        /\ cloud # "ops"
        /\ \/ /\ MayStart(m)
              /\ CanFork
              /\ MarkDown(m)
              /\ procs' = Fork(procs, m)
           \/ /\ ~MayStart(m)
              /\ UNCHANGED <<status, procs>>
        /\ router' = Idle
        /\ UNCHANGED <<enabled, peerConfig, config, oldConfig, saved, coldStart, reported,
                       cloud, todo, inbox, missed, bounds>>

\* A report for the cloud: it marks its sender up, whatever the sender was.
RelayReport(m) ==
    /\ Read(m, {"msg"})
    /\ status' = [status EXCEPT ![m] = "up"]
    /\ UNCHANGED <<enabled, peerConfig, config, oldConfig, saved, coldStart, reported,
                   threads, procs, missed, bounds>>

--------------------------------------------------------------------------------
(* The cloud thread *)

IsOn(c, m) == c[m] \in Settings
Present(c) == {m \in Modules : c[m] # "absent"}

\* What reloadCfg loads of configuration c, and of it what is enabled.
Loaded(c) == Present(c) \cap Readable[c]
On(c) == {m \in Loaded(c) : IsOn(c, m)}

\* reloadCfg: what the tables become under configuration c; a module that it does not
\* have, or that is not got to, keeps its entries.
ReloadedStatus(c) ==
    [m \in Modules |-> IF m \in Loaded(c) /\ status[m] = "absent" THEN "unknown" ELSE status[m]]
ReloadedEnabled(c) == (enabled \cup On(c)) \ {m \in Loaded(c) : c[m] \in OffSettings}
\* Mutant of ReloadedConfig: modules the configuration lacks are not skipped.
ReloadedAll(c) == c
ReloadedConfig(c) ==
    [m \in Modules |-> IF m \in Loaded(c) THEN c[m] ELSE peerConfig[m]]

\* Nothing is under way: no thread is busy, nothing is unread, every process
\* runs, and every module that should run does.
Quiet ==
    /\ router = Idle /\ cloud = "idle"
    /\ \A m \in Modules : inbox[m] = <<>>
    /\ \A i \in Pids : procs[i] # Free => procs[i].at = "running" /\ procs[i].cmds = <<>>
    /\ \A m \in Modules \ missed : IsOn(config, m) => ProcsOf(m) # {}

\* A configuration that differs from the present one is remembered and loaded.
TakeConfig(c) ==
    /\ cloud = "idle"
    /\ reconfigs < MaxReconfigs
    /\ Spaced => Quiet
    /\ c # config \/ coldStart
    /\ reconfigs' = reconfigs + 1
    /\ oldConfig' = config
    /\ config' = c
    /\ status' = ReloadedStatus(c)
    /\ enabled' = ReloadedEnabled(c)
    /\ peerConfig' = ReloadedConfig(c)
    /\ UNCHANGED <<coldStart, reported, router, todo, net, crashes, msgs, reboots>>

\* ... and saved, and startSubSystems is to be called.
RecvConfig(c) ==
    /\ Readable[c] = Modules
    /\ TakeConfig(c)
    /\ saved' = c
    /\ cloud' = "start"
    /\ UNCHANGED missed

\* The loading ends in an exception, or the saving fails: the handler returns.  The same
\* configuration, sent again, does not differ any more.
FailConfig(c) ==
    /\ TakeConfig(c)
    /\ missed' = missed \cup {m \in Modules : config[m] # c[m]}
    /\ UNCHANGED <<saved, cloud>>

\* The modules a cold start forks.
ToColdStart(st, en, pc) ==
    {m \in Modules : pc[m] # "none" /\ m \in en /\ st[m] \in {"absent", "down", "unknown"}}

\* startSubSystems() the first time: start everything that is enabled.
ColdStart ==
    LET ms == ToColdStart(status, enabled, peerConfig)
    IN  /\ cloud = "start"
        /\ coldStart
        /\ status' = [m \in Modules |-> IF m \in ms THEN "down" ELSE status[m]]
        /\ procs' = ForkAll(procs, ms)
        /\ coldStart' = FALSE
        /\ cloud' = "idle"
        /\ missed' = {m \in missed : config[m] = "absent"}
        /\ UNCHANGED <<enabled, peerConfig, config, oldConfig, saved, reported, router, todo,
                       inbox, bounds>>

\* getModulesOperFromConfDiff: the modules that changed, and what the daemon may
\* do with each.  It reads the paths of the difference, so what is done with a
\* module that is now disabled depends on which of its properties changed: the
\* property "enabled" stops it, a property of its camera removes it, and any
\* other property of a module that was disabled already starts it.
Changed == {m \in Modules : oldConfig[m] # config[m]}

\* A class of modules that a known camera gets or loses as a whole has a path that is
\* none of those it reads, and so have all the cameras of a cluster that had none:
\* nothing is done with such modules, and evmgr is not one of them.
Lumped == {m \in Changed \ {Mgr} : oldConfig[m] = "absent" \/ config[m] = "absent"}

Operations(m) ==
    IF config[m] \in Settings THEN {"start"}
    ELSE IF config[m] = "absent" THEN {"remove"}
    ELSE IF oldConfig[m] = "absent" THEN {"stop"}
    ELSE IF oldConfig[m] \in Settings THEN {"stop", "remove"}
    ELSE {"start", "remove"}

\* startSubSystems() later: take the lock; if there is any operation stop evmgr, and go
\* through the operations.
BeginChange ==
    /\ cloud = "start"
    /\ ~coldStart
    /\ \E lost \in SUBSET Lumped :
          /\ todo' = Changed \ lost
          /\ missed' = missed \cup lost
    /\ cloud' = IF todo' = {} THEN "idle" ELSE "ops"
    /\ procs' = IF todo' = {} THEN procs ELSE SendTo(procs, Mgr, "STOP")
    /\ UNCHANGED <<tables, router, inbox, bounds>>

\* Mutant of NotRunningStates: the states of stopped modules forgotten.
NeverStarted == {"absent", "down", "unknown"}

\* The states in which startSubSystems takes a module for "not running".
NotRunningStates == {"absent", "down", "unknown", "disabled", "removed"}

\* One operation; the last one releases the lock.
Disable(m) ==
    /\ status' = [status EXCEPT ![m] = "disabled"]
    /\ procs' = SendTo(procs, m, "STOP")
    /\ UNCHANGED peerConfig
Remove(m) ==
    /\ status' = [status EXCEPT ![m] = "removed"]
    /\ peerConfig' = [peerConfig EXCEPT ![m] = "none"]
    /\ procs' = SendTo(procs, m, "STOP")
StartOrStop(m) ==
    /\ \/ /\ status[m] \in NotRunningStates
          /\ CanFork
          /\ MarkDown(m)
          /\ procs' = Fork(procs, m)
       \/ /\ status[m] \notin NotRunningStates
          /\ procs' = SendTo(procs, m, "STOP")
          /\ UNCHANGED status
    /\ UNCHANGED peerConfig

Operate(m) ==
    /\ cloud = "ops"
    /\ m \in todo
    /\ \/ "stop" \in Operations(m) /\ Disable(m)
       \/ "remove" \in Operations(m) /\ Remove(m)
       \/ "start" \in Operations(m) /\ StartOrStop(m)
    /\ todo' = todo \ {m}
    /\ missed' = missed \ {m}
    /\ cloud' = IF todo = {m} THEN "idle" ELSE "ops"
    /\ UNCHANGED <<enabled, config, oldConfig, saved, coldStart, reported, router, inbox,
                   bounds>>

\* A command from the cloud for one module is relayed unless the module is down.
RelayCmd(m) ==
    /\ cloud = "idle"
    /\ msgs < MaxMsgs
    /\ msgs' = msgs + 1
    /\ status[m] \notin {"absent", "down"}
    /\ procs' = SendTo(procs, m, "STOP")
    /\ UNCHANGED <<tables, threads, inbox, missed, crashes, reconfigs, reboots>>

--------------------------------------------------------------------------------
(* The daemon starts, and starts again after a crash: systemd kills its     *)
(* children with it; the tables are loaded from the saved configuration and *)
(* everything enabled is started before the router socket exists.           *)

BootStatus(c) ==
    [m \in Modules |-> IF m \in On(c) THEN "down"
                       ELSE IF m \in Loaded(c) THEN "unknown" ELSE "absent"]
BootConfig(c) == [m \in Modules |-> IF m \in Loaded(c) THEN c[m] ELSE "none"]
NoProcs == [i \in Pids |-> Free]

Reboot(c) ==
    /\ reboots < MaxReboots
    /\ reboots' = reboots + 1
    /\ status' = BootStatus(c)
    /\ enabled' = On(c)
    /\ peerConfig' = BootConfig(c)
    /\ config' = c
    /\ oldConfig' = NoConfig
    /\ saved' = c
    /\ coldStart' = (c = NoConfig)
    /\ reported' = [m \in Modules |-> "none"]
    /\ router' = Idle
    /\ cloud' = "idle"
    /\ todo' = {}
    /\ procs' = ForkAll(NoProcs, On(c))
    /\ inbox' = [m \in Modules |-> <<>>]
    /\ missed' = Present(c) \ Loaded(c)
    /\ UNCHANGED <<crashes, reconfigs, msgs>>

DaemonCrash == Reboot(saved)

\* A configuration whose operations cannot be computed: the old one is saved
\* and the daemon kills itself.
RejectConfig ==
    /\ cloud = "start"
    /\ ~coldStart
    /\ Reboot(oldConfig)

--------------------------------------------------------------------------------

Init ==
    /\ status = BootStatus(InitConfig)
    /\ enabled = On(InitConfig)
    /\ peerConfig = BootConfig(InitConfig)
    /\ config = InitConfig
    /\ oldConfig = NoConfig
    /\ saved = InitConfig
    /\ coldStart = (InitConfig = NoConfig)
    /\ reported = [m \in Modules |-> "none"]
    /\ router = Idle
    /\ cloud = "idle"
    /\ todo = {}
    /\ procs = ForkAll(NoProcs, On(InitConfig))
    /\ inbox = [m \in Modules |-> <<>>]
    /\ missed = {}
    /\ crashes = 0 /\ reconfigs = 0 /\ msgs = 0 /\ reboots = 0

ReadInbox(m) == NotifyUp(m) \/ NotifyDown(m) \/ RelayReport(m)
RouterStep == SendConfig \/ StartAgain
CloudStep == ColdStart \/ BeginChange \/ \E m \in Modules : Operate(m)
ProcStep(i) == Boot(i) \/ Receive(i)

Next ==
    \/ \E m \in Modules : ReadInbox(m)
    \/ RouterStep
    \/ CloudStep
    \/ \E i \in Pids : ProcStep(i) \/ Crash(i) \/ Report(i)
    \/ \E c \in Configs : RecvConfig(c) \/ FailConfig(c)
    \/ \E m \in Modules : RelayCmd(m)
    \/ DaemonCrash
    \/ RejectConfig

Spec == Init /\ [][Next]_vars

\* The two threads never stop, and the operating system runs every process.
FairSpec ==
    /\ Spec
    /\ \A m \in Modules : WF_vars(ReadInbox(m))
    /\ WF_vars(RouterStep)
    /\ WF_vars(CloudStep)
    /\ \A i \in Pids : WF_vars(ProcStep(i))
--------------------------------------------------------------------------------
(* Properties *)

Stages == {"boot", "waiting", "running"}
Commands == CfgValues \cup {"none", "null", "STOP"}

Proc == {Free} \cup [mod : Modules, at : Stages, attached : BOOLEAN,
                      cmds : Seq(Commands), cfg : Settings \cup {"none"}]

\* Types; a slot is free or holds a process of a module.
TypeOK ==
    /\ status \in [Modules -> {"absent", "unknown", "down", "up", "disabled", "removed"}]
    /\ enabled \subseteq Modules
    /\ peerConfig \in [Modules -> (CfgValues \ {"absent"}) \cup {"none", "null"}]
    /\ {config, oldConfig, saved} \subseteq Configs \cup {InitConfig, NoConfig}
    /\ coldStart \in BOOLEAN
    /\ reported \in [Modules -> {"none", "recover", "active"}]
    /\ router \in [at : {"idle", "send", "start"}, mod : Modules, cfg : Commands]
    /\ cloud \in {"idle", "start", "ops"}
    /\ todo \subseteq Modules
    /\ procs \in [Pids -> Proc]
    /\ inbox \in [Modules -> Seq({"connect", "disconnect", "msg"})]
    /\ missed \subseteq Modules

\* While the configuration stands, the daemon's toggle agrees with the connections:
\* a connect is read only from a module it takes to be down, a disconnect or a
\* report only from one it takes to be up.
StatusAgrees ==
    \A m \in Modules :
        status[m] = "up" <=> IF inbox[m] = <<>> THEN Attached(m) # {}
                             ELSE Head(inbox[m]) # "connect"

\* While the configuration stands, no module is ever forked while a process of it
\* is alive.
OneProcess == \A m \in Modules : Cardinality(ProcsOf(m)) <= 1

\* The cloud was last told that a module recovered exactly while the daemon takes
\* the module to be up.
ReportAgrees ==
    \A m \in Modules \ {Mgr} : status[m] = "up" <=> reported[m] = "recover"

\* Whatever crashes, every enabled module ends up running its configuration.
EveryModuleRuns ==
    \A m \in Modules :
        <>[](IsOn(config, m) =>
                \E i \in ProcsOf(m) : procs[i].at = "running" /\ procs[i].cfg = config[m])

\* No thread is busy, nothing is unread and no process has anything to do.
AtRest ==
    /\ router = Idle /\ cloud = "idle"
    /\ \A m \in Modules : inbox[m] = <<>>
    /\ \A i \in Pids : procs[i].at # "boot" /\ procs[i].cmds = <<>>

\* When nothing is left to do after a change of the configuration, each enabled module
\* has exactly one process, running the newest settings, and no other module has any:
\* except modules whose last change was never carried out, because the configuration was
\* not loaded or saved (evdaemon.cpp:735) or its path is not read (utils.cpp:535).  Also
\* these have at most one process, that runs, and the cloud was last told so.
RestIsAsConfigured ==
    AtRest =>
        \A m \in Modules :
            /\ m \notin missed =>
                  IF IsOn(config, m)
                  THEN ProcsOf(m) # {} /\ \A i \in ProcsOf(m) : procs[i].cfg = config[m]
                  ELSE ProcsOf(m) = {}
            /\ Cardinality(ProcsOf(m)) <= 1 /\ \A i \in ProcsOf(m) : procs[i].at = "running"
            /\ m # Mgr => (reported[m] = "recover" <=> ProcsOf(m) # {})

\* ... and nothing is left to do before long.
RestIsReached == []<>AtRest

Forked(m) == \E i \in Pids : procs[i] = Free /\ procs'[i] = NewProc(m)

\* Once a configuration has been carried out, no crash, stale notification or late
\* report makes the daemon start a module that it disables or does not have, unless
\* nothing was done with the module when that was changed.
ForkOnlyWanted ==
    [][\A m \in Modules : Forked(m) /\ cloud = "idle" /\ cloud' = "idle"
          => IsOn(config', m) \/ m \in missed]_vars

\* However changes, crashes and reports are interleaved, a crash never makes the
\* daemon start a module that the configuration disables, unless nothing was done with
\* the module when that was changed.
RestartOnlyEnabled ==
    [][\A m \in Modules : Forked(m) /\ cloud # "ops"
          => config'[m] \notin OffSettings \/ m \in missed']_vars

\* However changes, crashes and reports are interleaved, two processes of a module
\* never work at the same time.
OneRunning ==
    \A m \in Modules : Cardinality({i \in ProcsOf(m) : procs[i].at = "running"}) <= 1

\* Disputed: a second instance of a module that is running ignores itself ("already
\* running. ignore this instance", the constructors of the modules).
SecondInstanceExits ==
    \A i, j \in Pids :
        (i # j /\ procs[i].mod = procs[j].mod /\ procs[i].at = "running")
            => procs[j].at # "waiting"

\* Disputed: the daemon refuses to start again a module that was "removed from cluster
\* config" (log of handleEdgeMsg, and "perm stop" in startSubSystems).  A module that
\* startSubSystems never removed is not meant.
RemovedNotForked ==
    [][\A m \in Modules \ missed : Forked(m) /\ cloud = "idle" /\ cloud' = "idle"
          => config'[m] # "absent"]_vars
================================================================================
