------------------------------ MODULE CloudConfig ------------------------------
(***************************************************************************)
(* evcloudsvc: the configurations of the clusters, the tables made from    *)
(* them, the database behind both, and what each device is sent            *)
(* (evcloudsvc.cpp).                                                       *)
(*                                                                         *)
(* A cluster is named by the device that manages it and has one camera,    *)
(* with at most one module of a class.  A device is sent the whole         *)
(* configuration of every cluster that one of its modules belongs to.      *)
(*                                                                         *)
(* POST /config works through the clusters of a request one by one while   *)
(* the message thread answers devices that connect, and puts a copy of all *)
(* tables back when something fails.  The model handles one such request   *)
(* at a time; POST /delete may come at any time.  A request with a patch   *)
(* is one whose body was made from what getConfigForDevice gave before.    *)
(***************************************************************************)
EXTENDS Naturals, Sequences, FiniteSets

CONSTANTS
    Devices,       \* serial numbers; those of managers name the clusters
    Classes,       \* classes of modules
    Settings,      \* settings of a module
    Empty,         \* no configuration, in a table or in a request
    Requests,      \* bodies of POST /config: some clusters, to a configuration or Empty
    MaxRequests,   \* bound: requests
    MaxDeletes,    \* bound: deletions
    MaxFaults      \* bound: lost connections and restarts of evcloudsvc

Absent == <<>>    \* no module of a class, no cluster for it

\* A configuration: the device and the settings of the module of each class, and whether
\* every module has the fields it needs.
Config == [mod : [Classes -> (Devices \X Settings) \cup {Absent}], valid : BOOLEAN]

ASSUME CloudConfigAssumption ==
    /\ Absent \notin Devices /\ Empty \notin Config
    /\ \A r \in Requests : /\ DOMAIN r \subseteq Devices
                           /\ \A k \in DOMAIN r : r[k] \in Config \cup {Empty}
    /\ {MaxRequests, MaxDeletes, MaxFaults} \subseteq Nat

VARIABLES
    tables,      \* configMap and peerData: the fields are those of Tables
    savedMap,    \* configMap in the database
    savedConfig, \* the configurations in the database
    job,         \* the request in progress, or Idle
    \* the devices
    connected,
    inbox,       \* what the cloud has not read of a device
    got,         \* the configuration an evdaemon has
    \* history
    misread,     \* devices whose mark "online" was put back or erased
    untold,      \* devices whose modules changed, or were forgotten, without a message
    unsure,      \* clusters of requests that were refused, or deleted, or not loaded
    mapUnsure,   \* the map was not saved with a deletion
    counts       \* requests, deletions and faults so far

vars == <<tables, savedMap, savedConfig, job, connected, inbox, got, misread, untold,
          unsure, mapUnsure, counts>>
history == <<misread, untold, unsure, mapUnsure, counts>>

\* sn2mods by class, mod2mgr, the clusters in configMap, peerData's config and online.
Tables == [sn2mods : [Devices -> SUBSET Classes],
           mod2mgr : [Devices \X Classes -> Devices \cup {Absent}],
           known : SUBSET Devices,
           config : [Devices -> Config \cup {Empty}],
           online : SUBSET Devices]

NoTables == [sn2mods |-> [d \in Devices |-> {}],
             mod2mgr |-> [m \in Devices \X Classes |-> Absent],
             known |-> {},
             config |-> [k \in Devices |-> Empty],
             online |-> {}]

Idle == [body |-> <<>>, left |-> {}, failed |-> FALSE, delta |-> {}, quiet |-> {},
         early |-> {}, gone |-> {}, copy |-> NoTables]
Busy == job # Idle

MapOf(t) == [sn2mods |-> t.sn2mods, mod2mgr |-> t.mod2mgr, known |-> t.known]

Count(what, max) == counts[what] < max /\ counts' = [counts EXCEPT ![what] = @ + 1]

--------------------------------------------------------------------------------
(* What a device is sent *)

\* getConfigForDevice: the configurations of the clusters its modules belong to.
ConfigForDevice(t, d) ==
    [k \in {t.mod2mgr[<<d, c>>] : c \in t.sn2mods[d]} \cap {k \in Devices : t.config[k] # Empty}
        |-> t.config[k]]

\* sendConfig reaches a device that is connected; an evdaemon ignores a configuration
\* of size 0.
Reached(t, ds) == {d \in ds \cap connected : DOMAIN ConfigForDevice(t, d) # {}}

Sent(t, ds) ==
    /\ got' = [d \in Devices |-> IF d \in Reached(t, ds) THEN ConfigForDevice(t, d) ELSE got[d]]
    /\ untold' = (untold \cup job.quiet) \ Reached(t, ds)

\* What a device carries out of the configurations it has: its own modules.
OwnPart(cfgs, d) ==
    UNION {{<<k, c, cfgs[k].mod[c]>> :
              c \in {c \in Classes : cfgs[k].mod[c] # Absent /\ cfgs[k].mod[c][1] = d}} :
           k \in DOMAIN cfgs}

--------------------------------------------------------------------------------
(* POST /config *)

\* The devices of the modules of a configuration.
On(v) == {v.mod[c][1] : c \in {c \in Classes : v.mod[c] # Absent}}

Present(v, w, c) == v.mod[c] # Absent /\ w.mod[c] # Absent

\* Mutant of Changed: a module that moves is told to its new device only.
ChangedNew(old, v) ==
    {v.mod[c][1] : c \in {c \in Classes : Present(old, v, c) /\ old.mod[c] # v.mod[c]}}

\* getModulesOperFromConfDiff by the devices of the modules it names: of a cluster
\* without a configuration all of them and the manager, and otherwise those whose
\* settings or device changed.  A class that comes or goes is a path it does not know.
Changed(old, v) ==
    UNION {{old.mod[c][1], v.mod[c][1]} :
              c \in {c \in Classes : Present(old, v, c) /\ old.mod[c] # v.mod[c]}}

Delta(k, old, v) ==
    IF old = v THEN {k} ELSE IF old = Empty THEN {k} \cup On(v) ELSE Changed(old, v)

\* The devices of modules that come or go in a known cluster, or that the map gives to
\* another cluster or, after a deletion, to none.
Quiet(k, old, v) ==
    LET Comes(a, b) == {a.mod[c][1] : c \in {c \in Classes : a.mod[c] # Absent /\ b.mod[c] = Absent}}
    IN  (IF old = Empty THEN {} ELSE Comes(old, v) \cup Comes(v, old))
        \cup {v.mod[c][1] : c \in {c \in Classes :
                 v.mod[c] # Absent /\ tables.mod2mgr[<<v.mod[c][1], c>>] # k}}

Begin ==
    /\ ~Busy
    /\ Count("requests", MaxRequests)
    /\ \E r \in Requests :
          job' = [Idle EXCEPT !.body = r, !.left = DOMAIN r, !.copy = tables]
    /\ UNCHANGED <<tables, savedMap, savedConfig, connected, inbox, got, misread, untold,
                   unsure, mapUnsure>>

\* A cluster that is in one table and not in the other is forgotten.
Reconciled(k) ==
    IF k \in tables.known <=> tables.config[k] # Empty THEN tables
    ELSE [tables EXCEPT !.known = @ \ {k}, !.config = [tables.config EXCEPT ![k] = Empty]]

\* The devices of a cluster that is forgotten: nothing is sent to them.
Forgotten(k) ==
    IF Reconciled(k).config[k] = tables.config[k] THEN {}
    ELSE {d \in Devices : \E c \in Classes : tables.mod2mgr[<<d, c>>] = k}

\* applyClusterCfg for the modules of some classes: nothing is ever taken out.
WithModules(t, k, v, cs) ==
    [t EXCEPT
        !.sn2mods = [d \in Devices |-> @[d] \cup {c \in cs : v.mod[c] # Absent /\ v.mod[c][1] = d}],
        !.mod2mgr = [m \in Devices \X Classes |->
            IF m[2] \in cs /\ v.mod[m[2]] # Absent /\ v.mod[m[2]][1] = m[1] THEN k ELSE @[m]]]

\* A module without a field it needs: those before it are in the tables.
Refuse(k, v) ==
    /\ ~v.valid
    /\ \E cs \in SUBSET Classes :
          tables' = WithModules([Reconciled(k) EXCEPT !.known = @ \cup {k}], k, v, cs)
    /\ job' = [job EXCEPT !.left = {}, !.failed = TRUE]
    /\ UNCHANGED savedConfig

\* The cluster is in the tables, and then in the database, unless that fails.
Accept(k, v) ==
    /\ v.valid
    /\ LET t == Reconciled(k)
           told == [job EXCEPT !.left = @ \ {k}, !.delta = @ \cup Delta(k, t.config[k], v),
                               !.quiet = @ \cup Quiet(k, t.config[k], v) \cup Forgotten(k)]
           entered == [t EXCEPT !.known = @ \cup {k}, !.config = [t.config EXCEPT ![k] = v]]
       IN  /\ tables' = WithModules(entered, k, v, Classes)
           /\ \/ savedConfig' = [savedConfig EXCEPT ![k] = v] /\ job' = told
              \/ UNCHANGED savedConfig /\ job' = [told EXCEPT !.failed = TRUE]

\* The next cluster of the request, one without a configuration being passed over.
ApplyCluster ==
    /\ \E k \in job.left :
          \/ /\ job.body[k] = Empty
             /\ tables' = Reconciled(k)
             /\ job' = [job EXCEPT !.left = @ \ {k}, !.quiet = @ \cup Forgotten(k)]
             /\ UNCHANGED savedConfig
          \/ job.body[k] # Empty /\ (Refuse(k, job.body[k]) \/ Accept(k, job.body[k]))
    /\ UNCHANGED <<savedMap, connected, inbox, got, history>>

\* The map is saved, and the devices of modules that changed are sent what they need.
Complete ==
    /\ Busy /\ job.left = {} /\ ~job.failed
    /\ savedMap' = MapOf(tables)
    /\ Sent(tables, job.delta)
    /\ unsure' = (unsure \ {k \in DOMAIN job.body : job.body[k] # Empty}) \cup job.gone
    /\ mapUnsure' = FALSE
    /\ job' = Idle
    /\ UNCHANGED <<tables, savedConfig, connected, inbox, misread, counts>>

\* Mutant of PutBack: only the configurations are put back.
PutBackConfig == [tables EXCEPT !.config = job.copy.config]

PutBack == job.copy

\* Something failed, perhaps the saving of the map: the tables are as they were, with the
\* marks of the devices that came or went meanwhile, and not the database.
Undo ==
    /\ Busy /\ job.left = {}
    /\ tables' = PutBack
    /\ misread' = misread \cup (job.copy.online \ tables.online) \cup (tables.online \ job.copy.online)
    /\ untold' = untold \cup job.early
    /\ unsure' = unsure \cup DOMAIN job.body
    /\ job' = Idle
    /\ UNCHANGED <<savedMap, savedConfig, connected, inbox, got, mapUnsure, counts>>

--------------------------------------------------------------------------------
(* POST /delete *)

\* The device is taken out of every table; modules of its cluster on other devices stay.
Removed(sn) ==
    [sn2mods |-> [tables.sn2mods EXCEPT ![sn] = {}],
     mod2mgr |-> [m \in Devices \X Classes |-> IF m[1] = sn THEN Absent ELSE tables.mod2mgr[m]],
     known |-> tables.known \ {sn},
     config |-> [tables.config EXCEPT ![sn] = Empty],
     online |-> tables.online \ {sn}]

\* The configuration stays in the database; whether the map is saved is not looked at.
Delete(sn) ==
    /\ \E d \in Devices : tables.sn2mods[d] # {}
    /\ Count("deletes", MaxDeletes)
    /\ tables' = Removed(sn)
    /\ savedMap' \in {savedMap, MapOf(tables')}
    /\ misread' = misread \cup {sn}
    /\ untold' = untold \cup {sn}
                      \cup {d \in Devices : \E c \in Classes : tables.mod2mgr[<<d, c>>] = sn}
    /\ unsure' = unsure \cup {sn}
    /\ job' = IF Busy THEN [job EXCEPT !.gone = @ \cup {sn}] ELSE job
    /\ mapUnsure' = (mapUnsure \/ Busy \/ savedMap' # MapOf(tables'))
    /\ UNCHANGED <<savedConfig, connected, inbox, got>>

--------------------------------------------------------------------------------
(* The devices and the message thread *)

Connect(d) ==
    /\ d \notin connected
    /\ connected' = connected \cup {d}
    /\ inbox' = [inbox EXCEPT ![d] = Append(@, "note")]
    /\ UNCHANGED <<tables, savedMap, savedConfig, job, got, history>>

Disconnect(d) ==
    /\ d \in connected
    /\ Count("faults", MaxFaults)
    /\ connected' = connected \ {d}
    /\ inbox' = [inbox EXCEPT ![d] = Append(@, "note")]
    /\ UNCHANGED <<tables, savedMap, savedConfig, job, got, misread, untold, unsure, mapUnsure>>

\* handleConnection: a device that was not online is sent its configuration.
HandleConnection(d) ==
    /\ inbox[d] # <<>>
    /\ inbox' = [inbox EXCEPT ![d] = Tail(@)]
    /\ \/ /\ d \notin tables.online
          /\ tables' = [tables EXCEPT !.online = @ \cup {d}]
          /\ Sent(tables, {d})
          /\ job' = IF Busy THEN [job EXCEPT !.early = @ \cup {d}] ELSE job
       \/ /\ d \in tables.online
          /\ tables' = [tables EXCEPT !.online = @ \ {d}]
          /\ UNCHANGED <<got, untold, job>>
    /\ UNCHANGED <<savedMap, savedConfig, connected, misread, unsure, mapUnsure, counts>>

\* The heartbeat of a device marks it online.
Heartbeat(d) ==
    /\ d \in connected /\ inbox[d] = <<>>
    /\ tables' = [tables EXCEPT !.online = @ \cup {d}]
    /\ UNCHANGED <<savedMap, savedConfig, job, connected, inbox, got, history>>

\* loadConfigMap: the configurations of the devices that run a module are read.
Loaded ==
    [sn2mods |-> savedMap.sn2mods, mod2mgr |-> savedMap.mod2mgr, known |-> savedMap.known,
     config |-> [k \in Devices |-> IF savedMap.sn2mods[k] # {} THEN savedConfig[k] ELSE Empty],
     online |-> {}]

\* evcloudsvc ends, in the middle of a request perhaps, and starts again.
Restart ==
    /\ Count("faults", MaxFaults)
    /\ tables' = Loaded
    /\ job' = Idle
    /\ connected' = {}
    /\ inbox' = [d \in Devices |-> <<>>]
    /\ misread' = {}
    /\ untold' = untold \cup {d \in Devices : DOMAIN ConfigForDevice(Loaded, d) = {}}
    /\ unsure' = unsure \cup (IF Busy THEN DOMAIN job.body ELSE {})
                       \cup {k \in Devices : Loaded.config[k] # savedConfig[k]}
    /\ mapUnsure' = FALSE
    /\ UNCHANGED <<savedMap, savedConfig, got>>

--------------------------------------------------------------------------------

Init ==
    /\ tables = NoTables
    /\ savedMap = MapOf(NoTables) /\ savedConfig = NoTables.config
    /\ job = Idle
    /\ connected = {} /\ inbox = [d \in Devices |-> <<>>]
    /\ got = [d \in Devices |-> <<>>]
    /\ misread = {} /\ untold = {} /\ unsure = {} /\ mapUnsure = FALSE
    /\ counts = [requests |-> 0, deletes |-> 0, faults |-> 0]

Next ==
    \/ Begin \/ ApplyCluster \/ Complete \/ Undo
    \/ \E d \in Devices :
          \/ Delete(d)
          \/ Connect(d) \/ Disconnect(d) \/ HandleConnection(d) \/ Heartbeat(d)
    \/ Restart

Spec == Init /\ [][Next]_vars

--------------------------------------------------------------------------------
(* Properties *)

\* A connected device whose notifications are read has the configuration of its own
\* modules that the cloud has now, whatever was refused, undone or restarted: unless
\* a class of modules came or went, its cluster was forgotten, it was given a
\* configuration that was undone, or its mark "online" was changed under it
\* (evcloudsvc.cpp:526, 442, 562, 541).
DevicesFollow ==
    ~Busy => \A d \in connected \ (misread \cup untold) :
        inbox[d] = <<>> /\ DOMAIN ConfigForDevice(tables, d) # {}
            => OwnPart(got[d], d) = OwnPart(ConfigForDevice(tables, d), d)

\* Between requests a restart brings back what is in memory: the map, and every
\* configuration of a cluster whose manager runs a module, unless the last request
\* about the cluster was refused half way, it was deleted, or a restart did not load
\* its configuration (evcloudsvc.cpp:504, 519, 541, 205).
RestartKeeps ==
    ~Busy =>
        /\ ~mapUnsure => savedMap = MapOf(tables)
        /\ \A k \in Devices \ unsure :
              tables.sn2mods[k] # {} => Loaded.config[k] = tables.config[k]
================================================================================
