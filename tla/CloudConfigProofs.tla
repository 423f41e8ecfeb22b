--------------------------- MODULE CloudConfigProofs ---------------------------
(***************************************************************************)
(* What evcloudsvc keeps of the configurations of the clusters over a      *)
(* restart, and what the devices have of them, for any number of clusters, *)
(* devices, classes, requests, deletions, lost connections and restarts.   *)
(***************************************************************************)
EXTENDS CloudConfig, SequenceTheorems, TLAPS

--------------------------------------------------------------------------------
(* Types, and what the operations do to the tables.  *)

Maps == [sn2mods : [Devices -> SUBSET Classes],
         mod2mgr : [Devices \X Classes -> Devices \cup {Absent}],
         known : SUBSET Devices]

AllBodies == Requests \cup {<<>>}

Jobs == [body : AllBodies, left : SUBSET Devices, failed : BOOLEAN, delta : SUBSET Devices,
         quiet : SUBSET Devices, early : SUBSET Devices, gone : SUBSET Devices,
         copy : Tables]

StoreTypes ==
    /\ tables \in Tables
    /\ savedMap \in Maps
    /\ savedConfig \in [Devices -> Config \cup {Empty}]
    /\ job \in Jobs /\ job.left \subseteq DOMAIN job.body
    /\ unsure \in SUBSET Devices

\* A request names clusters, and gives each a configuration or none.
LEMMA BodyTypes ==
    ASSUME NEW r \in AllBodies
    PROVE  /\ DOMAIN r \subseteq Devices
           /\ \A k \in DOMAIN r : r[k] \in Config \cup {Empty}
<1>1. CASE r \in Requests
  BY <1>1, CloudConfigAssumption
<1>2. CASE r = <<>>
  <2>1. DOMAIN r = {}
    BY <1>2
  <2>2. QED
    BY <2>1
<1>3. QED
  BY <1>1, <1>2 DEF AllBodies

\* Reconciling touches the one cluster, and not if it is known and has a configuration.
LEMMA ReconciledIs ==
    ASSUME tables \in Tables, NEW k \in Devices
    PROVE  /\ Reconciled(k) \in Tables
           /\ Reconciled(k).sn2mods = tables.sn2mods
           /\ Reconciled(k).mod2mgr = tables.mod2mgr
           /\ Reconciled(k).online = tables.online
           /\ \A j \in Devices : j # k => /\ Reconciled(k).config[j] = tables.config[j]
                                          /\ j \in Reconciled(k).known <=> j \in tables.known
           /\ Reconciled(k).config[k] \in {tables.config[k], Empty}
           /\ Reconciled(k).config[k] # Empty => k \in Reconciled(k).known
           /\ k \in tables.known => Reconciled(k).config[k] = tables.config[k]
           /\ Forgotten(k) = {} \/ Reconciled(k).config[k] = Empty
<1>1. Empty \in Config \cup {Empty}
  OBVIOUS
<1>2. CASE k \in tables.known <=> tables.config[k] # Empty
  BY <1>2 DEF Reconciled, Forgotten
<1>3. CASE ~(k \in tables.known <=> tables.config[k] # Empty)
  <2>1. Reconciled(k) = [tables EXCEPT !.known = tables.known \ {k},
                                       !.config = [tables.config EXCEPT ![k] = Empty]]
    BY <1>3 DEF Reconciled
  <2>2. QED
    BY <2>1, <1>1, <1>3 DEF Tables, Forgotten
<1>4. QED
  BY <1>2, <1>3

\* The modules of a configuration on a device.
ModulesOn(v, d, cs) == {c \in cs : v.mod[c] # Absent /\ v.mod[c][1] = d}

\* Entering modules adds them to the map, and takes nothing out.
LEMMA WithModulesIs ==
    ASSUME NEW t \in Tables, NEW k \in Devices, NEW v \in Config, NEW cs \in SUBSET Classes
    PROVE  /\ WithModules(t, k, v, cs) \in Tables
           /\ WithModules(t, k, v, cs).known = t.known
           /\ WithModules(t, k, v, cs).config = t.config
           /\ WithModules(t, k, v, cs).online = t.online
           /\ \A d \in Devices : WithModules(t, k, v, cs).sn2mods[d]
                  = t.sn2mods[d] \cup ModulesOn(v, d, cs)
           /\ \A d \in Devices, c \in Classes : WithModules(t, k, v, cs).mod2mgr[<<d, c>>]
                  = IF c \in ModulesOn(v, d, cs) THEN k ELSE t.mod2mgr[<<d, c>>]
<1> DEFINE sm == [d \in Devices |-> t.sn2mods[d] \cup
                    {c \in cs : v.mod[c] # Absent /\ v.mod[c][1] = d}]
           mm == [m \in Devices \X Classes |->
                    IF m[2] \in cs /\ v.mod[m[2]] # Absent /\ v.mod[m[2]][1] = m[1]
                    THEN k ELSE t.mod2mgr[m]]
<1>1. WithModules(t, k, v, cs) = [t EXCEPT !.sn2mods = sm, !.mod2mgr = mm]
  BY DEF WithModules
<1>2. sm \in [Devices -> SUBSET Classes]
  BY DEF Tables
<1>3. mm \in [Devices \X Classes -> Devices \cup {Absent}]
  BY DEF Tables
<1>4. \A d \in Devices : sm[d] = t.sn2mods[d] \cup ModulesOn(v, d, cs)
  BY DEF ModulesOn
<1>5. ASSUME NEW d \in Devices, NEW c \in Classes
      PROVE  mm[<<d, c>>] = IF c \in ModulesOn(v, d, cs) THEN k ELSE t.mod2mgr[<<d, c>>]
  <2>1. <<d, c>> \in Devices \X Classes /\ <<d, c>>[1] = d /\ <<d, c>>[2] = c
    OBVIOUS
  <2>2. QED
    BY <2>1 DEF ModulesOn
<1> HIDE DEF sm, mm
<1>6. QED
  BY <1>1, <1>2, <1>3, <1>4, <1>5 DEF Tables

\* A cluster that is entered with its configuration.
Entered(k, v) ==
    [Reconciled(k) EXCEPT !.known = @ \cup {k}, !.config = [Reconciled(k).config EXCEPT ![k] = v]]

LEMMA EnteredIs ==
    ASSUME tables \in Tables, NEW k \in Devices, NEW v \in Config
    PROVE  /\ Entered(k, v) \in Tables
           /\ Entered(k, v).sn2mods = tables.sn2mods
           /\ Entered(k, v).mod2mgr = tables.mod2mgr
           /\ Entered(k, v).online = tables.online
           /\ k \in Entered(k, v).known /\ Entered(k, v).config[k] = v
           /\ \A j \in Devices : j # k => /\ Entered(k, v).config[j] = tables.config[j]
                                          /\ j \in Entered(k, v).known <=> j \in tables.known
<1> DEFINE r == Reconciled(k)
           cf == [r.config EXCEPT ![k] = v]
           kn == r.known \cup {k}
<1>1. /\ r \in Tables /\ r.sn2mods = tables.sn2mods /\ r.mod2mgr = tables.mod2mgr
      /\ r.online = tables.online
      /\ \A j \in Devices : j # k => /\ r.config[j] = tables.config[j]
                                     /\ j \in r.known <=> j \in tables.known
  BY ReconciledIs
<1> HIDE DEF r
<1>2. Entered(k, v) = [r EXCEPT !.known = kn, !.config = cf]
  BY DEF Entered, r
<1>3. /\ cf \in [Devices -> Config \cup {Empty}] /\ cf[k] = v
      /\ \A j \in Devices : j # k => cf[j] = tables.config[j]
  BY <1>1 DEF Tables
<1>4. kn \in SUBSET Devices /\ k \in kn
      /\ \A j \in Devices : j # k => (j \in kn <=> j \in tables.known)
  BY <1>1 DEF Tables
<1> HIDE DEF cf, kn
<1>5. /\ Entered(k, v).sn2mods = r.sn2mods /\ Entered(k, v).mod2mgr = r.mod2mgr
      /\ Entered(k, v).online = r.online /\ Entered(k, v).config = cf
      /\ Entered(k, v).known = kn
  BY <1>1, <1>2 DEF Tables
<1>6. Entered(k, v) \in Tables
  BY <1>1, <1>2, <1>3, <1>4 DEF Tables
<1>7. QED
  BY <1>1, <1>3, <1>4, <1>5, <1>6

\* A cluster that is accepted, with its modules.
LEMMA AcceptedIs ==
    ASSUME tables \in Tables, NEW k \in Devices, NEW v \in Config
    PROVE  LET u == WithModules(Entered(k, v), k, v, Classes)
           IN  /\ u \in Tables /\ k \in u.known /\ u.config[k] = v /\ u.online = tables.online
               /\ \A j \in Devices : j # k => /\ u.config[j] = tables.config[j]
                                              /\ j \in u.known <=> j \in tables.known
               /\ \A d \in Devices :
                     u.sn2mods[d] = tables.sn2mods[d] \cup ModulesOn(v, d, Classes)
               /\ \A d \in Devices, c \in Classes : u.mod2mgr[<<d, c>>]
                     = IF c \in ModulesOn(v, d, Classes) THEN k ELSE tables.mod2mgr[<<d, c>>]
<1> DEFINE e == Entered(k, v)
           u == WithModules(e, k, v, Classes)
<1>1. /\ e \in Tables /\ e.sn2mods = tables.sn2mods /\ e.mod2mgr = tables.mod2mgr
      /\ e.online = tables.online
      /\ k \in e.known /\ e.config[k] = v
      /\ \A j \in Devices : j # k => /\ e.config[j] = tables.config[j]
                                     /\ j \in e.known <=> j \in tables.known
  BY EnteredIs
<1> HIDE DEF e
<1>2. /\ u \in Tables /\ u.config = e.config /\ u.known = e.known /\ u.online = e.online
      /\ \A d \in Devices : u.sn2mods[d] = e.sn2mods[d] \cup ModulesOn(v, d, Classes)
      /\ \A d \in Devices, c \in Classes : u.mod2mgr[<<d, c>>]
            = IF c \in ModulesOn(v, d, Classes) THEN k ELSE e.mod2mgr[<<d, c>>]
  <2>1. Classes \in SUBSET Classes
    OBVIOUS
  <2>2. QED
    BY <1>1, <2>1, WithModulesIs
<1> HIDE DEF u
<1>3. /\ u \in Tables /\ k \in u.known /\ u.config[k] = v /\ u.online = tables.online
      /\ \A j \in Devices : j # k => /\ u.config[j] = tables.config[j]
                                     /\ j \in u.known <=> j \in tables.known
      /\ \A d \in Devices : u.sn2mods[d] = tables.sn2mods[d] \cup ModulesOn(v, d, Classes)
      /\ \A d \in Devices, c \in Classes : u.mod2mgr[<<d, c>>]
            = IF c \in ModulesOn(v, d, Classes) THEN k ELSE tables.mod2mgr[<<d, c>>]
  BY <1>1, <1>2
<1>4. QED
  BY <1>3 DEF u, e

\* A cluster that is entered half way.
LEMMA HalfEnteredIs ==
    ASSUME tables \in Tables, NEW k \in Devices
    PROVE  LET t == [Reconciled(k) EXCEPT !.known = @ \cup {k}]
           IN  /\ t \in Tables
               /\ t.sn2mods = tables.sn2mods /\ t.mod2mgr = tables.mod2mgr
               /\ t.online = tables.online
               /\ \A j \in Devices : j # k => /\ t.config[j] = tables.config[j]
                                              /\ j \in t.known <=> j \in tables.known
<1> DEFINE r == Reconciled(k)
           t == [r EXCEPT !.known = @ \cup {k}]
<1>1. /\ r \in Tables /\ r.sn2mods = tables.sn2mods /\ r.mod2mgr = tables.mod2mgr
      /\ r.online = tables.online
      /\ \A j \in Devices : j # k => /\ r.config[j] = tables.config[j]
                                     /\ j \in r.known <=> j \in tables.known
  BY ReconciledIs
<1> HIDE DEF r
<1>2. t = [r EXCEPT !.known = r.known \cup {k}]
  OBVIOUS
<1> HIDE DEF t
<1>3. /\ t \in Tables
      /\ t.sn2mods = tables.sn2mods /\ t.mod2mgr = tables.mod2mgr
      /\ t.online = tables.online
      /\ \A j \in Devices : j # k => /\ t.config[j] = tables.config[j]
                                     /\ j \in t.known <=> j \in tables.known
  BY <1>1, <1>2 DEF Tables
<1>4. QED
  BY <1>3 DEF t, r

\* A deletion takes one device out.
LEMMA RemovedIs ==
    ASSUME tables \in Tables, NEW sn \in Devices
    PROVE  /\ Removed(sn) \in Tables
           /\ Removed(sn).online = tables.online \ {sn}
           /\ \A j \in Devices : j # sn => /\ Removed(sn).config[j] = tables.config[j]
                                           /\ Removed(sn).sn2mods[j] = tables.sn2mods[j]
                                           /\ j \in Removed(sn).known <=> j \in tables.known
           /\ Removed(sn).config[sn] = Empty /\ Removed(sn).sn2mods[sn] = {}
           /\ \A d \in Devices, c \in Classes : Removed(sn).mod2mgr[<<d, c>>]
                  = IF d = sn THEN Absent ELSE tables.mod2mgr[<<d, c>>]
<1> DEFINE sm == [tables.sn2mods EXCEPT ![sn] = {}]
           cf == [tables.config EXCEPT ![sn] = Empty]
           mm == [m \in Devices \X Classes |-> IF m[1] = sn THEN Absent ELSE tables.mod2mgr[m]]
           kn == tables.known \ {sn}
           on == tables.online \ {sn}
<1>1. Removed(sn) = [sn2mods |-> sm, mod2mgr |-> mm, known |-> kn,
                     config |-> cf, online |-> on]
  BY DEF Removed
<1>2. /\ sm \in [Devices -> SUBSET Classes] /\ cf \in [Devices -> Config \cup {Empty}]
      /\ sm[sn] = {} /\ cf[sn] = Empty
      /\ \A j \in Devices : j # sn => sm[j] = tables.sn2mods[j] /\ cf[j] = tables.config[j]
  BY DEF Tables
<1>3. mm \in [Devices \X Classes -> Devices \cup {Absent}]
  BY DEF Tables
<1>4. ASSUME NEW d \in Devices, NEW c \in Classes
      PROVE  mm[<<d, c>>] = IF d = sn THEN Absent ELSE tables.mod2mgr[<<d, c>>]
  <2>1. <<d, c>> \in Devices \X Classes /\ <<d, c>>[1] = d
    OBVIOUS
  <2>2. QED
    BY <2>1
<1>5. /\ kn \in SUBSET Devices /\ on \in SUBSET Devices /\ on = tables.online \ {sn}
      /\ \A j \in Devices : j # sn => (j \in kn <=> j \in tables.known)
  BY DEF Tables
<1> HIDE DEF sm, cf, mm, kn, on
<1>6. /\ Removed(sn).sn2mods = sm /\ Removed(sn).mod2mgr = mm /\ Removed(sn).known = kn
      /\ Removed(sn).config = cf /\ Removed(sn).online = on
  BY <1>1
<1>7. Removed(sn) \in Tables
  BY <1>1, <1>2, <1>3, <1>5 DEF Tables
<1>8. QED
  BY <1>2, <1>4, <1>5, <1>6, <1>7

\* What is loaded at a start is what is saved, without the configurations of managers that
\* run no module.
LEMMA LoadedIs ==
    ASSUME savedMap \in Maps, savedConfig \in [Devices -> Config \cup {Empty}]
    PROVE  /\ Loaded \in Tables
           /\ Loaded.sn2mods = savedMap.sn2mods /\ Loaded.mod2mgr = savedMap.mod2mgr
           /\ Loaded.known = savedMap.known /\ Loaded.online = {}
           /\ \A k \in Devices : Loaded.config[k]
                  = IF savedMap.sn2mods[k] # {} THEN savedConfig[k] ELSE Empty
           /\ MapOf(Loaded) = savedMap
<1>1. Empty \in Config \cup {Empty}
  OBVIOUS
<1>2. QED
  BY <1>1 DEF Loaded, Tables, Maps, MapOf

LEMMA MapOfTables ==
    ASSUME NEW t \in Tables
    PROVE  /\ MapOf(t) \in Maps
           /\ MapOf(t).sn2mods = t.sn2mods /\ MapOf(t).mod2mgr = t.mod2mgr
           /\ MapOf(t).known = t.known
BY DEF Tables, Maps, MapOf

LEMMA NoTablesIs ==
    /\ NoTables \in Tables /\ NoTables.online = {} /\ NoTables.known = {}
    /\ \A d \in Devices : NoTables.sn2mods[d] = {} /\ NoTables.config[d] = Empty
    /\ Idle \in Jobs /\ Idle.left = {} /\ Idle.body = <<>> /\ Idle.copy = NoTables
<1>1. NoTables \in Tables /\ NoTables.online = {} /\ NoTables.known = {}
  BY DEF NoTables, Tables
<1>2. \A d \in Devices : NoTables.sn2mods[d] = {} /\ NoTables.config[d] = Empty
  BY DEF NoTables
<1>3. Idle \in Jobs /\ Idle.left = {} /\ Idle.body = <<>> /\ Idle.copy = NoTables
  BY <1>1 DEF Idle, Jobs, AllBodies
<1>4. QED
  BY <1>1, <1>2, <1>3

--------------------------------------------------------------------------------
(* What a restart brings back.  *)

\* The configuration of a cluster is in the database, and the cluster is known.
Matches(k, t) == savedConfig[k] = t.config[k] /\ (t.config[k] # Empty => k \in t.known)

\* The map in the database has the cluster and the modules of its manager.
Covered(k, t) ==
    /\ k \in t.known => k \in savedMap.known
    /\ t.sn2mods[k] \subseteq savedMap.sn2mods[k]

\* The database is as some tables say, for all clusters but some.
Kept(t, ks) ==
    /\ \A k \in Devices \ ks : Matches(k, t) /\ Covered(k, t)
    /\ ~mapUnsure => savedMap = MapOf(t)

\* What a request has done to a cluster.
InBody(k) == k \in DOMAIN job.body /\ job.body[k] # Empty
Written(k) == IF InBody(k) THEN k \notin job.left \cup job.gone ELSE k \notin unsure

\* A cluster that is not in the request stays as it was, its manager gets modules at most.
Untouched(k) ==
    /\ tables.config[k] = job.copy.config[k]
    /\ k \in tables.known <=> k \in job.copy.known
    /\ job.copy.sn2mods[k] \subseteq tables.sn2mods[k]

\* While a request is worked on the database follows the copy, from which it can be undone,
\* and the tables in the clusters that are done.
KeepsInv ==
    /\ StoreTypes
    /\ ~Busy => Kept(tables, unsure)
    /\ Busy => /\ Kept(job.copy, unsure \cup DOMAIN job.body)
               /\ \A k \in Devices \ (unsure \cup DOMAIN job.body) : Untouched(k)
               /\ ~job.failed => \A k \in Devices : Written(k) => Matches(k, tables)

\* A device named by a configuration is a device.
LEMMA ModuleDevice ==
    ASSUME NEW v \in Config, NEW c \in Classes, v.mod[c] # Absent
    PROVE  v.mod[c][1] \in Devices
BY DEF Config

LEMMA DeltaIs ==
    ASSUME NEW k \in Devices, NEW old \in Config \cup {Empty}, NEW v \in Config
    PROVE  Delta(k, old, v) \in SUBSET Devices
<1>1. On(v) \in SUBSET Devices
  BY ModuleDevice DEF On
<1>2. ASSUME old \in Config
      PROVE  Changed(old, v) \in SUBSET Devices
  BY <1>2, ModuleDevice DEF Changed, Present
<1>3. QED
  BY <1>1, <1>2 DEF Delta

LEMMA QuietIs ==
    ASSUME NEW k \in Devices, NEW old \in Config \cup {Empty}, NEW v \in Config
    PROVE  Quiet(k, old, v) \cup Forgotten(k) \in SUBSET Devices
<1>1. ASSUME old \in Config
      PROVE  /\ {old.mod[c][1] : c \in {c \in Classes : old.mod[c] # Absent /\ v.mod[c] = Absent}}
                   \in SUBSET Devices
             /\ {v.mod[c][1] : c \in {c \in Classes : v.mod[c] # Absent /\ old.mod[c] = Absent}}
                   \in SUBSET Devices
  BY <1>1, ModuleDevice
<1>2. {v.mod[c][1] : c \in {c \in Classes :
          v.mod[c] # Absent /\ tables.mod2mgr[v.mod[c][1], c] # k}} \in SUBSET Devices
  BY ModuleDevice
<1>3. Quiet(k, old, v) \in SUBSET Devices
  BY <1>1, <1>2 DEF Quiet
<1>4. QED
  BY <1>3 DEF Forgotten

\* Steps that leave alone what is kept of the clusters.
LEMMA FrameKeeps ==
    ASSUME KeepsInv, StoreTypes',
           tables'.sn2mods = tables.sn2mods, tables'.mod2mgr = tables.mod2mgr,
           tables'.known = tables.known, tables'.config = tables.config,
           UNCHANGED <<savedMap, savedConfig, unsure, mapUnsure>>,
           \/ ~Busy /\ job' = job
           \/ /\ Busy /\ Busy'
              /\ job'.body = job.body /\ job'.left = job.left /\ job'.failed = job.failed
              /\ job'.gone = job.gone /\ job'.copy = job.copy
    PROVE  KeepsInv'
<1>1. MapOf(tables)' = MapOf(tables)
  BY DEF MapOf
<1>2. ASSUME ~Busy'
      PROVE  Kept(tables, unsure)'
  <2>1. ~Busy /\ Kept(tables, unsure)
    BY <1>2 DEF KeepsInv, Busy
  <2>2. QED
    BY <2>1, <1>1 DEF Kept, Matches, Covered
<1>3. ASSUME Busy'
      PROVE  /\ Kept(job.copy, unsure \cup DOMAIN job.body)'
             /\ \A k \in Devices \ (unsure \cup DOMAIN job.body)' : Untouched(k)'
             /\ ~job.failed' => \A k \in Devices : Written(k)' => Matches(k, tables)'
  <2>1. Busy /\ job'.body = job.body /\ job'.left = job.left /\ job'.failed = job.failed
             /\ job'.gone = job.gone /\ job'.copy = job.copy
    BY <1>3 DEF Busy
  <2>2. Kept(job.copy, unsure \cup DOMAIN job.body)'
    BY <2>1 DEF KeepsInv, Kept, Matches, Covered, MapOf
  <2>3. \A k \in Devices \ (unsure \cup DOMAIN job.body)' : Untouched(k)'
    BY <2>1 DEF KeepsInv, Untouched
  <2>4. ~job.failed' => \A k \in Devices : Written(k)' => Matches(k, tables)'
    BY <2>1 DEF KeepsInv, Written, InBody, Matches
  <2>5. QED
    BY <2>2, <2>3, <2>4
<1>4. QED
  BY <1>2, <1>3 DEF KeepsInv

LEMMA BeginKeeps ==
    ASSUME KeepsInv, Begin
    PROVE  KeepsInv'
<1>1. PICK r \in Requests : job' = [Idle EXCEPT !.body = r, !.left = DOMAIN r, !.copy = tables]
  BY DEF Begin
<1>2. /\ job' \in Jobs /\ job'.body = r /\ job'.left = DOMAIN r /\ job'.copy = tables
      /\ job'.failed = FALSE /\ job'.gone = {}
  <2>1. r \in AllBodies /\ DOMAIN r \in SUBSET Devices
    BY BodyTypes DEF AllBodies
  <2>2. Idle \in Jobs /\ tables \in Tables
    BY NoTablesIs DEF KeepsInv, StoreTypes
  <2>3. Idle.failed = FALSE /\ Idle.gone = {}
    BY DEF Idle
  <2>4. QED
    BY <1>1, <2>1, <2>2, <2>3 DEF Jobs
<1>3. ~Busy /\ Kept(tables, unsure)
  BY DEF KeepsInv, Begin
<1>4. UNCHANGED <<tables, savedMap, savedConfig, unsure, mapUnsure>>
  BY DEF Begin
<1>5. StoreTypes'
  BY <1>2, <1>4 DEF KeepsInv, StoreTypes
<1>6. Kept(tables, unsure)'
  BY <1>3, <1>4 DEF Kept, Matches, Covered, MapOf
<1>7. Kept(job.copy, unsure \cup DOMAIN job.body)'
  BY <1>2, <1>3, <1>4 DEF Kept, Matches, Covered, MapOf
<1>8. \A k \in Devices : Untouched(k)'
  BY <1>2, <1>4 DEF Untouched
<1>9. ASSUME NEW k \in Devices, Written(k)'
      PROVE  Matches(k, tables)'
  <2>1. k \notin unsure
    BY <1>9, <1>2, <1>4 DEF Written, InBody
  <2>2. QED
    BY <2>1, <1>3, <1>4 DEF Kept, Matches
<1>10. QED
  BY <1>5, <1>6, <1>7, <1>8, <1>9 DEF KeepsInv

LEMMA CompleteKeeps ==
    ASSUME KeepsInv, Complete
    PROVE  KeepsInv'
<1>1. Busy /\ job.left = {} /\ ~job.failed /\ tables \in Tables /\ unsure \in SUBSET Devices
  BY DEF Complete, KeepsInv, StoreTypes
<1>2. /\ savedMap' = MapOf(tables) /\ job' = Idle /\ UNCHANGED <<tables, savedConfig>>
      /\ unsure' = (unsure \ {k \in DOMAIN job.body : job.body[k] # Empty}) \cup job.gone
  BY DEF Complete
<1>3. StoreTypes'
  <2>1. savedMap' \in Maps /\ Idle \in Jobs /\ Idle.left = {}
    BY <1>1, <1>2, MapOfTables, NoTablesIs
  <2>2. job.gone \in SUBSET Devices
    BY DEF KeepsInv, StoreTypes, Jobs
  <2>3. unsure' \in SUBSET Devices
    BY <1>1, <1>2, <2>2
  <2>4. QED
    BY <1>1, <1>2, <2>1, <2>3 DEF KeepsInv, StoreTypes
<1>4. ASSUME NEW k \in Devices \ unsure'
      PROVE  (Matches(k, tables) /\ Covered(k, tables))'
  <2>1. Written(k)
    BY <1>1, <1>2, <1>4 DEF Written, InBody
  <2>2. Matches(k, tables)
    BY <2>1, <1>1 DEF KeepsInv
  <2>3. savedMap'.known = tables.known /\ savedMap'.sn2mods = tables.sn2mods
    BY <1>1, <1>2, MapOfTables
  <2>4. QED
    BY <2>2, <2>3, <1>2 DEF Matches, Covered
<1>5. Kept(tables, unsure)'
  BY <1>2, <1>4 DEF Kept, MapOf
<1>6. ~Busy'
  BY <1>2 DEF Busy, Idle, NoTables
<1>7. QED
  BY <1>3, <1>5, <1>6 DEF KeepsInv

LEMMA UndoKeeps ==
    ASSUME KeepsInv, Undo
    PROVE  KeepsInv'
<1>1. /\ Busy /\ tables' = job.copy /\ job' = Idle /\ unsure' = unsure \cup DOMAIN job.body
      /\ UNCHANGED <<savedMap, savedConfig, mapUnsure>>
  BY DEF Undo, PutBack
<1>2. StoreTypes'
  <2>1. DOMAIN job.body \subseteq Devices
    BY BodyTypes DEF KeepsInv, StoreTypes, Jobs
  <2>2. Idle \in Jobs /\ Idle.left = {} /\ job.copy \in Tables
    BY NoTablesIs DEF KeepsInv, StoreTypes, Jobs
  <2>3. QED
    BY <1>1, <2>1, <2>2 DEF KeepsInv, StoreTypes
<1>3. Kept(tables, unsure)'
  BY <1>1 DEF KeepsInv, Kept, Matches, Covered, MapOf
<1>4. ~Busy'
  BY <1>1 DEF Busy, Idle, NoTables
<1>5. QED
  BY <1>2, <1>3, <1>4 DEF KeepsInv

\* What a step of the request does to the cluster it takes.
LEMMA StepKeeps ==
    ASSUME KeepsInv, ApplyCluster, NEW k \in Devices, k \in job.left, StoreTypes',
           job'.body = job.body, job'.copy = job.copy, job'.gone = job.gone,
           job'.left \subseteq job.left,
           job.failed => job'.failed,
           \A j \in Devices : j # k => /\ tables'.config[j] = tables.config[j]
                                       /\ j \in tables'.known <=> j \in tables.known
                                       /\ savedConfig'[j] = savedConfig[j],
           \A j \in Devices : tables.sn2mods[j] \subseteq tables'.sn2mods[j],
           \A j \in Devices \ {k} : j \in job'.left \/ j \notin job.left \/ job'.failed,
           ~job'.failed => (Written(k)' => Matches(k, tables)'),
           UNCHANGED <<savedMap, unsure, mapUnsure>>
    PROVE  KeepsInv'
<1>1. k \in DOMAIN job.body /\ Busy
  <2>1. Idle.left = {}
    BY NoTablesIs
  <2>2. QED
    BY <2>1 DEF KeepsInv, StoreTypes, Busy
<1>2. Busy'
  <2>1. DOMAIN Idle.body = {}
    BY NoTablesIs
  <2>2. QED
    BY <1>1, <2>1 DEF Busy
<1>3. Kept(job.copy, unsure \cup DOMAIN job.body)'
  <2>1. \A j \in Devices \ (unsure \cup DOMAIN job.body) :
            Matches(j, job.copy) /\ Covered(j, job.copy)
    BY <1>1 DEF KeepsInv, Kept
  <2>2. \A j \in Devices \ (unsure \cup DOMAIN job.body) : savedConfig'[j] = savedConfig[j]
    BY <1>1
  <2>3. ~mapUnsure => savedMap = MapOf(job.copy)
    BY <1>1 DEF KeepsInv, Kept
  <2>4. QED
    BY <2>1, <2>2, <2>3 DEF Kept, Matches, Covered, MapOf
<1>4. \A j \in Devices \ (unsure \cup DOMAIN job.body)' : Untouched(j)'
  <2>1. \A j \in Devices \ (unsure \cup DOMAIN job.body) : Untouched(j) /\ j # k
    BY <1>1 DEF KeepsInv
  <2>2. QED
    BY <2>1 DEF Untouched
<1>5. ASSUME ~job'.failed, NEW j \in Devices, Written(j)'
      PROVE  Matches(j, tables)'
  <2>1. CASE j = k
    BY <2>1, <1>5
  <2>2. CASE j # k
    <3>1. Written(j)
      BY <1>5, <2>2 DEF Written, InBody
    <3>2. Matches(j, tables)
      BY <3>1, <1>1, <1>5 DEF KeepsInv
    <3>3. QED
      BY <3>2, <2>2 DEF Matches
  <2>3. QED
    BY <2>1, <2>2
<1>6. QED
  BY <1>2, <1>3, <1>4, <1>5 DEF KeepsInv

\* A cluster without a configuration in the request is passed over.
LEMMA PassKeeps ==
    ASSUME KeepsInv, ApplyCluster, NEW k \in Devices, k \in job.left, job.body[k] = Empty,
           tables' = Reconciled(k),
           job' = [job EXCEPT !.left = @ \ {k}, !.quiet = @ \cup Forgotten(k)],
           UNCHANGED savedConfig
    PROVE  KeepsInv'
<1>1. UNCHANGED <<savedMap, unsure, mapUnsure>>
  BY DEF ApplyCluster, history
<1>2. tables \in Tables /\ job \in Jobs
  BY DEF KeepsInv, StoreTypes
<1>3. Forgotten(k) \in SUBSET Devices
  BY DEF Forgotten
<1>4. /\ job' \in Jobs /\ job'.body = job.body /\ job'.copy = job.copy /\ job'.gone = job.gone
      /\ job'.left = job.left \ {k} /\ job'.failed = job.failed
  BY <1>2, <1>3 DEF Jobs
<1>5. StoreTypes'
  BY <1>1, <1>2, <1>4, ReconciledIs DEF KeepsInv, StoreTypes
<1>6. Written(k)' /\ ~job'.failed => Matches(k, tables)'
  <2>1. Written(k)' /\ ~job'.failed => Matches(k, tables)
    <3>1. Idle.left = {}
      BY NoTablesIs
    <3>2. Written(k)' => Written(k)
      BY <1>1, <1>4 DEF Written, InBody
    <3>3. QED
      BY <3>1, <3>2, <1>4 DEF KeepsInv, Busy
  <2>2. Reconciled(k).config[k] \in {tables.config[k], Empty}
        /\ (Reconciled(k).config[k] # Empty => k \in Reconciled(k).known)
        /\ (k \in tables.known => Reconciled(k).config[k] = tables.config[k])
    BY <1>2, ReconciledIs
  <2>3. QED
    BY <2>1, <2>2 DEF Matches
<1>7. \A j \in Devices : j # k => /\ tables'.config[j] = tables.config[j]
                                  /\ j \in tables'.known <=> j \in tables.known
                                  /\ savedConfig'[j] = savedConfig[j]
  BY <1>2, ReconciledIs
<1>8. \A j \in Devices : tables.sn2mods[j] \subseteq tables'.sn2mods[j]
  BY <1>2, ReconciledIs
<1>9. QED
  BY <1>1, <1>4, <1>5, <1>6, <1>7, <1>8, StepKeeps

LEMMA RefuseKeeps ==
    ASSUME KeepsInv, ApplyCluster, NEW k \in Devices, k \in job.left,
           NEW v \in Config, Refuse(k, v)
    PROVE  KeepsInv'
<1>1. UNCHANGED <<savedMap, unsure, mapUnsure, savedConfig>>
  BY DEF ApplyCluster, Refuse, history
<1>2. tables \in Tables /\ job \in Jobs
  BY DEF KeepsInv, StoreTypes
<1> DEFINE t == [Reconciled(k) EXCEPT !.known = @ \cup {k}]
<1>3. PICK cs \in SUBSET Classes : tables' = WithModules(t, k, v, cs)
  BY DEF Refuse
<1>4. /\ t \in Tables /\ t.sn2mods = tables.sn2mods
      /\ \A j \in Devices : j # k => /\ t.config[j] = tables.config[j]
                                     /\ j \in t.known <=> j \in tables.known
  BY <1>2, HalfEnteredIs
<1> HIDE DEF t
<1>5. /\ job' \in Jobs /\ job'.body = job.body /\ job'.copy = job.copy /\ job'.gone = job.gone
      /\ job'.left = {} /\ job'.failed
  <2>1. job' = [job EXCEPT !.left = {}, !.failed = TRUE]
    BY DEF Refuse
  <2>2. QED
    BY <2>1, <1>2 DEF Jobs
<1>6. /\ tables' \in Tables /\ tables'.known = t.known /\ tables'.config = t.config
      /\ \A j \in Devices : tables.sn2mods[j] \subseteq tables'.sn2mods[j]
  <2> DEFINE w == WithModules(t, k, v, cs)
  <2>1. /\ w \in Tables /\ w.known = t.known /\ w.config = t.config
        /\ \A j \in Devices : w.sn2mods[j] = t.sn2mods[j] \cup ModulesOn(v, j, cs)
    BY <1>4, WithModulesIs
  <2>2. tables' = w
    BY <1>3
  <2> HIDE DEF w
  <2>3. QED
    BY <2>1, <2>2, <1>4
<1>7. StoreTypes'
  BY <1>1, <1>2, <1>5, <1>6 DEF KeepsInv, StoreTypes
<1>8. QED
  BY <1>1, <1>4, <1>5, <1>6, <1>7, StepKeeps

\* What is recorded of a cluster that is accepted.
LEMMA ToldIs ==
    ASSUME tables \in Tables, job \in Jobs, NEW k \in Devices, NEW v \in Config
    PROVE  LET old == Reconciled(k).config[k]
               told == [job EXCEPT !.left = @ \ {k}, !.delta = @ \cup Delta(k, old, v),
                                   !.quiet = @ \cup Quiet(k, old, v) \cup Forgotten(k)]
           IN  /\ told \in Jobs /\ told.body = job.body /\ told.copy = job.copy
               /\ told.gone = job.gone /\ told.left = job.left \ {k}
               /\ told.failed = job.failed
<1> DEFINE old == Reconciled(k).config[k]
           told == [job EXCEPT !.left = @ \ {k}, !.delta = @ \cup Delta(k, old, v),
                               !.quiet = @ \cup Quiet(k, old, v) \cup Forgotten(k)]
<1>1. old \in Config \cup {Empty}
  BY ReconciledIs DEF Tables
<1> DEFINE de == Delta(k, old, v)
           qu == Quiet(k, old, v) \cup Forgotten(k)
<1>2. de \in SUBSET Devices /\ qu \in SUBSET Devices
  BY <1>1, DeltaIs, QuietIs
<1>3. told = [job EXCEPT !.left = job.left \ {k}, !.delta = job.delta \cup de,
                         !.quiet = job.quiet \cup Quiet(k, old, v) \cup Forgotten(k)]
  OBVIOUS
<1>4. job.quiet \cup Quiet(k, old, v) \cup Forgotten(k) = job.quiet \cup qu
  OBVIOUS
<1>5. told = [job EXCEPT !.left = job.left \ {k}, !.delta = job.delta \cup de,
                         !.quiet = job.quiet \cup qu]
  BY <1>3, <1>4
<1>6. job.delta \cup de \in SUBSET Devices /\ job.quiet \cup qu \in SUBSET Devices
  BY <1>2 DEF Jobs
<1> HIDE DEF de, qu, old, told
<1>7. /\ told \in Jobs /\ told.body = job.body /\ told.copy = job.copy
      /\ told.gone = job.gone /\ told.left = job.left \ {k} /\ told.failed = job.failed
  BY <1>5, <1>6 DEF Jobs
<1>8. QED
  BY <1>7 DEF told, old

LEMMA AcceptKeeps ==
    ASSUME KeepsInv, ApplyCluster, NEW k \in Devices, k \in job.left, InBody(k),
           NEW v \in Config, Accept(k, v)
    PROVE  KeepsInv'
<1>1. UNCHANGED <<savedMap, unsure, mapUnsure>>
  BY DEF ApplyCluster, history
<1>2. tables \in Tables /\ job \in Jobs /\ savedConfig \in [Devices -> Config \cup {Empty}]
  BY DEF KeepsInv, StoreTypes
<1> DEFINE old == Reconciled(k).config[k]
           told == [job EXCEPT !.left = @ \ {k}, !.delta = @ \cup Delta(k, old, v),
                               !.quiet = @ \cup Quiet(k, old, v) \cup Forgotten(k)]
<1>3. /\ tables' = WithModules(Entered(k, v), k, v, Classes)
      /\ \/ savedConfig' = [savedConfig EXCEPT ![k] = v] /\ job' = told
         \/ UNCHANGED savedConfig /\ job' = [told EXCEPT !.failed = TRUE]
  BY DEF Accept, Entered
<1>4. /\ tables' \in Tables /\ k \in tables'.known /\ tables'.config[k] = v
      /\ \A j \in Devices : tables.sn2mods[j] \subseteq tables'.sn2mods[j]
      /\ \A j \in Devices : j # k => /\ tables'.config[j] = tables.config[j]
                                     /\ j \in tables'.known <=> j \in tables.known
  <2> DEFINE u == WithModules(Entered(k, v), k, v, Classes)
  <2>1. /\ u \in Tables /\ k \in u.known /\ u.config[k] = v
        /\ \A j \in Devices : j # k => /\ u.config[j] = tables.config[j]
                                       /\ j \in u.known <=> j \in tables.known
        /\ \A j \in Devices : u.sn2mods[j] = tables.sn2mods[j] \cup ModulesOn(v, j, Classes)
    BY <1>2, AcceptedIs
  <2>2. tables' = u
    BY <1>3
  <2> HIDE DEF u
  <2>3. QED
    BY <2>1, <2>2
<1>5. /\ told \in Jobs /\ told.body = job.body /\ told.copy = job.copy /\ told.gone = job.gone
      /\ told.left = job.left \ {k} /\ told.failed = job.failed
  BY <1>2, ToldIs
<1> HIDE DEF told, old
<1>6. /\ job' \in Jobs /\ job'.body = job.body /\ job'.copy = job.copy /\ job'.gone = job.gone
      /\ job'.left = job.left \ {k} /\ (job.failed => job'.failed)
      /\ job'.failed \/ job' = told
  BY <1>3, <1>5 DEF Jobs
<1>7. /\ savedConfig' \in [Devices -> Config \cup {Empty}]
      /\ \A j \in Devices : j # k => savedConfig'[j] = savedConfig[j]
      /\ job'.failed \/ savedConfig'[k] = v
  <2>1. CASE savedConfig' = [savedConfig EXCEPT ![k] = v]
    BY <2>1, <1>2
  <2>2. CASE UNCHANGED savedConfig /\ job' = [told EXCEPT !.failed = TRUE]
    BY <2>2, <1>2, <1>5 DEF Jobs
  <2>3. QED
    BY <2>1, <2>2, <1>3
<1>8. StoreTypes'
  BY <1>1, <1>4, <1>6, <1>7 DEF KeepsInv, StoreTypes
<1>9. ~job'.failed => Matches(k, tables)'
  BY <1>4, <1>7 DEF Matches
<1>10. \A j \in Devices : j # k => /\ tables'.config[j] = tables.config[j]
                                   /\ j \in tables'.known <=> j \in tables.known
                                   /\ savedConfig'[j] = savedConfig[j]
  BY <1>4, <1>7
<1>11. QED
  BY <1>1, <1>4, <1>6, <1>8, <1>9, <1>10, StepKeeps

LEMMA ApplyKeeps ==
    ASSUME KeepsInv, ApplyCluster
    PROVE  KeepsInv'
<1>1. PICK k \in job.left :
          \/ /\ job.body[k] = Empty
             /\ tables' = Reconciled(k)
             /\ job' = [job EXCEPT !.left = @ \ {k}, !.quiet = @ \cup Forgotten(k)]
             /\ UNCHANGED savedConfig
          \/ job.body[k] # Empty /\ (Refuse(k, job.body[k]) \/ Accept(k, job.body[k]))
  BY DEF ApplyCluster
<1>2. /\ k \in Devices /\ k \in DOMAIN job.body
      /\ job.body[k] \in Config \cup {Empty}
  <2>1. job.body \in AllBodies
    BY DEF KeepsInv, StoreTypes, Jobs
  <2>2. k \in DOMAIN job.body
    BY DEF KeepsInv, StoreTypes
  <2>3. QED
    BY <2>1, <2>2, BodyTypes
<1>3. CASE job.body[k] = Empty
  BY <1>1, <1>2, <1>3, PassKeeps
<1>4. CASE job.body[k] # Empty
  <2>1. InBody(k) /\ job.body[k] \in Config
    BY <1>2, <1>4 DEF InBody
  <2>2. QED
    BY <1>1, <1>2, <1>4, <2>1, RefuseKeeps, AcceptKeeps
<1>5. QED
  BY <1>3, <1>4

LEMMA DeleteKeeps ==
    ASSUME KeepsInv, NEW sn \in Devices, Delete(sn)
    PROVE  KeepsInv'
<1>1. tables \in Tables /\ job \in Jobs /\ unsure \in SUBSET Devices
  BY DEF KeepsInv, StoreTypes
<1>2. /\ tables' = Removed(sn) /\ savedMap' \in {savedMap, MapOf(tables')}
      /\ unsure' = unsure \cup {sn} /\ UNCHANGED savedConfig
      /\ job' = IF Busy THEN [job EXCEPT !.gone = @ \cup {sn}] ELSE job
      /\ mapUnsure' = (mapUnsure \/ Busy \/ savedMap' # MapOf(tables'))
  BY DEF Delete
<1>3. /\ tables' \in Tables
      /\ \A j \in Devices : j # sn => /\ tables'.config[j] = tables.config[j]
                                      /\ tables'.sn2mods[j] = tables.sn2mods[j]
                                      /\ j \in tables'.known <=> j \in tables.known
  BY <1>1, <1>2, RemovedIs
<1>4. savedMap' = savedMap \/ /\ savedMap' = MapOf(tables') /\ savedMap' \in Maps
                              /\ savedMap'.known = tables'.known
                              /\ savedMap'.sn2mods = tables'.sn2mods
  BY <1>2, <1>3, MapOfTables
<1>5. CASE Busy
  <2> DEFINE gn == job.gone \cup {sn}
  <2>1. gn \in SUBSET Devices /\ \A j \in Devices : j \in gn <=> j \in job.gone \/ j = sn
    BY <1>1 DEF Jobs
  <2>2. job' = [job EXCEPT !.gone = gn] /\ mapUnsure'
    BY <1>2, <1>5
  <2> HIDE DEF gn
  <2>3. /\ job' \in Jobs /\ job'.body = job.body /\ job'.left = job.left
        /\ job'.failed = job.failed /\ job'.copy = job.copy /\ job'.gone = gn
    BY <1>1, <2>1, <2>2 DEF Jobs
  <2>4. Busy'
    <3>1. Idle.gone = {}
      BY DEF Idle
    <3>2. QED
      BY <2>1, <2>3, <3>1 DEF Busy
  <2>5. StoreTypes'
    BY <1>1, <1>2, <1>3, <1>4, <2>3 DEF KeepsInv, StoreTypes
  <2>6. \A j \in Devices \ (unsure \cup DOMAIN job.body)' :
            j # sn /\ j \notin unsure \cup DOMAIN job.body
    BY <1>2, <2>3
  <2>7. \A j \in Devices \ (unsure \cup DOMAIN job.body)' : Untouched(j)'
    <3>1. \A j \in Devices \ (unsure \cup DOMAIN job.body) : Untouched(j)
      BY <1>5 DEF KeepsInv
    <3>2. QED
      BY <2>3, <2>6, <1>3, <3>1 DEF Untouched
  <2>8. Kept(job.copy, unsure \cup DOMAIN job.body)'
    <3>1. ASSUME NEW j \in Devices \ (unsure \cup DOMAIN job.body)'
          PROVE  (Matches(j, job.copy) /\ Covered(j, job.copy))'
      <4>1. /\ j # sn /\ Matches(j, job.copy) /\ Covered(j, job.copy) /\ Untouched(j)
        BY <3>1, <2>6, <1>5 DEF KeepsInv, Kept
      <4>2. CASE savedMap' = savedMap
        BY <4>1, <4>2, <1>2, <2>3 DEF Matches, Covered
      <4>3. CASE savedMap'.known = tables'.known /\ savedMap'.sn2mods = tables'.sn2mods
        BY <4>1, <4>3, <1>2, <1>3, <2>3 DEF Matches, Covered, Untouched
      <4>4. QED
        BY <1>4, <4>2, <4>3
    <3>2. QED
      BY <2>2, <3>1 DEF Kept
  <2>9. ASSUME ~job'.failed, NEW j \in Devices, Written(j)'
        PROVE  Matches(j, tables)'
    <3>1. j # sn /\ Written(j)
      <4>1. InBody(j)' <=> InBody(j)
        BY <2>3 DEF InBody
      <4>2. CASE InBody(j)
        BY <2>9, <4>1, <4>2, <2>1, <2>3 DEF Written
      <4>3. CASE ~InBody(j)
        BY <2>9, <4>1, <4>3, <1>2 DEF Written
      <4>4. QED
        BY <4>2, <4>3
    <3>2. Matches(j, tables)
      BY <3>1, <2>9, <2>3, <1>5 DEF KeepsInv
    <3>3. QED
      BY <3>1, <3>2, <1>2, <1>3 DEF Matches
  <2>10. QED
    BY <2>4, <2>5, <2>7, <2>8, <2>9 DEF KeepsInv
<1>6. CASE ~Busy
  <2>1. job' = job /\ ~Busy'
    BY <1>2, <1>6 DEF Busy
  <2>2. StoreTypes'
    BY <1>1, <1>2, <1>3, <1>4, <2>1 DEF KeepsInv, StoreTypes
  <2>3. ASSUME NEW j \in Devices \ unsure'
        PROVE  (Matches(j, tables) /\ Covered(j, tables))'
    <3>1. j # sn /\ Matches(j, tables) /\ Covered(j, tables)
      BY <1>2, <1>6, <2>3 DEF KeepsInv, Kept
    <3>2. Matches(j, tables)'
      BY <3>1, <1>2, <1>3 DEF Matches
    <3>3. Covered(j, tables)'
      BY <3>1, <1>3, <1>4 DEF Covered
    <3>4. QED
      BY <3>2, <3>3
  <2>4. ~mapUnsure' => savedMap' = MapOf(tables')
    BY <1>2
  <2>5. Kept(tables, unsure)'
    BY <2>3, <2>4 DEF Kept, MapOf
  <2>6. QED
    BY <2>1, <2>2, <2>5 DEF KeepsInv
<1>7. QED
  BY <1>5, <1>6

LEMMA RestartKeepsInv ==
    ASSUME KeepsInv, Restart
    PROVE  KeepsInv'
<1>1. /\ tables' = Loaded /\ job' = Idle /\ UNCHANGED <<savedMap, savedConfig>>
      /\ unsure' = unsure \cup (IF Busy THEN DOMAIN job.body ELSE {})
                          \cup {k \in Devices : Loaded.config[k] # savedConfig[k]}
  BY DEF Restart
<1>2. savedMap \in Maps /\ savedConfig \in [Devices -> Config \cup {Empty}]
  BY DEF KeepsInv, StoreTypes
<1>3. /\ Loaded \in Tables /\ Loaded.known = savedMap.known
      /\ Loaded.sn2mods = savedMap.sn2mods /\ MapOf(Loaded) = savedMap
  BY <1>2, LoadedIs
<1>4. DOMAIN job.body \subseteq Devices
  BY BodyTypes DEF KeepsInv, StoreTypes, Jobs
<1>5. StoreTypes'
  <2>1. unsure' \in SUBSET Devices
    BY <1>1, <1>4 DEF KeepsInv, StoreTypes
  <2>2. Idle \in Jobs /\ Idle.left = {}
    BY NoTablesIs
  <2>3. QED
    BY <1>1, <1>2, <1>3, <2>1, <2>2 DEF StoreTypes
<1>6. ASSUME NEW k \in Devices \ unsure'
      PROVE  (Matches(k, tables) /\ Covered(k, tables))'
  <2>1. savedConfig[k] = Loaded.config[k]
    BY <1>1, <1>6
  <2>2. savedConfig[k] # Empty => k \in savedMap.known
    <3>1. CASE Busy
      <4>1. Matches(k, job.copy) /\ Covered(k, job.copy)
        BY <3>1, <1>1, <1>6 DEF KeepsInv, Kept
      <4>2. QED
        BY <4>1 DEF Matches, Covered
    <3>2. CASE ~Busy
      <4>1. Matches(k, tables) /\ Covered(k, tables)
        BY <3>2, <1>1, <1>6 DEF KeepsInv, Kept
      <4>2. QED
        BY <4>1 DEF Matches, Covered
    <3>3. QED
      BY <3>1, <3>2
  <2>3. QED
    BY <2>1, <2>2, <1>1, <1>3 DEF Matches, Covered
<1>7. Kept(tables, unsure)'
  BY <1>1, <1>3, <1>6 DEF Kept, MapOf
<1>8. ~Busy'
  BY <1>1 DEF Busy, Idle, NoTables
<1>9. QED
  BY <1>5, <1>7, <1>8 DEF KeepsInv

LEMMA DeviceKeeps ==
    ASSUME KeepsInv, NEW d \in Devices,
           Connect(d) \/ Disconnect(d) \/ HandleConnection(d) \/ Heartbeat(d)
    PROVE  KeepsInv'
<1>1. tables \in Tables /\ job \in Jobs
  BY DEF KeepsInv, StoreTypes
<1>2. UNCHANGED <<savedMap, savedConfig, unsure, mapUnsure>>
  BY DEF Connect, Disconnect, HandleConnection, Heartbeat, history
<1>3. PICK on \in SUBSET Devices : tables' = [tables EXCEPT !.online = on]
  <2>1. CASE UNCHANGED tables
    BY <1>1, <2>1 DEF Tables
  <2>2. CASE tables' = [tables EXCEPT !.online = @ \cup {d}]
    <3>1. tables.online \cup {d} \in SUBSET Devices
      BY <1>1 DEF Tables
    <3>2. QED
      BY <2>2, <3>1
  <2>3. CASE tables' = [tables EXCEPT !.online = @ \ {d}]
    <3>1. tables.online \ {d} \in SUBSET Devices
      BY <1>1 DEF Tables
    <3>2. QED
      BY <2>3, <3>1
  <2>4. QED
    BY <2>1, <2>2, <2>3 DEF Connect, Disconnect, HandleConnection, Heartbeat
<1>4. /\ tables' \in Tables /\ tables'.sn2mods = tables.sn2mods /\ tables'.known = tables.known
      /\ tables'.mod2mgr = tables.mod2mgr /\ tables'.config = tables.config
  BY <1>1, <1>3 DEF Tables
<1>5. CASE UNCHANGED job
  <2>1. StoreTypes'
    BY <1>2, <1>4, <1>5 DEF KeepsInv, StoreTypes
  <2>2. QED
    BY <1>2, <1>4, <1>5, <2>1, FrameKeeps DEF Busy
<1>6. CASE Busy /\ job' = [job EXCEPT !.early = @ \cup {d}]
  <2> DEFINE ea == job.early \cup {d}
  <2>1. ea \in SUBSET Devices /\ d \in ea
    BY <1>1 DEF Jobs
  <2>2. job' = [job EXCEPT !.early = ea]
    BY <1>6
  <2> HIDE DEF ea
  <2>3. /\ job' \in Jobs /\ job'.body = job.body /\ job'.left = job.left
        /\ job'.failed = job.failed /\ job'.copy = job.copy /\ job'.gone = job.gone
        /\ job'.early = ea
    BY <1>1, <2>1, <2>2 DEF Jobs
  <2>4. Busy'
    <3>1. Idle.early = {}
      BY DEF Idle
    <3>2. QED
      BY <2>1, <2>3, <3>1 DEF Busy
  <2>5. StoreTypes'
    BY <1>2, <1>4, <2>3 DEF KeepsInv, StoreTypes
  <2>6. QED
    BY <1>2, <1>4, <1>6, <2>3, <2>4, <2>5, FrameKeeps
<1>7. QED
  <2>1. UNCHANGED job \/ (Busy /\ job' = [job EXCEPT !.early = @ \cup {d}])
    BY DEF Connect, Disconnect, HandleConnection, Heartbeat
  <2>2. QED
    BY <2>1, <1>5, <1>6

LEMMA InitKeeps == Init => KeepsInv
<1> SUFFICES ASSUME Init PROVE KeepsInv
  OBVIOUS
<1>1. /\ tables = NoTables /\ savedMap = MapOf(NoTables) /\ savedConfig = NoTables.config
      /\ job = Idle /\ unsure = {}
  BY DEF Init
<1>2. StoreTypes
  <2>1. NoTables.config \in [Devices -> Config \cup {Empty}]
    BY NoTablesIs DEF Tables
  <2>2. MapOf(NoTables) \in Maps
    BY NoTablesIs, MapOfTables
  <2>3. QED
    BY <1>1, <2>1, <2>2, NoTablesIs DEF StoreTypes
<1>3. Kept(tables, unsure)
  <2>1. MapOf(NoTables).known = NoTables.known /\ MapOf(NoTables).sn2mods = NoTables.sn2mods
    BY NoTablesIs, MapOfTables
  <2>2. \A k \in Devices : NoTables.config[k] = Empty
    BY NoTablesIs
  <2>3. QED
    BY <1>1, <2>1, <2>2 DEF Kept, Matches, Covered
<1>4. QED
  BY <1>1, <1>2, <1>3 DEF KeepsInv, Busy

LEMMA NextKeeps == KeepsInv /\ [Next]_vars => KeepsInv'
<1> SUFFICES ASSUME KeepsInv, [Next]_vars PROVE KeepsInv'
  OBVIOUS
<1>1. CASE Begin
  BY <1>1, BeginKeeps
<1>2. CASE ApplyCluster
  BY <1>2, ApplyKeeps
<1>3. CASE Complete
  BY <1>3, CompleteKeeps
<1>4. CASE Undo
  BY <1>4, UndoKeeps
<1>5. ASSUME NEW d \in Devices, Delete(d)
      PROVE  KeepsInv'
  BY <1>5, DeleteKeeps
<1>6. ASSUME NEW d \in Devices,
             Connect(d) \/ Disconnect(d) \/ HandleConnection(d) \/ Heartbeat(d)
      PROVE  KeepsInv'
  BY <1>6, DeviceKeeps
<1>7. CASE Restart
  BY <1>7, RestartKeepsInv
<1>8. CASE UNCHANGED vars
  <2>1. UNCHANGED <<tables, savedMap, savedConfig, job, unsure, mapUnsure>>
    BY <1>8 DEF vars
  <2>2. QED
    BY <2>1 DEF KeepsInv, StoreTypes, Busy, Kept, Matches, Covered, MapOf, Untouched,
                Written, InBody
<1>9. QED
  BY <1>1, <1>2, <1>3, <1>4, <1>5, <1>6, <1>7, <1>8 DEF Next

\* Between requests, what a restart would load is what is in memory.
LEMMA KeepsInvMeans == KeepsInv => RestartKeeps
<1> SUFFICES ASSUME KeepsInv, ~Busy PROVE
      /\ ~mapUnsure => savedMap = MapOf(tables)
      /\ \A k \in Devices \ unsure :
            tables.sn2mods[k] # {} => Loaded.config[k] = tables.config[k]
  BY DEF RestartKeeps
<1>1. Kept(tables, unsure)
  BY DEF KeepsInv
<1>2. savedMap \in Maps /\ savedConfig \in [Devices -> Config \cup {Empty}]
  BY DEF KeepsInv, StoreTypes
<1>3. ASSUME NEW k \in Devices \ unsure, tables.sn2mods[k] # {}
      PROVE  Loaded.config[k] = tables.config[k]
  <2>1. savedConfig[k] = tables.config[k] /\ tables.sn2mods[k] \subseteq savedMap.sn2mods[k]
    BY <1>1 DEF Kept, Matches, Covered
  <2>2. savedMap.sn2mods[k] # {}
    BY <1>3, <2>1
  <2>3. QED
    BY <1>2, <2>1, <2>2, LoadedIs
<1>4. QED
  BY <1>1, <1>3 DEF Kept

\* Between requests the database holds the map that is in memory, and the configuration of
\* every known cluster whose manager runs a module, unless the last request about the
\* cluster was refused half way, or it was deleted or not loaded (evcloudsvc.cpp:504, 519, 541).
THEOREM DatabaseIsRight == Spec => []RestartKeeps
<1>1. Spec => []KeepsInv
  BY InitKeeps, NextKeeps, PTL DEF Spec
<1>2. QED
  BY <1>1, KeepsInvMeans, PTL

--------------------------------------------------------------------------------
(* What the devices have.  *)

\* A device is sent the configuration of a cluster.
Sends(t, d, k) == t.config[k] # Empty /\ \E c \in t.sn2mods[d] : t.mod2mgr[<<d, c>>] = k

Nothing(t, d) == \A k \in Devices : ~Sends(t, d, k)

\* A module of the device in a configuration it is sent.
Runs(t, d, k, c) ==
    Sends(t, d, k) /\ t.config[k].mod[c] # Absent /\ t.config[k].mod[c][1] = d

Own(t, d) == {<<m[1], m[2], t.config[m[1]].mod[m[2]]>> :
                 m \in {m \in Devices \X Classes : Runs(t, d, m[1], m[2])}}

\* A device that gets nothing has nothing to do, and one that is connected, and whose
\* notifications are read, has what it would get.
EmptyHanded(t, d) == Nothing(t, d) => OwnPart(got[d], d) = {}
Equipped(t, d) ==
    d \in connected /\ inbox[d] = <<>> /\ d \notin misread => OwnPart(got[d], d) = Own(t, d)

\* The mark "online" counts the notifications that are read.
MarkIsRight(d) ==
    d \notin misread =>
        (d \in tables.online <=> (d \in connected <=> Len(inbox[d]) % 2 = 0))

\* A module that has a cluster is listed for its device.
Listed(t) == \A d \in Devices, c \in Classes : t.mod2mgr[<<d, c>>] # Absent => c \in t.sn2mods[d]

FollowTypes ==
    /\ inbox \in [Devices -> Seq({"note"})] /\ connected \in SUBSET Devices
    /\ Listed(tables) /\ Listed(job.copy) /\ Listed(savedMap)

\* The devices have what the copy says, but those that were sent something since, and what
\* the tables say, but those that are to be sent something or are forgotten.
FollowInv ==
    /\ FollowTypes
    /\ \A d \in Devices : MarkIsRight(d)
    /\ ~Busy => \A d \in Devices \ untold : EmptyHanded(tables, d) /\ Equipped(tables, d)
    /\ Busy =>
         /\ \A d \in Devices \ (untold \cup job.early) :
               EmptyHanded(job.copy, d) /\ Equipped(job.copy, d)
         /\ ~job.failed => \A d \in Devices \ (untold \cup job.quiet) :
               EmptyHanded(tables, d) /\ (d \notin job.delta => Equipped(tables, d))

\* What is sent, and what of it a device carries out, by clusters and classes.
LEMMA SentIs ==
    ASSUME NEW t \in Tables, NEW d \in Devices
    PROVE  /\ DOMAIN ConfigForDevice(t, d) = {k \in Devices : Sends(t, d, k)}
           /\ \A k \in Devices : Sends(t, d, k) => ConfigForDevice(t, d)[k] = t.config[k]
           /\ DOMAIN ConfigForDevice(t, d) = {} <=> Nothing(t, d)
           /\ OwnPart(ConfigForDevice(t, d), d) = Own(t, d)
<1> DEFINE D == ConfigForDevice(t, d)
           K == {t.mod2mgr[<<d, c>>] : c \in t.sn2mods[d]}
                    \cap {k \in Devices : t.config[k] # Empty}
<1>1. K = {k \in Devices : Sends(t, d, k)}
  BY DEF Sends
<1>2. D = [k \in K |-> t.config[k]]
  BY DEF ConfigForDevice
<1> HIDE DEF D, K
<1>3. /\ DOMAIN D = {k \in Devices : Sends(t, d, k)}
      /\ \A k \in Devices : Sends(t, d, k) => D[k] = t.config[k]
  BY <1>1, <1>2
<1>4. DOMAIN D = {} <=> Nothing(t, d)
  BY <1>3 DEF Nothing
<1>5. ASSUME NEW x
      PROVE  x \in OwnPart(D, d) <=> x \in Own(t, d)
  <2>1. x \in OwnPart(D, d) <=>
            \E k \in DOMAIN D, c \in Classes :
                D[k].mod[c] # Absent /\ D[k].mod[c][1] = d /\ x = <<k, c, D[k].mod[c]>>
    <3> DEFINE cs(k) == {c \in Classes : D[k].mod[c] # Absent /\ D[k].mod[c][1] = d}
               part(k) == {<<k, c, D[k].mod[c]>> : c \in cs(k)}
    <3>1. OwnPart(D, d) = UNION {part(k) : k \in DOMAIN D}
      BY DEF OwnPart
    <3>2. \A k : x \in part(k) <=> \E c \in cs(k) : x = <<k, c, D[k].mod[c]>>
      BY Zenon
    <3>3. \A k : \A c : c \in cs(k) <=> c \in Classes /\ D[k].mod[c] # Absent /\ D[k].mod[c][1] = d
      BY Zenon
    <3> HIDE DEF part, cs
    <3>4. x \in OwnPart(D, d) <=> \E k \in DOMAIN D : x \in part(k)
      BY <3>1, Zenon
    <3>5. QED
      BY <3>2, <3>3, <3>4, Zenon
  <2>2. x \in Own(t, d) <=>
            \E k \in Devices, c \in Classes :
                Runs(t, d, k, c) /\ x = <<k, c, t.config[k].mod[c]>>
    <3> DEFINE P(k, c) == Runs(t, d, k, c) /\ x = <<k, c, t.config[k].mod[c]>>
    <3>1. x \in Own(t, d) <=> \E m \in Devices \X Classes : P(m[1], m[2])
      BY Zenon DEF Own
    <3> HIDE DEF P
    <3>2. ASSUME NEW m \in Devices \X Classes
          PROVE  \E k \in Devices, c \in Classes : m[1] = k /\ m[2] = c
      OBVIOUS
    <3>3. ASSUME NEW k \in Devices, NEW c \in Classes
          PROVE  \E m \in Devices \X Classes : m[1] = k /\ m[2] = c
      <4>1. <<k, c>> \in Devices \X Classes /\ <<k, c>>[1] = k /\ <<k, c>>[2] = c
        OBVIOUS
      <4>2. QED
        BY <4>1, Zenon
    <3>4. x \in Own(t, d) <=> \E k \in Devices, c \in Classes : P(k, c)
      <4>1. ASSUME x \in Own(t, d)
            PROVE  \E k \in Devices, c \in Classes : P(k, c)
        <5>1. PICK m \in Devices \X Classes : P(m[1], m[2])
          BY <4>1, <3>1
        <5>2. PICK k \in Devices, c \in Classes : m[1] = k /\ m[2] = c
          BY <3>2, Zenon
        <5>3. QED
          BY <5>1, <5>2
      <4>2. ASSUME NEW k \in Devices, NEW c \in Classes, P(k, c)
            PROVE  x \in Own(t, d)
        <5>1. PICK m \in Devices \X Classes : m[1] = k /\ m[2] = c
          BY <3>3, Zenon
        <5>2. QED
          BY <4>2, <5>1, <3>1
      <4>3. QED
        BY <4>1, <4>2
    <3>5. QED
      BY <3>4 DEF P
  <2>3. QED
    BY <2>1, <2>2, <1>3 DEF Runs
<1>6. QED
  BY <1>3, <1>4, <1>5 DEF D

LEMMA SameRuns ==
    ASSUME NEW t \in Tables, NEW u \in Tables, NEW d \in Devices,
           \A k \in Devices, c \in Classes :
               /\ Runs(t, d, k, c) <=> Runs(u, d, k, c)
               /\ Runs(t, d, k, c) => t.config[k].mod[c] = u.config[k].mod[c]
    PROVE  Own(t, d) = Own(u, d)
<1>1. ASSUME NEW m \in Devices \X Classes
      PROVE  /\ Runs(t, d, m[1], m[2]) <=> Runs(u, d, m[1], m[2])
             /\ Runs(t, d, m[1], m[2]) =>
                   <<m[1], m[2], t.config[m[1]].mod[m[2]]>>
                       = <<m[1], m[2], u.config[m[1]].mod[m[2]]>>
  <2>1. m[1] \in Devices /\ m[2] \in Classes
    OBVIOUS
  <2>2. QED
    BY <2>1
<1>2. QED
  BY <1>1, Zenon DEF Own

\* A device whose clusters are as they were.
LEMMA SameClusters ==
    ASSUME NEW t \in Tables, NEW u \in Tables, NEW d \in Devices,
           t.sn2mods[d] = u.sn2mods[d],
           \A c \in Classes : t.mod2mgr[<<d, c>>] = u.mod2mgr[<<d, c>>],
           \A k \in Devices : (\E c \in t.sn2mods[d] : t.mod2mgr[<<d, c>>] = k)
                                  => t.config[k] = u.config[k]
    PROVE  /\ Own(t, d) = Own(u, d)
           /\ Nothing(t, d) <=> Nothing(u, d)
<1>1. t.sn2mods[d] \subseteq Classes
  BY DEF Tables
<1>2. \A k \in Devices : Sends(t, d, k) <=> Sends(u, d, k)
  BY <1>1 DEF Sends
<1>3. \A k \in Devices : Sends(t, d, k) => t.config[k] = u.config[k]
  BY DEF Sends
<1>4. \A k \in Devices, c \in Classes :
               /\ Runs(t, d, k, c) <=> Runs(u, d, k, c)
               /\ Runs(t, d, k, c) => t.config[k].mod[c] = u.config[k].mod[c]
  BY <1>2, <1>3 DEF Runs
<1>5. QED
  BY <1>2, <1>4, SameRuns DEF Nothing

LEMMA NothingOwn ==
    ASSUME NEW t \in Tables, NEW d \in Devices, Nothing(t, d)
    PROVE  Own(t, d) = {}
<1>1. ASSUME NEW m \in Devices \X Classes
      PROVE  ~Runs(t, d, m[1], m[2])
  <2>1. m[1] \in Devices
    OBVIOUS
  <2>2. QED
    BY <2>1 DEF Nothing, Runs
<1>2. QED
  BY <1>1, Zenon DEF Own

\* A device that a cluster's new configuration does not concern, in what is sent and in
\* what is not, runs what it ran.
LEMMA AcceptedOwn ==
    ASSUME tables \in Tables, Listed(tables), NEW k \in Devices, NEW v \in Config,
           NEW d \in Devices,
           d \notin Delta(k, Reconciled(k).config[k], v),
           d \notin Quiet(k, Reconciled(k).config[k], v),
           d \notin Forgotten(k),
           NEW u, u = WithModules(Entered(k, v), k, v, Classes)
    PROVE  Own(u, d) = Own(tables, d)
<1> DEFINE old == Reconciled(k).config[k]
<1>1. /\ u \in Tables /\ u.config[k] = v
      /\ \A j \in Devices : j # k => u.config[j] = tables.config[j]
      /\ u.sn2mods[d] = tables.sn2mods[d] \cup ModulesOn(v, d, Classes)
      /\ \A c \in Classes : u.mod2mgr[<<d, c>>]
            = IF c \in ModulesOn(v, d, Classes) THEN k ELSE tables.mod2mgr[<<d, c>>]
  BY AcceptedIs
<1>2. old \in Config \cup {Empty} /\ (d \notin Forgotten(k) =>
          old = tables.config[k] \/ \A c \in Classes : tables.mod2mgr[<<d, c>>] # k)
  BY ReconciledIs DEF Forgotten, Tables
<1>3. \A c \in ModulesOn(v, d, Classes) : tables.mod2mgr[<<d, c>>] = k
  <2>1. ASSUME NEW c \in Classes, v.mod[c] # Absent, v.mod[c][1] = d,
               tables.mod2mgr[<<d, c>>] # k
        PROVE  d \in Quiet(k, Reconciled(k).config[k], v)
    BY <2>1 DEF Quiet
  <2>2. QED
    BY <2>1 DEF ModulesOn
<1>4. /\ u.sn2mods[d] = tables.sn2mods[d]
      /\ \A c \in Classes : u.mod2mgr[<<d, c>>] = tables.mod2mgr[<<d, c>>]
  <2>1. ModulesOn(v, d, Classes) \subseteq tables.sn2mods[d]
    BY <1>3, CloudConfigAssumption DEF Listed, ModulesOn
  <2>2. QED
    BY <2>1, <1>1, <1>3
<1> HIDE DEF old
<1>5. ASSUME NEW c \in Classes, old = tables.config[k]
      PROVE  LET Has(w) == w # Empty /\ w.mod[c] # Absent /\ w.mod[c][1] = d
             IN  (Has(old) <=> Has(v)) /\ (Has(v) => old.mod[c] = v.mod[c])
  <2>1. v # Empty /\ d \notin Delta(k, old, v) /\ d \notin Quiet(k, old, v)
    BY CloudConfigAssumption DEF old
  <2>2. CASE old = v
    BY <2>2
  <2>3. CASE old = Empty
    <3>1. d \notin On(v)
      BY <2>1, <2>3 DEF Delta
    <3>2. QED
      BY <3>1, <2>3 DEF On
  <2>4. CASE old # v /\ old # Empty
    <3>1. d \notin Changed(old, v)
      BY <2>1, <2>4 DEF Delta
    <3>2. ~(Present(old, v, c) /\ old.mod[c] # v.mod[c] /\ (old.mod[c][1] = d \/ v.mod[c][1] = d))
      BY <3>1 DEF Changed
    <3>3. ~(old.mod[c] # Absent /\ v.mod[c] = Absent /\ old.mod[c][1] = d)
      BY <2>1, <2>4 DEF Quiet
    <3>4. ~(v.mod[c] # Absent /\ old.mod[c] = Absent /\ v.mod[c][1] = d)
      BY <2>1, <2>4 DEF Quiet
    <3>5. QED
      BY <2>1, <2>4, <3>2, <3>3, <3>4 DEF Present
  <2>5. QED
    BY <2>2, <2>3, <2>4
<1>6. ASSUME NEW j \in Devices, NEW c \in Classes
      PROVE  /\ Runs(u, d, j, c) <=> Runs(tables, d, j, c)
             /\ Runs(u, d, j, c) => u.config[j].mod[c] = tables.config[j].mod[c]
  <2>1. tables.sn2mods[d] \subseteq Classes
    BY DEF Tables
  <2>2. CASE j # k
    <3>1. u.config[j] = tables.config[j]
      BY <2>2, <1>1
    <3>2. QED
      BY <3>1, <2>1, <1>4 DEF Runs, Sends
  <2>3. CASE j = k /\ \E b \in tables.sn2mods[d] : tables.mod2mgr[<<d, b>>] = k
    <3>1. old = tables.config[k] /\ u.config[k] = v
      BY <2>1, <2>3, <1>1, <1>2
    <3>2. \E b \in u.sn2mods[d] : u.mod2mgr[<<d, b>>] = k
      BY <2>1, <2>3, <1>4
    <3>3. QED
      BY <2>3, <3>1, <3>2, <1>5 DEF Runs, Sends
  <2>4. CASE j = k /\ ~\E b \in tables.sn2mods[d] : tables.mod2mgr[<<d, b>>] = k
    <3>1. ~\E b \in u.sn2mods[d] : u.mod2mgr[<<d, b>>] = k
      BY <2>1, <2>4, <1>4
    <3>2. QED
      BY <2>4, <3>1 DEF Runs, Sends
  <2>5. QED
    BY <2>2, <2>3, <2>4
<1>7. QED
  BY <1>1, <1>6, SameRuns

\* A device that is sent nothing after a cluster is entered was sent nothing before.
LEMMA AcceptedNothing ==
    ASSUME tables \in Tables, NEW k \in Devices, NEW v \in Config, NEW d \in Devices,
           NEW u, u = WithModules(Entered(k, v), k, v, Classes), Nothing(u, d)
    PROVE  Nothing(tables, d)
<1>1. /\ u \in Tables /\ u.config[k] = v
      /\ \A j \in Devices : j # k => u.config[j] = tables.config[j]
      /\ u.sn2mods[d] = tables.sn2mods[d] \cup ModulesOn(v, d, Classes)
      /\ \A c \in Classes : u.mod2mgr[<<d, c>>]
            = IF c \in ModulesOn(v, d, Classes) THEN k ELSE tables.mod2mgr[<<d, c>>]
  BY AcceptedIs
<1>2. v # Empty
  BY CloudConfigAssumption
<1>3. ASSUME NEW j \in Devices, Sends(tables, d, j)
      PROVE  FALSE
  <2>1. PICK c \in tables.sn2mods[d] : tables.mod2mgr[<<d, c>>] = j
    BY <1>3 DEF Sends
  <2>2. c \in Classes /\ c \in u.sn2mods[d]
    BY <1>1 DEF Tables
  <2>3. CASE u.mod2mgr[<<d, c>>] = k
    <3>1. Sends(u, d, k)
      BY <2>2, <2>3, <1>1, <1>2 DEF Sends
    <3>2. QED
      BY <3>1 DEF Nothing
  <2>4. CASE u.mod2mgr[<<d, c>>] # k
    <3>1. u.mod2mgr[<<d, c>>] = j /\ j # k
      BY <2>1, <2>2, <2>4, <1>1
    <3>2. u.config[j] = tables.config[j]
      BY <3>1, <1>1
    <3>3. Sends(u, d, j)
      BY <2>2, <3>1, <3>2, <1>3 DEF Sends
    <3>4. QED
      BY <3>3 DEF Nothing
  <2>5. QED
    BY <2>3, <2>4
<1>4. QED
  BY <1>3 DEF Nothing

\* Reconciling changes what a device gets only if its cluster is forgotten.
LEMMA ReconciledOwn ==
    ASSUME tables \in Tables, NEW k \in Devices, NEW d \in Devices, d \notin Forgotten(k)
    PROVE  /\ Own(Reconciled(k), d) = Own(tables, d)
           /\ Nothing(Reconciled(k), d) <=> Nothing(tables, d)
<1> DEFINE r == Reconciled(k)
<1>1. /\ r \in Tables /\ r.sn2mods = tables.sn2mods /\ r.mod2mgr = tables.mod2mgr
      /\ \A j \in Devices : j # k => r.config[j] = tables.config[j]
  BY ReconciledIs
<1>2. r.config[k] = tables.config[k] \/ \A c \in Classes : tables.mod2mgr[<<d, c>>] # k
  BY DEF Forgotten
<1> HIDE DEF r
<1>3. tables.sn2mods[d] \subseteq Classes
  BY DEF Tables
<1>4. \A j \in Devices : (\E c \in r.sn2mods[d] : r.mod2mgr[<<d, c>>] = j)
                            => r.config[j] = tables.config[j]
  BY <1>1, <1>2, <1>3
<1>5. Own(r, d) = Own(tables, d) /\ (Nothing(r, d) <=> Nothing(tables, d))
  BY <1>1, <1>4, SameClusters
<1>6. QED
  BY <1>5 DEF r

\* What is sent from the tables after a step.
LEMMA AfterStep ==
    ASSUME NEW d \in Devices
    PROVE  /\ EmptyHanded(tables, d)' <=> (Nothing(tables', d) => OwnPart(got'[d], d) = {})
           /\ EmptyHanded(job.copy, d)' <=> (Nothing(job'.copy, d) => OwnPart(got'[d], d) = {})
           /\ Equipped(tables, d)' <=>
                 (d \in connected' /\ inbox'[d] = <<>> /\ d \notin misread'
                     => OwnPart(got'[d], d) = Own(tables', d))
           /\ Equipped(job.copy, d)' <=>
                 (d \in connected' /\ inbox'[d] = <<>> /\ d \notin misread'
                     => OwnPart(got'[d], d) = Own(job'.copy, d))
BY DEF EmptyHanded, Equipped

LEMMA BeginFollow ==
    ASSUME StoreTypes, FollowInv, Begin
    PROVE  FollowInv'
<1>1. PICK r \in Requests : job' = [Idle EXCEPT !.body = r, !.left = DOMAIN r, !.copy = tables]
  BY DEF Begin
<1>2. job'.copy = tables /\ job'.quiet = {} /\ job'.delta = {} /\ job'.early = {}
  <2>1. Idle \in Jobs /\ Idle.quiet = {} /\ Idle.delta = {} /\ Idle.early = {}
    BY NoTablesIs DEF Idle
  <2>2. QED
    BY <1>1, <2>1 DEF Jobs
<1>3. UNCHANGED <<tables, savedMap, connected, inbox, got, misread, untold>>
  BY DEF Begin
<1>4. ~Busy
  BY DEF Begin
<1>5. FollowTypes'
  BY <1>2, <1>3 DEF FollowInv, FollowTypes, Listed
<1>6. \A d \in Devices : MarkIsRight(d)'
  BY <1>3 DEF FollowInv, MarkIsRight
<1>7. ASSUME NEW d \in Devices \ untold'
      PROVE  /\ EmptyHanded(tables, d)' /\ Equipped(tables, d)'
             /\ EmptyHanded(job.copy, d)' /\ Equipped(job.copy, d)'
  <2>1. EmptyHanded(tables, d) /\ Equipped(tables, d)
    BY <1>3, <1>4, <1>7 DEF FollowInv
  <2>2. QED
    BY <2>1, <1>2, <1>3, AfterStep DEF EmptyHanded, Equipped
<1>8. QED
  BY <1>5, <1>6, <1>7 DEF FollowInv

\* Steps of the request that leave the devices, and the history of them, alone.
LEMMA ApplyFollow ==
    ASSUME StoreTypes, FollowInv, ApplyCluster
    PROVE  FollowInv'
<1>1. UNCHANGED <<savedMap, connected, inbox, got, misread, untold>>
  BY DEF ApplyCluster, history
<1>2. tables \in Tables /\ job \in Jobs
  BY DEF StoreTypes
<1>3. PICK k \in job.left :
          \/ /\ job.body[k] = Empty
             /\ tables' = Reconciled(k)
             /\ job' = [job EXCEPT !.left = @ \ {k}, !.quiet = @ \cup Forgotten(k)]
             /\ UNCHANGED savedConfig
          \/ job.body[k] # Empty /\ (Refuse(k, job.body[k]) \/ Accept(k, job.body[k]))
  BY DEF ApplyCluster
<1> DEFINE v == job.body[k]
<1>4. k \in Devices /\ v \in Config \cup {Empty} /\ Busy
  <2>1. job.body \in AllBodies /\ k \in DOMAIN job.body
    BY DEF StoreTypes, Jobs
  <2>2. Idle.left = {}
    BY NoTablesIs
  <2>3. QED
    BY <2>1, <2>2, BodyTypes DEF Busy
<1> HIDE DEF v
\* What is to be shown of the new tables.
<1> DEFINE Left == /\ tables' \in Tables /\ Listed(tables') /\ tables'.online = tables.online
                   /\ job'.copy = job.copy /\ job'.early = job.early
                   /\ job'.body = job.body
                   /\ ~job'.failed =>
                         /\ ~job.failed
                         /\ job.delta \subseteq job'.delta /\ job.quiet \subseteq job'.quiet
                         /\ \A d \in Devices \ job'.quiet :
                               /\ Nothing(tables', d) => Nothing(tables, d)
                               /\ d \notin job'.delta => Own(tables', d) = Own(tables, d)
<1>5. ASSUME v = Empty, tables' = Reconciled(k),
             job' = [job EXCEPT !.left = @ \ {k}, !.quiet = @ \cup Forgotten(k)]
      PROVE  Left
  <2>1. /\ tables' \in Tables /\ tables'.online = tables.online
        /\ tables'.sn2mods = tables.sn2mods /\ tables'.mod2mgr = tables.mod2mgr
    BY <1>2, <1>4, <1>5, ReconciledIs
  <2>2. Listed(tables')
    BY <2>1 DEF FollowInv, FollowTypes, Listed
  <2>3. /\ job'.copy = job.copy /\ job'.early = job.early /\ job'.body = job.body
        /\ job'.failed = job.failed /\ job'.delta = job.delta
        /\ job'.quiet = job.quiet \cup Forgotten(k)
    BY <1>2, <1>5 DEF Jobs
  <2>4. ASSUME NEW d \in Devices \ job'.quiet
        PROVE  /\ Nothing(tables', d) => Nothing(tables, d)
               /\ Own(tables', d) = Own(tables, d)
    <3>1. d \notin Forgotten(k)
      BY <2>3, <2>4
    <3>2. QED
      BY <3>1, <1>2, <1>4, <1>5, ReconciledOwn
  <2>5. QED
    BY <2>1, <2>2, <2>3, <2>4
<1>6. ASSUME v \in Config, Refuse(k, v)
      PROVE  Left
  <2> DEFINE t == [Reconciled(k) EXCEPT !.known = @ \cup {k}]
  <2>1. PICK cs \in SUBSET Classes : tables' = WithModules(t, k, v, cs)
    BY <1>6 DEF Refuse
  <2>2. /\ t \in Tables /\ t.sn2mods = tables.sn2mods /\ t.mod2mgr = tables.mod2mgr
        /\ t.online = tables.online
    BY <1>2, <1>4, HalfEnteredIs
  <2> HIDE DEF t
  <2> DEFINE w == WithModules(t, k, v, cs)
  <2>3. /\ w \in Tables /\ w.online = t.online
        /\ \A d \in Devices : w.sn2mods[d] = t.sn2mods[d] \cup ModulesOn(v, d, cs)
        /\ \A d \in Devices, c \in Classes :
              w.mod2mgr[<<d, c>>] = IF c \in ModulesOn(v, d, cs) THEN k ELSE t.mod2mgr[<<d, c>>]
    BY <1>4, <1>6, <2>2, WithModulesIs
  <2>4. tables' = w
    BY <2>1
  <2> HIDE DEF w
  <2>5. Listed(tables')
    BY <2>2, <2>3, <2>4 DEF FollowInv, FollowTypes, Listed
  <2>6. job'.copy = job.copy /\ job'.early = job.early /\ job'.failed /\ job'.body = job.body
    <3>1. job' = [job EXCEPT !.left = {}, !.failed = TRUE]
      BY <1>6 DEF Refuse
    <3>2. QED
      BY <3>1, <1>2 DEF Jobs
  <2>7. QED
    BY <2>2, <2>3, <2>4, <2>5, <2>6
<1>7. ASSUME v \in Config, Accept(k, v)
      PROVE  Left
  <2> DEFINE old == Reconciled(k).config[k]
             told == [job EXCEPT !.left = @ \ {k}, !.delta = @ \cup Delta(k, old, v),
                                 !.quiet = @ \cup Quiet(k, old, v) \cup Forgotten(k)]
             u == WithModules(Entered(k, v), k, v, Classes)
  <2>1. /\ tables' = u
        /\ job' = told \/ job' = [told EXCEPT !.failed = TRUE]
    BY <1>7 DEF Accept, Entered
  <2>2. /\ told.copy = job.copy /\ told.early = job.early /\ told.failed = job.failed
        /\ told.body = job.body
        /\ told.delta = job.delta \cup Delta(k, old, v)
        /\ told.quiet = job.quiet \cup Quiet(k, old, v) \cup Forgotten(k)
    BY <1>2 DEF Jobs
  <2>3. /\ u \in Tables
        /\ \A d \in Devices : u.sn2mods[d] = tables.sn2mods[d] \cup ModulesOn(v, d, Classes)
        /\ \A d \in Devices, c \in Classes : u.mod2mgr[<<d, c>>]
              = IF c \in ModulesOn(v, d, Classes) THEN k ELSE tables.mod2mgr[<<d, c>>]
        /\ u.online = tables.online
    BY <1>2, <1>4, <1>7, AcceptedIs
  <2>4. ASSUME NEW d \in Devices
        PROVE  /\ Nothing(u, d) => Nothing(tables, d)
               /\ d \notin Delta(k, old, v) \cup Quiet(k, old, v) \cup Forgotten(k)
                     => Own(u, d) = Own(tables, d)
    <3>1. Nothing(u, d) => Nothing(tables, d)
      BY <1>2, <1>4, <1>7, AcceptedNothing
    <3>2. Listed(tables)
      BY DEF FollowInv, FollowTypes
    <3>3. d \notin Delta(k, old, v) \cup Quiet(k, old, v) \cup Forgotten(k)
              => Own(u, d) = Own(tables, d)
      BY <1>2, <1>4, <1>7, <3>2, AcceptedOwn
    <3>4. QED
      BY <3>1, <3>3
  <2> HIDE DEF u, told, old
  <2>5. Listed(tables')
    BY <2>1, <2>3 DEF FollowInv, FollowTypes, Listed
  <2>6. /\ job'.copy = job.copy /\ job'.early = job.early /\ job'.body = job.body
        /\ job'.failed \/ job' = told
    <3>1. told \in Jobs
      BY <1>2, <1>4, <1>7, ToldIs DEF told, old
    <3>2. QED
      BY <3>1, <2>1, <2>2 DEF Jobs
  <2>7. QED
    BY <2>1, <2>2, <2>3, <2>4, <2>5, <2>6
<1>8. Left
  <2>1. v # Empty => v \in Config
    BY <1>4
  <2>2. QED
    BY <2>1, <1>3, <1>5, <1>6, <1>7 DEF v
<1>9. Busy'
  <2>1. k \in DOMAIN job.body /\ DOMAIN Idle.body = {}
    BY NoTablesIs DEF StoreTypes
  <2>2. job'.body = job.body
    BY <1>8
  <2>3. QED
    BY <2>1, <2>2 DEF Busy
<1>10. FollowTypes'
  BY <1>1, <1>8 DEF FollowInv, FollowTypes, Listed
<1>11. \A d \in Devices : MarkIsRight(d)'
  BY <1>1, <1>8 DEF FollowInv, MarkIsRight
<1>12. ASSUME NEW d \in Devices \ (untold \cup job.early)'
       PROVE  EmptyHanded(job.copy, d)' /\ Equipped(job.copy, d)'
  <2>1. EmptyHanded(job.copy, d) /\ Equipped(job.copy, d)
    BY <1>1, <1>4, <1>8, <1>12 DEF FollowInv
  <2>2. QED
    BY <2>1, <1>1, <1>8, AfterStep DEF EmptyHanded, Equipped
<1>13. ASSUME ~job'.failed, NEW d \in Devices \ (untold \cup job.quiet)'
       PROVE  EmptyHanded(tables, d)' /\ (d \notin job'.delta => Equipped(tables, d)')
  <2>1. /\ EmptyHanded(tables, d) /\ (d \notin job.delta => Equipped(tables, d))
        /\ Nothing(tables', d) => Nothing(tables, d)
        /\ d \notin job'.delta => d \notin job.delta /\ Own(tables', d) = Own(tables, d)
    BY <1>1, <1>4, <1>8, <1>13 DEF FollowInv
  <2>2. QED
    BY <2>1, <1>1, AfterStep DEF EmptyHanded, Equipped
<1>14. QED
  BY <1>9, <1>10, <1>11, <1>12, <1>13 DEF FollowInv

\* Tables that differ in the marks "online" alone send the same.
LEMMA OnlineOnly ==
    ASSUME tables \in Tables, tables' \in Tables, tables'.sn2mods = tables.sn2mods,
           tables'.mod2mgr = tables.mod2mgr, tables'.config = tables.config,
           NEW d \in Devices
    PROVE  /\ Own(tables', d) = Own(tables, d)
           /\ Nothing(tables', d) <=> Nothing(tables, d)
<1> DEFINE u == tables'
<1>1. u \in Tables /\ u.sn2mods[d] = tables.sn2mods[d]
      /\ (\A c \in Classes : u.mod2mgr[<<d, c>>] = tables.mod2mgr[<<d, c>>])
      /\ u.config = tables.config
  OBVIOUS
<1> HIDE DEF u
<1>2. Own(u, d) = Own(tables, d) /\ (Nothing(u, d) <=> Nothing(tables, d))
  BY <1>1, SameClusters
<1>3. QED
  BY <1>2 DEF u

\* What Sent does for a device.
LEMMA SentTo ==
    ASSUME tables \in Tables, NEW ds \in SUBSET Devices, Sent(tables, ds), NEW d \in Devices
    PROVE  \/ /\ d \in ds /\ d \in connected /\ ~Nothing(tables, d)
              /\ OwnPart(got'[d], d) = Own(tables, d)
              /\ d \notin untold'
           \/ /\ d \notin ds \/ d \notin connected \/ Nothing(tables, d)
              /\ got'[d] = got[d]
              /\ d \in untold' <=> d \in untold \/ d \in job.quiet
<1>1. d \in Reached(tables, ds) <=> d \in ds /\ d \in connected /\ ~Nothing(tables, d)
  BY SentIs DEF Reached
<1>2. got'[d] = IF d \in Reached(tables, ds) THEN ConfigForDevice(tables, d) ELSE got[d]
  BY DEF Sent
<1>3. d \in untold' <=> (d \in untold \/ d \in job.quiet) /\ d \notin Reached(tables, ds)
  BY DEF Sent
<1>4. OwnPart(ConfigForDevice(tables, d), d) = Own(tables, d)
  BY SentIs
<1>5. QED
  BY <1>1, <1>2, <1>3, <1>4

LEMMA CompleteFollow ==
    ASSUME StoreTypes, FollowInv, Complete
    PROVE  FollowInv'
<1>1. /\ Busy /\ ~job.failed /\ savedMap' = MapOf(tables) /\ Sent(tables, job.delta) /\ job' = Idle
      /\ UNCHANGED <<tables, connected, inbox, misread>>
  BY DEF Complete
<1>2. tables \in Tables /\ job.delta \in SUBSET Devices
  BY DEF StoreTypes, Jobs
<1>3. ~Busy'
  BY <1>1 DEF Busy, Idle, NoTables
<1>4. FollowTypes'
  <2>1. Listed(NoTables) /\ Idle.copy = NoTables
    BY NoTablesIs DEF Listed, NoTables
  <2>2. savedMap'.sn2mods = tables.sn2mods /\ savedMap'.mod2mgr = tables.mod2mgr
    BY <1>1, <1>2, MapOfTables
  <2>3. QED
    BY <1>1, <2>1, <2>2 DEF FollowInv, FollowTypes, Listed
<1>5. \A d \in Devices : MarkIsRight(d)'
  BY <1>1 DEF FollowInv, MarkIsRight
<1>6. ASSUME NEW d \in Devices \ untold'
      PROVE  EmptyHanded(tables, d)' /\ Equipped(tables, d)'
  <2>1. CASE ~Nothing(tables, d) /\ OwnPart(got'[d], d) = Own(tables, d)
    BY <2>1, <1>1, AfterStep
  <2>2. CASE /\ d \notin job.delta \/ d \notin connected \/ Nothing(tables, d)
             /\ got'[d] = got[d] /\ d \notin untold /\ d \notin job.quiet
    <3>1. EmptyHanded(tables, d) /\ (d \notin job.delta => Equipped(tables, d))
      BY <2>2, <1>1 DEF FollowInv
    <3>2. Nothing(tables, d) => Own(tables, d) = {}
      BY <1>2, NothingOwn
    <3>3. QED
      BY <2>2, <3>1, <3>2, <1>1, AfterStep DEF EmptyHanded, Equipped
  <2>3. QED
    BY <2>1, <2>2, <1>1, <1>2, <1>6, SentTo
<1>7. QED
  BY <1>3, <1>4, <1>5, <1>6 DEF FollowInv

LEMMA UndoFollow ==
    ASSUME StoreTypes, FollowInv, Undo
    PROVE  FollowInv'
<1>1. /\ Busy /\ tables' = job.copy /\ job' = Idle
      /\ misread' = misread \cup (job.copy.online \ tables.online)
                            \cup (tables.online \ job.copy.online)
      /\ untold' = untold \cup job.early
      /\ UNCHANGED <<savedMap, connected, inbox, got>>
  BY DEF Undo, PutBack
<1>2. ~Busy'
  BY <1>1 DEF Busy, Idle, NoTables
<1>3. FollowTypes'
  <2>1. Listed(NoTables) /\ Idle.copy = NoTables
    BY NoTablesIs DEF Listed, NoTables
  <2>2. QED
    BY <1>1, <2>1 DEF FollowInv, FollowTypes, Listed
<1>4. ASSUME NEW d \in Devices
      PROVE  MarkIsRight(d)'
  <2>1. d \notin misread' => d \notin misread /\ (d \in tables'.online <=> d \in tables.online)
    BY <1>1
  <2>2. MarkIsRight(d)
    BY DEF FollowInv
  <2>3. QED
    BY <2>1, <2>2, <1>1 DEF MarkIsRight
<1>5. ASSUME NEW d \in Devices \ untold'
      PROVE  EmptyHanded(tables, d)' /\ Equipped(tables, d)'
  <2>1. EmptyHanded(job.copy, d) /\ Equipped(job.copy, d)
    BY <1>1, <1>5 DEF FollowInv
  <2>2. QED
    BY <2>1, <1>1, AfterStep DEF EmptyHanded, Equipped
<1>6. QED
  BY <1>2, <1>3, <1>4, <1>5 DEF FollowInv

LEMMA DeleteFollow ==
    ASSUME StoreTypes, FollowInv, NEW sn \in Devices, Delete(sn)
    PROVE  FollowInv'
<1>1. tables \in Tables /\ job \in Jobs
  BY DEF StoreTypes
<1>2. /\ tables' = Removed(sn) /\ savedMap' \in {savedMap, MapOf(tables')}
      /\ misread' = misread \cup {sn}
      /\ untold' = untold \cup {d \in Devices : \E c \in Classes : tables.mod2mgr[<<d, c>>] = sn}
                          \cup {sn}
      /\ job' = IF Busy THEN [job EXCEPT !.gone = @ \cup {sn}] ELSE job
      /\ UNCHANGED <<connected, inbox, got>>
  BY DEF Delete
<1>3. /\ job'.copy = job.copy /\ job'.early = job.early /\ job'.quiet = job.quiet
      /\ job'.delta = job.delta /\ job'.failed = job.failed /\ (Busy' => Busy)
  BY <1>1, <1>2 DEF Jobs, Busy
<1>4. ~Busy' => ~Busy
  <2>1. Busy => sn \in job'.gone /\ Idle.gone = {}
    BY <1>1, <1>2 DEF Jobs, Idle
  <2>2. QED
    BY <2>1 DEF Busy
<1> DEFINE u == Removed(sn)
<1>5. /\ u \in Tables /\ u.online = tables.online \ {sn} /\ u.sn2mods[sn] = {}
      /\ \A j \in Devices : j # sn => /\ u.config[j] = tables.config[j]
                                      /\ u.sn2mods[j] = tables.sn2mods[j]
      /\ \A d \in Devices, c \in Classes :
            u.mod2mgr[<<d, c>>] = IF d = sn THEN Absent ELSE tables.mod2mgr[<<d, c>>]
  BY <1>1, RemovedIs
<1>6. tables' = u
  BY <1>2
<1> HIDE DEF u
<1>7. FollowTypes'
  <2>1. Listed(tables')
    BY <1>5, <1>6 DEF FollowInv, FollowTypes, Listed
  <2>2. MapOf(u).sn2mods = u.sn2mods /\ MapOf(u).mod2mgr = u.mod2mgr
    BY <1>5, MapOfTables
  <2>3. savedMap' = savedMap \/ savedMap' = MapOf(u)
    BY <1>2, <1>6
  <2>4. Listed(savedMap')
    BY <2>1, <2>2, <2>3, <1>6 DEF FollowInv, FollowTypes, Listed
  <2>5. QED
    BY <2>1, <2>4, <1>2, <1>3 DEF FollowInv, FollowTypes, Listed
<1>8. \A d \in Devices : MarkIsRight(d)'
  BY <1>2, <1>5, <1>6 DEF FollowInv, MarkIsRight
<1>9. ASSUME NEW d \in Devices \ untold'
      PROVE  /\ Own(tables', d) = Own(tables, d)
             /\ Nothing(tables', d) <=> Nothing(tables, d)
  <2>1. d # sn /\ \A c \in Classes : tables.mod2mgr[<<d, c>>] # sn
    BY <1>2, <1>9
  <2>2. u.sn2mods[d] \subseteq Classes
    BY <1>5 DEF Tables
  <2>3. \A j \in Devices : (\E c \in u.sn2mods[d] : u.mod2mgr[<<d, c>>] = j)
                               => u.config[j] = tables.config[j]
    BY <2>1, <2>2, <1>5
  <2>4. Own(u, d) = Own(tables, d) /\ (Nothing(u, d) <=> Nothing(tables, d))
    BY <2>1, <2>3, <1>1, <1>5, SameClusters
  <2>5. QED
    BY <2>4, <1>6
<1>10. ASSUME ~Busy', NEW d \in Devices \ untold'
       PROVE  EmptyHanded(tables, d)' /\ Equipped(tables, d)'
  <2>1. EmptyHanded(tables, d) /\ Equipped(tables, d)
    BY <1>2, <1>4, <1>10 DEF FollowInv
  <2>2. QED
    BY <2>1, <1>2, <1>9, <1>10, AfterStep DEF EmptyHanded, Equipped
<1>11. ASSUME Busy', NEW d \in Devices \ (untold \cup job.early)'
       PROVE  EmptyHanded(job.copy, d)' /\ Equipped(job.copy, d)'
  <2>1. EmptyHanded(job.copy, d) /\ Equipped(job.copy, d)
    BY <1>2, <1>3, <1>11 DEF FollowInv
  <2>2. QED
    BY <2>1, <1>2, <1>3, AfterStep DEF EmptyHanded, Equipped
<1>12. ASSUME Busy', ~job'.failed, NEW d \in Devices \ (untold \cup job.quiet)'
       PROVE  EmptyHanded(tables, d)' /\ (d \notin job'.delta => Equipped(tables, d)')
  <2>1. EmptyHanded(tables, d) /\ (d \notin job.delta => Equipped(tables, d))
    BY <1>2, <1>3, <1>12 DEF FollowInv
  <2>2. QED
    BY <2>1, <1>2, <1>3, <1>9, <1>12, AfterStep DEF EmptyHanded, Equipped
<1>13. QED
  BY <1>7, <1>8, <1>10, <1>11, <1>12 DEF FollowInv

LEMMA RestartFollow ==
    ASSUME StoreTypes, FollowInv, Restart
    PROVE  FollowInv'
<1>1. /\ tables' = Loaded /\ job' = Idle /\ connected' = {}
      /\ inbox' = [d \in Devices |-> <<>>] /\ misread' = {}
      /\ untold' = untold \cup {d \in Devices : DOMAIN ConfigForDevice(Loaded, d) = {}}
      /\ UNCHANGED <<savedMap, got>>
  BY DEF Restart
<1>2. /\ Loaded \in Tables /\ Loaded.sn2mods = savedMap.sn2mods
      /\ Loaded.mod2mgr = savedMap.mod2mgr /\ Loaded.online = {}
  BY LoadedIs DEF StoreTypes
<1>3. ~Busy'
  BY <1>1 DEF Busy, Idle, NoTables
<1>4. FollowTypes'
  <2>1. Listed(NoTables) /\ Idle.copy = NoTables
    BY NoTablesIs DEF Listed, NoTables
  <2>2. inbox' \in [Devices -> Seq({"note"})]
    BY <1>1
  <2>3. QED
    BY <1>1, <1>2, <2>1, <2>2 DEF FollowInv, FollowTypes, Listed
<1>5. \A d \in Devices : MarkIsRight(d)'
  BY <1>1, <1>2 DEF MarkIsRight
<1>6. ASSUME NEW d \in Devices \ untold'
      PROVE  EmptyHanded(tables, d)' /\ Equipped(tables, d)'
  <2>1. ~Nothing(Loaded, d)
    BY <1>1, <1>2, <1>6, SentIs
  <2>2. QED
    BY <2>1, <1>1, AfterStep
<1>7. QED
  BY <1>3, <1>4, <1>5, <1>6 DEF FollowInv

\* Reading, or getting, a notification turns the parity of those that are not read.
LEMMA Parity ==
    /\ \A s \in Seq({"note"}) :
          /\ Append(s, "note") \in Seq({"note"}) /\ Append(s, "note") # <<>>
          /\ Len(Append(s, "note")) % 2 = 0 <=> Len(s) % 2 # 0
    /\ \A s \in Seq({"note"}) : s # <<>> =>
          /\ Tail(s) \in Seq({"note"})
          /\ Len(Tail(s)) % 2 = 0 <=> Len(s) % 2 # 0
    /\ Len(<<>>) % 2 = 0
<1>1. \A n \in Nat : (n + 1) % 2 = 0 <=> n % 2 # 0
  OBVIOUS
<1>2. ASSUME NEW s \in Seq({"note"})
      PROVE  /\ Append(s, "note") \in Seq({"note"}) /\ Append(s, "note") # <<>>
             /\ Len(Append(s, "note")) % 2 = 0 <=> Len(s) % 2 # 0
  <2>1. Len(s) \in Nat /\ Len(Append(s, "note")) = Len(s) + 1
    OBVIOUS
  <2>2. QED
    BY <2>1, <1>1
<1>3. ASSUME NEW s \in Seq({"note"}), s # <<>>
      PROVE  /\ Tail(s) \in Seq({"note"})
             /\ Len(Tail(s)) % 2 = 0 <=> Len(s) % 2 # 0
  <2>1. Len(s) \in Nat /\ Len(s) > 0 /\ Len(Tail(s)) = Len(s) - 1 /\ Tail(s) \in Seq({"note"})
    BY <1>3
  <2>2. Len(Tail(s)) \in Nat /\ Len(s) = Len(Tail(s)) + 1
    BY <2>1
  <2>3. QED
    BY <2>1, <2>2, <1>1
<1>4. QED
  BY <1>2, <1>3

\* The connection of a device comes or goes: it has a notification to be read.
LEMMA NotifyFollow ==
    ASSUME StoreTypes, FollowInv, NEW d \in Devices, Connect(d) \/ Disconnect(d)
    PROVE  FollowInv'
<1>1. /\ UNCHANGED <<tables, savedMap, job, got, misread, untold>>
      /\ inbox' = [inbox EXCEPT ![d] = Append(@, "note")]
      /\ d \in connected' <=> d \notin connected
      /\ \A e \in Devices : e # d => (e \in connected' <=> e \in connected)
  BY DEF Connect, Disconnect, history
<1>2. inbox \in [Devices -> Seq({"note"})]
  BY DEF FollowInv, FollowTypes
<1>3. /\ inbox' \in [Devices -> Seq({"note"})] /\ inbox'[d] # <<>>
      /\ Len(inbox'[d]) % 2 = 0 <=> Len(inbox[d]) % 2 # 0
      /\ \A e \in Devices : e # d => inbox'[e] = inbox[e]
  BY <1>1, <1>2, Parity
<1>4. FollowTypes'
  <2>1. connected' \in SUBSET Devices
    BY DEF Connect, Disconnect, FollowInv, FollowTypes
  <2>2. QED
    BY <2>1, <1>1, <1>3 DEF FollowInv, FollowTypes, Listed
<1>5. ASSUME NEW e \in Devices
      PROVE  MarkIsRight(e)'
  <2>1. MarkIsRight(e)
    BY DEF FollowInv
  <2>2. QED
    BY <2>1, <1>1, <1>3 DEF MarkIsRight
<1>6. ASSUME NEW e \in Devices
      PROVE  /\ EmptyHanded(tables, e) => EmptyHanded(tables, e)'
             /\ EmptyHanded(job.copy, e) => EmptyHanded(job.copy, e)'
             /\ Equipped(tables, e) => Equipped(tables, e)'
             /\ Equipped(job.copy, e) => Equipped(job.copy, e)'
  BY <1>1, <1>3, AfterStep DEF EmptyHanded, Equipped
<1>7. Busy' <=> Busy
  BY <1>1 DEF Busy
<1>8. QED
  BY <1>1, <1>4, <1>5, <1>6, <1>7 DEF FollowInv

LEMMA HeartbeatFollow ==
    ASSUME StoreTypes, FollowInv, NEW d \in Devices, Heartbeat(d)
    PROVE  FollowInv'
<1>1. /\ d \in connected /\ inbox[d] = <<>>
      /\ tables' = [tables EXCEPT !.online = @ \cup {d}]
      /\ UNCHANGED <<savedMap, job, connected, inbox, got, misread, untold>>
  BY DEF Heartbeat, history
<1>2. tables \in Tables
  BY DEF StoreTypes
<1>3. /\ tables' \in Tables /\ tables'.sn2mods = tables.sn2mods
      /\ tables'.mod2mgr = tables.mod2mgr /\ tables'.config = tables.config
      /\ \A e \in Devices : e \in tables'.online <=> e \in tables.online \/ e = d
  <2> DEFINE on == tables.online \cup {d}
  <2>1. /\ on \in SUBSET Devices /\ tables' = [tables EXCEPT !.online = on]
        /\ \A e \in Devices : e \in on <=> e \in tables.online \/ e = d
    BY <1>1, <1>2 DEF Tables
  <2> HIDE DEF on
  <2>2. QED
    BY <2>1, <1>2 DEF Tables
<1>4. FollowTypes'
  BY <1>1, <1>3 DEF FollowInv, FollowTypes, Listed
<1>5. ASSUME NEW e \in Devices
      PROVE  MarkIsRight(e)'
  <2>1. MarkIsRight(e)
    BY DEF FollowInv
  <2>2. QED
    BY <2>1, <1>1, <1>3, Parity DEF MarkIsRight
<1>6. ASSUME NEW e \in Devices
      PROVE  /\ EmptyHanded(tables, e) => EmptyHanded(tables, e)'
             /\ EmptyHanded(job.copy, e) => EmptyHanded(job.copy, e)'
             /\ Equipped(tables, e) => Equipped(tables, e)'
             /\ Equipped(job.copy, e) => Equipped(job.copy, e)'
  <2>1. Own(tables', e) = Own(tables, e) /\ (Nothing(tables', e) <=> Nothing(tables, e))
    BY <1>2, <1>3, OnlineOnly
  <2>2. QED
    BY <2>1, <1>1, AfterStep DEF EmptyHanded, Equipped
<1>7. Busy' <=> Busy
  BY <1>1 DEF Busy
<1>8. QED
  BY <1>1, <1>4, <1>5, <1>6, <1>7 DEF FollowInv

LEMMA HandleFollow ==
    ASSUME StoreTypes, FollowInv, NEW d \in Devices, HandleConnection(d)
    PROVE  FollowInv'
<1>1. /\ inbox[d] # <<>> /\ inbox' = [inbox EXCEPT ![d] = Tail(@)]
      /\ UNCHANGED <<savedMap, connected, misread>>
  BY DEF HandleConnection
<1>2. /\ tables \in Tables /\ job \in Jobs /\ inbox \in [Devices -> Seq({"note"})]
  BY DEF StoreTypes, FollowInv, FollowTypes
<1>3. /\ inbox' \in [Devices -> Seq({"note"})]
      /\ Len(inbox'[d]) % 2 = 0 <=> Len(inbox[d]) % 2 # 0
      /\ \A e \in Devices : e # d => inbox'[e] = inbox[e]
  BY <1>1, <1>2, Parity
<1>4. /\ tables' \in Tables /\ tables'.sn2mods = tables.sn2mods
      /\ tables'.mod2mgr = tables.mod2mgr /\ tables'.config = tables.config
      /\ d \in tables'.online <=> d \notin tables.online
      /\ \A e \in Devices : e # d => (e \in tables'.online <=> e \in tables.online)
  <2>1. PICK on \in SUBSET Devices :
            /\ tables' = [tables EXCEPT !.online = on]
            /\ d \in on <=> d \notin tables.online
            /\ \A e \in Devices : e # d => (e \in on <=> e \in tables.online)
    <3>1. CASE d \notin tables.online /\ tables' = [tables EXCEPT !.online = @ \cup {d}]
      <4>1. tables.online \cup {d} \in SUBSET Devices
        BY <1>2 DEF Tables
      <4>2. QED
        BY <3>1, <4>1
    <3>2. CASE d \in tables.online /\ tables' = [tables EXCEPT !.online = @ \ {d}]
      <4>1. tables.online \ {d} \in SUBSET Devices
        BY <1>2 DEF Tables
      <4>2. QED
        BY <3>2, <4>1
    <3>3. QED
      BY <3>1, <3>2 DEF HandleConnection
  <2>2. QED
    BY <2>1, <1>2 DEF Tables
<1>5. /\ job'.copy = job.copy /\ job'.quiet = job.quiet /\ job'.delta = job.delta
      /\ job'.failed = job.failed /\ (Busy' <=> Busy)
      /\ job.early \subseteq job'.early
      /\ Busy /\ d \notin tables.online => d \in job'.early
  <2>1. CASE UNCHANGED job /\ (Busy => d \in tables.online)
    BY <2>1 DEF Busy
  <2>2. CASE Busy /\ job' = [job EXCEPT !.early = @ \cup {d}]
    <3>1. /\ job'.copy = job.copy /\ job'.quiet = job.quiet /\ job'.delta = job.delta
          /\ job'.failed = job.failed /\ job'.early = job.early \cup {d}
      BY <2>2, <1>2 DEF Jobs
    <3>2. Idle.early = {}
      BY DEF Idle
    <3>3. QED
      BY <2>2, <3>1, <3>2 DEF Busy
  <2>3. QED
    BY <2>1, <2>2 DEF HandleConnection
<1>6. \A e \in Devices :
          Own(tables', e) = Own(tables, e) /\ (Nothing(tables', e) <=> Nothing(tables, e))
  BY <1>2, <1>4, OnlineOnly
<1>7. FollowTypes'
  BY <1>1, <1>3, <1>4, <1>5 DEF FollowInv, FollowTypes, Listed
<1>8. ASSUME NEW e \in Devices
      PROVE  MarkIsRight(e)'
  <2>1. MarkIsRight(e)
    BY DEF FollowInv
  <2>2. QED
    BY <2>1, <1>1, <1>3, <1>4 DEF MarkIsRight
\* A device that goes off line is not connected with nothing to be read
<1>9. d \in tables.online /\ d \notin misread => ~(d \in connected' /\ inbox'[d] = <<>>)
  <2>1. MarkIsRight(d)'
    BY <1>8
  <2>2. QED
    BY <2>1, <1>1, <1>4, Parity DEF MarkIsRight
\* What becomes of a device.
<1>10. ASSUME NEW e \in Devices
       PROVE  \/ /\ e = d /\ d \notin tables.online /\ ~Nothing(tables, d)
                 /\ OwnPart(got'[d], d) = Own(tables, d)
              \/ /\ got'[e] = got[e]
                 /\ e \in untold \/ e \in job.quiet => e \in untold' \/ e \in job'.quiet
                 /\ ~Busy => (e \in untold => e \in untold')
                 /\ e = d /\ d \notin tables.online => d \notin connected \/ Nothing(tables, d)
                 /\ e \in untold => e \in untold'
  <2>1. CASE d \in tables.online
    <3>1. UNCHANGED <<got, untold, job>>
      BY <2>1 DEF HandleConnection
    <3>2. QED
      BY <2>1, <3>1
  <2>2. CASE d \notin tables.online
    <3>1. Sent(tables, {d}) /\ {d} \in SUBSET Devices
      BY <2>2 DEF HandleConnection
    <3>2. QED
      BY <2>2, <3>1, <1>2, SentTo
  <2>3. QED
    BY <2>1, <2>2
<1>11. ASSUME NEW e \in Devices, e \notin untold', e \notin job'.quiet \/ ~Busy,
              \A x \in Devices \ untold : x \notin job.quiet \/ ~Busy => EmptyHanded(tables, x)
       PROVE  /\ EmptyHanded(tables, e)'
              /\ Equipped(tables, e) \/ (e = d /\ d \notin tables.online) => Equipped(tables, e)'
  <2>1. CASE e = d /\ ~Nothing(tables, d) /\ OwnPart(got'[d], d) = Own(tables, d)
    BY <2>1, <1>6, AfterStep
  <2>2. CASE /\ got'[e] = got[e] /\ e \notin untold
             /\ e = d /\ d \notin tables.online => d \notin connected \/ Nothing(tables, d)
    <3>1. EmptyHanded(tables, e)
      BY <2>2, <1>5, <1>11
    <3>2. EmptyHanded(tables, e)'
      BY <2>2, <3>1, <1>6, AfterStep DEF EmptyHanded
    <3>3. ASSUME e # d, Equipped(tables, e)
          PROVE  Equipped(tables, e)'
      BY <2>2, <3>3, <1>1, <1>3, <1>6, AfterStep DEF Equipped
    <3>4. ASSUME e = d, d \notin tables.online
          PROVE  Equipped(tables, e)'
      <4>1. Nothing(tables, d) => Own(tables, d) = {} /\ OwnPart(got[d], d) = {}
        BY <3>1, <3>4, <1>2, NothingOwn DEF EmptyHanded
      <4>2. QED
        BY <2>2, <3>4, <4>1, <1>1, <1>6, AfterStep
    <3>5. ASSUME e = d, d \in tables.online
          PROVE  Equipped(tables, e)'
      BY <3>5, <1>1, <1>9, AfterStep
    <3>6. QED
      BY <3>2, <3>3, <3>4, <3>5
  <2>3. QED
    BY <1>10, <1>11, <2>1, <2>2
<1>12. ASSUME Busy', NEW e \in Devices \ (untold \cup job.early)'
       PROVE  EmptyHanded(job.copy, e)' /\ Equipped(job.copy, e)'
  <2>1. ~(e = d /\ d \notin tables.online)
    BY <1>5, <1>12
  <2>2. got'[e] = got[e] /\ e \notin untold
    BY <2>1, <1>10, <1>12
  <2>3. EmptyHanded(job.copy, e) /\ Equipped(job.copy, e)
    BY <2>2, <1>5, <1>12 DEF FollowInv
  <2>4. EmptyHanded(job.copy, e)'
    BY <2>2, <2>3, <1>5, AfterStep DEF EmptyHanded
  <2>5. CASE e = d
    BY <2>1, <2>4, <2>5, <1>1, <1>9, AfterStep
  <2>6. CASE e # d
    BY <2>2, <2>3, <2>4, <2>6, <1>1, <1>3, <1>5, AfterStep DEF Equipped
  <2>7. QED
    BY <2>5, <2>6
<1>13. ASSUME Busy', ~job'.failed, NEW e \in Devices \ (untold \cup job.quiet)'
       PROVE  EmptyHanded(tables, e)' /\ (e \notin job'.delta => Equipped(tables, e)')
  <2>1. \A x \in Devices \ untold : x \notin job.quiet \/ ~Busy => EmptyHanded(tables, x)
    BY <1>5, <1>13 DEF FollowInv
  <2>2. /\ EmptyHanded(tables, e)'
        /\ Equipped(tables, e) \/ (e = d /\ d \notin tables.online) => Equipped(tables, e)'
    BY <2>1, <1>11, <1>13
  <2>3. ASSUME e \notin job'.delta
        PROVE  Equipped(tables, e) \/ (e = d /\ d \notin tables.online)
    <3>1. CASE e = d /\ d \notin tables.online
      BY <3>1
    <3>2. CASE ~(e = d /\ d \notin tables.online)
      <4>1. e \notin untold /\ e \notin job.quiet /\ e \notin job.delta
        BY <2>3, <3>2, <1>5, <1>10, <1>13
      <4>2. QED
        BY <4>1, <1>5, <1>13 DEF FollowInv
    <3>3. QED
      BY <3>1, <3>2
  <2>4. QED
    BY <2>2, <2>3
<1>14. ASSUME ~Busy', NEW e \in Devices \ untold'
       PROVE  EmptyHanded(tables, e)' /\ Equipped(tables, e)'
  <2>1. \A x \in Devices \ untold : EmptyHanded(tables, x) /\ Equipped(tables, x)
    BY <1>5, <1>14 DEF FollowInv
  <2>2. /\ EmptyHanded(tables, e)'
        /\ Equipped(tables, e) \/ (e = d /\ d \notin tables.online) => Equipped(tables, e)'
    BY <2>1, <1>5, <1>11, <1>14
  <2>3. Equipped(tables, e) \/ (e = d /\ d \notin tables.online)
    BY <2>1, <1>10, <1>14
  <2>4. QED
    BY <2>2, <2>3
<1>15. QED
  BY <1>7, <1>8, <1>12, <1>13, <1>14 DEF FollowInv

LEMMA InitFollow == Init => FollowInv
<1> SUFFICES ASSUME Init PROVE FollowInv
  OBVIOUS
<1>1. /\ tables = NoTables /\ savedMap = MapOf(NoTables) /\ job = Idle /\ connected = {}
      /\ inbox = [d \in Devices |-> <<>>] /\ got = [d \in Devices |-> <<>>]
  BY DEF Init
<1>2. Listed(NoTables) /\ Listed(MapOf(NoTables)) /\ Idle.copy = NoTables
  BY NoTablesIs DEF Listed, NoTables, MapOf
<1>3. inbox \in [Devices -> Seq({"note"})]
  BY <1>1
<1>4. \A d \in Devices : MarkIsRight(d)
  BY <1>1, Parity, NoTablesIs DEF MarkIsRight
<1>5. ASSUME NEW d \in Devices
      PROVE  EmptyHanded(tables, d) /\ Equipped(tables, d)
  <2>1. OwnPart(<<>>, d) = {}
    BY DEF OwnPart
  <2>2. QED
    BY <2>1, <1>1 DEF EmptyHanded, Equipped
<1>6. QED
  BY <1>1, <1>2, <1>3, <1>4, <1>5 DEF FollowInv, FollowTypes, Busy

LEMMA NextFollow == StoreTypes /\ FollowInv /\ [Next]_vars => FollowInv'
<1> SUFFICES ASSUME StoreTypes, FollowInv, [Next]_vars PROVE FollowInv'
  OBVIOUS
<1>1. CASE Begin
  BY <1>1, BeginFollow
<1>2. CASE ApplyCluster
  BY <1>2, ApplyFollow
<1>3. CASE Complete
  BY <1>3, CompleteFollow
<1>4. CASE Undo
  BY <1>4, UndoFollow
<1>5. ASSUME NEW d \in Devices, Delete(d)
      PROVE  FollowInv'
  BY <1>5, DeleteFollow
<1>6. ASSUME NEW d \in Devices,
             Connect(d) \/ Disconnect(d) \/ HandleConnection(d) \/ Heartbeat(d)
      PROVE  FollowInv'
  BY <1>6, NotifyFollow, HandleFollow, HeartbeatFollow
<1>7. CASE Restart
  BY <1>7, RestartFollow
<1>8. CASE UNCHANGED vars
  <2>1. UNCHANGED <<tables, savedMap, job, connected, inbox, got, misread, untold>>
    BY <1>8 DEF vars
  <2>2. \A d \in Devices : MarkIsRight(d)'
    BY <2>1 DEF FollowInv, MarkIsRight
  <2>3. FollowTypes' /\ (Busy' <=> Busy)
    BY <2>1 DEF FollowInv, FollowTypes, Listed, Busy
  <2>4. \A d \in Devices : /\ EmptyHanded(tables, d) => EmptyHanded(tables, d)'
                           /\ EmptyHanded(job.copy, d) => EmptyHanded(job.copy, d)'
                           /\ Equipped(tables, d) => Equipped(tables, d)'
                           /\ Equipped(job.copy, d) => Equipped(job.copy, d)'
    BY <2>1, AfterStep DEF EmptyHanded, Equipped
  <2>5. QED
    BY <2>1, <2>2, <2>3, <2>4 DEF FollowInv
<1>9. QED
  BY <1>1, <1>2, <1>3, <1>4, <1>5, <1>6, <1>7, <1>8 DEF Next

LEMMA FollowInvMeans == StoreTypes /\ FollowInv => DevicesFollow
<1> SUFFICES ASSUME StoreTypes, FollowInv, ~Busy, NEW d \in connected \ (misread \cup untold),
                    inbox[d] = <<>>, DOMAIN ConfigForDevice(tables, d) # {}
             PROVE  OwnPart(got[d], d) = OwnPart(ConfigForDevice(tables, d), d)
  BY DEF DevicesFollow
<1>1. d \in Devices /\ tables \in Tables
  BY DEF StoreTypes, FollowInv, FollowTypes
<1>2. OwnPart(got[d], d) = Own(tables, d)
  BY <1>1 DEF FollowInv, Equipped
<1>3. QED
  BY <1>1, <1>2, SentIs

\* A connected device whose notifications are read has what the cloud has for its own
\* modules, unless a class of modules came or went, it was given what was undone, or its
\* mark was changed under it (evcloudsvc.cpp:526, 562, 541).
THEOREM DevicesAreServed == Spec => []DevicesFollow
<1>1. Spec => []KeepsInv
  BY InitKeeps, NextKeeps, PTL DEF Spec
<1>2. KeepsInv => StoreTypes
  BY DEF KeepsInv
<1>3. Spec => []FollowInv
  BY <1>1, <1>2, InitFollow, NextFollow, PTL DEF Spec
<1>4. QED
  BY <1>1, <1>2, <1>3, FollowInvMeans, PTL
================================================================================
