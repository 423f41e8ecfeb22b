----------------------------- MODULE EvDaemonProofs -----------------------------
(***************************************************************************)
(* Proofs about EvDaemon: its types, that two processes of a module never  *)
(* work at the same time, and that a crash never makes the daemon start a  *)
(* module that the configuration disables.  While the configuration stands *)
(* a module never has two processes at all, and the daemon and the cloud   *)
(* take it for what it is.  While the configurations are spaced out it     *)
(* ends every change, and every crash after it, with what it was told.     *)
(***************************************************************************)
EXTENDS EvDaemon, FiniteSetTheorems, WellFoundedInduction, SequenceTheorems,
        TLAPS

\* The processes: an identity belongs to one of them at most, and only the one it
\* belongs to has been sent anything, so only that one has left its constructor.
\* None has an identity before it connects.
Sane(ps) ==
    /\ ps \in [Pids -> Proc]
    /\ \A i, j \in Pids : ps[i].attached /\ ps[j].attached /\ ps[i].mod = ps[j].mod => i = j
    /\ \A i \in Pids : ps[i].at = "running" \/ ps[i].cmds # <<>> => ps[i].attached
    /\ \A i \in Pids : ps[i].attached => ps[i].at # "boot"

\* A module that the newest configuration disables is not in the table of the
\* enabled ones, unless nothing was done with it; while a change is under way none is.
OffNotEnabled ==
    \A m \in enabled : config[m] \in OffSettings => m \in missed /\ cloud = "idle"

DaemonInv == TypeOK /\ Sane(procs) /\ OffNotEnabled

--------------------------------------------------------------------------------
(* Processes *)

\* A slot that is not taken.
LEMMA FreeSlot ==
    /\ Free \in Proc /\ Free.mod = "free" /\ Free.at = "free" /\ ~Free.attached
    /\ Free.cmds = <<>>
BY DEF Free, Proc

\* A new process.
LEMMA NewSlot ==
    ASSUME NEW m \in Modules
    PROVE  /\ NewProc(m) \in Proc /\ NewProc(m).mod = m /\ NewProc(m).at = "boot"
           /\ ~NewProc(m).attached /\ NewProc(m).cmds = <<>> /\ NewProc(m) # Free
<1>1. /\ NewProc(m).mod = m /\ NewProc(m).at = "boot" /\ ~NewProc(m).attached
      /\ NewProc(m).cmds = <<>>
  BY DEF NewProc, Free
<1>2. <<>> \in Seq(Commands)
  OBVIOUS
<1>3. NewProc(m) \in [mod : Modules, at : Stages, attached : BOOLEAN,
                      cmds : Seq(Commands), cfg : Settings \cup {"none"}]
  BY <1>2 DEF NewProc, Free, Stages
<1>4. NewProc(m).at # Free.at
  BY <1>1, FreeSlot
<1>5. QED
  BY <1>1, <1>3, <1>4 DEF Proc

\* What is known of a slot that is taken.
LEMMA TakenSlot ==
    ASSUME NEW p \in Proc, p # Free
    PROVE  /\ p \in [mod : Modules, at : Stages, attached : BOOLEAN,
                     cmds : Seq(Commands), cfg : Settings \cup {"none"}]
           /\ p.mod \in Modules /\ p.cmds \in Seq(Commands) /\ p.attached \in BOOLEAN
BY DEF Proc

\* Changing one slot to one that is not attached.
LEMMA SlotKeeps ==
    ASSUME NEW ps, Sane(ps), NEW i, NEW p \in Proc,
           ~p.attached, p.at # "running", p.cmds = <<>>
    PROVE  Sane([ps EXCEPT ![i] = p])
BY DEF Sane

\* Sending changes no slot that is free, and keeps the processes sane.
LEMMA SendKeeps ==
    ASSUME NEW ps, Sane(ps), NEW m, NEW c \in Commands
    PROVE  /\ Sane(SendTo(ps, m, c))
           /\ \A i \in Pids : ps[i] = Free => SendTo(ps, m, c)[i] = Free
<1> DEFINE qs == SendTo(ps, m, c)
<1>1. \A i \in Pids : /\ qs[i] \in Proc
                      /\ qs[i].attached = ps[i].attached
                      /\ qs[i].mod = ps[i].mod /\ qs[i].at = ps[i].at
                      /\ qs[i] = ps[i] \/ ps[i].attached
  <2> TAKE i \in Pids
  <2>1. CASE ps[i].mod = m /\ ps[i].attached
    <3>1. ps[i] # Free /\ ps[i] \in Proc
      BY <2>1, FreeSlot DEF Sane
    <3>2. qs[i] = [ps[i] EXCEPT !.cmds = Append(@, c)]
      BY <2>1 DEF SendTo
    <3>3. Append(ps[i].cmds, c) \in Seq(Commands)
      BY <3>1, TakenSlot
    <3>4. QED
      BY <2>1, <3>1, <3>2, <3>3, TakenSlot DEF Proc
  <2>2. CASE ~(ps[i].mod = m /\ ps[i].attached)
    BY <2>2 DEF SendTo, Sane
  <2>3. QED
    BY <2>1, <2>2
<1>2. qs \in [Pids -> Proc]
  BY <1>1 DEF SendTo
<1>3. \A i \in Pids : ps[i] = Free => qs[i] = Free
  BY <1>1, FreeSlot
<1> HIDE DEF qs
<1>4. Sane(qs)
  BY <1>1, <1>2 DEF Sane
<1>5. QED
  BY <1>3, <1>4 DEF qs

\* A fork keeps the processes sane and fills one slot.
LEMMA ForkKeeps ==
    ASSUME NEW ps, Sane(ps), NEW m \in Modules
    PROVE  /\ Sane(Fork(ps, m))
           /\ \A i \in Pids : Fork(ps, m)[i] \in {ps[i], NewProc(m)}
<1> DEFINE i == CHOOSE j \in Pids : ps[j] = Free /\ \A k \in 1..j - 1 : ps[k] # Free
<1>1. Fork(ps, m) = [ps EXCEPT ![i] = NewProc(m)]
  BY DEF Fork
<1> HIDE DEF i
<1>2. Sane([ps EXCEPT ![i] = NewProc(m)])
  BY NewSlot, SlotKeeps
<1>3. \A j \in Pids : [ps EXCEPT ![i] = NewProc(m)][j] \in {ps[j], NewProc(m)}
  BY DEF Sane
<1>4. QED
  BY <1>1, <1>2, <1>3

\* ... and so do several.
LEMMA ForkAllKeeps ==
    ASSUME NEW ps, Sane(ps), NEW ms \in SUBSET Modules
    PROVE  /\ Sane(ForkAll(ps, ms))
           /\ \A i \in Pids : ForkAll(ps, ms)[i] \in {ps[i]} \cup {NewProc(m) : m \in ms}
<1> DEFINE slot == CHOOSE f \in [ms -> Pids] :
                       /\ \A m \in ms : ps[f[m]] = Free
                       /\ \A m, n \in ms : f[m] = f[n] => m = n
           New(i) == CHOOSE m \in ms : slot[m] = i
           qs == [i \in Pids |-> IF \E m \in ms : slot[m] = i THEN NewProc(New(i)) ELSE ps[i]]
<1>1. ForkAll(ps, ms) = qs
  BY DEF ForkAll
<1> HIDE DEF slot
<1>2. \A i \in Pids : (\E m \in ms : slot[m] = i) => New(i) \in ms
  OBVIOUS
<1> HIDE DEF New
<1>3. \A i \in Pids : qs[i] = ps[i] \/ \E m \in ms : qs[i] = NewProc(m)
  BY <1>2
<1>4. \A i \in Pids : qs[i] = ps[i]
                      \/ (qs[i] \in Proc /\ ~qs[i].attached /\ qs[i].at # "running" /\ qs[i].cmds = <<>>)
  BY <1>3, NewSlot
<1>5. qs = [i \in Pids |-> qs[i]]
  OBVIOUS
<1> HIDE DEF qs
<1>6. Sane(qs)
  BY <1>4, <1>5 DEF Sane
<1>7. QED
  BY <1>1, <1>3, <1>6

\* There are no processes before the daemon starts any.
LEMMA NoProcsSane == Sane(NoProcs) /\ \A i \in Pids : NoProcs[i] = Free
BY FreeSlot DEF Sane, NoProcs

\* A process that ends leaves a sane system.
LEMMA ExitKeeps ==
    ASSUME DaemonInv, NEW i \in Pids, Exit(i)
    PROVE  Sane(procs)' /\ inbox' \in [Modules -> Seq({"connect", "disconnect", "msg"})]
<1>1. Sane(procs)'
  BY FreeSlot, SlotKeeps DEF Exit, DaemonInv
<1>2. ASSUME procs[i].attached
      PROVE  procs[i].mod \in Modules
  BY <1>2, FreeSlot, TakenSlot DEF DaemonInv, Sane
<1>3. QED
  BY <1>1, <1>2 DEF Exit, DaemonInv, TypeOK

--------------------------------------------------------------------------------
(* Steps *)

ProcsKept ==
    /\ Sane(procs)'
    /\ inbox' \in [Modules -> Seq({"connect", "disconnect", "msg"})]

\* A step of a process.
LEMMA BootKeeps ==
    ASSUME DaemonInv, NEW i \in Pids, Boot(i)
    PROVE  ProcsKept
<1> DEFINE m == procs[i].mod
<1>1. /\ Sane(procs) /\ procs[i] # Free /\ procs[i] \in Proc
      /\ m \in Modules /\ procs[i].cmds \in Seq(Commands)
  BY FreeSlot, TakenSlot DEF DaemonInv, Sane, Boot
<1>2. CASE Exit(i)
  BY <1>2, ExitKeeps DEF ProcsKept
<1>3. CASE /\ procs' = [procs EXCEPT ![i].at = "waiting", ![i].attached = IdentityFree(m)]
           /\ inbox' = IF IdentityFree(m) THEN [inbox EXCEPT ![m] = Append(@, "connect")]
                       ELSE inbox
  <2>1. inbox' \in [Modules -> Seq({"connect", "disconnect", "msg"})]
    BY <1>1, <1>3 DEF DaemonInv, TypeOK
  <2>2. IdentityFree(m) \in BOOLEAN
    BY DEF IdentityFree
  <2>3. procs' = [procs EXCEPT ![i] = procs'[i]]
    BY <1>1, <1>3 DEF Sane
  <2>8. procs'[i] = [procs[i] EXCEPT !.at = "waiting", !.attached = IdentityFree(m)]
    BY <1>1, <1>3 DEF Sane
  <2>4. /\ procs'[i].at = "waiting" /\ procs'[i].attached = IdentityFree(m)
        /\ procs'[i].mod = m /\ procs'[i].cmds = procs[i].cmds
        /\ procs'[i] \in Proc
    BY <1>1, <2>2, <2>8, TakenSlot DEF Proc, Stages
  <2>5. IdentityFree(m) => \A j \in Pids : procs[j].mod = m => ~procs[j].attached
    BY DEF IdentityFree, Attached, ProcsOf
  <2>6. procs[i].cmds = <<>>
    BY <1>1 DEF Sane, Boot
  <2>7. ASSUME NEW p \in Proc, p.mod = m, p.at = "waiting", p.cmds = <<>>,
               p.attached => \A j \in Pids : procs[j].mod = m => ~procs[j].attached,
               procs' = [procs EXCEPT ![i] = p]
        PROVE  Sane(procs)'
    <3>1. /\ procs' \in [Pids -> Proc] /\ procs'[i] = p
          /\ \A j \in Pids \ {i} : procs'[j] = procs[j]
      BY <1>1, <2>7 DEF Sane
    <3>2. \A j, k \in Pids :
             procs'[j].attached /\ procs'[k].attached /\ procs'[j].mod = procs'[k].mod => j = k
      BY <1>1, <2>7, <3>1 DEF Sane
    <3>3. QED
      BY <1>1, <2>7, <3>1, <3>2 DEF Sane
  <2>9. Sane(procs)'
    BY <2>3, <2>4, <2>5, <2>6, <2>7
  <2>10. QED
    BY <2>1, <2>9 DEF ProcsKept
<1>4. QED
  BY <1>2, <1>3 DEF Boot

\* A process reads what it was sent.
LEMMA ReceiveKeeps ==
    ASSUME DaemonInv, NEW i \in Pids, Receive(i)
    PROVE  ProcsKept
<1> DEFINE c == Head(procs[i].cmds)
           rest == [procs EXCEPT ![i].cmds = Tail(@)]
<1>1. /\ Sane(procs) /\ procs[i] # Free /\ procs[i] \in Proc /\ procs[i].attached
      /\ procs[i].cmds \in Seq(Commands) /\ procs[i].cmds # <<>>
      /\ inbox \in [Modules -> Seq({"connect", "disconnect", "msg"})]
  BY FreeSlot, TakenSlot DEF DaemonInv, TypeOK, Sane, Receive
<1>2. Tail(procs[i].cmds) \in Seq(Commands)
  BY <1>1
<1>3. CASE Exit(i)
  BY <1>3, ExitKeeps DEF ProcsKept
<1>4. ASSUME NEW p \in Proc, p.mod = procs[i].mod, p.attached, p.at # "boot",
             procs' = [procs EXCEPT ![i] = p], UNCHANGED inbox
      PROVE  ProcsKept
  BY <1>1, <1>4 DEF ProcsKept, Sane
<1>5. CASE procs' = rest /\ UNCHANGED inbox
  <2> DEFINE p == [procs[i] EXCEPT !.cmds = Tail(@)]
  <2>1. p \in Proc /\ p.mod = procs[i].mod /\ p.attached /\ p.at # "boot"
    BY <1>1, <1>2, TakenSlot DEF Proc, Sane
  <2>2. procs' = [procs EXCEPT ![i] = p]
    BY <1>1, <1>5 DEF Sane
  <2>3. QED
    BY <1>4, <1>5, <2>1, <2>2
<1>6. CASE /\ c \in Settings
           /\ procs' = [rest EXCEPT ![i].at = "running", ![i].cfg = c]
           /\ UNCHANGED inbox
  <2> DEFINE p == [procs[i] EXCEPT !.cmds = Tail(@), !.at = "running", !.cfg = c]
  <2>1. p \in Proc /\ p.mod = procs[i].mod /\ p.attached /\ p.at # "boot"
    BY <1>1, <1>2, <1>6, TakenSlot DEF Proc, Stages
  <2>2. procs' = [procs EXCEPT ![i] = p]
    BY <1>1, <1>6 DEF Sane
  <2>3. QED
    BY <1>4, <1>6, <2>1, <2>2
<1>7. QED
  BY <1>3, <1>5, <1>6 DEF Receive

\* What the processes do on their own leaves the tables alone.
LEMMA ProcessKeeps ==
    ASSUME DaemonInv, NEW i \in Pids, ProcStep(i) \/ Crash(i) \/ Report(i)
    PROVE  DaemonInv'
<1>1. UNCHANGED <<tables, threads, missed>>
  BY DEF ProcStep, Boot, Receive, Crash, Report
<1>2. ASSUME ProcStep(i) PROVE ProcsKept
  BY <1>2, BootKeeps, ReceiveKeeps DEF ProcStep
<1>3. ASSUME Crash(i) PROVE ProcsKept
  BY <1>3, ExitKeeps DEF Crash, ProcsKept
<1>4. ASSUME Report(i) PROVE ProcsKept
  <2>1. procs[i].mod \in Modules
    BY <1>4, FreeSlot, TakenSlot DEF DaemonInv, Sane, Report
  <2>2. QED
    BY <1>4, <2>1 DEF DaemonInv, TypeOK, Sane, Report, ProcsKept
<1>5. ProcsKept
  BY <1>2, <1>3, <1>4
<1>6. QED
  BY <1>1, <1>5 DEF DaemonInv, TypeOK, Sane, OffNotEnabled, ProcsKept, tables, threads

\* The router thread.
LEMMA RouterKeeps ==
    ASSUME DaemonInv, (\E m \in Modules : ReadInbox(m)) \/ RouterStep
    PROVE  DaemonInv'
<1>1. Mgr \in Modules
  BY EvDaemonAssumption
<1>2. ASSUME NEW m \in Modules, NEW kinds, Read(m, kinds)
      PROVE  inbox' \in [Modules -> Seq({"connect", "disconnect", "msg"})]
  <2>1. inbox[m] \in Seq({"connect", "disconnect", "msg"}) /\ inbox[m] # <<>>
    BY <1>2 DEF DaemonInv, TypeOK, Read
  <2>2. Tail(inbox[m]) \in Seq({"connect", "disconnect", "msg"})
    BY <2>1
  <2>3. QED
    BY <1>2, <2>2 DEF DaemonInv, TypeOK, Read
<1>3. ASSUME NEW m \in Modules, NotifyUp(m)
      PROVE  DaemonInv'
  <2>1. inbox' \in [Modules -> Seq({"connect", "disconnect", "msg"})]
    BY <1>2, <1>3 DEF NotifyUp
  <2>2. peerConfig' \in [Modules -> (CfgValues \ {"absent"}) \cup {"none", "null"}]
    BY <1>3 DEF DaemonInv, TypeOK, NotifyUp
  <2>3. peerConfig'[m] \in Commands
    BY <2>2 DEF Commands
  <2>4. reported' \in [Modules -> {"none", "recover", "active"}]
    BY <1>3 DEF DaemonInv, TypeOK, NotifyUp, Tell
  <2>5. QED
    BY <1>3, <2>1, <2>2, <2>3, <2>4 DEF DaemonInv, TypeOK, NotifyUp, Sane, OffNotEnabled
<1>4. ASSUME NEW m \in Modules, NotifyDown(m)
      PROVE  DaemonInv'
  <2>1. inbox' \in [Modules -> Seq({"connect", "disconnect", "msg"})]
    BY <1>2, <1>4 DEF NotifyDown
  <2>2. reported' \in [Modules -> {"none", "recover", "active"}]
    BY <1>4 DEF DaemonInv, TypeOK, NotifyDown, Tell
  <2>3. status' \in [Modules -> {"absent", "unknown", "down", "up", "disabled", "removed"}]
    BY <1>4 DEF DaemonInv, TypeOK, NotifyDown, MarkDown
  <2>4. router' \in [at : {"idle", "send", "start"}, mod : Modules, cfg : Commands]
    BY <1>4 DEF DaemonInv, TypeOK, NotifyDown, Commands
  <2>5. QED
    BY <1>4, <2>1, <2>2, <2>3, <2>4 DEF DaemonInv, TypeOK, NotifyDown, Sane, OffNotEnabled
<1>5. ASSUME NEW m \in Modules, RelayReport(m)
      PROVE  DaemonInv'
  <2>1. inbox' \in [Modules -> Seq({"connect", "disconnect", "msg"})]
    BY <1>2, <1>5 DEF RelayReport
  <2>2. QED
    BY <1>5, <2>1 DEF DaemonInv, TypeOK, RelayReport, Sane, OffNotEnabled, threads
<1>6. Idle \in [at : {"idle", "send", "start"}, mod : Modules, cfg : Commands]
  BY <1>1 DEF Idle, Commands
<1>7. CASE SendConfig
  <2>1. router.cfg \in Commands
    BY DEF DaemonInv, TypeOK
  <2>2. Sane(procs')
    BY <1>7, <2>1, SendKeeps DEF SendConfig, DaemonInv
  <2>3. QED
    BY <1>6, <1>7, <2>2 DEF DaemonInv, TypeOK, SendConfig, Sane, OffNotEnabled, tables
<1>8. CASE StartAgain
  <2>1. router.mod \in Modules
    BY DEF DaemonInv, TypeOK
  <2>2. Sane(procs')
    BY <1>8, <2>1, ForkKeeps DEF StartAgain, DaemonInv
  <2>3. status' \in [Modules -> {"absent", "unknown", "down", "up", "disabled", "removed"}]
    BY <1>8 DEF DaemonInv, TypeOK, StartAgain, MarkDown
  <2>4. QED
    BY <1>6, <1>8, <2>2, <2>3 DEF DaemonInv, TypeOK, StartAgain, Sane, OffNotEnabled
<1>9. QED
  BY <1>3, <1>4, <1>5, <1>7, <1>8 DEF ReadInbox, RouterStep

\* A new configuration.
LEMMA NewConfig ==
    ASSUME NEW c \in Configs \cup {InitConfig, NoConfig}
    PROVE  /\ c \in [Modules -> CfgValues]
           /\ On(c) \subseteq Loaded(c) /\ Loaded(c) \subseteq Modules
           /\ \A m \in Loaded(c) : c[m] # "absent"
           /\ \A m \in On(c) : c[m] \notin OffSettings
           /\ Readable[c] = Modules => Loaded(c) = Present(c)
<1>1. NoConfig \in [Modules -> CfgValues]
  BY DEF NoConfig, CfgValues
<1>2. c \in [Modules -> CfgValues]
  BY <1>1, EvDaemonAssumption
<1>3. \A m \in On(c) : c[m] \in Settings
  BY DEF On, IsOn
<1>4. QED
  BY <1>2, <1>3, EvDaemonAssumption DEF On, Loaded, Present

\* The daemon at its start.
LEMMA RebootKeeps ==
    ASSUME DaemonInv, NEW c \in Configs \cup {InitConfig, NoConfig}, Reboot(c)
    PROVE  DaemonInv'
<1>1. c \in [Modules -> CfgValues] /\ On(c) \in SUBSET Modules /\ Loaded(c) \subseteq Modules
  BY NewConfig
<1>2. Sane(procs')
  BY <1>1, NoProcsSane, ForkAllKeeps DEF Reboot
<1>3. OffNotEnabled'
  BY NewConfig DEF Reboot, OffNotEnabled
<1>4. status' \in [Modules -> {"absent", "unknown", "down", "up", "disabled", "removed"}]
  BY DEF Reboot, BootStatus
<1>5. peerConfig' \in [Modules -> (CfgValues \ {"absent"}) \cup {"none", "null"}]
  BY <1>1, NewConfig DEF Reboot, BootConfig
<1>6. /\ router' \in [at : {"idle", "send", "start"}, mod : Modules, cfg : Commands]
      /\ reported' \in [Modules -> {"none", "recover", "active"}]
      /\ inbox' \in [Modules -> Seq({"connect", "disconnect", "msg"})]
      /\ coldStart' \in BOOLEAN /\ cloud' \in {"idle", "start", "ops"} /\ todo' \subseteq Modules
  BY EvDaemonAssumption DEF Reboot, Idle, Commands
<1>7. {config, oldConfig, saved}' \subseteq Configs \cup {InitConfig, NoConfig}
  BY DEF Reboot
<1>8. enabled' \subseteq Modules /\ missed' \subseteq Modules
  BY <1>1 DEF Reboot, Present
<1>9. QED
  BY <1>2, <1>3, <1>4, <1>5, <1>6, <1>7, <1>8 DEF DaemonInv, TypeOK, Sane

\* The cloud thread takes a new configuration.
LEMMA RecvKeeps ==
    ASSUME DaemonInv, NEW c \in Configs, RecvConfig(c) \/ FailConfig(c)
    PROVE  DaemonInv'
<1>1. /\ c \in [Modules -> CfgValues] /\ On(c) \subseteq Loaded(c) /\ Loaded(c) \subseteq Modules
      /\ TakeConfig(c) /\ \A m \in Loaded(c) : c[m] # "absent"
  BY NewConfig DEF RecvConfig, FailConfig
<1>2. status' \in [Modules -> {"absent", "unknown", "down", "up", "disabled", "removed"}]
  BY <1>1 DEF TakeConfig, ReloadedStatus, DaemonInv, TypeOK
<1>3. peerConfig' \in [Modules -> (CfgValues \ {"absent"}) \cup {"none", "null"}]
  BY <1>1 DEF TakeConfig, ReloadedConfig, DaemonInv, TypeOK
<1>4. enabled' \subseteq Modules /\ config' = c
  BY <1>1 DEF TakeConfig, ReloadedEnabled, DaemonInv, TypeOK
<1>5. \A m \in enabled' : m \in enabled \/ c[m] \notin OffSettings
  BY <1>1, NewConfig DEF TakeConfig, ReloadedEnabled
<1>6. CASE RecvConfig(c)
  <2>1. \A m \in enabled' : c[m] \notin OffSettings
    <3> SUFFICES ASSUME NEW m \in enabled', c[m] \in OffSettings PROVE FALSE
      OBVIOUS
    <3>1. m \in Modules /\ c[m] # "absent"
      BY <1>4, EvDaemonAssumption
    <3>2. m \in Loaded(c)
      BY <1>6, <3>1 DEF RecvConfig, Loaded, Present
    <3>3. QED
      BY <1>1, <3>2 DEF TakeConfig, ReloadedEnabled
  <2>2. OffNotEnabled'
    BY <1>4, <2>1 DEF OffNotEnabled
  <2>3. QED
    BY <1>1, <1>2, <1>3, <1>4, <1>6, <2>2
       DEF RecvConfig, TakeConfig, DaemonInv, TypeOK, Sane, net
<1>7. CASE FailConfig(c)
  <2>1. OffNotEnabled'
    BY <1>1, <1>4, <1>5, <1>7 DEF OffNotEnabled, FailConfig, TakeConfig, DaemonInv, TypeOK
  <2>2. missed' \subseteq Modules
    BY <1>7 DEF FailConfig, DaemonInv, TypeOK
  <2>3. QED
    BY <1>1, <1>2, <1>3, <1>4, <1>7, <2>1, <2>2
       DEF FailConfig, TakeConfig, DaemonInv, TypeOK, Sane, net
<1>8. QED
  BY <1>6, <1>7

\* The cloud thread starts the modules, all of them or those that changed.
LEMMA CloudKeeps ==
    ASSUME DaemonInv, CloudStep \/ \E m \in Modules : RelayCmd(m)
    PROVE  DaemonInv'
<1> USE DEF DaemonInv
<1>1. CASE ColdStart
  <2> DEFINE ms == ToColdStart(status, enabled, peerConfig)
  <2>1. ms \in SUBSET Modules
    BY DEF ToColdStart
  <2>2. Sane(procs')
    BY <1>1, <2>1, ForkAllKeeps DEF ColdStart
  <2>3. status' \in [Modules -> {"absent", "unknown", "down", "up", "disabled", "removed"}]
    BY <1>1 DEF ColdStart, TypeOK
  <2>4. QED
    BY <1>1, <2>2, <2>3 DEF ColdStart, TypeOK, Sane, OffNotEnabled
<1>2. CASE BeginChange
  <2>1. "STOP" \in Commands
    BY DEF Commands
  <2>2. Sane(procs')
    BY <1>2, <2>1, SendKeeps DEF BeginChange
  <2>3. /\ todo' \subseteq Modules /\ missed' \subseteq Modules
        /\ cloud' \in {"idle", "start", "ops"}
    BY <1>2 DEF BeginChange, Changed, Lumped, TypeOK
  <2>4. OffNotEnabled'
    BY <1>2 DEF BeginChange, OffNotEnabled, tables
  <2>5. QED
    BY <1>2, <2>2, <2>3, <2>4 DEF BeginChange, TypeOK, Sane, tables
<1>3. ASSUME NEW m \in Modules, Operate(m)
      PROVE  DaemonInv'
  <2>1. "STOP" \in Commands
    BY DEF Commands
  <2>2. Sane(procs')
    BY <1>3, <2>1, SendKeeps, ForkKeeps DEF Operate, Disable, Remove, StartOrStop
  <2>3. status' \in [Modules -> {"absent", "unknown", "down", "up", "disabled", "removed"}]
    BY <1>3 DEF Operate, Disable, Remove, StartOrStop, MarkDown, TypeOK
  <2>4. peerConfig' \in [Modules -> (CfgValues \ {"absent"}) \cup {"none", "null"}]
    BY <1>3 DEF Operate, Disable, Remove, StartOrStop, TypeOK
  <2>5. cloud' \in {"idle", "start", "ops"} /\ todo' \subseteq Modules
    BY <1>3 DEF Operate, TypeOK
  <2>6. QED
    BY <1>3, <2>2, <2>3, <2>4, <2>5 DEF Operate, TypeOK, Sane, OffNotEnabled
<1>4. ASSUME NEW m \in Modules, RelayCmd(m)
      PROVE  DaemonInv'
  <2>1. "STOP" \in Commands
    BY DEF Commands
  <2>2. Sane(procs')
    BY <1>4, <2>1, SendKeeps DEF RelayCmd
  <2>3. QED
    BY <1>4, <2>2 DEF RelayCmd, TypeOK, Sane, OffNotEnabled, tables, threads
<1>5. QED
  BY <1>1, <1>2, <1>3, <1>4 DEF CloudStep

--------------------------------------------------------------------------------
(* The theorems *)

\* The invariant holds of a daemon that has just started for the first time,
LEMMA DaemonInit == Init => DaemonInv
<1> SUFFICES ASSUME Init PROVE DaemonInv
  OBVIOUS
<1>1. InitConfig \in [Modules -> CfgValues] /\ On(InitConfig) \in SUBSET Modules
  BY NewConfig
<1>2. Sane(procs)
  BY <1>1, NoProcsSane, ForkAllKeeps DEF Init
<1>3. OffNotEnabled
  BY NewConfig DEF Init, OffNotEnabled
<1>4. status \in [Modules -> {"absent", "unknown", "down", "up", "disabled", "removed"}]
  BY DEF Init, BootStatus
<1>5. peerConfig \in [Modules -> (CfgValues \ {"absent"}) \cup {"none", "null"}]
  BY <1>1, NewConfig DEF Init, BootConfig
<1>6. /\ router \in [at : {"idle", "send", "start"}, mod : Modules, cfg : Commands]
      /\ reported \in [Modules -> {"none", "recover", "active"}]
      /\ inbox \in [Modules -> Seq({"connect", "disconnect", "msg"})]
      /\ coldStart \in BOOLEAN /\ cloud \in {"idle", "start", "ops"} /\ todo \subseteq Modules
  BY EvDaemonAssumption DEF Init, Idle, Commands
<1>7. /\ {config, oldConfig, saved} \subseteq Configs \cup {InitConfig, NoConfig}
      /\ enabled \subseteq Modules /\ missed \subseteq Modules
  BY <1>1 DEF Init
<1>8. QED
  BY <1>2, <1>3, <1>4, <1>5, <1>6, <1>7 DEF DaemonInv, TypeOK, Sane

\* is kept by every step of the daemon, its threads and its processes,
LEMMA DaemonStep == DaemonInv /\ [Next]_vars => DaemonInv'
<1> SUFFICES ASSUME DaemonInv, [Next]_vars PROVE DaemonInv'
  OBVIOUS
<1>1. CASE UNCHANGED vars
  BY <1>1 DEF DaemonInv, TypeOK, Sane, OffNotEnabled, vars
<1>2. CASE DaemonCrash \/ RejectConfig
  <2>1. {saved, oldConfig} \subseteq Configs \cup {InitConfig, NoConfig}
    BY DEF DaemonInv, TypeOK
  <2>2. QED
    BY <1>2, <2>1, RebootKeeps DEF DaemonCrash, RejectConfig
<1>3. QED
  BY <1>1, <1>2, RouterKeeps, CloudKeeps, ProcessKeeps, RecvKeeps DEF Next

\* and so always holds.
LEMMA DaemonAlways == Spec => []DaemonInv
BY DaemonInit, DaemonStep, PTL DEF Spec

\* The types of the daemon's tables, of its processes and of what is on the way.
THEOREM TypeCorrect == Spec => []TypeOK
BY DaemonAlways, PTL DEF DaemonInv

\* Two processes of a module never work at the same time: only a process that owns
\* the identity is sent a configuration, and only one can own it.
THEOREM OneWorks == Spec => []OneRunning
<1>1. DaemonInv => OneRunning
  <2> SUFFICES ASSUME DaemonInv, NEW m \in Modules
               PROVE  Cardinality({i \in ProcsOf(m) : procs[i].at = "running"}) <= 1
    BY DEF OneRunning
  <2> DEFINE S == {i \in ProcsOf(m) : procs[i].at = "running"}
  <2>1. \A i, j \in S : i = j
    BY DEF DaemonInv, Sane, ProcsOf
  <2> HIDE DEF S
  <2>2. S = {} \/ \E i : S = {i}
    BY <2>1
  <2>3. Cardinality(S) = 0 \/ Cardinality(S) = 1
    BY <2>2, FS_EmptySet, FS_Singleton
  <2>4. Cardinality(S) <= 1
    BY <2>3
  <2>5. QED
    BY <2>4 DEF S
<1>2. QED
  BY <1>1, DaemonAlways, PTL

\* However changes, crashes and reports are interleaved, only a change of the
\* configuration starts a module that the configuration disables, unless nothing was
\* done with the module when that was changed.
THEOREM RestartIsEnabled == Spec => RestartOnlyEnabled
<1>1. ASSUME DaemonInv, [Next]_vars, NEW m \in Modules, Forked(m), cloud # "ops"
      PROVE  config'[m] \notin OffSettings \/ m \in missed'
  <2>1. PICK i \in Pids : procs[i] = Free /\ procs'[i] = NewProc(m)
    BY <1>1 DEF Forked
  <2>2. /\ \A n \in Modules : NewProc(n).mod = n /\ NewProc(n) # Free
        /\ Sane(procs) /\ OffNotEnabled /\ TypeOK
    BY <1>1, NewSlot DEF DaemonInv
  <2>3. procs'[i] # Free
    BY <2>1, <2>2
  <2>4. CASE UNCHANGED vars
    BY <2>1, <2>3, <2>4 DEF vars
  <2>5. CASE \E n \in Modules : ReadInbox(n)
    BY <2>1, <2>3, <2>5 DEF ReadInbox, NotifyUp, NotifyDown, RelayReport
  <2>6. CASE SendConfig
    BY <2>1, <2>2, <2>3, <2>6, SendKeeps DEF SendConfig, TypeOK
  <2>7. CASE StartAgain
    <3>1. procs'[i] = NewProc(router.mod) /\ MayStart(router.mod) /\ router.mod \in Modules
      BY <2>1, <2>2, <2>3, <2>7, ForkKeeps DEF StartAgain, TypeOK
    <3>2. m = router.mod
      BY <2>1, <2>2, <3>1
    <3>3. QED
      BY <2>2, <2>7, <3>1, <3>2 DEF StartAgain, MayStart, OffNotEnabled
  <2>8. CASE ColdStart
    <3> DEFINE ms == ToColdStart(status, enabled, peerConfig)
    <3>1. ms \in SUBSET Modules /\ ms \subseteq enabled
      BY DEF ToColdStart
    <3>2. procs'[i] \in {Free} \cup {NewProc(n) : n \in ms}
      BY <2>1, <2>2, <2>8, <3>1, ForkAllKeeps DEF ColdStart
    <3>3. m \in ms
      BY <2>1, <2>2, <2>3, <3>1, <3>2
    <3>4. QED
      BY <2>2, <2>8, <3>1, <3>3 DEF ColdStart, OffNotEnabled
  <2>9. CASE BeginChange \/ \E n \in Modules : RelayCmd(n)
    <3>1. "STOP" \in Commands
      BY DEF Commands
    <3>2. QED
      BY <2>1, <2>2, <2>3, <2>9, <3>1, SendKeeps DEF BeginChange, RelayCmd
  <2>10. CASE \E n \in Modules : Operate(n)
    BY <1>1, <2>10 DEF Operate
  <2>11. CASE \E k \in Pids : ProcStep(k) \/ Crash(k) \/ Report(k)
    <3>1. PICK k \in Pids : ProcStep(k) \/ Crash(k) \/ Report(k)
      BY <2>11
    <3>2. procs[k] # Free
      BY <3>1, FreeSlot DEF ProcStep, Boot, Receive, Crash, Report
    <3>3. procs'[i] = procs[i]
      BY <2>1, <2>2, <3>1, <3>2 DEF ProcStep, Boot, Receive, Crash, Report, Exit, Sane
    <3>4. QED
      BY <2>1, <2>3, <3>3
  <2>12. CASE \E c \in Configs : RecvConfig(c) \/ FailConfig(c)
    BY <2>1, <2>3, <2>12 DEF RecvConfig, FailConfig, TakeConfig, net
  <2>13. CASE DaemonCrash \/ RejectConfig
    <3>1. PICK c \in Configs \cup {InitConfig, NoConfig} : Reboot(c)
      BY <2>2, <2>13 DEF DaemonCrash, RejectConfig, TypeOK
    <3>2. On(c) \in SUBSET Modules /\ \A n \in On(c) : c[n] \notin OffSettings
      BY NewConfig
    <3>3. procs'[i] \in {Free} \cup {NewProc(n) : n \in On(c)}
      BY <2>1, <3>1, <3>2, NoProcsSane, ForkAllKeeps DEF Reboot
    <3>4. m \in On(c)
      BY <2>1, <2>2, <2>3, <3>2, <3>3
    <3>5. QED
      BY <3>1, <3>2, <3>4 DEF Reboot
  <2>14. QED
    BY <1>1, <2>4, <2>5, <2>6, <2>7, <2>8, <2>9, <2>10, <2>11, <2>12, <2>13
       DEF Next, RouterStep, CloudStep
<1>2. DaemonInv /\ [Next]_vars =>
        [\A m \in Modules : Forked(m) /\ cloud # "ops"
            => config'[m] \notin OffSettings \/ m \in missed']_vars
  BY <1>1
<1>3. QED
  BY <1>2, DaemonAlways, PTL DEF Spec, RestartOnlyEnabled

--------------------------------------------------------------------------------
(* While the configuration stands *)

\* No configuration comes, and no process dies before it connects.
Standing == MaxReconfigs = 0 /\ ~CrashAtBoot

Kinds == {"connect", "disconnect", "msg"}

\* The processes of module m that own a connection.
Owners(ps, m) == {i \in Pids : ps[i].mod = m /\ ps[i].attached}

\* A module has one process at most, and from its constructor's end it has a connection.
Single(ps) ==
    /\ \A i, j \in Pids : ps[i].mod = ps[j].mod /\ ps[i].mod \in Modules => i = j
    /\ \A i \in Pids : ps[i].mod \in Modules => (ps[i].attached <=> ps[i].at # "boot")

\* What is unread of a module leads from what the daemon takes it for, s, to its
\* connections, a: a connect comes first, and only of a module that is not up, and a
\* disconnect last, and only of one that has no connection left.
Leads(q, s, a) ==
    /\ q = <<>> => (s = "up" <=> a # {})
    /\ \A k \in 1..Len(q) : /\ q[k] = "connect" <=> k = 1 /\ s # "up"
                            /\ q[k] = "disconnect" <=> k = Len(q) /\ a = {}

\* Nothing is unread of a module whose process has not connected yet, or which is about
\* to be started again and has none.
Fresh(ib, st, m) == ib[m] = <<>> /\ st[m] = "down"

StandInv ==
    /\ Standing /\ cloud = "idle" /\ reconfigs = 0
    /\ Single(procs)
    /\ \A m \in Modules : Leads(inbox[m], status[m], Owners(procs, m))
    /\ \A m \in Modules : status[m] \notin {"disabled", "removed"}
    /\ \A i \in Pids : procs[i].at = "boot" => Fresh(inbox, status, procs[i].mod)
    /\ router.at = "start" => /\ Fresh(inbox, status, router.mod)
                              /\ \A i \in Pids : procs[i].mod # router.mod
    /\ ReportAgrees

\* The head of what is unread is read.
LEMMA HeadRead ==
    ASSUME NEW q \in Seq(Kinds), q # <<>>, NEW s, NEW a, Leads(q, s, a)
    PROVE  /\ Head(q) = "connect" => s # "up" /\ Leads(Tail(q), "up", a)
           /\ Head(q) = "disconnect" => /\ s = "up" /\ a = {} /\ Tail(q) = <<>>
                                        /\ Leads(<<>>, "down", a)
           /\ Head(q) = "msg" => s = "up" /\ Leads(Tail(q), s, a)
<1> DEFINE t == Tail(q)
           n == Len(q)
<1>1. /\ n \in Nat /\ n # 0 /\ 1 \in 1..n /\ Head(q) = q[1]
      /\ t \in Seq(Kinds) /\ Len(t) = n - 1
      /\ \A k \in 1..n - 1 : t[k] = q[k + 1] /\ k + 1 \in 1..n
      /\ t = <<>> <=> n = 1
  <2>1. n \in Nat /\ n # 0 /\ Head(q) = q[1]
    BY EmptySeq, LenProperties
  <2>2. /\ t \in Seq(Kinds) /\ Len(t) = n - 1
        /\ \A k \in 1..Len(t) : t[k] = q[k + 1]
    BY HeadTailProperties
  <2>3. t = <<>> <=> n = 1
    BY <2>1, <2>2, EmptySeq
  <2>4. QED
    BY <2>1, <2>2, <2>3
<1> HIDE DEF t, n
<1>2. \A k \in 1..n : /\ q[k] = "connect" <=> k = 1 /\ s # "up"
                      /\ q[k] = "disconnect" <=> k = n /\ a = {}
  BY DEF Leads, n
<1>3. \A k \in 1..Len(t) : /\ t[k] # "connect"
                           /\ t[k] = "disconnect" <=> k = Len(t) /\ a = {}
  BY <1>1, <1>2
<1>4. ASSUME Head(q) = "connect" PROVE s # "up" /\ Leads(t, "up", a)
  <2>1. s # "up" /\ (n = 1 => a # {})
    BY <1>1, <1>2, <1>4
  <2>2. QED
    BY <1>1, <1>3, <2>1 DEF Leads
<1>5. ASSUME Head(q) = "disconnect"
      PROVE  s = "up" /\ a = {} /\ t = <<>> /\ Leads(<<>>, "down", a)
  <2>1. s = "up" /\ a = {} /\ n = 1
    BY <1>1, <1>2, <1>5
  <2>2. Leads(<<>>, "down", a)
    BY <2>1 DEF Leads
  <2>3. QED
    BY <1>1, <2>1, <2>2
<1>6. ASSUME Head(q) = "msg" PROVE s = "up" /\ Leads(t, s, a)
  <2>1. s = "up" /\ (n = 1 => a # {})
    BY <1>1, <1>2, <1>6
  <2>2. QED
    BY <1>1, <1>3, <2>1 DEF Leads
<1>7. QED
  BY <1>4, <1>5, <1>6 DEF t

\* A connect is added behind nothing.
LEMMA ConnectAdded ==
    ASSUME NEW s, s # "up", NEW b, b # {}
    PROVE  Leads(Append(<<>>, "connect"), s, b)
<1> DEFINE q == Append(<<>>, "connect")
<1>1. Len(q) = 1 /\ q[1] = "connect" /\ q # <<>>
  OBVIOUS
<1> HIDE DEF q
<1>2. Leads(q, s, b)
  BY <1>1 DEF Leads
<1>3. QED
  BY <1>2 DEF q

\* What is sent along a connection, or its end, is added.
LEMMA LastAdded ==
    ASSUME NEW q \in Seq(Kinds), NEW s, NEW a, Leads(q, s, a), a # {}
    PROVE  /\ Leads(Append(q, "msg"), s, a)
           /\ Leads(Append(q, "disconnect"), s, {})
<1> DEFINE n == Len(q)
           With(x) == Append(q, x)
<1>1. /\ n \in Nat
      /\ q = <<>> <=> n = 0
      /\ \A x \in Kinds : /\ Len(With(x)) = n + 1 /\ With(x)[n + 1] = x /\ With(x) # <<>>
                          /\ \A k \in 1..n : With(x)[k] = q[k]
  BY EmptySeq, LenProperties, AppendProperties
<1>2. \A k \in 1..n + 1 : k \in 1..n \/ k = n + 1
  BY <1>1
<1> HIDE DEF n, With
<1>3. /\ n = 0 => (s = "up" <=> a # {})
      /\ \A k \in 1..n : /\ q[k] = "connect" <=> k = 1 /\ s # "up"
                         /\ q[k] = "disconnect" <=> k = n /\ a = {}
  BY <1>1 DEF Leads, n
<1>4. {"connect", "disconnect", "msg"} \subseteq Kinds
  BY DEF Kinds
<1>5. ASSUME NEW x \in {"msg", "disconnect"}, NEW c, c = {} <=> x = "disconnect"
      PROVE  Leads(With(x), s, c)
  <2>1. /\ Len(With(x)) = n + 1 /\ With(x)[n + 1] = x /\ With(x) # <<>>
        /\ \A k \in 1..n : With(x)[k] = q[k]
    BY <1>1, <1>4
  <2>2. ASSUME NEW k \in 1..n + 1
        PROVE  /\ With(x)[k] = "connect" <=> k = 1 /\ s # "up"
               /\ With(x)[k] = "disconnect" <=> k = n + 1 /\ c = {}
    <3>1. CASE k \in 1..n
      <4>1. k # n + 1 /\ With(x)[k] = q[k]
        BY <1>1, <2>1, <3>1
      <4>2. QED
        BY <1>3, <1>5, <3>1, <4>1
    <3>2. CASE k = n + 1
      <4>1. With(x)[k] = x /\ (k = 1 => s = "up")
        BY <1>1, <1>3, <1>5, <2>1, <3>2
      <4>2. QED
        BY <1>5, <3>2, <4>1
    <3>3. QED
      BY <1>2, <3>1, <3>2
  <2>3. QED
    BY <2>1, <2>2 DEF Leads
<1>6. QED
  BY <1>5 DEF With

\* Of some slots there is a first one: of the sets of those up to one of them there is
\* one that has none of the others below it.
LEMMA FirstSlot ==
    ASSUME NEW S \in SUBSET Pids, S # {}
    PROVE  \E i \in S : \A j \in S : i <= j
<1> DEFINE UpTo(x) == {y \in S : y <= x}
           T == {UpTo(x) : x \in S}
<1>1. IsFiniteSet(S) /\ \A x \in S : x \in Int
  <2>1. MaxPids \in Int /\ 1 \in Int
    BY EvDaemonAssumption
  <2>2. IsFiniteSet(1..MaxPids) /\ 1..MaxPids \subseteq Int
    BY <2>1, FS_Interval
  <2>3. S \in SUBSET (1..MaxPids)
    BY DEF Pids
  <2>4. QED
    BY <2>2, <2>3, FS_Subset
<1>2. T \subseteq FiniteSubsetsOf(S) /\ T # {}
  <2>1. \A A \in SUBSET S : A \in FiniteSubsetsOf(S)
    BY <1>1, FS_Subset DEF FiniteSubsetsOf
  <2>2. \A x \in S : UpTo(x) \in SUBSET S
    OBVIOUS
  <2>3. QED
    BY <2>1, <2>2
<1>3. IsWellFoundedOn(StrictSubsetOrdering(S), FiniteSubsetsOf(S))
  BY FS_StrictSubsetOrderingWellFounded
<1> HIDE DEF T
<1>4. \E d \in T : \A c \in T : ~(<<c, d>> \in StrictSubsetOrdering(S))
  BY <1>2, <1>3, WFMin
<1> USE DEF T
<1>5. PICK x \in S : \A y \in S : ~(<<UpTo(y), UpTo(x)>> \in StrictSubsetOrdering(S))
  BY <1>4
<1>6. ASSUME NEW y \in S PROVE x <= y
  <2> SUFFICES ASSUME y < x PROVE FALSE
    BY <1>1
  <2>1. UpTo(y) \subseteq UpTo(x) /\ x \in UpTo(x) /\ x \notin UpTo(y)
    BY <1>1
  <2> HIDE DEF UpTo
  <2>2. UpTo(y) \in SUBSET S /\ UpTo(x) \in SUBSET S /\ UpTo(y) # UpTo(x)
    BY <2>1 DEF UpTo
  <2>3. QED
    BY <1>5, <2>1, <2>2 DEF StrictSubsetOrdering
<1>7. QED
  BY <1>6

\* The slot that a fork takes was free.
LEMMA ForkTakesFree ==
    ASSUME NEW ps, NEW m, \E i \in Pids : ps[i] = Free
    PROVE  \E i \in Pids : ps[i] = Free /\ Fork(ps, m) = [ps EXCEPT ![i] = NewProc(m)]
<1> DEFINE S == {i \in Pids : ps[i] = Free}
<1>1. S \in SUBSET Pids /\ S # {}
  OBVIOUS
<1>2. PICK i \in S : \A j \in S : i <= j
  BY <1>1, FirstSlot
<1>3. ps[i] = Free /\ \A k \in 1..i - 1 : ps[k] # Free
  <2> SUFFICES ASSUME NEW k \in 1..i - 1, ps[k] = Free PROVE FALSE
    BY <1>2
  <2>1. i \in 1..MaxPids /\ MaxPids \in Nat
    BY EvDaemonAssumption DEF Pids
  <2>2. k \in S /\ ~(i <= k)
    BY <2>1 DEF Pids
  <2>3. QED
    BY <1>2, <2>2
<1> DEFINE P(j) == ps[j] = Free /\ \A k \in 1..j - 1 : ps[k] # Free
           c == CHOOSE j \in Pids : P(j)
<1>4. c \in Pids /\ P(c)
  <2>1. i \in Pids /\ P(i)
    BY <1>2, <1>3
  <2> HIDE DEF P
  <2>2. QED
    BY <2>1
<1>5. Fork(ps, m) = [ps EXCEPT ![c] = NewProc(m)]
  BY DEF Fork
<1> HIDE DEF c
<1>6. QED
  BY <1>4, <1>5

\* Where a process is started, it is the only one of its module.
LEMMA SingleFork ==
    ASSUME NEW ps, Sane(ps), Single(ps), NEW m \in Modules, NEW i \in Pids, ps[i] = Free,
           \A j \in Pids : ps[j].mod # m
    PROVE  /\ Single([ps EXCEPT ![i] = NewProc(m)])
           /\ \A n \in Modules : Owners([ps EXCEPT ![i] = NewProc(m)], n) = Owners(ps, n)
<1> DEFINE qs == [ps EXCEPT ![i] = NewProc(m)]
<1>1. /\ qs[i] = NewProc(m) /\ \A j \in Pids \ {i} : qs[j] = ps[j]
      /\ NewProc(m).mod = m /\ NewProc(m).at = "boot" /\ ~NewProc(m).attached
  BY NewSlot DEF Sane
<1>2. ~ps[i].attached
  BY FreeSlot
<1> HIDE DEF qs
<1>3. Single(qs)
  BY <1>1 DEF Single
<1>4. \A n \in Modules : \A j \in Pids :
         (qs[j].mod = n /\ qs[j].attached) <=> (ps[j].mod = n /\ ps[j].attached)
  BY <1>1, <1>2
<1>5. QED
  BY <1>3, <1>4 DEF Owners, qs

\* All the processes of a start are new, one of each module.
LEMMA SingleStart ==
    ASSUME NEW ms \in SUBSET Modules
    PROVE  /\ Single(ForkAll(NoProcs, ms))
           /\ \A n \in Modules : Owners(ForkAll(NoProcs, ms), n) = {}
           /\ \A i \in Pids : ForkAll(NoProcs, ms)[i].at = "boot"
                                 => ForkAll(NoProcs, ms)[i].mod \in ms
<1> DEFINE slot == CHOOSE f \in [ms -> Pids] :
                       /\ \A m \in ms : NoProcs[f[m]] = Free
                       /\ \A m, n \in ms : f[m] = f[n] => m = n
           New(i) == CHOOSE m \in ms : slot[m] = i
           qs == [i \in Pids |-> IF \E m \in ms : slot[m] = i THEN NewProc(New(i)) ELSE NoProcs[i]]
<1>1. ForkAll(NoProcs, ms) = qs
  BY DEF ForkAll
<1> HIDE DEF slot
<1>2. \A i \in Pids : (\E m \in ms : slot[m] = i) => New(i) \in ms /\ slot[New(i)] = i
  OBVIOUS
<1> HIDE DEF New
<1>3. \A i \in Pids : \/ New(i) \in ms /\ slot[New(i)] = i /\ qs[i] = NewProc(New(i))
                      \/ qs[i] = Free
  BY <1>2 DEF NoProcs
<1> HIDE DEF qs
<1>4. \A i \in Pids : \/ /\ New(i) \in ms /\ slot[New(i)] = i /\ qs[i].mod = New(i)
                         /\ qs[i].at = "boot" /\ ~qs[i].attached
                      \/ qs[i].mod = "free" /\ qs[i].at = "free" /\ ~qs[i].attached
  BY <1>3, NewSlot, FreeSlot
<1>5. "free" \notin Modules
  BY EvDaemonAssumption
<1>6. Single(qs)
  BY <1>4, <1>5 DEF Single
<1>7. \A n \in Modules : Owners(qs, n) = {}
  BY <1>4 DEF Owners
<1>8. \A i \in Pids : qs[i].at = "boot" => qs[i].mod \in ms
  BY <1>4
<1>9. QED
  BY <1>1, <1>6, <1>7, <1>8

\* The same modules with the same connections.
Alike(ps, qs) ==
    \A i \in Pids : /\ qs[i].mod = ps[i].mod
                    /\ qs[i].attached <=> ps[i].attached
                    /\ qs[i].at = "boot" <=> ps[i].at = "boot"

\* A step that changes nothing these facts are about keeps them.
LEMMA AlikeStands ==
    ASSUME NEW ps, NEW qs, Single(ps), Alike(ps, qs)
    PROVE  Single(qs) /\ \A n \in Modules : Owners(qs, n) = Owners(ps, n)
<1>1. Single(qs)
  BY DEF Single, Alike
<1>2. \A n \in Modules : Owners(qs, n) = Owners(ps, n)
  BY DEF Owners, Alike
<1>3. QED
  BY <1>1, <1>2

\* What is sent changes neither modules nor connections.
LEMMA SendAlike ==
    ASSUME NEW ps, Sane(ps), NEW m, NEW c
    PROVE  Alike(ps, SendTo(ps, m, c))
<1> DEFINE qs == SendTo(ps, m, c)
<1>1. \A i \in Pids : /\ qs[i].mod = ps[i].mod /\ qs[i].at = ps[i].at
                      /\ qs[i].attached = ps[i].attached
  <2> TAKE i \in Pids
  <2>1. CASE ps[i].mod = m /\ ps[i].attached
    <3>1. ps[i] # Free /\ ps[i] \in Proc
      BY <2>1, FreeSlot DEF Sane
    <3>2. qs[i] = [ps[i] EXCEPT !.cmds = Append(@, c)]
      BY <2>1 DEF SendTo
    <3>3. QED
      BY <3>1, <3>2, TakenSlot
  <2>2. CASE ~(ps[i].mod = m /\ ps[i].attached)
    BY <2>2 DEF SendTo
  <2>3. QED
    BY <2>1, <2>2
<1> HIDE DEF qs
<1>2. QED
  BY <1>1 DEF Alike, qs

\* What is true of one module is enough when the others are left alone.
LEMMA StandsStill ==
    ASSUME StandInv, DaemonInv, Single(procs'), cloud' = "idle", router' = router,
           status' = status, reported' = reported, reconfigs' = 0, NEW m \in Modules,
           \A n \in Modules \ {m} : inbox'[n] = inbox[n],
           \A n \in Modules \ {m} : Owners(procs', n) = Owners(procs, n),
           Leads(inbox'[m], status[m], Owners(procs', m)),
           \A i \in Pids : procs'[i].mod \in {procs[i].mod, "free"},
           \A i \in Pids : procs'[i].at = "boot" => procs[i].at = "boot" /\ procs'[i].mod \in Modules \ {m},
           router.at = "start" => router.mod # m
    PROVE  StandInv'
<1>1. router.mod \in Modules /\ "free" \notin Modules
  BY EvDaemonAssumption DEF DaemonInv, TypeOK
<1>2. \A n \in Modules : Leads(inbox'[n], status'[n], Owners(procs', n))
  BY DEF StandInv
<1>3. ASSUME NEW i \in Pids, procs'[i].at = "boot" PROVE Fresh(inbox', status', procs'[i].mod)
  <2>1. procs[i].at = "boot" /\ procs'[i].mod \in Modules \ {m} /\ procs'[i].mod = procs[i].mod
    BY <1>1, <1>3
  <2>2. QED
    BY <1>3, <2>1 DEF StandInv, Fresh
<1>4. ASSUME router'.at = "start"
      PROVE  Fresh(inbox', status', router.mod) /\ \A i \in Pids : procs'[i].mod # router.mod
  <2>1. Fresh(inbox, status, router.mod)
    BY <1>4 DEF StandInv
  <2>2. Fresh(inbox', status', router.mod)
    BY <1>1, <1>4, <2>1 DEF Fresh
  <2>3. QED
    BY <1>1, <1>4, <2>2 DEF StandInv
<1>5. ReportAgrees'
  BY DEF StandInv, ReportAgrees
<1>6. QED
  BY <1>2, <1>3, <1>4, <1>5 DEF StandInv, Standing

\* What is known of a process that is alive.
LEMMA AliveStands ==
    ASSUME StandInv, DaemonInv, NEW i \in Pids, procs[i] # Free
    PROVE  /\ procs[i].mod \in Modules /\ Sane(procs) /\ Single(procs)
           /\ inbox \in [Modules -> Seq(Kinds)] /\ inbox[procs[i].mod] \in Seq(Kinds)
           /\ Leads(inbox[procs[i].mod], status[procs[i].mod], Owners(procs, procs[i].mod))
           /\ \A j \in Pids : procs[j].mod = procs[i].mod => j = i
           /\ procs[i].attached <=> procs[i].at # "boot"
           /\ procs[i].attached => Owners(procs, procs[i].mod) = {i}
           /\ router.at = "start" => router.mod # procs[i].mod
           /\ \A j \in Pids : procs[j].at = "boot" => procs[j].mod \in Modules
<1>1. \A j \in Pids : procs[j] # Free => procs[j].mod \in Modules
  BY TakenSlot DEF DaemonInv, Sane
<1>2. \A j \in Pids : procs[j].at = "boot" => procs[j].mod \in Modules
  BY <1>1, FreeSlot
<1>3. inbox \in [Modules -> Seq(Kinds)]
  BY DEF DaemonInv, TypeOK, Kinds
<1>4. /\ \A j \in Pids : procs[j].mod = procs[i].mod => j = i
      /\ procs[i].attached <=> procs[i].at # "boot"
  BY <1>1 DEF StandInv, Single
<1>5. procs[i].attached => Owners(procs, procs[i].mod) = {i}
  BY <1>4 DEF Owners
<1>6. QED
  BY <1>1, <1>2, <1>3, <1>4, <1>5 DEF StandInv, DaemonInv

\* A process that had connected ends.
LEMMA ExitStands ==
    ASSUME StandInv, DaemonInv, NEW i \in Pids, procs[i] # Free, procs[i].attached, Exit(i),
           UNCHANGED <<tables, threads, reconfigs>>
    PROVE  StandInv'
<1> DEFINE m == procs[i].mod
<1>1. /\ m \in Modules /\ Sane(procs) /\ Single(procs) /\ inbox \in [Modules -> Seq(Kinds)]
      /\ inbox[m] \in Seq(Kinds) /\ Leads(inbox[m], status[m], Owners(procs, m))
      /\ \A j \in Pids : procs[j].mod = m => j = i
      /\ Owners(procs, m) = {i}
      /\ router.at = "start" => router.mod # m
      /\ \A j \in Pids : procs[j].at = "boot" => procs[j].mod \in Modules
  BY AliveStands
<1> HIDE DEF m
<1>2. procs' = [procs EXCEPT ![i] = Free] /\ inbox' = [inbox EXCEPT ![m] = Append(@, "disconnect")]
  BY DEF Exit, m
<1>3. /\ procs'[i] = Free /\ \A j \in Pids \ {i} : procs'[j] = procs[j]
      /\ inbox'[m] = Append(inbox[m], "disconnect")
      /\ \A n \in Modules \ {m} : inbox'[n] = inbox[n]
  BY <1>1, <1>2 DEF Sane
<1>4. "free" \notin Modules /\ Free.mod = "free" /\ Free.at = "free" /\ ~Free.attached
  BY EvDaemonAssumption, FreeSlot
<1>5. Single(procs')
  <2>1. \A j \in Pids : procs'[j].mod \in Modules => j # i /\ procs'[j] = procs[j]
    BY <1>3, <1>4
  <2>2. QED
    BY <1>1, <2>1 DEF Single
<1>6. Owners(procs', m) = {}
  BY <1>1, <1>3, <1>4 DEF Owners
<1>7. \A n \in Modules \ {m} : Owners(procs', n) = Owners(procs, n)
  <2> TAKE n \in Modules \ {m}
  <2>1. \A j \in Pids : (procs'[j].mod = n /\ procs'[j].attached)
                           <=> (procs[j].mod = n /\ procs[j].attached)
    BY <1>3, <1>4 DEF m
  <2>2. QED
    BY <2>1 DEF Owners
<1>8. Leads(inbox'[m], status[m], {})
  <2>1. Owners(procs, m) # {}
    BY <1>1
  <2>2. QED
    BY <1>1, <1>3, <2>1, LastAdded
<1>9. \A j \in Pids : /\ procs'[j].mod \in {procs[j].mod, "free"}
                      /\ procs'[j].at = "boot" => /\ procs[j].at = "boot"
                                                  /\ procs'[j].mod \in Modules \ {m}
  <2> TAKE j \in Pids
  <2>1. CASE j = i
    BY <1>3, <1>4, <2>1
  <2>2. CASE j # i
    BY <1>1, <1>3, <2>2
  <2>3. QED
    BY <2>1, <2>2
<1>10. cloud' = "idle" /\ router' = router /\ status' = status /\ reported' = reported
       /\ reconfigs' = 0
  BY DEF tables, threads, StandInv
<1>11. QED
  BY <1>1, <1>3, <1>5, <1>6, <1>7, <1>8, <1>9, <1>10, StandsStill

\* What processes do on their own.
LEMMA ProcessStands ==
    ASSUME StandInv, DaemonInv, NEW i \in Pids, ProcStep(i) \/ Crash(i) \/ Report(i)
    PROVE  StandInv'
<1> DEFINE m == procs[i].mod
<1>1. procs[i] # Free
  BY FreeSlot DEF ProcStep, Boot, Receive, Crash, Report
<1>2. UNCHANGED <<tables, threads, reconfigs>>
  BY DEF ProcStep, Boot, Receive, Crash, Report, bounds
<1>3. /\ m \in Modules /\ Sane(procs) /\ Single(procs) /\ inbox \in [Modules -> Seq(Kinds)]
      /\ inbox[m] \in Seq(Kinds) /\ Leads(inbox[m], status[m], Owners(procs, m))
      /\ \A j \in Pids : procs[j].mod = m => j = i
      /\ procs[i].attached <=> procs[i].at # "boot"
      /\ procs[i].attached => Owners(procs, m) = {i}
      /\ router.at = "start" => router.mod # m
      /\ \A j \in Pids : procs[j].at = "boot" => procs[j].mod \in Modules
      /\ procs[i] \in [mod : Modules, at : Stages, attached : BOOLEAN,
                       cmds : Seq(Commands), cfg : Settings \cup {"none"}]
  BY <1>1, AliveStands, TakenSlot DEF Sane
<1> HIDE DEF m
<1>4. cloud' = "idle" /\ router' = router /\ status' = status /\ reported' = reported
      /\ reconfigs' = 0
  BY <1>2 DEF tables, threads, StandInv
<1>5. ASSUME NEW p, p.mod = m, p.attached, p.at # "boot", procs[i].attached,
             procs' = [procs EXCEPT ![i] = p], Leads(inbox'[m], status[m], Owners(procs, m)),
             \A n \in Modules \ {m} : inbox'[n] = inbox[n]
      PROVE  StandInv'
  <2>1. /\ Single(procs')
        /\ \A n \in Modules : Owners(procs', n) = Owners(procs, n)
        /\ \A j \in Pids : procs'[j].mod = procs[j].mod
        /\ \A j \in Pids : procs'[j].at = "boot" => procs[j].at = "boot"
    <3>1. /\ procs'[i] = p /\ \A j \in Pids \ {i} : procs'[j] = procs[j]
          /\ procs[i].at # "boot" /\ procs[i].mod = m
      BY <1>3, <1>5 DEF Sane, m
    <3>2. Alike(procs, procs')
      BY <1>5, <3>1 DEF Alike
    <3>3. QED
      BY <1>3, <3>2, AlikeStands DEF Alike
  <2>2. \A j \in Pids : procs'[j].at = "boot" => procs[j].at = "boot" /\ procs'[j].mod \in Modules \ {m}
    <3> SUFFICES ASSUME NEW j \in Pids, procs'[j].at = "boot"
                 PROVE  procs[j].at = "boot" /\ procs'[j].mod \in Modules \ {m}
      OBVIOUS
    <3>1. procs[j].at = "boot" /\ procs[j].mod \in Modules /\ procs'[j].mod = procs[j].mod
      BY <1>3, <2>1
    <3>2. j # i
      BY <1>3, <1>5, <3>1
    <3>3. QED
      BY <1>3, <3>1, <3>2
  <2>3. QED
    BY <1>3, <1>4, <1>5, <2>1, <2>2, StandsStill
<1>6. CASE Boot(i)
  <2>1. procs[i].at = "boot" /\ ~procs[i].attached
    BY <1>3, <1>6 DEF Boot
  <2>2. ~LockHeld(m) /\ Attached(m) = {}
    BY <1>3, <2>1 DEF LockHeld, ProcsOf, Attached
  <2>3. Fresh(inbox, status, m)
    BY <2>1 DEF StandInv, m
  <2>4. IdentityFree(m)
    BY <2>2, <2>3 DEF IdentityFree, Fresh
  <2>5. /\ procs' = [procs EXCEPT ![i].at = "waiting", ![i].attached = TRUE]
        /\ inbox' = [inbox EXCEPT ![m] = Append(@, "connect")]
    BY <1>6, <2>2, <2>4 DEF Boot, m
  <2>6. /\ procs'[i].at = "waiting" /\ procs'[i].attached /\ procs'[i].mod = m
        /\ \A j \in Pids \ {i} : procs'[j] = procs[j]
        /\ inbox'[m] = Append(inbox[m], "connect")
        /\ \A n \in Modules \ {m} : inbox'[n] = inbox[n]
    BY <1>3, <2>5 DEF Sane, m
  <2>7. Single(procs')
    <3>1. \A j \in Pids : procs'[j].mod = procs[j].mod
      BY <2>6 DEF m
    <3>2. \A j \in Pids : procs[j].mod \in Modules => (procs'[j].attached <=> procs'[j].at # "boot")
      BY <1>3, <2>6 DEF Single
    <3>3. \A j, k \in Pids : procs[j].mod = procs[k].mod /\ procs[j].mod \in Modules => j = k
      BY <1>3 DEF Single
    <3>4. QED
      BY <3>1, <3>2, <3>3 DEF Single
  <2>8. Owners(procs', m) # {} /\ \A n \in Modules \ {m} : Owners(procs', n) = Owners(procs, n)
    <3>1. i \in Owners(procs', m)
      BY <2>6 DEF Owners
    <3>2. ASSUME NEW n \in Modules \ {m} PROVE Owners(procs', n) = Owners(procs, n)
      <4>1. \A j \in Pids : (procs'[j].mod = n /\ procs'[j].attached)
                               <=> (procs[j].mod = n /\ procs[j].attached)
        BY <2>6 DEF m
      <4>2. QED
        BY <4>1 DEF Owners
    <3>3. QED
      BY <3>1, <3>2
  <2>9. Leads(inbox'[m], status[m], Owners(procs', m))
    <3>1. inbox'[m] = Append(<<>>, "connect") /\ status[m] # "up"
      BY <2>3, <2>6 DEF Fresh
    <3>2. QED
      BY <2>8, <3>1, ConnectAdded
  <2>10. \A j \in Pids : /\ procs'[j].mod \in {procs[j].mod, "free"}
                         /\ procs'[j].at = "boot" => /\ procs[j].at = "boot"
                                                     /\ procs'[j].mod \in Modules \ {m}
    <3> TAKE j \in Pids
    <3>1. CASE j = i
      BY <2>6, <3>1 DEF m
    <3>2. CASE j # i
      BY <1>3, <2>6, <3>2
    <3>3. QED
      BY <3>1, <3>2
  <2>11. QED
    BY <1>3, <1>4, <2>6, <2>7, <2>8, <2>9, <2>10, StandsStill
<1>7. CASE Receive(i)
  <2>1. procs[i].attached
    BY <1>3, <1>7 DEF Receive, Sane
  <2> DEFINE c == Head(procs[i].cmds)
             rest == [procs EXCEPT ![i].cmds = Tail(@)]
  <2>2. CASE procs' = rest /\ UNCHANGED inbox
    <3> DEFINE p == [procs[i] EXCEPT !.cmds = Tail(@)]
    <3>1. p.mod = m /\ p.attached /\ p.at # "boot"
      BY <1>3, <2>1 DEF m
    <3>2. procs' = [procs EXCEPT ![i] = p]
      BY <1>3, <2>2 DEF Sane
    <3>3. QED
      BY <1>3, <1>5, <2>1, <2>2, <3>1, <3>2
  <2>3. CASE procs' = [rest EXCEPT ![i].at = "running", ![i].cfg = c] /\ UNCHANGED inbox
    <3> DEFINE p == [procs[i] EXCEPT !.cmds = Tail(@), !.at = "running", !.cfg = c]
    <3>1. p.mod = m /\ p.attached /\ p.at # "boot"
      BY <1>3, <2>1 DEF m
    <3>2. procs' = [procs EXCEPT ![i] = p]
      BY <1>3, <2>3 DEF Sane
    <3>3. QED
      BY <1>3, <1>5, <2>1, <2>3, <3>1, <3>2
  <2>4. CASE Exit(i)
    BY <1>1, <1>2, <2>1, <2>4, ExitStands
  <2>5. QED
    BY <1>7, <2>2, <2>3, <2>4 DEF Receive
<1>8. CASE Crash(i)
  <2>1. procs[i].attached /\ Exit(i)
    BY <1>8 DEF Crash, StandInv, Standing
  <2>2. QED
    BY <1>1, <1>2, <2>1, ExitStands
<1>9. CASE Report(i)
  <2>1. /\ procs[i].attached /\ procs[i].at = "running" /\ procs' = procs
        /\ inbox' = [inbox EXCEPT ![m] = Append(@, "msg")]
    BY <1>9 DEF Report, m
  <2>2. /\ inbox'[m] = Append(inbox[m], "msg")
        /\ \A n \in Modules \ {m} : inbox'[n] = inbox[n]
    BY <1>3, <2>1
  <2>3. Owners(procs, m) # {}
    BY <1>3, <2>1
  <2>4. Leads(inbox'[m], status[m], Owners(procs, m))
    BY <1>3, <2>2, <2>3, LastAdded
  <2>5. procs' = [procs EXCEPT ![i] = procs[i]]
    BY <1>3, <2>1 DEF Sane
  <2>6. procs[i].mod = m /\ procs[i].at # "boot"
    BY <2>1 DEF m
  <2>7. QED
    BY <1>5, <2>1, <2>2, <2>4, <2>5, <2>6
<1>10. QED
  BY <1>6, <1>7, <1>8, <1>9 DEF ProcStep

\* What is common to all that the router thread reads of a module.
LEMMA ReadStands ==
    ASSUME StandInv, DaemonInv, NEW m \in Modules, NEW kinds, Read(m, kinds)
    PROVE  /\ router = Idle /\ Idle.at = "idle"
           /\ inbox[m] \in Seq(Kinds) /\ inbox[m] # <<>> /\ Head(inbox[m]) \in kinds
           /\ Leads(inbox[m], status[m], Owners(procs, m))
           /\ inbox'[m] = Tail(inbox[m]) /\ \A n \in Modules \ {m} : inbox'[n] = inbox[n]
           /\ \A i \in Pids : procs[i].at = "boot" => procs[i].mod \in Modules \ {m}
<1>1. inbox \in [Modules -> Seq(Kinds)]
  BY DEF DaemonInv, TypeOK, Kinds
<1>2. \A i \in Pids : procs[i].at = "boot" => procs[i].mod \in Modules \ {m}
  <2> SUFFICES ASSUME NEW i \in Pids, procs[i].at = "boot" PROVE procs[i].mod \in Modules \ {m}
    OBVIOUS
  <2>1. procs[i].mod \in Modules
    BY FreeSlot, TakenSlot DEF DaemonInv, Sane
  <2>2. inbox[procs[i].mod] = <<>>
    BY DEF StandInv, Fresh
  <2>3. QED
    BY <2>1, <2>2 DEF Read
<1>3. QED
  BY <1>1, <1>2 DEF Read, StandInv, Idle

\* The router thread reads something of module m.
LEMMA ReaderStands ==
    ASSUME StandInv, DaemonInv, NEW m \in Modules, ReadInbox(m)
    PROVE  StandInv'
<1> DEFINE q == inbox[m]
           a == Owners(procs, m)
<1>1. /\ inbox[m] \in Seq(Kinds) /\ inbox[m] # <<>>
      /\ Leads(inbox[m], status[m], Owners(procs, m))
      /\ inbox'[m] = Tail(inbox[m]) /\ \A n \in Modules \ {m} : inbox'[n] = inbox[n]
      /\ \A i \in Pids : procs[i].at = "boot" => procs[i].mod \in Modules \ {m}
      /\ router.at = "idle"
  BY ReadStands DEF ReadInbox, NotifyUp, NotifyDown, RelayReport
<1>2. /\ Head(q) = "connect" => status[m] # "up" /\ Leads(inbox'[m], "up", a)
      /\ Head(q) = "disconnect" => /\ status[m] = "up" /\ a = {} /\ inbox'[m] = <<>>
                                   /\ Leads(inbox'[m], "down", a)
      /\ Head(q) = "msg" => status[m] = "up" /\ Leads(inbox'[m], status[m], a)
  BY <1>1, HeadRead
<1>3. /\ status \in [Modules -> {"absent", "unknown", "down", "up", "disabled", "removed"}]
      /\ reported \in [Modules -> {"none", "recover", "active"}]
      /\ status[m] \notin {"disabled", "removed"} /\ Single(procs)
      /\ cloud = "idle" /\ reconfigs = 0 /\ Standing
      /\ \A n \in Modules : Leads(inbox[n], status[n], Owners(procs, n))
      /\ \A n \in Modules : status[n] \notin {"disabled", "removed"}
      /\ \A i \in Pids : procs[i].at = "boot" => Fresh(inbox, status, procs[i].mod)
      /\ ReportAgrees
  BY DEF DaemonInv, TypeOK, StandInv
<1> HIDE DEF q, a
<1>4. ASSUME NEW s \in {"up", "down"}, status' = [status EXCEPT ![m] = s],
             Leads(inbox'[m], s, a), procs' = procs, cloud' = cloud, reconfigs' = reconfigs,
             reported' = IF m = Mgr THEN reported
                         ELSE [reported EXCEPT ![m] = IF s = "up" THEN "recover" ELSE "active"],
             router'.at = "start" => /\ router'.mod = m /\ inbox'[m] = <<>> /\ s = "down"
                                     /\ \A i \in Pids : procs[i].mod # m
      PROVE  StandInv'
  <2>1. status'[m] = s /\ \A n \in Modules \ {m} : status'[n] = status[n]
    BY <1>3, <1>4
  <2>2. \A n \in Modules : Leads(inbox'[n], status'[n], Owners(procs', n))
    BY <1>1, <1>3, <1>4, <2>1 DEF a
  <2>3. \A n \in Modules : status'[n] \notin {"disabled", "removed"}
    BY <1>3, <2>1
  <2>4. \A i \in Pids : procs'[i].at = "boot" => Fresh(inbox', status', procs'[i].mod)
    <3> SUFFICES ASSUME NEW i \in Pids, procs[i].at = "boot"
                 PROVE  Fresh(inbox', status', procs[i].mod)
      BY <1>4
    <3>1. procs[i].mod \in Modules \ {m} /\ Fresh(inbox, status, procs[i].mod)
      BY <1>1, <1>3
    <3>2. QED
      BY <1>1, <2>1, <3>1 DEF Fresh
  <2>5. router'.at = "start" => /\ Fresh(inbox', status', router'.mod)
                                /\ \A i \in Pids : procs'[i].mod # router'.mod
    BY <1>4, <2>1 DEF Fresh
  <2>6. ReportAgrees'
    <3>1. \A n \in Modules \ {Mgr} : status'[n] = "up" <=> reported'[n] = "recover"
      <4> TAKE n \in Modules \ {Mgr}
      <4>1. CASE n = m
        BY <1>3, <1>4, <2>1, <4>1
      <4>2. CASE n # m
        BY <1>3, <1>4, <2>1, <4>2 DEF ReportAgrees
      <4>3. QED
        BY <4>1, <4>2
    <3>2. QED
      BY <3>1 DEF ReportAgrees
  <2>7. QED
    BY <1>3, <1>4, <2>2, <2>3, <2>4, <2>5, <2>6 DEF StandInv, Standing
<1>5. CASE NotifyUp(m)
  <2>1. Head(q) = "connect"
    BY <1>2, <1>5 DEF NotifyUp, Read, q
  <2>2. router'.at # "start"
    BY <1>5 DEF NotifyUp
  <2>3. /\ status' = [status EXCEPT ![m] = "up"] /\ procs' = procs /\ cloud' = cloud
        /\ reconfigs' = reconfigs
        /\ reported' = IF m = Mgr THEN reported ELSE [reported EXCEPT ![m] = "recover"]
    BY <1>5 DEF NotifyUp, Tell, bounds
  <2>4. QED
    BY <1>2, <1>4, <2>1, <2>2, <2>3
<1>6. CASE NotifyDown(m)
  <2>1. status[m] = "up" /\ Head(q) = "disconnect"
    BY <1>2, <1>3, <1>6 DEF NotifyDown, Read, q
  <2>2. a = {} /\ inbox'[m] = <<>> /\ Leads(inbox'[m], "down", a)
    BY <1>2, <2>1
  <2>3. \A i \in Pids : procs[i].mod # m
    BY <1>1, <1>3, <2>2 DEF Single, Owners, a
  <2>4. /\ status' = [status EXCEPT ![m] = "down"] /\ procs' = procs /\ cloud' = cloud
        /\ reconfigs' = reconfigs
        /\ reported' = IF m = Mgr THEN reported ELSE [reported EXCEPT ![m] = "active"]
        /\ router'.mod = m
    BY <1>6, <2>1 DEF NotifyDown, MarkDown, Tell, bounds
  <2>5. QED
    BY <1>4, <2>2, <2>3, <2>4
<1>7. CASE RelayReport(m)
  <2>1. Head(q) = "msg"
    BY <1>7 DEF RelayReport, Read, q
  <2>2. status[m] = "up" /\ Leads(inbox'[m], "up", a)
    BY <1>2, <2>1
  <2>3. /\ status' = [status EXCEPT ![m] = "up"] /\ procs' = procs /\ cloud' = cloud
        /\ reconfigs' = reconfigs /\ reported' = reported /\ router' = router
    BY <1>7 DEF RelayReport, threads, bounds
  <2>4. reported' = IF m = Mgr THEN reported ELSE [reported EXCEPT ![m] = "recover"]
    BY <1>3, <2>2, <2>3 DEF ReportAgrees
  <2>5. QED
    BY <1>1, <1>4, <2>2, <2>3, <2>4
<1>8. QED
  BY <1>5, <1>6, <1>7 DEF ReadInbox

\* The router thread or a command sends something.
LEMMA SendStands ==
    ASSUME StandInv, DaemonInv, NEW m, NEW c, procs' = SendTo(procs, m, c),
           UNCHANGED <<tables, inbox, cloud, reconfigs>>,
           router' = router \/ router'.at # "start"
    PROVE  StandInv'
<1>1. Alike(procs, procs')
  BY SendAlike DEF DaemonInv
<1>2. Single(procs') /\ \A n \in Modules : Owners(procs', n) = Owners(procs, n)
  BY <1>1, AlikeStands DEF StandInv
<1>3. \A n \in Modules : Leads(inbox'[n], status'[n], Owners(procs', n))
  BY <1>2 DEF StandInv, tables
<1>4. \A i \in Pids : procs'[i].at = "boot" => Fresh(inbox', status', procs'[i].mod)
  BY <1>1 DEF StandInv, Alike, Fresh, tables
<1>5. router'.at = "start" => /\ Fresh(inbox', status', router'.mod)
                              /\ \A i \in Pids : procs'[i].mod # router'.mod
  BY <1>1 DEF StandInv, Alike, Fresh, tables
<1>6. ReportAgrees'
  BY DEF StandInv, ReportAgrees, tables
<1>7. QED
  BY <1>2, <1>3, <1>4, <1>5, <1>6 DEF StandInv, Standing, tables

\* A module that ended is started again.
LEMMA StartStands ==
    ASSUME StandInv, DaemonInv, StartAgain
    PROVE  StandInv'
<1> DEFINE m == router.mod
<1>1. /\ m \in Modules /\ status \in [Modules -> {"absent", "unknown", "down", "up", "disabled", "removed"}]
      /\ Sane(procs) /\ Single(procs) /\ Fresh(inbox, status, m)
      /\ \A i \in Pids : procs[i].mod # m
      /\ router' = Idle /\ Idle.at = "idle" /\ inbox' = inbox /\ cloud' = "idle"
      /\ reported' = reported /\ reconfigs' = 0
  BY DEF StartAgain, DaemonInv, TypeOK, StandInv, Idle, bounds
<1>2. status' = status
  BY <1>1 DEF StartAgain, MarkDown, Fresh
<1>3. CASE procs' = procs
  BY <1>1, <1>2, <1>3 DEF StandInv, Standing, ReportAgrees
<1>4. CASE CanFork /\ procs' = Fork(procs, m)
  <2>1. PICK i \in Pids : procs[i] = Free /\ Fork(procs, m) = [procs EXCEPT ![i] = NewProc(m)]
    BY <1>4, ForkTakesFree DEF CanFork
  <2>2. /\ Single([procs EXCEPT ![i] = NewProc(m)])
        /\ \A n \in Modules : Owners([procs EXCEPT ![i] = NewProc(m)], n) = Owners(procs, n)
    BY <1>1, <2>1, SingleFork
  <2>3. procs' = [procs EXCEPT ![i] = NewProc(m)]
    BY <1>4, <2>1
  <2>4. Single(procs') /\ \A n \in Modules : Owners(procs', n) = Owners(procs, n)
    BY <2>2, <2>3
  <2>5. \A n \in Modules : Leads(inbox'[n], status'[n], Owners(procs', n))
    BY <1>1, <1>2, <2>4 DEF StandInv
  <2>6. procs'[i].mod = m /\ \A j \in Pids \ {i} : procs'[j] = procs[j]
    BY <1>1, <2>3, NewSlot DEF Sane
  <2>7. \A j \in Pids : procs'[j].at = "boot" => Fresh(inbox', status', procs'[j].mod)
    BY <1>1, <1>2, <2>6 DEF StandInv, Fresh
  <2>8. ReportAgrees'
    BY <1>1, <1>2 DEF StandInv, ReportAgrees
  <2>9. QED
    BY <1>1, <1>2, <2>4, <2>5, <2>7, <2>8 DEF StandInv, Standing
<1>5. QED
  BY <1>3, <1>4 DEF StartAgain

\* The daemon starts, and starts again, with a process of each module that is on.
LEMMA RebootStands ==
    ASSUME Standing, NEW c \in Configs \cup {InitConfig, NoConfig}, NEW st, NEW ps,
           st = BootStatus(c), ps = ForkAll(NoProcs, On(c))
    PROVE  /\ Single(ps)
           /\ \A n \in Modules : Leads(<<>>, st[n], Owners(ps, n))
           /\ \A n \in Modules : st[n] \in {"down", "unknown", "absent"}
           /\ \A i \in Pids : ps[i].at = "boot" => ps[i].mod \in Modules /\ st[ps[i].mod] = "down"
<1>1. On(c) \in SUBSET Modules
  BY NewConfig
<1>2. /\ Single(ps) /\ \A n \in Modules : Owners(ps, n) = {}
      /\ \A i \in Pids : ps[i].at = "boot" => ps[i].mod \in On(c)
  BY <1>1, SingleStart
<1>3. \A n \in Modules : st[n] \in {"down", "unknown", "absent"}
  BY DEF BootStatus
<1>4. \A n \in On(c) : n \in Modules /\ st[n] = "down"
  BY <1>1 DEF BootStatus
<1>5. \A n \in Modules : Leads(<<>>, st[n], Owners(ps, n))
  BY <1>2, <1>3 DEF Leads
<1>6. QED
  BY <1>2, <1>3, <1>4, <1>5

\* While the configuration stands: at the first start,
LEMMA StandInit == Standing /\ Init => StandInv
<1> SUFFICES ASSUME Standing, Init PROVE StandInv
  OBVIOUS
<1>1. /\ Single(procs)
      /\ \A n \in Modules : Leads(<<>>, status[n], Owners(procs, n))
      /\ \A n \in Modules : status[n] \in {"down", "unknown", "absent"}
      /\ \A i \in Pids : procs[i].at = "boot" => procs[i].mod \in Modules /\ status[procs[i].mod] = "down"
  BY RebootStands DEF Init
<1>2. /\ \A n \in Modules : inbox[n] = <<>> /\ reported[n] = "none"
      /\ router.at = "idle" /\ cloud = "idle" /\ reconfigs = 0
  BY DEF Init, Idle
<1>3. \A n \in Modules : Leads(inbox[n], status[n], Owners(procs, n))
  BY <1>1, <1>2
<1>4. \A i \in Pids : procs[i].at = "boot" => Fresh(inbox, status, procs[i].mod)
  BY <1>1, <1>2 DEF Fresh
<1>5. ReportAgrees
  BY <1>1, <1>2 DEF ReportAgrees
<1>6. QED
  BY <1>1, <1>2, <1>3, <1>4, <1>5 DEF StandInv

\* over every step,
LEMMA StandStep == DaemonInv /\ StandInv /\ [Next]_vars => StandInv'
<1> SUFFICES ASSUME DaemonInv, StandInv, [Next]_vars PROVE StandInv'
  OBVIOUS
<1>1. CASE UNCHANGED vars
  BY <1>1 DEF StandInv, Standing, ReportAgrees, vars
<1>2. CASE \E m \in Modules : ReadInbox(m)
  BY <1>2, ReaderStands
<1>3. CASE \E i \in Pids : ProcStep(i) \/ Crash(i) \/ Report(i)
  BY <1>3, ProcessStands
<1>4. CASE SendConfig
  <2>1. /\ procs' = SendTo(procs, router.mod, router.cfg)
        /\ UNCHANGED <<tables, inbox, cloud, reconfigs>> /\ router'.at # "start"
    BY <1>4 DEF SendConfig, Idle, bounds
  <2>2. QED
    BY <2>1, SendStands
<1>5. CASE StartAgain
  BY <1>5, StartStands
<1>6. ASSUME NEW m \in Modules, RelayCmd(m) PROVE StandInv'
  <2>1. /\ procs' = SendTo(procs, m, "STOP")
        /\ UNCHANGED <<tables, inbox, cloud, reconfigs>> /\ router' = router
    BY <1>6 DEF RelayCmd, threads
  <2>2. QED
    BY <2>1, SendStands
<1>7. CASE DaemonCrash
  <2>1. Reboot(saved) /\ saved \in Configs \cup {InitConfig, NoConfig} /\ Standing /\ reconfigs = 0
    BY <1>7 DEF DaemonCrash, DaemonInv, TypeOK, StandInv
  <2>2. status' = BootStatus(saved) /\ procs' = ForkAll(NoProcs, On(saved))
    BY <2>1 DEF Reboot
  <2>3. /\ Single(procs')
        /\ \A n \in Modules : Leads(<<>>, status'[n], Owners(procs', n))
        /\ \A n \in Modules : status'[n] \in {"down", "unknown", "absent"}
        /\ \A i \in Pids : procs'[i].at = "boot" => procs'[i].mod \in Modules /\ status'[procs'[i].mod] = "down"
    BY <2>1, <2>2, RebootStands
  <2>4. /\ \A n \in Modules : inbox'[n] = <<>> /\ reported'[n] = "none"
        /\ router'.at = "idle" /\ cloud' = "idle" /\ reconfigs' = 0
    BY <2>1 DEF Reboot, Idle
  <2>5. \A n \in Modules : Leads(inbox'[n], status'[n], Owners(procs', n))
    BY <2>3, <2>4
  <2>6. \A i \in Pids : procs'[i].at = "boot" => Fresh(inbox', status', procs'[i].mod)
    BY <2>3, <2>4 DEF Fresh
  <2>7. ReportAgrees'
    BY <2>3, <2>4 DEF ReportAgrees
  <2>8. QED
    BY <2>1, <2>3, <2>4, <2>5, <2>6, <2>7 DEF StandInv, Standing
<1>8. /\ ~(\E c \in Configs : RecvConfig(c) \/ FailConfig(c))
      /\ ~CloudStep /\ ~RejectConfig
  BY DEF StandInv, Standing, RecvConfig, FailConfig, TakeConfig, CloudStep, ColdStart,
         BeginChange, Operate, RejectConfig
<1>9. QED
  BY <1>1, <1>2, <1>3, <1>4, <1>5, <1>6, <1>7, <1>8 DEF Next, RouterStep

\* and so always.
LEMMA StandAlways == Standing /\ Spec => []StandInv
BY StandInit, StandStep, DaemonAlways, PTL DEF Spec

\* While the configuration stands the daemon never takes a connect for a disconnect or
\* the other way round, however processes crash and the daemon with them.
THEOREM StatusIsRight == Standing /\ Spec => []StatusAgrees
<1>1. StandInv /\ DaemonInv => StatusAgrees
  <2> SUFFICES ASSUME StandInv, DaemonInv, NEW m \in Modules
               PROVE  status[m] = "up" <=> IF inbox[m] = <<>> THEN Attached(m) # {}
                                           ELSE Head(inbox[m]) # "connect"
    BY DEF StatusAgrees
  <2>1. inbox[m] \in Seq(Kinds)
    BY DEF DaemonInv, TypeOK, Kinds
  <2>2. Leads(inbox[m], status[m], Owners(procs, m)) /\ Owners(procs, m) = Attached(m)
    BY DEF StandInv, Owners, Attached, ProcsOf
  <2>3. CASE inbox[m] = <<>>
    BY <2>2, <2>3 DEF Leads
  <2>4. CASE inbox[m] # <<>>
    <3>1. 1 \in 1..Len(inbox[m]) /\ Head(inbox[m]) = inbox[m][1]
      BY <2>1, <2>4, EmptySeq
    <3>2. QED
      BY <2>2, <2>4, <3>1 DEF Leads
  <2>5. QED
    BY <2>3, <2>4
<1>2. QED
  BY <1>1, StandAlways, DaemonAlways, PTL

\* While the configuration stands no module has two processes, at work or not.
THEOREM OneExists == Standing /\ Spec => []OneProcess
<1>1. StandInv => OneProcess
  <2> SUFFICES ASSUME StandInv, NEW m \in Modules PROVE Cardinality(ProcsOf(m)) <= 1
    BY DEF OneProcess
  <2>1. \A i, j \in ProcsOf(m) : i = j
    BY DEF StandInv, Single, ProcsOf
  <2>2. ProcsOf(m) = {} \/ \E i : ProcsOf(m) = {i}
    BY <2>1
  <2>3. Cardinality(ProcsOf(m)) = 0 \/ Cardinality(ProcsOf(m)) = 1
    BY <2>2, FS_EmptySet, FS_Singleton
  <2>4. QED
    BY <2>3
<1>2. QED
  BY <1>1, StandAlways, PTL

\* While the configuration stands the last report about a module says what the daemon
\* takes it for.
THEOREM ReportIsRight == Standing /\ Spec => []ReportAgrees
<1>1. StandInv => ReportAgrees
  BY DEF StandInv
<1>2. QED
  BY <1>1, StandAlways, PTL

--------------------------------------------------------------------------------
(* While the configurations are spaced out *)

\* Configurations come only when all is quiet and processes crash only between the changes
\* they bring (what a process is sent may end it at any time); none of them changes what
\* evmgr is to do, none changes the settings of a module that stays disabled, no process
\* dies before it connects, and there is room for a process of every module.
SpacedOut ==
    /\ Spaced /\ ~CrashAtBoot
    /\ \A c, d \in (Configs \cup {InitConfig}) \ {NoConfig} : c[Mgr] = d[Mgr]
    /\ \A a, b \in OffSettings : a = b
    /\ \E f \in [Modules -> Pids] : \A m, n \in Modules : f[m] = f[n] => m = n

Has(q, c) == \E k \in 1..Len(q) : q[k] = c

\* The change of module m is still to be carried out.
Underway(m) ==
    /\ ~coldStart
    /\ \/ cloud = "ops" /\ m \in todo
       \/ cloud = "start" /\ oldConfig[m] # config[m]

\* The setting that the processes of module m show: none before the first start, the old
\* one while the change is still to be carried out.
Shown(m) ==
    IF coldStart THEN "absent" ELSE IF Underway(m) THEN oldConfig[m] ELSE config[m]

\* A module whose change was never carried out may show any setting.
May(m) == IF m \in missed THEN Settings ELSE {Shown(m)}
Served(m) == m \in missed \/ Shown(m) \in Settings

\* What the daemon last read of the connection of module m.
Seen(m) ==
    IF m = Mgr THEN status[m] ELSE IF reported[m] = "recover" THEN "up" ELSE "down"

Sending(m) == router.at = "send" /\ router.mod = m
Starting(m) == router.at = "start" /\ router.mod = m

\* What the tables hold of module m.
Tabled(m) ==
    /\ (m \notin missed \/ cloud # "idle") /\ config[m] \in Settings
         => m \in enabled /\ peerConfig[m] = config[m]
    /\ m \notin missed /\ config[m] = "absent" /\ ~Underway(m) => peerConfig[m] = "none"
    /\ m \in enabled => peerConfig[m] \in Settings \cup {"none"}
    /\ status[m] \in {"disabled", "removed"}
         => /\ m # Mgr
            /\ IF m \in missed THEN Seen(m) # "up" /\ inbox[m] = <<>> ELSE Shown(m) \notin Settings
    /\ m = Mgr \/ status[m] \in {"disabled", "removed"}
         \/ (status[m] = "up" <=> reported[m] = "recover")

\* A process on its way to run one of the settings C: s is what the daemon takes its module
\* for, q is unread, g tells whether the router is about to send it its configuration.
OnTrack(p, C, s, q, g) ==
    /\ \A d \in Commands : Has(p.cmds, d) => d \in C \cup {"STOP"}
    /\ p.at = "boot" => s = "down" /\ q = <<>>
    /\ p.at = "waiting" => (q # <<>> /\ Head(q) = "connect") \/ g \/ \E c \in C : Has(p.cmds, c)
    /\ p.at = "running" => p.cfg \in C \/ Has(p.cmds, "STOP")

\* A module that shows a setting has a process on its way, or is about to get one.
OnOk(m) ==
    /\ \A i \in Pids : procs[i].mod = m
          => OnTrack(procs[i], May(m), status[m], inbox[m], Sending(m))
    /\ m \notin missed /\ (\A i \in Pids : procs[i].mod # m) => inbox[m] # <<>> \/ Starting(m)

\* The process that any other module still has was told to stop.
OffOk(m) ==
    /\ \A i \in Pids : procs[i].mod = m => procs[i].at = "running" /\ Has(procs[i].cmds, "STOP")
    /\ Seen(m) = "up" \/ inbox[m] = <<>>

\* Nothing but reports happens to a module before its change is carried out.
Calm(m) ==
    /\ ~Sending(m) /\ ~Starting(m)
    /\ \A i \in Pids : procs[i].mod = m => procs[i].at = "running" /\ procs[i].cmds = <<>>
    /\ IF \E i \in Pids : procs[i].mod = m THEN Seen(m) = "up" ELSE inbox[m] = <<>>
    /\ m \notin missed /\ Shown(m) \in Settings => \E i \in Pids : procs[i].mod = m

\* A process that is to be sent its configuration has one in the tables.
Ready(m) ==
    (inbox[m] # <<>> /\ Head(inbox[m]) = "connect")
      \/ (\E i \in Pids : procs[i].mod = m /\ procs[i].at = "boot")
    => peerConfig[m] \in Settings

\* The router serves modules that are to run, and starts those that have no process.
Routed(m) ==
    /\ Sending(m) => Served(m) /\ router.cfg \in May(m)
    /\ Starting(m) => /\ status[m] = "down" /\ inbox[m] = <<>>
                      /\ \A i \in Pids : procs[i].mod # m

ModInv(m) ==
    /\ Tabled(m)
    /\ Leads(inbox[m], Seen(m), Owners(procs, m))
    /\ Served(m) => OnOk(m)
    /\ ~Served(m) => OffOk(m)
    /\ Underway(m) => Calm(m)
    /\ m \in missed => Ready(m)
    /\ Routed(m)

ChangeInv ==
    /\ cloud = "ops" => ~coldStart /\ todo \subseteq Changed
    /\ config = NoConfig => coldStart /\ cloud = "idle"
    /\ coldStart /\ cloud = "idle" => \A m \in Modules \ missed : config[m] = "absent"
    /\ ~coldStart /\ cloud # "idle" => oldConfig # NoConfig

\* Before the first start there is nothing.
Untouched ==
    /\ procs = NoProcs /\ router = Idle
    /\ \A m \in Modules : inbox[m] = <<>> /\ status[m] \in {"absent", "unknown"}

SpreadInv ==
    /\ SpacedOut
    /\ ChangeInv
    /\ Single(procs)
    /\ coldStart => Untouched
    /\ \A m \in Modules : ModInv(m)

--------------------------------------------------------------------------------
(* One module at a time *)

\* What is in a queue that grows ...
LEMMA HasAppended ==
    ASSUME NEW q \in Seq(Commands), NEW c \in Commands, NEW d
    PROVE  Has(Append(q, c), d) <=> Has(q, d) \/ d = c
<1> DEFINE r == Append(q, c)
           n == Len(q)
<1>1. /\ n \in Nat /\ Len(r) = n + 1 /\ r[n + 1] = c
      /\ \A k \in 1..n : r[k] = q[k]
  BY LenProperties, AppendProperties
<1> HIDE DEF r
<1>2. ASSUME Has(r, d) PROVE Has(q, d) \/ d = c
  <2>1. PICK k \in 1..n + 1 : r[k] = d
    BY <1>1, <1>2 DEF Has
  <2>2. k \in 1..n \/ k = n + 1
    BY <1>1
  <2>3. QED
    BY <1>1, <2>1, <2>2 DEF Has
<1>3. ASSUME Has(q, d) PROVE Has(r, d)
  <2>1. PICK k \in 1..n : q[k] = d
    BY <1>3 DEF Has
  <2>2. k \in 1..n + 1 /\ r[k] = d
    BY <1>1, <2>1
  <2>3. QED
    BY <1>1, <2>2 DEF Has
<1>4. ASSUME d = c PROVE Has(r, d)
  <2>1. n + 1 \in 1..Len(r)
    BY <1>1
  <2>2. QED
    BY <1>1, <1>4, <2>1 DEF Has
<1>5. QED
  BY <1>2, <1>3, <1>4 DEF r

\* ... and in one whose head is taken.
LEMMA HasTail ==
    ASSUME NEW q \in Seq(Commands), q # <<>>, NEW d
    PROVE  /\ Tail(q) \in Seq(Commands) /\ Head(q) \in Commands
           /\ Has(q, d) <=> Has(Tail(q), d) \/ d = Head(q)
<1> DEFINE t == Tail(q)
           n == Len(q)
<1>1. /\ n \in Nat /\ n # 0 /\ Head(q) = q[1] /\ Head(q) \in Commands
      /\ t \in Seq(Commands) /\ Len(t) = n - 1
      /\ \A k \in 1..n - 1 : t[k] = q[k + 1]
  BY EmptySeq, LenProperties, HeadTailProperties
<1> HIDE DEF t
<1>2. ASSUME Has(q, d) PROVE Has(t, d) \/ d = Head(q)
  <2>1. PICK k \in 1..n : q[k] = d
    BY <1>2 DEF Has
  <2>2. CASE k = 1
    BY <1>1, <2>1, <2>2
  <2>3. CASE k # 1
    <3>1. k - 1 \in 1..n - 1 /\ t[k - 1] = q[k]
      BY <1>1, <2>3
    <3>2. QED
      BY <1>1, <2>1, <3>1 DEF Has
  <2>4. QED
    BY <2>2, <2>3
<1>3. ASSUME Has(t, d) PROVE Has(q, d)
  <2>1. PICK k \in 1..n - 1 : t[k] = d
    BY <1>1, <1>3 DEF Has
  <2>2. k + 1 \in 1..n /\ q[k + 1] = d
    BY <1>1, <2>1
  <2>3. QED
    BY <2>2 DEF Has
<1>4. ASSUME d = Head(q) PROVE Has(q, d)
  <2>1. 1 \in 1..n
    BY <1>1
  <2>2. QED
    BY <1>1, <1>4, <2>1 DEF Has
<1>5. QED
  BY <1>1, <1>2, <1>3, <1>4 DEF t

\* An empty queue holds nothing.
LEMMA HasNothing == \A d : ~Has(<<>>, d)
BY DEF Has

\* A step that leaves module n alone.
LeftAlone(n) ==
    /\ status'[n] = status[n] /\ reported'[n] = reported[n] /\ inbox'[n] = inbox[n]
    /\ peerConfig'[n] = peerConfig[n] /\ config'[n] = config[n]
    /\ (n \in enabled' <=> n \in enabled) /\ (n \in missed' <=> n \in missed)
    /\ cloud' # "idle" => cloud # "idle"
    /\ \A i \in Pids : procs[i].mod = n \/ procs'[i].mod = n => procs'[i] = procs[i]
    /\ Shown(n)' = Shown(n) /\ (Underway(n)' <=> Underway(n))
    /\ (Starting(n)' <=> Starting(n)) /\ (Sending(n)' <=> Sending(n))
    /\ Sending(n) => router' = router

\* What is known of a module outlives a step that leaves the module alone.
LEMMA AloneKeeps ==
    ASSUME NEW n \in Modules, ModInv(n), LeftAlone(n)
    PROVE  ModInv(n)'
<1>1. Seen(n)' = Seen(n)
  BY DEF Seen, LeftAlone
<1>2. Owners(procs', n) = Owners(procs, n)
  BY DEF Owners, LeftAlone
<1>3. May(n)' = May(n) /\ (Served(n)' <=> Served(n))
  BY DEF May, Served, LeftAlone
<1>4. Tabled(n)'
  BY <1>1 DEF Tabled, ModInv, LeftAlone
<1>5. Leads(inbox[n], Seen(n), Owners(procs, n))'
  BY <1>1, <1>2 DEF ModInv, LeftAlone
<1>6. (Served(n) => OnOk(n))'
  <2> SUFFICES ASSUME Served(n)' PROVE OnOk(n)'
    OBVIOUS
  <2>1. OnOk(n)
    BY <1>3 DEF ModInv
  <2>2. \A i \in Pids : procs'[i].mod = n
          => OnTrack(procs'[i], May(n)', status'[n], inbox'[n], Sending(n)')
    BY <1>3, <2>1 DEF OnOk, LeftAlone, OnTrack
  <2>3. n \notin missed' /\ (\A i \in Pids : procs'[i].mod # n)
          => inbox'[n] # <<>> \/ Starting(n)'
    BY <2>1 DEF OnOk, LeftAlone
  <2>4. QED
    BY <2>2, <2>3 DEF OnOk
<1>7. (~Served(n) => OffOk(n))'
  BY <1>1, <1>3 DEF ModInv, LeftAlone, OffOk
<1>8. (Underway(n) => Calm(n))'
  <2> SUFFICES ASSUME Underway(n)' PROVE Calm(n)'
    OBVIOUS
  <2>1. Calm(n)
    BY DEF ModInv, LeftAlone
  <2>2. QED
    BY <1>1, <2>1 DEF Calm, LeftAlone
<1>9. (n \in missed => Ready(n))'
  BY DEF ModInv, LeftAlone, Ready
<1>10. Routed(n)'
  BY <1>3 DEF ModInv, LeftAlone, Routed
<1>11. QED
  BY <1>4, <1>5, <1>6, <1>7, <1>8, <1>9, <1>10 DEF ModInv

\* Steps of processes and of the router leave the change where it is.
LEMMA SameChange ==
    ASSUME UNCHANGED <<config, oldConfig, coldStart, cloud, todo, missed>>
    PROVE  /\ \A n \in Modules : /\ Shown(n)' = Shown(n) /\ (Underway(n)' <=> Underway(n))
                                 /\ config'[n] = config[n]
                                 /\ May(n)' = May(n) /\ (Served(n)' <=> Served(n))
           /\ ChangeInv => ChangeInv'
<1>1. \A n \in Modules : (Underway(n)' <=> Underway(n))
  BY DEF Underway
<1>2. \A n \in Modules : Shown(n)' = Shown(n)
  BY <1>1 DEF Shown
<1>3. ChangeInv => ChangeInv'
  BY DEF ChangeInv, Changed
<1>4. \A n \in Modules : May(n)' = May(n) /\ (Served(n)' <=> Served(n))
  BY <1>2 DEF May, Served
<1>5. QED
  BY <1>1, <1>2, <1>3, <1>4

\* It is enough to look at the module that a step is about.
LEMMA OneModule ==
    ASSUME SpreadInv, UNCHANGED <<config, oldConfig, coldStart, cloud, todo, missed>>,
           ~coldStart, Single(procs'), NEW m \in Modules, ModInv(m)',
           \A n \in Modules \ {m} : LeftAlone(n)
    PROVE  SpreadInv'
<1>1. ChangeInv'
  BY SameChange DEF SpreadInv
<1>2. \A n \in Modules \ {m} : ModInv(n)'
  BY AloneKeeps DEF SpreadInv
<1>3. QED
  BY <1>1, <1>2 DEF SpreadInv, SpacedOut


--------------------------------------------------------------------------------
(* What processes do *)

\* What is known of a process that is alive.
LEMMA AliveSpread ==
    ASSUME SpreadInv, DaemonInv, NEW i \in Pids, procs[i] # Free
    PROVE  /\ procs[i].mod \in Modules /\ ModInv(procs[i].mod) /\ ~coldStart
           /\ procs[i] \in [mod : Modules, at : Stages, attached : BOOLEAN,
                            cmds : Seq(Commands), cfg : Settings \cup {"none"}]
           /\ Sane(procs) /\ Single(procs) /\ inbox \in [Modules -> Seq(Kinds)]
           /\ \A j \in Pids : procs[j].mod = procs[i].mod => j = i
           /\ procs[i].attached <=> procs[i].at # "boot"
           /\ Owners(procs, procs[i].mod) = IF procs[i].at = "boot" THEN {} ELSE {i}
           /\ ~Starting(procs[i].mod)
<1>1. procs[i] \in [mod : Modules, at : Stages, attached : BOOLEAN,
                    cmds : Seq(Commands), cfg : Settings \cup {"none"}]
  BY TakenSlot DEF DaemonInv, Sane
<1>2. procs[i].mod \in Modules /\ ModInv(procs[i].mod)
  BY <1>1 DEF SpreadInv
<1>3. ~coldStart
  BY DEF SpreadInv, Untouched, NoProcs
<1>4. /\ \A j \in Pids : procs[j].mod = procs[i].mod => j = i
      /\ procs[i].attached <=> procs[i].at # "boot"
  BY <1>2 DEF SpreadInv, Single
<1>5. Owners(procs, procs[i].mod) = IF procs[i].at = "boot" THEN {} ELSE {i}
  BY <1>4 DEF Owners
<1>6. ~Starting(procs[i].mod)
  BY <1>2 DEF ModInv, Routed
<1>7. inbox \in [Modules -> Seq(Kinds)]
  BY DEF DaemonInv, TypeOK, Kinds
<1>8. QED
  BY <1>1, <1>2, <1>3, <1>4, <1>5, <1>6, <1>7 DEF SpreadInv, DaemonInv

\* A module that shows a setting is not stopped, so what the daemon read of it is what it
\* takes it for.
LEMMA SeenUp ==
    ASSUME NEW m \in Modules, ModInv(m), Served(m)
    PROVE  Seen(m) = "up" <=> status[m] = "up"
BY DEF ModInv, Tabled, Seen, Served

\* The settings that a module which is served may show are settings; while one is served
\* whose change was never carried out, it is not stopped.
LEMMA ServedMay ==
    ASSUME NEW m \in Modules, Served(m)
    PROVE  May(m) \subseteq Settings /\ "STOP" \notin May(m)
BY EvDaemonAssumption DEF May, Served

LEMMA MissedUp ==
    ASSUME NEW m \in Modules, ModInv(m), m \in missed, Owners(procs, m) # {} \/ inbox[m] # <<>>
    PROVE  status[m] \notin {"disabled", "removed"}
BY DEF ModInv, Tabled, Leads

\* A module that does not show one has nothing unread, unless its last process was seen.
LEMMA SeenOff ==
    ASSUME NEW m \in Modules, ModInv(m), Owners(procs, m) # {} \/ inbox[m] # <<>>,
           ~Served(m)
    PROVE  Seen(m) = "up"
BY DEF ModInv, OffOk, Leads

\* What a step leaves of the other modules, when it changes one slot and one queue.
LEMMA OthersAlone ==
    ASSUME NEW m \in Modules, UNCHANGED <<tables, cloud, todo, missed>>, router' = router,
           \A n \in Modules \ {m} : inbox'[n] = inbox[n],
           \A i \in Pids : procs'[i] = procs[i]
                             \/ (procs[i].mod \in {m, "free"} /\ procs'[i].mod \in {m, "free"})
    PROVE  \A n \in Modules \ {m} : LeftAlone(n)
<1>1. "free" \notin Modules
  BY EvDaemonAssumption
<1>2. \A n \in Modules : Shown(n)' = Shown(n) /\ (Underway(n)' <=> Underway(n))
  BY SameChange DEF tables
<1>3. \A n \in Modules : (Starting(n)' <=> Starting(n)) /\ (Sending(n)' <=> Sending(n))
  BY DEF Starting, Sending
<1>4. QED
  BY <1>1, <1>2, <1>3 DEF LeftAlone, tables

\* A process that had connected ends, while its module is not about to be changed.
LEMMA ExitSpread ==
    ASSUME SpreadInv, DaemonInv, NEW i \in Pids, procs[i] # Free, procs[i].attached, Exit(i),
           ~Underway(procs[i].mod), UNCHANGED <<tables, threads, missed>>
    PROVE  SpreadInv'
<1>m. PICK m \in Modules : m = procs[i].mod
  BY AliveSpread
<1>1. /\ ModInv(m) /\ ~coldStart /\ Sane(procs) /\ Single(procs)
      /\ inbox \in [Modules -> Seq(Kinds)] /\ ~Starting(m)
      /\ Owners(procs, m) = {i}
      /\ \A j \in Pids : procs[j].mod = m => j = i
  BY <1>m, AliveSpread
<1>2. procs' = [procs EXCEPT ![i] = Free] /\ inbox' = [inbox EXCEPT ![m] = Append(@, "disconnect")]
  BY <1>m DEF Exit
<1>3. /\ procs'[i] = Free /\ \A j \in Pids \ {i} : procs'[j] = procs[j]
      /\ inbox'[m] = Append(inbox[m], "disconnect")
      /\ \A n \in Modules \ {m} : inbox'[n] = inbox[n]
  BY <1>1, <1>2 DEF Sane
<1>4. "free" \notin Modules /\ Free.mod = "free" /\ Free.at = "free" /\ ~Free.attached
  BY EvDaemonAssumption, FreeSlot
<1>5. /\ UNCHANGED <<config, oldConfig, coldStart, cloud, todo, missed>>
      /\ UNCHANGED <<status, enabled, peerConfig, reported, router>>
  BY DEF tables, threads
<1>6. \A n \in Modules \ {m} : LeftAlone(n)
  <2>1. \A j \in Pids : procs'[j] = procs[j]
                          \/ (procs[j].mod \in {m, "free"} /\ procs'[j].mod \in {m, "free"})
    BY <1>m, <1>3, <1>4
  <2>2. UNCHANGED <<tables, cloud, todo, missed>>
    BY DEF tables, threads
  <2>3. QED
    BY <1>1, <1>3, <1>5, <2>1, <2>2, OthersAlone
<1>7. \A j \in Pids : procs'[j].mod # m
  BY <1>m, <1>1, <1>3, <1>4
<1>8. Single(procs')
  <2>1. \A j \in Pids : procs'[j].mod \in Modules => j # i /\ procs'[j] = procs[j]
    BY <1>3, <1>4
  <2>2. QED
    BY <1>1, <2>1 DEF Single
<1>9. ModInv(m)'
  <2>1. /\ May(m)' = May(m) /\ (Served(m)' <=> Served(m))
        /\ Shown(m)' = Shown(m) /\ Seen(m)' = Seen(m) /\ ~Underway(m) /\ ~Underway(m)'
        /\ ~Starting(m)' /\ (Sending(m)' <=> Sending(m))
    <3>1. ~Underway(m)
      BY <1>m
    <3>2. QED
      BY <1>1, <1>5, <3>1, SameChange DEF Seen, Starting, Sending
  <2>2. inbox'[m] # <<>> /\ inbox'[m] \in Seq(Kinds) /\ Leads(inbox'[m], Seen(m), {})
    <3>1. "disconnect" \in Kinds /\ inbox[m] \in Seq(Kinds)
      BY <1>1 DEF Kinds
    <3>2. Append(inbox[m], "disconnect") # <<>> /\ Append(inbox[m], "disconnect") \in Seq(Kinds)
      BY <3>1, AppendProperties
    <3>3. Leads(inbox[m], Seen(m), {i})
      BY <1>1 DEF ModInv
    <3>4. Leads(Append(inbox[m], "disconnect"), Seen(m), {})
      BY <3>1, <3>3, LastAdded
    <3>5. QED
      BY <1>3, <3>2, <3>4
  <2>3. Owners(procs', m) = {}
    BY <1>7 DEF Owners
  <2>4. Tabled(m)'
    <3>1. m \in missed => status[m] \notin {"disabled", "removed"}
      BY <1>1, MissedUp
    <3>2. QED
      BY <1>1, <1>5, <2>1, <3>1 DEF Tabled, ModInv
  <2>9. (m \in missed => Ready(m))'
    <3>1. inbox[m] \in Seq(Kinds)
      BY <1>1
    <3>2. Head(inbox'[m]) = "connect" => inbox[m] # <<>> /\ Head(inbox[m]) = "connect"
      BY <1>3, <3>1, AppendProperties, EmptySeq, LenProperties
    <3>3. QED
      BY <1>1, <1>5, <1>7, <3>2 DEF ModInv, Ready
  <2>5. (Served(m) => OnOk(m))'
    BY <1>7, <2>2 DEF OnOk
  <2>6. (~Served(m) => OffOk(m))'
    BY <1>1, <1>7, <2>1, SeenOff DEF OffOk
  <2>7. Routed(m)'
    BY <1>1, <1>5, <2>1 DEF ModInv, Routed
  <2>8. QED
    BY <1>5, <2>1, <2>2, <2>3, <2>4, <2>5, <2>6, <2>7, <2>9 DEF ModInv
<1>10. QED
  BY <1>1, <1>5, <1>6, <1>8, <1>9, OneModule

\* A process changes, of a module that is not about to be changed: it is enough that it
\* stays on its way.
LEMMA SlotSpread ==
    ASSUME SpreadInv, DaemonInv, NEW i \in Pids, procs[i] # Free, NEW p,
           procs' = [procs EXCEPT ![i] = p],
           p.mod = procs[i].mod, p.attached = procs[i].attached,
           procs[i].at # "boot", p.at # "boot",
           ~Underway(procs[i].mod), UNCHANGED <<tables, threads, inbox, missed>>,
           Served(procs[i].mod)
             => OnTrack(p, May(procs[i].mod), status[procs[i].mod], inbox[procs[i].mod],
                        Sending(procs[i].mod)),
           ~Served(procs[i].mod) => p.at = "running" /\ Has(p.cmds, "STOP")
    PROVE  SpreadInv'
<1>m. PICK m \in Modules : m = procs[i].mod
  BY AliveSpread
<1>1. /\ ModInv(m) /\ ~coldStart /\ Sane(procs) /\ Single(procs)
      /\ ~Starting(m) /\ \A j \in Pids : procs[j].mod = m => j = i
  BY <1>m, AliveSpread
<1>2. procs'[i] = p /\ \A j \in Pids \ {i} : procs'[j] = procs[j]
  BY <1>1 DEF Sane
<1>3. /\ UNCHANGED <<config, oldConfig, coldStart, cloud, todo, missed>>
      /\ UNCHANGED <<status, enabled, peerConfig, reported, router, inbox>>
  BY DEF tables, threads
<1>4. \A n \in Modules \ {m} : LeftAlone(n)
  <2>1. \A j \in Pids : procs'[j] = procs[j]
                          \/ (procs[j].mod \in {m, "free"} /\ procs'[j].mod \in {m, "free"})
    BY <1>m, <1>2
  <2>2. UNCHANGED <<tables, cloud, todo, missed>>
    BY DEF tables, threads
  <2>3. QED
    BY <1>1, <1>3, <2>1, <2>2, OthersAlone
<1>5. Alike(procs, procs')
  BY <1>m, <1>2 DEF Alike
<1>6. Single(procs') /\ Owners(procs', m) = Owners(procs, m)
  BY <1>1, <1>5, AlikeStands
<1>7. \A j \in Pids : procs'[j].mod = m <=> j = i
  BY <1>m, <1>1, <1>2
<1>8. /\ May(m)' = May(m) /\ (Served(m)' <=> Served(m))
        /\ Shown(m)' = Shown(m) /\ Seen(m)' = Seen(m) /\ ~Underway(m) /\ ~Underway(m)'
      /\ (Starting(m)' <=> Starting(m)) /\ (Sending(m)' <=> Sending(m))
  BY <1>m, <1>1, <1>3, SameChange DEF Seen, Starting, Sending
<1>9. ModInv(m)'
  <2>1. Tabled(m)'
    BY <1>1, <1>3, <1>8 DEF Tabled, ModInv
  <2>2. Leads(inbox[m], Seen(m), Owners(procs, m))'
    BY <1>1, <1>3, <1>6, <1>8 DEF ModInv
  <2>3. (Served(m) => OnOk(m))'
    <3>1. Served(m) => OnTrack(p, May(m), status[m], inbox[m], Sending(m))
      BY <1>m
    <3>2. ASSUME Served(m)', NEW j \in Pids, procs'[j].mod = m
          PROVE  OnTrack(procs'[j], May(m)', status'[m], inbox'[m], Sending(m)')
      <4>1. procs'[j] = p /\ OnTrack(p, May(m), status[m], inbox[m], Sending(m))
        BY <1>2, <1>7, <1>8, <3>1, <3>2
      <4>2. QED
        BY <1>3, <1>8, <4>1 DEF OnTrack
    <3>3. QED
      BY <1>7, <3>2 DEF OnOk
  <2>4. (~Served(m) => OffOk(m))'
    <3>1. ~Served(m) => Seen(m) = "up" \/ inbox[m] = <<>>
      BY <1>1 DEF ModInv, OffOk
    <3>2. QED
      BY <1>m, <1>2, <1>3, <1>7, <1>8, <3>1 DEF OffOk
  <2>5. Routed(m)'
    BY <1>1, <1>3, <1>8 DEF ModInv, Routed
  <2>6. (m \in missed => Ready(m))'
    <3>1. \A j \in Pids : procs'[j].mod = m => procs'[j].at # "boot"
      BY <1>2, <1>7
    <3>2. QED
      BY <1>1, <1>3, <3>1 DEF ModInv, Ready
  <2>7. QED
    BY <1>8, <2>1, <2>2, <2>3, <2>4, <2>5, <2>6 DEF ModInv
<1>10. QED
  BY <1>1, <1>3, <1>4, <1>6, <1>9, OneModule


\* A process connects.
LEMMA BootSpread ==
    ASSUME SpreadInv, DaemonInv, NEW i \in Pids, Boot(i)
    PROVE  SpreadInv'
<1>a. procs[i].at = "boot" /\ procs[i] # Free
  BY FreeSlot DEF Boot
<1>m. PICK m \in Modules : m = procs[i].mod
  BY <1>a, AliveSpread
<1>1. /\ ModInv(m) /\ ~coldStart /\ Sane(procs) /\ Single(procs)
      /\ inbox \in [Modules -> Seq(Kinds)] /\ ~Starting(m)
      /\ procs[i] \in [mod : Modules, at : Stages, attached : BOOLEAN,
                       cmds : Seq(Commands), cfg : Settings \cup {"none"}]
      /\ Owners(procs, m) = {} /\ ~procs[i].attached
      /\ \A j \in Pids : procs[j].mod = m => j = i
  BY <1>a, <1>m, AliveSpread
<1>2. /\ Served(m) /\ ~Underway(m)
      /\ OnTrack(procs[i], May(m), status[m], inbox[m], Sending(m))
  BY <1>a, <1>m, <1>1 DEF ModInv, OffOk, Calm, OnOk
<1>3. status[m] = "down" /\ inbox[m] = <<>> /\ Seen(m) # "up"
  BY <1>a, <1>1, <1>2, SeenUp DEF OnTrack
<1>4. ~LockHeld(m) /\ IdentityFree(m)
  BY <1>a, <1>1, <1>3 DEF LockHeld, ProcsOf, Attached, IdentityFree
<1>5. /\ procs' = [procs EXCEPT ![i].at = "waiting", ![i].attached = TRUE]
      /\ inbox' = [inbox EXCEPT ![m] = Append(@, "connect")]
      /\ UNCHANGED <<config, oldConfig, coldStart, cloud, todo, missed>>
      /\ UNCHANGED <<status, enabled, peerConfig, reported, router>>
  BY <1>m, <1>4 DEF Boot, tables, threads
<1>6. /\ procs'[i].at = "waiting" /\ procs'[i].attached /\ procs'[i].mod = m
      /\ procs'[i].cmds = procs[i].cmds
      /\ \A j \in Pids \ {i} : procs'[j] = procs[j]
      /\ inbox'[m] = Append(<<>>, "connect")
      /\ \A n \in Modules \ {m} : inbox'[n] = inbox[n]
  BY <1>m, <1>1, <1>3, <1>5 DEF Sane
<1>7. \A j \in Pids : procs'[j].mod = procs[j].mod
  BY <1>m, <1>6
<1>8. Single(procs')
  <2>1. \A j \in Pids : procs[j].mod \in Modules => (procs'[j].attached <=> procs'[j].at # "boot")
    <3>1. \A j \in Pids \ {i} : procs[j].mod \in Modules => (procs'[j].attached <=> procs'[j].at # "boot")
      BY <1>1, <1>6 DEF Single
    <3>2. procs'[i].attached <=> procs'[i].at # "boot"
      BY <1>6
    <3>3. QED
      BY <3>1, <3>2
  <2>2. \A j, k \in Pids :
           procs'[j].mod = procs'[k].mod /\ procs'[j].mod \in Modules => j = k
    BY <1>1, <1>7 DEF Single
  <2>3. QED
    BY <1>7, <2>1, <2>2 DEF Single
<1>9. Owners(procs', m) # {}
  <2>1. i \in Owners(procs', m)
    BY <1>6 DEF Owners
  <2>2. QED
    BY <2>1
<1>10. \A n \in Modules \ {m} : LeftAlone(n)
  <2>1. \A j \in Pids : procs'[j] = procs[j]
                          \/ (procs[j].mod \in {m, "free"} /\ procs'[j].mod \in {m, "free"})
    BY <1>m, <1>6
  <2>2. UNCHANGED <<tables, cloud, todo, missed>>
    BY DEF Boot, threads
  <2>3. QED
    BY <1>5, <1>6, <2>1, <2>2, OthersAlone
<1>11. ModInv(m)'
  <2>1. /\ May(m)' = May(m) /\ (Served(m)' <=> Served(m))
        /\ Shown(m)' = Shown(m) /\ Seen(m)' = Seen(m) /\ ~Underway(m)'
        /\ (Starting(m)' <=> Starting(m)) /\ (Sending(m)' <=> Sending(m))
    BY <1>1, <1>2, <1>5, SameChange DEF Seen, Starting, Sending
  <2>2. Tabled(m)'
    BY <1>1, <1>2, <1>3, <1>5, <2>1 DEF Tabled, ModInv
  <2>3. Leads(inbox[m], Seen(m), Owners(procs, m))'
    BY <1>3, <1>6, <1>9, <2>1, ConnectAdded
  <2>4. inbox'[m] # <<>> /\ Head(inbox'[m]) = "connect"
    <3>1. Append(<<>>, "connect") # <<>> /\ Head(Append(<<>>, "connect")) = "connect"
      OBVIOUS
    <3>2. QED
      BY <1>6, <3>1
  <2>5. OnOk(m)'
    <3>1. OnTrack(procs'[i], May(m), status'[m], inbox'[m], Sending(m)')
      BY <1>2, <1>6, <2>4 DEF OnTrack
    <3>2. \A j \in Pids : procs'[j].mod = m => j = i
      BY <1>1, <1>7
    <3>3. QED
      BY <2>1, <2>4, <3>1, <3>2 DEF OnOk
  <2>6. Routed(m)'
    BY <1>1, <1>5, <2>1 DEF ModInv, Routed
  <2>7. (m \in missed => Ready(m))'
    BY <1>a, <1>m, <1>1, <1>5 DEF ModInv, Ready
  <2>8. QED
    BY <1>2, <2>1, <2>2, <2>3, <2>5, <2>6, <2>7 DEF ModInv
<1>12. QED
  BY <1>1, <1>5, <1>8, <1>10, <1>11, OneModule

\* A process takes what was sent to it.
LEMMA ReceiveSpread ==
    ASSUME SpreadInv, DaemonInv, NEW i \in Pids, Receive(i)
    PROVE  SpreadInv'
<1>a. procs[i].cmds # <<>> /\ procs[i] # Free
  BY FreeSlot DEF Receive
<1>m. PICK m \in Modules : m = procs[i].mod
  BY <1>a, AliveSpread
<1>1. /\ ModInv(m) /\ Sane(procs) /\ procs[i].attached /\ procs[i].at # "boot"
      /\ procs[i] \in [mod : Modules, at : Stages, attached : BOOLEAN,
                       cmds : Seq(Commands), cfg : Settings \cup {"none"}]
  BY <1>a, <1>m, AliveSpread DEF Sane
<1> DEFINE c == Head(procs[i].cmds)
           t == Tail(procs[i].cmds)
           rest == [procs EXCEPT ![i].cmds = Tail(@)]
<1>2. /\ t \in Seq(Commands) /\ c \in Commands
      /\ \A d \in Commands : Has(procs[i].cmds, d) <=> Has(t, d) \/ d = c
  BY <1>a, <1>1, HasTail
<1>3. ~Underway(m)
  BY <1>a, <1>m DEF ModInv, Calm, SpreadInv
<1>4. /\ Served(m) => OnTrack(procs[i], May(m), status[m], inbox[m], Sending(m))
      /\ ~Served(m) => procs[i].at = "running" /\ Has(procs[i].cmds, "STOP")
  BY <1>m, <1>1 DEF ModInv, OnOk, OffOk
<1>5. "STOP" \in Commands /\ "STOP" \notin Settings /\ Settings \subseteq Commands
      /\ UNCHANGED <<tables, threads, missed>>
      /\ (Served(m) => May(m) \subseteq Settings)
  BY EvDaemonAssumption, ServedMay DEF Commands, CfgValues, Receive
<1>6. CASE Exit(i)
  BY <1>a, <1>m, <1>1, <1>3, <1>5, <1>6, ExitSpread
<1>7. CASE (procs[i].at = "waiting" => c = "STOP") /\ (procs[i].at = "running" => c # "STOP")
           /\ procs' = rest /\ UNCHANGED inbox
  <2> DEFINE p == [procs[i] EXCEPT !.cmds = Tail(@)]
  <2>1. /\ p.mod = m /\ p.attached = procs[i].attached /\ p.at = procs[i].at
        /\ p.cfg = procs[i].cfg /\ p.cmds = t
    BY <1>m, <1>1
  <2>2. procs' = [procs EXCEPT ![i] = p]
    BY <1>1, <1>7 DEF Sane
  <2> HIDE DEF p, c, t, rest
  <2>3. Served(m) => OnTrack(p, May(m), status[m], inbox[m], Sending(m))
    <3>1. procs[i].at \in {"waiting", "running"}
      BY <1>1 DEF Stages
    <3> SUFFICES ASSUME Served(m) PROVE OnTrack(p, May(m), status[m], inbox[m], Sending(m))
      OBVIOUS
    <3>2. OnTrack(procs[i], May(m), status[m], inbox[m], Sending(m)) /\ May(m) \subseteq Commands
      BY <1>4, <1>5
    <3>3. \A d \in Commands : Has(p.cmds, d) => d \in May(m) \cup {"STOP"}
      BY <1>2, <2>1, <3>2 DEF OnTrack
    <3>4. p.at = "waiting" => (inbox[m] # <<>> /\ Head(inbox[m]) = "connect") \/ Sending(m)
                                \/ \E d \in May(m) : Has(p.cmds, d)
      <4>1. p.at = "waiting" => \A d \in May(m) : Has(procs[i].cmds, d) => Has(t, d)
        BY <1>2, <1>5, <1>7, <2>1, <3>2
      <4>2. QED
        BY <2>1, <3>2, <4>1 DEF OnTrack
    <3>5. p.at = "running" => p.cfg \in May(m) \/ Has(p.cmds, "STOP")
      BY <1>2, <1>5, <1>7, <2>1, <3>2 DEF OnTrack
    <3>6. QED
      BY <2>1, <3>1, <3>3, <3>4, <3>5 DEF OnTrack
  <2>4. ~Served(m) => p.at = "running" /\ Has(p.cmds, "STOP")
    BY <1>2, <1>4, <1>5, <1>7, <2>1
  <2>5. /\ procs[i] # Free /\ procs[i].at # "boot" /\ p.at # "boot"
        /\ p.mod = procs[i].mod /\ p.attached = procs[i].attached
        /\ ~Underway(procs[i].mod) /\ UNCHANGED <<tables, threads, inbox, missed>>
    BY <1>a, <1>m, <1>1, <1>3, <1>5, <1>7, <2>1
  <2>6. QED
    BY <1>m, <2>2, <2>3, <2>4, <2>5, SlotSpread
<1>8. CASE procs[i].at = "waiting" /\ c \in Settings
           /\ procs' = [rest EXCEPT ![i].at = "running", ![i].cfg = c] /\ UNCHANGED inbox
  <2> DEFINE p == [procs[i] EXCEPT !.cmds = Tail(@), !.at = "running", !.cfg = c]
  <2>1. /\ p.mod = m /\ p.attached = procs[i].attached /\ p.at = "running"
        /\ p.cfg = c /\ p.cmds = t
    BY <1>m, <1>1
  <2>2. procs' = [procs EXCEPT ![i] = p]
    BY <1>1, <1>8 DEF Sane
  <2> HIDE DEF p, c, t, rest
  <2>3. Served(m) /\ OnTrack(p, May(m), status[m], inbox[m], Sending(m))
    <3>1. Served(m) /\ OnTrack(procs[i], May(m), status[m], inbox[m], Sending(m))
      BY <1>4, <1>8
    <3>2. c \in May(m)
      BY <1>2, <1>5, <1>8, <3>1 DEF OnTrack
    <3>3. QED
      BY <1>2, <2>1, <3>1, <3>2 DEF OnTrack
  <2>4. QED
    BY <1>a, <1>m, <1>1, <1>3, <1>5, <1>8, <2>1, <2>2, <2>3, SlotSpread
<1>9. QED
  BY <1>6, <1>7, <1>8 DEF Receive

\* A module reports something.
LEMMA ReportSpread ==
    ASSUME SpreadInv, DaemonInv, NEW i \in Pids, Report(i)
    PROVE  SpreadInv'
<1>a. procs[i].at = "running" /\ procs[i].attached /\ procs[i] # Free
  BY FreeSlot DEF Report
<1>m. PICK m \in Modules : m = procs[i].mod
  BY <1>a, AliveSpread
<1>1. /\ ModInv(m) /\ ~coldStart /\ Single(procs) /\ inbox \in [Modules -> Seq(Kinds)]
      /\ ~Starting(m) /\ Owners(procs, m) = {i}
      /\ \A j \in Pids : procs[j].mod = m => j = i
  BY <1>a, <1>m, AliveSpread
<1>2. /\ inbox' = [inbox EXCEPT ![m] = Append(@, "msg")] /\ procs' = procs
      /\ UNCHANGED <<config, oldConfig, coldStart, cloud, todo, missed>>
      /\ UNCHANGED <<status, enabled, peerConfig, reported, router>>
      /\ UNCHANGED <<tables, cloud, todo, missed>>
  BY <1>m DEF Report, tables, threads
<1>3. inbox'[m] = Append(inbox[m], "msg") /\ \A n \in Modules \ {m} : inbox'[n] = inbox[n]
  BY <1>1, <1>2
<1>4. \A n \in Modules \ {m} : LeftAlone(n)
  BY <1>2, <1>3, OthersAlone
<1>5. /\ May(m)' = May(m) /\ (Served(m)' <=> Served(m))
        /\ Shown(m)' = Shown(m) /\ Seen(m)' = Seen(m) /\ (Underway(m)' <=> Underway(m))
      /\ (Starting(m)' <=> Starting(m)) /\ (Sending(m)' <=> Sending(m))
  BY <1>1, <1>2, SameChange DEF Seen, Starting, Sending
<1>6. /\ inbox'[m] # <<>> /\ Leads(inbox'[m], Seen(m), {i})
      /\ inbox[m] # <<>> => Head(inbox'[m]) = Head(inbox[m])
      /\ inbox[m] = <<>> => Head(inbox'[m]) = "msg"
  <2>1. inbox[m] \in Seq(Kinds) /\ "msg" \in Kinds /\ Leads(inbox[m], Seen(m), {i})
    BY <1>1 DEF ModInv, Kinds
  <2>2. Leads(Append(inbox[m], "msg"), Seen(m), {i})
    BY <2>1, LastAdded
  <2>3. /\ Append(inbox[m], "msg") # <<>>
        /\ inbox[m] # <<>> => Head(Append(inbox[m], "msg")) = Head(inbox[m])
        /\ inbox[m] = <<>> => Head(Append(inbox[m], "msg")) = "msg"
    BY <2>1, AppendProperties, EmptySeq, LenProperties
  <2>4. QED
    BY <1>3, <2>2, <2>3
<1>7. ~Served(m) => ~Underway(m) /\ Seen(m) = "up"
  <2>1. ~Served(m) => Seen(m) = "up" /\ Has(procs[i].cmds, "STOP")
    BY <1>m, <1>1, SeenOff DEF ModInv, OffOk
  <2>2. Underway(m) => procs[i].cmds = <<>>
    BY <1>m, <1>1 DEF ModInv, Calm
  <2>3. QED
    BY <2>1, <2>2, HasNothing
<1>8. ModInv(m)'
  <2>1. Tabled(m)'
    <3>1. m \in missed => status[m] \notin {"disabled", "removed"}
      BY <1>1, MissedUp
    <3>2. QED
      BY <1>1, <1>2, <1>5, <3>1 DEF Tabled, ModInv
  <2>2. Leads(inbox[m], Seen(m), Owners(procs, m))'
    BY <1>1, <1>2, <1>5, <1>6
  <2>3. (Served(m) => OnOk(m))'
    <3> SUFFICES ASSUME Served(m) PROVE OnOk(m)'
      BY <1>5
    <3>1. OnTrack(procs[i], May(m), status[m], inbox[m], Sending(m))
      BY <1>m, <1>1 DEF ModInv, OnOk
    <3>2. OnTrack(procs'[i], May(m)', status'[m], inbox'[m], Sending(m)')
      BY <1>a, <1>2, <1>5, <3>1 DEF OnTrack
    <3>3. QED
      BY <1>1, <1>2, <1>5, <1>6, <3>2 DEF OnOk
  <2>4. (~Served(m) => OffOk(m))'
    BY <1>1, <1>2, <1>5, <1>7 DEF ModInv, OffOk
  <2>5. (Underway(m) => Calm(m))'
    BY <1>m, <1>1, <1>2, <1>5, <1>7 DEF ModInv, Calm
  <2>6. Routed(m)'
    BY <1>1, <1>2, <1>5 DEF ModInv, Routed
  <2>7. (m \in missed => Ready(m))'
    BY <1>1, <1>2, <1>6 DEF ModInv, Ready
  <2>8. QED
    BY <2>1, <2>2, <2>3, <2>4, <2>5, <2>6, <2>7 DEF ModInv
<1>9. QED
  BY <1>1, <1>2, <1>4, <1>8, OneModule

\* What processes do on their own.
LEMMA ProcessSpread ==
    ASSUME SpreadInv, DaemonInv, NEW i \in Pids, ProcStep(i) \/ Crash(i) \/ Report(i),
           Crash(i) => cloud = "idle"
    PROVE  SpreadInv'
<1>1. CASE Crash(i)
  <2>1. procs[i] # Free /\ procs[i].attached /\ Exit(i) /\ UNCHANGED <<tables, threads, missed>>
    BY <1>1 DEF Crash, SpreadInv, SpacedOut
  <2>2. ~Underway(procs[i].mod)
    BY <1>1 DEF Underway
  <2>3. QED
    BY <2>1, <2>2, ExitSpread
<1>2. QED
  BY <1>1, BootSpread, ReceiveSpread, ReportSpread DEF ProcStep


--------------------------------------------------------------------------------
(* What the router does *)

\* What a step of the router leaves of the other modules.
LEMMA RouterAlone ==
    ASSUME NEW m \in Modules, UNCHANGED <<config, oldConfig, coldStart, cloud, todo, enabled, missed>>,
           \A n \in Modules \ {m} : /\ inbox'[n] = inbox[n] /\ status'[n] = status[n]
                                    /\ reported'[n] = reported[n] /\ peerConfig'[n] = peerConfig[n],
           \A i \in Pids : procs'[i] = procs[i]
                             \/ (procs[i].mod \in {m, "free"} /\ procs'[i].mod \in {m, "free"}),
           router.at = "idle" \/ router.mod = m, router'.at = "idle" \/ router'.mod = m
    PROVE  \A n \in Modules \ {m} : LeftAlone(n)
<1>1. "free" \notin Modules
  BY EvDaemonAssumption
<1>2. \A n \in Modules : Shown(n)' = Shown(n) /\ (Underway(n)' <=> Underway(n))
  BY SameChange
<1>3. \A n \in Modules \ {m} : ~Starting(n)' /\ ~Starting(n) /\ ~Sending(n)' /\ ~Sending(n)
  BY DEF Starting, Sending
<1>4. QED
  BY <1>1, <1>2, <1>3 DEF LeftAlone

\* What is common to all that the router reads of a module.
LEMMA ReadSpread ==
    ASSUME SpreadInv, DaemonInv, NEW m \in Modules, NEW kinds, Read(m, kinds)
    PROVE  /\ ModInv(m) /\ ~coldStart /\ ~Sending(m) /\ ~Starting(m) /\ router.at = "idle"
           /\ Single(procs) /\ inbox[m] \in Seq(Kinds) /\ inbox[m] # <<>>
           /\ Head(inbox[m]) \in kinds \cap Kinds
           /\ inbox'[m] = Tail(inbox[m]) /\ \A n \in Modules \ {m} : inbox'[n] = inbox[n]
           /\ Head(inbox[m]) = "connect" => Seen(m) # "up"
           /\ Head(inbox[m]) = "connect" => Leads(inbox'[m], "up", Owners(procs, m))
           /\ Head(inbox[m]) = "disconnect"
                => Seen(m) = "up" /\ inbox'[m] = <<>> /\ \A i \in Pids : procs[i].mod # m
           /\ Head(inbox[m]) = "msg" => Seen(m) = "up" /\ Leads(inbox'[m], "up", Owners(procs, m))
<1>1. /\ ModInv(m) /\ ~coldStart /\ router = Idle /\ Single(procs)
      /\ inbox \in [Modules -> Seq(Kinds)]
      /\ inbox[m] # <<>> /\ Head(inbox[m]) \in kinds /\ inbox' = [inbox EXCEPT ![m] = Tail(@)]
  BY DEF SpreadInv, Untouched, Read, DaemonInv, TypeOK, Kinds
<1>2. ~Sending(m) /\ ~Starting(m) /\ router.at = "idle"
  BY <1>1 DEF Sending, Starting, Idle
<1>3. inbox[m] \in Seq(Kinds) /\ Leads(inbox[m], Seen(m), Owners(procs, m))
  BY <1>1 DEF ModInv
<1>4. Head(inbox[m]) \in Kinds
  BY <1>1, <1>3, HeadTailProperties
<1>5. inbox'[m] = Tail(inbox[m]) /\ \A n \in Modules \ {m} : inbox'[n] = inbox[n]
  BY <1>1
<1>6. /\ Head(inbox[m]) = "connect"
          => Seen(m) # "up" /\ Leads(Tail(inbox[m]), "up", Owners(procs, m))
      /\ Head(inbox[m]) = "disconnect"
          => Seen(m) = "up" /\ Owners(procs, m) = {} /\ Tail(inbox[m]) = <<>>
      /\ Head(inbox[m]) = "msg" => Seen(m) = "up" /\ Leads(Tail(inbox[m]), Seen(m), Owners(procs, m))
  BY <1>1, <1>3, HeadRead
<1>7. ASSUME Owners(procs, m) = {}, NEW i \in Pids, procs[i].mod = m PROVE FALSE
  <2>1. procs[i].at = "boot"
    BY <1>1, <1>7 DEF Owners, Single
  <2>2. Served(m) /\ OnTrack(procs[i], May(m), status[m], inbox[m], Sending(m))
    BY <1>1, <1>7, <2>1 DEF ModInv, OnOk, OffOk
  <2>3. QED
    BY <1>1, <2>1, <2>2 DEF OnTrack
<1>8. QED
  BY <1>1, <1>2, <1>3, <1>4, <1>5, <1>6, <1>7

\* A module of which a connect or a disconnect is unread is not about to be changed.
LEMMA NotCalm ==
    ASSUME NEW m \in Modules, ModInv(m), inbox[m] # <<>>,
           Seen(m) # "up" \/ \A i \in Pids : procs[i].mod # m
    PROVE  ~Underway(m)
BY DEF ModInv, Calm

\* A connect is read.
LEMMA UpSpread ==
    ASSUME SpreadInv, DaemonInv, NEW m \in Modules, NotifyUp(m)
    PROVE  SpreadInv'
<1>1. Read(m, {"connect", "disconnect"})
  BY DEF NotifyUp
<1>2. /\ ModInv(m) /\ ~coldStart /\ ~Sending(m) /\ ~Starting(m) /\ router.at = "idle"
      /\ Single(procs) /\ inbox[m] # <<>> /\ Head(inbox[m]) \in {"connect", "disconnect"}
      /\ \A n \in Modules \ {m} : inbox'[n] = inbox[n]
      /\ Head(inbox[m]) = "connect" => Seen(m) # "up" /\ Leads(inbox'[m], "up", Owners(procs, m))
      /\ Head(inbox[m]) = "disconnect" => Seen(m) = "up"
  BY <1>1, ReadSpread
<1>3. /\ status \in [Modules -> {"absent", "unknown", "down", "up", "disabled", "removed"}]
      /\ status[m] \in {"absent", "unknown", "down"} /\ status' = [status EXCEPT ![m] = "up"]
      /\ DOMAIN reported = Modules /\ DOMAIN peerConfig = Modules
      /\ Tell(m, "recover")
      /\ peerConfig' = [peerConfig EXCEPT ![m] = IF @ = "none" THEN "null" ELSE @]
      /\ router' = [at |-> "send", mod |-> m, cfg |-> peerConfig'[m]]
      /\ procs' = procs /\ UNCHANGED <<config, oldConfig, coldStart, cloud, todo, enabled, missed>>
  BY DEF NotifyUp, DaemonInv, TypeOK, bounds
<1>4. Seen(m) # "up" /\ Head(inbox[m]) = "connect" /\ Leads(inbox'[m], "up", Owners(procs, m))
  BY <1>2, <1>3 DEF ModInv, Tabled, Seen
<1>5. Served(m) /\ ~Underway(m) /\ Shown(m) = config[m]
  BY <1>2, <1>4, NotCalm DEF ModInv, OffOk, Shown
<1>6. peerConfig[m] \in May(m) /\ peerConfig[m] \in Settings /\ peerConfig[m] # "none"
  <2>1. CASE m \in missed
    BY <1>2, <1>4, <2>1, EvDaemonAssumption DEF ModInv, Ready, May
  <2>2. CASE m \notin missed
    BY <1>2, <1>5, <2>2, EvDaemonAssumption DEF ModInv, Tabled, May, Served
  <2>3. QED
    BY <2>1, <2>2
<1>7. /\ status'[m] = "up" /\ \A n \in Modules \ {m} : status'[n] = status[n]
      /\ m # Mgr => reported'[m] = "recover"
      /\ \A n \in Modules \ {m} : reported'[n] = reported[n]
      /\ peerConfig'[m] = peerConfig[m] /\ \A n \in Modules \ {m} : peerConfig'[n] = peerConfig[n]
      /\ router'.at = "send" /\ router'.mod = m /\ router'.cfg = peerConfig[m]
  BY <1>3, <1>6 DEF Tell
<1>8. \A n \in Modules \ {m} : LeftAlone(n)
  BY <1>2, <1>3, <1>7, RouterAlone
<1>9. /\ May(m)' = May(m) /\ (Served(m)' <=> Served(m))
      /\ Shown(m)' = Shown(m) /\ ~Underway(m)' /\ Seen(m)' = "up"
      /\ Sending(m)' /\ ~Starting(m)'
  BY <1>3, <1>5, <1>7, SameChange DEF Seen, Sending, Starting
<1>10. ModInv(m)'
  <2>1. Tabled(m)'
    BY <1>2, <1>3, <1>6, <1>7, <1>9, <1>5 DEF Tabled, ModInv
  <2>2. Leads(inbox[m], Seen(m), Owners(procs, m))'
    BY <1>3, <1>4, <1>9
  <2>3. OnOk(m)'
    <3>1. ASSUME NEW i \in Pids, procs[i].mod = m
          PROVE  OnTrack(procs'[i], May(m)', status'[m], inbox'[m], Sending(m)')
      <4>1. OnTrack(procs[i], May(m), status[m], inbox[m], Sending(m))
        BY <1>2, <1>5, <3>1 DEF ModInv, OnOk
      <4>2. QED
        BY <1>2, <1>3, <1>9, <4>1 DEF OnTrack
    <3>2. (\A i \in Pids : procs[i].mod # m) => inbox'[m] # <<>>
      BY <1>4 DEF Leads, Owners
    <3>3. QED
      BY <1>3, <3>1, <3>2 DEF OnOk
  <2>4. Routed(m)'
    BY <1>5, <1>6, <1>7, <1>9 DEF Routed
  <2>5. (m \in missed => Ready(m))'
    BY <1>6, <1>7 DEF Ready
  <2>6. QED
    BY <1>5, <1>9, <2>1, <2>2, <2>3, <2>4, <2>5 DEF ModInv
<1>11. QED
  BY <1>2, <1>3, <1>8, <1>10, OneModule

\* A disconnect is read.
LEMMA DownSpread ==
    ASSUME SpreadInv, DaemonInv, NEW m \in Modules, NotifyDown(m)
    PROVE  SpreadInv'
<1>1. Read(m, {"connect", "disconnect"})
  BY DEF NotifyDown
<1>2. /\ ModInv(m) /\ ~coldStart /\ ~Sending(m) /\ ~Starting(m) /\ router.at = "idle"
      /\ Single(procs) /\ inbox[m] # <<>> /\ Head(inbox[m]) \in {"connect", "disconnect"}
      /\ \A n \in Modules \ {m} : inbox'[n] = inbox[n]
      /\ Head(inbox[m]) = "connect" => Seen(m) # "up"
      /\ Head(inbox[m]) = "disconnect"
           => Seen(m) = "up" /\ inbox'[m] = <<>> /\ \A i \in Pids : procs[i].mod # m
  BY <1>1, ReadSpread
<1>3. /\ status \in [Modules -> {"absent", "unknown", "down", "up", "disabled", "removed"}]
      /\ status[m] \in {"up", "disabled", "removed"} /\ Tell(m, "active")
      /\ DOMAIN reported = Modules
      /\ \/ /\ status[m] = "up" /\ status' = [status EXCEPT ![m] = "down"]
            /\ router' = [at |-> "start", mod |-> m, cfg |-> "none"]
         \/ status[m] # "up" /\ status' = status /\ router' = router
      /\ procs' = procs /\ peerConfig' = peerConfig
      /\ UNCHANGED <<config, oldConfig, coldStart, cloud, todo, enabled, missed>>
  BY DEF NotifyDown, MarkDown, DaemonInv, TypeOK, bounds
<1>4. Head(inbox[m]) = "disconnect"
  <2>1. CASE status[m] = "up"
    BY <1>2, <2>1 DEF ModInv, Tabled, Seen
  <2>2. CASE status[m] # "up"
    <3>1. ~Served(m)
      BY <1>2, <1>3, <2>2, MissedUp DEF ModInv, Tabled, Served
    <3>2. QED
      BY <1>2, <3>1 DEF ModInv, OffOk
  <2>3. QED
    BY <2>1, <2>2
<1>5. Seen(m) = "up" /\ inbox'[m] = <<>> /\ (\A i \in Pids : procs[i].mod # m) /\ ~Underway(m)
  BY <1>2, <1>4, NotCalm
<1>6. /\ m # Mgr => reported'[m] = "active"
      /\ \A n \in Modules \ {m} : reported'[n] = reported[n] /\ status'[n] = status[n]
      /\ \/ status'[m] = "down" /\ router'.at = "start" /\ router'.mod = m
         \/ /\ status[m] \in {"disabled", "removed"} /\ status'[m] = status[m]
            /\ router'.at = "idle"
  BY <1>2, <1>3 DEF Tell
<1>7. \A n \in Modules \ {m} : LeftAlone(n)
  BY <1>2, <1>3, <1>6, RouterAlone
<1>8. /\ May(m)' = May(m) /\ (Served(m)' <=> Served(m))
      /\ Shown(m)' = Shown(m) /\ ~Underway(m)' /\ ~Sending(m)'
  BY <1>3, <1>5, <1>6, SameChange DEF Sending
<1>9. Seen(m)' # "up" /\ Tabled(m)'
  <2>1. Tabled(m)
    BY <1>2 DEF ModInv
  <2>2. Seen(m)' # "up"
    BY <1>6, <2>1 DEF Seen, Tabled
  <2>3. Tabled(m)'
    <3>1. m \in missed => status[m] \notin {"disabled", "removed"}
      BY <1>2, MissedUp
    <3>2. QED
      BY <1>3, <1>5, <1>6, <1>8, <2>1, <3>1 DEF Tabled
  <2>4. QED
    BY <2>2, <2>3
<1>10. ModInv(m)'
  <2>1. Leads(inbox[m], Seen(m), Owners(procs, m))'
    BY <1>3, <1>5, <1>9 DEF Leads, Owners
  <2>2. (Served(m) => OnOk(m))'
    <3>1. Served(m) /\ m \notin missed => Starting(m)'
      BY <1>2, <1>6 DEF ModInv, Tabled, Starting, Served
    <3>2. QED
      BY <1>3, <1>5, <1>8, <3>1 DEF OnOk
  <2>3. OffOk(m)'
    BY <1>3, <1>5 DEF OffOk
  <2>4. Routed(m)'
    BY <1>3, <1>5, <1>6, <1>8 DEF Routed, Starting
  <2>5. (m \in missed => Ready(m))'
    BY <1>3, <1>5 DEF Ready
  <2>6. QED
    BY <1>8, <1>9, <2>1, <2>2, <2>3, <2>4, <2>5 DEF ModInv
<1>11. QED
  BY <1>2, <1>3, <1>7, <1>10, OneModule

\* A report is read.
LEMMA RelaySpread ==
    ASSUME SpreadInv, DaemonInv, NEW m \in Modules, RelayReport(m)
    PROVE  SpreadInv'
<1>1. Read(m, {"msg"})
  BY DEF RelayReport
<1>2. /\ ModInv(m) /\ ~coldStart /\ ~Sending(m) /\ ~Starting(m) /\ router.at = "idle"
      /\ Single(procs) /\ inbox[m] # <<>> /\ Head(inbox[m]) = "msg"
      /\ \A n \in Modules \ {m} : inbox'[n] = inbox[n]
      /\ Seen(m) = "up" /\ Leads(inbox'[m], "up", Owners(procs, m))
  BY <1>1, ReadSpread
<1>3. /\ status \in [Modules -> {"absent", "unknown", "down", "up", "disabled", "removed"}]
      /\ status' = [status EXCEPT ![m] = "up"]
      /\ procs' = procs /\ peerConfig' = peerConfig /\ reported' = reported /\ router' = router
      /\ UNCHANGED <<config, oldConfig, coldStart, cloud, todo, enabled, missed>>
  BY DEF RelayReport, DaemonInv, TypeOK, bounds, threads
<1>4. status'[m] = "up" /\ \A n \in Modules \ {m} : status'[n] = status[n]
  BY <1>3
<1>5. \A n \in Modules \ {m} : LeftAlone(n)
  BY <1>2, <1>3, <1>4, RouterAlone
<1>6. /\ May(m)' = May(m) /\ (Served(m)' <=> Served(m))
      /\ Shown(m)' = Shown(m) /\ (Underway(m)' <=> Underway(m)) /\ ~Sending(m)' /\ ~Starting(m)'
      /\ Seen(m)' = "up"
  BY <1>2, <1>3, <1>4, SameChange DEF Sending, Starting, Seen
<1>7. ModInv(m)'
  <2>1. Tabled(m)'
    BY <1>2, <1>3, <1>4, <1>6 DEF Tabled, ModInv, Seen
  <2>2. Leads(inbox[m], Seen(m), Owners(procs, m))'
    BY <1>2, <1>3, <1>6
  <2>3. (Served(m) => OnOk(m))'
    <3> SUFFICES ASSUME Served(m) PROVE OnOk(m)'
      BY <1>6
    <3>1. ASSUME NEW i \in Pids, procs[i].mod = m
          PROVE  OnTrack(procs'[i], May(m)', status'[m], inbox'[m], Sending(m)')
      <4>1. OnTrack(procs[i], May(m), status[m], inbox[m], Sending(m))
        BY <1>2, <3>1 DEF ModInv, OnOk
      <4>2. QED
        BY <1>2, <1>3, <1>6, <4>1 DEF OnTrack
    <3>2. (\A i \in Pids : procs[i].mod # m) => inbox'[m] # <<>>
      BY <1>2 DEF Leads, Owners
    <3>3. QED
      BY <1>3, <3>1, <3>2 DEF OnOk
  <2>4. (~Served(m) => OffOk(m))'
    BY <1>2, <1>3, <1>6 DEF ModInv, OffOk
  <2>5. (Underway(m) => Calm(m))'
    BY <1>2, <1>3, <1>6 DEF ModInv, Calm
  <2>6. Routed(m)'
    BY <1>6 DEF Routed
  <2>7. (m \in missed => Ready(m))'
    <3>1. inbox'[m] \in Seq(Kinds)
      <4>1. inbox[m] \in Seq(Kinds) /\ inbox'[m] = Tail(inbox[m])
        BY <1>1, ReadSpread
      <4>2. QED
        BY <1>2, <4>1, HeadTailProperties
    <3>2. inbox'[m] # <<>> => Head(inbox'[m]) # "connect"
      BY <1>2, <3>1, HeadRead
    <3>3. QED
      BY <1>2, <1>3, <3>2 DEF ModInv, Ready
  <2>8. QED
    BY <2>1, <2>2, <2>3, <2>4, <2>5, <2>6, <2>7 DEF ModInv
<1>8. QED
  BY <1>2, <1>3, <1>5, <1>7, OneModule


\* What is sent to module m.
LEMMA SendGives ==
    ASSUME NEW ps, Sane(ps), NEW m \in Modules, NEW c \in Commands, NEW i \in Pids
    PROVE  /\ SendTo(ps, m, c)[i].mod = ps[i].mod /\ SendTo(ps, m, c)[i].at = ps[i].at
           /\ SendTo(ps, m, c)[i].cfg = ps[i].cfg
           /\ ps[i].mod # m => SendTo(ps, m, c)[i] = ps[i]
           /\ ps[i].mod = m => ps[i].cmds \in Seq(Commands)
           /\ ps[i].mod = m /\ ps[i].attached
                => /\ SendTo(ps, m, c)[i].cmds = Append(ps[i].cmds, c)
                   /\ \A d : Has(SendTo(ps, m, c)[i].cmds, d) <=> Has(ps[i].cmds, d) \/ d = c
           /\ ps[i].mod = m /\ ~ps[i].attached => SendTo(ps, m, c)[i] = ps[i]
<1>1. CASE ps[i].mod = m
  <2>1. /\ ps[i] \in [mod : Modules, at : Stages, attached : BOOLEAN,
                      cmds : Seq(Commands), cfg : Settings \cup {"none"}]
        /\ ps[i].cmds \in Seq(Commands)
    BY <1>1, EvDaemonAssumption, FreeSlot, TakenSlot DEF Sane
  <2>2. CASE ps[i].attached
    <3>1. SendTo(ps, m, c)[i] = [ps[i] EXCEPT !.cmds = Append(@, c)]
      BY <1>1, <2>2 DEF SendTo
    <3>2. SendTo(ps, m, c)[i].cmds = Append(ps[i].cmds, c)
      BY <2>1, <3>1
    <3>3. \A d : Has(SendTo(ps, m, c)[i].cmds, d) <=> Has(ps[i].cmds, d) \/ d = c
      BY <2>1, <3>2, HasAppended
    <3>4. QED
      BY <1>1, <2>1, <2>2, <3>1, <3>2, <3>3
  <2>3. CASE ~ps[i].attached
    BY <1>1, <2>1, <2>3 DEF SendTo
  <2>4. QED
    BY <2>2, <2>3
<1>2. CASE ps[i].mod # m
  BY <1>2 DEF SendTo
<1>3. QED
  BY <1>1, <1>2

\* Its processes stay on their way when that is one of their settings or a STOP.
LEMMA SentOnTrack ==
    ASSUME NEW ps, Sane(ps), Single(ps), NEW m \in Modules, NEW C \in SUBSET Settings,
           NEW c \in {"STOP"} \cup C, NEW st, NEW q, NEW g, NEW i \in Pids, ps[i].mod = m,
           OnTrack(ps[i], C, st, q, g)
    PROVE  /\ OnTrack(SendTo(ps, m, c)[i], C, st, q, g)
           /\ c \in C => OnTrack(SendTo(ps, m, c)[i], C, st, q, FALSE)
<1>1. "STOP" \in Commands /\ C \subseteq Commands /\ c \in Commands
  BY DEF Commands, CfgValues
<1>2. ps[i].attached <=> ps[i].at # "boot"
  BY DEF Single
<1> DEFINE p == SendTo(ps, m, c)[i]
<1>3. /\ p.at = ps[i].at /\ p.cfg = ps[i].cfg
      /\ ps[i].attached => \A d : Has(p.cmds, d) <=> Has(ps[i].cmds, d) \/ d = c
      /\ ~ps[i].attached => p = ps[i]
  BY <1>1, SendGives
<1> HIDE DEF p
<1>4. ASSUME ps[i].attached
      PROVE  OnTrack(p, C, st, q, g) /\ (c \in C => OnTrack(p, C, st, q, FALSE))
  <2>1. ps[i].at # "boot" /\ \A d : Has(p.cmds, d) <=> Has(ps[i].cmds, d) \/ d = c
    BY <1>2, <1>3, <1>4
  <2>2. \A d \in Commands : Has(p.cmds, d) => d \in C \cup {"STOP"}
    BY <2>1 DEF OnTrack
  <2>3. p.at = "waiting" => (q # <<>> /\ Head(q) = "connect") \/ g \/ \E d \in C : Has(p.cmds, d)
    BY <1>1, <1>3, <2>1 DEF OnTrack
  <2>4. p.at = "running" => p.cfg \in C \/ Has(p.cmds, "STOP")
    BY <1>1, <1>3, <2>1 DEF OnTrack
  <2>5. c \in C => \E d \in C : Has(p.cmds, d)
    BY <2>1
  <2>6. QED
    BY <1>3, <2>1, <2>2, <2>3, <2>4, <2>5 DEF OnTrack
<1>5. ASSUME ~ps[i].attached
      PROVE  OnTrack(p, C, st, q, g) /\ (c \in C => OnTrack(p, C, st, q, FALSE))
  BY <1>1, <1>2, <1>3, <1>5 DEF OnTrack
<1>6. QED
  BY <1>4, <1>5 DEF p

\* A STOP is sent to module m, which is not about to be changed.
LEMMA StopKeeps ==
    ASSUME SpreadInv, DaemonInv, NEW m \in Modules, ~Underway(m), ~Underway(m)',
           procs' = SendTo(procs, m, "STOP"), Shown(m)' = Shown(m),
           m \in missed' <=> m \in missed, cloud' # "idle" => cloud # "idle",
           UNCHANGED <<tables, router, inbox>>
    PROVE  ModInv(m)'
<1>1. /\ ModInv(m) /\ Sane(procs) /\ Single(procs) /\ "STOP" \in Commands
  BY DEF SpreadInv, DaemonInv, Commands
<1>0. May(m)' = May(m) /\ (Served(m)' <=> Served(m))
  BY DEF May, Served
<1>2. \A i \in Pids : procs'[i].mod = procs[i].mod /\ procs'[i].at = procs[i].at
  BY <1>1, SendGives
<1>3. Owners(procs', m) = Owners(procs, m)
  BY <1>1, SendAlike, AlikeStands
<1>4. /\ UNCHANGED <<status, enabled, peerConfig, config, reported, router, inbox>>
      /\ Seen(m)' = Seen(m) /\ (Starting(m)' <=> Starting(m)) /\ (Sending(m)' <=> Sending(m))
  BY DEF tables, Seen, Starting, Sending
<1>5. Tabled(m)'
  BY <1>1, <1>4 DEF ModInv, Tabled
<1>6. Leads(inbox[m], Seen(m), Owners(procs, m))'
  BY <1>1, <1>3, <1>4 DEF ModInv
<1>7. (Served(m) => OnOk(m))'
  <2> SUFFICES ASSUME Served(m) PROVE OnOk(m)'
    BY <1>0
  <2>1. ASSUME NEW i \in Pids, procs[i].mod = m
        PROVE  OnTrack(procs'[i], May(m)', status'[m], inbox'[m], Sending(m)')
    <3>1. OnTrack(procs[i], May(m), status[m], inbox[m], Sending(m))
      BY <1>1, <2>1 DEF ModInv, OnOk
    <3>2. OnTrack(procs'[i], May(m), status[m], inbox[m], Sending(m))
      BY <1>1, <2>1, <3>1, ServedMay, SentOnTrack
    <3>3. QED
      BY <1>0, <1>4, <3>2 DEF OnTrack
  <2>2. QED
    BY <1>1, <1>2, <1>4, <2>1 DEF ModInv, OnOk
<1>8. (~Served(m) => OffOk(m))'
  <2> SUFFICES ASSUME ~Served(m) PROVE OffOk(m)'
    BY <1>0
  <2>1. ASSUME NEW i \in Pids, procs[i].mod = m
        PROVE  procs'[i].at = "running" /\ Has(procs'[i].cmds, "STOP")
    <3>1. procs[i].at = "running" /\ Has(procs[i].cmds, "STOP")
      BY <1>1, <2>1 DEF ModInv, OffOk
    <3>2. QED
      BY <1>1, <1>2, <2>1, <3>1, SendGives
  <2>2. QED
    BY <1>1, <1>2, <1>4, <2>1 DEF ModInv, OffOk
<1>9. Routed(m)'
  BY <1>0, <1>1, <1>2, <1>4 DEF ModInv, Routed
<1>10. (m \in missed => Ready(m))'
  BY <1>1, <1>2, <1>4 DEF ModInv, Ready
<1>11. QED
  BY <1>5, <1>6, <1>7, <1>8, <1>9, <1>10 DEF ModInv

\* What a sending leaves of the other modules.
LEMMA SendAlone ==
    ASSUME DaemonInv, NEW m \in Modules, NEW c \in Commands, NEW n \in Modules \ {m},
           procs' = SendTo(procs, m, c)
    PROVE  \A i \in Pids : procs[i].mod = n \/ procs'[i].mod = n => procs'[i] = procs[i]
BY SendGives DEF DaemonInv

\* A command is relayed.
LEMMA CommandSpread ==
    ASSUME SpreadInv, DaemonInv, NEW m \in Modules, RelayCmd(m)
    PROVE  SpreadInv'
<1>1. /\ cloud = "idle" /\ procs' = SendTo(procs, m, "STOP") /\ UNCHANGED <<tables, threads, inbox>>
      /\ UNCHANGED <<config, oldConfig, coldStart, cloud, todo, missed>> /\ missed' = missed
      /\ UNCHANGED <<status, enabled, peerConfig, reported, router, inbox>>
      /\ "STOP" \in Commands /\ Sane(procs) /\ Single(procs)
  BY DEF RelayCmd, tables, threads, Commands, DaemonInv, SpreadInv
<1>2. ~Underway(m) /\ ~Underway(m)' /\ Shown(m)' = Shown(m)
  BY <1>1, SameChange DEF Underway
<1>3. Single(procs')
  BY <1>1, SendAlike, AlikeStands
<1>4. CASE coldStart
  <2>1. procs = NoProcs /\ procs \in [Pids -> Proc]
    BY <1>1, <1>4 DEF SpreadInv, Untouched, Sane
  <2>2. \A i \in Pids : procs[i].mod # m
    BY <2>1, FreeSlot, EvDaemonAssumption DEF NoProcs
  <2>3. \A i \in Pids : procs'[i] = procs[i]
    BY <1>1, <2>2, SendGives
  <2>4. procs' = procs
    BY <1>1, <2>1, <2>3 DEF SendTo
  <2>5. \A n \in Modules : LeftAlone(n)
    BY <1>1, <2>4, SameChange DEF LeftAlone, Starting, Sending
  <2>6. \A n \in Modules : ModInv(n)'
    BY <2>5, AloneKeeps DEF SpreadInv
  <2>7. QED
    BY <1>1, <1>3, <2>4, <2>6, SameChange DEF SpreadInv, SpacedOut, Untouched
<1>5. CASE ~coldStart
  <2>1. ModInv(m)'
    BY <1>1, <1>2, StopKeeps
  <2>2. ASSUME NEW n \in Modules \ {m} PROVE LeftAlone(n)
    BY <1>1, SendAlone, SameChange DEF LeftAlone, Starting, Sending
  <2>3. QED
    BY <1>1, <1>3, <1>5, <2>1, <2>2, OneModule
<1>6. QED
  BY <1>4, <1>5

\* A process is handed its configuration.
LEMMA ConfigSpread ==
    ASSUME SpreadInv, DaemonInv, SendConfig
    PROVE  SpreadInv'
<1>m. PICK m \in Modules : m = router.mod
  BY DEF DaemonInv, TypeOK
<1>1. /\ Sending(m) /\ ModInv(m) /\ ~coldStart /\ Sane(procs) /\ Single(procs)
      /\ router.at = "send"
  BY <1>m DEF SendConfig, Sending, SpreadInv, Untouched, Idle, DaemonInv
<1>2. /\ Served(m) /\ router.cfg \in May(m) /\ ~Underway(m) /\ router.cfg \in Commands
      /\ ~Starting(m) /\ May(m) \subseteq Settings
  BY <1>1, ServedMay DEF ModInv, Routed, Calm, Commands, CfgValues, Starting
<1>3. /\ procs' = SendTo(procs, m, router.cfg) /\ router'.at = "idle"
      /\ UNCHANGED <<config, oldConfig, coldStart, cloud, todo, missed>>
      /\ UNCHANGED <<status, enabled, peerConfig, reported, inbox>>
  BY <1>m, <1>2 DEF SendConfig, tables, Idle
<1>4. \A i \in Pids : procs'[i].mod = procs[i].mod /\ procs'[i].at = procs[i].at
  BY <1>1, <1>2, <1>3, SendGives
<1>5. Single(procs') /\ Owners(procs', m) = Owners(procs, m)
  BY <1>1, <1>3, SendAlike, AlikeStands
<1>6. /\ May(m)' = May(m) /\ (Served(m)' <=> Served(m))
      /\ Shown(m)' = Shown(m) /\ ~Underway(m)' /\ Seen(m)' = Seen(m)
      /\ ~Sending(m)' /\ ~Starting(m)'
  BY <1>2, <1>3, SameChange DEF Seen, Sending, Starting
<1>7. \A n \in Modules \ {m} : LeftAlone(n)
  <2> TAKE n \in Modules \ {m}
  <2>1. \A i \in Pids : procs[i].mod = n \/ procs'[i].mod = n => procs'[i] = procs[i]
    BY <1>2, <1>3, SendAlone
  <2>2. ~Sending(n) /\ ~Sending(n)' /\ ~Starting(n) /\ ~Starting(n)'
    BY <1>m, <1>1, <1>3 DEF Sending, Starting
  <2>3. QED
    BY <1>3, <2>1, <2>2, SameChange DEF LeftAlone
<1>8. ModInv(m)'
  <2>1. Tabled(m)'
    BY <1>1, <1>2, <1>3, <1>6 DEF ModInv, Tabled
  <2>2. Leads(inbox[m], Seen(m), Owners(procs, m))'
    BY <1>1, <1>3, <1>5, <1>6 DEF ModInv
  <2>3. OnOk(m)'
    <3>1. ASSUME NEW i \in Pids, procs[i].mod = m
          PROVE  OnTrack(procs'[i], May(m)', status'[m], inbox'[m], Sending(m)')
      <4>1. OnTrack(procs[i], May(m), status[m], inbox[m], Sending(m))
        BY <1>1, <1>2, <3>1 DEF ModInv, OnOk
      <4>2. OnTrack(procs'[i], May(m), status[m], inbox[m], FALSE)
        BY <1>1, <1>2, <1>3, <3>1, <4>1, SentOnTrack
      <4>3. QED
        BY <1>3, <1>6, <4>2 DEF OnTrack
    <3>2. QED
      BY <1>1, <1>2, <1>3, <1>4, <3>1 DEF ModInv, OnOk
  <2>4. Routed(m)'
    BY <1>6 DEF Routed
  <2>5. (m \in missed => Ready(m))'
    BY <1>1, <1>3, <1>4 DEF ModInv, Ready
  <2>6. QED
    BY <1>2, <1>6, <2>1, <2>2, <2>3, <2>4, <2>5 DEF ModInv
<1>9. QED
  BY <1>1, <1>3, <1>5, <1>7, <1>8, OneModule


\* A process is started for a module that is to run and has none.
LEMMA ForkSpread ==
    ASSUME SpreadInv, DaemonInv, NEW m \in Modules, CanFork, procs' = Fork(procs, m),
           \A i \in Pids : procs[i].mod # m, inbox[m] = <<>>, inbox' = inbox,
           IF m \in missed' THEN m \in missed /\ peerConfig[m] \in Settings
           ELSE /\ config[m] \in Settings /\ Shown(m)' = config[m]
                /\ m \in enabled /\ peerConfig[m] = config[m],
           ~Underway(m)', cloud' # "idle" => cloud # "idle",
           status'[m] = "down", UNCHANGED <<enabled, peerConfig, config, reported>>,
           ~Sending(m)', ~Starting(m)'
    PROVE  /\ ModInv(m)' /\ Single(procs')
           /\ \A i \in Pids : procs'[i] = procs[i] \/ (procs[i].mod = "free" /\ procs'[i].mod = m)
<1>1. ModInv(m) /\ Sane(procs) /\ Single(procs)
  BY DEF SpreadInv, DaemonInv
<1>2. PICK i \in Pids : procs[i] = Free /\ procs' = [procs EXCEPT ![i] = NewProc(m)]
  BY ForkTakesFree DEF CanFork
<1>3. /\ procs'[i] = NewProc(m) /\ \A j \in Pids \ {i} : procs'[j] = procs[j]
      /\ procs[i].mod = "free" /\ NewProc(m).mod = m /\ NewProc(m).at = "boot"
      /\ NewProc(m).cmds = <<>>
  BY <1>1, <1>2, FreeSlot, NewSlot DEF Sane
<1>4. Single(procs') /\ Owners(procs', m) = Owners(procs, m)
  <2>1. \A j \in Pids : procs[j].mod # m
    OBVIOUS
  <2>2. /\ Single([procs EXCEPT ![i] = NewProc(m)])
        /\ Owners([procs EXCEPT ![i] = NewProc(m)], m) = Owners(procs, m)
    BY <1>1, <1>2, <2>1, SingleFork
  <2>3. QED
    BY <1>2, <2>2
<1>5. Owners(procs, m) = {} /\ Seen(m) # "up" /\ Seen(m)' # "up"
  <2>1. Owners(procs, m) = {}
    BY DEF Owners
  <2>2. QED
    BY <1>1, <2>1 DEF ModInv, Leads, Seen
<1>6. ModInv(m)'
  <2>1. Tabled(m)'
    BY <1>1, <1>5, EvDaemonAssumption DEF ModInv, Tabled, Seen
  <2>2. Leads(inbox[m], Seen(m), Owners(procs, m))'
    BY <1>4, <1>5 DEF Leads
  <2>3. OnOk(m)'
    <3>1. OnTrack(NewProc(m), May(m)', status'[m], inbox'[m], Sending(m)')
      BY <1>3, HasNothing DEF OnTrack
    <3>2. \A j \in Pids : procs'[j].mod = m <=> j = i
      BY <1>3
    <3>3. QED
      BY <1>3, <3>1, <3>2 DEF OnOk
  <2>4. Routed(m)'
    BY DEF Routed
  <2>5. Served(m)'
    BY DEF Served
  <2>6. (m \in missed => Ready(m))'
    BY DEF Ready
  <2>7. QED
    BY <2>1, <2>2, <2>3, <2>4, <2>5, <2>6 DEF ModInv
<1>7. QED
  BY <1>3, <1>4, <1>6

\* A module that is wanted is in the tables of those that may be started; one whose
\* change is carried out and that is not wanted is in one of them at most.
LEMMA WantedMayStart ==
    ASSUME DaemonInv, NEW m \in Modules, ModInv(m), ~Underway(m), ~coldStart, m \notin missed
    PROVE  m \in enabled /\ peerConfig[m] # "none" <=> config[m] \in Settings
<1>1. config[m] \in Settings => config[m] # "none"
  BY EvDaemonAssumption
<1>2. config \in [Modules -> CfgValues]
  BY NewConfig DEF DaemonInv, TypeOK
<1>3. config[m] \in Settings \/ config[m] \in OffSettings \/ config[m] = "absent"
  BY <1>2 DEF CfgValues
<1>4. QED
  BY <1>1, <1>3 DEF ModInv, Tabled, DaemonInv, OffNotEnabled

\* A module that went down is started again.
LEMMA AgainSpread ==
    ASSUME SpreadInv, DaemonInv, StartAgain
    PROVE  SpreadInv'
<1>m. PICK m \in Modules : m = router.mod
  BY DEF DaemonInv, TypeOK
<1>1. /\ Starting(m) /\ ModInv(m) /\ ~coldStart /\ Sane(procs) /\ Single(procs)
      /\ router.at = "start" /\ ~Sending(m)
  BY <1>m DEF StartAgain, Starting, Sending, SpreadInv, Untouched, Idle, DaemonInv
<1>2. /\ status[m] = "down" /\ inbox[m] = <<>> /\ (\A i \in Pids : procs[i].mod # m)
      /\ ~Underway(m) /\ Shown(m) = config[m]
  BY <1>1 DEF ModInv, Routed, Calm, Shown
<1>3. /\ UNCHANGED <<config, oldConfig, coldStart, cloud, todo, missed>>
      /\ UNCHANGED <<enabled, peerConfig, reported, inbox>>
      /\ router'.at = "idle"
  BY DEF StartAgain, Idle
<1>4. /\ MayStart(m) => IF m \in missed THEN peerConfig[m] \in Settings
                       ELSE config[m] \in Settings /\ m \in enabled /\ peerConfig[m] = config[m]
      /\ ~MayStart(m) => m \in missed \/ config[m] \notin Settings
  <2>1. CASE m \in missed
    BY <1>1, <2>1 DEF MayStart, ModInv, Tabled
  <2>2. CASE m \notin missed
    BY <1>1, <1>2, <2>2, WantedMayStart DEF MayStart, ModInv, Tabled
  <2>3. QED
    BY <2>1, <2>2
<1>5. /\ May(m)' = May(m) /\ (Served(m)' <=> Served(m))
      /\ Shown(m)' = Shown(m) /\ ~Underway(m)' /\ ~Sending(m)' /\ ~Starting(m)'
  BY <1>2, <1>3, SameChange DEF Sending, Starting
<1>6. status' = status
  BY <1>m, <1>2 DEF StartAgain, MarkDown, DaemonInv, TypeOK
<1>7. CASE MayStart(m)
  <2>1. CanFork /\ procs' = Fork(procs, m)
    BY <1>m, <1>7 DEF StartAgain
  <2>2. /\ ModInv(m)' /\ Single(procs')
        /\ \A i \in Pids : procs'[i] = procs[i] \/ (procs[i].mod = "free" /\ procs'[i].mod = m)
    BY <1>2, <1>3, <1>4, <1>5, <1>6, <1>7, <2>1, ForkSpread
  <2>3. \A n \in Modules \ {m} : LeftAlone(n)
    BY <1>m, <1>3, <1>6, <2>2, RouterAlone
  <2>4. QED
    BY <1>1, <1>3, <2>2, <2>3, OneModule
<1>8. CASE ~MayStart(m)
  <2>1. procs' = procs
    BY <1>m, <1>8 DEF StartAgain
  <2>2. \A n \in Modules \ {m} : LeftAlone(n)
    BY <1>m, <1>3, <1>6, <2>1, RouterAlone
  <2>3. (Served(m) => m \in missed') /\ Seen(m)' = Seen(m)
    BY <1>2, <1>3, <1>4, <1>6, <1>8 DEF Seen, Served
  <2>4. ModInv(m)'
    <3>1. Tabled(m)'
      BY <1>1, <1>2, <1>3, <1>5, <1>6 DEF ModInv, Tabled
    <3>2. Leads(inbox[m], Seen(m), Owners(procs, m))'
      BY <1>1, <1>3, <2>1, <2>3 DEF ModInv
    <3>3. OffOk(m)' /\ (m \in missed => OnOk(m))' /\ Ready(m)'
      BY <1>2, <1>3, <2>1 DEF OffOk, OnOk, Ready
    <3>4. Routed(m)'
      BY <1>5 DEF Routed
    <3>5. QED
      BY <1>5, <2>3, <3>1, <3>2, <3>3, <3>4 DEF ModInv
  <2>5. QED
    BY <1>1, <1>3, <2>1, <2>2, <2>4, OneModule
<1>9. QED
  BY <1>7, <1>8

--------------------------------------------------------------------------------
(* What the cloud thread does *)

\* evmgr is never about to be changed.
LEMMA MgrStays ==
    ASSUME SpreadInv, DaemonInv
    PROVE  ~Underway(Mgr)
<1>1. SUFFICES ASSUME Underway(Mgr) PROVE FALSE
  OBVIOUS
<1>2. ~coldStart /\ cloud # "idle" /\ oldConfig[Mgr] # config[Mgr]
  BY <1>1 DEF Underway, SpreadInv, ChangeInv, Changed
<1>3. {config, oldConfig} \subseteq (Configs \cup {InitConfig}) \ {NoConfig}
  BY <1>2 DEF SpreadInv, ChangeInv, DaemonInv, TypeOK
<1>4. QED
  BY <1>2, <1>3 DEF SpreadInv, SpacedOut

\* What a module is while its change is still to be carried out.
LEMMA BeforeOperate ==
    ASSUME SpreadInv, DaemonInv, NEW m \in Modules, Underway(m)
    PROVE  /\ m # Mgr /\ ~Sending(m) /\ ~Starting(m) /\ ModInv(m)
           /\ inbox[m] # <<>> => Head(inbox[m]) # "connect"
           /\ \A i \in Pids : procs[i].mod = m
                => /\ procs[i].at = "running" /\ procs[i].attached /\ procs[i].cmds = <<>>
                   /\ procs[i].cfg \in Settings /\ Served(m)
           /\ (\E i \in Pids : procs[i].mod = m) => Seen(m) = "up" /\ status[m] = "up"
           /\ (\A i \in Pids : procs[i].mod # m)
                => inbox[m] = <<>> /\ Seen(m) # "up" /\ status[m] \in NotRunningStates
<1>1. m # Mgr /\ ModInv(m) /\ Calm(m)
  BY MgrStays DEF SpreadInv, ModInv
<1>2. ASSUME NEW i \in Pids, procs[i].mod = m
      PROVE  /\ procs[i].at = "running" /\ procs[i].attached /\ procs[i].cmds = <<>>
             /\ procs[i].cfg \in Settings /\ Served(m)
  <2>1. procs[i].at = "running" /\ procs[i].attached /\ procs[i].cmds = <<>>
    BY <1>1, <1>2 DEF Calm, DaemonInv, Sane
  <2>2. Served(m)
    BY <1>1, <1>2, <2>1, HasNothing DEF ModInv, OffOk
  <2>3. OnTrack(procs[i], May(m), status[m], inbox[m], Sending(m))
    BY <1>1, <1>2, <2>2 DEF ModInv, OnOk
  <2>4. procs[i].cfg \in May(m)
    BY <2>1, <2>3, HasNothing DEF OnTrack
  <2>5. QED
    BY <2>1, <2>2, <2>4, ServedMay
<1>3. ASSUME NEW i \in Pids, procs[i].mod = m PROVE Seen(m) = "up" /\ status[m] = "up"
  BY <1>1, <1>2, <1>3, SeenUp DEF Calm
<1>4. ASSUME \A i \in Pids : procs[i].mod # m
      PROVE  inbox[m] = <<>> /\ Seen(m) # "up" /\ status[m] \in NotRunningStates
  <2>1. inbox[m] = <<>> /\ Owners(procs, m) = {}
    BY <1>1, <1>4 DEF Calm, Owners
  <2>2. Seen(m) # "up"
    BY <1>1, <2>1 DEF ModInv, Leads
  <2>3. status[m] # "up"
    BY <1>1, <2>2 DEF ModInv, Tabled, Seen
  <2>4. status[m] \in {"absent", "unknown", "down", "up", "disabled", "removed"}
    BY DEF DaemonInv, TypeOK
  <2>5. QED
    BY <2>1, <2>2, <2>3, <2>4 DEF NotRunningStates
<1>5. ASSUME inbox[m] # <<>> PROVE Head(inbox[m]) # "connect"
  <2>1. inbox[m] \in Seq(Kinds)
    BY DEF DaemonInv, TypeOK, Kinds
  <2>2. Seen(m) = "up" /\ Leads(inbox[m], Seen(m), Owners(procs, m))
    BY <1>1, <1>5 DEF ModInv, Calm
  <2>3. QED
    BY <1>5, <2>1, <2>2, HeadRead
<1>6. QED
  BY <1>1, <1>2, <1>3, <1>4, <1>5 DEF Calm

\* Nothing will be done with module m, whose change was still to be carried out.
LEMMA LostSpread ==
    ASSUME SpreadInv, DaemonInv, NEW m \in Modules, Underway(m), ~Underway(m)', m \in missed',
           UNCHANGED <<tables, router, inbox>>, ~coldStart,
           \A i \in Pids : procs[i].mod = m \/ procs'[i].mod = m => procs'[i] = procs[i]
    PROVE  ModInv(m)'
<1>1. /\ m # Mgr /\ ~Sending(m) /\ ~Starting(m) /\ ModInv(m)
      /\ inbox[m] # <<>> => Head(inbox[m]) # "connect"
      /\ \A i \in Pids : procs[i].mod = m
           => /\ procs[i].at = "running" /\ procs[i].attached /\ procs[i].cmds = <<>>
              /\ procs[i].cfg \in Settings
      /\ (\E i \in Pids : procs[i].mod = m) => Seen(m) = "up" /\ status[m] = "up"
      /\ (\A i \in Pids : procs[i].mod # m)
           => inbox[m] = <<>> /\ Seen(m) # "up" /\ status[m] \in NotRunningStates
  BY BeforeOperate
<1>2. /\ UNCHANGED <<status, enabled, peerConfig, config, reported, router, inbox>>
      /\ Seen(m)' = Seen(m) /\ ~Sending(m)' /\ ~Starting(m)'
      /\ Served(m)' /\ May(m)' = Settings /\ cloud # "idle"
  BY <1>1 DEF tables, Seen, Sending, Starting, Served, May, Underway
<1>3. Owners(procs', m) = Owners(procs, m)
  BY DEF Owners
<1>4. Tabled(m)'
  <2>1. status[m] \in {"disabled", "removed"} => Seen(m) # "up" /\ inbox[m] = <<>>
    BY <1>1
  <2>2. QED
    BY <1>1, <1>2, <2>1 DEF ModInv, Tabled
<1>5. Leads(inbox[m], Seen(m), Owners(procs, m))'
  BY <1>1, <1>2, <1>3 DEF ModInv
<1>6. OnOk(m)'
  <2>1. ASSUME NEW i \in Pids, procs'[i].mod = m
        PROVE  OnTrack(procs'[i], May(m)', status'[m], inbox'[m], Sending(m)')
    BY <1>1, <1>2, <2>1, HasNothing DEF OnTrack
  <2>2. QED
    BY <2>1 DEF OnOk
<1>7. Ready(m)'
  BY <1>1, <1>2 DEF Ready
<1>8. Routed(m)'
  BY <1>2 DEF Routed
<1>9. QED
  BY <1>2, <1>4, <1>5, <1>6, <1>7, <1>8 DEF ModInv

\* A change begins.
LEMMA BeginSpread ==
    ASSUME SpreadInv, DaemonInv, BeginChange
    PROVE  SpreadInv'
<1>0. PICK lost \in SUBSET Lumped : todo' = Changed \ lost /\ missed' = missed \cup lost
  BY DEF BeginChange
<1>1. /\ cloud = "start" /\ ~coldStart
      /\ cloud' = IF todo' = {} THEN "idle" ELSE "ops"
      /\ procs' = IF todo' = {} THEN procs ELSE SendTo(procs, Mgr, "STOP")
      /\ UNCHANGED <<tables, router, inbox>>
      /\ UNCHANGED <<status, enabled, peerConfig, config, oldConfig, saved, coldStart, reported>>
  BY DEF BeginChange, tables
<1>2. "STOP" \in Commands /\ Sane(procs) /\ Single(procs) /\ Mgr \in Modules /\ Mgr \notin lost
  BY EvDaemonAssumption DEF Commands, DaemonInv, SpreadInv, Lumped
<1>3. /\ \A n \in Modules \ lost : (Underway(n)' <=> Underway(n)) /\ Shown(n)' = Shown(n)
      /\ \A n \in lost : Underway(n) /\ ~Underway(n)' /\ n \in Modules
  <2>1. \A n \in Modules : n \in Changed <=> oldConfig[n] # config[n]
    BY DEF Changed
  <2>2. \A n \in Modules \ lost : Underway(n)' <=> Underway(n)
    BY <1>0, <1>1, <2>1 DEF Underway
  <2>3. \A n \in lost : Underway(n) /\ ~Underway(n)' /\ n \in Modules
    BY <1>0, <1>1, <2>1 DEF Underway, Lumped, Changed
  <2>4. QED
    BY <1>1, <2>2, <2>3 DEF Shown
<1>4. \A n \in Modules : (Starting(n)' <=> Starting(n)) /\ (Sending(n)' <=> Sending(n))
  BY <1>1 DEF Starting, Sending
<1>5. ChangeInv'
  BY <1>0, <1>1 DEF SpreadInv, ChangeInv, Changed
<1>6. Single(procs')
  BY <1>1, <1>2, SendAlike, AlikeStands
<1>7. ASSUME NEW n \in Modules \ {Mgr}
      PROVE  \A i \in Pids : procs[i].mod = n \/ procs'[i].mod = n => procs'[i] = procs[i]
  BY <1>1, <1>2, SendAlone
<1>8. ASSUME NEW n \in Modules \ {Mgr}, n \notin lost PROVE ModInv(n)'
  <2>1. LeftAlone(n)
    BY <1>0, <1>1, <1>3, <1>4, <1>7, <1>8 DEF LeftAlone
  <2>2. QED
    BY <2>1, AloneKeeps DEF SpreadInv
<1>9. ASSUME NEW n \in lost PROVE ModInv(n)'
  <2>1. n \in Modules \ {Mgr} /\ Underway(n) /\ ~Underway(n)' /\ n \in missed'
    BY <1>0, <1>2, <1>3
  <2>2. \A i \in Pids : procs[i].mod = n \/ procs'[i].mod = n => procs'[i] = procs[i]
    BY <1>7, <2>1
  <2>3. QED
    BY <1>1, <2>1, <2>2, LostSpread
<1>10. ModInv(Mgr)'
  <2>1. CASE todo' = {}
    <3>1. LeftAlone(Mgr)
      BY <1>0, <1>1, <1>2, <1>3, <1>4, <2>1 DEF LeftAlone
    <3>2. QED
      BY <1>2, <3>1, AloneKeeps DEF SpreadInv
  <2>2. CASE todo' # {}
    <3>1. /\ ~Underway(Mgr) /\ ~Underway(Mgr)' /\ Shown(Mgr)' = Shown(Mgr)
          /\ (Mgr \in missed' <=> Mgr \in missed)
      BY <1>0, <1>2, <1>3, MgrStays
    <3>2. QED
      BY <1>1, <1>2, <2>2, <3>1, StopKeeps
  <2>3. QED
    BY <2>1, <2>2
<1>11. \A n \in Modules : ModInv(n)'
  BY <1>8, <1>9, <1>10
<1>12. QED
  BY <1>1, <1>5, <1>6, <1>11 DEF SpreadInv, SpacedOut

\* Which operations there are.
LEMMA WhichOperation ==
    ASSUME SpreadInv, DaemonInv, NEW m \in Modules, Underway(m)
    PROVE  /\ "start" \in Operations(m) <=> config[m] \in Settings
           /\ "stop" \in Operations(m) => config[m] \notin Settings /\ config[m] # "absent"
           /\ "remove" \in Operations(m) => config[m] \notin Settings
<1>1. oldConfig[m] # config[m]
  BY DEF Underway, SpreadInv, ChangeInv, Changed
<1>2. config \in [Modules -> CfgValues] /\ oldConfig \in [Modules -> CfgValues]
  BY NewConfig DEF DaemonInv, TypeOK
<1>3. {config[m], oldConfig[m]} \subseteq Settings \cup OffSettings \cup {"absent"}
  BY <1>2 DEF CfgValues
<1>4. ~(config[m] \in OffSettings /\ oldConfig[m] \in OffSettings)
  BY <1>1 DEF SpreadInv, SpacedOut
<1>5. "absent" \notin Settings
  BY EvDaemonAssumption
<1>6. QED
  BY <1>3, <1>4, <1>5 DEF Operations

\* An operation of a change.
LEMMA OperateSpread ==
    ASSUME SpreadInv, DaemonInv, NEW m \in Modules, Operate(m)
    PROVE  SpreadInv'
<1>1. /\ cloud = "ops" /\ m \in todo /\ todo' = todo \ {m} /\ missed' = missed \ {m}
      /\ cloud' = IF todo = {m} THEN "idle" ELSE "ops"
      /\ UNCHANGED <<enabled, config, oldConfig, saved, coldStart, reported, router, inbox>>
  BY DEF Operate
<1>2. /\ ~coldStart /\ ModInv(m) /\ Sane(procs) /\ Single(procs) /\ todo \subseteq Changed
      /\ "STOP" \in Commands /\ Underway(m)
      /\ DOMAIN status = Modules /\ DOMAIN peerConfig = Modules
  BY <1>1 DEF SpreadInv, ChangeInv, DaemonInv, TypeOK, Commands, Underway
<1>3. /\ \A n \in Modules \ {m} : (Underway(n)' <=> Underway(n)) /\ Shown(n)' = Shown(n)
      /\ ~Underway(m)' /\ Shown(m)' = config[m] /\ m \notin missed'
      /\ May(m)' = {config[m]} /\ (Served(m)' <=> config[m] \in Settings)
  <2>1. \A n \in Modules \ {m} : Underway(n)' <=> Underway(n)
    BY <1>1, <1>2 DEF Underway
  <2>2. ~Underway(m)'
    BY <1>1, <1>2 DEF Underway
  <2>3. QED
    BY <1>1, <1>2, <2>1, <2>2 DEF Shown, May, Served
<1>4. \A n \in Modules : (Starting(n)' <=> Starting(n)) /\ (Sending(n)' <=> Sending(n))
  BY <1>1 DEF Starting, Sending
<1>5. /\ m # Mgr /\ ~Sending(m) /\ ~Starting(m)
      /\ \A i \in Pids : procs[i].mod = m
           => procs[i].at = "running" /\ procs[i].attached /\ procs[i].cmds = <<>>
      /\ (\E i \in Pids : procs[i].mod = m) => Seen(m) = "up" /\ status[m] = "up"
      /\ (\A i \in Pids : procs[i].mod # m)
           => inbox[m] = <<>> /\ Seen(m) # "up" /\ status[m] \in NotRunningStates
      /\ config[m] \in Settings => m \in enabled /\ peerConfig[m] = config[m]
  <2>1. config[m] \in Settings => m \in enabled /\ peerConfig[m] = config[m]
    BY <1>1, <1>2 DEF ModInv, Tabled
  <2>2. QED
    BY <1>2, <2>1, BeforeOperate
<1>6. Seen(m)' = Seen(m)
  BY <1>1, <1>5 DEF Seen
<1>7. ChangeInv'
  BY <1>1, <1>2 DEF SpreadInv, ChangeInv, Changed
<1>8. ASSUME ModInv(m)', Single(procs'),
             \A n \in Modules \ {m} : status'[n] = status[n] /\ peerConfig'[n] = peerConfig[n],
             \A n \in Modules \ {m} : \A i \in Pids :
                 procs[i].mod = n \/ procs'[i].mod = n => procs'[i] = procs[i]
      PROVE  SpreadInv'
  <2>1. \A n \in Modules \ {m} : LeftAlone(n)
    BY <1>1, <1>3, <1>4, <1>8 DEF LeftAlone
  <2>2. \A n \in Modules \ {m} : ModInv(n)'
    BY <2>1, AloneKeeps DEF SpreadInv
  <2>3. QED
    BY <1>1, <1>2, <1>7, <1>8, <2>2 DEF SpreadInv, SpacedOut
<1>9. ASSUME procs' = SendTo(procs, m, "STOP")
      PROVE  /\ Single(procs') /\ Owners(procs', m) = Owners(procs, m)
             /\ \A i \in Pids : procs'[i].mod = procs[i].mod
             /\ \A i \in Pids : procs[i].mod = m
                  => /\ procs'[i].at = "running"
                     /\ \A d : Has(procs'[i].cmds, d) <=> d = "STOP"
             /\ \A n \in Modules \ {m} : \A i \in Pids :
                  procs[i].mod = n \/ procs'[i].mod = n => procs'[i] = procs[i]
  <2>1. Single(procs') /\ Owners(procs', m) = Owners(procs, m)
    BY <1>2, <1>9, SendAlike, AlikeStands
  <2>2. \A i \in Pids : procs'[i].mod = procs[i].mod
    BY <1>2, <1>9, SendGives
  <2>3. ASSUME NEW i \in Pids, procs[i].mod = m
        PROVE  procs'[i].at = "running" /\ \A d : Has(procs'[i].cmds, d) <=> d = "STOP"
    <3>1. procs[i].at = "running" /\ procs[i].attached /\ procs[i].cmds = <<>>
      BY <1>5, <2>3
    <3>2. /\ procs'[i].at = procs[i].at
          /\ \A d : Has(procs'[i].cmds, d) <=> Has(procs[i].cmds, d) \/ d = "STOP"
      BY <1>2, <1>9, <2>3, <3>1, SendGives
    <3>3. QED
      BY <3>1, <3>2, HasNothing
  <2>4. \A n \in Modules \ {m} : \A i \in Pids :
           procs[i].mod = n \/ procs'[i].mod = n => procs'[i] = procs[i]
    BY <1>2, <1>9, SendAlone
  <2>5. QED
    BY <2>1, <2>2, <2>3, <2>4
<1>10. CASE "start" \in Operations(m) /\ StartOrStop(m)
  <2>1. config[m] \in Settings /\ peerConfig' = peerConfig
    BY <1>2, <1>10, WhichOperation DEF StartOrStop
  <2>2. CASE /\ status[m] \in NotRunningStates /\ CanFork /\ MarkDown(m)
             /\ procs' = Fork(procs, m)
    <3>1. (\A i \in Pids : procs[i].mod # m) /\ inbox[m] = <<>>
      BY <1>5, <2>2 DEF NotRunningStates
    <3>2. status'[m] = "down" /\ \A n \in Modules \ {m} : status'[n] = status[n]
      BY <1>2, <2>2 DEF MarkDown
    <3>3. /\ ModInv(m)' /\ Single(procs')
          /\ \A i \in Pids : procs'[i] = procs[i] \/ (procs[i].mod = "free" /\ procs'[i].mod = m)
      BY <1>1, <1>3, <1>4, <1>5, <2>1, <2>2, <3>1, <3>2, ForkSpread
    <3>4. "free" \notin Modules
      BY EvDaemonAssumption
    <3>5. QED
      BY <1>8, <2>1, <3>2, <3>3, <3>4
  <2>3. CASE /\ status[m] \notin NotRunningStates /\ procs' = SendTo(procs, m, "STOP")
             /\ status' = status
    <3>1. (\E i \in Pids : procs[i].mod = m) /\ Seen(m) = "up" /\ status[m] = "up"
      BY <1>5, <2>3
    <3>2. Tabled(m)'
      BY <1>1, <1>2, <1>3, <1>5, <2>1, <2>3, <3>1, EvDaemonAssumption DEF ModInv, Tabled
    <3>3. Leads(inbox[m], Seen(m), Owners(procs, m))'
      BY <1>1, <1>2, <1>6, <1>9, <2>3 DEF ModInv
    <3>4. OnOk(m)'
      <4>1. ASSUME NEW i \in Pids, procs'[i].mod = m
            PROVE  OnTrack(procs'[i], May(m)', status'[m], inbox'[m], Sending(m)')
        BY <1>9, <2>3, <4>1 DEF OnTrack
      <4>2. \E i \in Pids : procs'[i].mod = m
        BY <1>9, <2>3, <3>1
      <4>3. QED
        BY <4>1, <4>2 DEF OnOk
    <3>5. Routed(m)'
      BY <1>4, <1>5 DEF Routed
    <3>6. ModInv(m)'
      BY <1>3, <2>1, <3>2, <3>3, <3>4, <3>5 DEF ModInv
    <3>7. QED
      BY <1>8, <1>9, <2>1, <2>3, <3>6
  <2>4. QED
    BY <1>10, <2>2, <2>3 DEF StartOrStop
<1>11. ASSUME status'[m] \in {"disabled", "removed"}, procs' = SendTo(procs, m, "STOP"),
              config[m] \notin Settings, config[m] = "absent" => peerConfig'[m] = "none",
              peerConfig'[m] \in {peerConfig[m], "none"}
       PROVE  ModInv(m)'
  <2>1. Tabled(m)'
    BY <1>1, <1>2, <1>3, <1>5, <1>11 DEF ModInv, Tabled
  <2>2. Leads(inbox[m], Seen(m), Owners(procs, m))'
    BY <1>1, <1>2, <1>6, <1>9, <1>11 DEF ModInv
  <2>3. OffOk(m)'
    <3>1. \A i \in Pids : procs'[i].mod = m
             => procs'[i].at = "running" /\ Has(procs'[i].cmds, "STOP")
      BY <1>9, <1>11
    <3>2. QED
      BY <1>1, <1>5, <1>6, <3>1 DEF OffOk
  <2>4. Routed(m)'
    BY <1>4, <1>5 DEF Routed
  <2>5. QED
    BY <1>3, <1>11, <2>1, <2>2, <2>3, <2>4 DEF ModInv
<1>12. CASE "stop" \in Operations(m) /\ Disable(m)
  <2>1. /\ status' = [status EXCEPT ![m] = "disabled"] /\ procs' = SendTo(procs, m, "STOP")
        /\ peerConfig' = peerConfig /\ config[m] \notin Settings /\ config[m] # "absent"
    BY <1>2, <1>12, WhichOperation DEF Disable
  <2>2. status'[m] = "disabled" /\ \A n \in Modules \ {m} : status'[n] = status[n]
    BY <1>2, <2>1
  <2>3. QED
    BY <1>8, <1>9, <1>11, <2>1, <2>2
<1>13. CASE "remove" \in Operations(m) /\ Remove(m)
  <2>1. /\ status' = [status EXCEPT ![m] = "removed"] /\ procs' = SendTo(procs, m, "STOP")
        /\ peerConfig' = [peerConfig EXCEPT ![m] = "none"] /\ config[m] \notin Settings
    BY <1>2, <1>13, WhichOperation DEF Remove
  <2>2. /\ status'[m] = "removed" /\ peerConfig'[m] = "none"
        /\ \A n \in Modules \ {m} : status'[n] = status[n] /\ peerConfig'[n] = peerConfig[n]
    BY <1>2, <2>1
  <2>3. QED
    BY <1>8, <1>9, <1>11, <2>1, <2>2
<1>14. QED
  BY <1>10, <1>12, <1>13 DEF Operate


\* What is known when all is quiet.
LEMMA QuietKnown ==
    ASSUME SpreadInv, DaemonInv, Quiet, ~coldStart, NEW m \in Modules
    PROVE  /\ ModInv(m) /\ ~Underway(m) /\ Shown(m) = config[m] /\ inbox[m] = <<>>
           /\ ~Sending(m) /\ ~Starting(m)
           /\ \A i \in Pids : procs[i].mod = m
                => /\ procs[i].at = "running" /\ procs[i].cmds = <<>> /\ procs[i].cfg \in Settings
                   /\ m \in missed \/ (procs[i].cfg = config[m] /\ config[m] \in Settings)
           /\ Seen(m) = "up" <=> \E i \in Pids : procs[i].mod = m
           /\ m \notin missed /\ config[m] \in Settings => \E i \in Pids : procs[i].mod = m
<1>1. /\ ModInv(m) /\ ~Underway(m) /\ Shown(m) = config[m] /\ inbox[m] = <<>>
      /\ ~Sending(m) /\ ~Starting(m)
  BY DEF SpreadInv, Quiet, Underway, Shown, Sending, Starting, Idle
<1>2. ASSUME NEW i \in Pids, procs[i].mod = m
      PROVE  /\ procs[i].at = "running" /\ procs[i].cmds = <<>> /\ procs[i].attached
             /\ procs[i].cfg \in Settings
             /\ m \in missed \/ (procs[i].cfg = config[m] /\ config[m] \in Settings)
  <2>1. procs[i] # Free
    BY <1>2, EvDaemonAssumption, FreeSlot
  <2>2. procs[i].at = "running" /\ procs[i].cmds = <<>> /\ procs[i].attached
    BY <2>1 DEF Quiet, DaemonInv, Sane
  <2>3. ~Has(procs[i].cmds, "STOP")
    BY <2>2, HasNothing
  <2>4. Served(m)
    BY <1>1, <1>2, <2>3 DEF ModInv, OffOk
  <2>5. OnTrack(procs[i], May(m), status[m], inbox[m], Sending(m))
    BY <1>1, <1>2, <2>4 DEF ModInv, OnOk
  <2>6. procs[i].cfg \in May(m)
    BY <2>2, <2>3, <2>5 DEF OnTrack
  <2>7. QED
    BY <1>1, <2>2, <2>4, <2>6 DEF May, Served
<1>3. Seen(m) = "up" <=> \E i \in Pids : procs[i].mod = m
  <2>1. Owners(procs, m) # {} <=> \E i \in Pids : procs[i].mod = m
    BY <1>2 DEF Owners
  <2>2. QED
    BY <1>1, <2>1 DEF ModInv, Leads
<1>4. m \notin missed /\ config[m] \in Settings => \E i \in Pids : procs[i].mod = m
  BY DEF Quiet, IsOn, ProcsOf
<1>5. QED
  BY <1>1, <1>2, <1>3, <1>4

\* What a configuration does to the tables.
LEMMA Reloaded ==
    ASSUME DaemonInv, NEW c \in Configs, NEW m \in Modules,
           status' = ReloadedStatus(c), enabled' = ReloadedEnabled(c),
           peerConfig' = ReloadedConfig(c)
    PROVE  /\ c[m] \in Settings /\ (Readable[c] = Modules \/ (m \in enabled /\ peerConfig[m] = c[m]))
                => m \in enabled' /\ peerConfig'[m] = c[m]
           /\ c[m] = "absent" => peerConfig'[m] = peerConfig[m]
           /\ (m \in enabled => peerConfig[m] \in Settings \cup {"none"})
                => (m \in enabled' => peerConfig'[m] \in Settings \cup {"none"})
           /\ status'[m] = status[m] \/ (status[m] = "absent" /\ status'[m] = "unknown")
<1>1. /\ "absent" \notin Settings /\ Settings \cap OffSettings = {}
      /\ c[m] \in Settings \/ c[m] \in OffSettings \/ c[m] = "absent"
      /\ c[m] \in OffSettings => c[m] # "absent"
      /\ On(c) \subseteq Loaded(c) /\ \A n \in Loaded(c) : c[n] # "absent"
      /\ m \in Loaded(c) /\ c[m] \in Settings => m \in On(c)
      /\ Readable[c] = Modules => Loaded(c) = Present(c)
      /\ m \in Present(c) <=> c[m] # "absent"
  <2>1. c \in Configs \cup {InitConfig, NoConfig}
    OBVIOUS
  <2>2. c \in [Modules -> CfgValues]
    BY <2>1, NewConfig
  <2>3. c[m] \in Settings \/ c[m] \in OffSettings \/ c[m] = "absent"
    BY <2>2 DEF CfgValues
  <2>4. m \in Loaded(c) /\ c[m] \in Settings => m \in On(c)
    BY DEF On, IsOn
  <2>5. m \in Present(c) <=> c[m] # "absent"
    BY DEF Present
  <2>6. QED
    BY <2>1, <2>3, <2>4, <2>5, NewConfig, EvDaemonAssumption
<1>2. /\ m \in enabled' <=> (m \in enabled \/ m \in On(c)) /\ ~(m \in Loaded(c) /\ c[m] \in OffSettings)
      /\ peerConfig'[m] = IF m \in Loaded(c) THEN c[m] ELSE peerConfig[m]
  BY DEF ReloadedEnabled, ReloadedConfig
<1>3. status'[m] = status[m] \/ (status[m] = "absent" /\ status'[m] = "unknown")
  BY DEF ReloadedStatus
<1>4. c[m] \in Settings /\ (Readable[c] = Modules \/ (m \in enabled /\ peerConfig[m] = c[m]))
        => m \in enabled' /\ peerConfig'[m] = c[m]
  <2>1. ASSUME c[m] \in Settings, Readable[c] = Modules \/ (m \in enabled /\ peerConfig[m] = c[m])
        PROVE  m \in enabled' /\ peerConfig'[m] = c[m]
    <3>1. c[m] \notin OffSettings /\ c[m] # "absent"
      BY <1>1, <2>1
    <3>2. CASE m \in Loaded(c)
      BY <1>1, <1>2, <2>1, <3>1, <3>2
    <3>3. CASE m \notin Loaded(c)
      BY <1>1, <1>2, <2>1, <3>1, <3>3
    <3>4. QED
      BY <3>2, <3>3
  <2>2. QED
    BY <2>1
<1>5. c[m] = "absent" => peerConfig'[m] = peerConfig[m]
  BY <1>1, <1>2
<1>6. ASSUME m \in enabled => peerConfig[m] \in Settings \cup {"none"}, m \in enabled'
      PROVE  peerConfig'[m] \in Settings \cup {"none"}
  <2>1. CASE m \in Loaded(c)
    BY <1>1, <1>2, <1>6, <2>1
  <2>2. CASE m \notin Loaded(c)
    BY <1>1, <1>2, <1>6, <2>2
  <2>3. QED
    BY <2>1, <2>2
<1>7. QED
  BY <1>3, <1>4, <1>5, <1>6

\* A configuration comes, and is carried out or given up.
LEMMA TakeSpread ==
    ASSUME SpreadInv, DaemonInv, NEW c \in Configs, RecvConfig(c) \/ FailConfig(c)
    PROVE  SpreadInv'
<1>1. /\ Quiet /\ cloud = "idle" /\ oldConfig' = config /\ config' = c
      /\ c # NoConfig /\ coldStart' = coldStart
      /\ status' = ReloadedStatus(c) /\ enabled' = ReloadedEnabled(c)
      /\ peerConfig' = ReloadedConfig(c)
      /\ reported' = reported /\ router' = router /\ procs' = procs /\ inbox' = inbox
      /\ \/ cloud' = "start" /\ Readable[c] = Modules /\ missed' = missed
         \/ cloud' = "idle" /\ missed' = missed \cup {m \in Modules : config[m] # c[m]}
  BY EvDaemonAssumption DEF RecvConfig, FailConfig, TakeConfig, net, SpreadInv, SpacedOut
<1>2. \A m \in Modules :
         /\ c[m] \in Settings /\ (Readable[c] = Modules \/ (m \in enabled /\ peerConfig[m] = c[m]))
              => m \in enabled' /\ peerConfig'[m] = c[m]
         /\ c[m] = "absent" => peerConfig'[m] = peerConfig[m]
         /\ (m \in enabled => peerConfig[m] \in Settings \cup {"none"})
              => (m \in enabled' => peerConfig'[m] \in Settings \cup {"none"})
         /\ status'[m] = status[m] \/ (status[m] = "absent" /\ status'[m] = "unknown")
  BY <1>1, Reloaded
<1>3. ChangeInv'
  <2>1. coldStart' /\ cloud' = "idle" => \A m \in Modules \ missed' : c[m] = "absent"
    BY <1>1 DEF SpreadInv, ChangeInv
  <2>2. ~coldStart' /\ cloud' # "idle" => oldConfig' # NoConfig
    BY <1>1 DEF SpreadInv, ChangeInv
  <2>3. QED
    BY <1>1, <2>1, <2>2 DEF ChangeInv
<1>4. Single(procs')
  BY <1>1 DEF SpreadInv
<1>5. \A m \in Modules : Seen(m)' = "up" <=> Seen(m) = "up"
  BY <1>1, <1>2 DEF Seen
<1>6. \A m \in Modules : ~Sending(m)' /\ ~Starting(m)'
  BY <1>1 DEF Sending, Starting, Quiet, Idle
<1>7. CASE coldStart
  <2>1. /\ procs = NoProcs /\ router = Idle
        /\ \A m \in Modules : inbox[m] = <<>> /\ status[m] \in {"absent", "unknown"}
        /\ \A m \in Modules \ missed : config[m] = "absent"
    BY <1>1, <1>7 DEF SpreadInv, ChangeInv, Untouched
  <2>2. Untouched'
    BY <1>1, <1>2, <2>1 DEF Untouched
  <2>3. ASSUME NEW m \in Modules PROVE ModInv(m)'
    <3>1. /\ ModInv(m) /\ ~Underway(m) /\ ~Underway(m)' /\ "absent" \notin Settings
          /\ Shown(m)' = "absent" /\ (Served(m)' <=> m \in missed')
      BY <1>1, <1>7, EvDaemonAssumption DEF SpreadInv, Shown, Underway, Served
    <3>2. \A i \in Pids : procs'[i].mod # m
      BY <1>1, <2>1, FreeSlot, EvDaemonAssumption DEF NoProcs
    <3>3. Tabled(m)'
      <4>1. Tabled(m) /\ (m \notin missed' => m \notin missed)
        BY <1>1, <3>1 DEF ModInv
      <4>2. (m \notin missed' \/ cloud' # "idle") /\ c[m] \in Settings
              => m \in enabled' /\ peerConfig'[m] = c[m]
        BY <1>1, <1>2, <2>1, <3>1, <4>1
      <4>3. m \notin missed' /\ c[m] = "absent" => peerConfig'[m] = "none"
        BY <1>1, <1>2, <2>1, <3>1, <4>1 DEF Tabled
      <4>4. m \in enabled' => peerConfig'[m] \in Settings \cup {"none"}
        BY <1>2, <4>1 DEF Tabled
      <4>5. /\ status'[m] \notin {"disabled", "removed", "up"} /\ status[m] # "up"
            /\ status[m] \notin {"disabled", "removed"}
        BY <1>2, <2>1
      <4>6. QED
        BY <1>1, <4>1, <4>2, <4>3, <4>4, <4>5 DEF Tabled
    <3>4. Leads(inbox[m], Seen(m), Owners(procs, m))'
      BY <1>1, <1>5, <3>1 DEF ModInv, Leads
    <3>5. OffOk(m)' /\ (m \in missed => OnOk(m))' /\ Ready(m)'
      BY <1>1, <2>1, <3>2 DEF OffOk, OnOk, Ready
    <3>6. Routed(m)'
      BY <1>6 DEF Routed
    <3>7. QED
      BY <3>1, <3>3, <3>4, <3>5, <3>6 DEF ModInv
  <2>4. QED
    BY <1>3, <1>4, <2>2, <2>3 DEF SpreadInv, SpacedOut
<1>8. CASE ~coldStart
  <2>1. ASSUME NEW m \in Modules PROVE ModInv(m)'
    <3>1. /\ ModInv(m) /\ ~Underway(m) /\ Shown(m) = config[m] /\ inbox[m] = <<>>
          /\ ~Sending(m) /\ ~Starting(m)
          /\ \A i \in Pids : procs[i].mod = m
               => /\ procs[i].at = "running" /\ procs[i].cmds = <<>> /\ procs[i].cfg \in Settings
                  /\ m \in missed \/ (procs[i].cfg = config[m] /\ config[m] \in Settings)
          /\ Seen(m) = "up" <=> \E i \in Pids : procs[i].mod = m
          /\ m \notin missed /\ config[m] \in Settings => \E i \in Pids : procs[i].mod = m
      BY <1>1, <1>8, QuietKnown
    <3>2. /\ Underway(m)' <=> cloud' = "start" /\ c[m] # config[m]
          /\ m \notin missed' => m \notin missed /\ Shown(m)' = config[m]
          /\ m \notin missed' /\ ~Underway(m)' => c[m] = config[m]
      BY <1>1, <1>8 DEF Underway, Shown
    <3>3. Tabled(m)'
      <4>1. Tabled(m)
        BY <3>1 DEF ModInv
      <4>2. (m \notin missed' \/ cloud' # "idle") /\ c[m] \in Settings
              => m \in enabled' /\ peerConfig'[m] = c[m]
        BY <1>1, <1>2, <3>2, <4>1 DEF Tabled
      <4>3. m \notin missed' /\ c[m] = "absent" /\ ~Underway(m)' => peerConfig'[m] = "none"
        BY <1>2, <3>1, <3>2, <4>1 DEF Tabled
      <4>4. m \in enabled' => peerConfig'[m] \in Settings \cup {"none"}
        BY <1>2, <4>1 DEF Tabled
      <4>5. status'[m] \in {"disabled", "removed"}
              => /\ m # Mgr
                 /\ IF m \in missed' THEN Seen(m)' # "up" /\ inbox'[m] = <<>>
                                     ELSE Shown(m)' \notin Settings
        <5>1. ASSUME status'[m] \in {"disabled", "removed"}
              PROVE  /\ m # Mgr /\ Seen(m)' # "up" /\ inbox'[m] = <<>>
                     /\ m \notin missed' => Shown(m)' \notin Settings
          <6>1. status[m] \in {"disabled", "removed"}
            BY <1>2, <5>1
          <6>2. /\ m # Mgr
                /\ m \in missed => Seen(m) # "up"
                /\ m \notin missed => config[m] \notin Settings
            BY <3>1, <4>1, <6>1 DEF Tabled
          <6>3. Seen(m) # "up"
            BY <3>1, <6>2
          <6>4. QED
            BY <1>1, <1>5, <3>1, <3>2, <6>2, <6>3
        <5>2. QED
          BY <5>1
      <4>6. m = Mgr \/ status'[m] \in {"disabled", "removed"}
              \/ (status'[m] = "up" <=> reported'[m] = "recover")
        BY <1>1, <1>2, <4>1 DEF Tabled
      <4>7. QED
        BY <1>1, <4>2, <4>3, <4>4, <4>5, <4>6 DEF Tabled
    <3>4. Leads(inbox[m], Seen(m), Owners(procs, m))'
      BY <1>1, <1>5, <3>1 DEF ModInv, Leads
    <3>5. (Served(m) => OnOk(m))'
      <4> SUFFICES ASSUME Served(m)' PROVE OnOk(m)'
        OBVIOUS
      <4>1. ASSUME NEW i \in Pids, procs[i].mod = m
            PROVE  OnTrack(procs'[i], May(m)', status'[m], inbox'[m], Sending(m)')
        <5>1. procs[i].cfg \in May(m)'
          BY <3>1, <3>2, <4>1 DEF May
        <5>2. QED
          BY <1>1, <3>1, <4>1, <5>1, HasNothing DEF OnTrack
      <4>2. QED
        BY <1>1, <3>1, <3>2, <4>1 DEF OnOk, Served
    <3>6. (~Served(m) => OffOk(m))'
      BY <1>1, <3>1, <3>2 DEF OffOk, Served
    <3>7. Calm(m)' /\ Ready(m)'
      BY <1>1, <1>5, <1>6, <3>1, <3>2 DEF Calm, Ready
    <3>8. Routed(m)'
      BY <1>6 DEF Routed
    <3>9. QED
      BY <3>3, <3>4, <3>5, <3>6, <3>7, <3>8 DEF ModInv
  <2>2. QED
    BY <1>1, <1>3, <1>4, <1>8, <2>1 DEF SpreadInv, SpacedOut
<1>9. QED
  BY <1>7, <1>8

--------------------------------------------------------------------------------
(* Where everything is started at once *)

\* Every module of a start gets a process where there is room for all.
LEMMA EachStarted ==
    ASSUME SpacedOut, NEW ms \in SUBSET Modules, NEW m \in ms
    PROVE  \E i \in Pids : ForkAll(NoProcs, ms)[i].mod = m
<1> DEFINE Fits(f) == /\ \A a \in ms : NoProcs[f[a]] = Free
                      /\ \A a, b \in ms : f[a] = f[b] => a = b
           slot == CHOOSE f \in [ms -> Pids] : Fits(f)
           New(i) == CHOOSE a \in ms : slot[a] = i
           qs == [i \in Pids |-> IF \E a \in ms : slot[a] = i THEN NewProc(New(i)) ELSE NoProcs[i]]
<1>1. ForkAll(NoProcs, ms) = qs
  BY DEF ForkAll
<1>2. \E f \in [ms -> Pids] : Fits(f)
  <2>1. PICK g \in [Modules -> Pids] : \A a, b \in Modules : g[a] = g[b] => a = b
    BY DEF SpacedOut
  <2> DEFINE f == [a \in ms |-> g[a]]
  <2>2. f \in [ms -> Pids]
    BY <2>1
  <2>3. \A a \in ms : NoProcs[f[a]] = Free
    BY <2>1 DEF NoProcs
  <2>4. \A a, b \in ms : f[a] = f[b] => a = b
    BY <2>1
  <2>5. QED
    BY <2>2, <2>3, <2>4
<1>3. slot \in [ms -> Pids] /\ Fits(slot)
  <2> HIDE DEF Fits
  <2>1. QED
    BY <1>2
<1> HIDE DEF slot
<1>4. slot[m] \in Pids /\ New(slot[m]) = m
  BY <1>3
<1>5. qs[slot[m]] = NewProc(m)
  <2> HIDE DEF New
  <2>1. QED
    BY <1>4
<1> HIDE DEF qs
<1>6. NewProc(m).mod = m
  BY NewSlot
<1>7. QED
  BY <1>1, <1>4, <1>5, <1>6

\* Everything in ms has just been started, and nothing else ever was; unless nothing was
\* done with a module, it is one of these exactly when it is to run.
Began(ms) ==
    /\ procs = ForkAll(NoProcs, ms)
    /\ coldStart => ms = {}
    /\ \A m \in Modules :
          /\ inbox[m] = <<>> /\ (m = Mgr \/ reported[m] # "recover")
          /\ IF m \in ms THEN status[m] = "down" /\ peerConfig[m] \in Settings
                         ELSE status[m] \in {"absent", "unknown"}
          /\ m \in enabled => peerConfig[m] \in Settings \cup {"none"}
          /\ m \notin missed => /\ m \in ms <=> config[m] \in Settings
                                /\ m \in ms => m \in enabled /\ peerConfig[m] = config[m]
                                /\ config[m] = "absent" => peerConfig[m] = "none"

JustStarted ==
    /\ router = Idle /\ cloud = "idle" /\ (coldStart <=> config = NoConfig)
    /\ \E ms \in SUBSET Modules : Began(ms)

\* What holds once a daemon has started, for the first time or again.
LEMMA StartSpread == SpacedOut /\ DaemonInv /\ JustStarted => SpreadInv
<1> SUFFICES ASSUME SpacedOut, DaemonInv, JustStarted PROVE SpreadInv
  OBVIOUS
<1>m. PICK ms \in SUBSET Modules : Began(ms)
  BY DEF JustStarted
<1>2. /\ Single(procs) /\ \A m \in Modules : Owners(procs, m) = {}
      /\ \A i \in Pids : procs[i].at = "boot" => procs[i].mod \in ms
  BY <1>m, SingleStart DEF Began
<1>3. \A m \in ms : \E i \in Pids : procs[i].mod = m
  BY <1>m, EachStarted DEF Began
<1>4. \A i \in Pids : procs[i].mod \in Modules
         => procs[i].at = "boot" /\ procs[i].mod \in ms /\ procs[i].cmds = <<>>
  <2> TAKE i \in Pids
  <2> HAVE procs[i].mod \in Modules
  <2>1. ~procs[i].attached
    BY <1>2 DEF Owners
  <2>2. procs[i].at = "boot" /\ procs[i].cmds = <<>>
    BY <1>2, <2>1 DEF Single, DaemonInv, Sane
  <2>3. QED
    BY <1>2, <2>2
<1>5. ChangeInv
  BY DEF JustStarted, ChangeInv, NoConfig
<1>6. ASSUME coldStart PROVE Untouched
  <2>1. procs = NoProcs
    BY <1>m, <1>6 DEF Began, ForkAll, NoProcs
  <2>2. \A m \in Modules : inbox[m] = <<>> /\ status[m] \in {"absent", "unknown"}
    BY <1>m, <1>6 DEF Began
  <2>3. QED
    BY <2>1, <2>2 DEF JustStarted, Untouched
<1>7. ASSUME NEW m \in Modules PROVE ModInv(m)
  <2>1. ~Underway(m) /\ ~Sending(m) /\ ~Starting(m) /\ inbox[m] = <<>> /\ Shown(m) = config[m]
    BY <1>m DEF Began, JustStarted, Underway, Sending, Starting, Idle, Shown, NoConfig
  <2>2. /\ Seen(m) # "up" /\ status[m] \in {"down", "absent", "unknown"}
        /\ m = Mgr \/ reported[m] # "recover"
    BY <1>m DEF Began, Seen
  <2>3. Tabled(m)
    <3>1. m \notin missed /\ config[m] \in Settings => m \in enabled /\ peerConfig[m] = config[m]
      BY <1>m DEF Began
    <3>2. m \notin missed /\ config[m] = "absent" => peerConfig[m] = "none"
      BY <1>m DEF Began
    <3>3. m \in enabled => peerConfig[m] \in Settings \cup {"none"}
      BY <1>m DEF Began
    <3>4. QED
      BY <2>2, <3>1, <3>2, <3>3 DEF Tabled, JustStarted
  <2>4. Leads(inbox[m], Seen(m), Owners(procs, m))
    BY <1>2, <2>1, <2>2 DEF Leads
  <2>5. \A i \in Pids : procs[i].mod = m
          => /\ procs[i].at = "boot" /\ procs[i].cmds = <<>>
             /\ m \in ms /\ status[m] = "down" /\ peerConfig[m] \in Settings
    BY <1>m, <1>4 DEF Began
  <2>6. m \notin missed => (m \in ms <=> config[m] \in Settings)
    BY <1>m DEF Began
  <2>7. ASSUME Served(m) PROVE OnOk(m)
    <3>1. m \notin missed => \E i \in Pids : procs[i].mod = m
      BY <1>3, <2>1, <2>6, <2>7 DEF Served
    <3>2. ASSUME NEW i \in Pids, procs[i].mod = m
          PROVE  OnTrack(procs[i], May(m), status[m], inbox[m], Sending(m))
      BY <2>1, <2>5, <3>2, HasNothing DEF OnTrack
    <3>3. QED
      BY <3>1, <3>2 DEF OnOk
  <2>8. ASSUME ~Served(m) PROVE OffOk(m)
    BY <2>1, <2>5, <2>6, <2>8 DEF OffOk, Served
  <2>9. Routed(m) /\ Ready(m)
    BY <2>1, <2>5 DEF Routed, Ready
  <2>10. QED
    BY <2>1, <2>3, <2>4, <2>7, <2>8, <2>9 DEF ModInv
<1>8. QED
  BY <1>2, <1>5, <1>6, <1>7 DEF SpreadInv

\* ... and so it is after a step that starts everything.
LEMMA StartSpreadNext == SpacedOut' /\ DaemonInv' /\ JustStarted' => SpreadInv'
BY StartSpread, PTL

\* What is enabled is started, of what can be loaded.
LEMMA BootBegan ==
    ASSUME NEW c \in Configs \cup {InitConfig, NoConfig}, NEW m \in Modules
    PROVE  /\ IF m \in On(c) THEN BootStatus(c)[m] = "down" /\ BootConfig(c)[m] \in Settings
                             ELSE BootStatus(c)[m] \in {"absent", "unknown"}
           /\ m \notin Present(c) \ Loaded(c)
                => /\ m \in On(c) <=> c[m] \in Settings
                   /\ m \in On(c) => BootConfig(c)[m] = c[m]
                   /\ c[m] = "absent" => BootConfig(c)[m] = "none"
<1>1. "absent" \notin Settings
  BY EvDaemonAssumption
<1>2. m \in On(c) <=> m \in Loaded(c) /\ c[m] \in Settings
  BY DEF On, IsOn
<1>3. m \in Present(c) <=> c[m] # "absent"
  BY DEF Present
<1>4. m \in Loaded(c) => c[m] # "absent"
  BY NewConfig
<1>5. QED
  BY <1>1, <1>2, <1>3, <1>4 DEF BootStatus, BootConfig

LEMMA NoConfigOff == On(NoConfig) = {}
<1>1. \A m \in On(NoConfig) : m \in Modules /\ NoConfig[m] \in Settings
  BY NewConfig DEF On, IsOn
<1>2. \A m \in Modules : NoConfig[m] = "absent"
  BY DEF NoConfig
<1>3. QED
  BY <1>1, <1>2, EvDaemonAssumption

\* While the configurations are spaced out: at the first start,
LEMMA InitSpread == SpacedOut /\ Init => SpreadInv
<1> SUFFICES ASSUME SpacedOut, Init PROVE SpreadInv
  OBVIOUS
<1>1. /\ InitConfig \in Configs \cup {InitConfig, NoConfig} /\ On(InitConfig) \in SUBSET Modules
      /\ Present(InitConfig) \ Loaded(InitConfig) = {}
  BY NewConfig, EvDaemonAssumption
<1>2. coldStart => On(InitConfig) = {}
  BY NoConfigOff DEF Init
<1>3. \A m \in Modules :
         /\ IF m \in On(InitConfig) THEN status[m] = "down" /\ peerConfig[m] \in Settings
                                    ELSE status[m] \in {"absent", "unknown"}
         /\ m \in On(InitConfig) <=> config[m] \in Settings
         /\ m \in On(InitConfig) => peerConfig[m] = config[m]
         /\ config[m] = "absent" => peerConfig[m] = "none"
  BY <1>1, BootBegan DEF Init
<1>4. Began(On(InitConfig))
  BY <1>2, <1>3 DEF Init, Began
<1>5. JustStarted
  BY <1>1, <1>4 DEF Init, JustStarted
<1>6. QED
  BY <1>5, DaemonInit, StartSpread

\* The daemon starts again.
LEMMA RebootSpread ==
    ASSUME SpacedOut, DaemonInv', NEW c \in Configs \cup {InitConfig, NoConfig}, Reboot(c)
    PROVE  SpreadInv'
<1>1. /\ status' = BootStatus(c) /\ enabled' = On(c) /\ peerConfig' = BootConfig(c)
      /\ config' = c /\ (coldStart' <=> c = NoConfig) /\ procs' = ForkAll(NoProcs, On(c))
      /\ router' = Idle /\ cloud' = "idle" /\ missed' = Present(c) \ Loaded(c)
      /\ \A m \in Modules : inbox'[m] = <<>> /\ reported'[m] # "recover"
  BY DEF Reboot
<1>2. \A m \in Modules :
         /\ IF m \in On(c) THEN status'[m] = "down" /\ peerConfig'[m] \in Settings
                           ELSE status'[m] \in {"absent", "unknown"}
         /\ m \notin missed' => /\ m \in On(c) <=> config'[m] \in Settings
                                /\ m \in On(c) => peerConfig'[m] = config'[m]
                                /\ config'[m] = "absent" => peerConfig'[m] = "none"
  BY <1>1, BootBegan
<1>3. coldStart' => On(c) = {}
  BY <1>1, NoConfigOff
<1>4. PICK ms \in SUBSET Modules : ms = On(c)
  BY NewConfig
<1>5. Began(ms)'
  BY <1>1, <1>2, <1>3, <1>4 DEF Began
<1>6. JustStarted'
  BY <1>1, <1>5 DEF JustStarted, Idle
<1>7. SpacedOut'
  BY DEF SpacedOut
<1>8. QED
  BY <1>6, <1>7, StartSpreadNext

\* Everything is started for the first time.
LEMMA ColdSpread ==
    ASSUME SpreadInv, DaemonInv, DaemonInv', ColdStart
    PROVE  SpreadInv'
<1>m. PICK ms \in SUBSET Modules : ms = ToColdStart(status, enabled, peerConfig)
  BY DEF ToColdStart
<1>1. /\ cloud = "start" /\ coldStart
      /\ status' = [m \in Modules |-> IF m \in ms THEN "down" ELSE status[m]]
      /\ procs' = ForkAll(procs, ms) /\ ~coldStart' /\ cloud' = "idle"
      /\ missed' = {m \in missed : config[m] = "absent"}
      /\ UNCHANGED <<enabled, peerConfig, config, oldConfig, saved, reported, router, todo, inbox>>
  BY <1>m DEF ColdStart
<1>2. /\ procs = NoProcs /\ router = Idle /\ config # NoConfig /\ missed \subseteq Modules
      /\ \A m \in Modules : inbox[m] = <<>> /\ status[m] \in {"absent", "unknown"} /\ ModInv(m)
      /\ \A m \in Modules : config[m] \in Settings \/ config[m] \in OffSettings \/ config[m] = "absent"
  <2>1. config \in [Modules -> CfgValues]
    BY NewConfig DEF DaemonInv, TypeOK
  <2>2. QED
    BY <1>1, <2>1 DEF SpreadInv, ChangeInv, Untouched, DaemonInv, TypeOK, CfgValues
<1>3. \A m \in Modules :
         /\ config[m] \in Settings => m \in enabled /\ peerConfig[m] = config[m]
         /\ m \notin missed /\ config[m] = "absent" => peerConfig[m] = "none"
         /\ m \in enabled => peerConfig[m] \in Settings \cup {"none"}
         /\ m = Mgr \/ reported[m] # "recover"
         /\ config[m] \in OffSettings => m \notin enabled
  <2>1. \A m \in Modules : Tabled(m) /\ ~Underway(m)
    BY <1>1, <1>2 DEF ModInv, Underway
  <2>2. QED
    BY <1>1, <1>2, <2>1 DEF Tabled, DaemonInv, OffNotEnabled
<1>4. \A m \in Modules : m \in ms <=> peerConfig[m] # "none" /\ m \in enabled
  BY <1>m, <1>2 DEF ToColdStart
<1>5. \A m \in Modules :
         /\ m \in ms => peerConfig[m] \in Settings
         /\ m \notin missed' => (m \in ms <=> config[m] \in Settings)
         /\ m \notin missed' /\ config[m] = "absent" => peerConfig[m] = "none"
  <2> TAKE m \in Modules
  <2>1. m \in ms => peerConfig[m] \in Settings
    BY <1>3, <1>4
  <2>2. config[m] \in Settings => m \in ms
    BY <1>3, <1>4, EvDaemonAssumption
  <2>3. m \notin missed' /\ config[m] = "absent" => peerConfig[m] = "none"
    BY <1>1, <1>3
  <2>4. m \notin missed' /\ m \in ms => config[m] \in Settings
    BY <1>2, <1>3, <1>4, <2>3
  <2>5. QED
    BY <2>1, <2>2, <2>3, <2>4
<1>6. Began(ms)'
  <2>1. procs' = ForkAll(NoProcs, ms)
    BY <1>1, <1>2
  <2>2. \A m \in Modules : IF m \in ms THEN status'[m] = "down" ELSE status'[m] = status[m]
    BY <1>1
  <2>3. \A m \in Modules : m \notin missed' /\ m \in ms => peerConfig[m] = config[m] /\ m \in enabled
    BY <1>3, <1>5
  <2>4. QED
    BY <1>1, <1>2, <1>3, <1>5, <2>1, <2>2, <2>3 DEF Began
<1>7. JustStarted'
  BY <1>1, <1>2, <1>6 DEF JustStarted, Idle
<1>8. SpacedOut'
  BY DEF SpreadInv, SpacedOut
<1>9. QED
  BY <1>7, <1>8, StartSpreadNext

\* over every step,
LEMMA SpreadStep == DaemonInv /\ SpreadInv /\ [Next]_vars => SpreadInv'
<1> SUFFICES ASSUME DaemonInv, SpreadInv, [Next]_vars PROVE SpreadInv'
  OBVIOUS
<1>1. DaemonInv' /\ SpacedOut
  BY DaemonStep DEF SpreadInv
<1>2. CASE UNCHANGED vars
  <2>1. /\ UNCHANGED <<config, oldConfig, coldStart, cloud, todo, missed>>
        /\ UNCHANGED <<status, enabled, peerConfig, reported, router, procs, inbox>>
    BY <1>2 DEF vars
  <2>2. \A n \in Modules : LeftAlone(n)
    BY <2>1, SameChange DEF LeftAlone, Starting, Sending
  <2>3. \A n \in Modules : ModInv(n)'
    BY <2>2, AloneKeeps DEF SpreadInv
  <2>4. QED
    BY <2>1, <2>3, SameChange DEF SpreadInv, SpacedOut, Untouched
<1>3. CASE \E m \in Modules : ReadInbox(m)
  BY <1>3, UpSpread, DownSpread, RelaySpread DEF ReadInbox
<1>4. CASE RouterStep
  BY <1>4, ConfigSpread, AgainSpread DEF RouterStep
<1>5. CASE CloudStep
  BY <1>1, <1>5, ColdSpread, BeginSpread, OperateSpread DEF CloudStep
<1>6. ASSUME NEW i \in Pids, ProcStep(i) \/ Crash(i) \/ Report(i) PROVE SpreadInv'
  <2>1. Crash(i) => cloud = "idle"
    BY DEF Crash, SpreadInv, SpacedOut
  <2>2. QED
    BY <1>6, <2>1, ProcessSpread
<1>7. CASE \E c \in Configs : RecvConfig(c) \/ FailConfig(c)
  BY <1>7, TakeSpread
<1>8. CASE \E m \in Modules : RelayCmd(m)
  BY <1>8, CommandSpread
<1>9. CASE DaemonCrash \/ RejectConfig
  BY <1>1, <1>9, RebootSpread DEF DaemonCrash, RejectConfig, DaemonInv, TypeOK
<1>10. QED
  BY <1>2, <1>3, <1>4, <1>5, <1>6, <1>7, <1>8, <1>9 DEF Next

\* and so always.
LEMMA SpreadAlways == SpacedOut /\ Spec => []SpreadInv
BY InitSpread, SpreadStep, DaemonAlways, PTL DEF Spec

\* When nothing is left to do after a change of the configuration, each enabled module
\* has exactly one process, running the newest settings, no other module has any, and the
\* cloud was last told so, except modules whose last change was never carried out (their
\* configuration was not loaded or saved, or its path is not read), which have at most one
\* process, that runs: for any modules and any number of configurations, crashes of
\* processes and crashes of the daemon, while the configurations are spaced out.
THEOREM RestIsRight == SpacedOut /\ Spec => []RestIsAsConfigured
<1>1. DaemonInv /\ SpreadInv => RestIsAsConfigured
  <2> SUFFICES ASSUME DaemonInv, SpreadInv, AtRest, NEW m \in Modules
               PROVE  /\ m \notin missed =>
                            IF IsOn(config, m)
                            THEN ProcsOf(m) # {} /\ \A i \in ProcsOf(m) : procs[i].cfg = config[m]
                            ELSE ProcsOf(m) = {}
                      /\ Cardinality(ProcsOf(m)) <= 1
                      /\ \A i \in ProcsOf(m) : procs[i].at = "running"
                      /\ m # Mgr => (reported[m] = "recover" <=> ProcsOf(m) # {})
    BY DEF RestIsAsConfigured
  <2>1. /\ ModInv(m) /\ ~Underway(m) /\ ~Sending(m) /\ ~Starting(m) /\ inbox[m] = <<>>
        /\ m \notin missed => Shown(m) = config[m]
    BY DEF AtRest, SpreadInv, ChangeInv, Underway, Sending, Starting, Idle, Shown
  <2>2. ASSUME NEW i \in Pids, procs[i].mod = m
        PROVE  /\ procs[i].attached /\ procs[i].at = "running"
               /\ m \notin missed => config[m] \in Settings /\ procs[i].cfg = config[m]
               /\ \A j \in Pids : procs[j].mod = m => j = i
    <3>1. procs[i].at # "boot" /\ procs[i].cmds = <<>> /\ procs[i] # Free
      BY <2>2, EvDaemonAssumption, FreeSlot DEF AtRest
    <3>2. /\ procs[i].attached /\ procs[i].at \in {"waiting", "running"}
          /\ \A j \in Pids : procs[j].mod = m => j = i
      BY <2>2, <3>1, AliveSpread DEF Stages
    <3>3. Served(m)
      BY <2>1, <2>2, <3>1, HasNothing DEF ModInv, OffOk
    <3>4. OnTrack(procs[i], May(m), status[m], inbox[m], Sending(m))
      BY <2>1, <2>2, <3>3 DEF ModInv, OnOk
    <3>5. procs[i].at = "running" /\ procs[i].cfg \in May(m)
      BY <2>1, <3>1, <3>2, <3>4, HasNothing DEF OnTrack
    <3>6. QED
      BY <2>1, <3>2, <3>3, <3>5 DEF May, Served
  <2>3. m \notin missed /\ config[m] \in Settings => \E i \in Pids : procs[i].mod = m
    BY <2>1 DEF ModInv, OnOk, Served
  <2>4. Owners(procs, m) = ProcsOf(m)
    BY <2>2 DEF Owners, ProcsOf
  <2>5. Seen(m) = "up" <=> ProcsOf(m) # {}
    BY <2>1, <2>4 DEF ModInv, Leads
  <2>6. m # Mgr => (reported[m] = "recover" <=> ProcsOf(m) # {})
    BY <2>5 DEF Seen
  <2>7. m \notin missed =>
           IF IsOn(config, m)
           THEN ProcsOf(m) # {} /\ \A i \in ProcsOf(m) : procs[i].cfg = config[m]
           ELSE ProcsOf(m) = {}
    BY <2>2, <2>3 DEF IsOn, ProcsOf
  <2>8. Cardinality(ProcsOf(m)) <= 1
    <3>1. CASE ProcsOf(m) = {}
      BY <3>1, FS_EmptySet
    <3>2. CASE ProcsOf(m) # {}
      <4>1. PICK i \in Pids : ProcsOf(m) = {i}
        BY <2>2, <3>2 DEF ProcsOf
      <4>2. Cardinality(ProcsOf(m)) = 1
        BY <4>1, FS_Singleton
      <4>3. QED
        BY <4>2
    <3>3. QED
      BY <3>1, <3>2
  <2>9. QED
    BY <2>2, <2>6, <2>7, <2>8 DEF ProcsOf
<1>2. QED
  BY <1>1, SpreadAlways, DaemonAlways, PTL

\* Once a configuration has been carried out, no crash, stale notification or late report
\* makes the daemon start a module that it disables or does not have, unless nothing was
\* done with the module when that was changed, while the configurations are spaced out.
THEOREM ForksAreWanted == SpacedOut /\ Spec => ForkOnlyWanted
<1>1. ASSUME DaemonInv, SpreadInv, Next, NEW m \in Modules, Forked(m),
             cloud = "idle", cloud' = "idle"
      PROVE  IsOn(config', m) \/ m \in missed
  <2>1. PICK i \in Pids : procs[i] = Free /\ procs'[i] = NewProc(m)
    BY <1>1 DEF Forked
  <2>2. /\ \A n \in Modules : NewProc(n).mod = n /\ NewProc(n) # Free
        /\ Sane(procs) /\ TypeOK
    BY <1>1, NewSlot DEF DaemonInv
  <2>3. procs'[i] # Free
    BY <2>1, <2>2
  <2>4. CASE \E n \in Modules : ReadInbox(n)
    BY <2>1, <2>3, <2>4 DEF ReadInbox, NotifyUp, NotifyDown, RelayReport
  <2>5. CASE SendConfig
    BY <2>1, <2>2, <2>3, <2>5, SendKeeps DEF SendConfig, TypeOK
  <2>6. CASE StartAgain
    <3>1. procs'[i] = NewProc(router.mod) /\ MayStart(router.mod) /\ router.mod \in Modules
      BY <2>1, <2>2, <2>3, <2>6, ForkKeeps DEF StartAgain, TypeOK
    <3>2. m = router.mod
      BY <2>1, <2>2, <3>1
    <3>3. ~coldStart
      BY <1>1, <2>6 DEF StartAgain, SpreadInv, Untouched, Idle
    <3>4. ModInv(m) /\ ~Underway(m)
      BY <1>1 DEF SpreadInv, Underway
    <3>5. m \notin missed => config[m] \in Settings
      BY <1>1, <3>1, <3>2, <3>3, <3>4, WantedMayStart DEF MayStart
    <3>6. QED
      BY <2>6, <3>5 DEF StartAgain, IsOn
  <2>7. CASE ColdStart \/ BeginChange
    BY <1>1, <2>7 DEF ColdStart, BeginChange
  <2>8. CASE \E n \in Modules : RelayCmd(n)
    <3>1. "STOP" \in Commands
      BY DEF Commands
    <3>2. QED
      BY <2>1, <2>2, <2>3, <2>8, <3>1, SendKeeps DEF RelayCmd
  <2>9. CASE \E n \in Modules : Operate(n)
    BY <1>1, <2>9 DEF Operate
  <2>10. CASE \E k \in Pids : ProcStep(k) \/ Crash(k) \/ Report(k)
    <3>1. PICK k \in Pids : ProcStep(k) \/ Crash(k) \/ Report(k)
      BY <2>10
    <3>2. procs[k] # Free
      BY <3>1, FreeSlot DEF ProcStep, Boot, Receive, Crash, Report
    <3>3. procs'[i] = procs[i]
      BY <2>1, <2>2, <3>1, <3>2 DEF ProcStep, Boot, Receive, Crash, Report, Exit, Sane
    <3>4. QED
      BY <2>1, <2>3, <3>3
  <2>11. CASE \E c \in Configs : RecvConfig(c) \/ FailConfig(c)
    BY <2>1, <2>3, <2>11 DEF RecvConfig, FailConfig, TakeConfig, net
  <2>12. CASE DaemonCrash \/ RejectConfig
    <3>1. PICK c \in Configs \cup {InitConfig, NoConfig} : Reboot(c)
      BY <2>2, <2>12 DEF DaemonCrash, RejectConfig, TypeOK
    <3>2. On(c) \in SUBSET Modules /\ \A n \in On(c) : IsOn(c, n)
      BY NewConfig DEF On
    <3>3. procs'[i] \in {Free} \cup {NewProc(n) : n \in On(c)}
      BY <2>1, <3>1, <3>2, NoProcsSane, ForkAllKeeps DEF Reboot
    <3>4. m \in On(c)
      BY <2>1, <2>2, <2>3, <3>2, <3>3
    <3>5. QED
      BY <3>1, <3>2, <3>4 DEF Reboot
  <2>13. QED
    BY <1>1, <2>4, <2>5, <2>6, <2>7, <2>8, <2>9, <2>10, <2>11, <2>12
       DEF Next, RouterStep, CloudStep
<1>2. DaemonInv /\ SpreadInv /\ [Next]_vars =>
        [\A m \in Modules : Forked(m) /\ cloud = "idle" /\ cloud' = "idle"
            => IsOn(config', m) \/ m \in missed]_vars
  BY <1>1
<1>3. QED
  BY <1>2, SpreadAlways, DaemonAlways, PTL DEF Spec, ForkOnlyWanted

================================================================================
