---------------------------- MODULE StreamHandshake ----------------------------
(***************************************************************************)
(* How the consumers of a camera (evslicer, evpusher, evmlmotion) get the  *)
(* format of its stream from evpuller, through evmgr.  evpuller announces  *)
(* the format once to every peer that is up, and answers each HELLO with   *)
(* it; a consumer takes the first format it gets, and a second one makes   *)
(* it exit, to be started again by evdaemon (evpuller.cpp, evslicer.cpp,   *)
(* evpusher.cpp, evmlmotion.cpp).                                          *)
(*                                                                         *)
(* A format is the number of the evpuller process that sent it.  The       *)
(* router is that of EvMgr, cut down to what these messages use; EvMgr     *)
(* shows its toggle right and its order kept.  A ping hands over what is   *)
(* held, which the connection before it did, and is left out.              *)
(***************************************************************************)
EXTENDS BoundedQueue, Integers

CONSTANTS
    Consumers,      \* evslicer, evpusher, evmlmotion of one camera
    Puller,         \* its evpuller
    CacheCap,       \* EV_NUM_CACHE_PERPEER
    MaxPullers,     \* bound: evpuller processes
    MaxFaults,      \* bound: crashes, write errors, late answers, lost connections
    MaxMgrCrashes   \* bound: crashes of evmgr

ASSUME StreamHandshakeAssumption ==
    /\ Puller \notin Consumers
    /\ CacheCap \in Nat \ {0}
    /\ MaxPullers \in Nat \ {0} /\ MaxFaults \in Nat /\ MaxMgrCrashes \in Nat

VARIABLES
    \* evpuller
    pstate,      \* "down", "opening" the camera, or "live": gotFormat
    pgen,        \* number of its process
    \* the consumers
    proc,        \* "down", "free": no HELLO sent, "waiting", "streaming"
    fmt,         \* pAVFormatInput, 0 when null
    gotFormat,
    \* evmgr
    status,      \* the peers it takes for up
    cachedMsg,   \* messages held for each peer
    \* the transport
    toRouter,    \* what each peer's connection has queued for evmgr
    toPeer,      \* what evmgr has queued for each peer
    \* kept to state a property
    gap,         \* the consumers that lost their connection since they asked, and
                 \* evpuller when it lost its own since it announced the format
    \* bounds
    faults,
    mgrCrashes

pullerVars   == <<pstate, pgen>>
consumerVars == <<proc, fmt, gotFormat>>
routerVars   == <<status, cachedMsg>>
streamVars   == <<pstate, pgen, proc, fmt, gotFormat, status, cachedMsg,
                  toRouter, toPeer, gap, faults, mgrCrashes>>

Peers == Consumers \cup {Puller}

\* The notification of a connection or of its end; evmgr cannot tell which.
Toggle == [kind |-> "toggle"]
HelloFrom(c) == [kind |-> "hello", src |-> c, dst |-> Puller]
FormatFor(c, g) == [kind |-> "format", dst |-> c, gen |-> g]
Announcement(g) == [kind |-> "announce", gen |-> g]

\* evpuller has announced the format; the consumer has asked for it.
Told(x) == IF x = Puller THEN pstate = "live" ELSE proc[x] \in {"waiting", "streaming"}

Alive(x) == IF x = Puller THEN pstate # "down" ELSE proc[x] # "down"

Fault == faults < MaxFaults /\ faults' = faults + 1

Queued(x, m) == toRouter' = [toRouter EXCEPT ![x] = Append(@, m)]

--------------------------------------------------------------------------------
(* evpuller *)

\* evdaemon starts evpuller, which connects to evmgr before it opens the camera.
PullerStarts ==
    /\ pstate = "down"
    /\ pstate' = "opening"
    /\ pgen' = pgen + 1
    /\ Queued(Puller, Toggle)
    /\ UNCHANGED <<consumerVars, routerVars, toPeer, gap, faults, mgrCrashes>>

\* The fifth packet: the format is announced, and the messages that waited for it
\* can be answered.
PullerGoesLive ==
    /\ pstate = "opening"
    /\ pstate' = "live"
    /\ Queued(Puller, Announcement(pgen))
    /\ gap' = gap \ {Puller}
    /\ UNCHANGED <<pgen, consumerVars, routerVars, toPeer, faults, mgrCrashes>>

\* handleEdgeMsg waits until the format is known.
PullerAnswers ==
    /\ pstate = "live"
    /\ toPeer[Puller] # <<>>
    /\ toPeer' = [toPeer EXCEPT ![Puller] = Tail(@)]
    /\ Queued(Puller, FormatFor(Head(toPeer[Puller]).src, pgen))
    /\ UNCHANGED <<pullerVars, consumerVars, routerVars, gap, faults, mgrCrashes>>

\* The camera cannot be opened or read, or sent nothing for 30 s; what was not
\* answered is gone.
PullerDies ==
    /\ pstate # "down"
    /\ pgen < MaxPullers
    /\ pstate' = "down"
    /\ toPeer' = [toPeer EXCEPT ![Puller] = <<>>]
    /\ Queued(Puller, Toggle)
    /\ UNCHANGED <<pgen, consumerVars, routerVars, gap, faults, mgrCrashes>>

--------------------------------------------------------------------------------
(* The consumers *)

\* evdaemon starts a consumer; its message thread runs before it asks for the format.
ConsumerStarts(c) ==
    /\ proc[c] = "down"
    /\ proc' = [proc EXCEPT ![c] = "free"]
    /\ fmt' = [fmt EXCEPT ![c] = 0]
    /\ gotFormat' = [gotFormat EXCEPT ![c] = FALSE]
    /\ Queued(c, Toggle)
    /\ UNCHANGED <<pullerVars, routerVars, toPeer, gap, faults, mgrCrashes>>

\* getInputFormat up to its wait.
SendsHello(c) ==
    /\ proc[c] = "free"
    /\ proc' = [proc EXCEPT ![c] = "waiting"]
    /\ gotFormat' = [gotFormat EXCEPT ![c] = FALSE]
    /\ Queued(c, HelloFrom(c))
    /\ gap' = gap \ {c}
    /\ UNCHANGED <<pullerVars, fmt, routerVars, toPeer, faults, mgrCrashes>>

Exits(c) ==
    /\ proc' = [proc EXCEPT ![c] = "down"]
    /\ toPeer' = [toPeer EXCEPT ![c] = <<>>]
    /\ Queued(c, Toggle)
    /\ UNCHANGED <<pullerVars, fmt, gotFormat, routerVars, gap, mgrCrashes>>

\* Mutant of SecondFormat: a format that comes when there is one is ignored.
IgnoredFormat(c) ==
    /\ toPeer' = [toPeer EXCEPT ![c] = Tail(@)]
    /\ UNCHANGED <<pullerVars, consumerVars, routerVars, toRouter, gap, mgrCrashes>>

\* A format that comes when there is one ends the process.
SecondFormat(c) == Exits(c)

\* handleEdgeMsg.
TakesFormat(c) ==
    /\ proc[c] # "down"
    /\ toPeer[c] # <<>>
    /\ UNCHANGED faults
    /\ \/ /\ fmt[c] = 0
          /\ fmt' = [fmt EXCEPT ![c] = Head(toPeer[c]).gen]
          /\ gotFormat' = [gotFormat EXCEPT ![c] = TRUE]
          /\ toPeer' = [toPeer EXCEPT ![c] = Tail(@)]
          /\ UNCHANGED <<pullerVars, proc, routerVars, toRouter, gap, mgrCrashes>>
       \/ /\ fmt[c] # 0
          /\ SecondFormat(c)

\* The wait of getInputFormat ends with a format.
SetsUpStream(c) ==
    /\ proc[c] = "waiting"
    /\ gotFormat[c]
    /\ proc' = [proc EXCEPT ![c] = "streaming"]
    /\ UNCHANGED <<pullerVars, fmt, gotFormat, routerVars, toRouter, toPeer, gap,
                   faults, mgrCrashes>>

\* A HELLO of c, or a format for c, is under way.
UnderWay(c) ==
    LET queues == {toRouter[x] : x \in Peers} \cup {cachedMsg[x] : x \in Peers}
                    \cup {toPeer[x] : x \in Peers}
    IN  \E m \in UNION {Elements(q) : q \in queues} :
            \/ m.kind = "hello" /\ m.src = c
            \/ m.kind = "format" /\ m.dst = c
            \/ m.kind = "announce"

\* Mutant of WaitsInVain: the consumer waits for ever.
WaitsForEver(c) == FALSE

\* Nothing will come.
WaitsInVain(c) == ~UnderWay(c)

\* The wait ends without a format after 30 s: nothing will come, or it comes too late.
GivesUp(c) ==
    /\ proc[c] = "waiting"
    /\ ~gotFormat[c]
    /\ \/ WaitsInVain(c) /\ UNCHANGED faults
       \/ UnderWay(c) /\ Fault
    /\ Exits(c)

\* The output cannot be written: the format is freed and asked for again.
Resets(c) ==
    /\ proc[c] = "streaming"
    /\ proc' = [proc EXCEPT ![c] = "free"]
    /\ fmt' = [fmt EXCEPT ![c] = 0]
    /\ Fault
    /\ UNCHANGED <<pullerVars, gotFormat, routerVars, toRouter, toPeer, gap, mgrCrashes>>

\* It crashes, or cannot open its output.
Crashes(c) ==
    /\ proc[c] # "down"
    /\ Fault
    /\ Exits(c)

--------------------------------------------------------------------------------
(* evmgr *)

\* What evmgr does with message m for x while it takes the peers in seen for up.
Routed(x, m, seen) ==
    IF x \in seen
    THEN /\ toPeer' = IF Alive(x) THEN [toPeer EXCEPT ![x] = Append(@, m)] ELSE toPeer
         /\ UNCHANGED cachedMsg
    ELSE /\ cachedMsg' = [cachedMsg EXCEPT ![x] = PushDropOldest(@, m, CacheCap)]
         /\ UNCHANGED toPeer

ReadsToggle(x) ==
    \/ /\ x \notin status
       /\ status' = status \cup {x}
       /\ toPeer' = IF Alive(x) THEN [toPeer EXCEPT ![x] = @ \o cachedMsg[x]] ELSE toPeer
       /\ cachedMsg' = [cachedMsg EXCEPT ![x] = <<>>]
    \/ /\ x \in status
       /\ status' = status \ {x}
       /\ UNCHANGED <<toPeer, cachedMsg>>

ReadsMessage(x, m) ==
    /\ status' = status \cup {x}
    /\ \/ /\ m.kind \in {"hello", "format"}
          /\ Routed(m.dst, m, status')
       \/ /\ m.kind = "announce"
          /\ toPeer' = [c \in Peers |->
                IF c \in status \ {x} /\ Alive(c) THEN Append(toPeer[c], m) ELSE toPeer[c]]
          /\ UNCHANGED cachedMsg

MgrReads(x) ==
    /\ toRouter[x] # <<>>
    /\ toRouter' = [toRouter EXCEPT ![x] = Tail(@)]
    /\ LET m == Head(toRouter[x])
       IN  IF m.kind = "toggle" THEN ReadsToggle(x) ELSE ReadsMessage(x, m)
    /\ UNCHANGED <<pullerVars, consumerVars, gap, faults, mgrCrashes>>

\* evmgr crashes with what it held, what it had not read and what it had queued; it is
\* started again and the peers connect again.
MgrCrashes ==
    /\ mgrCrashes < MaxMgrCrashes
    /\ mgrCrashes' = mgrCrashes + 1
    /\ status' = {}
    /\ cachedMsg' = [x \in Peers |-> <<>>]
    /\ toRouter' = [x \in Peers |-> IF Alive(x) THEN <<Toggle>> ELSE <<>>]
    /\ toPeer' = [x \in Peers |-> <<>>]
    /\ gap' = gap \cup {x \in Peers : Told(x)}
    /\ UNCHANGED <<pullerVars, consumerVars, faults>>

--------------------------------------------------------------------------------
(* The transport *)

\* What a lost connection leaves of queue q: messages at its end may be lost, but no
\* notification, which does not travel.
Kept(q) ==
    {SubSeq(q, 1, n) : n \in {k \in 0..Len(q) : \A i \in k + 1..Len(q) : q[i] # Toggle}}

\* The connection of a peer that goes on is lost and made again: what was queued for the
\* peer is gone, and evmgr is notified twice.  The peer does nothing about it.
Reconnects(x) ==
    /\ Alive(x)
    /\ Fault
    /\ \E kept \in Kept(toRouter[x]) :
           toRouter' = [toRouter EXCEPT ![x] = Append(Append(kept, Toggle), Toggle)]
    /\ toPeer' = [toPeer EXCEPT ![x] = <<>>]
    /\ gap' = IF Told(x) THEN gap \cup {x} ELSE gap
    /\ UNCHANGED <<pullerVars, consumerVars, routerVars, mgrCrashes>>

--------------------------------------------------------------------------------

StreamInit ==
    /\ pstate = "down" /\ pgen = 0
    /\ proc = [c \in Consumers |-> "down"]
    /\ fmt = [c \in Consumers |-> 0]
    /\ gotFormat = [c \in Consumers |-> FALSE]
    /\ status = {}
    /\ cachedMsg = [x \in Peers |-> <<>>]
    /\ toRouter = [x \in Peers |-> <<>>]
    /\ toPeer = [x \in Peers |-> <<>>]
    /\ gap = {}
    /\ faults = 0 /\ mgrCrashes = 0

PullerWorks == PullerStarts \/ PullerGoesLive \/ PullerAnswers

ConsumerWorks(c) ==
    ConsumerStarts(c) \/ SendsHello(c) \/ TakesFormat(c) \/ SetsUpStream(c) \/ GivesUp(c)

StreamNext ==
    \/ PullerWorks
    \/ PullerDies
    \/ \E c \in Consumers : ConsumerWorks(c) \/ Resets(c) \/ Crashes(c)
    \/ \E x \in Peers : MgrReads(x) \/ Reconnects(x)
    \/ MgrCrashes

--------------------------------------------------------------------------------
(* Properties *)

\* Nothing is under way and evpuller publishes packets.
Settled ==
    /\ pstate = "live"
    /\ \A x \in Peers : toRouter[x] = <<>> /\ toPeer[x] = <<>> /\ cachedMsg[x] = <<>>

\* No consumer goes on with the format of an earlier evpuller: whatever stale answer it
\* took, a later announcement or answer ends it.  That is so as long as evpuller did not
\* lose its connection to evmgr since it announced itself, and for each consumer that did
\* not lose its own since it asked; a crash of evmgr ends every connection.  What is sent
\* to a peer meanwhile is lost, evmgr announces nothing to a peer it takes for down, and
\* nobody asks again when it is connected again.
FormatAgrees ==
    Settled /\ Puller \notin gap =>
        \A c \in Consumers \ gap : proc[c] = "streaming" => fmt[c] = pgen

\* Nobody waits for ever: consumers that ask too early, too late or twice, an evpuller
\* and an evmgr that die with their questions, all end up with every consumer streaming.
AllStream == <>[](\A c \in Consumers : proc[c] = "streaming")
================================================================================
