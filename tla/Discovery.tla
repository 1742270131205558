------------------------------ MODULE Discovery ------------------------------
(***************************************************************************)
(* Node discovery: DiscV5 (and DiscV4, whose code is the same but for one  *)
(* condition of filterPeer).  Start builds a gocron scheduler whose job    *)
(* replaces the listener at once and then in every restart interval; Stop  *)
(* takes listener and scheduler away.  Each job run opens a listener and   *)
(* leaves a goroutine behind that publishes the nodes it finds.            *)
(*                                                                         *)
(* Every critical section of d.mu is one step.  A run has a slot that      *)
(* names the run, its listener, its goroutine and the identity of that     *)
(* listener; a slot is free again once none of them is alive.              *)
(***************************************************************************)
CONSTANTS Starts,       \* bound: calls of Start that find it not started
          Runs,         \* bound: slots of job runs
          BootNodes,    \* lists of boot nodes
          None          \* no value

Classes == {"noip", "notcp", "private", "public"}

ASSUME DiscoveryAssumption == /\ None \notin Starts \cup Runs \cup Classes
                              /\ None \notin Runs \X (Runs \cup Classes)
                              /\ BootNodes \cap {"none", "bound", "closed"} = {}
                              /\ Runs \cap Classes = {}

VARIABLES started, listener, scheduler, bootNodes,  \* the fields of DiscV5
          start,    \* where each Start is, and then its scheduler
          stop,     \* where Stop is: <<step, listener, scheduler>>
          run,      \* where each job run is
          socket,   \* the listener of a slot: the boot nodes it was opened with
          iterated, \* listeners that goroutines take nodes from
          found     \* the node about to be published: <<listener, node>>

fields == <<started, listener, scheduler, bootNodes>>
slots == <<run, socket, iterated, found>>
vars == <<fields, start, stop, slots>>

Idle == <<"idle", None, None>>

TypeOK ==
    /\ started \in BOOLEAN
    /\ listener \in Runs \cup {None}
    /\ scheduler \in Starts \cup {None}
    /\ bootNodes \in BootNodes
    /\ start \in [Starts -> {"none", "marked", "build", "built", "stored", "running",
                             "over", "failed"}]
    /\ stop \in {"idle", "listener", "scheduler"} \X (Runs \cup {None}) \X
                (Starts \cup {None})
    /\ run \in [Runs -> {"none", "close", "key", "open", "install", "failed", "listen"}]
    /\ socket \in [Runs -> BootNodes \cup {"none", "bound", "closed"}]
    /\ iterated \subseteq Runs
    /\ found \in (Runs \X (Runs \cup Classes)) \cup {None}

Init ==
    /\ started = FALSE
    /\ listener = None
    /\ scheduler = None
    /\ bootNodes \in BootNodes
    /\ start = [s \in Starts |-> "none"]
    /\ stop = Idle
    /\ run = [r \in Runs |-> "none"]
    /\ socket = [r \in Runs |-> "none"]
    /\ iterated = {}
    /\ found = None

-----------------------------------------------------------------------------
\* Start and startCrons.

StartAt(s, label) == start' = [start EXCEPT ![s] = label]

\* A Start that finds `started` returns.
MarkStarted(s) ==
    /\ start[s] = "none"
    /\ ~started
    /\ started' = TRUE
    /\ StartAt(s, "marked")
    /\ UNCHANGED <<listener, scheduler, bootNodes, stop, slots>>

CheckScheduler(s) ==
    /\ start[s] = "marked"
    /\ StartAt(s, IF scheduler = None THEN "build" ELSE "over")
    /\ UNCHANGED <<fields, stop, slots>>

\* NewScheduler and NewJob; an error leaves `started` set.
BuildScheduler(s) ==
    /\ start[s] = "build"
    /\ StartAt(s, "built") \/ StartAt(s, "failed")
    /\ UNCHANGED <<fields, stop, slots>>

\* Variant: the scheduler is not kept.
StoreNoScheduler(s) ==
    /\ start[s] = "built"
    /\ StartAt(s, "stored")
    /\ UNCHANGED <<fields, stop, slots>>

StoreScheduler(s) ==
    /\ start[s] = "built"
    /\ scheduler' = s
    /\ StartAt(s, "stored")
    /\ UNCHANGED <<started, listener, bootNodes, stop, slots>>

\* A scheduler that was shut down cannot be started.
RunScheduler(s) ==
    /\ start[s] = "stored"
    /\ StartAt(s, "running")
    /\ UNCHANGED <<fields, stop, slots>>

-----------------------------------------------------------------------------
\* Stop and UpdateBootNodes.

TakeAway ==
    /\ stop = Idle
    /\ stop' = <<"listener", listener, scheduler>>
    /\ started' = FALSE
    /\ listener' = None
    /\ scheduler' = None
    /\ UNCHANGED <<bootNodes, start, slots>>

\* ListenerV5.Close.  The slot keeps a closed listener while a goroutine does.
Close(r) == socket' = [socket EXCEPT ![r] = IF r \in iterated THEN "closed" ELSE "none"]

CloseTaken ==
    /\ stop[1] = "listener"
    /\ IF stop[2] # None THEN Close(stop[2]) ELSE UNCHANGED socket
    /\ stop' = <<"scheduler", None, stop[3]>>
    /\ UNCHANGED <<fields, start, run, iterated, found>>

\* Shutdown starts no more runs; it does not end one that goes on.
ShutDown ==
    /\ stop[1] = "scheduler"
    /\ IF stop[3] # None THEN StartAt(stop[3], "over") ELSE UNCHANGED start
    /\ stop' = Idle
    /\ UNCHANGED <<fields, slots>>

\* All or nothing: the list of UpdateBootNodes that does not parse is refused.
UpdateBootNodes(b) ==
    /\ b # bootNodes
    /\ bootNodes' = b
    /\ UNCHANGED <<started, listener, scheduler, start, stop, slots>>

-----------------------------------------------------------------------------
\* A run of the job: startListener, startDiscovery and createListener.

RunAt(r, label) == run' = [run EXCEPT ![r] = label]
Open(r) == socket[r] \in BootNodes
Active(r) == run[r] \in {"close", "key", "open", "install", "failed"}

\* Someone can still close the listener of slot r.
Held(r) == listener = r \/ stop[2] = r \/ run[r] \in {"open", "install"}

\* Nothing of slot r is alive.  Bound: a listener that nobody can close, and
\* what its goroutine found, is followed until the slot is needed.
Free(r) == run[r] = "none" /\ (socket[r] = "none" \/ (Open(r) /\ ~Held(r)))

\* Variant: a run that finds a listener keeps it.
BeginFirstRun(s, r) ==
    /\ start[s] = "running"
    /\ Free(r)
    /\ started /\ listener = None
    /\ RunAt(r, "close")
    /\ UNCHANGED <<fields, start, stop, socket, iterated, found>>

\* Runs of the job may overlap: gocron starts one in each interval.
BeginRun(s, r) ==
    /\ start[s] = "running"
    /\ Free(r)
    /\ started
    /\ RunAt(r, "close")
    /\ socket' = [socket EXCEPT ![r] = "none"]
    /\ iterated' = iterated \ {r}
    /\ found' = IF \E node \in Runs \cup Classes : found \in {<<r, node>>, <<node, r>>}
                THEN None ELSE found
    /\ UNCHANGED <<fields, start, stop>>

\* Variant: the old listener is dropped without being closed.
ForgetOld(r) ==
    /\ run[r] = "close"
    /\ listener' = None
    /\ RunAt(r, "key")
    /\ UNCHANGED <<started, scheduler, bootNodes, start, stop, socket, iterated, found>>

CloseOld(r) ==
    /\ run[r] = "close"
    /\ IF listener # None THEN Close(listener) ELSE UNCHANGED socket
    /\ listener' = None
    /\ RunAt(r, "key")
    /\ UNCHANGED <<started, scheduler, bootNodes, start, stop, iterated, found>>

\* GenerateKey and ListenUDP.
BindSocket(r) ==
    /\ run[r] = "key"
    /\ \/ RunAt(r, "open") /\ socket' = [socket EXCEPT ![r] = "bound"]
       \/ RunAt(r, "failed") /\ UNCHANGED socket
    /\ UNCHANGED <<fields, start, stop, iterated, found>>

\* createLocalNode, then ListenV5 with a copy of the boot nodes.  An error of
\* either returns without the socket, which stays bound: nobody knows it now.
OpenListener(r) ==
    /\ run[r] = "open"
    /\ \/ RunAt(r, "install") /\ socket' = [socket EXCEPT ![r] = bootNodes]
       \/ RunAt(r, "failed") /\ socket' = [socket EXCEPT ![r] = "none"]
    /\ UNCHANGED <<fields, start, stop, iterated, found>>

\* A listener installed meanwhile is replaced, not closed.
InstallListener(r) ==
    /\ run[r] = "install"
    /\ listener' = r
    /\ RunAt(r, "listen")
    /\ UNCHANGED <<started, scheduler, bootNodes, start, stop, socket, iterated, found>>

\* The job logs the error.
LogFailure(r) ==
    /\ run[r] = "failed"
    /\ RunAt(r, "none")
    /\ UNCHANGED <<fields, start, stop, socket, iterated, found>>

-----------------------------------------------------------------------------
\* listenForNewNodes, in a goroutine of its own.

\* It takes nodes from the listener it finds, which may be a newer one.  Two
\* goroutines with the same listener act as one.
PickListener(r) ==
    /\ run[r] = "listen"
    /\ iterated' = iterated \cup ({listener} \ {None})
    /\ RunAt(r, "none")
    /\ UNCHANGED <<fields, start, stop, socket, found>>

\* filterPeer; own identities have neither a private address nor a missing port.
FilterPeerV4(node) ==
    /\ node \notin {"noip", "notcp"}
    /\ listener # None /\ Open(listener) => node # listener

FilterPeerAnyone(node) == node \notin {"noip", "notcp", "private"}

FilterPeer(node) == FilterPeerV4(node) /\ node # "private"

\* Next finds a node that passes the filter, while listener r is open.  Bound:
\* one node at a time is on its way to the subscribers.
NextNode(r) ==
    /\ r \in iterated
    /\ found = None
    /\ Open(r)
    /\ \E node \in Classes \cup {q \in Runs : Open(q)} :
          /\ FilterPeer(node)
          /\ found' = <<r, node>>
    /\ UNCHANGED <<fields, start, stop, run, socket, iterated>>

\* publishNodeRecord: the subscribers get the node.
PublishNode ==
    /\ found # None
    /\ found' = None
    /\ UNCHANGED <<fields, start, stop, run, socket, iterated>>

\* Next of a closed listener says that there are no more.
EndOfNodes(r) ==
    /\ r \in iterated
    /\ \A node \in Runs \cup Classes : found # <<r, node>>
    /\ socket[r] = "closed"
    /\ iterated' = iterated \ {r}
    /\ socket' = [socket EXCEPT ![r] = "none"]
    /\ UNCHANGED <<fields, start, stop, run, found>>

-----------------------------------------------------------------------------
StartStep(s) == CheckScheduler(s) \/ BuildScheduler(s) \/ StoreScheduler(s) \/ RunScheduler(s)
StopStep == CloseTaken \/ ShutDown
RunStep(r) == CloseOld(r) \/ BindSocket(r) \/ OpenListener(r) \/ InstallListener(r)
              \/ LogFailure(r)
ListenStep(r) == PickListener(r) \/ EndOfNodes(r)

Next == \/ \E s \in Starts : \/ MarkStarted(s) \/ StartStep(s)
                             \/ \E r \in Runs : BeginRun(s, r)
        \/ TakeAway \/ StopStep
        \/ \E b \in BootNodes : UpdateBootNodes(b)
        \/ \E r \in Runs : RunStep(r) \/ ListenStep(r) \/ NextNode(r)
        \/ PublishNode

Spec == Init /\ [][Next]_vars

\* The goroutines go on, and a running scheduler keeps starting runs.
FairSpec == /\ Spec
            /\ \A s \in Starts : /\ WF_vars(StartStep(s))
                                 /\ WF_vars(\E r \in Runs : BeginRun(s, r))
            /\ WF_vars(StopStep) /\ WF_vars(PublishNode)
            /\ \A r \in Runs : WF_vars(RunStep(r)) /\ WF_vars(ListenStep(r))

-----------------------------------------------------------------------------
\* Properties.

\* A listener or its socket is never lost from sight while it is open, unless
\* another run overlapped its own and replaced it: closing the old one and
\* installing the new one are two critical sections (disc_v5.go:76-102).
ListenersKept ==
    [][\A r \in Runs : Held(r) =>
          \/ Held(r)' \/ socket'[r] \in {"none", "closed"}
          \/ listener = r /\ listener' \in Runs]_vars

\* A discovery that is started, with no Start in progress, has a scheduler
\* unless building one failed: no interleaving of Start and Stop leaves it
\* without (disc_v5.go:55-72, 110-117, 195-241).
StartedHasScheduler ==
    started /\ (\A s \in Starts : start[s] \notin {"marked", "build", "built", "failed"})
        => scheduler # None

\* A goroutine hands on the identity of the listener it takes nodes from only
\* when that is no longer the discovery's own (disc_v5.go:378-388).
NeverOwnIdentity ==
    \A r \in Runs : found = <<r, r>> => listener # r

\* New boot nodes take effect without a restart of the program: a listener is
\* opened with them, unless a run fails, the discovery is stopped or another
\* list follows (disc_v5.go:168, 314).
BootNodesUsed ==
    \A b \in BootNodes :
        started /\ scheduler # None /\ bootNodes = b ~>
            \/ \E r \in Runs : socket[r] = b \/ run[r] = "failed"
            \/ ~started \/ bootNodes # b
=============================================================================
