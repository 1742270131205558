------------------------------ MODULE Crawler ------------------------------
(***************************************************************************)
(* The consensus crawler, pkg/consensus/mimicry/crawler: the pipeline that *)
(* takes a discovered node to a dial, a dial to a crawl, a failed crawl to *)
(* a retry, and Stop, which runs against all of it.                        *)
(*                                                                         *)
(* Goroutines.  Workers are the DialConcurrency dialers; one retry worker  *)
(* waits out the backoff of one entry at a time; discovery calls           *)
(* handleNewDiscoveryNode; and libp2p calls handlePeerConnected once for   *)
(* each CONNECTION (not once for each peer) and handlePeerDisconnected     *)
(* when that connection has closed and its handlePeerConnected returned.   *)
(* A connection and the goroutine that handles it are the same element of  *)
(* Conns, a slot that is reused once the connection is gone.               *)
(*                                                                         *)
(* A fork digest stands for all that tells one network from another: a     *)
(* node record is a peer and the digest it advertises.  Durations are left *)
(* out: a timer may fire at any moment after it is set.                    *)
(***************************************************************************)
EXTENDS Naturals, Sequences

CONSTANTS
    Peers,             \* remote peers
    Conns,             \* connection slots of the libp2p swarm
    Workers,           \* dialer goroutines, Config.DialConcurrency of them
    Finders,           \* discovery goroutines that call handleNewDiscoveryNode
    NoPeer,            \* the peer of a goroutine that has none
    NoENR,             \* a missing entry of peerENRs
    MaxRetryAttempts,  \* Config.MaxRetryAttempts
    DialQueueCap,      \* capacity of peersToDial
    RetryQueueCap,     \* capacity of retryQueue
    LastFork,          \* the last fork digest our beacon node moves to
    MaxCauses          \* bound: nodes found, dials of the peer's own and dials
                       \* that a request of ours makes, per peer

Threads == Workers \cup Conns
Forks   == 0 .. LastFork

ASSUME CrawlerAssumption ==
    /\ Workers \cap Conns = {}
    /\ NoPeer \notin Peers
    /\ NoENR \notin Forks
    /\ MaxRetryAttempts \in Nat
    /\ DialQueueCap \in Nat \ {0}
    /\ RetryQueueCap \in Nat \ {0}
    /\ LastFork \in Nat
    /\ MaxCauses \in Nat

VARIABLES
    ourFork,       \* fork digest of Crawler.status
    found,         \* the nodes that Finders are about to send
    peersToDial,   \* buffered channel of nodes
    retryQueue,    \* buffered channel of retries
    retryTracker,  \* peer -> how often it was retried, and with which record
    retryWorker,   \* program counter of the retry worker
    inHand,        \* the retry whose backoff the retry worker waits out
    cached,        \* the peers that duplicateCache holds
    peerENRs,      \* peer -> digest of its stored record, or NoENR
    open,          \* the connections the swarm holds open
    pc,            \* program counter of a dialer or a connection's handler
    who,           \* the peer it works on
    enr,           \* the digest of the record it holds
    err,           \* the crawl error it passes to handleCrawlFailure
    stopPc,        \* how far Stop has come
    late,          \* Stop gave up waiting for the dialers
    leaving,       \* peers Stop has still to say goodbye to
    parting,       \* the peer whose goodbye response Stop waits for
    panicked,      \* a send on a closed channel ended the process
    causes,        \* history: nodes found, connections a peer made to us, and
                   \* those that a request to it made again
    dials,         \* history: calls of ConnectToPeer for a peer
    reports        \* history: success and failure events of a peer

queues  == <<found, peersToDial, retryQueue, retryWorker, inHand>>
local   == <<pc, who, enr, err>>
stop    == <<stopPc, late, leaving, parting>>
history == <<causes, dials, reports>>
vars    == <<ourFork, queues, retryTracker, cached, peerENRs, open, local,
             stop, panicked, history>>

-----------------------------------------------------------------------------
(* Records of the two channels and of the tracker *)

Node  == [peer : Peers, fork : Forks]
Retry == [peer : Peers, fork : Forks, attempts : 1 .. MaxRetryAttempts]

NoNode  == [peer |-> NoPeer, fork |-> NoENR]
NoRetry == [peer |-> NoPeer, fork |-> NoENR, attempts |-> 0]

\* An entry exists outside the critical section of scheduleRetry only with
\* attempts > 0, so a missing entry is the one with no attempts.
NoEntry == [fork |-> NoENR, attempts |-> 0]

\* isRetryableError looks at the Type of an error: a crawl is over for good when
\* the peer's status has another digest, and tried again after any other
\* ErrCrawl.  newCrawlError takes the message for the type, so the digest of the
\* record that ConnectToPeer does not like is one of those.
CrawlErrors == {"retryable", "status_mismatch"}

Retryable(e) == e # "status_mismatch"

WorkerPcs  == {"idle", "connect", "store", "dial", "dialled",
               "exited"}
HandlerPcs == {"free", "start", "identify", "drop", "status", "metadata",
               "untrack", "report", "goodbye", "parting", "done"}
FailurePcs == {"failed", "giveUp", "lookup", "schedule", "send"}

-----------------------------------------------------------------------------
(* What Stop's progress means to everyone else *)

StopPcs == {"running", "marked", "cancelled", "retryClosed", "dialClosed",
            "sweep", "closing", "nodeClosed", "enrsCleared", "stopped"}

isShutdown       == stopPc # "running"
ctxDone          == stopPc \notin {"running", "marked"}
retryQueueClosed == ctxDone /\ stopPc # "cancelled"
dialQueueClosed  == retryQueueClosed /\ stopPc # "retryClosed"
nodeClosed       == stopPc \in {"closing", "nodeClosed", "enrsCleared", "stopped"}

ConnsOf(p)       == {c \in Conns : who[c] = p}
Connectedness(p) == open \cap ConnsOf(p) # {}

\* Variant: the retry worker holds it too, from its look at the entry to the end
\* of its own send.
RetryMuShared == retryWorker # "backoff" /\ \A t \in Threads : pc[t] # "send"

\* scheduleRetry holds retryMu from its entry to its send.
RetryMuFree == \A t \in Threads : pc[t] # "send"

DialersExited == retryWorker = "exited" /\ \A w \in Workers : pc[w] = "exited"

-----------------------------------------------------------------------------
Init ==
    /\ ourFork = 0
    /\ found = [d \in Finders |-> NoNode]
    /\ peersToDial = <<>>
    /\ retryQueue = <<>>
    /\ retryTracker = [p \in Peers |-> NoEntry]
    /\ retryWorker = "idle"
    /\ inHand = NoRetry
    /\ cached = {}
    /\ peerENRs = [p \in Peers |-> NoENR]
    /\ open = {}
    /\ pc = [t \in Threads |-> IF t \in Workers THEN "idle" ELSE "free"]
    /\ who = [t \in Threads |-> NoPeer]
    /\ enr = [t \in Threads |-> NoENR]
    /\ err = [t \in Threads |-> "none"]
    /\ stopPc = "running"
    /\ late = FALSE
    /\ leaving = {}
    /\ parting = NoPeer
    /\ panicked = FALSE
    /\ causes = [p \in Peers |-> 0]
    /\ dials = [p \in Peers |-> 0]
    /\ reports = [p \in Peers |-> 0]

Goto(t, label) == pc' = [pc EXCEPT ![t] = label]

\* The dialer goes back to its loop; the handler returns to libp2p.
Return(t) ==
    /\ Goto(t, IF t \in Workers THEN "idle" ELSE "done")
    /\ who' = [who EXCEPT ![t] = IF t \in Workers THEN NoPeer ELSE @]
    /\ enr' = [enr EXCEPT ![t] = NoENR]
    /\ err' = [err EXCEPT ![t] = "none"]

Fail(t, e) ==
    /\ Goto(t, "failed")
    /\ err' = [err EXCEPT ![t] = e]
    /\ enr' = [enr EXCEPT ![t] = NoENR]
    /\ UNCHANGED who

Report(p) == reports' = [reports EXCEPT ![p] = @ + 1]

ClosePeer(p) == open' = open \ ConnsOf(p)

-----------------------------------------------------------------------------
(* Our status, the cache's clock, and discovery *)

\* fetchAndSetStatus, run by the cron job and on every head event.  Fetches
\* overlap, so the digest stored last may be that of the older fetch, and one
\* in flight when Stop cancels the context is stored all the same.
FetchAndSetStatus ==
    /\ \E f \in Forks \ {ourFork} : ourFork' = f
    /\ UNCHANGED <<queues, retryTracker, cached, peerENRs, open, local, stop,
                   panicked, history>>

CacheExpires(p) ==
    /\ p \in cached
    /\ cached' = cached \ {p}
    /\ UNCHANGED <<ourFork, queues, retryTracker, peerENRs, open, local, stop,
                   panicked, history>>

\* handleNewDiscoveryNode up to its second look at isShutdown.  A node that
\* advertises another digest than ours is skipped and changes nothing.
DiscoverNode(d, p) ==
    /\ found[d] = NoNode
    /\ ~isShutdown
    /\ causes[p] < MaxCauses
    /\ found' = [found EXCEPT ![d] = [peer |-> p, fork |-> ourFork]]
    /\ causes' = [causes EXCEPT ![p] = @ + 1]
    /\ UNCHANGED <<ourFork, peersToDial, retryQueue, retryWorker, inHand,
                   retryTracker, cached, peerENRs, open, local, stop, panicked,
                   dials, reports>>

\* Its send, which never blocks: a full channel drops the node, a channel
\* that Stop closed in between makes it panic.
QueueNode(d) ==
    /\ found[d] # NoNode
    /\ found' = [found EXCEPT ![d] = NoNode]
    /\ panicked' = dialQueueClosed
    /\ peersToDial' = IF dialQueueClosed \/ Len(peersToDial) >= DialQueueCap
                      THEN peersToDial
                      ELSE Append(peersToDial, found[d])
    /\ UNCHANGED <<ourFork, retryQueue, retryWorker, inHand, retryTracker,
                   cached, peerENRs, open, local, stop, history>>

-----------------------------------------------------------------------------
(* The dialers *)

\* A buffered channel still delivers what it holds after it was closed; the
\* dialer then finds isShutdown set and leaves.
WorkerReceive(w) ==
    /\ pc[w] = "idle"
    /\ peersToDial # <<>>
    /\ peersToDial' = Tail(peersToDial)
    /\ IF isShutdown
       THEN Goto(w, "exited") /\ UNCHANGED <<who, enr, dials>>
       ELSE LET node == Head(peersToDial) IN
            /\ Goto(w, "connect")
            /\ who' = [who EXCEPT ![w] = node.peer]
            /\ enr' = [enr EXCEPT ![w] = node.fork]
            /\ dials' = [dials EXCEPT ![node.peer] = @ + 1]
    /\ UNCHANGED <<ourFork, found, retryQueue, retryWorker, inHand,
                   retryTracker, cached, peerENRs, open, err, stop, panicked,
                   causes, reports>>

WorkerExit(w) ==
    /\ pc[w] = "idle"
    /\ ctxDone
    /\ Goto(w, "exited")
    /\ UNCHANGED <<ourFork, queues, retryTracker, cached, peerENRs, open, who,
                   enr, err, stop, panicked, history>>

\* ConnectToPeer: the network the record advertises, then the cache.
ConnectToPeer(w) ==
    /\ pc[w] = "connect"
    /\ IF enr[w] # ourFork \/ who[w] \in cached
       THEN Fail(w, "retryable")
       ELSE Goto(w, "store") /\ UNCHANGED <<who, enr, err>>
    /\ UNCHANGED <<ourFork, queues, retryTracker, cached, peerENRs, open, stop,
                   panicked, history>>

\* A peer we are connected to is left alone, with an error that is logged.
StoreENR(w) ==
    /\ pc[w] = "store"
    /\ IF Connectedness(who[w])
       THEN Return(w) /\ UNCHANGED peerENRs
       ELSE /\ peerENRs' = [peerENRs EXCEPT ![who[w]] = enr[w]]
            /\ Goto(w, "dial")
            /\ UNCHANGED <<who, enr, err>>
    /\ UNCHANGED <<ourFork, queues, retryTracker, cached, open, stop, panicked,
                   history>>

\* host.Connect finds no connection and opens one, whose handler then starts;
\* a cancelled dial may still complete while the swarm is open.  The dialer
\* stays in host.Connect until the peer is identified or DialTimeout is over.
DialSucceeds(w, c) ==
    /\ pc[w] = "dial"
    /\ ~nodeClosed
    /\ ~Connectedness(who[w])
    /\ pc[c] = "free"
    /\ pc' = [pc EXCEPT ![w] = "dialled", ![c] = "start"]
    /\ who' = [who EXCEPT ![c] = who[w]]
    /\ enr' = [enr EXCEPT ![w] = NoENR]
    /\ open' = open \cup {c}
    /\ UNCHANGED <<ourFork, queues, retryTracker, cached, peerENRs, err, stop,
                   panicked, history>>

\* The dial failed or timed out (the stored ENR stays, nothing is reported
\* and nothing retried), the peer had connected meanwhile and there was
\* nothing to dial, or the wait for identify is over and AddProtocols noted
\* our protocols.  A cancelled dial or wait ends the dialer.
DialReturns(w) ==
    /\ pc[w] \in {"dial", "dialled"}
    /\ \/ Return(w)
       \/ /\ ctxDone
          /\ Goto(w, "exited")
          /\ who' = [who EXCEPT ![w] = NoPeer]
          /\ enr' = [enr EXCEPT ![w] = NoENR]
          /\ UNCHANGED err
    /\ UNCHANGED <<ourFork, queues, retryTracker, cached, peerENRs, open, stop,
                   panicked, history>>

-----------------------------------------------------------------------------
(* libp2p: connections come and go *)

\* The swarm adds connection c to peer p, and its handler starts.
Connected(c, p) ==
    /\ ~nodeClosed
    /\ pc[c] = "free"
    /\ Goto(c, "start")
    /\ who' = [who EXCEPT ![c] = p]
    /\ open' = open \cup {c}
    /\ UNCHANGED <<ourFork, queues, retryTracker, cached, peerENRs, enr, err,
                   stop, panicked, dials, reports>>

\* The remote peer's own dial.
PeerConnects(c, p) ==
    /\ causes[p] < MaxCauses
    /\ causes' = [causes EXCEPT ![p] = @ + 1]
    /\ Connected(c, p)

\* The dial that NewStream makes for a request to a peer whose connection is
\* gone: of a handler, or the goodbye of Stop.
RequestUnderWay(p) ==
    \/ \E c \in ConnsOf(p) : pc[c] \in {"status", "metadata", "parting"}
    \/ parting = p

RequestDials(c, p) ==
    /\ RequestUnderWay(p)
    /\ ~Connectedness(p)
    /\ causes[p] < MaxCauses
    /\ causes' = [causes EXCEPT ![p] = @ + 1]
    /\ Connected(c, p)

RemoteCloses(c) ==
    /\ c \in open
    /\ open' = open \ {c}
    /\ UNCHANGED <<ourFork, queues, retryTracker, cached, peerENRs, local, stop,
                   panicked, history>>

\* libp2p tells of the end of a connection once its Connected callback has
\* returned.  The record of the PEER goes, whatever else is connected to it.
HandlePeerDisconnected(c) ==
    /\ pc[c] = "done"
    /\ c \notin open
    /\ peerENRs' = [peerENRs EXCEPT ![who[c]] = NoENR]
    /\ Goto(c, "free")
    /\ who' = [who EXCEPT ![c] = NoPeer]
    /\ UNCHANGED <<ourFork, queues, retryTracker, cached, open, enr, err, stop,
                   panicked, history>>

-----------------------------------------------------------------------------
(* handlePeerConnected *)

\* Shutting down, or a peer handled recently: this connection is closed.
CheckPeer(c) ==
    /\ pc[c] = "start"
    /\ IF isShutdown \/ who[c] \in cached
       THEN Return(c) /\ open' = open \ {c}
       ELSE Goto(c, "identify") /\ UNCHANGED <<who, enr, err, open>>
    /\ UNCHANGED <<ourFork, queues, retryTracker, cached, peerENRs, stop,
                   panicked, history>>

\* The agent version is known: the peer goes into the cache, and only then is
\* it asked for its status.
Identified(c) ==
    /\ pc[c] = "identify"
    /\ cached' = cached \cup {who[c]}
    /\ Goto(c, "status")
    /\ UNCHANGED <<ourFork, queues, retryTracker, peerENRs, open, who, enr, err,
                   stop, panicked, history>>

\* Give up on this crawl: first disconnect, then fail.
Drop(c) ==
    /\ Goto(c, "drop")
    /\ err' = [err EXCEPT ![c] = "retryable"]
    /\ UNCHANGED <<who, enr>>

\* Variant: the poll for the agent version has no deadline of its own.
IdentifyUntimed(c) ==
    /\ pc[c] = "identify"
    /\ ctxDone
    /\ Return(c)
    /\ UNCHANGED <<ourFork, queues, retryTracker, cached, peerENRs, open, stop,
                   panicked, history>>

IdentifyTimeout(c) ==
    /\ pc[c] = "identify"
    /\ IF ctxDone THEN Return(c) ELSE Drop(c)
    /\ UNCHANGED <<ourFork, queues, retryTracker, cached, peerENRs, open, stop,
                   panicked, history>>

\* A status or metadata request that fails, or is cancelled by Stop.  The handler
\* means to return at once when the end of the context was the cause, but a
\* RequestError wraps only its text, errors.Is never finds context.Canceled in
\* it, and the failure is handled like any other.
RequestFails(c) ==
    /\ pc[c] \in {"status", "metadata"}
    /\ Drop(c)
    /\ UNCHANGED <<ourFork, queues, retryTracker, cached, peerENRs, open, stop,
                   panicked, history>>

\* disconnectAfterFailure closes every connection to the peer.
DisconnectAfterFailure(c) ==
    /\ pc[c] = "drop"
    /\ ClosePeer(who[c])
    /\ Goto(c, "failed")
    /\ UNCHANGED <<ourFork, queues, retryTracker, cached, peerENRs, who, enr,
                   err, stop, panicked, history>>

\* Variant: the return after a digest that is not ours is missing.
StatusReportedTwice(c, f) ==
    /\ pc[c] = "status"
    /\ Goto(c, "metadata")
    /\ IF f = ourFork THEN UNCHANGED reports ELSE Report(who[c])
    /\ UNCHANGED <<ourFork, queues, retryTracker, cached, peerENRs, open, who,
                   enr, err, stop, panicked, causes, dials>>

\* The answer's digest f is ours, or the crawl fails without a disconnect.
StatusAnswered(c, f) ==
    /\ pc[c] = "status"
    /\ IF f = ourFork
       THEN Goto(c, "metadata") /\ UNCHANGED <<who, enr, err>>
       ELSE Fail(c, "status_mismatch")
    /\ UNCHANGED <<ourFork, queues, retryTracker, cached, peerENRs, open, stop,
                   panicked, history>>

MetadataAnswered(c) ==
    /\ pc[c] = "metadata"
    /\ Goto(c, "untrack")
    /\ UNCHANGED <<ourFork, queues, retryTracker, cached, peerENRs, open, who,
                   enr, err, stop, panicked, history>>

\* The crawl has all it asked for: forget the retries.
UntrackRetries(c) ==
    /\ pc[c] = "untrack"
    /\ RetryMuFree
    /\ retryTracker' = [retryTracker EXCEPT ![who[c]] = NoEntry]
    /\ Goto(c, "report")
    /\ UNCHANGED <<ourFork, queues, cached, peerENRs, open, who, enr, err, stop,
                   panicked, history>>

\* No event for a peer that is gone or whose record is.
ReportSuccess(c) ==
    /\ pc[c] = "report"
    /\ IF Connectedness(who[c]) /\ peerENRs[who[c]] # NoENR
       THEN Report(who[c]) /\ Goto(c, "goodbye") /\ UNCHANGED <<who, enr, err>>
       ELSE Return(c) /\ UNCHANGED reports
    /\ UNCHANGED <<ourFork, queues, retryTracker, cached, peerENRs, open, stop,
                   panicked, causes, dials>>

\* DisconnectFromPeer sends a goodbye to a peer that is connected ...
SayGoodbye(c) ==
    /\ pc[c] = "goodbye"
    /\ IF Connectedness(who[c])
       THEN Goto(c, "parting") /\ UNCHANGED <<who, enr, err>>
       ELSE Return(c)
    /\ UNCHANGED <<ourFork, queues, retryTracker, cached, peerENRs, open, stop,
                   panicked, history>>

\* Variant: only an answer ends the request, not the end of the connection.
PartingUntilAnswered(c) ==
    /\ pc[c] = "parting"
    /\ Connectedness(who[c])
    /\ peerENRs' = [peerENRs EXCEPT ![who[c]] = NoENR]
    /\ ClosePeer(who[c])
    /\ Return(c)
    /\ UNCHANGED <<ourFork, queues, retryTracker, cached, stop, panicked,
                   history>>

\* ... and when its request has ended, answered or not, forgets the record
\* and closes every connection to the peer.
DisconnectFromPeer(c) ==
    /\ pc[c] = "parting"
    /\ peerENRs' = [peerENRs EXCEPT ![who[c]] = NoENR]
    /\ ClosePeer(who[c])
    /\ Return(c)
    /\ UNCHANGED <<ourFork, queues, retryTracker, cached, stop, panicked,
                   history>>

-----------------------------------------------------------------------------
(* handleCrawlFailure and scheduleRetry, in a dialer or a handler *)

\* One look at the tracker decides whether to retry; nothing holds the lock
\* until scheduleRetry takes it again.
CheckAttempts(t) ==
    /\ pc[t] = "failed"
    /\ \/ /\ ~Retryable(err[t]) \/ MaxRetryAttempts = 0
          /\ Report(who[t])
          /\ Return(t)
       \/ /\ Retryable(err[t]) /\ MaxRetryAttempts # 0
          /\ RetryMuFree
          /\ Goto(t, IF retryTracker[who[t]].attempts >= MaxRetryAttempts
                     THEN "giveUp" ELSE "lookup")
          /\ UNCHANGED <<who, enr, err, reports>>
    /\ UNCHANGED <<ourFork, queues, retryTracker, cached, peerENRs, open, stop,
                   panicked, causes, dials>>

GiveUp(t) ==
    /\ pc[t] = "giveUp"
    /\ RetryMuFree
    /\ retryTracker' = [retryTracker EXCEPT ![who[t]] = NoEntry]
    /\ Report(who[t])
    /\ Return(t)
    /\ UNCHANGED <<ourFork, queues, cached, peerENRs, open, stop, panicked,
                   causes, dials>>

\* Without a record of the peer there is nothing to dial again.
LookupENR(t) ==
    /\ pc[t] = "lookup"
    /\ IF peerENRs[who[t]] = NoENR
       THEN Report(who[t]) /\ Return(t)
       ELSE /\ Goto(t, "schedule")
            /\ enr' = [enr EXCEPT ![t] = peerENRs[who[t]]]
            /\ UNCHANGED <<who, err, reports>>
    /\ UNCHANGED <<ourFork, queues, retryTracker, cached, peerENRs, open, stop,
                   panicked, causes, dials>>

\* Variant: the attempts are counted in the copy that is sent, not the entry.
RetryNotCounted(t) ==
    [fork |-> enr[t], attempts |-> retryTracker[who[t]].attempts]

\* An entry that exists keeps the record of the first failure; only its
\* attempts go up, before the look at isShutdown.
CountedRetry(t) ==
    LET entry == retryTracker[who[t]] IN
    [fork     |-> IF entry = NoEntry THEN enr[t] ELSE entry.fork,
     attempts |-> entry.attempts + 1]

\* Variant: no second look at the attempts under the lock.
ScheduleUnchecked(t) ==
    /\ pc[t] = "schedule"
    /\ RetryMuFree
    /\ retryTracker' = [retryTracker EXCEPT ![who[t]] = CountedRetry(t)]
    /\ Goto(t, "send")
    /\ UNCHANGED <<ourFork, queues, who, enr, err, cached, peerENRs, open, stop,
                   panicked, history>>

ScheduleRetry(t) ==
    /\ pc[t] = "schedule"
    /\ RetryMuFree
    /\ IF retryTracker[who[t]].attempts >= MaxRetryAttempts
       THEN /\ retryTracker' = [retryTracker EXCEPT ![who[t]] = NoEntry]
            /\ Return(t)
       ELSE /\ retryTracker' = [retryTracker EXCEPT ![who[t]] = CountedRetry(t)]
            /\ IF isShutdown
               THEN Return(t)
               ELSE Goto(t, "send") /\ UNCHANGED <<who, enr, err>>
    /\ UNCHANGED <<ourFork, queues, cached, peerENRs, open, stop, panicked,
                   history>>

\* Still under retryMu, but isShutdown was read before: the channel may be
\* closed by now.  A full channel drops the retry that was just counted.
SendRetry(t) ==
    LET entry == retryTracker[who[t]]
        retry == [peer |-> who[t], fork |-> entry.fork,
                  attempts |-> entry.attempts] IN
    /\ pc[t] = "send"
    /\ cached' = cached \ {who[t]}
    /\ panicked' = retryQueueClosed
    /\ retryQueue' = IF retryQueueClosed \/ Len(retryQueue) >= RetryQueueCap
                     THEN retryQueue
                     ELSE Append(retryQueue, retry)
    /\ Return(t)
    /\ UNCHANGED <<ourFork, found, peersToDial, retryWorker, inHand,
                   retryTracker, peerENRs, open, stop, history>>

-----------------------------------------------------------------------------
(* The retry worker *)

RetryReceive ==
    /\ retryWorker = "idle"
    /\ retryQueue # <<>>
    /\ retryQueue' = Tail(retryQueue)
    /\ IF isShutdown
       THEN retryWorker' = "exited" /\ UNCHANGED inHand
       ELSE retryWorker' = "backoff" /\ inHand' = Head(retryQueue)
    /\ UNCHANGED <<ourFork, found, peersToDial, retryTracker, cached, peerENRs,
                   open, local, stop, panicked, history>>

\* Variant: a send that does not wait for room.
ResendUnbounded ==
    /\ retryWorker = "backoff"
    /\ panicked' = dialQueueClosed
    /\ peersToDial' = Append(peersToDial,
                             [peer |-> inHand.peer, fork |-> inHand.fork])
    /\ retryWorker' = "idle"
    /\ inHand' = NoRetry
    /\ UNCHANGED <<ourFork, found, retryQueue, retryTracker, cached, peerENRs,
                   open, local, stop, history>>

\* The backoff is over; the send waits for room.  A select with the context
\* done and the channel closed may take either branch, and the send panics.
RetryResend ==
    /\ retryWorker = "backoff"
    /\ dialQueueClosed \/ Len(peersToDial) < DialQueueCap
    /\ panicked' = dialQueueClosed
    /\ peersToDial' = IF dialQueueClosed THEN peersToDial
                      ELSE Append(peersToDial,
                                  [peer |-> inHand.peer, fork |-> inHand.fork])
    /\ retryWorker' = "idle"
    /\ inHand' = NoRetry
    /\ UNCHANGED <<ourFork, found, retryQueue, retryTracker, cached, peerENRs,
                   open, local, stop, history>>

RetryWorkerExit ==
    /\ retryWorker \in {"idle", "backoff"}
    /\ ctxDone
    /\ retryWorker' = "exited"
    /\ inHand' = NoRetry
    /\ UNCHANGED <<ourFork, found, peersToDial, retryQueue, retryTracker,
                   cached, peerENRs, open, local, stop, panicked, history>>

-----------------------------------------------------------------------------
(* Stop, one step for each thing the others can see *)

StopStep(from, to) == stopPc = from /\ stopPc' = to

StopMark ==
    /\ StopStep("running", "marked")
    /\ UNCHANGED <<ourFork, queues, retryTracker, cached, peerENRs, open, local,
                   late, leaving, parting, panicked, history>>

StopCancel ==
    /\ StopStep("marked", "cancelled")
    /\ UNCHANGED <<ourFork, queues, retryTracker, cached, peerENRs, open, local,
                   late, leaving, parting, panicked, history>>

\* After the beacon node, the cron jobs and discovery were stopped.
StopCloseRetryQueue ==
    /\ StopStep("cancelled", "retryClosed")
    /\ UNCHANGED <<ourFork, queues, retryTracker, cached, peerENRs, open, local,
                   late, leaving, parting, panicked, history>>

StopCloseDialQueue ==
    /\ StopStep("retryClosed", "dialClosed")
    /\ UNCHANGED <<ourFork, queues, retryTracker, cached, peerENRs, open, local,
                   late, leaving, parting, panicked, history>>

\* Wait for the dialers and the retry worker, but five seconds at most; then
\* stop the cache and list the known peers.
StopWaitDialers ==
    /\ StopStep("dialClosed", "sweep")
    /\ late' = ~DialersExited
    /\ leaving' = Peers
    /\ UNCHANGED <<ourFork, queues, retryTracker, cached, peerENRs, open, local,
                   parting, panicked, history>>

StopSayGoodbye(p) ==
    /\ stopPc = "sweep"
    /\ parting = NoPeer
    /\ p \in leaving
    /\ leaving' = leaving \ {p}
    /\ parting' = IF Connectedness(p) THEN p ELSE NoPeer
    /\ UNCHANGED <<ourFork, queues, retryTracker, cached, peerENRs, open, local,
                   stopPc, late, panicked, history>>

StopDisconnect ==
    /\ parting # NoPeer
    /\ peerENRs' = [peerENRs EXCEPT ![parting] = NoENR]
    /\ ClosePeer(parting)
    /\ parting' = NoPeer
    /\ UNCHANGED <<ourFork, queues, retryTracker, cached, local, stopPc, late,
                   leaving, panicked, history>>

\* node.Stop closes the swarm: every connection goes, none can be added ...
StopCloseNode ==
    /\ StopStep("sweep", "closing")
    /\ leaving = {} /\ parting = NoPeer
    /\ open' = {}
    /\ UNCHANGED <<ourFork, queues, retryTracker, cached, peerENRs, local, late,
                   leaving, parting, panicked, history>>

\* Variant: it returns while callbacks run.
StopNodeAtOnce ==
    /\ StopStep("closing", "nodeClosed")
    /\ UNCHANGED <<ourFork, queues, retryTracker, cached, peerENRs, open, local,
                   late, leaving, parting, panicked, history>>

\* ... and it returns when the callbacks of every connection have.
StopNodeClosed ==
    /\ StopStep("closing", "nodeClosed")
    /\ \A c \in Conns : pc[c] = "free"
    /\ UNCHANGED <<ourFork, queues, retryTracker, cached, peerENRs, open, local,
                   late, leaving, parting, panicked, history>>

StopClearENRs ==
    /\ StopStep("nodeClosed", "enrsCleared")
    /\ peerENRs' = [p \in Peers |-> NoENR]
    /\ UNCHANGED <<ourFork, queues, retryTracker, cached, open, local, late,
                   leaving, parting, panicked, history>>

StopClearTracker ==
    /\ StopStep("enrsCleared", "stopped")
    /\ RetryMuFree
    /\ retryTracker' = [p \in Peers |-> NoEntry]
    /\ UNCHANGED <<ourFork, queues, cached, peerENRs, open, local, late, leaving,
                   parting, panicked, history>>

-----------------------------------------------------------------------------
Stop ==
    \/ StopMark \/ StopCancel \/ StopCloseRetryQueue \/ StopCloseDialQueue
    \/ StopWaitDialers \/ (\E p \in Peers : StopSayGoodbye(p)) \/ StopDisconnect
    \/ StopCloseNode \/ StopNodeClosed \/ StopClearENRs \/ StopClearTracker

Environment ==
    \/ FetchAndSetStatus
    \/ \E p \in Peers : CacheExpires(p) \/ (\E d \in Finders : DiscoverNode(d, p))
    \/ \E c \in Conns, p \in Peers : PeerConnects(c, p) \/ RequestDials(c, p)
    \/ \E c \in Conns : RemoteCloses(c) \/ Identified(c)

Dialer(w) ==
    \/ WorkerReceive(w) \/ WorkerExit(w) \/ ConnectToPeer(w) \/ StoreENR(w)
    \/ (\E c \in Conns : DialSucceeds(w, c)) \/ DialReturns(w)

\* What a handler does by itself, and what it waits for from the peer.
Handler(c) ==
    \/ CheckPeer(c) \/ IdentifyTimeout(c) \/ DisconnectAfterFailure(c)
    \/ UntrackRetries(c) \/ ReportSuccess(c) \/ SayGoodbye(c)
    \/ HandlePeerDisconnected(c)

Answer(c) ==
    \/ MetadataAnswered(c) \/ RequestFails(c)
    \/ DisconnectFromPeer(c)
    \/ \E f \in Forks : StatusAnswered(c, f)

CrawlFailure(t) ==
    \/ CheckAttempts(t) \/ GiveUp(t) \/ LookupENR(t) \/ ScheduleRetry(t)
    \/ SendRetry(t)

RetryWorker == RetryReceive \/ RetryResend \/ RetryWorkerExit

Next ==
    /\ ~panicked
    /\ \/ Environment \/ RetryWorker \/ Stop
       \/ \E d \in Finders : QueueNode(d)
       \/ \E w \in Workers : Dialer(w)
       \/ \E c \in Conns : Handler(c) \/ Answer(c)
       \/ \E t \in Threads : CrawlFailure(t)

Spec == Init /\ [][Next]_vars

\* Goroutines that can go on do.  The response to a request is read without a
\* deadline, so for a handler and for Stop that takes a remote peer that answers
\* every request, or closes.
Fairness ==
    /\ \A d \in Finders : WF_vars(~panicked /\ QueueNode(d))
    /\ WF_vars(~panicked /\ RetryWorker)
    /\ WF_vars(~panicked /\ isShutdown /\ Stop)
    /\ \A w \in Workers : WF_vars(~panicked /\ (Dialer(w) \/ CrawlFailure(w)))
    /\ \A c \in Conns :
           WF_vars(~panicked /\ (Handler(c) \/ Answer(c) \/ CrawlFailure(c)))

AnsweringSpec == Spec /\ Fairness

-----------------------------------------------------------------------------
(* Properties *)

\* Every variable has its type, and no channel holds more than its capacity.
TypeOK ==
    /\ ourFork \in Forks
    /\ found \in [Finders -> Node \cup {NoNode}]
    /\ peersToDial \in Seq(Node) /\ Len(peersToDial) <= DialQueueCap
    /\ retryQueue \in Seq(Retry) /\ Len(retryQueue) <= RetryQueueCap
    /\ retryTracker \in [Peers -> [fork : Forks \cup {NoENR}, attempts : Nat]]
    /\ retryWorker \in {"idle", "backoff", "exited"}
    /\ inHand \in Retry \cup {NoRetry}
    /\ cached \in SUBSET Peers
    /\ peerENRs \in [Peers -> Forks \cup {NoENR}]
    /\ open \in SUBSET Conns
    /\ pc \in [Threads -> WorkerPcs \cup HandlerPcs \cup FailurePcs]
    /\ who \in [Threads -> Peers \cup {NoPeer}]
    /\ enr \in [Threads -> Forks \cup {NoENR}]
    /\ err \in [Threads -> CrawlErrors \cup {"none"}]
    /\ stopPc \in StopPcs
    /\ late \in BOOLEAN
    /\ leaving \in SUBSET Peers
    /\ parting \in Peers \cup {NoPeer}
    /\ panicked \in BOOLEAN
    /\ causes \in [Peers -> Nat]
    /\ dials \in [Peers -> Nat]
    /\ reports \in [Peers -> Nat]

\* However many crawls of one peer fail at the same time, between the look
\* handleCrawlFailure takes at the tracker and the lock scheduleRetry takes,
\* no peer is ever counted, queued or waited for past MaxRetryAttempts.
RetryBounded ==
    /\ \A p \in Peers : retryTracker[p].attempts <= MaxRetryAttempts
    /\ \A i \in DOMAIN retryQueue : retryQueue[i].attempts \in 1 .. MaxRetryAttempts
    /\ retryWorker = "backoff" => inHand.attempts \in 1 .. MaxRetryAttempts

\* A node found, a connection the peer made, a connection that a request to it
\* made again: each ends in at most one success or failure event, through all its
\* retries: handlePeerConnected and handleCrawlFailure never report a crawl
\* that goes on.
ReportsBounded == \A p \in Peers : reports[p] <= causes[p]

\* Retries end: nothing that other crawls of the same peer do to the tracker
\* (a success clears it, a failure at the limit deletes it) lets one cause
\* bring more than one dial and MaxRetryAttempts retries on the average.
DialsBounded ==
    \A p \in Peers : dials[p] <= (MaxRetryAttempts + 1) * causes[p]

\* When Stop returned and the dialers had left in time, nothing is left of
\* the pipeline and nothing can fill it again: no handler of a connection
\* outlives node.Stop to write to the maps Stop clears after it.
StoppedClean ==
    stopPc = "stopped" /\ ~late =>
        /\ \A p \in Peers : peerENRs[p] = NoENR /\ retryTracker[p] = NoEntry
        /\ open = {}
        /\ DialersExited
        /\ \A c \in Conns : pc[c] = "free"

\* Nothing happens to a peer once Stop has returned: none is dialled and none
\* connects, even by a dialer that Stop gave up on; and when there is no such
\* dialer no goroutine of the crawler moves, so no event reaches the listeners
\* and no map is written again.
QuietAfterStop ==
    [][stopPc = "stopped" =>
           /\ UNCHANGED <<dials, open>>
           /\ ~late => UNCHANGED <<pc, retryTracker, peerENRs, reports>>]_vars

\* The retry worker's wait for room in the dialers' channel ends, unless Stop
\* comes first (wiring.go:497): a dialer that has a retry to queue never waits,
\* under retryMu, for the retry worker that waits for it to take a node.
RetryServed == []<>(inHand = NoRetry \/ isShutdown)

\* A handler returns in the end, past every lock and channel on its way and its
\* wait for identify, when peers answer what they are asked.
HandlersFinish == \A c \in Conns : []<>(pc[c] \in {"done", "free"} \/ panicked)

\* Stop returns once called (a panic aside).
StopReturns == []<>(isShutdown => stopPc = "stopped" \/ panicked)

-----------------------------------------------------------------------------
(* What the code says of itself, and does not keep *)

\* wiring.go:560 "Check again if we're shutting down before sending.", and
\* crawler.go:947: the check is to keep the send off a channel Stop closed.
NoSendOnClosedChannel == ~panicked
=============================================================================
