----------------------------- MODULE CrawlerStart -----------------------------
(***************************************************************************)
(* The crawler coming up on its beacon node and going down again: the      *)
(* callback that Crawler.Start gives to the node, the fetches of our       *)
(* status (the callback's own, the cron job's and those of head events)    *)
(* and Crawler.Stop, which may come at any time.  The peers, the dialers   *)
(* and the queues are the module Crawler's.                                *)
(***************************************************************************)
EXTENDS BeaconNode

CONSTANTS
    MaxHead,        \* bound on the upstream's head and finality
    MaxEpoch,       \* bound on the wallclock
    ForkEpochs,     \* the epochs at which a fork takes effect
    FuluEpoch,      \* the one of Fulu
    BlobEpochs      \* the epochs of the blob schedule

ASSUME MaxHeadAssumption == MaxHead \in Nat
ASSUME MaxEpochAssumption == MaxEpoch \in Nat
ASSUME ForkEpochsAssumption == ForkEpochs \subseteq Nat /\ FuluEpoch \in ForkEpochs
ASSUME BlobEpochsAssumption == BlobEpochs \subseteq Nat

VARIABLES
    upstream,       \* the chain as the beacon node tells it, and the wallclock
    fetch,          \* the calls of fetchAndSetStatus
    status,         \* Crawler.status; its digest was made from two readings of
                    \*   the clock, at the epochs "since" and "until"
    step,           \* where the callback of Crawler.Start is
    host,           \* the libp2p host
    wired,          \* are the handlers registered, OnHead's included?
    discovery,      \* discovery, seen as a whole
    crons,          \* Crawler.scheduler
    onReady,        \* is OnReady closed?
    isShutdown,
    stop,           \* where Crawler.Stop is
    readyAtStop     \* (history) was OnReady closed when Stop began?

crawlerVars == <<upstream, fetch, status, step, host, wired, discovery, crons,
                 onReady, isShutdown, stop, readyAtStop>>
vars == <<nodeVars, crawlerVars>>

Fetchers == {"boot", "cron", "head"}
Idle == [pc |-> "idle", fin |-> 0, head |-> 0, epoch |-> 0]
Free(f) == fetch[f].pc = "idle"

NoDigest == <<>>
NoBlobs == -1

Init ==
    /\ NodeInit
    /\ upstream \in [fin : {0}, head : 0 .. MaxHead, epoch : {0}]
    /\ fetch = [f \in Fetchers |-> Idle]
    /\ status = [fin |-> 0, head |-> 0, digest |-> NoDigest, since |-> 0,
                 until |-> 0]
    /\ step = "off" /\ host = "off" /\ wired = FALSE /\ discovery = "off"
    /\ crons = "off" /\ onReady = FALSE /\ isShutdown = FALSE
    /\ stop = "idle" /\ readyAtStop = FALSE

-----------------------------------------------------------------------------
(* The upstream: the head moves, and may be reorganised down to finality;  *)
(* finality and the wallclock only advance.                                *)

UpstreamMoves ==
    /\ \/ \E h \in upstream.fin .. MaxHead : upstream' = [upstream EXCEPT !.head = h]
       \/ \E h \in upstream.fin .. upstream.head : upstream' = [upstream EXCEPT !.fin = h]
       \/ upstream.epoch < MaxEpoch /\ upstream' = [upstream EXCEPT !.epoch = @ + 1]
    /\ UNCHANGED <<nodeVars, fetch, status, step, host, wired, discovery, crons,
                   onReady, isShutdown, stop, readyAtStop>>

-----------------------------------------------------------------------------
(* fetchAndSetStatus.  It takes no lock until it stores the status, so the *)
(* calls interleave with each other and with the upstream.                 *)

\* The latest of these epochs by epoch e, or zero.
Latest(epochs, e) ==
    CHOOSE k \in epochs \cup {0} :
        k <= e /\ \A c \in epochs \cup {0} : c <= e => c <= k

\* A fork is named by the epoch it takes effect at, which orders them as their
\* names do.
CurrentFork(e) == Latest(ForkEpochs, e)

\* The loop of GetCurrentBlobSchedule over the entries.
ScheduleEpoch(e) == Latest(BlobEpochs, e)

\* Fulu and the forks after it have a blob schedule.
HasBlobs(fork) == fork >= FuluEpoch

\* ComputeForkDigest: no two forks and schedules have the same digest.
ComputeForkDigest(fork, blobs) == <<fork, blobs>>

Set(f, at) ==
    /\ fetch' = [fetch EXCEPT ![f] = at]
    /\ UNCHANGED status

\* A call that asks in the other order.
AskedHeadFirst == [finality |-> "head", header |-> "fin"]

\* The finality is asked for first, and the header of the head after it.
Asked == [finality |-> "fin", header |-> "head"]

AfterAsking == [finality |-> "header", header |-> "digest"]

\* FetchFinality, with the spec, wallclock and fork that only a log line uses,
\* and FetchBeaconBlockHeader.
FetchPart(f) ==
    LET pc == fetch[f].pc
    IN  /\ pc \in DOMAIN Asked
        /\ Set(f, [fetch[f] EXCEPT !.pc = AfterAsking[pc], ![Asked[pc]] = upstream[Asked[pc]]])

\* The end of fetchAndSetStatus: the whole status is replaced.
SetStatus(f, digest, since, until) ==
    /\ status' = [fin |-> fetch[f].fin, head |-> fetch[f].head,
                  digest |-> digest, since |-> since, until |-> until]
    /\ fetch' = [fetch EXCEPT ![f] = Idle]

\* A ForkDigest that takes Fulu's own epoch for the fork before.
ReadForkLate(f) ==
    /\ fetch[f].pc = "digest" /\ metadata["genesis"]
    /\ LET e == upstream.epoch
       IN  IF CurrentFork(e) > FuluEpoch
             THEN Set(f, [fetch[f] EXCEPT !.pc = "blobs", !.epoch = e])
             ELSE SetStatus(f, ComputeForkDigest(CurrentFork(e), NoBlobs), e, e)

\* ForkDigest: it reads the wallclock for the fork, and from Fulu on
\* GetCurrentBlobSchedule reads it again.
ReadFork(f) ==
    /\ fetch[f].pc = "digest" /\ metadata["genesis"]
    /\ LET e == upstream.epoch
       IN  IF HasBlobs(CurrentFork(e))
             THEN Set(f, [fetch[f] EXCEPT !.pc = "blobs", !.epoch = e])
             ELSE SetStatus(f, ComputeForkDigest(CurrentFork(e), NoBlobs), e, e)

ReadBlobs(f) ==
    /\ fetch[f].pc = "blobs"
    /\ SetStatus(f, ComputeForkDigest(CurrentFork(fetch[f].epoch),
                                      ScheduleEpoch(upstream.epoch)),
                 fetch[f].epoch, upstream.epoch)

\* An early return with an error: any of the upstream's answers may be one.
FetchFails(f) ==
    /\ ~Free(f)
    /\ Set(f, Idle)

FetchStep(f) ==
    /\ FetchPart(f) \/ ReadFork(f) \/ ReadBlobs(f) \/ FetchFails(f)
    /\ UNCHANGED <<nodeVars, upstream, step, host, wired, discovery, crons,
                   onReady, isShutdown, stop, readyAtStop>>

BeginFetch(f) ==
    /\ Free(f) /\ Set(f, [Idle EXCEPT !.pc = "finality"])
    /\ UNCHANGED <<nodeVars, upstream, step, host, wired, discovery, crons,
                   onReady, isShutdown, stop, readyAtStop>>

\* The cron job and the OnHead handler give up on a shutdown they see.
CronJob == crons = "on" /\ ~isShutdown /\ BeginFetch("cron")
HeadEvent == wired /\ ~isShutdown /\ BeginFetch("head")

-----------------------------------------------------------------------------
(* The callback that Crawler.Start registers with the node.  It does not   *)
(* look at isShutdown.                                                     *)

ToStep(from, to) ==
    /\ step = from /\ step' = to
    /\ UNCHANGED <<nodeVars, upstream, fetch, status, isShutdown, stop, readyAtStop>>

BeginCallback ==
    /\ boot = "callbacks" /\ ToStep("off", "status")
    /\ UNCHANGED <<host, wired, discovery, crons, onReady>>

\* The first fetch, with its retries.
InitialFetch == step = "status" /\ status.digest = NoDigest /\ BeginFetch("boot")

\* Fetched; or three minutes or the context are over, which is only logged.
StatusFetched ==
    /\ Free("boot") /\ ToStep("status", "host")
    /\ UNCHANGED <<host, wired, discovery, crons, onReady>>

StartHost ==
    /\ ToStep("host", "wire") /\ host' = "on"
    /\ UNCHANGED <<wired, discovery, crons, onReady>>

\* The req/resp handlers, OnHead and OnNodeRecord; then dialers and retries.
WireUpComponents ==
    /\ ToStep("wire", "discovery") /\ wired' = TRUE
    /\ UNCHANGED <<host, discovery, crons, onReady>>

StartDiscovery ==
    /\ ToStep("discovery", "crons") /\ discovery' = "on"
    /\ UNCHANGED <<host, wired, crons, onReady>>

StartCrons ==
    /\ ToStep("crons", "await") /\ crons' = "on"
    /\ UNCHANGED <<host, wired, discovery, onReady>>

\* An error of one of these steps ends the process.
CallbackFatal ==
    /\ step \in {"host", "wire", "discovery", "crons"} /\ exited' = TRUE
    /\ UNCHANGED <<crawlerVars, spec, metadata, network, loader, refresher,
                   serviceReady, boot, errs, start, healthy, cancelled>>

\* A loop on HeadSlot that ends with a head slot only.
StatusKnown == status.head # 0

\* The loop on HeadSlot ends with a head slot, or after thirty seconds of any
\* status.
WaitOver == TRUE

\* OnReady is closed, the callback returns and the node closes the channel Start waits on.
CloseOnReady ==
    /\ step = "await" /\ WaitOver
    /\ step' = "done" /\ onReady' = TRUE /\ boot' = "ready"
    /\ UNCHANGED <<spec, metadata, network, loader, refresher, serviceReady, errs,
                   start, healthy, cancelled, exited, upstream, fetch, status, host,
                   wired, discovery, crons, isShutdown, stop, readyAtStop>>

Callback ==
    \/ BeginCallback \/ InitialFetch \/ StatusFetched \/ StartHost
    \/ WireUpComponents \/ StartDiscovery \/ StartCrons \/ CallbackFatal
    \/ CloseOnReady

-----------------------------------------------------------------------------
(* Crawler.Stop. *)

ToStop(from, to) ==
    /\ stop = from /\ stop' = to
    /\ UNCHANGED <<upstream, fetch, status, step, wired, onReady>>

MarkShutdown ==
    /\ start # "idle" /\ ToStop("idle", "beacon")
    /\ isShutdown' = TRUE /\ cancelled' = TRUE /\ readyAtStop' = onReady
    /\ UNCHANGED <<spec, metadata, network, loader, refresher, serviceReady, boot,
                   errs, start, healthy, exited, host, discovery, crons>>

\* BeaconNode.Stop; MetadataService.Stop does nothing.
StopNode ==
    /\ ToStop("beacon", "crons") /\ healthy' = FALSE
    /\ UNCHANGED <<spec, metadata, network, loader, refresher, serviceReady, boot,
                   errs, start, cancelled, exited, host, discovery, crons,
                   isShutdown, readyAtStop>>

\* A shutdown that waits for nothing.
JobDoneOrNot == TRUE

JobDone == crons = "on" => Free("cron")

\* StopJobs and Shutdown of a scheduler that is there wait for the job.  Its
\* context has been cancelled, so it ends before gocron gives up waiting.
StopCrons ==
    /\ JobDone /\ ToStop("crons", "discovery")
    /\ crons' = IF crons = "on" THEN "stopped" ELSE crons
    /\ UNCHANGED <<nodeVars, host, discovery, isShutdown, readyAtStop>>

\* A restart run beside this may leave a new listener open (module Discovery).
StopDiscovery ==
    /\ ToStop("discovery", "node")
    /\ discovery' \in IF discovery = "on" THEN {"stopped", "left"} ELSE {discovery}
    /\ UNCHANGED <<nodeVars, host, crons, isShutdown, readyAtStop>>

\* The queues and dialers are stopped and the peers told before this.
StopHost ==
    /\ ToStop("node", "done")
    /\ host' = IF host = "on" THEN "closed" ELSE host
    /\ UNCHANGED <<nodeVars, discovery, crons, isShutdown, readyAtStop>>

Stop == MarkShutdown \/ StopNode \/ StopCrons \/ StopDiscovery \/ StopHost

-----------------------------------------------------------------------------
Next ==
    /\ ~exited
    /\ \/ NodeNext /\ UNCHANGED crawlerVars
       \/ UpstreamMoves
       \/ \E f \in Fetchers : FetchStep(f)
       \/ CronJob \/ HeadEvent
       \/ Callback
       \/ Stop

Spec == Init /\ [][Next]_vars

-----------------------------------------------------------------------------
(* Properties. *)

TypeOK ==
    /\ NodeTypeOK
    /\ upstream \in [fin : 0 .. MaxHead, head : 0 .. MaxHead, epoch : 0 .. MaxEpoch]
    /\ fetch \in [Fetchers -> [pc : {"idle", "finality", "header", "digest", "blobs"},
                               fin : 0 .. MaxHead, head : 0 .. MaxHead,
                               epoch : 0 .. MaxEpoch]]
    /\ status.fin \in 0 .. MaxHead /\ status.head \in 0 .. MaxHead
    /\ step \in {"off", "status", "host", "wire", "discovery", "crons", "await", "done"}
    /\ host \in {"off", "on", "closed"} /\ wired \in BOOLEAN
    /\ discovery \in {"off", "on", "stopped", "left"} /\ crons \in {"off", "on", "stopped"}
    /\ onReady \in BOOLEAN /\ isShutdown \in BOOLEAN /\ readyAtStop \in BOOLEAN
    /\ stop \in {"idle", "beacon", "crons", "discovery", "node", "done"}

(***************************************************************************)
(* A Start that returned nil has a named network and a node identity, and  *)
(* the crawler on it runs, whatever parts of the metadata the upstream     *)
(* refused (beacon.go 113-121, 293-311; metadata.go 141-158).  It does not *)
(* promise genesis, wallclock or our status.                               *)
(***************************************************************************)
ReadyMeans ==
    start = "ok" => /\ spec # "missing" /\ network \notin {"none", "error"}
                    /\ metadata["idHash"] /\ host # "off" /\ onReady

(***************************************************************************)
(* The status we tell our peers never finalises past its own head, though  *)
(* both move while they are asked for and calls overlap: finality is asked *)
(* for first and the status is stored whole (crawler.go 738-797).          *)
(***************************************************************************)
StatusConsistent == status.fin <= status.head

\* The digest that the network uses in an epoch: the fork and, from Fulu on, the
\* entry of the schedule that have taken effect and not been replaced.
Governs(k, epochs, e) ==
    /\ k \in epochs \cup {0} /\ k <= e
    /\ ~\E c \in epochs : k < c /\ c <= e

InForce(digest, e) ==
    /\ Governs(digest[1], ForkEpochs, e)
    /\ IF HasBlobs(digest[1]) THEN Governs(digest[2], BlobEpochs, e)
                              ELSE digest[2] = NoBlobs

(***************************************************************************)
(* The fork digest of our status was in force at some epoch between the    *)
(* two readings of the clock that made it.  It mixes a fork with the blob  *)
(* schedule of another only if both a fork and, then or later, an entry of *)
(* the schedule took effect between the readings (beacon.go 202-288).      *)
(***************************************************************************)
DigestValid ==
    status.digest # NoDigest =>
        \/ \E e \in status.since .. status.until : InForce(status.digest, e)
        \/ \E fork \in ForkEpochs, blobs \in BlobEpochs :
              status.since < fork /\ fork <= blobs /\ blobs <= status.until

(***************************************************************************)
(* A crawler that was ready when Stop began has, when Stop is done, a      *)
(* closed host, a discovery told to stop, no cron job on its way and a     *)
(* node that is not healthy (crawler.go 284-407).  A Stop during the start *)
(* promises nothing of this: the callback goes on and opens what Stop has  *)
(* passed.  A discovery told to stop may have left a listener open.        *)
(***************************************************************************)
StoppedQuiet ==
    stop = "done" /\ readyAtStop =>
        /\ host = "closed" /\ discovery \in {"stopped", "left"} /\ crons = "stopped"
        /\ Free("cron") /\ ~healthy

-----------------------------------------------------------------------------
(***************************************************************************)
(* Goroutines run, timers fire and a fetch ends.  The three minutes of the *)
(* first fetch pass between two attempts, hence the strong fairness.       *)
(***************************************************************************)
FairSpec ==
    /\ Spec
    /\ WF_vars(~exited /\ (ServicesStarted \/ StartReturn) /\ UNCHANGED crawlerVars)
    /\ WF_vars(~exited /\ (BeginCallback \/ StartHost \/ WireUpComponents
                           \/ StartDiscovery \/ StartCrons \/ CloseOnReady))
    /\ WF_vars(~exited /\ FetchStep("boot"))
    /\ SF_vars(~exited /\ StatusFetched)

(***************************************************************************)
(* Once the metadata service has reported, or the context has ended, Start *)
(* returns, unless the process dies of a Fatal: no wait of the callback is *)
(* without an end (beacon.go 113-121, crawler.go 191-203, 255-271).        *)
(***************************************************************************)
StartReturns == serviceReady \/ cancelled ~> start # "waiting" \/ exited
=============================================================================
