# A specification of ethcore

TLA+ models of the concurrent parts of `ethpandaops/ethcore`, the TLC runs that
check them on small instances, and TLAPS proofs of what holds for every
instance. Line numbers refer to the repository's files. `PROJECT.json` maps each
definition to the lines it models.

Contents: [system](#the-system) · [modules](#modules-and-how-they-follow-the-code)
· [runs](#runs-and-bounds) · [fairness](#fairness) · [proofs](#proofs) ·
[disagreements](#where-code-and-comments-disagree) ·
[limits](#what-is-not-modelled) · [next](#what-may-come-next).

## The system

ethcore is a library of Ethereum peer-to-peer building blocks in Go. Its parts,
what they keep, and who calls whom:

| Part | State | Operations | Talks to |
|---|---|---|---|
| Crawler (`consensus/mimicry/crawler`) | `peersToDial` and `retryQueue` (buffered channels), `retryTracker`, `peerENRs`, duplicate cache, status, shutdown flag | discovery intake, dial, `handlePeerConnected`, `handlePeerDisconnected`, `handleCrawlFailure`, `scheduleRetry`, retry worker, `fetchAndSetStatus`, `Start`, `Stop` | host, reqresp, discovery, beacon node, cache |
| Crawler request handlers | none | answer status, metadata, ping, goodbye | reqresp |
| Req/resp (`p2p/req*.go`) | handler table | `SendRequest`, register handlers | host streams |
| Host (`mimicry/host`) | libp2p host, emitter | connect, disconnect, callbacks for each connection | libp2p |
| Gossipsub v1 (`p2p/pubsub/v1`) | `subscriptions` (under `subMutex`), `processors` (under `procMutex`), registry, started flag | `Subscribe`, `Cancel`, `Publish`, remover and processor goroutines, `Stop`; `SubnetSubscription` | libp2p pubsub |
| Execution client (`execution/mimicry`) | connection, eth version, `statusSent`, `pooledTransactionsMap` | `Start`, session loop, `GetPooledTransactions`, `Transactions`, message handlers, `Stop` | remote node, its broker |
| Discovery (`discovery`) | listener, scheduler, boot nodes, started flag (under `mu`) | `Start`, restart job, `UpdateBootNodes`, listen loop, `filterPeer`, `Stop` | crawler |
| Beacon node (`ethereum`) | metadata (spec, genesis, identity), network, readiness callbacks | `Start`, refresh, `OnReady`, `ForkDigest`, `Stop` | beacon API, crawler |
| Duplicate cache (`cache`) | expiring keys | `Set`, expiry | crawler |
| Networks, clients, serialization, ENR, topics, compression | none | lookups and conversions | all |
| Kurtosis test utilities (`testutil/kurtosis`) | lock file, reference counts | acquire, release, shared networks | test processes |

What makes these parts hard, and what they must keep:

* **Crawler.** libp2p runs one callback for each *connection*, not for each
  peer; callbacks, dialers, the retry worker, discovery and `Stop` share two
  channels and two maps. A failing crawl reads the tracker, drops the lock, and
  takes it again. To keep: retries bounded, each cause of a crawl reported at most once,
  no wait of everyone on everyone, a clean `Stop`.
* **Execution client.** The session loop hands a response over an unbuffered
  channel while it holds a mutex that the waiting caller needs to leave. To
  keep: no send on a closed channel, a map that follows the calls, calls that
  end.
* **Gossipsub.** Both maps are keyed by topic name and changed by goroutines of
  different subscriptions, under different mutexes, one of them taken inside
  the other by `Subscribe` and held by `Stop` while it waits. To keep: a live
  subscription stays served, a running processor stays reachable, handlers see
  validated messages, cancels and `Stop` end.
* **Req/resp.** The two ends of a stream fail one by one, half a response may
  be out when an error comes, and the client reads without a deadline. To keep:
  one response for a request, a client that is always woken, ends that agree on
  what the statuses were.
* **Execution session.** The remote orders the messages as it likes, and
  compression and message layouts change with the Hello it repeats. To keep:
  one Status, the right version, one disconnect event, a session that ends.
* **Discovery.** The restart job, `Start`, `Stop` and the listening goroutines
  take `mu` for one field access at a time. To keep: a scheduler while started,
  no listener lost, new boot nodes used.
* **Start of crawler and beacon node.** Start waits for a chain of goroutines,
  each of which may give up on its own; three callers fetch the status while the
  chain moves. To keep: ready means ready, a consistent status, a digest that
  was in force, `Start` that returns, `Stop` that leaves nothing.
* **Topic handlers.** Patterns in a map, names that begin alike, handlers with
  optional parts, a message decoded twice, a set of subscriptions with handles
  owned elsewhere. To keep: the right handler, one report of a bad payload, no
  subscription that runs on after leaving the set.

`PROJECT.json` lists every part with its status, and under `hazards` each place
where the code is hard to test.

## Modules, and how they follow the code

### Crawler

`Crawler.tla` models `crawler.go` and `wiring.go` with what they use of the
host, the cache, discovery and the beacon node.

* A goroutine is an element of `Workers` (dialers) or `Conns`. A member of
  `Conns` is a connection *and* the `handlePeerConnected` call libp2p makes for
  it; it goes back to `"free"` when `handlePeerDisconnected` has run. `pc`,
  `who`, `enr`, `err` are a goroutine's program counter and locals.
* `peersToDial` and `retryQueue` are bounded sequences. `found` has, for each
  discovery goroutine (`Finders`), the node between the last look at
  `isShutdown` and the send; the same gap is the `"send"` step of
  `scheduleRetry`. A send on a closed channel sets `panicked`,
  and nothing runs after it.
* `retryMu` is not a variable: it is held exactly while a goroutine is at
  `"send"`, since every other critical section is one step.
* The fork digest stands for the network: a node advertises one, our status
  has one (`ourFork`), a status answer has one. `FetchAndSetStatus` sets
  `ourFork` to any other digest at any moment, after `Stop` too: fetches overlap,
  and the one stored last may be an older one.
* A dialer at `"dialled"` has its connection and waits for identify, to add the
  protocols; the connection's own handler runs meanwhile. A dial may still succeed
  after the context is cancelled, until the swarm is closed.
* Connections come from a dial of ours (`DialSucceeds`), from the peer
  (`PeerConnects`), and from a request of ours to a peer whose connection is gone
  (`RequestDials`): `NewStream` dials again, no option forbids it.
* `Stop` is one step for each thing another goroutine can observe: the flag,
  the context, each channel, the wait for the dialers (which may give up:
  `late`), each goodbye in two halves, the close of the swarm, the wait for the
  callbacks, each of the two maps.
* Errors of a crawl are of two kinds, for `isRetryableError` tells only those two
  apart: a status with another digest, and everything else.
* Timers fire at any moment after they are set. `causes`, `dials` and `reports`
  are history variables the bounds are stated with: what brought the crawls of a
  peer (a node found, a connection the peer made, or one that a request to it made
  again), our own dials, and events.

### PooledTransactions

`PooledTransactions.tla` models `GetPooledTransactions`,
`handlePooledTransactions` and the session loop around them. A caller stands
for its 64-bit random request id. `LockWrite` takes the lock of `writeRLPx`,
`SendRequest` is the return of its write, which has no deadline. `session = "send"` is the loop blocked on the
unbuffered channel with `pooledTransactionsMux` held (`MuxFree`). The map read
in the `select` expression is made without the mutex: beside a writer it may
end the process (`crashed`) or do nothing. `Contract` instantiates
`RequestContract`: the answer to a call is the response the session has taken for
it, handed over or not.

### Gossipsub and SubscriptionContract

`Gossipsub.tla` models subscriptions. A member of `Subs` is one call of
`Subscribe` and what a successful one makes: the handle, the processor with its
`run` goroutine, and the goroutine that waits for the context and calls
`removeProcessor`.

* `subMutex` is held from `CheckSubscribed` to `StoreSubscription`
  (`SubMutexFree`); `procMutex` by a remover at `"taking"` and by `Stop` at
  `"procs"` (`ProcMutexFree`).
* `RemoverTake` takes *whatever* processor its topic has, as the code does.
* The second write of `processors` (line 294) is outside `procMutex`; if
  another goroutine holds it then, the step may set `raced` and end the process.
* Two contexts end a subscription: `SubDone` (its own, or the caller's) wakes
  the remover, `ProcDone` (the processor's, or the caller's) ends `run`.
* libp2p's pubsub is external. What is assumed of it is what the code relies
  on: one goroutine serves calls; `RegisterTopicValidator` refuses a second
  validator and `Join` a topic joined before; the old `Publish` joins its topic;
  validators are looked up when a message arrives; after its context is
  cancelled it may serve some more calls before it exits.

`SubscriptionContract.tla` is what a caller may rely on, without maps, mutexes
and goroutines: a call is refused or served, a topic is served to one call at a
time, an end (the caller's, or one of `Stop` for several) cannot be taken back,
and once the subscription is left its handler is given nothing more, though
handlers may still run. `Gossipsub` instantiates it: a call is served from its
return to the exit of its `run` goroutine, and ended when either context is.
`Serve` allows for an end that is there already, since `Stop` stops a processor
that a `Subscribe` under way has just filed.

### ReqResp and RequestContract

`ReqResp.tla` models a call of `SendRequest` with the stream it opens and the
handler at the other end: `client[c]` and `server[c]` are their program
counters, `up` and `down` the two directions, `read` how much of `down` the
client has taken. The five kinds of protocol differ in what their handlers do
when something fails: status and goodbye write an error for a request they
cannot read, goodbye writes one for a response it could not send, ping and
metadata only close, and the dummy handler does not even close
(`AfterFailedRefusal`). A write may fail before or after the bytes are out. The
varint operators at the end belong to the raw-bytes calls of `req.go` and
`resp.go`; they are parameterised by the width of a group and of a word, so that
all lengths of a small word can be compared.

`RequestContract.tla` is what a caller may rely on, without streams: a call is
made, answered once, and returns that answer or fails, once. `ReqResp`
instantiates it with the calls' outcome and the answer that is on the stream, and
`KeepsContract` is the refinement.

### ExecutionSession

`ExecutionSession.tla` models `client.go`, the messages other than pooled
transactions, and `publish.go`. A message has a kind and a content; `garbled`
says that it cannot be decoded as it is. `out` and `events` are what a session
has written and published so far. An action `Handle` is one iteration of the
loop: publish, then write, then `SessionError` where the code returns an error.
Providers (Status, headers, bodies, receipts) are choices: a value, none, an
error. `HandlePooledTransactions` hands a response over in that one step; `MayBlock`
are the states in which the loop may stay for ever, in that hand-over or in a write
on a connection nobody has closed. The client's fields survive `Start`; a second session begins with
`statusSent` as the first left it.

### Discovery

`Discovery.tla` models `disc_v5.go`, with `mu` as the grain of its steps. A slot
of `Runs` is one run of the restart job, the listener it opens and the goroutine
it leaves behind; `iterated` are the listeners a goroutine takes nodes from,
which is the listener `d.listener` had when the goroutine looked, not always
the run's own. gocron starts runs in each interval whether or not the last has
ended. `DiscV4` has the same code; `FilterPeerV4` is its filter.

### BeaconNode and CrawlerStart

`BeaconNode.tla` models `Start` of the node, the callback that the beacon
library runs when the upstream is healthy for the first time, and the metadata
service: its loader, its refresh job, the derivation of the network and of the
node identity, the one-time callback that reports readiness. `RefreshAll` stores
any subset of the parts, as the code does when fetches fail. A `Fatal` log sets
`exited`.

`CrawlerStart.tla` extends it with the callback of `Crawler.Start` (`step`), the
three callers of `fetchAndSetStatus` (`fetch`), each request to the upstream a
step of its own, and `Crawler.Stop` (`stop`). `upstream` is external: the head
may be reorganised down to finality, finality and the clock only advance. A fork
is named by the epoch it takes effect at; those from `FuluEpoch` on have the blob
schedule in their digest, which is made from two readings of the clock
(`ReadFork`, `ReadBlobs`). Discovery is seen as a whole: after its `Stop` it is
`"stopped"`, or `"left"` with the listener of a restart run still open. The
queues, dialers and peers are `Crawler`'s.

### TopicHandlers

`TopicHandlers.tla` models `registry.go`, `topic.go`, `handler.go`, the
validator and processor functions and `SubnetSubscription`. A handler is the set
of its options; `Wrap` is what `Register` makes of them. A name is a fork digest
and a sequence of words, which is all that `ParseSubnet` looks at; where prefix and
suffix overlap in a name (`Overlaps`), it panics as the code's slice does.
`GetHandler` gives the *set* of handlers a map iteration may return, with
`Panicked` when it may panic first. A subscription handle is
anything that `Cancel` can be called on; `displaced` remembers which handles a
`Set` has replaced.

A component's proofs are in the module of its name with `Proofs`, which extends
it; `MC*.tla` declare the model values TLC uses (`MCTopicOverlap` a second instance of
`TopicHandlers`). Operators commented "Variant" are
mutated forms of the definition after them: each property of a passing run is
shown to fail when the variant takes the definition's place.

## Runs and bounds

| Run | Instance | Shows |
|---|---|---|
| `crawler` | one peer, two connections, one dialer, two discovery goroutines, two causes, one retry, both queues of capacity 1, two fork digests | `TypeOK`, `RetryBounded`, `ReportsBounded`, `DialsBounded`, `StoppedClean`, `QuietAfterStop` |
| `crawler_live` | one connection, one discovery goroutine, one digest, three causes, otherwise the same | `RetryServed`, `HandlersFinish`, `StopReturns`, when peers answer or close |
| `pooled` | two callers, two responses to each | `OpenWhileSending`, `ChannelPerCall`, `KeepsRequestContract`, `CallReturns` |
| `gossipsub` | two topics, one with a validator, two calls, one message of that topic | `LiveServed`, `ProcessorOwned`, `HandledChecked`, `KeepsSubscriptionContract`, `CancelledRemoved`, `StopReturns` |
| `reqresp` | one call of any protocol, two digests, groups of 2 bits in words of 5 | `OneResponse`, `UpdatesAgree`, `RequestReturns`, `KeepsContract`, `VarintCorrect` |
| `discovery` | two Starts, two slots, two lists of boot nodes | `StartedHasScheduler`, `NeverOwnIdentity`, `ListenersKept`, `BootNodesUsed` |
| `session` | two sessions, three messages each, one `Transactions` | `DisconnectOnceAndLast`, `OneStatus`, `StatusAnswered`, `NegotiationSound`, `SessionEnds` |
| `startup` | two kinds of spec, head and finality up to 1, epochs 0 to 3, forks at 1 (Fulu) and 3, blob schedules at 2 and 3 | `StatusConsistent`, `DigestValid`, `StoppedQuiet`, `StartReturns` |
| `topics` | two patterns of two subnets, a plain topic, with and without a digest, three configurations, two handles | `HandlerChosen`, `InvalidReportedOnce`, `LeftCancelled` |
| `crawler_closed_send`, `gossipsub_race`, `topics_overlap` | as above, or smaller; one pattern and one plain topic | a counterexample each: see [below](#where-code-and-comments-disagree) |

Why the bounds are enough:

* *Crawler.* Every map is indexed by peer, so goroutines that interfere work on
  the same peer; for safety, peers meet only in the two channels, where a capacity
  of 1 already makes every send find the channel full.
  Two connections, a dialer and the retry worker give up to four goroutines on one
  peer, which is what the window between the look at the tracker and the lock needs. One retry reaches
  the limit and what lies beyond it. A second digest is needed for a mismatch
  and for a status that changes in mid-crawl. Two discovery
  goroutines may both be past the look at `isShutdown`. `MaxCauses` bounds the
  environment, and what a request may dial again: it is three in `crawler_live`,
  since the retry worker waits for the dialer only with one crawl in its own hand,
  one in the full channel and one with the dialer.
* *PooledTransactions.* Two callers share the map and the mutex; a second
  response with the same id is what blocks the session.
* *Gossipsub.* Two calls are an old and a new subscription of one topic, or two
  topics that share the mutexes. Each message passes on its own, so one is
  enough for `HandledChecked`; it is of the topic with a validator (`Sources`),
  since one of the other topic passes the same way with nothing to be checked.
* *ReqResp.* Calls share only the status and the table of handlers, and
  `SetStatus` and `RegisterHandler` may come at any step: a second call would add
  nothing. A word of 5 bits has three groups, the last one cut short, as the
  tenth group of 64 bits is; `MaxLength` = 20 is neither a power of the base nor
  the largest word.
* *Discovery.* Two overlapping runs are what replaces a listener; two Starts let
  one meet the scheduler of the other, with `Stop` between them.
* *ExecutionSession.* Three messages are Hello, Status and one more in any
  order, or any of them twice. The second session starts with the fields the
  first one left.
* *Startup.* Two of the three fetches are needed for an overlap; a head that can
  fall back to finality needs one step of each; epoch 1 brings
  Fulu, epoch 2 an entry of the blob schedule, and epoch 3 a later fork and an
  entry with it, so that a fork, an entry or both change between two readings of
  the clock. The spec kinds are one that can be overridden and one that cannot be
  named.
* *TopicHandlers.* A pattern is a prefix of another's topics, a plain topic of
  both, which is where a wrong match would come from. The registry, a message
  and the set of subscriptions share nothing but the lookup.

`CHECK_DEADLOCK FALSE` is set in all but `topics`: each system may stop, after
`Stop` or when every call is done. Waiting of everyone on everyone is caught by the
liveness properties instead.

The properties worth a word:

* `ReportsBounded`, `DialsBounded`: a crawl passes through five places that
  may report it and three that may queue it again, in any of several
  goroutines. A node found, a connection made by the other side, or one that a
  request of ours made again causes at most one event and at most
  `MaxRetryAttempts + 1` dials, whatever other crawls of the peer do to the tracker
  meanwhile. They bound from above: a
  crawl that loses its record, or a retry dropped at a full queue, ends without an
  event, as the code lets it.
* `RetryServed`: the retry worker waits for the dialers to take a node, and the
  dialers queue retries under `retryMu`. Nobody waits for everybody because
  `scheduleRetry` never waits for room and the worker takes no mutex; the mutant in
  which the worker holds `retryMu` over its send blocks both, for good.
* `CallReturns`: the session that sends to a call past its select and the call
  that waits for the session's mutex wait for each other. The property says that
  for a call past its write, or whose connection is lost, this is the only thing
  that keeps it from returning (a write, its own or one it waits behind, need not
  return); the theorem `DeadlockStays` adds that no timer, no end of the connection and no other call
  resolves it.
* `KeepsRequestContract`: the timer of a call may fire while its response is in
  the session's hands. The unbuffered channel is what keeps such a response from
  a call that has failed; the mutant has one channel for all calls, and hands a
  response to another call that waits.
* `KeepsSubscriptionContract`: the next call for a topic is served only when the
  goroutine of the one before has gone; `JoinReused` breaks it, for `Subscribe`
  passes over a cancelled entry before its remover has stopped anything.
* `QuietAfterStop`: a listener for events may be torn down once `Stop` has
  returned, unless it gave up on a dialer; dials and connections are excluded even
  then.
* `StoppedClean`: maps cleared after `node.Stop` stay clear only because
  `node.Stop` waits for the callbacks. The property excuses the case `late`,
  when `Stop` gave up on a dialer after five seconds, and that case is real.
* `LiveServed`, `ProcessorOwned`: a remover works by topic name and may come
  late. What protects a newer subscription is that `Join` refuses a topic for
  ever after; the mutant that allows it shows the remover taking the newer
  subscription's processor. The refusal is itself a disagreement (below), and a
  repair of it must also make the remover look at what it removes.
* `StopReturns` of Gossipsub excuses a subscription that slipped through:
  `started` is reset last, so a `Subscribe` beside `Stop` may be served by a
  pubsub that has not noticed its context yet, and `Stop` then waits for that
  subscription's caller. When `Stop` has dropped the maps such a subscription
  no longer finds its processor; the properties say "until Stop drops the maps".
* `OneResponse` and `RequestReturns` belong together: since a client's read has
  no deadline, it depends on the other end to close. The two
  excused cases (goodbye's second response, the dummy handler's open stream) are
  what the code does.
* `UpdatesAgree`: the handler looks at its status once and both answers and
  compares with that copy; the mutant that looks twice makes the ends disagree.
* `ListenersKept` says how a listener can get lost at all: closing the old one
  and installing the new one are two critical sections, and an overlapping run
  can install in between. Every other loss is excluded.
* `StatusConsistent`: fetches overlap and an older one may be stored last, but
  finality is asked for before the head within each, so no status finalises past
  its head.
* `DigestValid`: `ForkDigest` reads the clock twice. The digest is one that was in
  force at some epoch between the readings, with one exception that the code
  makes possible: a fork takes effect, and with it or after it an entry of the
  schedule, both between the readings; the digest then mixes the fork before with
  the entry after. Forks alone, entries alone, or an entry before a fork never do.
* `SessionEnds`: reads have deadlines and handlers go on, so a session whose remote
  falls silent ends, and so does a stopped one. Excused are those that stay in
  `MayBlock` for ever: a remote that stops reading holds a write, and a call past
  its select holds the hand-over (`DeadlockStays`).
* `LookupReturns` is the one property of topics that the code violates; for the
  patterns of `topics`, which are told apart, `HandlerChosen` includes that no
  lookup panics.
* `StoppedQuiet` is about a `Stop` that finds the crawler ready. One that runs
  beside the callback of `Start` promises nothing: the callback does not look at
  the flag. Nor does it promise that discovery's listener is closed: it may be
  `"left"` open.

## Fairness

Fairness is given to goroutines of the program that can go on, and nothing else:
Go's scheduler is fair to runnable goroutines, a `select` with a ready branch
returns, its mutexes serve waiters in order.

* *Crawler.* `AnsweringSpec` is fair to each goroutine, and has peers that answer
  or close: a response is read with no deadline, so a silent peer holds a handler,
  and `Stop` in its goodbye, for as long as it likes. A discovery goroutine past
  its checks is fair, for its send has a default branch. Discovery
  itself, remote connections, `RequestDials`, status fetches, cache expiry and the
  call of `Stop` have no fairness.
* *PooledTransactions.* Callers and the hand-over are fair: the timer of a call
  fires and a send meets a caller that stays in its select. A call at its write is
  not: `Start` clears the deadlines (`client.go:149`) and the session sets one for
  reads only (224), so a write returns when the remote reads, or when the
  connection is lost. The remote, the connection and the session's reads are not
  fair either.
* *ReqResp.* Both ends of a stream are fair: the server's reads and writes have
  deadlines. Nothing makes a silent stream end for the client.
* *Discovery.* The goroutines of `Start`, `Stop` and the runs are fair, and a
  running scheduler keeps starting runs, which is gocron's interval.
* *ExecutionSession.* Dial, handshake and each read have a deadline, after which
  they fail. `SendHello` and `Handle` are fair outside `MayBlock`: a handler that
  only decodes and publishes goes on, and a write on a closed connection fails;
  a write on an open one and the hand-over of a response need not return. The
  remote is not fair.
* *CrawlerStart.* The goroutines of `Start` and its callback are fair, and so is
  the first fetch, whose requests have timeouts. Its retries end after three
  minutes, at a moment between two attempts, hence strong fairness for
  `StatusFetched`. The upstream, the loader and the remaining fetches are not
  fair: `StartReturns` begins once the metadata service has reported.
* *Gossipsub.* `Subscribe`, removers, `run` loops that were told to end, `Stop`
  and the exit of pubsub are fair. Callers and handlers are not: a handler may
  never return. Weak fairness suffices because the calls competing for a mutex
  are finitely many in the model.

## Proofs

TLAPS checks all proofs with SMT, Zenon and LS4, for every value of the constants
that meets the ASSUMEs of the modules. They say that

* sets that play different parts are disjoint and each "none" value lies outside
  what it extends (`CrawlerAssumption`, `PooledAssumption`, `ReqRespAssumption`,
  `GossipsubAssumption`, `DiscoveryAssumption`, `SubsAssumption`: `Add` refuses a
  nil subscription);
* groups and words of a length prefix have at least one bit, and the largest
  accepted length fits a word (`VarintAssumption`; the code has 7, 64 and
  10,000,000);
* bounds, versions and epochs are natural numbers, the crawler's channels have room
  for one element, and Fulu is one of the forks (also `SessionAssumption`, and
  `CrawlerStart`'s, `ForkEpochsAssumption` among them);
* `TopicHandlers` has topics made of words, and numbers as `ParseUint` takes
  them: less than 2^64, a word for every subnet (`NumbersAssumption`).

`RightHandler` has one hypothesis more, `Separate`: no registered topic or
pattern can be read as another one, and in none of their names do the prefix and
the suffix of a pattern overlap (`ParseSubnet` panics there; `topics_overlap` is
such a case). The code does not check it; the beacon
chain's names satisfy it, as `MCTopicHandlers` asserts for those of its run.

| Theorem | Statement |
|---|---|
| `CrawlerProofs!TypeCorrect` | `Spec => []TypeOK`, which includes the channels' capacities |
| `CrawlerProofs!RetriesBounded` | `Spec => []RetryBounded` |
| `CrawlerProofs!StopLeavesNothing` | `Spec => []StoppedClean` |
| `CrawlerProofs!OneReportEach` | `Spec => []ReportsBounded` |
| `CrawlerProofs!RetriesEnd` | `Spec => []DialsBounded` |
| `CrawlerProofs!NothingAfterStop` | `Spec => QuietAfterStop`, an action property |
| `PooledTransactionsProofs!NeverSendsOnClosedChannel` | `Spec => []OpenWhileSending` |
| `PooledTransactionsProofs!MapFollowsCalls` | `Spec => []ChannelPerCall` |
| `PooledTransactionsProofs!ContractKept` | `Spec => KeepsRequestContract`: `PooledTransactions` implements `RequestContract` |
| `PooledTransactionsProofs!DeadlockStays` | `Spec => StuckForGood`, an action property |
| `ReqRespProofs!TypeCorrect` | `Spec => []TypeOK` |
| `ReqRespProofs!ResponseOnce` | `Spec => []OneResponse` |
| `ReqRespProofs!OnlyDummyOpen` | `Spec => []OnlyDummyLeavesOpen` |
| `ReqRespProofs!EndsAgree` | `Spec => []UpdatesAgree` |
| `ReqRespProofs!ContractKept` | `Spec => KeepsContract`: `ReqResp` implements `RequestContract` |
| `ReqRespProofs!LengthsSurvive` | `Spec => []VarintCorrect` |
| `TopicHandlersProofs!AlwaysDecodes` | `Spec => []DecoderThere` |
| `TopicHandlersProofs!ReportedOnce` | `Spec => []InvalidReportedOnce` |
| `TopicHandlersProofs!NoneLeftRunning` | `Spec => []LeftCancelled` |
| `TopicHandlersProofs!RightHandler` | `ASSUME Separate PROVE Spec => []HandlerChosen` |
| `CrawlerStartProofs!TypeCorrect` | `Spec => []TypeOK` |
| `CrawlerStartProofs!ReadyTrue` | `Spec => []ReadyMeans` |
| `CrawlerStartProofs!StatusSound` | `Spec => []StatusConsistent` |
| `CrawlerStartProofs!DigestSound` | `Spec => []DigestValid` |
| `CrawlerStartProofs!StopQuiets` | `Spec => []StoppedQuiet` |
| `GossipsubProofs!TypeCorrect` | `Spec => []TypeOK` |
| `GossipsubProofs!LiveIsServed` | `Spec => []LiveServed` |
| `GossipsubProofs!RunningIsOwned` | `Spec => []ProcessorOwned` |
| `GossipsubProofs!OnlyCheckedHandled` | `Spec => []HandledChecked` |
| `GossipsubProofs!ContractKept` | `Spec => KeepsSubscriptionContract`: `Gossipsub` implements `SubscriptionContract` |
| `DiscoveryProofs!SchedulerThere` | `Spec => []StartedHasScheduler` |
| `DiscoveryProofs!OwnIdentityKept` | `Spec => []NeverOwnIdentity` |
| `DiscoveryProofs!ListenersInSight` | `Spec => ListenersKept`, an action property |
| `ExecutionSessionProofs!DisconnectsOnce` | `Spec => []DisconnectOnceAndLast` |
| `ExecutionSessionProofs!StatusOnlyOnce` | `Spec => []OneStatus` |
| `ExecutionSessionProofs!StatusIsAnswered` | `Spec => []StatusAnswered` |
| `ExecutionSessionProofs!BestVersion` | `Spec => []NegotiationSound` |

Each module has an inductive invariant, which TLC checked on the run's instance
before it was proved, and one proof step for each action.

*Crawler.* `IInv` has six parts: `Pipeline` (channels and retry worker),
`Tracker`, `Swarm`, `Moving` (a goroutine past its first step has a peer, and
holds a record where it uses one), `Holding` and `Rest`. `RetryBounded` alone is
not inductive: the entry sent at `"send"` was counted a step earlier, and the
send is typed only if nobody has deleted the entry since. `Holding` says so; it
is kept because the goroutine at `"send"` holds `retryMu`, which every deletion
asks for. For `StopLeavesNothing`, `Swept` adds what each stage of `Stop` has
established by then: connections closed once the node is closing, handlers gone
once it is closed, records cleared, then the tracker, with the dialers' exit
carried along unless `late`. `NothingAfterStop` needs no more: what `Swept` says
of a `Stop` that has returned disables each step that would move something.

`ReportsBounded` and `DialsBounded` count. A crawl of a peer under way is in
exactly one place: `Queued` (found, in a channel or in the retry worker's hand),
or with a goroutine that is `Busy`, `Sending` a retry or `Reporting`.
`CrawlsPaid` says that these and the reports made are together no more than the
causes. `RetriesPaid` reserves `MaxRetryAttempts` dials for each crawl under
way, those apart that the tracker has counted; a crawl that resets the tracker is
no longer under way, so what it had reserved is free. `Held` counts the discovery
goroutines that have found a node. `Turn` lists what a step of
a goroutine can do to those counts, and `CausePays`, `SendPays`, `ReceivePays`
and `TurnPays` do the arithmetic once for each kind of step.

*PooledTransactions.* `IInv` is the type invariant and the two properties
together: the session blocked in its send leaves the map alone because each
writer needs the mutex it holds. The refinement adds `Settled`: a call has an
outcome once it is past its select and not before, and the session holds a
response exactly while it sends. A step then changes what the contract sees of
one call at most (`OneView`, `SameView`).

*ReqResp.* A stream belongs to one call, so the invariant is a conjunction over
calls: what is on the stream is a function of the handler's step and the protocol
(`Written`), which ends are closed follows from the two steps (`Closed`), and so
does what either has reported (`Compared`, `Answered`). `MapStep` and
`CallRefines` take each step of a call to one of `RequestContract` or a stutter.
`LengthsSurvive` is about numbers alone and is an induction: the theorems of the
library take an operator as a parameter, which the provers cannot instantiate, so
`SetInduction` derives induction for a set of numbers from counting finite sets,
`CompleteInduction` follows, and `Recursion` says that a function defined by
recursion is what its definition reads. `Shift`, `WriteVarint` and `Sums` are such
functions. `WriteThenAdd` then shows that the sum over the groups written for `n`
is `n`, and `WriteIsShort` that a word's groups are never too many.

*TopicHandlers.* `Registered`, `Carried`, `Counted` and `Handles` are about the
registry, the message under way, its reports and the subscriptions. For
`RightHandler`, a name has a number enclosed by the prefix and suffix of one
pattern only; `PrefixIs`, `SuffixIs` and `ParseIs` say what the operators on
sequences return.

*CrawlerStart.* `FetchesSound` relates what a fetch has read so far to the
upstream: the finality it read first is never past a head read later, since
reorganisations stop at the finalised epoch. For `DigestSound`, `LatestGoverns` says
that the fork and the entry read are those of the epoch they were read at, and
`LaterSchedule` compares the two: were the digest in force at no epoch between them,
both a fork and a later entry would have come in between. `NodePart`, `StartPart` and
`StopPart` say what each stage of `Start` and `Stop` has set or closed.

*Gossipsub.* `Join` refuses a topic that is joined, so at most one call is past it
for a topic (`OneJoined`), as one at most is inside a critical section
(`OneInside`). `Filed` and `Found` then say which maps hold that call's
subscription and processor, `RemoverSound` that a remover finds its own, and
`ServedUntilStop` and `ValidatorKept` that nobody else takes them away. The
refinement follows from the same invariant: `StoreServes` finds the topic free by
`OneJoined`, `Moves` takes a step that moves one call, `Ends` one that only ends
subscriptions.

*Discovery.* `SchedulerDue` says that what is started has a scheduler, or a
`Start` that is to store one or failed to. `StopApart` says that a `Stop` which
closed its listener holds none, and never the installed one, `HeldOpen` that a
listener in someone's hands is open, and `SlotsApart` that a run in progress has no
goroutine that iterates.

*ExecutionSession.* `Outcome` lists the eleven things a step of the session can do
to what the properties speak of, and the invariant is proved against it once.
`LastHello` carries the last accepted Hello along, so that the maximum of the
common versions needs no induction.

Every safety property that a passing run checks is proved. Some that no run
checks are stated by theorems too: `StuckForGood`, `OnlyDummyLeavesOpen`,
`ReadyMeans`, `DecoderThere`, and the type invariants but the crawler's, which
`crawler` checks. Only model-checked are the liveness properties (`RetryServed`,
`HandlersFinish`, `StopReturns`, `CallReturns`, `CancelledRemoved`,
`RequestReturns`, `BootNodesUsed`, `SessionEnds`, `StartReturns`): they need
fairness, which the prover does not reason about.

## Where code and comments disagree

Three of these have a run whose counterexample shows them.

* `crawler_closed_send`: `wiring.go:560` checks for shutdown "before sending",
  but drops the lock before the send (so does `crawler.go:948-966`), and the
  retry worker's `select` may pick the send when its context is done: `Stop`
  closes the channel in between, and the send panics.
* `gossipsub_race`: `doc.go:361` "All public APIs are thread-safe"; `Subscribe`
  writes `processors` without `procMutex`.
* `topics_overlap`: `registry.go:125` "Returns nil if no handler is found."
  `ParseSubnet` (`topic.go:121-124`) cuts the prefix and the suffix off a name in
  which they may overlap, and the slice panics: with a handler for "beacon_%d_v2",
  looking up "beacon_v2" does.

The others were met while modelling. The models keep what the code does; no run
asserts the opposite.

Crawler and host:

* `wiring.go:221` means to return when a request failed because of shutdown, but
  `RequestError.Unwrap` makes a new error from the text, so `errors.Is` never
  matches and the crawl is handled as failed.
* `wiring.go:371` cleans up "for naturally disconnected peers", but runs for each
  connection: the end of a duplicate takes the record another crawl of the peer
  needs.
* `crawler.go:52` "never stays connected to any one peer for very long"; a
  status with another digest (`wiring.go:242`) returns without a disconnect.
* `crawler.go:992` "Different network; don't retry": `ConnectToPeer` wraps the
  error's text with `newCrawlError`, so its type is lost and the peer is
  retried (`Retryable` keeps this).
* `wiring.go:209`: the duplicate check (124) and the entry (210) are separated
  by the wait for identify, so two connections of a peer may both be crawled.
* `crawler.go:580` "don't wait for response": `SendRequest` reads the response
  with no deadline, so `Stop` waits with it.
* `crawler.go:552`: a dial that fails leaves its ENR behind and reports nothing.

Start and beacon node:

* `crawler.go:240` "We now have a valid status": a first fetch that failed for
  three minutes is only logged, and the start goes on.
* `crawler.go:293`: a `Stop` during `Start` finds no host or cron job to stop, and
  the callback then starts them.
* `beacon.go:202` "for the current epoch": `ForkDigest` has read the clock before, and
  an epoch that brings both a fork and an entry of the schedule gives a digest that
  was never in force, until the next fetch.
* `metadata.go:134` retries `RefreshAll`, which returns nil whatever failed. If
  the identity was missing, the one callback does not report, and `Start` waits
  until its context ends. `beacon.go:323` waits for the service "to be ready",
  but `Ready` is only logged.
* `beacon.go:124` `Stop` calls `MetadataService.Stop`, which does nothing; the
  refresh job runs on.

Req/resp and execution client:

* `req_handlers.go:66`: the event of a status that differs carries our own
  status, where `crawler.go:632` gives the peer's.
* `req_handlers.go:291`: the dummy handler leaves the stream open when its write
  fails. `req_handlers.go:152`: goodbye may write a second response.
* `resp.go:133` "using frame decoder": the block decoder is called.
* A pooled-transactions call ends after ten seconds with "timeout"
  (`message_get_pooled_transactions.go:96`), unless the session is blocked
  sending to it (`message_pooled_transactions.go:45`) with the mutex that its
  cleanup needs: a second response with the same id is enough (`DeadlockStays`).
* `message_get_receipts.go:120` reports an error that the loop reports again.
* A session that ends does not close its connection, and `statusSent` is never
  reset: a client started twice sends no Status in its second session.

Discovery:

* `disc_v5.go:109` "gracefully shuts down": `Stop` beside a run of the restart
  job finds no listener, and the run installs one that stays open.
* `createListener` returns errors without closing the socket it has bound.

Gossipsub:

* `gossipsub.go:238` lets a cancelled topic be subscribed to again, and `Join`
  then refuses it, since no topic is ever closed; the validator just registered
  stays.
* `registry.go:65`: `Register` copies every part of a handler but
  `invalidPayloadHandler`, which is then never called; line 66 wraps a nil
  encoder in a non-nil one, so the check at `gossipsub.go:360` never fails.
* `subscription.go:136` "All existing subscriptions not in the new map will be
  cancelled": `Set` compares subnets, not subscriptions; a replaced one of the
  same subnet is not cancelled (`displaced`). `Add` of the handle that is there
  already cancels what it stores.
* `subscription.go:313`: handlers run in goroutines that neither `Cancel` nor
  `Stop` waits for.

Test support: `test_lock.go:64` removes a lock that looks stale in two steps, so
two processes may both take it, and `ReleaseTestLock` removes the lock of
whoever holds it; the reference count of shared networks only falls.

## What is not modelled

* Contents of messages, encodings, metrics, logs. SSZ, snappy, rlpx, libp2p and
  gocron are external, modelled by what the code relies on.
* In the crawler: failures inside `Stop` that are only logged. The runs have one
  peer; the proofs cover any number.
* Registration while a gossipsub message is under way is in `TopicHandlers`, and
  subscribing with its goroutines in `Gossipsub`; the two are not composed. The
  context given to `New` ending before `Stop` is not modelled.
* `PooledTransactions` and `ExecutionSession` share the session loop and are not
  composed: the hand-over of a response is one step of `Handle` there, which need
  not come.
* `CrawlerStart` and `Crawler` divide `Stop` between them: the former has the
  beacon node, the cron job, discovery and the host, the latter the queues,
  dialers and connections.
* Stateless code: the ENR parser, client names, network tables, conversions of
  status and metadata, compression, trace ids. Unit tests reach it.
* The Kurtosis utilities (docker networks and a lock file between test
  processes), examples and documentation in Go files.

## What may come next

The safety properties of the passing runs are proved. What is left:

1. Composing `PooledTransactions` with `ExecutionSession`, and registration with
   subscribing.
2. Contracts for the execution session and for a crawl, as those of a request and
   a subscription.
