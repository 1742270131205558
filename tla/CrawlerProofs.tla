--------------------------- MODULE CrawlerProofs ---------------------------
(***************************************************************************)
(* Safety of Crawler for any number of peers, connections and dialers, any *)
(* queue capacities and any retry limit.                                   *)
(*                                                                         *)
(* RetryBounded is inductive only together with what Moving and Holding    *)
(* say: a goroutine past its first step works on a peer, one about to      *)
(* schedule a retry holds a record, and the entry that a goroutine between *)
(* the count and the send of scheduleRetry refers to is the one it         *)
(* counted, since it holds retryMu.  Paid, at the end, counts the crawls   *)
(* of a peer that are under way against what brought them.                 *)
(***************************************************************************)
EXTENDS Crawler, TLAPS, FiniteSetTheorems

\* The channels hold nodes and retries within their capacities, and the retry
\* worker waits for a retry.
Pipeline ==
    /\ found \in [Finders -> Node \cup {NoNode}]
    /\ peersToDial \in Seq(Node) /\ Len(peersToDial) <= DialQueueCap
    /\ retryQueue \in Seq(Retry) /\ Len(retryQueue) <= RetryQueueCap
    /\ retryWorker \in {"idle", "backoff", "exited"}
    /\ inHand \in Retry \cup {NoRetry}
    /\ retryWorker = "backoff" => inHand \in Retry

\* Entries of the tracker stay within the limit and carry a record.
Tracker ==
    /\ retryTracker \in [Peers -> [fork : Forks \cup {NoENR}, attempts : Nat]]
    /\ \A p \in Peers :
           /\ retryTracker[p].attempts <= MaxRetryAttempts
           /\ retryTracker[p].attempts # 0 => retryTracker[p].fork \in Forks

Swarm ==
    /\ ourFork \in Forks
    /\ cached \in SUBSET Peers
    /\ peerENRs \in [Peers -> Forks \cup {NoENR}]
    /\ open \in SUBSET Conns

\* A goroutine on its way is at a step of its kind and has a peer, and it
\* holds a record where it uses one.
Moving ==
    /\ pc \in [Threads -> WorkerPcs \cup HandlerPcs \cup FailurePcs]
    /\ who \in [Threads -> Peers \cup {NoPeer}]
    /\ enr \in [Threads -> Forks \cup {NoENR}]
    /\ err \in [Threads -> CrawlErrors \cup {"none"}]
    /\ \A t \in Workers :
           /\ pc[t] \in WorkerPcs \cup FailurePcs
           /\ pc[t] \notin {"idle", "exited"} => who[t] \in Peers
    /\ \A t \in Conns :
           /\ pc[t] \in HandlerPcs \cup FailurePcs
           /\ pc[t] # "free" => who[t] \in Peers
    /\ \A t \in Threads :
           pc[t] \in {"connect", "store", "schedule"} => enr[t] \in Forks

\* The entry of a goroutine that is about to send was counted, and not
\* deleted since.
Holding ==
    \A t \in Threads : pc[t] = "send" => retryTracker[who[t]].attempts # 0

Rest ==
    /\ stopPc \in StopPcs
    /\ late \in BOOLEAN
    /\ leaving \in SUBSET Peers
    /\ parting \in Peers \cup {NoPeer}
    /\ panicked \in BOOLEAN
    /\ causes \in [Peers -> Nat]
    /\ dials \in [Peers -> Nat]
    /\ reports \in [Peers -> Nat]

IInv == Pipeline /\ Tracker /\ Swarm /\ Moving /\ Holding /\ Rest

-----------------------------------------------------------------------------
LEMMA HeadTail ==
    ASSUME NEW S, NEW s \in Seq(S), s # <<>>
    PROVE  /\ Head(s) \in S
           /\ Tail(s) \in Seq(S)
           /\ Len(Tail(s)) = Len(s) - 1
  OBVIOUS

LEMMA AppendSeq ==
    ASSUME NEW S, NEW s \in Seq(S), NEW e \in S
    PROVE  /\ Append(s, e) \in Seq(S)
           /\ Len(Append(s, e)) = Len(s) + 1
  OBVIOUS

LEMMA SeqElement ==
    ASSUME NEW S, NEW s \in Seq(S), NEW i \in DOMAIN s
    PROVE  s[i] \in S
  OBVIOUS

LEMMA ForksNat == Forks \subseteq Nat /\ 0 \in Forks
  BY CrawlerAssumption DEF Forks

LEMMA NoEntryType ==
    /\ NoEntry \in [fork : Forks \cup {NoENR}, attempts : Nat]
    /\ NoEntry.attempts = 0
    /\ 0 <= MaxRetryAttempts
  BY CrawlerAssumption DEF NoEntry

LEMMA InitInv == Init => IInv
<1> SUFFICES ASSUME Init PROVE IInv
  OBVIOUS
<1>1. Pipeline
  BY CrawlerAssumption DEF Init, Pipeline
<1>2. Tracker
  BY CrawlerAssumption DEF Init, Tracker, NoEntry
<1>3. Swarm
  BY ForksNat DEF Init, Swarm
<1>4. Moving
  BY CrawlerAssumption
     DEF Init, Moving, Threads, WorkerPcs, HandlerPcs, FailurePcs
<1>5. Holding
  BY DEF Init, Holding
<1>6. Rest
  BY DEF Init, Rest, StopPcs
<1> QED
  BY <1>1, <1>2, <1>3, <1>4, <1>5, <1>6 DEF IInv

LEMMA NextInv == IInv /\ [Next]_vars => IInv'
<1> SUFFICES ASSUME IInv, [Next]_vars PROVE IInv'
  OBVIOUS
<1> USE DEF IInv
<1>1. CASE FetchAndSetStatus
  <2>1. Pipeline' /\ Tracker' /\ Moving' /\ Holding' /\ Rest'
    BY <1>1
       DEF FetchAndSetStatus, Pipeline, Tracker, Moving, Holding, Rest,
           queues, local, stop, history
  <2>2. Swarm'
    BY <1>1, CrawlerAssumption
       DEF FetchAndSetStatus, Swarm, Forks, queues, local, stop, history
  <2> QED
    BY <2>1, <2>2
<1>2. ASSUME NEW p \in Peers, CacheExpires(p) PROVE IInv'
  <2>1. Pipeline' /\ Tracker' /\ Moving' /\ Holding' /\ Rest'
    BY <1>2
       DEF CacheExpires, Pipeline, Tracker, Moving, Holding, Rest, queues,
           local, stop, history
  <2>2. Swarm'
    BY <1>2 DEF CacheExpires, Swarm, queues, local, stop, history
  <2> QED
    BY <2>1, <2>2
<1>3. ASSUME NEW d \in Finders, NEW p \in Peers, DiscoverNode(d, p) PROVE IInv'
  <2>1. Tracker' /\ Swarm' /\ Moving' /\ Holding'
    BY <1>3
       DEF DiscoverNode, Tracker, Swarm, Moving, Holding, queues, local,
           stop, history
  <2>2. Pipeline'
    BY <1>3
       DEF DiscoverNode, Pipeline, Node, Swarm, queues, local, stop, history
  <2>3. Rest'
    BY <1>3 DEF DiscoverNode, Rest, queues, local, stop, history
  <2> QED
    BY <2>1, <2>2, <2>3
<1>4. ASSUME NEW d \in Finders, QueueNode(d) PROVE IInv'
  <2>1. Tracker' /\ Swarm' /\ Moving' /\ Holding'
    BY <1>4
       DEF QueueNode, Tracker, Swarm, Moving, Holding, queues, local, stop,
           history
  <2>2. Pipeline'
    <3>1. CASE peersToDial' = peersToDial
      BY <1>4, <3>1 DEF QueueNode, Pipeline
    <3>2. CASE peersToDial' # peersToDial
      <4>1. /\ found[d] \in Node
            /\ Len(peersToDial) < DialQueueCap
            /\ peersToDial' = Append(peersToDial, found[d])
        BY <1>4, <3>2, CrawlerAssumption DEF QueueNode, Pipeline
      <4> QED
        BY <1>4, <4>1, AppendSeq, CrawlerAssumption DEF QueueNode, Pipeline
    <3> QED
      BY <3>1, <3>2
  <2>3. Rest'
    BY <1>4
       DEF QueueNode, Rest, dialQueueClosed, retryQueueClosed, ctxDone,
           queues, local, stop, history
  <2> QED
    BY <2>1, <2>2, <2>3
<1>5. ASSUME NEW c \in Conns, NEW p \in Peers, PeerConnects(c, p) \/ RequestDials(c, p)
      PROVE  IInv'
  <2>1. Pipeline' /\ Tracker'
    BY <1>5
       DEF PeerConnects, RequestDials, Connected, Goto, Pipeline, Tracker, queues, local, stop,
           history
  <2>2. Swarm'
    BY <1>5 DEF PeerConnects, RequestDials, Connected, Goto, Swarm, queues, local, stop, history
  <2>3. Moving'
    BY <1>5, CrawlerAssumption
       DEF PeerConnects, RequestDials, Connected, Goto, Moving, Threads, WorkerPcs, HandlerPcs,
           FailurePcs, CrawlErrors
  <2>4. Holding'
    BY <1>5
       DEF PeerConnects, RequestDials, Connected, Goto, Holding, Moving, Threads, WorkerPcs,
           HandlerPcs, FailurePcs
  <2>5. Rest'
    BY <1>5 DEF PeerConnects, RequestDials, Connected, Goto, Rest, queues, local, stop, history
  <2> QED
    BY <2>1, <2>2, <2>3, <2>4, <2>5
<1>6. ASSUME NEW c \in Conns, RemoteCloses(c) PROVE IInv'
  <2>1. Pipeline' /\ Tracker' /\ Moving' /\ Holding' /\ Rest'
    BY <1>6
       DEF RemoteCloses, Pipeline, Tracker, Moving, Holding, Rest, queues,
           local, stop, history
  <2>2. Swarm'
    BY <1>6 DEF RemoteCloses, Swarm, queues, local, stop, history
  <2> QED
    BY <2>1, <2>2
<1>7. ASSUME NEW c \in Conns, Identified(c) PROVE IInv'
  <2>1. Pipeline' /\ Tracker' /\ Rest'
    BY <1>7
       DEF Identified, Goto, Pipeline, Tracker, Rest, queues, local, stop,
           history
  <2>2. Swarm'
    BY <1>7
       DEF Identified, Goto, Swarm, Moving, Threads, WorkerPcs, HandlerPcs,
           FailurePcs, queues, local, stop, history
  <2>3. Moving'
    BY <1>7, CrawlerAssumption
       DEF Identified, Goto, Moving, Threads, WorkerPcs, HandlerPcs,
           FailurePcs, CrawlErrors
  <2>4. Holding'
    BY <1>7, CrawlerAssumption
       DEF Identified, Goto, Holding, Moving, Threads, WorkerPcs,
           HandlerPcs, FailurePcs
  <2> QED
    BY <2>1, <2>2, <2>3, <2>4
<1>8. ASSUME NEW w \in Workers, WorkerReceive(w) PROVE IInv'
  <2>1. Tracker' /\ Swarm'
    BY <1>8
       DEF WorkerReceive, Goto, Tracker, Swarm, queues, local, stop, history
  <2>2. /\ Head(peersToDial) \in Node
        /\ Tail(peersToDial) \in Seq(Node)
        /\ Len(Tail(peersToDial)) = Len(peersToDial) - 1
    BY <1>8, HeadTail DEF WorkerReceive, Pipeline
  <2>3. Pipeline'
    BY <1>8, <2>2, CrawlerAssumption DEF WorkerReceive, Pipeline
  <2>4. Moving'
    <3>1. PICK q \in Peers, f \in Forks :
            /\ q = Head(peersToDial).peer
            /\ f = Head(peersToDial).fork
      BY <2>2 DEF Node
    <3>2. CASE isShutdown
      BY <1>8, <3>2, CrawlerAssumption
         DEF WorkerReceive, Goto, Moving, Threads, WorkerPcs, HandlerPcs,
             FailurePcs
    <3>3. CASE ~isShutdown
      <4>1. /\ pc' = [pc EXCEPT ![w] = "connect"]
            /\ who' = [who EXCEPT ![w] = q]
            /\ enr' = [enr EXCEPT ![w] = f]
            /\ err' = err
        BY <1>8, <3>1, <3>3, Zenon DEF WorkerReceive, Goto
      <4> QED
        BY <4>1, CrawlerAssumption
           DEF Moving, Threads, WorkerPcs, HandlerPcs, FailurePcs
    <3> QED
      BY <3>2, <3>3
  <2>5. Holding'
    BY <1>8, CrawlerAssumption
       DEF WorkerReceive, Goto, Holding, Moving, Threads, WorkerPcs,
           HandlerPcs, FailurePcs
  <2>6. Rest'
    <3>1. Head(peersToDial).peer \in Peers
      BY <2>2 DEF Node
    <3>2. dials' \in [Peers -> Nat]
      <4>1. PICK q \in Peers : q = Head(peersToDial).peer
        BY <3>1
      <4>2. dials' = dials \/ dials' = [dials EXCEPT ![q] = @ + 1]
        BY <1>8, <4>1 DEF WorkerReceive
      <4> QED
        BY <4>2 DEF Rest
    <3> QED
      BY <1>8, <3>2, Zenon DEF WorkerReceive, Rest, stop
  <2> QED
    BY <2>1, <2>3, <2>4, <2>5, <2>6
<1>9. ASSUME NEW w \in Workers, WorkerExit(w) PROVE IInv'
  <2>1. Pipeline' /\ Tracker' /\ Swarm' /\ Rest'
    BY <1>9
       DEF WorkerExit, Goto, Pipeline, Tracker, Swarm, Rest, queues, local,
           stop, history
  <2>2. Moving'
    BY <1>9, CrawlerAssumption
       DEF WorkerExit, Goto, Moving, Threads, WorkerPcs, HandlerPcs,
           FailurePcs, CrawlErrors
  <2>3. Holding'
    BY <1>9, CrawlerAssumption
       DEF WorkerExit, Goto, Holding, Moving, Threads, WorkerPcs,
           HandlerPcs, FailurePcs
  <2> QED
    BY <2>1, <2>2, <2>3
<1>10. ASSUME NEW w \in Workers, ConnectToPeer(w) PROVE IInv'
  <2>1. Pipeline' /\ Tracker' /\ Swarm' /\ Rest'
    BY <1>10
       DEF ConnectToPeer, Goto, Fail, Pipeline, Tracker, Swarm, Rest,
           queues, local, stop, history
  <2>2. Moving'
    BY <1>10, CrawlerAssumption
       DEF ConnectToPeer, Goto, Fail, Moving, Threads, WorkerPcs,
           HandlerPcs, FailurePcs, CrawlErrors
  <2>3. Holding'
    BY <1>10, CrawlerAssumption
       DEF ConnectToPeer, Goto, Fail, Holding, Moving, Threads, WorkerPcs,
           HandlerPcs, FailurePcs
  <2> QED
    BY <2>1, <2>2, <2>3
<1>11. ASSUME NEW w \in Workers, StoreENR(w) PROVE IInv'
  <2>1. Pipeline' /\ Tracker' /\ Rest'
    BY <1>11
       DEF StoreENR, Return, Goto, Pipeline, Tracker, Rest, queues, local,
           stop, history
  <2>2. Swarm'
    BY <1>11
       DEF StoreENR, Return, Goto, Swarm, Moving, Threads, WorkerPcs,
           HandlerPcs, FailurePcs, queues, local, stop, history
  <2>3. Moving'
    BY <1>11, CrawlerAssumption
       DEF StoreENR, Return, Goto, Moving, Threads, WorkerPcs, HandlerPcs,
           FailurePcs, CrawlErrors
  <2>4. Holding'
    BY <1>11, CrawlerAssumption
       DEF StoreENR, Return, Goto, Holding, Moving, Threads, WorkerPcs,
           HandlerPcs, FailurePcs
  <2> QED
    BY <2>1, <2>2, <2>3, <2>4
<1>12. ASSUME NEW w \in Workers, NEW c \in Conns, DialSucceeds(w, c)
      PROVE  IInv'
  <2>1. Pipeline' /\ Tracker' /\ Rest'
    BY <1>12
       DEF DialSucceeds, Pipeline, Tracker, Rest, queues, local, stop,
           history
  <2>2. Swarm'
    BY <1>12 DEF DialSucceeds, Swarm, queues, local, stop, history
  <2>3. Moving'
    BY <1>12, CrawlerAssumption
       DEF DialSucceeds, Moving, Threads, WorkerPcs, HandlerPcs, FailurePcs,
           CrawlErrors
  <2>4. Holding'
    BY <1>12, CrawlerAssumption
       DEF DialSucceeds, Holding, Moving, Threads, WorkerPcs, HandlerPcs,
           FailurePcs
  <2> QED
    BY <2>1, <2>2, <2>3, <2>4
<1>13. ASSUME NEW w \in Workers, DialReturns(w) PROVE IInv'
  <2>1. Pipeline' /\ Tracker' /\ Swarm' /\ Rest'
    BY <1>13
       DEF DialReturns, Return, Goto, Pipeline, Tracker, Swarm, Rest,
           queues, local, stop, history
  <2>2. Moving'
    BY <1>13, CrawlerAssumption
       DEF DialReturns, Return, Goto, Moving, Threads, WorkerPcs,
           HandlerPcs, FailurePcs, CrawlErrors
  <2>3. Holding'
    BY <1>13, CrawlerAssumption
       DEF DialReturns, Return, Goto, Holding, Moving, Threads, WorkerPcs,
           HandlerPcs, FailurePcs
  <2> QED
    BY <2>1, <2>2, <2>3
<1>14. ASSUME NEW c \in Conns, CheckPeer(c) PROVE IInv'
  <2>1. Pipeline' /\ Tracker' /\ Rest'
    BY <1>14
       DEF CheckPeer, Return, Goto, Pipeline, Tracker, Rest, queues, local,
           stop, history
  <2>2. Swarm'
    BY <1>14
       DEF CheckPeer, Return, Goto, Swarm, queues, local, stop, history
  <2>3. Moving'
    BY <1>14, CrawlerAssumption
       DEF CheckPeer, Return, Goto, Moving, Threads, WorkerPcs, HandlerPcs,
           FailurePcs, CrawlErrors
  <2>4. Holding'
    BY <1>14, CrawlerAssumption
       DEF CheckPeer, Return, Goto, Holding, Moving, Threads, WorkerPcs,
           HandlerPcs, FailurePcs
  <2> QED
    BY <2>1, <2>2, <2>3, <2>4
<1>15. ASSUME NEW c \in Conns, IdentifyTimeout(c) PROVE IInv'
  <2>1. Pipeline' /\ Tracker' /\ Swarm' /\ Rest'
    BY <1>15
       DEF IdentifyTimeout, Return, Goto, Drop, Pipeline, Tracker,
           Swarm, Rest, queues, local, stop, history
  <2>2. Moving'
    BY <1>15, CrawlerAssumption
       DEF IdentifyTimeout, Return, Goto, Drop, Moving, Threads,
           WorkerPcs, HandlerPcs, FailurePcs, CrawlErrors
  <2>3. Holding'
    BY <1>15, CrawlerAssumption
       DEF IdentifyTimeout, Return, Goto, Drop, Holding, Moving,
           Threads, WorkerPcs, HandlerPcs, FailurePcs
  <2> QED
    BY <2>1, <2>2, <2>3
<1>16. ASSUME NEW c \in Conns, DisconnectAfterFailure(c) PROVE IInv'
  <2>1. Pipeline' /\ Tracker' /\ Rest'
    BY <1>16
       DEF DisconnectAfterFailure, Goto, ClosePeer, Pipeline, Tracker, Rest,
           queues, local, stop, history
  <2>2. Swarm'
    BY <1>16
       DEF DisconnectAfterFailure, Goto, ClosePeer, Swarm, queues, local,
           stop, history
  <2>3. Moving'
    BY <1>16, CrawlerAssumption
       DEF DisconnectAfterFailure, Goto, ClosePeer, Moving, Threads,
           WorkerPcs, HandlerPcs, FailurePcs, CrawlErrors
  <2>4. Holding'
    BY <1>16, CrawlerAssumption
       DEF DisconnectAfterFailure, Goto, ClosePeer, Holding, Moving,
           Threads, WorkerPcs, HandlerPcs, FailurePcs
  <2> QED
    BY <2>1, <2>2, <2>3, <2>4
<1>17. ASSUME NEW c \in Conns, UntrackRetries(c) PROVE IInv'
  <2>1. Pipeline' /\ Swarm' /\ Rest'
    BY <1>17
       DEF UntrackRetries, Goto, Pipeline, Swarm, Rest, queues, local, stop,
           history
  <2>2. Tracker'
    BY <1>17, NoEntryType DEF UntrackRetries, Tracker
  <2>3. Moving'
    BY <1>17, CrawlerAssumption
       DEF UntrackRetries, Goto, Moving, Threads, WorkerPcs, HandlerPcs,
           FailurePcs, CrawlErrors
  <2>4. Holding'
    BY <1>17, CrawlerAssumption
       DEF UntrackRetries, Goto, Holding, Moving, Threads, WorkerPcs,
           HandlerPcs, FailurePcs, RetryMuFree, NoEntry, CountedRetry, Tracker
  <2> QED
    BY <2>1, <2>2, <2>3, <2>4
<1>18. ASSUME NEW c \in Conns, ReportSuccess(c) PROVE IInv'
  <2>1. Pipeline' /\ Tracker' /\ Swarm'
    BY <1>18
       DEF ReportSuccess, Return, Goto, Report, Pipeline, Tracker, Swarm,
           queues, local, stop, history
  <2>2. Moving'
    BY <1>18, CrawlerAssumption
       DEF ReportSuccess, Return, Goto, Report, Moving, Threads, WorkerPcs,
           HandlerPcs, FailurePcs, CrawlErrors
  <2>3. Holding'
    BY <1>18, CrawlerAssumption
       DEF ReportSuccess, Return, Goto, Report, Holding, Moving, Threads,
           WorkerPcs, HandlerPcs, FailurePcs
  <2>4. Rest'
    BY <1>18
       DEF ReportSuccess, Return, Goto, Report, Rest, Moving, Threads,
           WorkerPcs, HandlerPcs, FailurePcs, queues, local, stop, history
  <2> QED
    BY <2>1, <2>2, <2>3, <2>4
<1>19. ASSUME NEW c \in Conns, SayGoodbye(c) PROVE IInv'
  <2>1. Pipeline' /\ Tracker' /\ Swarm' /\ Rest'
    BY <1>19
       DEF SayGoodbye, Return, Goto, Pipeline, Tracker, Swarm, Rest, queues,
           local, stop, history
  <2>2. Moving'
    BY <1>19, CrawlerAssumption
       DEF SayGoodbye, Return, Goto, Moving, Threads, WorkerPcs, HandlerPcs,
           FailurePcs, CrawlErrors
  <2>3. Holding'
    BY <1>19, CrawlerAssumption
       DEF SayGoodbye, Return, Goto, Holding, Moving, Threads, WorkerPcs,
           HandlerPcs, FailurePcs
  <2> QED
    BY <2>1, <2>2, <2>3
<1>20. ASSUME NEW c \in Conns, HandlePeerDisconnected(c) PROVE IInv'
  <2>1. Pipeline' /\ Tracker' /\ Rest'
    BY <1>20
       DEF HandlePeerDisconnected, Goto, Pipeline, Tracker, Rest, queues,
           local, stop, history
  <2>2. Swarm'
    BY <1>20
       DEF HandlePeerDisconnected, Goto, Swarm, Moving, Threads, WorkerPcs,
           HandlerPcs, FailurePcs, queues, local, stop, history
  <2>3. Moving'
    BY <1>20, CrawlerAssumption
       DEF HandlePeerDisconnected, Goto, Moving, Threads, WorkerPcs,
           HandlerPcs, FailurePcs, CrawlErrors
  <2>4. Holding'
    BY <1>20, CrawlerAssumption
       DEF HandlePeerDisconnected, Goto, Holding, Moving, Threads,
           WorkerPcs, HandlerPcs, FailurePcs
  <2> QED
    BY <2>1, <2>2, <2>3, <2>4
<1>21. ASSUME NEW c \in Conns, MetadataAnswered(c) PROVE IInv'
  <2>1. Pipeline' /\ Tracker' /\ Swarm' /\ Rest'
    BY <1>21
       DEF MetadataAnswered, Goto, Pipeline, Tracker, Swarm, Rest, queues,
           local, stop, history
  <2>2. Moving'
    BY <1>21, CrawlerAssumption
       DEF MetadataAnswered, Goto, Moving, Threads, WorkerPcs, HandlerPcs,
           FailurePcs, CrawlErrors
  <2>3. Holding'
    BY <1>21, CrawlerAssumption
       DEF MetadataAnswered, Goto, Holding, Moving, Threads, WorkerPcs,
           HandlerPcs, FailurePcs
  <2> QED
    BY <2>1, <2>2, <2>3
<1>22. ASSUME NEW c \in Conns, RequestFails(c) PROVE IInv'
  <2>1. Pipeline' /\ Tracker' /\ Swarm' /\ Rest'
    BY <1>22
       DEF RequestFails, Goto, Drop, Pipeline, Tracker, Swarm, Rest,
           queues, local, stop, history
  <2>2. Moving'
    BY <1>22, CrawlerAssumption
       DEF RequestFails, Goto, Drop, Moving, Threads, WorkerPcs,
           HandlerPcs, FailurePcs, CrawlErrors
  <2>3. Holding'
    BY <1>22, CrawlerAssumption
       DEF RequestFails, Goto, Drop, Holding, Moving, Threads,
           WorkerPcs, HandlerPcs, FailurePcs
  <2> QED
    BY <2>1, <2>2, <2>3
<1>24. ASSUME NEW c \in Conns, DisconnectFromPeer(c) PROVE IInv'
  <2>1. Pipeline' /\ Tracker' /\ Rest'
    BY <1>24
       DEF DisconnectFromPeer, Return, Goto, ClosePeer, Pipeline, Tracker,
           Rest, queues, local, stop, history
  <2>2. Swarm'
    BY <1>24
       DEF DisconnectFromPeer, Return, Goto, ClosePeer, Swarm, Moving,
           Threads, WorkerPcs, HandlerPcs, FailurePcs, queues, local, stop,
           history
  <2>3. Moving'
    BY <1>24, CrawlerAssumption
       DEF DisconnectFromPeer, Return, Goto, ClosePeer, Moving, Threads,
           WorkerPcs, HandlerPcs, FailurePcs, CrawlErrors
  <2>4. Holding'
    BY <1>24, CrawlerAssumption
       DEF DisconnectFromPeer, Return, Goto, ClosePeer, Holding, Moving,
           Threads, WorkerPcs, HandlerPcs, FailurePcs
  <2> QED
    BY <2>1, <2>2, <2>3, <2>4
<1>25. ASSUME NEW c \in Conns, NEW f \in Forks, StatusAnswered(c, f)
      PROVE  IInv'
  <2>1. Pipeline' /\ Tracker' /\ Swarm' /\ Rest'
    BY <1>25
       DEF StatusAnswered, Goto, Fail, Pipeline, Tracker, Swarm, Rest,
           queues, local, stop, history
  <2>2. Moving'
    BY <1>25, CrawlerAssumption
       DEF StatusAnswered, Goto, Fail, Moving, Threads, WorkerPcs,
           HandlerPcs, FailurePcs, CrawlErrors
  <2>3. Holding'
    BY <1>25, CrawlerAssumption
       DEF StatusAnswered, Goto, Fail, Holding, Moving, Threads, WorkerPcs,
           HandlerPcs, FailurePcs
  <2> QED
    BY <2>1, <2>2, <2>3
<1>26. ASSUME NEW t \in Threads, CheckAttempts(t) PROVE IInv'
  <2>1. Pipeline' /\ Tracker' /\ Swarm'
    BY <1>26
       DEF CheckAttempts, Return, Goto, Report, Pipeline, Tracker, Swarm,
           queues, local, stop, history
  <2>2. Moving'
    BY <1>26, CrawlerAssumption
       DEF CheckAttempts, Return, Goto, Report, Moving, Threads, WorkerPcs,
           HandlerPcs, FailurePcs, CrawlErrors
  <2>3. Holding'
    BY <1>26, CrawlerAssumption
       DEF CheckAttempts, Return, Goto, Report, Holding, Moving, Threads,
           WorkerPcs, HandlerPcs, FailurePcs
  <2>4. Rest'
    BY <1>26
       DEF CheckAttempts, Return, Goto, Report, Rest, Moving, Threads,
           WorkerPcs, HandlerPcs, FailurePcs, queues, local, stop, history
  <2> QED
    BY <2>1, <2>2, <2>3, <2>4
<1>27. ASSUME NEW t \in Threads, GiveUp(t) PROVE IInv'
  <2>1. Pipeline' /\ Swarm'
    BY <1>27
       DEF GiveUp, Return, Goto, Report, Pipeline, Swarm, queues, local,
           stop, history
  <2>2. Tracker'
    BY <1>27, NoEntryType DEF GiveUp, Tracker
  <2>3. Moving'
    BY <1>27, CrawlerAssumption
       DEF GiveUp, Return, Goto, Report, Moving, Threads, WorkerPcs,
           HandlerPcs, FailurePcs, CrawlErrors
  <2>4. Holding'
    BY <1>27, CrawlerAssumption
       DEF GiveUp, Return, Goto, Report, Holding, Moving, Threads,
           WorkerPcs, HandlerPcs, FailurePcs, RetryMuFree, NoEntry,
           CountedRetry, Tracker
  <2>5. Rest'
    BY <1>27
       DEF GiveUp, Return, Goto, Report, Rest, Moving, Threads, WorkerPcs,
           HandlerPcs, FailurePcs, queues, local, stop, history
  <2> QED
    BY <2>1, <2>2, <2>3, <2>4, <2>5
<1>28. ASSUME NEW t \in Threads, LookupENR(t) PROVE IInv'
  <2>1. Pipeline' /\ Tracker' /\ Swarm'
    BY <1>28
       DEF LookupENR, Return, Goto, Report, Pipeline, Tracker, Swarm,
           queues, local, stop, history
  <2>2. Moving'
    BY <1>28, CrawlerAssumption
       DEF LookupENR, Return, Goto, Report, Moving, Threads, WorkerPcs,
           HandlerPcs, FailurePcs, CrawlErrors, Swarm
  <2>3. Holding'
    BY <1>28, CrawlerAssumption
       DEF LookupENR, Return, Goto, Report, Holding, Moving, Threads,
           WorkerPcs, HandlerPcs, FailurePcs
  <2>4. Rest'
    BY <1>28
       DEF LookupENR, Return, Goto, Report, Rest, Moving, Threads,
           WorkerPcs, HandlerPcs, FailurePcs, queues, local, stop, history
  <2> QED
    BY <2>1, <2>2, <2>3, <2>4
<1>29. ASSUME NEW t \in Threads, ScheduleRetry(t) PROVE IInv'
  <2>1. Pipeline' /\ Swarm' /\ Rest'
    BY <1>29
       DEF ScheduleRetry, Return, Goto, Pipeline, Swarm, Rest, queues,
           local, stop, history
  <2>2. who[t] \in Peers /\ enr[t] \in Forks
    BY <1>29 DEF ScheduleRetry, Moving, Threads
  <2>3. Tracker'
    BY <1>29, <2>2, CrawlerAssumption
       DEF ScheduleRetry, CountedRetry, Tracker, NoEntry
  <2>4. Moving'
    BY <1>29, CrawlerAssumption
       DEF ScheduleRetry, Return, Goto, Moving, Threads, WorkerPcs,
           HandlerPcs, FailurePcs, CrawlErrors
  <2>5. Holding'
    BY <1>29, CrawlerAssumption
       DEF ScheduleRetry, Return, Goto, Holding, Moving, Threads, WorkerPcs,
           HandlerPcs, FailurePcs, RetryMuFree, NoEntry, CountedRetry, Tracker
  <2> QED
    BY <2>1, <2>3, <2>4, <2>5
<1>30. ASSUME NEW t \in Threads, SendRetry(t) PROVE IInv'
  <2>1. Tracker'
    BY <1>30
       DEF SendRetry, Return, Goto, Tracker, queues, local, stop, history
  <2>2. Pipeline'
    <3>1. CASE retryQueue' = retryQueue
      BY <1>30, <3>1 DEF SendRetry, Pipeline
    <3>2. CASE retryQueue' # retryQueue
      <4> DEFINE retry == [peer |-> who[t], fork |-> retryTracker[who[t]].fork,
                           attempts |-> retryTracker[who[t]].attempts]
      <4>1. retry \in Retry
        <5>1. who[t] \in Peers
          BY <1>30 DEF SendRetry, Moving, Threads
        <5> QED
          BY <1>30, <5>1, CrawlerAssumption
             DEF SendRetry, Tracker, Holding, Retry
      <4>2. /\ Len(retryQueue) < RetryQueueCap
            /\ retryQueue' = Append(retryQueue, retry)
        BY <1>30, <3>2, CrawlerAssumption DEF SendRetry, Pipeline
      <4> HIDE DEF retry
      <4> QED
        BY <1>30, <4>1, <4>2, AppendSeq, CrawlerAssumption
           DEF SendRetry, Pipeline
    <3> QED
      BY <3>1, <3>2
  <2>3. Swarm'
    BY <1>30
       DEF SendRetry, Return, Goto, Swarm, Moving, Threads, WorkerPcs,
           HandlerPcs, FailurePcs, queues, local, stop, history
  <2>4. Moving'
    BY <1>30, CrawlerAssumption
       DEF SendRetry, Return, Goto, Moving, Threads, WorkerPcs, HandlerPcs,
           FailurePcs, CrawlErrors
  <2>5. Holding'
    BY <1>30, CrawlerAssumption
       DEF SendRetry, Return, Goto, Holding, Moving, Threads, WorkerPcs,
           HandlerPcs, FailurePcs
  <2>6. Rest'
    BY <1>30
       DEF SendRetry, Return, Goto, Rest, dialQueueClosed, retryQueueClosed,
           ctxDone, queues, local, stop, history
  <2> QED
    BY <2>1, <2>2, <2>3, <2>4, <2>5, <2>6
<1>31. CASE RetryReceive
  <2>1. Tracker' /\ Swarm' /\ Moving' /\ Holding' /\ Rest'
    BY <1>31
       DEF RetryReceive, Tracker, Swarm, Moving, Holding, Rest, queues,
           local, stop, history
  <2>2. /\ Head(retryQueue) \in Retry
        /\ Tail(retryQueue) \in Seq(Retry)
        /\ Len(Tail(retryQueue)) = Len(retryQueue) - 1
    BY <1>31, HeadTail DEF RetryReceive, Pipeline
  <2>3. Pipeline'
    BY <1>31, <2>2, CrawlerAssumption DEF RetryReceive, Pipeline
  <2> QED
    BY <2>1, <2>3
<1>32. CASE RetryResend
  <2>1. Tracker' /\ Swarm' /\ Moving' /\ Holding'
    BY <1>32
       DEF RetryResend, Tracker, Swarm, Moving, Holding, queues, local,
           stop, history
  <2>2. Pipeline'
    <3> DEFINE node == [peer |-> inHand.peer, fork |-> inHand.fork]
    <3>1. node \in Node
      BY <1>32 DEF RetryResend, Pipeline, Retry, Node
    <3>2. CASE dialQueueClosed
      BY <1>32, <3>2 DEF RetryResend, Pipeline
    <3>3. CASE ~dialQueueClosed
      <4>1. /\ Len(peersToDial) < DialQueueCap
            /\ peersToDial' = Append(peersToDial, node)
        BY <1>32, <3>3 DEF RetryResend
      <4> HIDE DEF node
      <4> QED
        BY <1>32, <3>1, <4>1, AppendSeq, CrawlerAssumption
           DEF RetryResend, Pipeline
    <3> QED
      BY <3>2, <3>3
  <2>3. Rest'
    BY <1>32
       DEF RetryResend, Rest, dialQueueClosed, retryQueueClosed, ctxDone,
           queues, local, stop, history
  <2> QED
    BY <2>1, <2>2, <2>3
<1>33. CASE RetryWorkerExit
  <2>1. Tracker' /\ Swarm' /\ Moving' /\ Holding' /\ Rest'
    BY <1>33
       DEF RetryWorkerExit, Tracker, Swarm, Moving, Holding, Rest, queues,
           local, stop, history
  <2>2. Pipeline'
    BY <1>33 DEF RetryWorkerExit, Pipeline, queues, local, stop, history
  <2> QED
    BY <2>1, <2>2
<1>34. CASE StopMark
  <2>1. Pipeline' /\ Tracker' /\ Swarm' /\ Moving' /\ Holding'
    BY <1>34
       DEF StopMark, StopStep, Pipeline, Tracker, Swarm, Moving, Holding,
           queues, local, stop, history
  <2>2. Rest'
    BY <1>34
       DEF StopMark, StopStep, Rest, StopPcs, queues, local, stop, history
  <2> QED
    BY <2>1, <2>2
<1>35. CASE StopCancel
  <2>1. Pipeline' /\ Tracker' /\ Swarm' /\ Moving' /\ Holding'
    BY <1>35
       DEF StopCancel, StopStep, Pipeline, Tracker, Swarm, Moving, Holding,
           queues, local, stop, history
  <2>2. Rest'
    BY <1>35
       DEF StopCancel, StopStep, Rest, StopPcs, queues, local, stop, history
  <2> QED
    BY <2>1, <2>2
<1>36. CASE StopCloseRetryQueue
  <2>1. Pipeline' /\ Tracker' /\ Swarm' /\ Moving' /\ Holding'
    BY <1>36
       DEF StopCloseRetryQueue, StopStep, Pipeline, Tracker, Swarm, Moving,
           Holding, queues, local, stop, history
  <2>2. Rest'
    BY <1>36
       DEF StopCloseRetryQueue, StopStep, Rest, StopPcs, queues, local,
           stop, history
  <2> QED
    BY <2>1, <2>2
<1>37. CASE StopCloseDialQueue
  <2>1. Pipeline' /\ Tracker' /\ Swarm' /\ Moving' /\ Holding'
    BY <1>37
       DEF StopCloseDialQueue, StopStep, Pipeline, Tracker, Swarm, Moving,
           Holding, queues, local, stop, history
  <2>2. Rest'
    BY <1>37
       DEF StopCloseDialQueue, StopStep, Rest, StopPcs, queues, local, stop,
           history
  <2> QED
    BY <2>1, <2>2
<1>38. CASE StopWaitDialers
  <2>1. Pipeline' /\ Tracker' /\ Swarm' /\ Moving' /\ Holding'
    BY <1>38
       DEF StopWaitDialers, StopStep, Pipeline, Tracker, Swarm, Moving,
           Holding, queues, local, stop, history
  <2>2. Rest'
    BY <1>38
       DEF StopWaitDialers, StopStep, Rest, StopPcs, DialersExited, queues,
           local, stop, history
  <2> QED
    BY <2>1, <2>2
<1>39. ASSUME NEW p \in Peers, StopSayGoodbye(p) PROVE IInv'
  <2>1. Pipeline' /\ Tracker' /\ Swarm' /\ Moving' /\ Holding'
    BY <1>39
       DEF StopSayGoodbye, Pipeline, Tracker, Swarm, Moving, Holding,
           queues, local, stop, history
  <2>2. Rest'
    BY <1>39 DEF StopSayGoodbye, Rest, queues, local, stop, history
  <2> QED
    BY <2>1, <2>2
<1>40. CASE StopDisconnect
  <2>1. Pipeline' /\ Tracker' /\ Moving' /\ Holding'
    BY <1>40
       DEF StopDisconnect, ClosePeer, Pipeline, Tracker, Moving, Holding,
           queues, local, stop, history
  <2>2. Swarm'
    BY <1>40
       DEF StopDisconnect, ClosePeer, Swarm, Rest, queues, local, stop,
           history
  <2>3. Rest'
    BY <1>40
       DEF StopDisconnect, ClosePeer, Rest, queues, local, stop, history
  <2> QED
    BY <2>1, <2>2, <2>3
<1>41. CASE StopCloseNode
  <2>1. Pipeline' /\ Tracker' /\ Moving' /\ Holding'
    BY <1>41
       DEF StopCloseNode, StopStep, Pipeline, Tracker, Moving, Holding,
           queues, local, stop, history
  <2>2. Swarm'
    BY <1>41
       DEF StopCloseNode, StopStep, Swarm, queues, local, stop, history
  <2>3. Rest'
    BY <1>41
       DEF StopCloseNode, StopStep, Rest, StopPcs, queues, local, stop,
           history
  <2> QED
    BY <2>1, <2>2, <2>3
<1>42. CASE StopNodeClosed
  <2>1. Pipeline' /\ Tracker' /\ Swarm' /\ Moving' /\ Holding'
    BY <1>42
       DEF StopNodeClosed, StopStep, Pipeline, Tracker, Swarm, Moving,
           Holding, queues, local, stop, history
  <2>2. Rest'
    BY <1>42
       DEF StopNodeClosed, StopStep, Rest, StopPcs, queues, local, stop,
           history
  <2> QED
    BY <2>1, <2>2
<1>43. CASE StopClearENRs
  <2>1. Pipeline' /\ Tracker' /\ Moving' /\ Holding'
    BY <1>43
       DEF StopClearENRs, StopStep, Pipeline, Tracker, Moving, Holding,
           queues, local, stop, history
  <2>2. Swarm'
    BY <1>43
       DEF StopClearENRs, StopStep, Swarm, queues, local, stop, history
  <2>3. Rest'
    BY <1>43
       DEF StopClearENRs, StopStep, Rest, StopPcs, queues, local, stop,
           history
  <2> QED
    BY <2>1, <2>2, <2>3
<1>44. CASE StopClearTracker
  <2>1. Pipeline' /\ Swarm' /\ Moving'
    BY <1>44
       DEF StopClearTracker, StopStep, Pipeline, Swarm, Moving, queues,
           local, stop, history
  <2>2. Tracker'
    BY <1>44, CrawlerAssumption
       DEF StopClearTracker, StopStep, Tracker, NoEntry
  <2>3. Holding'
    BY <1>44 DEF StopClearTracker, StopStep, Holding, RetryMuFree, local
  <2>4. Rest'
    BY <1>44
       DEF StopClearTracker, StopStep, Rest, StopPcs, queues, local, stop,
           history
  <2> QED
    BY <2>1, <2>2, <2>3, <2>4
<1>45. CASE UNCHANGED vars
  BY <1>45
     DEF vars, queues, local, stop, history, Pipeline, Tracker, Swarm,
         Moving, Holding, Rest
<1> QED
  BY <1>1, <1>2, <1>3, <1>4, <1>5, <1>6, <1>7, <1>8, <1>9, <1>10, <1>11,
     <1>12, <1>13, <1>14, <1>15, <1>16, <1>17, <1>18, <1>19, <1>20, <1>21,
     <1>22, <1>24, <1>25, <1>26, <1>27, <1>28, <1>29, <1>30, <1>31,
     <1>32, <1>33, <1>34, <1>35, <1>36, <1>37, <1>38, <1>39, <1>40, <1>41,
     <1>42, <1>43, <1>44, <1>45
     DEF Next, Environment, Dialer, Handler, Answer, CrawlFailure,
         RetryWorker, Stop

-----------------------------------------------------------------------------
THEOREM SpecInv == Spec => []IInv
  BY InitInv, NextInv, PTL DEF Spec

\* Every variable keeps its type and no channel exceeds its capacity.
THEOREM TypeCorrect == Spec => []TypeOK
<1>1. IInv => TypeOK
  BY DEF IInv, Pipeline, Tracker, Swarm, Moving, Rest, TypeOK
<1> QED
  BY <1>1, SpecInv, PTL

\* However the failing crawls of a peer interleave between the look of
\* handleCrawlFailure and the lock of scheduleRetry, nothing is counted,
\* queued or waited for past MaxRetryAttempts.
THEOREM RetriesBounded == Spec => []RetryBounded
<1>1. IInv => RetryBounded
  <2> SUFFICES ASSUME IInv PROVE RetryBounded
    OBVIOUS
  <2>1. \A p \in Peers : retryTracker[p].attempts <= MaxRetryAttempts
    BY DEF IInv, Tracker
  <2>2. \A i \in DOMAIN retryQueue : retryQueue[i].attempts \in 1 .. MaxRetryAttempts
    <3> SUFFICES ASSUME NEW i \in DOMAIN retryQueue
                 PROVE  retryQueue[i].attempts \in 1 .. MaxRetryAttempts
      OBVIOUS
    <3>1. retryQueue[i] \in Retry
      BY SeqElement DEF IInv, Pipeline
    <3> QED
      BY <3>1 DEF Retry
  <2>3. retryWorker = "backoff" => inHand.attempts \in 1 .. MaxRetryAttempts
    BY DEF IInv, Pipeline, Retry
  <2> QED
    BY <2>1, <2>2, <2>3 DEF RetryBounded
<1> QED
  BY <1>1, SpecInv, PTL

-----------------------------------------------------------------------------
\* What Stop has achieved at each of its points and nothing undoes: the
\* connections are closed, their handlers are gone, and so, unless it gave
\* up on them, are the dialers; then nobody is left to fill the maps again.
Swept ==
    /\ nodeClosed => open = {}
    /\ stopPc \in {"nodeClosed", "enrsCleared", "stopped"} =>
           \A c \in Conns : pc[c] = "free"
    /\ stopPc \in {"sweep", "closing", "nodeClosed", "enrsCleared", "stopped"} =>
           late \/ DialersExited
    /\ stopPc \in {"enrsCleared", "stopped"} =>
           late \/ \A p \in Peers : peerENRs[p] = NoENR
    /\ stopPc = "stopped" => late \/ \A p \in Peers : retryTracker[p] = NoEntry

LEMMA InitSwept == Init => Swept
  BY DEF Init, Swept, nodeClosed

LEMMA NextSwept == IInv /\ Swept /\ [Next]_vars => Swept'
<1> SUFFICES ASSUME IInv, Swept, [Next]_vars PROVE Swept'
  OBVIOUS
<1> USE CrawlerAssumption
    DEF Swept, nodeClosed, ctxDone, DialersExited, queues, local, stop, history
<1>0. Moving /\ Swarm /\ Tracker
  BY DEF IInv
<1>1. CASE FetchAndSetStatus
  BY <1>1 DEF FetchAndSetStatus
<1>2. ASSUME NEW p \in Peers, CacheExpires(p) PROVE Swept'
  BY <1>2 DEF CacheExpires
<1>3. ASSUME NEW d \in Finders, NEW p \in Peers, DiscoverNode(d, p) PROVE Swept'
  BY <1>3 DEF DiscoverNode
<1>4. ASSUME NEW d \in Finders, QueueNode(d) PROVE Swept'
  BY <1>4 DEF QueueNode
<1>5. ASSUME NEW c \in Conns, NEW p \in Peers, PeerConnects(c, p) \/ RequestDials(c, p)
      PROVE  Swept'
  BY <1>5, <1>0
     DEF PeerConnects, RequestDials, Connected, Goto, Moving, Threads, WorkerPcs, HandlerPcs,
         FailurePcs
<1>6. ASSUME NEW c \in Conns, RemoteCloses(c) PROVE Swept'
  BY <1>6 DEF RemoteCloses
<1>7. ASSUME NEW c \in Conns, Identified(c) PROVE Swept'
  BY <1>7, <1>0
     DEF Identified, Goto, Moving, Threads, WorkerPcs, HandlerPcs,
         FailurePcs
<1>8. ASSUME NEW w \in Workers, WorkerReceive(w) PROVE Swept'
  BY <1>8, <1>0
     DEF WorkerReceive, Goto, Moving, Threads, WorkerPcs, HandlerPcs,
         FailurePcs
<1>9. ASSUME NEW w \in Workers, WorkerExit(w) PROVE Swept'
  BY <1>9, <1>0
     DEF WorkerExit, Goto, Moving, Threads, WorkerPcs, HandlerPcs,
         FailurePcs
<1>10. ASSUME NEW w \in Workers, ConnectToPeer(w) PROVE Swept'
  BY <1>10, <1>0
     DEF ConnectToPeer, Goto, Fail, Moving, Threads, WorkerPcs, HandlerPcs,
         FailurePcs
<1>11. ASSUME NEW w \in Workers, StoreENR(w) PROVE Swept'
  BY <1>11, <1>0
     DEF StoreENR, Return, Goto, Moving, Threads, WorkerPcs, HandlerPcs,
         FailurePcs
<1>12. ASSUME NEW w \in Workers, NEW c \in Conns, DialSucceeds(w, c)
      PROVE  Swept'
  BY <1>12, <1>0
     DEF DialSucceeds, Moving, Threads, WorkerPcs, HandlerPcs, FailurePcs
<1>13. ASSUME NEW w \in Workers, DialReturns(w) PROVE Swept'
  BY <1>13, <1>0
     DEF DialReturns, Return, Goto, Moving, Threads, WorkerPcs, HandlerPcs,
         FailurePcs
<1>14. ASSUME NEW c \in Conns, CheckPeer(c) PROVE Swept'
  BY <1>14, <1>0
     DEF CheckPeer, Return, Goto, Moving, Threads, WorkerPcs, HandlerPcs,
         FailurePcs
<1>15. ASSUME NEW c \in Conns, IdentifyTimeout(c) PROVE Swept'
  BY <1>15, <1>0
     DEF IdentifyTimeout, Return, Goto, Drop, Moving, Threads,
         WorkerPcs, HandlerPcs, FailurePcs
<1>16. ASSUME NEW c \in Conns, DisconnectAfterFailure(c) PROVE Swept'
  BY <1>16, <1>0
     DEF DisconnectAfterFailure, Goto, ClosePeer, Moving, Threads,
         WorkerPcs, HandlerPcs, FailurePcs
<1>17. ASSUME NEW c \in Conns, UntrackRetries(c) PROVE Swept'
  BY <1>17, <1>0
     DEF UntrackRetries, Goto, Moving, Threads, WorkerPcs, HandlerPcs,
         FailurePcs
<1>18. ASSUME NEW c \in Conns, ReportSuccess(c) PROVE Swept'
  BY <1>18, <1>0
     DEF ReportSuccess, Return, Goto, Moving, Threads, WorkerPcs,
         HandlerPcs, FailurePcs
<1>19. ASSUME NEW c \in Conns, SayGoodbye(c) PROVE Swept'
  BY <1>19, <1>0
     DEF SayGoodbye, Return, Goto, Moving, Threads, WorkerPcs, HandlerPcs,
         FailurePcs
<1>20. ASSUME NEW c \in Conns, HandlePeerDisconnected(c) PROVE Swept'
  BY <1>20, <1>0
     DEF HandlePeerDisconnected, Goto, Moving, Threads, WorkerPcs,
         HandlerPcs, FailurePcs
<1>21. ASSUME NEW c \in Conns, MetadataAnswered(c) PROVE Swept'
  BY <1>21, <1>0
     DEF MetadataAnswered, Goto, Moving, Threads, WorkerPcs, HandlerPcs,
         FailurePcs
<1>22. ASSUME NEW c \in Conns, RequestFails(c) PROVE Swept'
  BY <1>22, <1>0
     DEF RequestFails, Goto, Drop, Moving, Threads, WorkerPcs,
         HandlerPcs, FailurePcs
<1>24. ASSUME NEW c \in Conns, DisconnectFromPeer(c) PROVE Swept'
  BY <1>24, <1>0
     DEF DisconnectFromPeer, Return, Goto, ClosePeer, Moving, Threads,
         WorkerPcs, HandlerPcs, FailurePcs
<1>25. ASSUME NEW c \in Conns, NEW f \in Forks, StatusAnswered(c, f)
      PROVE  Swept'
  BY <1>25, <1>0
     DEF StatusAnswered, Goto, Fail, Moving, Threads, WorkerPcs, HandlerPcs,
         FailurePcs
<1>26. ASSUME NEW t \in Threads, CheckAttempts(t) PROVE Swept'
  BY <1>26, <1>0
     DEF CheckAttempts, Return, Goto, Moving, Threads, WorkerPcs,
         HandlerPcs, FailurePcs
<1>27. ASSUME NEW t \in Threads, GiveUp(t) PROVE Swept'
  BY <1>27, <1>0
     DEF GiveUp, Return, Goto, Moving, Threads, WorkerPcs, HandlerPcs,
         FailurePcs
<1>28. ASSUME NEW t \in Threads, LookupENR(t) PROVE Swept'
  BY <1>28, <1>0
     DEF LookupENR, Return, Goto, Moving, Threads, WorkerPcs, HandlerPcs,
         FailurePcs
<1>29. ASSUME NEW t \in Threads, ScheduleRetry(t) PROVE Swept'
  BY <1>29, <1>0
     DEF ScheduleRetry, Return, Goto, Moving, Threads, WorkerPcs,
         HandlerPcs, FailurePcs
<1>30. ASSUME NEW t \in Threads, SendRetry(t) PROVE Swept'
  BY <1>30, <1>0
     DEF SendRetry, Return, Goto, Moving, Threads, WorkerPcs, HandlerPcs,
         FailurePcs
<1>31. CASE RetryReceive
  BY <1>31 DEF RetryReceive
<1>32. CASE RetryResend
  BY <1>32 DEF RetryResend
<1>33. CASE RetryWorkerExit
  BY <1>33 DEF RetryWorkerExit
<1>34. CASE StopMark
  BY <1>34 DEF StopMark, StopStep
<1>35. CASE StopCancel
  BY <1>35 DEF StopCancel, StopStep
<1>36. CASE StopCloseRetryQueue
  BY <1>36 DEF StopCloseRetryQueue, StopStep
<1>37. CASE StopCloseDialQueue
  BY <1>37 DEF StopCloseDialQueue, StopStep
<1>38. CASE StopWaitDialers
  BY <1>38 DEF StopWaitDialers, StopStep
<1>39. ASSUME NEW p \in Peers, StopSayGoodbye(p) PROVE Swept'
  BY <1>39 DEF StopSayGoodbye
<1>40. CASE StopDisconnect
  BY <1>40, <1>0 DEF StopDisconnect, ClosePeer, Swarm, Tracker
<1>41. CASE StopCloseNode
  BY <1>41, <1>0 DEF StopCloseNode, StopStep
<1>42. CASE StopNodeClosed
  BY <1>42 DEF StopNodeClosed, StopStep
<1>43. CASE StopClearENRs
  BY <1>43, <1>0 DEF StopClearENRs, StopStep, Swarm, Tracker
<1>44. CASE StopClearTracker
  BY <1>44, <1>0 DEF StopClearTracker, StopStep, Swarm, Tracker
<1>45. CASE UNCHANGED vars
  BY <1>45 DEF vars
<1> QED
  BY <1>1, <1>2, <1>3, <1>4, <1>5, <1>6, <1>7, <1>8, <1>9, <1>10, <1>11,
     <1>12, <1>13, <1>14, <1>15, <1>16, <1>17, <1>18, <1>19, <1>20, <1>21,
     <1>22, <1>24, <1>25, <1>26, <1>27, <1>28, <1>29, <1>30, <1>31,
     <1>32, <1>33, <1>34, <1>35, <1>36, <1>37, <1>38, <1>39, <1>40, <1>41,
     <1>42, <1>43, <1>44, <1>45
     DEF Next, Environment, Dialer, Handler, Answer, CrawlFailure,
         RetryWorker, Stop

\* A Stop whose dialers left in time leaves nothing of the pipeline behind:
\* no handler outlives node.Stop to write to the maps that Stop clears.
THEOREM StopLeavesNothing == Spec => []StoppedClean
<1>1. Swept => StoppedClean
  BY DEF Swept, StoppedClean, nodeClosed
<1> QED
  BY <1>1, InitInv, NextInv, InitSwept, NextSwept, PTL DEF Spec

\* After Stop has returned no peer is dialled or connected to, and no goroutine
\* moves when the dialers left in time.  The handlers are gone and the swarm
\* is closed, so only a dialer that Stop gave up on has a step left, and the
\* step that dials or connects looks at the shutdown first.
THEOREM NothingAfterStop == Spec => QuietAfterStop
<1> DEFINE Quiet == /\ UNCHANGED <<dials, open>>
                    /\ ~late => UNCHANGED <<pc, retryTracker, peerENRs, reports>>
<1>1. IInv /\ Swept /\ [Next]_vars => [stopPc = "stopped" => Quiet]_vars
  <2> SUFFICES ASSUME IInv, Swept, Next, stopPc = "stopped" PROVE Quiet
    OBVIOUS
  <2> USE DEF queues, local, stop, history
  <2>1. /\ open = {} /\ isShutdown /\ ctxDone /\ nodeClosed
        /\ \A c \in Conns : pc[c] = "free"
        /\ ~late => /\ retryWorker = "exited"
                    /\ \A w \in Workers : pc[w] = "exited"
                    /\ \A p \in Peers : peerENRs[p] = NoENR
    BY DEF Swept, isShutdown, ctxDone, nodeClosed, DialersExited
  <2>2. CASE Environment \/ (\E d \in Finders : QueueNode(d)) \/ RetryWorker
    BY <2>1, <2>2
       DEF Environment, FetchAndSetStatus, CacheExpires, DiscoverNode, PeerConnects,
           RequestDials, Connected, RemoteCloses, Identified, QueueNode, RetryWorker, RetryReceive,
           RetryResend, RetryWorkerExit
  <2>3. ASSUME NEW w \in Workers, Dialer(w) PROVE Quiet
    <3>1. ~late => pc[w] = "exited"
      BY <2>1
    <3>2. \A c \in Conns : ~DialSucceeds(w, c)
      BY <2>1 DEF DialSucceeds
    <3> QED
      BY <2>1, <2>3, <3>1, <3>2
         DEF Dialer, WorkerReceive, WorkerExit, ConnectToPeer, StoreENR, DialReturns
  <2>4. ASSUME NEW c \in Conns PROVE ~Handler(c) /\ ~Answer(c)
    <3>1. pc[c] = "free"
      BY <2>1
    <3> QED
      BY <3>1
         DEF Handler, CheckPeer, IdentifyTimeout, DisconnectAfterFailure,
             UntrackRetries, ReportSuccess, SayGoodbye, HandlePeerDisconnected,
             Answer, MetadataAnswered, RequestFails,
             DisconnectFromPeer, StatusAnswered
  <2>5. ASSUME NEW t \in Threads, CrawlFailure(t) PROVE Quiet
    <3>1. late
      BY <2>1, <2>5
         DEF Threads, CrawlFailure, CheckAttempts, GiveUp, LookupENR,
             ScheduleRetry, SendRetry
    <3> QED
      BY <2>5, <3>1
         DEF CrawlFailure, CheckAttempts, GiveUp, LookupENR, ScheduleRetry, SendRetry
  <2>6. CASE Stop
    <3>1. StopDisconnect
      BY <2>6
         DEF Stop, StopStep, StopMark, StopCancel, StopCloseRetryQueue,
             StopCloseDialQueue, StopWaitDialers, StopSayGoodbye, StopCloseNode,
             StopNodeClosed, StopClearENRs, StopClearTracker
    <3>2. open' = open
      BY <2>1, <3>1 DEF StopDisconnect, ClosePeer
    <3>3. ~late => peerENRs' = peerENRs
      BY <2>1, <3>1 DEF StopDisconnect, IInv, Tracker, Swarm, Moving, Rest
    <3> QED
      BY <3>1, <3>2, <3>3 DEF StopDisconnect
  <2> QED
    BY <2>2, <2>3, <2>4, <2>5, <2>6 DEF Next
<1> QED
  BY <1>1, InitInv, NextInv, InitSwept, NextSwept, PTL DEF Spec, QuietAfterStop

-----------------------------------------------------------------------------
(* What a cause pays for.     A crawl of a peer that is under way is a node *)
(* on its way to a dialer, a retry or a goroutine.  Nothing makes two of    *)
(* one, and only a cause makes a new one.                                   *)

One(b)       == IF b THEN 1 ELSE 0
Places(s, p) == {i \in DOMAIN s : s[i].peer = p}

\* The discovery goroutines about to send the peer.
Held(p) == {d \in Finders : found[d].peer = p}

\* Nodes and retries that a dial will follow.
Queued(p) ==
    Cardinality(Held(p)) + Cardinality(Places(peersToDial, p))
        + Cardinality(Places(retryQueue, p)) + One(inHand.peer = p)

At(labels, p) == {t \in Threads : who[t] = p /\ pc[t] \in labels}

BusyPcs == {"connect", "store", "dial", "start", "identify", "drop", "status",
            "metadata", "untrack", "failed", "giveUp", "lookup", "schedule"}
GonePcs == {"idle", "dialled", "exited", "free", "done", "goodbye", "parting"}

Busy(p)      == At(BusyPcs, p)
Sending(p)   == At({"send"}, p)
Reporting(p) == At({"report"}, p)

Finite(p) ==
    /\ IsFiniteSet(Held(p))
    /\ IsFiniteSet(Busy(p)) /\ IsFiniteSet(Sending(p)) /\ IsFiniteSet(Reporting(p))

\* A crawl reports once, and then it is no longer under way.
CrawlsPaid(p) ==
    reports[p] + Queued(p) + Cardinality(Busy(p)) + Cardinality(Sending(p))
        + Cardinality(Reporting(p)) <= causes[p]

\* A crawl under way has MaxRetryAttempts retries still to come for it, those
\* apart that the tracker has counted, whichever crawl they were for: who
\* resets the tracker is not under way any more.  Only Stop clears it without
\* ending a crawl, when nobody dials any more.
RetriesPaid(p) ==
    ~isShutdown =>
        dials[p] + Queued(p) + Cardinality(Sending(p))
            + MaxRetryAttempts * (Queued(p) + Cardinality(Busy(p)) + Cardinality(Sending(p)))
          <= (MaxRetryAttempts + 1) * causes[p] + retryTracker[p].attempts

DialsPaid(p) == dials[p] <= (MaxRetryAttempts + 1) * causes[p]

Paid(p) == Finite(p) /\ CrawlsPaid(p) /\ RetriesPaid(p) /\ DialsPaid(p)

LEMMA Differ ==
    ASSUME NEW S, NEW T, NEW x, IsFiniteSet(S), S \ {x} = T \ {x}
    PROVE  /\ IsFiniteSet(T)
           /\ Cardinality(S) \in Nat /\ Cardinality(T) \in Nat
           /\ Cardinality(T) + One(x \in S) = Cardinality(S) + One(x \in T)
<1> DEFINE R == S \ {x}
<1>1. IsFiniteSet(R) /\ Cardinality(R) \in Nat
  BY FS_RemoveElement, FS_CardinalityType
<1>2. /\ IsFiniteSet(R \cup {x}) /\ Cardinality(R \cup {x}) = Cardinality(R) + 1
      /\ x \notin R /\ R = T \ {x}
  BY <1>1, FS_AddElement
<1> HIDE DEF R
<1>3. S = IF x \in S THEN R \cup {x} ELSE R
  BY DEF R
<1>4. T = IF x \in T THEN R \cup {x} ELSE R
  BY <1>2
<1>5. Cardinality(S) = Cardinality(R) + One(x \in S)
  <2>1. CASE x \in S
    BY <1>1, <1>2, <1>3, <2>1 DEF One
  <2>2. CASE x \notin S
    <3>1. S = R
      BY <1>3, <2>2
    <3> QED
      BY <1>1, <2>2, <3>1 DEF One
  <2> QED
    BY <2>1, <2>2
<1>6. Cardinality(T) = Cardinality(R) + One(x \in T) /\ IsFiniteSet(T)
  <2>1. CASE x \in T
    BY <1>1, <1>2, <1>4, <2>1 DEF One
  <2>2. CASE x \notin T
    <3>1. T = R
      BY <1>4, <2>2
    <3> QED
      BY <1>1, <2>2, <3>1 DEF One
  <2> QED
    BY <2>1, <2>2
<1> QED
  BY <1>1, <1>5, <1>6 DEF One

LEMMA PlacesFinite ==
    ASSUME NEW S, NEW s \in Seq(S), NEW p
    PROVE  IsFiniteSet(Places(s, p)) /\ Cardinality(Places(s, p)) \in Nat
<1>1. IsFiniteSet(1 .. Len(s))
  BY FS_Interval
<1>2. Places(s, p) \in SUBSET (1 .. Len(s))
  BY DEF Places
<1> QED
  BY <1>1, <1>2, FS_Subset, FS_CardinalityType

LEMMA PlacesAppend ==
    ASSUME NEW S, NEW s \in Seq(S), NEW e \in S, NEW p
    PROVE  Cardinality(Places(Append(s, e), p))
             = Cardinality(Places(s, p)) + One(e.peer = p)
<1> DEFINE n == Len(s) + 1
           a == Append(s, e)
<1>1. DOMAIN a = 1 .. n /\ DOMAIN s = 1 .. Len(s) /\ n \in Nat /\ n \notin 1 .. Len(s)
  OBVIOUS
<1>2. a[n] = e /\ \A i \in 1 .. Len(s) : a[i] = s[i]
  OBVIOUS
<1> HIDE DEF a
<1>3. Places(a, p) \ {n} = Places(s, p) \ {n}
  BY <1>1, <1>2 DEF Places
<1>4. n \notin Places(s, p) /\ (n \in Places(a, p) <=> e.peer = p)
  BY <1>1, <1>2 DEF Places
<1>5. /\ Cardinality(Places(s, p)) \in Nat /\ Cardinality(Places(a, p)) \in Nat
      /\ Cardinality(Places(a, p)) + One(n \in Places(s, p))
           = Cardinality(Places(s, p)) + One(n \in Places(a, p))
  BY <1>3, PlacesFinite, Differ
<1> QED
  BY <1>4, <1>5 DEF One, a

LEMMA PlacesTail ==
    ASSUME NEW S, NEW s \in Seq(S), s # <<>>, NEW p
    PROVE  Cardinality(Places(s, p))
             = Cardinality(Places(Tail(s), p)) + One(Head(s).peer = p)
<1> DEFINE l == Tail(s)
           T == Places(s, p) \ {1}
           f == [i \in Places(l, p) |-> i + 1]
<1>1. /\ l \in Seq(S) /\ Len(l) = Len(s) - 1 /\ Len(s) \in Nat \ {0}
      /\ \A i \in 1 .. Len(l) : l[i] = s[i + 1]
      /\ DOMAIN l = 1 .. Len(l) /\ DOMAIN s = 1 .. Len(s) /\ Head(s) = s[1]
  OBVIOUS
<1> HIDE DEF l
<1>2. \A i \in Places(l, p) : i \in Nat /\ i + 1 \in T
  BY <1>1 DEF Places
<1>3. f \in Injection(Places(l, p), T)
  BY <1>2 DEF Injection, IsInjective
<1>4. \A j \in T : j - 1 \in Places(l, p) /\ j = (j - 1) + 1
  BY <1>1 DEF Places
<1>5. f \in Surjection(Places(l, p), T)
  BY <1>2, <1>4 DEF Surjection
<1>6. IsFiniteSet(Places(l, p)) /\ Cardinality(Places(l, p)) \in Nat
  BY <1>1, PlacesFinite
<1>7. Cardinality(T) = Cardinality(Places(l, p))
  BY <1>3, <1>5, <1>6, FS_Bijection DEF Bijection, ExistsBijection
<1>8. 1 \in Places(s, p) <=> Head(s).peer = p
  BY <1>1 DEF Places
<1>9. /\ Cardinality(Places(s, p)) \in Nat
      /\ Cardinality(T) = IF 1 \in Places(s, p) THEN Cardinality(Places(s, p)) - 1
                                                ELSE Cardinality(Places(s, p))
  BY PlacesFinite, FS_RemoveElement
<1> QED
  BY <1>6, <1>7, <1>8, <1>9 DEF One, l

LEMMA CountsNat ==
    ASSUME IInv, NEW p \in Peers
    PROVE  /\ MaxRetryAttempts \in Nat
           /\ causes[p] \in Nat /\ dials[p] \in Nat /\ reports[p] \in Nat
           /\ retryTracker[p].attempts \in Nat
<1>1. causes[p] \in Nat /\ dials[p] \in Nat /\ reports[p] \in Nat
  BY DEF IInv, Rest
<1>2. retryTracker[p].attempts \in Nat
  BY DEF IInv, Tracker
<1> QED
  BY <1>1, <1>2, CrawlerAssumption

LEMMA QueuedNat ==
    ASSUME IInv, NEW p \in Peers, Finite(p)
    PROVE  /\ Cardinality(Held(p)) \in Nat
           /\ Cardinality(Places(peersToDial, p)) \in Nat
           /\ Cardinality(Places(retryQueue, p)) \in Nat
           /\ Queued(p) \in Nat
<1>1. /\ Cardinality(Places(peersToDial, p)) \in Nat
      /\ Cardinality(Places(retryQueue, p)) \in Nat
  BY PlacesFinite DEF IInv, Pipeline
<1>2. Cardinality(Held(p)) \in Nat
  BY FS_CardinalityType DEF Finite
<1> QED
  BY <1>1, <1>2 DEF Queued, One

\* Where the three sets differ when thread t alone has moved.
LEMMA OneMoves ==
    ASSUME NEW t \in Threads, NEW p, Finite(p), UNCHANGED found,
           \A u \in Threads \ {t} : pc'[u] = pc[u] /\ who'[u] = who[u]
    PROVE  /\ Finite(p)'
           /\ Cardinality(Busy(p)') + One(t \in Busy(p))
                = Cardinality(Busy(p)) + One(t \in Busy(p)')
           /\ Cardinality(Sending(p)') + One(t \in Sending(p))
                = Cardinality(Sending(p)) + One(t \in Sending(p)')
           /\ Cardinality(Reporting(p)') + One(t \in Reporting(p))
                = Cardinality(Reporting(p)) + One(t \in Reporting(p)')
<1>1. /\ Busy(p) \ {t} = Busy(p)' \ {t}
      /\ Sending(p) \ {t} = Sending(p)' \ {t}
      /\ Reporting(p) \ {t} = Reporting(p)' \ {t}
  BY DEF Busy, Sending, Reporting, At
<1>2. IsFiniteSet(Busy(p)) /\ IsFiniteSet(Sending(p)) /\ IsFiniteSet(Reporting(p))
  BY DEF Finite
<1>3. /\ IsFiniteSet(Busy(p)')
      /\ Cardinality(Busy(p)') + One(t \in Busy(p))
           = Cardinality(Busy(p)) + One(t \in Busy(p)')
  BY <1>1, <1>2, Differ
<1>4. /\ IsFiniteSet(Sending(p)')
      /\ Cardinality(Sending(p)') + One(t \in Sending(p))
           = Cardinality(Sending(p)) + One(t \in Sending(p)')
  BY <1>1, <1>2, Differ
<1>5. /\ IsFiniteSet(Reporting(p)')
      /\ Cardinality(Reporting(p)') + One(t \in Reporting(p))
           = Cardinality(Reporting(p)) + One(t \in Reporting(p)')
  BY <1>1, <1>2, Differ
<1>6. IsFiniteSet(Held(p)')
  BY DEF Finite, Held
<1> QED
  BY <1>3, <1>4, <1>5, <1>6 DEF Finite

\* A step that spends no more than what comes in keeps the balance.
LEMMA Balance ==
    ASSUME NEW p \in Peers, IInv, IInv', Paid(p), Finite(p)',
           Queued(p) \in Nat, Queued(p)' \in Nat,
           isShutdown => isShutdown',
           reports'[p] + Queued(p)' + Cardinality(Busy(p)') + Cardinality(Sending(p)')
               + Cardinality(Reporting(p)') + causes[p]
             <= reports[p] + Queued(p) + Cardinality(Busy(p)) + Cardinality(Sending(p))
                  + Cardinality(Reporting(p)) + causes'[p],
           ~isShutdown' =>
               dials'[p] + Queued(p)' + Cardinality(Sending(p)')
                   + MaxRetryAttempts * (Queued(p)' + Cardinality(Busy(p)') + Cardinality(Sending(p)'))
                   + (MaxRetryAttempts + 1) * causes[p] + retryTracker[p].attempts
                 <= dials[p] + Queued(p) + Cardinality(Sending(p))
                      + MaxRetryAttempts * (Queued(p) + Cardinality(Busy(p)) + Cardinality(Sending(p)))
                      + (MaxRetryAttempts + 1) * causes'[p] + retryTracker'[p].attempts,
           DialsPaid(p)'
    PROVE  Paid(p)'
<1>1. /\ Cardinality(Busy(p)) \in Nat /\ Cardinality(Sending(p)) \in Nat
      /\ Cardinality(Reporting(p)) \in Nat
      /\ Cardinality(Busy(p)') \in Nat /\ Cardinality(Sending(p)') \in Nat
      /\ Cardinality(Reporting(p)') \in Nat
  BY FS_CardinalityType DEF Paid, Finite
<1>2. /\ MaxRetryAttempts \in Nat
      /\ causes[p] \in Nat /\ dials[p] \in Nat /\ reports[p] \in Nat
      /\ causes'[p] \in Nat /\ dials'[p] \in Nat /\ reports'[p] \in Nat
      /\ retryTracker[p].attempts \in Nat /\ retryTracker'[p].attempts \in Nat
  BY CrawlerAssumption DEF IInv, Rest, Tracker
<1>3. CrawlsPaid(p)'
  BY <1>1, <1>2 DEF Paid, CrawlsPaid
<1>4. RetriesPaid(p)'
  <2> DEFINE x == MaxRetryAttempts * (Queued(p) + Cardinality(Busy(p)) + Cardinality(Sending(p)))
             y == MaxRetryAttempts * (Queued(p)' + Cardinality(Busy(p)') + Cardinality(Sending(p)'))
             a == (MaxRetryAttempts + 1) * causes[p]
             b == (MaxRetryAttempts + 1) * causes'[p]
  <2>1. x \in Nat /\ y \in Nat /\ a \in Nat /\ b \in Nat
    BY <1>1, <1>2
  <2>2. SUFFICES ASSUME ~isShutdown'
                 PROVE  dials'[p] + Queued(p)' + Cardinality(Sending(p)') + y
                          <= b + retryTracker'[p].attempts
    BY DEF RetriesPaid
  <2>3. dials[p] + Queued(p) + Cardinality(Sending(p)) + x <= a + retryTracker[p].attempts
    BY <2>2 DEF Paid, RetriesPaid
  <2>4. dials'[p] + Queued(p)' + Cardinality(Sending(p)') + y + a + retryTracker[p].attempts
          <= dials[p] + Queued(p) + Cardinality(Sending(p)) + x + b + retryTracker'[p].attempts
    BY <2>2
  <2> HIDE DEF x, y, a, b
  <2> QED
    BY <1>1, <1>2, <2>1, <2>3, <2>4
<1> QED
  BY <1>3, <1>4 DEF Paid

\* What a goroutine's step may do to the crawl of peer p it is at: go on,
\* or be about something else; fail for good; count a retry and go on to send
\* it; succeed; report the success.
GoesOn(t, p) ==
    /\ \/ who'[t] = p /\ pc[t] \in BusyPcs /\ pc'[t] \in BusyPcs
       \/ pc[t] \in GonePcs /\ pc'[t] \in GonePcs
    /\ reports'[p] = reports[p]
    /\ retryTracker'[p] = retryTracker[p]
Fails(t, p) ==
    /\ pc[t] \in BusyPcs /\ pc'[t] \in GonePcs
    /\ reports'[p] <= reports[p] + 1
Counts(t, p) ==
    /\ who'[t] = p /\ pc[t] \in BusyPcs /\ pc'[t] = "send"
    /\ reports'[p] = reports[p]
    /\ retryTracker'[p].attempts = retryTracker[p].attempts + 1
Succeeds(t, p) ==
    /\ who'[t] = p /\ pc[t] \in BusyPcs /\ pc'[t] = "report"
    /\ reports'[p] = reports[p]
Finishes(t, p) ==
    /\ pc[t] = "report" /\ pc'[t] \in GonePcs
    /\ reports'[p] <= reports[p] + 1
    /\ retryTracker'[p] = retryTracker[p]
Elsewhere(t, p) ==
    /\ who'[t] # p \/ pc'[t] \in GonePcs
    /\ reports'[p] = reports[p]
    /\ retryTracker'[p] = retryTracker[p]

Turn(t, p) ==
    IF who[t] = p
    THEN GoesOn(t, p) \/ Fails(t, p) \/ Counts(t, p) \/ Succeeds(t, p) \/ Finishes(t, p)
    ELSE Elsewhere(t, p)

LEMMA TurnPays ==
    ASSUME IInv, IInv', NEW p \in Peers, Paid(p), NEW t \in Threads,
           \A u \in Threads \ {t} : pc'[u] = pc[u] /\ who'[u] = who[u],
           UNCHANGED <<found, peersToDial, retryQueue, inHand>>,
           UNCHANGED <<causes, dials, stopPc>>,
           Turn(t, p)
    PROVE  Paid(p)'
<1> DEFINE M == MaxRetryAttempts
           q == Queued(p)
           b == Cardinality(Busy(p))
           s == Cardinality(Sending(p))
           r == Cardinality(Reporting(p))
           b2 == Cardinality(Busy(p)')
           s2 == Cardinality(Sending(p)')
           r2 == Cardinality(Reporting(p)')
<1>1. /\ Finite(p)'
      /\ b2 + One(t \in Busy(p)) = b + One(t \in Busy(p)')
      /\ s2 + One(t \in Sending(p)) = s + One(t \in Sending(p)')
      /\ r2 + One(t \in Reporting(p)) = r + One(t \in Reporting(p)')
  BY OneMoves DEF Paid
<1>2. /\ b \in Nat /\ s \in Nat /\ r \in Nat
      /\ b2 \in Nat /\ s2 \in Nat /\ r2 \in Nat
  BY <1>1, FS_CardinalityType DEF Paid, Finite
<1>3. /\ q \in Nat /\ Queued(p)' = q
      /\ causes'[p] = causes[p] /\ dials'[p] = dials[p]
      /\ isShutdown' = isShutdown
  BY QueuedNat DEF Paid, Queued, Held, Places, isShutdown
<1>4. /\ M \in Nat /\ causes[p] \in Nat /\ dials[p] \in Nat /\ reports[p] \in Nat
      /\ reports'[p] \in Nat
      /\ retryTracker[p].attempts \in 0 .. M /\ retryTracker'[p].attempts \in Nat
  BY CrawlerAssumption DEF IInv, Rest, Tracker
<1>5. /\ t \in Busy(p) <=> who[t] = p /\ pc[t] \in BusyPcs
      /\ t \in Sending(p) <=> who[t] = p /\ pc[t] = "send"
      /\ t \in Reporting(p) <=> who[t] = p /\ pc[t] = "report"
      /\ t \in Busy(p)' <=> who'[t] = p /\ pc'[t] \in BusyPcs
      /\ t \in Sending(p)' <=> who'[t] = p /\ pc'[t] = "send"
      /\ t \in Reporting(p)' <=> who'[t] = p /\ pc'[t] = "report"
  BY DEF Busy, Sending, Reporting, At
<1>6. /\ BusyPcs \cap GonePcs = {}
      /\ "send" \notin BusyPcs \cup GonePcs /\ "report" \notin BusyPcs \cup GonePcs
  BY DEF BusyPcs, GonePcs
<1>7. DialsPaid(p)'
  BY <1>3 DEF Paid, DialsPaid
<1> HIDE DEF q, b, s, r, b2, s2, r2
<1>8. /\ reports'[p] + b2 + s2 + r2 <= reports[p] + b + s + r
      /\ \/ /\ s2 = s /\ b2 + s2 = b + s
            /\ retryTracker'[p].attempts = retryTracker[p].attempts
         \/ s2 = s /\ b + s = b2 + s2 + 1
         \/ /\ s2 = s + 1 /\ b2 + s2 = b + s
            /\ retryTracker'[p].attempts = retryTracker[p].attempts + 1
  <2>1. CASE who[t] # p
    <3>1. /\ One(t \in Busy(p)) = 0 /\ One(t \in Sending(p)) = 0 /\ One(t \in Reporting(p)) = 0
          /\ One(t \in Busy(p)') = 0 /\ One(t \in Sending(p)') = 0 /\ One(t \in Reporting(p)') = 0
      BY <1>5, <1>6, <2>1 DEF One, Turn, Elsewhere
    <3>2. reports'[p] = reports[p] /\ retryTracker'[p] = retryTracker[p]
      BY <2>1 DEF Turn, Elsewhere
    <3> QED
      BY <1>1, <1>2, <1>4, <3>1, <3>2
  <2>2. CASE who[t] = p /\ GoesOn(t, p)
    <3>1. /\ One(t \in Busy(p)) = One(t \in Busy(p)')
          /\ One(t \in Busy(p)) \in Nat
          /\ One(t \in Sending(p)) = 0 /\ One(t \in Reporting(p)) = 0
          /\ One(t \in Sending(p)') = 0 /\ One(t \in Reporting(p)') = 0
      BY <1>5, <1>6, <2>2 DEF One, GoesOn
    <3> QED
      BY <1>1, <1>2, <1>4, <2>2, <3>1 DEF GoesOn
  <2>3. CASE who[t] = p /\ Fails(t, p)
    <3>1. /\ One(t \in Busy(p)) = 1 /\ One(t \in Busy(p)') = 0
          /\ One(t \in Sending(p)) = 0 /\ One(t \in Reporting(p)) = 0
          /\ One(t \in Sending(p)') = 0 /\ One(t \in Reporting(p)') = 0
      BY <1>5, <1>6, <2>3 DEF One, Fails
    <3> QED
      BY <1>1, <1>2, <1>4, <2>3, <3>1 DEF Fails
  <2>4. CASE who[t] = p /\ Counts(t, p)
    <3>1. /\ One(t \in Busy(p)) = 1 /\ One(t \in Busy(p)') = 0
          /\ One(t \in Sending(p)) = 0 /\ One(t \in Reporting(p)) = 0
          /\ One(t \in Sending(p)') = 1 /\ One(t \in Reporting(p)') = 0
      BY <1>5, <1>6, <2>4 DEF One, Counts
    <3> QED
      BY <1>1, <1>2, <1>4, <2>4, <3>1 DEF Counts
  <2>5. CASE who[t] = p /\ Succeeds(t, p)
    <3>1. /\ One(t \in Busy(p)) = 1 /\ One(t \in Busy(p)') = 0
          /\ One(t \in Sending(p)) = 0 /\ One(t \in Reporting(p)) = 0
          /\ One(t \in Sending(p)') = 0 /\ One(t \in Reporting(p)') = 1
      BY <1>5, <1>6, <2>5 DEF One, Succeeds
    <3> QED
      BY <1>1, <1>2, <1>4, <2>5, <3>1 DEF Succeeds
  <2>6. CASE who[t] = p /\ Finishes(t, p)
    <3>1. /\ One(t \in Busy(p)) = 0 /\ One(t \in Busy(p)') = 0
          /\ One(t \in Sending(p)) = 0 /\ One(t \in Reporting(p)) = 1
          /\ One(t \in Sending(p)') = 0 /\ One(t \in Reporting(p)') = 0
      BY <1>5, <1>6, <2>6 DEF One, Finishes
    <3> QED
      BY <1>1, <1>2, <1>4, <2>6, <3>1 DEF Finishes
  <2> QED
    BY <2>1, <2>2, <2>3, <2>4, <2>5, <2>6 DEF Turn
<1>9. s2 + M * (q + b2 + s2) + retryTracker[p].attempts
        <= s + M * (q + b + s) + retryTracker'[p].attempts
  <2>1. CASE b2 + s2 = b + s
    <3>1. q + b2 + s2 = q + b + s
      BY <1>2, <1>3, <2>1
    <3>2. s2 + retryTracker[p].attempts <= s + retryTracker'[p].attempts
      BY <1>2, <1>4, <1>8, <2>1
    <3>3. M * (q + b + s) \in Nat
      BY <1>2, <1>3, <1>4
    <3> QED
      BY <1>2, <1>4, <3>1, <3>2, <3>3
  <2>2. CASE s2 = s /\ b + s = b2 + s2 + 1
    <3>1. /\ q + b + s = (q + b2 + s2) + 1
          /\ q + b2 + s2 \in Nat
      BY <1>2, <1>3, <2>2
    <3>2. /\ M * (q + b + s) = M * (q + b2 + s2) + M
          /\ M * (q + b2 + s2) \in Nat
      BY <1>4, <3>1
    <3> QED
      BY <1>2, <1>4, <2>2, <3>2
  <2> QED
    BY <1>8, <2>1, <2>2
<1>10. /\ reports'[p] + q + b2 + s2 + r2 + causes[p] <= reports[p] + q + b + s + r + causes'[p]
       /\ dials'[p] + q + s2 + M * (q + b2 + s2) + (M + 1) * causes[p] + retryTracker[p].attempts
            <= dials[p] + q + s + M * (q + b + s) + (M + 1) * causes'[p]
                 + retryTracker'[p].attempts
  <2> DEFINE x == M * (q + b + s)
             y == M * (q + b2 + s2)
             a == (M + 1) * causes[p]
  <2>1. x \in Nat /\ y \in Nat /\ a \in Nat /\ a = (M + 1) * causes'[p]
    BY <1>2, <1>3, <1>4
  <2>2. s2 + y + retryTracker[p].attempts <= s + x + retryTracker'[p].attempts
    BY <1>9
  <2> HIDE DEF x, y, a, M
  <2>3. dials'[p] + q + s2 + y + a + retryTracker[p].attempts
            <= dials[p] + q + s + x + a + retryTracker'[p].attempts
    BY <1>2, <1>3, <1>4, <2>1, <2>2
  <2> QED
    BY <1>2, <1>3, <1>4, <1>8, <2>1, <2>3 DEF x, y
<1> QED
  BY <1>1, <1>3, <1>7, <1>10, Balance DEF q, b, s, r, b2, s2, r2, M

\* A step that leaves crawls, counters and, before Stop, the tracker alone.
LEMMA StillPays ==
    ASSUME IInv, IInv', NEW p \in Peers, Paid(p),
           UNCHANGED <<found, peersToDial, retryQueue, inHand>>,
           UNCHANGED <<pc, who, causes, dials, reports>>,
           isShutdown => isShutdown',
           ~isShutdown' => UNCHANGED retryTracker
    PROVE  Paid(p)'
<1>1. Finite(p)' /\ CrawlsPaid(p)' /\ DialsPaid(p)'
  BY DEF Paid, Finite, CrawlsPaid, DialsPaid, Busy, Sending, Reporting, At,
         Queued, Held, Places
<1>2. RetriesPaid(p)'
  BY DEF Paid, RetriesPaid, Busy, Sending, At, Queued, Held, Places
<1> QED
  BY <1>1, <1>2 DEF Paid

LEMMA TurnsPay ==
    ASSUME IInv, IInv', NEW p \in Peers, Paid(p)
    PROVE  /\ \A w \in Workers :
                  WorkerExit(w) \/ ConnectToPeer(w) \/ StoreENR(w) \/ DialReturns(w)
                    => Paid(p)'
           /\ \A c \in Conns :
                  (\/ HandlePeerDisconnected(c) \/ CheckPeer(c) \/ Identified(c)
                   \/ IdentifyTimeout(c) \/ RequestFails(c)
                   \/ DisconnectAfterFailure(c) \/ (\E f \in Forks : StatusAnswered(c, f))
                   \/ MetadataAnswered(c) \/ UntrackRetries(c) \/ ReportSuccess(c)
                   \/ SayGoodbye(c) \/ DisconnectFromPeer(c))
                    => Paid(p)'
           /\ \A t \in Threads :
                  CheckAttempts(t) \/ GiveUp(t) \/ LookupENR(t) \/ ScheduleRetry(t)
                    => Paid(p)'
<1>1. /\ pc \in [Threads -> WorkerPcs \cup HandlerPcs \cup FailurePcs]
      /\ who \in [Threads -> Peers \cup {NoPeer}]
      /\ reports \in [Peers -> Nat]
      /\ retryTracker \in [Peers -> [fork : Forks \cup {NoENR}, attempts : Nat]]
  BY DEF IInv, Moving, Rest, Tracker
<1>2. Workers \subseteq Threads /\ Conns \subseteq Threads /\ Workers \cap Conns = {}
  BY CrawlerAssumption DEF Threads
<1>3. ASSUME NEW w \in Workers, WorkerExit(w) PROVE Paid(p)'
  <2>1. /\ \A u \in Threads \ {w} : pc'[u] = pc[u] /\ who'[u] = who[u]
        /\ UNCHANGED <<found, peersToDial, retryQueue, inHand>>
        /\ UNCHANGED <<causes, dials, stopPc>>
    BY <1>1, <1>2, <1>3 DEF WorkerExit, Goto, queues, stop, history, local
  <2>2. Turn(w, p)
    BY <1>1, <1>2, <1>3
       DEF WorkerExit, Goto, history, Turn, GoesOn, Fails, Counts, Succeeds, Finishes, Elsewhere,
           BusyPcs, GonePcs
  <2> QED
    BY <1>2, <2>1, <2>2, TurnPays
<1>4. ASSUME NEW w \in Workers, ConnectToPeer(w) PROVE Paid(p)'
  <2>1. /\ \A u \in Threads \ {w} : pc'[u] = pc[u] /\ who'[u] = who[u]
        /\ UNCHANGED <<found, peersToDial, retryQueue, inHand>>
        /\ UNCHANGED <<causes, dials, stopPc>>
    BY <1>1, <1>2, <1>4 DEF ConnectToPeer, Goto, Fail, queues, stop, history, local
  <2>2. Turn(w, p)
    BY <1>1, <1>2, <1>4
       DEF ConnectToPeer, Goto, Fail, history, Turn, GoesOn, Fails, Counts, Succeeds, Finishes, Elsewhere,
           BusyPcs, GonePcs
  <2> QED
    BY <1>2, <2>1, <2>2, TurnPays
<1>5. ASSUME NEW w \in Workers, StoreENR(w) PROVE Paid(p)'
  <2>1. /\ \A u \in Threads \ {w} : pc'[u] = pc[u] /\ who'[u] = who[u]
        /\ UNCHANGED <<found, peersToDial, retryQueue, inHand>>
        /\ UNCHANGED <<causes, dials, stopPc>>
    BY <1>1, <1>2, <1>5 DEF StoreENR, Goto, Return, queues, stop, history, local
  <2>2. Turn(w, p)
    BY <1>1, <1>2, <1>5
       DEF StoreENR, Goto, Return, history, Turn, GoesOn, Fails, Counts, Succeeds, Finishes, Elsewhere,
           BusyPcs, GonePcs
  <2> QED
    BY <1>2, <2>1, <2>2, TurnPays
<1>6. ASSUME NEW w \in Workers, DialReturns(w) PROVE Paid(p)'
  <2>1. /\ \A u \in Threads \ {w} : pc'[u] = pc[u] /\ who'[u] = who[u]
        /\ UNCHANGED <<found, peersToDial, retryQueue, inHand>>
        /\ UNCHANGED <<causes, dials, stopPc>>
    BY <1>1, <1>2, <1>6 DEF DialReturns, Goto, Return, queues, stop, history, local
  <2>2. Turn(w, p)
    BY <1>1, <1>2, <1>6
       DEF DialReturns, Goto, Return, history, Turn, GoesOn, Fails, Counts, Succeeds, Finishes, Elsewhere,
           BusyPcs, GonePcs
  <2> QED
    BY <1>2, <2>1, <2>2, TurnPays
<1>7. ASSUME NEW c \in Conns, HandlePeerDisconnected(c) PROVE Paid(p)'
  <2>1. /\ \A u \in Threads \ {c} : pc'[u] = pc[u] /\ who'[u] = who[u]
        /\ UNCHANGED <<found, peersToDial, retryQueue, inHand>>
        /\ UNCHANGED <<causes, dials, stopPc>>
    BY <1>1, <1>2, <1>7 DEF HandlePeerDisconnected, Goto, queues, stop, history, local
  <2>2. Turn(c, p)
    BY <1>1, <1>2, <1>7
       DEF HandlePeerDisconnected, Goto, history, Turn, GoesOn, Fails, Counts, Succeeds, Finishes, Elsewhere,
           BusyPcs, GonePcs
  <2> QED
    BY <1>2, <2>1, <2>2, TurnPays
<1>8. ASSUME NEW c \in Conns, CheckPeer(c) PROVE Paid(p)'
  <2>1. /\ \A u \in Threads \ {c} : pc'[u] = pc[u] /\ who'[u] = who[u]
        /\ UNCHANGED <<found, peersToDial, retryQueue, inHand>>
        /\ UNCHANGED <<causes, dials, stopPc>>
    BY <1>1, <1>2, <1>8 DEF CheckPeer, Goto, Return, queues, stop, history, local
  <2>2. Turn(c, p)
    BY <1>1, <1>2, <1>8
       DEF CheckPeer, Goto, Return, history, Turn, GoesOn, Fails, Counts, Succeeds, Finishes, Elsewhere,
           BusyPcs, GonePcs
  <2> QED
    BY <1>2, <2>1, <2>2, TurnPays
<1>9. ASSUME NEW c \in Conns, Identified(c) PROVE Paid(p)'
  <2>1. /\ \A u \in Threads \ {c} : pc'[u] = pc[u] /\ who'[u] = who[u]
        /\ UNCHANGED <<found, peersToDial, retryQueue, inHand>>
        /\ UNCHANGED <<causes, dials, stopPc>>
    BY <1>1, <1>2, <1>9 DEF Identified, Goto, queues, stop, history, local
  <2>2. Turn(c, p)
    BY <1>1, <1>2, <1>9
       DEF Identified, Goto, history, Turn, GoesOn, Fails, Counts, Succeeds, Finishes, Elsewhere,
           BusyPcs, GonePcs
  <2> QED
    BY <1>2, <2>1, <2>2, TurnPays
<1>10. ASSUME NEW c \in Conns, IdentifyTimeout(c) PROVE Paid(p)'
  <2>1. /\ \A u \in Threads \ {c} : pc'[u] = pc[u] /\ who'[u] = who[u]
        /\ UNCHANGED <<found, peersToDial, retryQueue, inHand>>
        /\ UNCHANGED <<causes, dials, stopPc>>
    BY <1>1, <1>2, <1>10 DEF IdentifyTimeout, Goto, Return, Drop, queues, stop, history, local
  <2>2. Turn(c, p)
    BY <1>1, <1>2, <1>10
       DEF IdentifyTimeout, Goto, Return, Drop, history, Turn, GoesOn, Fails, Counts, Succeeds, Finishes, Elsewhere,
           BusyPcs, GonePcs
  <2> QED
    BY <1>2, <2>1, <2>2, TurnPays
<1>11. ASSUME NEW c \in Conns, RequestFails(c) PROVE Paid(p)'
  <2>1. /\ \A u \in Threads \ {c} : pc'[u] = pc[u] /\ who'[u] = who[u]
        /\ UNCHANGED <<found, peersToDial, retryQueue, inHand>>
        /\ UNCHANGED <<causes, dials, stopPc>>
    BY <1>1, <1>2, <1>11 DEF RequestFails, Goto, Drop, queues, stop, history, local
  <2>2. Turn(c, p)
    BY <1>1, <1>2, <1>11
       DEF RequestFails, Goto, Drop, history, Turn, GoesOn, Fails, Counts, Succeeds, Finishes, Elsewhere,
           BusyPcs, GonePcs
  <2> QED
    BY <1>2, <2>1, <2>2, TurnPays
<1>13. ASSUME NEW c \in Conns, DisconnectAfterFailure(c) PROVE Paid(p)'
  <2>1. /\ \A u \in Threads \ {c} : pc'[u] = pc[u] /\ who'[u] = who[u]
        /\ UNCHANGED <<found, peersToDial, retryQueue, inHand>>
        /\ UNCHANGED <<causes, dials, stopPc>>
    BY <1>1, <1>2, <1>13 DEF DisconnectAfterFailure, Goto, queues, stop, history, local
  <2>2. Turn(c, p)
    BY <1>1, <1>2, <1>13
       DEF DisconnectAfterFailure, Goto, history, Turn, GoesOn, Fails, Counts, Succeeds, Finishes, Elsewhere,
           BusyPcs, GonePcs
  <2> QED
    BY <1>2, <2>1, <2>2, TurnPays
<1>14. ASSUME NEW c \in Conns, NEW f \in Forks, StatusAnswered(c, f) PROVE Paid(p)'
  <2>1. /\ \A u \in Threads \ {c} : pc'[u] = pc[u] /\ who'[u] = who[u]
        /\ UNCHANGED <<found, peersToDial, retryQueue, inHand>>
        /\ UNCHANGED <<causes, dials, stopPc>>
    BY <1>1, <1>2, <1>14 DEF StatusAnswered, Goto, Fail, queues, stop, history, local
  <2>2. Turn(c, p)
    BY <1>1, <1>2, <1>14
       DEF StatusAnswered, Goto, Fail, history, Turn, GoesOn, Fails, Counts, Succeeds, Finishes, Elsewhere,
           BusyPcs, GonePcs
  <2> QED
    BY <1>2, <2>1, <2>2, TurnPays
<1>15. ASSUME NEW c \in Conns, MetadataAnswered(c) PROVE Paid(p)'
  <2>1. /\ \A u \in Threads \ {c} : pc'[u] = pc[u] /\ who'[u] = who[u]
        /\ UNCHANGED <<found, peersToDial, retryQueue, inHand>>
        /\ UNCHANGED <<causes, dials, stopPc>>
    BY <1>1, <1>2, <1>15 DEF MetadataAnswered, Goto, queues, stop, history, local
  <2>2. Turn(c, p)
    BY <1>1, <1>2, <1>15
       DEF MetadataAnswered, Goto, history, Turn, GoesOn, Fails, Counts, Succeeds, Finishes, Elsewhere,
           BusyPcs, GonePcs
  <2> QED
    BY <1>2, <2>1, <2>2, TurnPays
<1>16. ASSUME NEW c \in Conns, UntrackRetries(c) PROVE Paid(p)'
  <2>1. /\ \A u \in Threads \ {c} : pc'[u] = pc[u] /\ who'[u] = who[u]
        /\ UNCHANGED <<found, peersToDial, retryQueue, inHand>>
        /\ UNCHANGED <<causes, dials, stopPc>>
    BY <1>1, <1>2, <1>16 DEF UntrackRetries, Goto, queues, stop, history, local
  <2>2. Turn(c, p)
    BY <1>1, <1>2, <1>16
       DEF UntrackRetries, Goto, history, Turn, GoesOn, Fails, Counts, Succeeds, Finishes, Elsewhere,
           BusyPcs, GonePcs
  <2> QED
    BY <1>2, <2>1, <2>2, TurnPays
<1>17. ASSUME NEW c \in Conns, ReportSuccess(c) PROVE Paid(p)'
  <2>1. /\ \A u \in Threads \ {c} : pc'[u] = pc[u] /\ who'[u] = who[u]
        /\ UNCHANGED <<found, peersToDial, retryQueue, inHand>>
        /\ UNCHANGED <<causes, dials, stopPc>>
    BY <1>1, <1>2, <1>17 DEF ReportSuccess, Goto, Return, Report, queues, stop, history, local
  <2>2. Turn(c, p)
    BY <1>1, <1>2, <1>17
       DEF ReportSuccess, Goto, Return, Report, history, Turn, GoesOn, Fails, Counts, Succeeds, Finishes, Elsewhere,
           BusyPcs, GonePcs
  <2> QED
    BY <1>2, <2>1, <2>2, TurnPays
<1>18. ASSUME NEW c \in Conns, SayGoodbye(c) PROVE Paid(p)'
  <2>1. /\ \A u \in Threads \ {c} : pc'[u] = pc[u] /\ who'[u] = who[u]
        /\ UNCHANGED <<found, peersToDial, retryQueue, inHand>>
        /\ UNCHANGED <<causes, dials, stopPc>>
    BY <1>1, <1>2, <1>18 DEF SayGoodbye, Goto, Return, queues, stop, history, local
  <2>2. Turn(c, p)
    BY <1>1, <1>2, <1>18
       DEF SayGoodbye, Goto, Return, history, Turn, GoesOn, Fails, Counts, Succeeds, Finishes, Elsewhere,
           BusyPcs, GonePcs
  <2> QED
    BY <1>2, <2>1, <2>2, TurnPays
<1>19. ASSUME NEW c \in Conns, DisconnectFromPeer(c) PROVE Paid(p)'
  <2>1. /\ \A u \in Threads \ {c} : pc'[u] = pc[u] /\ who'[u] = who[u]
        /\ UNCHANGED <<found, peersToDial, retryQueue, inHand>>
        /\ UNCHANGED <<causes, dials, stopPc>>
    BY <1>1, <1>2, <1>19 DEF DisconnectFromPeer, Goto, Return, queues, stop, history, local
  <2>2. Turn(c, p)
    BY <1>1, <1>2, <1>19
       DEF DisconnectFromPeer, Goto, Return, history, Turn, GoesOn, Fails, Counts, Succeeds, Finishes, Elsewhere,
           BusyPcs, GonePcs
  <2> QED
    BY <1>2, <2>1, <2>2, TurnPays
<1>20. ASSUME NEW t \in Threads, CheckAttempts(t) PROVE Paid(p)'
  <2>1. /\ \A u \in Threads \ {t} : pc'[u] = pc[u] /\ who'[u] = who[u]
        /\ UNCHANGED <<found, peersToDial, retryQueue, inHand>>
        /\ UNCHANGED <<causes, dials, stopPc>>
    BY <1>1, <1>2, <1>20 DEF CheckAttempts, Goto, Return, Report, queues, stop, history, local
  <2>2. Turn(t, p)
    BY <1>1, <1>2, <1>20
       DEF CheckAttempts, Goto, Return, Report, history, Turn, GoesOn, Fails, Counts, Succeeds, Finishes, Elsewhere,
           BusyPcs, GonePcs
  <2> QED
    BY <1>2, <2>1, <2>2, TurnPays
<1>21. ASSUME NEW t \in Threads, GiveUp(t) PROVE Paid(p)'
  <2>1. /\ \A u \in Threads \ {t} : pc'[u] = pc[u] /\ who'[u] = who[u]
        /\ UNCHANGED <<found, peersToDial, retryQueue, inHand>>
        /\ UNCHANGED <<causes, dials, stopPc>>
    BY <1>1, <1>2, <1>21 DEF GiveUp, Goto, Return, Report, queues, stop, history, local
  <2>2. Turn(t, p)
    BY <1>1, <1>2, <1>21
       DEF GiveUp, Goto, Return, Report, history, Turn, GoesOn, Fails, Counts, Succeeds, Finishes, Elsewhere,
           BusyPcs, GonePcs
  <2> QED
    BY <1>2, <2>1, <2>2, TurnPays
<1>22. ASSUME NEW t \in Threads, LookupENR(t) PROVE Paid(p)'
  <2>1. /\ \A u \in Threads \ {t} : pc'[u] = pc[u] /\ who'[u] = who[u]
        /\ UNCHANGED <<found, peersToDial, retryQueue, inHand>>
        /\ UNCHANGED <<causes, dials, stopPc>>
    BY <1>1, <1>2, <1>22 DEF LookupENR, Goto, Return, Report, queues, stop, history, local
  <2>2. Turn(t, p)
    BY <1>1, <1>2, <1>22
       DEF LookupENR, Goto, Return, Report, history, Turn, GoesOn, Fails, Counts, Succeeds, Finishes, Elsewhere,
           BusyPcs, GonePcs
  <2> QED
    BY <1>2, <2>1, <2>2, TurnPays
<1>23. ASSUME NEW t \in Threads, ScheduleRetry(t) PROVE Paid(p)'
  <2>1. /\ \A u \in Threads \ {t} : pc'[u] = pc[u] /\ who'[u] = who[u]
        /\ UNCHANGED <<found, peersToDial, retryQueue, inHand>>
        /\ UNCHANGED <<causes, dials, stopPc>>
    BY <1>1, <1>2, <1>23 DEF ScheduleRetry, Goto, Return, CountedRetry, queues, stop, history, local
  <2>2. Turn(t, p)
    BY <1>1, <1>2, <1>23
       DEF ScheduleRetry, Goto, Return, CountedRetry, history, Turn, GoesOn, Fails, Counts, Succeeds, Finishes, Elsewhere,
           BusyPcs, GonePcs
  <2> QED
    BY <1>2, <2>1, <2>2, TurnPays
<1> QED
  BY <1>3, <1>4, <1>5, <1>6, <1>7, <1>8, <1>9, <1>10, <1>11, <1>13, <1>14, <1>15, <1>16, <1>17, <1>18, <1>19, <1>20, <1>21, <1>22, <1>23

LEMMA TimesMonotone ==
    ASSUME NEW m \in Nat, NEW x \in Nat, NEW y \in Nat, x <= y
    PROVE  m * x <= m * y /\ m * x \in Nat /\ m * y \in Nat
<1>1. PICK d \in Nat : y = x + d
  <2>1. y - x \in Nat /\ y = x + (y - x)
    OBVIOUS
  <2> QED
    BY <2>1
<1>2. m * y = m * x + m * d /\ m * x \in Nat /\ m * d \in Nat
  BY <1>1
<1> QED
  BY <1>2

\* A step of the channels loses a crawl of the peer or none.
LEMMA ChannelPays ==
    ASSUME IInv, IInv', NEW p \in Peers, Paid(p),
           UNCHANGED <<pc, who, retryTracker, stopPc>>,
           UNCHANGED <<causes, dials, reports>>,
           IsFiniteSet(Held(p)'), Queued(p)' <= Queued(p), Queued(p)' \in Nat
    PROVE  Paid(p)'
<1> DEFINE M == MaxRetryAttempts
           q == Queued(p)
           q2 == Queued(p)'
           b == Cardinality(Busy(p))
           s == Cardinality(Sending(p))
           r == Cardinality(Reporting(p))
<1>1. /\ Finite(p)'
      /\ Busy(p)' = Busy(p) /\ Sending(p)' = Sending(p) /\ Reporting(p)' = Reporting(p)
      /\ isShutdown' = isShutdown /\ causes'[p] = causes[p]
  BY DEF Paid, Finite, Busy, Sending, Reporting, At, isShutdown
<1>2. /\ b \in Nat /\ s \in Nat /\ r \in Nat /\ q \in Nat
      /\ M \in Nat /\ causes[p] \in Nat /\ dials[p] \in Nat /\ reports[p] \in Nat
      /\ retryTracker[p].attempts \in Nat
  BY QueuedNat, CountsNat, FS_CardinalityType DEF Paid, Finite
<1>3. DialsPaid(p)'
  BY <1>1 DEF Paid, DialsPaid
<1> HIDE DEF q, q2, b, s, r
<1>4. /\ reports[p] + q2 + b + s + r + causes[p] <= reports[p] + q + b + s + r + causes[p]
      /\ dials[p] + q2 + s + M * (q2 + b + s) + (M + 1) * causes[p] + retryTracker[p].attempts
           <= dials[p] + q + s + M * (q + b + s) + (M + 1) * causes[p]
                + retryTracker[p].attempts
  <2> DEFINE x == M * (q + b + s)
             y == M * (q2 + b + s)
             a == (M + 1) * causes[p]
  <2>1. q2 \in Nat /\ q2 <= q
    BY DEF q, q2
  <2>2. y <= x /\ y \in Nat /\ x \in Nat
    <3> DEFINE u == q2 + b + s
               v == q + b + s
    <3>1. u \in Nat /\ v \in Nat /\ u <= v
      BY <1>2, <2>1
    <3> HIDE DEF u, v
    <3>2. M * u <= M * v /\ M * u \in Nat /\ M * v \in Nat
      BY <1>2, <3>1, TimesMonotone
    <3> QED
      BY <3>2 DEF u, v
  <2>3. a \in Nat
    BY <1>2
  <2> HIDE DEF x, y, a, M
  <2>4. dials[p] + q2 + s + y + a + retryTracker[p].attempts
            <= dials[p] + q + s + x + a + retryTracker[p].attempts
    BY <1>2, <2>1, <2>2, <2>3
  <2> QED
    BY <1>2, <2>1, <2>4 DEF x, y, a
<1> QED
  BY <1>1, <1>2, <1>3, <1>4, Balance DEF q, q2, b, s, r, M

LEMMA ChannelsPay ==
    ASSUME IInv, IInv', NEW p \in Peers, Paid(p),
           (\E d \in Finders : QueueNode(d)) \/ RetryReceive \/ RetryResend
             \/ RetryWorkerExit
    PROVE  Paid(p)'
<1>1. /\ peersToDial \in Seq(Node) /\ retryQueue \in Seq(Retry)
      /\ found \in [Finders -> Node \cup {NoNode}] /\ inHand \in Retry \cup {NoRetry}
      /\ retryWorker = "backoff" => inHand \in Retry
  BY DEF IInv, Pipeline
<1>2. /\ NoNode.peer # p /\ NoRetry.peer # p
      /\ Cardinality(Places(peersToDial, p)) \in Nat
      /\ Cardinality(Places(retryQueue, p)) \in Nat
      /\ One(NoRetry.peer = p) = 0
  BY QueuedNat, CrawlerAssumption DEF Paid, NoNode, NoRetry, One
<1>3. /\ Cardinality(Held(p)) \in Nat /\ IsFiniteSet(Held(p))
      /\ One(inHand.peer = p) \in {0, 1}
  BY QueuedNat DEF Paid, Finite, One
<1>4. ASSUME NEW d \in Finders, QueueNode(d) PROVE Paid(p)'
  <2> DEFINE o == One(found[d].peer = p)
  <2>1. Cardinality(Places(peersToDial', p))
          \in {Cardinality(Places(peersToDial, p)),
               Cardinality(Places(peersToDial, p)) + o}
    <3>1. CASE peersToDial' = peersToDial
      BY <3>1
    <3>2. CASE peersToDial' = Append(peersToDial, found[d])
      <4>1. found[d] \in Node
        BY <1>1, <1>4 DEF QueueNode
      <4> QED
        BY <1>1, <3>2, <4>1, PlacesAppend
    <3> QED
      BY <1>4, <3>1, <3>2 DEF QueueNode
  <2>2. /\ retryQueue' = retryQueue /\ inHand' = inHand
        /\ found' = [found EXCEPT ![d] = NoNode]
    BY <1>4 DEF QueueNode
  <2>3. /\ IsFiniteSet(Held(p)') /\ Cardinality(Held(p)') \in Nat
        /\ Cardinality(Held(p)') + o = Cardinality(Held(p))
    <3>1. Held(p) \ {d} = Held(p)' \ {d}
      BY <1>1, <2>2 DEF Held
    <3>2. (d \in Held(p) <=> found[d].peer = p) /\ d \notin Held(p)'
      BY <1>1, <1>2, <2>2 DEF Held
    <3>3. /\ IsFiniteSet(Held(p)') /\ Cardinality(Held(p)') \in Nat
          /\ Cardinality(Held(p)') + One(d \in Held(p))
               = Cardinality(Held(p)) + One(d \in Held(p)')
      BY <1>3, <3>1, Differ
    <3> QED
      BY <1>3, <3>2, <3>3 DEF One
  <2>4. Queued(p)' \in Nat /\ Queued(p)' <= Queued(p)
    <3>1. Queued(p)' = Cardinality(Held(p)') + Cardinality(Places(peersToDial', p))
                         + Cardinality(Places(retryQueue, p)) + One(inHand.peer = p)
      BY <2>2 DEF Queued
    <3>2. o \in {0, 1}
      BY DEF One
    <3> HIDE DEF o
    <3> QED
      BY <1>2, <1>3, <2>1, <2>3, <3>1, <3>2 DEF Queued
  <2> QED
    BY <1>4, <2>3, <2>4, ChannelPays DEF QueueNode, local, stop, history
<1>5. CASE RetryReceive
  <2>1. Cardinality(Places(retryQueue, p))
          = Cardinality(Places(retryQueue', p)) + One(Head(retryQueue).peer = p)
    BY <1>1, <1>5, PlacesTail DEF RetryReceive
  <2>2. Cardinality(Places(retryQueue', p)) \in Nat
    BY PlacesFinite DEF IInv, Pipeline
  <2>3. /\ Held(p)' = Held(p) /\ peersToDial' = peersToDial
        /\ inHand' = inHand \/ inHand' = Head(retryQueue)
    BY <1>5 DEF RetryReceive, Held
  <2>4. CASE inHand' = inHand
    <3>1. Queued(p)' = Cardinality(Held(p)) + Cardinality(Places(peersToDial, p))
                         + Cardinality(Places(retryQueue', p)) + One(inHand.peer = p)
      BY <2>3, <2>4 DEF Queued
    <3>2. One(Head(retryQueue).peer = p) \in {0, 1}
      BY DEF One
    <3>3. Queued(p)' \in Nat /\ Queued(p)' <= Queued(p)
      BY <1>2, <1>3, <2>1, <2>2, <3>1, <3>2 DEF Queued
    <3> QED
      BY <1>3, <1>5, <2>3, <3>3, ChannelPays DEF RetryReceive, local, stop, history
  <2>5. CASE inHand' = Head(retryQueue)
    <3>1. Queued(p)' = Cardinality(Held(p)) + Cardinality(Places(peersToDial, p))
                         + Cardinality(Places(retryQueue', p)) + One(Head(retryQueue).peer = p)
      BY <2>3, <2>5 DEF Queued
    <3>2. One(Head(retryQueue).peer = p) \in {0, 1}
      BY DEF One
    <3>3. Queued(p)' \in Nat /\ Queued(p)' <= Queued(p)
      BY <1>2, <1>3, <2>1, <2>2, <3>1, <3>2 DEF Queued
    <3> QED
      BY <1>3, <1>5, <2>3, <3>3, ChannelPays DEF RetryReceive, local, stop, history
  <2> QED
    BY <2>3, <2>4, <2>5
<1>6. CASE RetryResend
  <2> DEFINE node == [peer |-> inHand.peer, fork |-> inHand.fork]
  <2>1. node \in Node /\ node.peer = inHand.peer
    BY <1>1, <1>6 DEF RetryResend, Retry, Node
  <2>2. peersToDial' = peersToDial \/ peersToDial' = Append(peersToDial, node)
    BY <1>6 DEF RetryResend
  <2> HIDE DEF node
  <2>3. Cardinality(Places(peersToDial', p))
          \in {Cardinality(Places(peersToDial, p)),
               Cardinality(Places(peersToDial, p)) + One(inHand.peer = p)}
    <3>1. CASE peersToDial' = peersToDial
      BY <3>1
    <3>2. CASE peersToDial' = Append(peersToDial, node)
      <4>1. Cardinality(Places(Append(peersToDial, node), p))
              = Cardinality(Places(peersToDial, p)) + One(node.peer = p)
        BY <1>1, <2>1, PlacesAppend
      <4> QED
        BY <2>1, <3>2, <4>1
    <3> QED
      BY <2>2, <3>1, <3>2
  <2>4. inHand'.peer = NoRetry.peer /\ retryQueue' = retryQueue /\ Held(p)' = Held(p)
    BY <1>6 DEF RetryResend, Held
  <2>5. Queued(p)' \in Nat /\ Queued(p)' <= Queued(p)
    <3>1. Queued(p)' = Cardinality(Held(p)) + Cardinality(Places(peersToDial', p))
                         + Cardinality(Places(retryQueue, p)) + 0
      BY <1>2, <2>4 DEF Queued
    <3> QED
      BY <1>2, <1>3, <2>3, <3>1 DEF Queued
  <2> QED
    BY <1>3, <1>6, <2>4, <2>5, ChannelPays DEF RetryResend, local, stop, history
<1>7. CASE RetryWorkerExit
  <2>1. /\ inHand'.peer = NoRetry.peer /\ retryQueue' = retryQueue /\ Held(p)' = Held(p)
        /\ peersToDial' = peersToDial
    BY <1>7 DEF RetryWorkerExit, Held
  <2>2. Queued(p)' \in Nat /\ Queued(p)' <= Queued(p)
    <3>1. Queued(p)' = Cardinality(Held(p)) + Cardinality(Places(peersToDial, p))
                         + Cardinality(Places(retryQueue, p)) + 0
      BY <1>2, <2>1 DEF Queued
    <3> QED
      BY <1>2, <1>3, <3>1 DEF Queued
  <2> QED
    BY <1>3, <1>7, <2>1, <2>2, ChannelPays DEF RetryWorkerExit, local, stop, history
<1> QED
  BY <1>4, <1>5, <1>6, <1>7

\* A cause brings the means for one crawl more.
LEMMA CausePays ==
    ASSUME IInv, IInv', NEW p \in Peers, Paid(p), Finite(p)',
           Queued(p) \in Nat, Queued(p)' \in Nat,
           isShutdown => isShutdown',
           causes'[p] = causes[p] + 1,
           dials'[p] = dials[p], reports'[p] = reports[p],
           retryTracker'[p] = retryTracker[p],
           Queued(p)' + Cardinality(Busy(p)') = Queued(p) + Cardinality(Busy(p)) + 1,
           Queued(p)' <= Queued(p) + 1,
           Cardinality(Sending(p)') = Cardinality(Sending(p)),
           Cardinality(Reporting(p)') = Cardinality(Reporting(p))
    PROVE  Paid(p)'
<1> DEFINE M == MaxRetryAttempts
           n == Queued(p)
           b == Cardinality(Busy(p))
           n2 == Queued(p)'
           b2 == Cardinality(Busy(p)')
           s == Cardinality(Sending(p))
           r == Cardinality(Reporting(p))
<1>1. /\ n \in Nat /\ b \in Nat /\ s \in Nat /\ r \in Nat /\ M \in Nat
      /\ n2 \in Nat /\ b2 \in Nat /\ n2 + b2 = n + b + 1 /\ n2 <= n + 1
      /\ causes[p] \in Nat /\ dials[p] \in Nat /\ reports[p] \in Nat
      /\ retryTracker[p].attempts \in Nat
  BY CountsNat, FS_CardinalityType DEF Paid, Finite
<1> HIDE DEF n, b, n2, b2, s, r, M
<1>2. /\ n2 + b2 + s = (n + b + s) + 1
      /\ M * (n2 + b2 + s) = M * (n + b + s) + M
      /\ (M + 1) * (causes[p] + 1) = (M + 1) * causes[p] + M + 1
      /\ M * (n + b + s) \in Nat /\ (M + 1) * causes[p] \in Nat
  <2>1. n2 + b2 + s = (n + b + s) + 1 /\ n + b + s \in Nat
    BY <1>1
  <2>2. M * ((n + b + s) + 1) = M * (n + b + s) + M
    BY <1>1, <2>1
  <2> QED
    BY <1>1, <2>1, <2>2
<1>3. DialsPaid(p)'
  <2>1. dials[p] <= (M + 1) * causes[p]
    BY DEF Paid, DialsPaid, M
  <2>2. dials'[p] <= (M + 1) * causes'[p]
    BY <1>1, <1>2, <2>1
  <2> QED
    BY <2>2 DEF DialsPaid, M
<1>4. /\ reports[p] + n2 + b2 + s + r + causes[p]
           <= reports[p] + n + b + s + r + (causes[p] + 1)
      /\ dials[p] + n2 + s + M * (n2 + b2 + s) + (M + 1) * causes[p]
             + retryTracker[p].attempts
           <= dials[p] + n + s + M * (n + b + s) + (M + 1) * (causes[p] + 1)
                + retryTracker[p].attempts
  BY <1>1, <1>2
<1> QED
  BY <1>3, <1>4, Balance DEF n, b, n2, b2, s, r, M

LEMMA DiscoverPays ==
    ASSUME IInv, IInv', NEW p \in Peers, Paid(p), NEW d \in Finders, NEW x \in Peers,
           DiscoverNode(d, x)
    PROVE  Paid(p)'
<1> DEFINE o == One(x = p)
<1>1. /\ UNCHANGED <<pc, who, stopPc, peersToDial, retryQueue, inHand>>
      /\ UNCHANGED <<dials, reports, retryTracker>>
      /\ found \in [Finders -> Node \cup {NoNode}] /\ found[d] = NoNode
      /\ found' = [found EXCEPT ![d] = [peer |-> x, fork |-> ourFork]]
      /\ causes' = [causes EXCEPT ![x] = @ + 1]
  BY DEF DiscoverNode, local, stop, IInv, Pipeline
<1>2. /\ IsFiniteSet(Held(p)) /\ Cardinality(Held(p)) \in Nat
      /\ Cardinality(Places(peersToDial, p)) \in Nat
      /\ Cardinality(Places(retryQueue, p)) \in Nat
      /\ One(inHand.peer = p) \in {0, 1} /\ o \in {0, 1}
  BY QueuedNat DEF Paid, Finite, One
<1>3. /\ IsFiniteSet(Held(p)') /\ Cardinality(Held(p)') \in Nat
      /\ Cardinality(Held(p)') = Cardinality(Held(p)) + o
  <2>1. Held(p) \ {d} = Held(p)' \ {d}
    BY <1>1 DEF Held
  <2>2. d \notin Held(p) /\ (d \in Held(p)' <=> x = p)
    BY <1>1, CrawlerAssumption DEF Held, NoNode
  <2>3. /\ IsFiniteSet(Held(p)') /\ Cardinality(Held(p)') \in Nat
        /\ Cardinality(Held(p)') + One(d \in Held(p))
             = Cardinality(Held(p)) + One(d \in Held(p)')
    BY <1>2, <2>1, Differ
  <2> QED
    BY <1>2, <2>2, <2>3 DEF One
<1>4. Queued(p)' = Queued(p) + o /\ Queued(p) \in Nat /\ Queued(p)' \in Nat
  <2>1. Queued(p)' = Cardinality(Held(p)') + Cardinality(Places(peersToDial, p))
                       + Cardinality(Places(retryQueue, p)) + One(inHand.peer = p)
    BY <1>1 DEF Queued
  <2> HIDE DEF o
  <2> QED
    BY <1>2, <1>3, <2>1 DEF Queued
<1>5. /\ Finite(p)' /\ isShutdown' = isShutdown
      /\ Busy(p)' = Busy(p) /\ Sending(p)' = Sending(p) /\ Reporting(p)' = Reporting(p)
  BY <1>1, <1>3 DEF Paid, Finite, Busy, Sending, Reporting, At, isShutdown
<1>6. CASE x # p
  <2>1. Queued(p)' = Queued(p) /\ causes'[p] = causes[p]
    BY <1>1, <1>4, <1>6 DEF One, IInv, Rest
  <2>2. CrawlsPaid(p)' /\ RetriesPaid(p)' /\ DialsPaid(p)'
    BY <1>1, <1>5, <2>1 DEF Paid, CrawlsPaid, RetriesPaid, DialsPaid
  <2> QED
    BY <1>5, <2>2 DEF Paid
<1>7. CASE x = p
  <2>1. /\ Queued(p)' = Queued(p) + 1 /\ causes'[p] = causes[p] + 1
        /\ Cardinality(Busy(p)) \in Nat
    BY <1>1, <1>4, <1>7, FS_CardinalityType DEF One, IInv, Rest, Paid, Finite
  <2>2. Queued(p)' + Cardinality(Busy(p)') = Queued(p) + Cardinality(Busy(p)) + 1
    BY <1>4, <1>5, <2>1
  <2> QED
    BY <1>1, <1>4, <1>5, <2>1, <2>2, CausePays
<1> QED
  BY <1>6, <1>7

LEMMA ConnectPays ==
    ASSUME IInv, IInv', NEW p \in Peers, Paid(p), NEW c \in Conns, NEW x \in Peers,
           PeerConnects(c, x) \/ RequestDials(c, x)
    PROVE  Paid(p)'
<1>1. /\ c \in Threads
      /\ \A u \in Threads \ {c} : pc'[u] = pc[u] /\ who'[u] = who[u]
      /\ pc[c] = "free" /\ pc'[c] = "start" /\ who'[c] = x
      /\ UNCHANGED <<found, peersToDial, retryQueue, inHand>>
      /\ UNCHANGED <<stopPc, dials, reports, retryTracker>>
      /\ causes' = [causes EXCEPT ![x] = @ + 1]
  BY DEF PeerConnects, RequestDials, Connected, Goto, queues, stop, IInv, Moving,
         Threads
<1>2. /\ Finite(p)'
      /\ Cardinality(Busy(p)') + One(c \in Busy(p))
           = Cardinality(Busy(p)) + One(c \in Busy(p)')
      /\ Cardinality(Sending(p)') + One(c \in Sending(p))
           = Cardinality(Sending(p)) + One(c \in Sending(p)')
      /\ Cardinality(Reporting(p)') + One(c \in Reporting(p))
           = Cardinality(Reporting(p)) + One(c \in Reporting(p)')
  BY <1>1, OneMoves DEF Paid
<1>3. /\ One(c \in Busy(p)) = 0 /\ One(c \in Sending(p)) = 0
      /\ One(c \in Sending(p)') = 0
      /\ One(c \in Reporting(p)) = 0 /\ One(c \in Reporting(p)') = 0
      /\ One(c \in Busy(p)') = One(x = p)
  BY <1>1 DEF One, Busy, Sending, Reporting, At, BusyPcs
<1>4. /\ Cardinality(Busy(p)) \in Nat /\ Cardinality(Busy(p)') \in Nat
      /\ Cardinality(Sending(p)) \in Nat /\ Cardinality(Sending(p)') \in Nat
      /\ Cardinality(Reporting(p)) \in Nat /\ Cardinality(Reporting(p)') \in Nat
      /\ Queued(p) \in Nat /\ Queued(p)' = Queued(p)
      /\ isShutdown' = isShutdown
  BY <1>1, <1>2, QueuedNat, FS_CardinalityType
     DEF Paid, Finite, Queued, Held, Places, isShutdown
<1>5. /\ Cardinality(Busy(p)') = Cardinality(Busy(p)) + One(x = p)
      /\ Cardinality(Sending(p)') = Cardinality(Sending(p))
      /\ Cardinality(Reporting(p)') = Cardinality(Reporting(p))
      /\ One(x = p) \in {0, 1}
  <2>1. One(x = p) \in {0, 1}
    BY DEF One
  <2> QED
    BY <1>2, <1>3, <1>4, <2>1
<1>6. CASE x # p
  <2>1. Cardinality(Busy(p)') = Cardinality(Busy(p)) /\ causes'[p] = causes[p]
    BY <1>1, <1>4, <1>5, <1>6 DEF One, IInv, Rest
  <2>2. CrawlsPaid(p)' /\ RetriesPaid(p)' /\ DialsPaid(p)'
    BY <1>1, <1>4, <1>5, <2>1 DEF Paid, CrawlsPaid, RetriesPaid, DialsPaid
  <2> QED
    BY <1>2, <2>2 DEF Paid
<1>7. CASE x = p
  <2>1. /\ Cardinality(Busy(p)') = Cardinality(Busy(p)) + 1
        /\ causes'[p] = causes[p] + 1
    BY <1>1, <1>5, <1>7 DEF One, IInv, Rest
  <2>2. /\ Queued(p)' + Cardinality(Busy(p)') = Queued(p) + Cardinality(Busy(p)) + 1
        /\ Queued(p)' <= Queued(p) + 1
    BY <1>4, <2>1
  <2> QED
    BY <1>1, <1>2, <1>4, <1>5, <2>1, <2>2, CausePays
<1> QED
  BY <1>6, <1>7

\* The crawl passes from the dialer to the handler of the new connection.
LEMMA DialSucceedsPays ==
    ASSUME IInv, IInv', NEW p \in Peers, Paid(p), NEW w \in Workers, NEW c \in Conns,
           DialSucceeds(w, c)
    PROVE  Paid(p)'
<1>1. /\ w \in Threads /\ c \in Threads /\ w # c
      /\ \A u \in Threads \ {w, c} : pc'[u] = pc[u] /\ who'[u] = who[u]
      /\ pc[w] = "dial" /\ pc'[w] = "dialled" /\ who'[w] = who[w]
      /\ pc[c] = "free" /\ pc'[c] = "start" /\ who'[c] = who[w]
      /\ UNCHANGED <<found, peersToDial, retryQueue, inHand>>
      /\ UNCHANGED <<stopPc, dials, reports, causes, retryTracker>>
  BY CrawlerAssumption
     DEF DialSucceeds, queues, stop, history, IInv, Moving, Threads
<1>2. /\ IsFiniteSet(Busy(p)) /\ IsFiniteSet(Sending(p)) /\ IsFiniteSet(Reporting(p))
      /\ Cardinality(Busy(p)) \in Nat
  BY FS_CardinalityType DEF Paid, Finite
<1>3. Sending(p)' = Sending(p) /\ Reporting(p)' = Reporting(p)
  BY <1>1 DEF Sending, Reporting, At
<1>4. IsFiniteSet(Busy(p)') /\ Cardinality(Busy(p)') = Cardinality(Busy(p))
  <2>1. CASE who[w] # p
    <3>1. Busy(p)' = Busy(p)
      BY <1>1, <2>1, CrawlerAssumption DEF Busy, At, BusyPcs
    <3> QED
      BY <1>2, <3>1
  <2>2. CASE who[w] = p
    <3> DEFINE R == Busy(p) \ {w}
    <3>1. w \in Busy(p) /\ c \notin R
      BY <1>1, <2>2 DEF Busy, At, BusyPcs
    <3>2. Busy(p)' = R \cup {c}
      BY <1>1, <2>2, CrawlerAssumption DEF Busy, At, BusyPcs
    <3>3. /\ IsFiniteSet(R) /\ Cardinality(R) = Cardinality(Busy(p)) - 1
      BY <1>2, <3>1, FS_RemoveElement
    <3> HIDE DEF R
    <3>4. IsFiniteSet(R \cup {c}) /\ Cardinality(R \cup {c}) = Cardinality(R) + 1
      BY <3>1, <3>3, FS_AddElement
    <3> QED
      BY <1>2, <3>2, <3>3, <3>4
  <2> QED
    BY <2>1, <2>2
<1>5. Finite(p)' /\ Queued(p)' = Queued(p) /\ isShutdown' = isShutdown
  BY <1>1, <1>2, <1>3, <1>4 DEF Paid, Finite, Queued, Held, Places, isShutdown
<1>6. CrawlsPaid(p)' /\ RetriesPaid(p)' /\ DialsPaid(p)'
  BY <1>1, <1>3, <1>4, <1>5 DEF Paid, CrawlsPaid, RetriesPaid, DialsPaid
<1> QED
  BY <1>5, <1>6 DEF Paid

LEMMA SendPays ==
    ASSUME IInv, IInv', NEW p \in Peers, Paid(p), NEW t \in Threads, SendRetry(t)
    PROVE  Paid(p)'
<1> DEFINE retry == [peer |-> who[t], fork |-> retryTracker[who[t]].fork,
                     attempts |-> retryTracker[who[t]].attempts]
           k  == Cardinality(Places(retryQueue, p))
           k2 == Cardinality(Places(retryQueue', p))
           o  == One(who[t] = p)
           M  == MaxRetryAttempts
           n  == Queued(p)
           n2 == Queued(p)'
           b  == Cardinality(Busy(p))
           s  == Cardinality(Sending(p))
           s2 == Cardinality(Sending(p)')
           r  == Cardinality(Reporting(p))
<1>1. /\ \A u \in Threads \ {t} : pc'[u] = pc[u] /\ who'[u] = who[u]
      /\ pc[t] = "send" /\ pc'[t] \in GonePcs /\ who[t] \in Peers
      /\ UNCHANGED <<found, peersToDial, inHand, retryTracker>>
      /\ UNCHANGED <<stopPc, causes, dials, reports>>
      /\ retryQueue' = retryQueue \/ retryQueue' = Append(retryQueue, retry)
  BY DEF SendRetry, Return, Goto, GonePcs, history, stop, IInv, Moving, Threads
<1>2. retry \in Retry /\ retry.peer = who[t]
  BY <1>1, CrawlerAssumption DEF IInv, Tracker, Holding, Retry
<1> HIDE DEF retry
<1>3. k \in Nat /\ k2 \in {k, k + o} /\ o \in {0, 1}
  <2>1. k \in Nat /\ o \in {0, 1} /\ retryQueue \in Seq(Retry)
    BY QueuedNat DEF Paid, One, IInv, Pipeline
  <2>2. CASE retryQueue' = Append(retryQueue, retry)
    BY <1>2, <2>1, <2>2, PlacesAppend
  <2> QED
    BY <1>1, <2>1, <2>2
<1>4. /\ Finite(p)'
      /\ Cardinality(Busy(p)') + One(t \in Busy(p))
           = Cardinality(Busy(p)) + One(t \in Busy(p)')
      /\ Cardinality(Sending(p)') + One(t \in Sending(p))
           = Cardinality(Sending(p)) + One(t \in Sending(p)')
      /\ Cardinality(Reporting(p)') + One(t \in Reporting(p))
           = Cardinality(Reporting(p)) + One(t \in Reporting(p)')
  BY <1>1, OneMoves DEF Paid
<1>5. /\ One(t \in Busy(p)) = 0 /\ One(t \in Busy(p)') = 0
      /\ One(t \in Sending(p)) = o /\ One(t \in Sending(p)') = 0
      /\ One(t \in Reporting(p)) = 0 /\ One(t \in Reporting(p)') = 0
  BY <1>1 DEF One, Busy, Sending, Reporting, At, BusyPcs, GonePcs
<1>6. /\ b \in Nat /\ Cardinality(Busy(p)') \in Nat
      /\ s \in Nat /\ s2 \in Nat
      /\ r \in Nat /\ Cardinality(Reporting(p)') \in Nat
  BY <1>4, FS_CardinalityType DEF Paid, Finite
<1>7. /\ Cardinality(Busy(p)') = b /\ Cardinality(Reporting(p)') = r
      /\ s2 + o = s
  BY <1>3, <1>4, <1>5, <1>6
<1>8. n \in Nat /\ n2 \in {n, n + o} /\ n2 \in Nat
  <2>1. /\ n = Cardinality(Held(p)) + Cardinality(Places(peersToDial, p)) + k
                + One(inHand.peer = p)
        /\ n2 = Cardinality(Held(p)) + Cardinality(Places(peersToDial, p)) + k2
                 + One(inHand.peer = p)
    BY <1>1 DEF Queued, Held
  <2>2. /\ Cardinality(Held(p)) \in Nat /\ One(inHand.peer = p) \in {0, 1}
        /\ Cardinality(Places(peersToDial, p)) \in Nat
    BY QueuedNat DEF Paid, One
  <2> HIDE DEF n, n2, k, k2, o
  <2> QED
    BY <1>3, <2>1, <2>2
<1>9. /\ M \in Nat /\ causes[p] \in Nat /\ dials[p] \in Nat /\ reports[p] \in Nat
      /\ retryTracker[p].attempts \in Nat
  BY CrawlerAssumption DEF IInv, Rest, Tracker
<1>10. DialsPaid(p)' /\ isShutdown' = isShutdown /\ causes'[p] = causes[p]
  BY <1>1 DEF Paid, DialsPaid, isShutdown
<1> HIDE DEF k, k2, o, M, n, n2, b, s, s2, r
<1>11. M * (n2 + b + s2) <= M * (n + b + s) /\ n2 + s2 <= n + s
  <2> DEFINE x == n2 + b + s2
             y == n + b + s
  <2>1. x \in Nat /\ y \in Nat /\ x <= y /\ n2 + s2 <= n + s
    BY <1>3, <1>6, <1>7, <1>8
  <2> HIDE DEF x, y
  <2>2. M * x <= M * y
    BY <1>9, <2>1, TimesMonotone
  <2> QED
    BY <2>1, <2>2 DEF x, y
<1>12. /\ reports[p] + n2 + b + s2 + r + causes[p] <= reports[p] + n + b + s + r + causes[p]
       /\ dials[p] + n2 + s2 + M * (n2 + b + s2) + (M + 1) * causes[p]
               + retryTracker[p].attempts
             <= dials[p] + n + s + M * (n + b + s) + (M + 1) * causes[p]
                  + retryTracker[p].attempts
  <2> DEFINE x == M * (n2 + b + s2)
             y == M * (n + b + s)
             a == (M + 1) * causes[p]
  <2>1. x \in Nat /\ y \in Nat /\ a \in Nat /\ x <= y /\ n2 + s2 <= n + s
    BY <1>6, <1>8, <1>9, <1>11
  <2> HIDE DEF x, y, a
  <2>2. /\ reports[p] + n2 + b + s2 + r + causes[p]
              <= reports[p] + n + b + s + r + causes[p]
        /\ dials[p] + n2 + s2 + x + a + retryTracker[p].attempts
              <= dials[p] + n + s + y + a + retryTracker[p].attempts
    BY <1>6, <1>8, <1>9, <2>1
  <2> QED
    BY <2>2 DEF x, y, a
<1> QED
  BY <1>1, <1>4, <1>7, <1>8, <1>10, <1>12, Balance DEF M, n, n2, b, s, s2, r

\* A dial is paid for by the node that leaves the channel.
LEMMA ReceivePays ==
    ASSUME IInv, IInv', NEW p \in Peers, Paid(p), NEW w \in Workers, WorkerReceive(w)
    PROVE  Paid(p)'
<1>0. PICK x \in Peers : x = Head(peersToDial).peer
  <2>1. Head(peersToDial) \in Node
    BY HeadTail DEF WorkerReceive, IInv, Pipeline
  <2> QED
    BY <2>1 DEF Node
<1> DEFINE o  == One(x = p)
           M  == MaxRetryAttempts
           n  == Queued(p)
           n2 == Queued(p)'
           b  == Cardinality(Busy(p))
           b2 == Cardinality(Busy(p)')
           s  == Cardinality(Sending(p))
           r  == Cardinality(Reporting(p))
<1>1. /\ w \in Threads
      /\ peersToDial \in Seq(Node) /\ peersToDial # <<>> /\ peersToDial' = Tail(peersToDial)
      /\ \A u \in Threads \ {w} : pc'[u] = pc[u] /\ who'[u] = who[u]
      /\ pc[w] = "idle"
      /\ UNCHANGED <<found, retryQueue, inHand, stopPc, causes, reports, retryTracker>>
      /\ isShutdown' = isShutdown /\ causes'[p] = causes[p]
  <2>1. /\ peersToDial \in Seq(Node) /\ peersToDial # <<>> /\ w \in Threads
        /\ pc \in [Threads -> WorkerPcs \cup HandlerPcs \cup FailurePcs]
        /\ who \in [Threads -> Peers \cup {NoPeer}]
    BY DEF WorkerReceive, IInv, Pipeline, Moving, Threads
  <2> QED
    BY <2>1 DEF WorkerReceive, Goto, stop, isShutdown
<1>2. \/ isShutdown /\ pc'[w] = "exited" /\ who'[w] = who[w] /\ dials' = dials
      \/ /\ ~isShutdown /\ pc'[w] = "connect" /\ who'[w] = x
         /\ dials' = [dials EXCEPT ![x] = @ + 1]
  BY <1>0, <1>1 DEF WorkerReceive, Goto, IInv, Moving
<1>3. n \in Nat /\ n2 \in Nat /\ n2 + o = n /\ o \in {0, 1}
  <2>1. /\ Cardinality(Places(peersToDial, p)) = Cardinality(Places(peersToDial', p)) + o
        /\ Cardinality(Places(peersToDial', p)) \in Nat
        /\ Cardinality(Places(retryQueue, p)) \in Nat
    <3>1. Cardinality(Places(peersToDial, p))
            = Cardinality(Places(Tail(peersToDial), p)) + One(Head(peersToDial).peer = p)
      BY <1>1, PlacesTail
    <3>2. Cardinality(Places(peersToDial', p)) \in Nat
      BY PlacesFinite DEF IInv, Pipeline
    <3>3. Cardinality(Places(retryQueue, p)) \in Nat
      BY QueuedNat DEF Paid
    <3> QED
      BY <1>0, <1>1, <3>1, <3>2, <3>3
  <2>2. /\ n = Cardinality(Held(p)) + Cardinality(Places(peersToDial, p))
                + Cardinality(Places(retryQueue, p)) + One(inHand.peer = p)
        /\ n2 = Cardinality(Held(p)) + Cardinality(Places(peersToDial', p))
                 + Cardinality(Places(retryQueue, p)) + One(inHand.peer = p)
    BY <1>1 DEF Queued, Held
  <2>3. /\ Cardinality(Held(p)) \in Nat /\ One(inHand.peer = p) \in {0, 1}
        /\ o \in {0, 1}
    BY QueuedNat DEF Paid, One
  <2> HIDE DEF n, n2, o
  <2> QED
    BY <2>1, <2>2, <2>3
<1>4. /\ Finite(p)'
      /\ b2 + One(w \in Busy(p)) = b + One(w \in Busy(p)')
      /\ Cardinality(Sending(p)') + One(w \in Sending(p)) = s + One(w \in Sending(p)')
      /\ Cardinality(Reporting(p)') + One(w \in Reporting(p)) = r + One(w \in Reporting(p)')
  BY <1>1, OneMoves DEF Paid
<1>5. /\ b \in Nat /\ b2 \in Nat
      /\ s \in Nat /\ Cardinality(Sending(p)') \in Nat
      /\ r \in Nat /\ Cardinality(Reporting(p)') \in Nat
  BY <1>4, FS_CardinalityType DEF Paid, Finite
<1>6. /\ M \in Nat /\ causes[p] \in Nat /\ dials[p] \in Nat /\ reports[p] \in Nat
      /\ retryTracker[p].attempts \in 0 .. M
  BY CrawlerAssumption DEF IInv, Rest, Tracker
<1>7. /\ One(w \in Busy(p)) = 0
      /\ One(w \in Sending(p)) = 0 /\ One(w \in Sending(p)') = 0
      /\ One(w \in Reporting(p)) = 0 /\ One(w \in Reporting(p)') = 0
  BY <1>1, <1>2 DEF One, Busy, Sending, Reporting, At, BusyPcs
<1>8. Cardinality(Sending(p)') = s /\ Cardinality(Reporting(p)') = r
  BY <1>4, <1>5, <1>7
<1>9. CASE isShutdown /\ pc'[w] = "exited" /\ dials' = dials
  <2>1. One(w \in Busy(p)') = 0
    BY <1>9 DEF One, Busy, At, BusyPcs
  <2>2. b2 = b
    BY <1>4, <1>5, <1>7, <2>1
  <2>3. DialsPaid(p)' /\ isShutdown'
    BY <1>1, <1>9 DEF Paid, DialsPaid
  <2> HIDE DEF n, n2, b, b2, s, r, o, M
  <2>4. reports[p] + n2 + b2 + s + r + causes[p] <= reports[p] + n + b + s + r + causes[p]
    BY <1>3, <1>5, <1>6, <2>2
  <2> QED
    BY <1>1, <1>3, <1>4, <1>8, <2>3, <2>4, Balance DEF n, n2, b, b2, s, r
<1>10. CASE ~isShutdown /\ pc'[w] = "connect" /\ who'[w] = x
              /\ dials' = [dials EXCEPT ![x] = @ + 1]
  <2>1. One(w \in Busy(p)') = o
    BY <1>1, <1>10 DEF One, Busy, At, BusyPcs
  <2>2. b2 = b + o /\ n2 + b2 = n + b
    BY <1>3, <1>4, <1>5, <1>7, <2>1
  <2>3. dials'[p] = dials[p] + o
    BY <1>6, <1>10 DEF One, IInv, Rest
  <2>4. dials[p] + n + s + M * (n + b + s) <= (M + 1) * causes[p] + retryTracker[p].attempts
    BY <1>10 DEF Paid, RetriesPaid
  <2>5. dials[p] <= (M + 1) * causes[p]
    BY DEF Paid, DialsPaid
  <2> HIDE DEF n, n2, b, b2, s, r, o, M
  <2>6. DialsPaid(p)'
    <3>1. CASE o = 0
      BY <1>1, <1>6, <2>3, <2>5, <3>1 DEF DialsPaid, M
    <3>2. CASE o = 1
      <4> DEFINE y == n + b + s
                 a == (M + 1) * causes[p]
      <4>1. y \in Nat /\ 1 <= y /\ a \in Nat /\ n >= 1
        BY <1>3, <1>5, <1>6, <3>2
      <4>2. dials[p] + n + s + M * y <= a + retryTracker[p].attempts
        BY <2>4
      <4> HIDE DEF y, a
      <4>3. M * 1 <= M * y /\ M * 1 = M /\ M * y \in Nat
        BY <1>6, <4>1, TimesMonotone
      <4>4. dials[p] + 1 <= a
        BY <1>3, <1>5, <1>6, <4>1, <4>2, <4>3
      <4> QED
        BY <1>1, <2>3, <3>2, <4>4 DEF DialsPaid, M, a
    <3> QED
      BY <1>3, <3>1, <3>2
  <2>7. /\ reports[p] + n2 + b2 + s + r + causes[p] <= reports[p] + n + b + s + r + causes[p]
        /\ dials'[p] + n2 + s + M * (n2 + b2 + s) + (M + 1) * causes[p]
                + retryTracker[p].attempts
              <= dials[p] + n + s + M * (n + b + s) + (M + 1) * causes[p]
                   + retryTracker[p].attempts
    <3> DEFINE y == M * (n + b + s)
               a == (M + 1) * causes[p]
    <3>1. n2 + b2 + s = n + b + s /\ n + b + s \in Nat
      BY <1>3, <1>5, <2>2
    <3>2. M * (n2 + b2 + s) = y /\ y \in Nat /\ a \in Nat
      BY <1>6, <3>1
    <3> HIDE DEF y, a
    <3>3. /\ reports[p] + n2 + b2 + s + r + causes[p]
                <= reports[p] + n + b + s + r + causes[p]
          /\ dials'[p] + n2 + s + y + a + retryTracker[p].attempts
                <= dials[p] + n + s + y + a + retryTracker[p].attempts
      BY <1>3, <1>5, <1>6, <2>2, <2>3, <3>2
    <3> QED
      BY <3>2, <3>3 DEF y, a
  <2> QED
    BY <1>1, <1>3, <1>4, <1>8, <2>6, <2>7, Balance DEF n, n2, b, b2, s, r, M
<1> QED
  BY <1>2, <1>9, <1>10

LEMMA InitPays == Init => \A p \in Peers : Paid(p)
<1> SUFFICES ASSUME Init, NEW p \in Peers PROVE Paid(p)
  OBVIOUS
<1>1. Busy(p) = {} /\ Sending(p) = {} /\ Reporting(p) = {}
  BY CrawlerAssumption DEF Init, Busy, Sending, Reporting, At, Threads
<1>2. Places(peersToDial, p) = {} /\ Places(retryQueue, p) = {}
  BY DEF Init, Places
<1>3. Held(p) = {} /\ One(inHand.peer = p) = 0
  BY CrawlerAssumption DEF Init, NoNode, NoRetry, One, Held
<1>4. IsFiniteSet({}) /\ Cardinality({}) = 0
  BY FS_EmptySet
<1>5. Queued(p) = 0
  BY <1>2, <1>3, <1>4 DEF Queued
<1>6. /\ causes[p] = 0 /\ dials[p] = 0 /\ reports[p] = 0
      /\ retryTracker[p].attempts = 0
      /\ MaxRetryAttempts \in Nat
  BY CrawlerAssumption DEF Init, NoEntry
<1> QED
  BY <1>1, <1>3, <1>4, <1>5, <1>6 DEF Paid, Finite, CrawlsPaid, RetriesPaid, DialsPaid

LEMMA NextPays ==
    ASSUME IInv, IInv', [Next]_vars, NEW p \in Peers, Paid(p)
    PROVE  Paid(p)'
<1>1. CASE FetchAndSetStatus \/ (\E x \in Peers : CacheExpires(x)) \/ UNCHANGED vars
  BY <1>1, StillPays
     DEF FetchAndSetStatus, CacheExpires, vars, queues, local, stop, history, isShutdown
<1>2. CASE \E c \in Conns : RemoteCloses(c)
  BY <1>2, StillPays DEF RemoteCloses, queues, local, stop, history, isShutdown
<1>3. CASE Stop
  <2>1. /\ UNCHANGED <<found, peersToDial, retryQueue, inHand>>
        /\ UNCHANGED <<pc, who, causes, dials, reports>>
    BY <1>3
       DEF Stop, StopMark, StopCancel, StopCloseRetryQueue, StopCloseDialQueue,
           StopWaitDialers, StopSayGoodbye, StopDisconnect, StopCloseNode,
           StopNodeClosed, StopClearENRs, StopClearTracker, queues, local, history
  <2>2. isShutdown => isShutdown'
    BY <1>3
       DEF Stop, StopMark, StopCancel, StopCloseRetryQueue, StopCloseDialQueue,
           StopWaitDialers, StopSayGoodbye, StopDisconnect, StopCloseNode,
           StopNodeClosed, StopClearENRs, StopClearTracker, StopStep, stop, isShutdown
  <2>3. ~isShutdown' => UNCHANGED retryTracker
    BY <1>3
       DEF Stop, StopMark, StopCancel, StopCloseRetryQueue, StopCloseDialQueue,
           StopWaitDialers, StopSayGoodbye, StopDisconnect, StopCloseNode,
           StopNodeClosed, StopClearENRs, StopClearTracker, StopStep, isShutdown
  <2> QED
    BY <2>1, <2>2, <2>3, StillPays
<1>4. CASE \E d \in Finders, x \in Peers : DiscoverNode(d, x)
  BY <1>4, DiscoverPays
<1>5. CASE (\E d \in Finders : QueueNode(d)) \/ RetryWorker
  BY <1>5, ChannelsPay DEF RetryWorker
<1>6. CASE \E c \in Conns, x \in Peers : PeerConnects(c, x) \/ RequestDials(c, x)
  BY <1>6, ConnectPays
<1>7. CASE \E w \in Workers : Dialer(w)
  BY <1>7, TurnsPay, ReceivePays, DialSucceedsPays DEF Dialer
<1>8. CASE \E c \in Conns : Handler(c) \/ Answer(c) \/ Identified(c)
  <2>1. PICK c \in Conns : Handler(c) \/ Answer(c) \/ Identified(c)
    BY <1>8
  <2>2. \/ HandlePeerDisconnected(c) \/ CheckPeer(c) \/ Identified(c)
        \/ IdentifyTimeout(c) \/ RequestFails(c)
        \/ DisconnectAfterFailure(c) \/ (\E f \in Forks : StatusAnswered(c, f))
        \/ MetadataAnswered(c) \/ UntrackRetries(c) \/ ReportSuccess(c)
        \/ SayGoodbye(c) \/ DisconnectFromPeer(c)
    BY <2>1 DEF Handler, Answer
  <2> QED
    BY <2>2, TurnsPay
<1>9. CASE \E t \in Threads : CrawlFailure(t)
  BY <1>9, TurnsPay, SendPays DEF CrawlFailure
<1> QED
  BY <1>1, <1>2, <1>3, <1>4, <1>5, <1>6, <1>7, <1>8, <1>9
     DEF Next, Environment

THEOREM SpecPays == Spec => [](\A p \in Peers : Paid(p))
<1>1. IInv /\ IInv' /\ [Next]_vars /\ (\A p \in Peers : Paid(p)) => (\A p \in Peers : Paid(p))'
  BY NextPays
<1> QED
  BY <1>1, InitPays, SpecInv, PTL DEF Spec

\* A node found, a connection the peer made, and one that a request of ours
\* made again, end in at most one success or failure event each: whatever handlers and dialers of one peer do at
\* the same time, nothing reports a crawl that handleCrawlFailure retries,
\* and nothing reports one twice.
THEOREM OneReportEach == Spec => []ReportsBounded
<1>1. IInv /\ (\A p \in Peers : Paid(p)) => ReportsBounded
  <2> SUFFICES ASSUME IInv, NEW p \in Peers, Paid(p) PROVE reports[p] <= causes[p]
    BY DEF ReportsBounded
  <2>1. /\ Queued(p) \in Nat
        /\ Cardinality(Busy(p)) \in Nat /\ Cardinality(Sending(p)) \in Nat
        /\ Cardinality(Reporting(p)) \in Nat
        /\ reports[p] \in Nat /\ causes[p] \in Nat
    BY QueuedNat, FS_CardinalityType DEF Paid, Finite, IInv, Rest
  <2> QED
    BY <2>1 DEF Paid, CrawlsPaid
<1> QED
  BY <1>1, SpecInv, SpecPays, PTL

\* Retries end: however crawls of a peer clear, delete and count the entry
\* of scheduleRetry between them, a cause costs one dial and
\* MaxRetryAttempts retries on the average.
THEOREM RetriesEnd == Spec => []DialsBounded
<1>1. (\A p \in Peers : Paid(p)) => DialsBounded
  BY DEF Paid, DialsPaid, DialsBounded
<1> QED
  BY <1>1, SpecPays, PTL
=============================================================================
