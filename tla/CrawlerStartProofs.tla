-------------------------- MODULE CrawlerStartProofs --------------------------
(***************************************************************************)
(* CrawlerStart for any upstream, any forks, any blob schedule and any     *)
(* moment of Stop.                                                         *)
(*                                                                         *)
(* What a ready crawler has is built up in the order of the start: the     *)
(* network before the service's callback, the node ID before the node's,   *)
(* host, discovery and cron jobs before OnReady (NodePart, StartPart).     *)
(* What Stop takes down stays down because the callback is over by then    *)
(* (StopPart).  A fetch carries its finality past a head that is never     *)
(* below it, and reads the schedule if its fork has one (FetchesSound).    *)
(***************************************************************************)
EXTENDS CrawlerStart, WellFoundedInduction, TLAPS

Named == network \notin {"none", "error"} /\ spec # "missing"
Known == Named /\ metadata["idHash"]

NodePart ==
    /\ loader \in {"callbacks", "done"} => Named
    /\ serviceReady \/ boot \in {"callbacks", "ready"} => Known
    /\ boot = "none" <=> start = "idle"
    /\ start = "ok" => boot = "ready"

StartPart ==
    /\ step # "off" => boot \in {"callbacks", "ready"}
    /\ step \in {"wire", "discovery", "crons", "await", "done"} => host # "off"
    /\ step \in {"crons", "await", "done"} => discovery # "off"
    /\ step \in {"await", "done"} => crons # "off"
    /\ onReady => step = "done"
    /\ boot = "ready" <=> onReady

StopPart ==
    /\ crons = "stopped" => stop \in {"discovery", "node", "done"}
    /\ readyAtStop => onReady
    /\ readyAtStop /\ stop \in {"crons", "discovery", "node", "done"} => ~healthy
    /\ readyAtStop /\ stop \in {"discovery", "node", "done"}
         => crons = "stopped" /\ Free("cron")
    /\ readyAtStop /\ stop \in {"node", "done"} => discovery \in {"stopped", "left"}
    /\ readyAtStop /\ stop = "done" => host = "closed"

\* A fetch under way: its finality was the upstream's, and has come before its
\* head; the fork that it read has a schedule when it goes on to read it.
Sound(f) ==
    /\ fetch[f].pc = "header" => fetch[f].fin <= upstream.fin
    /\ fetch[f].pc \in {"digest", "blobs"} => fetch[f].fin <= fetch[f].head
    /\ fetch[f].pc = "blobs" => /\ HasBlobs(CurrentFork(fetch[f].epoch))
                               /\ fetch[f].epoch <= upstream.epoch

FetchesSound ==
    /\ upstream.fin <= upstream.head
    /\ \A f \in Fetchers : Sound(f)

StatusPart == StatusConsistent /\ DigestValid

IInv == TypeOK /\ NodePart /\ StartPart /\ StopPart /\ FetchesSound /\ StatusPart
-----------------------------------------------------------------------------
LEMMA InitInv == Init => IInv
<1> SUFFICES ASSUME Init PROVE IInv
  OBVIOUS
<1>1. TypeOK
  <2>1. 0 \in 0 .. MaxHead /\ 0 \in 0 .. MaxEpoch
    BY MaxHeadAssumption, MaxEpochAssumption
  <2>2. NodeTypeOK
    BY DEF Init, NodeInit, NodeTypeOK
  <2>3. upstream \in [fin : 0 .. MaxHead, head : 0 .. MaxHead, epoch : 0 .. MaxEpoch]
    BY <2>1 DEF Init
  <2>4. fetch \in [Fetchers -> [pc : {"idle", "finality", "header", "digest", "blobs"},
                               fin : 0 .. MaxHead, head : 0 .. MaxHead,
                               epoch : 0 .. MaxEpoch]]
    BY <2>1 DEF Init, Idle
  <2> QED
    BY <2>1, <2>2, <2>3, <2>4 DEF Init, TypeOK
<1>2. NodePart /\ StartPart /\ StopPart
  BY DEF Init, NodeInit, NodePart, StartPart, StopPart
<1>3. FetchesSound /\ StatusPart
  BY MaxHeadAssumption
     DEF Init, FetchesSound, Sound, Idle, StatusPart, StatusConsistent, DigestValid
<1> QED
  BY <1>1, <1>2, <1>3 DEF IInv

-----------------------------------------------------------------------------
(* The node's own steps. *)

\* RefreshAll adds to what is known and never replaces the spec.
LEMMA Refreshed ==
    ASSUME NodeTypeOK, RefreshAll
    PROVE  /\ spec' \in SpecKinds \cup {"missing"} /\ metadata' \in [Fields -> BOOLEAN]
           /\ spec # "missing" => spec' # "missing"
           /\ metadata["idHash"] => metadata'["idHash"]
<1> PICK got \in SUBSET {"spec", "genesis", "identity", "enode"} :
        /\ IF "spec" \in got /\ spec = "missing"
             THEN spec' \in SpecKinds ELSE UNCHANGED spec
        /\ LET genesis == metadata["genesis"] \/ "genesis" \in got
           IN  metadata' =
                 [genesis   |-> genesis,
                  wallclock |-> metadata["wallclock"] \/ (genesis /\ spec' # "missing"),
                  identity  |-> metadata["identity"] \/ "identity" \in got,
                  idHash    |-> metadata["idHash"] \/ {"identity", "enode"} \subseteq got]
  BY DEF RefreshAll
<1>1. spec' \in SpecKinds \cup {"missing"} /\ (spec # "missing" => spec' # "missing")
  BY SpecKindsAssumption DEF NodeTypeOK
<1> DEFINE genesis == metadata["genesis"] \/ "genesis" \in got
           wallclock == metadata["wallclock"] \/ (genesis /\ spec' # "missing")
           identity == metadata["identity"] \/ "identity" \in got
           idHash == metadata["idHash"] \/ {"identity", "enode"} \subseteq got
<1>2. metadata' = [genesis |-> genesis, wallclock |-> wallclock, identity |-> identity,
                   idHash |-> idHash]
  OBVIOUS
<1>3. /\ genesis \in BOOLEAN /\ wallclock \in BOOLEAN /\ identity \in BOOLEAN
      /\ idHash \in BOOLEAN /\ (metadata["idHash"] => idHash)
  OBVIOUS
<1> HIDE DEF genesis, wallclock, identity, idHash
<1>4. metadata' \in [Fields -> BOOLEAN] /\ metadata'["idHash"] = idHash
  BY <1>2, <1>3 DEF Fields
<1> QED
  BY <1>1, <1>3, <1>4

\* What the crawler keeps is left alone: its invariants want little of the node.
LEMMA NodeFrame ==
    ASSUME IInv, UNCHANGED crawlerVars, NodeTypeOK', NodePart',
           boot \in {"callbacks", "ready"} => boot' = boot,
           boot' = "ready" => boot = "ready",
           healthy' = healthy \/ boot = "waiting"
    PROVE  IInv'
<1> USE DEF IInv, crawlerVars
<1>1. TypeOK'
  BY DEF TypeOK
<1>2. StartPart'
  BY DEF StartPart
<1>3. StopPart'
  BY DEF StopPart, StartPart, Free
<1>4. FetchesSound' /\ StatusPart'
  BY DEF FetchesSound, Sound, StatusPart, StatusConsistent, DigestValid
<1> QED
  BY <1>1, <1>2, <1>3, <1>4

LEMMA NodeInv == ASSUME IInv, NodeNext, UNCHANGED crawlerVars PROVE IInv'
<1> USE DEF IInv, TypeOK
<1>t. NodeTypeOK
  OBVIOUS
<1>1. CASE StartNode
  <2>1. NodeTypeOK' /\ NodePart'
    BY <1>1 DEF StartNode, NodeTypeOK, NodePart, Known, Named
  <2> QED
    BY <1>1, <2>1, NodeFrame DEF StartNode, NodePart
<1>2. CASE FirstTimeHealthy
  <2>1. NodeTypeOK' /\ NodePart'
    BY <1>2 DEF FirstTimeHealthy, NodeTypeOK, NodePart, Known, Named
  <2> QED
    BY <1>2, <2>1, NodeFrame DEF FirstTimeHealthy
<1>3. CASE AwaitHealthy
  <2>1. NodeTypeOK' /\ NodePart'
    BY <1>3 DEF AwaitHealthy, NodeTypeOK, NodePart, Known, Named
  <2> QED
    BY <1>3, <2>1, NodeFrame DEF AwaitHealthy
<1>4. CASE StartService
  <2>1. NodeTypeOK' /\ NodePart'
    <3>1. /\ boot = "services" /\ loader' = "refresh" /\ boot' \in {"wait", "failed"}
          /\ refresher' \in BOOLEAN /\ errs' \in BOOLEAN
          /\ UNCHANGED <<spec, metadata, network, serviceReady, start, healthy,
                         cancelled, exited>>
      BY <1>4, <1>t DEF StartService, NodeTypeOK
    <3> QED
      BY <1>t, <3>1 DEF NodeTypeOK, NodePart, Known, Named
  <2> QED
    BY <1>4, <2>1, NodeFrame DEF StartService
<1>5. CASE ServicesStarted
  <2>1. NodeTypeOK' /\ NodePart'
    BY <1>5 DEF ServicesStarted, NodeTypeOK, NodePart, Known, Named
  <2> QED
    BY <1>5, <2>1, NodeFrame DEF ServicesStarted
<1>6. CASE StartReturn
  <2>1. NodeTypeOK' /\ NodePart'
    <3>1. /\ start = "waiting" /\ start' \in {"ok", "error", "cancelled"}
          /\ start' = "ok" => boot = "ready"
          /\ errs' \in BOOLEAN
          /\ UNCHANGED <<spec, metadata, network, loader, refresher, serviceReady,
                         boot, healthy, cancelled, exited>>
      BY <1>6, <1>t DEF StartReturn, NodeTypeOK
    <3> QED
      BY <1>t, <3>1 DEF NodeTypeOK, NodePart, Known, Named
  <2> QED
    BY <1>6, <2>1, NodeFrame DEF StartReturn
<1>7. CASE FirstRefresh
  <2>1. NodeTypeOK' /\ NodePart'
    BY <1>7, Refreshed DEF FirstRefresh, NodeTypeOK, NodePart, Known, Named
  <2> QED
    BY <1>7, <2>1, NodeFrame DEF FirstRefresh
<1>8. CASE CronRefresh
  <2>1. NodeTypeOK' /\ NodePart'
    BY <1>8, Refreshed DEF CronRefresh, NodeTypeOK, NodePart, Known, Named
  <2> QED
    BY <1>8, <2>1, NodeFrame DEF CronRefresh
<1>9. CASE DeriveNetwork
  <2>1. NetworkOf(spec) # "error" =>
          spec # "missing" /\ NetworkOf(spec) \in {"known", "testnet", "devnet", "override"}
    BY SpecKindsAssumption DEF NetworkOf, DeriveFromSpec, NodeTypeOK
  <2>2. NodeTypeOK' /\ NodePart'
    <3>1. CASE NetworkOf(spec) = "error"
      <4>1. exited' = TRUE
            /\ UNCHANGED <<spec, metadata, network, loader, refresher, serviceReady, boot,
                           errs, start, healthy, cancelled>>
        BY <1>9, <3>1 DEF DeriveNetwork
      <4> QED
        BY <1>t, <4>1 DEF NodeTypeOK, NodePart, Known, Named
    <3>2. CASE NetworkOf(spec) # "error"
      <4>1. /\ network' \in {"known", "testnet", "devnet", "override"} /\ spec # "missing"
            /\ loader' = "callbacks"
            /\ UNCHANGED <<spec, metadata, refresher, serviceReady, boot, errs, start,
                           healthy, cancelled, exited>>
        BY <1>9, <2>1, <3>2 DEF DeriveNetwork
      <4> QED
        BY <1>t, <4>1 DEF NodeTypeOK, NodePart, Known, Named
    <3> QED
      BY <3>1, <3>2
  <2> QED
    BY <1>9, <2>2, NodeFrame DEF DeriveNetwork
<1>10. CASE RunServiceCallback
  <2>1. NodeTypeOK' /\ NodePart'
    BY <1>10 DEF RunServiceCallback, NodeIdKnown, NodeTypeOK, NodePart, Known, Named, Fields
  <2> QED
    BY <1>10, <2>1, NodeFrame DEF RunServiceCallback
<1> QED
  BY <1>1, <1>2, <1>3, <1>4, <1>5, <1>6, <1>7, <1>8, <1>9, <1>10 DEF NodeNext
-----------------------------------------------------------------------------
(* The upstream and the fetches. *)

LEMMA UpstreamInv == ASSUME IInv, UpstreamMoves PROVE IInv'
<1> USE DEF IInv
<1>1. /\ upstream' \in [fin : 0 .. MaxHead, head : 0 .. MaxHead, epoch : 0 .. MaxEpoch]
      /\ upstream.fin <= upstream'.fin /\ upstream'.fin <= upstream'.head
      /\ upstream.epoch <= upstream'.epoch
  <2> USE MaxHeadAssumption, MaxEpochAssumption DEF TypeOK, FetchesSound
  <2>1. CASE \E h \in upstream.fin .. MaxHead : upstream' = [upstream EXCEPT !.head = h]
    BY <2>1
  <2>2. CASE \E h \in upstream.fin .. upstream.head : upstream' = [upstream EXCEPT !.fin = h]
    BY <2>2
  <2>3. CASE upstream.epoch < MaxEpoch /\ upstream' = [upstream EXCEPT !.epoch = @ + 1]
    BY <2>3
  <2> QED
    BY <2>1, <2>2, <2>3 DEF UpstreamMoves
<1>2. UNCHANGED <<nodeVars, fetch, status, step, host, wired, discovery, crons,
                  onReady, isShutdown, stop, readyAtStop>>
  BY DEF UpstreamMoves
<1>3. TypeOK'
  BY <1>1, <1>2 DEF TypeOK, NodeTypeOK, nodeVars
<1>4. NodePart' /\ StartPart' /\ StopPart'
  BY <1>2 DEF NodePart, Known, Named, StartPart, StopPart, Free, nodeVars
<1>5. FetchesSound'
  BY <1>1, <1>2, MaxHeadAssumption, MaxEpochAssumption
     DEF FetchesSound, Sound, TypeOK
<1>6. StatusPart'
  BY <1>2 DEF StatusPart, StatusConsistent, DigestValid
<1> QED
  BY <1>3, <1>4, <1>5, <1>6

\* What a step of one fetch has to show.
FetchRecords == [pc : {"idle", "finality", "header", "digest", "blobs"},
                 fin : 0 .. MaxHead, head : 0 .. MaxHead, epoch : 0 .. MaxEpoch]

LEMMA FetchFrame ==
    ASSUME IInv, NEW f \in Fetchers, NEW at \in FetchRecords,
           fetch' = [fetch EXCEPT ![f] = at], Sound(f)',
           StatusPart', status'.fin \in 0 .. MaxHead, status'.head \in 0 .. MaxHead,
           f = "cron" => ~Free(f) \/ crons = "on",
           UNCHANGED <<nodeVars, upstream, step, host, wired, discovery, crons,
                       onReady, isShutdown, stop, readyAtStop>>
    PROVE  IInv'
<1> USE DEF IInv
<1>1. fetch' \in [Fetchers -> FetchRecords] /\ \A g \in Fetchers \ {f} : fetch'[g] = fetch[g]
  BY DEF TypeOK, FetchRecords
<1>2. TypeOK'
  BY <1>1 DEF TypeOK, NodeTypeOK, FetchRecords, nodeVars
<1>3. NodePart' /\ StartPart'
  BY DEF NodePart, Known, Named, StartPart, nodeVars
<1>4. StopPart'
  <2>1. Free("cron") /\ crons = "stopped" => Free("cron")'
    BY <1>1 DEF Free, Fetchers
  <2> QED
    BY <2>1 DEF StopPart, nodeVars
<1>5. FetchesSound'
  BY <1>1 DEF FetchesSound, Sound
<1> QED
  BY <1>2, <1>3, <1>4, <1>5

LEMMA BeginInv ==
    ASSUME IInv, NEW f \in Fetchers, BeginFetch(f), f = "cron" => crons = "on"
    PROVE  IInv'
<1> DEFINE at == [Idle EXCEPT !.pc = "finality"]
<1>1. at \in FetchRecords /\ at.pc = "finality"
  <2>1. 0 \in 0 .. MaxHead /\ 0 \in 0 .. MaxEpoch
    BY MaxHeadAssumption, MaxEpochAssumption
  <2> QED
    BY <2>1 DEF Idle, FetchRecords
<1>2. fetch' = [fetch EXCEPT ![f] = at] /\ UNCHANGED status
  BY DEF BeginFetch, Set
<1>3. fetch'[f].pc = "finality"
  BY <1>1, <1>2 DEF IInv, TypeOK
<1> HIDE DEF at
<1> QED
  BY <1>1, <1>2, <1>3, FetchFrame
     DEF BeginFetch, Sound, IInv, TypeOK, StatusPart, StatusConsistent, DigestValid

\* A set of numbers that is not empty has a least one.
LEMMA LeastNat ==
    ASSUME NEW T, T \subseteq Nat, T # {}
    PROVE  \E x \in T : \A y \in T : x <= y
<1>1. PICK x \in T : \A y \in T : ~(<<y, x>> \in OpToRel(<, Nat))
  <2> HIDE DEF OpToRel
  <2> QED
    BY NatLessThanWellFounded, WFMin
<1>2. \A y \in T : ~(y < x)
  BY <1>1 DEF OpToRel
<1> QED
  BY <1>2

\* And a greatest one, if it is bounded.
LEMMA GreatestNat ==
    ASSUME NEW T, NEW e \in Nat, T \subseteq 0 .. e, T # {}
    PROVE  \E x \in T : \A y \in T : y <= x
<1> DEFINE U == {n \in Nat : \A y \in T : y <= n}
<1>1. U \subseteq Nat /\ e \in U
  OBVIOUS
<1>2. PICK m \in U : \A u \in U : m <= u
  <2> HIDE DEF U
  <2> QED
    BY <1>1, LeastNat
<1>3. PICK y \in T : TRUE
  OBVIOUS
<1>4. ASSUME m \notin T PROVE FALSE
  <2>1. m # 0
    BY <1>3, <1>4
  <2>2. m - 1 \in U
    BY <1>4, <2>1
  <2> QED
    BY <1>2, <2>2
<1> QED
  BY <1>2, <1>4

\* The loop finds the entry that has taken effect and not been replaced, and
\* leaves none out.
LEMMA LatestGoverns ==
    ASSUME NEW epochs, epochs \subseteq Nat, NEW e \in Nat
    PROVE  /\ Governs(Latest(epochs, e), epochs, e)
           /\ \A c \in epochs : c <= e => c <= Latest(epochs, e)
<1> DEFINE T == {b \in epochs \cup {0} : b <= e}
           P(b) == b <= e /\ \A c \in epochs \cup {0} : c <= e => c <= b
<1>1. PICK m \in T : \A y \in T : y <= m
  <2>1. 0 \in T
    OBVIOUS
  <2>2. ASSUME NEW b \in T PROVE b \in 0 .. e
    OBVIOUS
  <2> HIDE DEF T
  <2> QED
    BY <2>1, <2>2, GreatestNat
<1>2. m \in epochs \cup {0} /\ P(m)
  BY <1>1
<1>3. Latest(epochs, e) = CHOOSE b \in epochs \cup {0} : P(b)
  BY DEF Latest
<1>4. Latest(epochs, e) \in epochs \cup {0} /\ P(Latest(epochs, e))
  <2> HIDE DEF P
  <2> QED
    BY <1>2, <1>3
<1>5. ASSUME NEW k, k \in epochs \cup {0}, P(k)
      PROVE  Governs(k, epochs, e) /\ \A c \in epochs : c <= e => c <= k
  <2>1. k \in Nat /\ k <= e
    BY <1>5
  <2>2. ASSUME NEW c \in epochs, k < c, c <= e PROVE FALSE
    BY <1>5, <2>1, <2>2
  <2> QED
    BY <1>5, <2>2 DEF Governs
<1> HIDE DEF P
<1> QED
  BY <1>4, <1>5, Zenon

\* Forks without a schedule have the digest of their epoch.
LEMMA EarlyDigest ==
    ASSUME NEW e \in Nat, ~HasBlobs(CurrentFork(e))
    PROVE  InForce(ComputeForkDigest(CurrentFork(e), NoBlobs), e)
<1>1. Governs(CurrentFork(e), ForkEpochs, e)
  BY LatestGoverns, ForkEpochsAssumption DEF CurrentFork
<1> HIDE DEF CurrentFork
<1> QED
  BY <1>1 DEF InForce, ComputeForkDigest

\* The fork of one epoch and the schedule of a later one are in force together,
\* at the first epoch or where the entry took effect, unless the fork has been
\* replaced by then.
LEMMA LaterSchedule ==
    ASSUME NEW since \in Nat, NEW until \in Nat, since <= until,
           HasBlobs(CurrentFork(since)),
           ~\E fork \in ForkEpochs, blobs \in BlobEpochs :
               since < fork /\ fork <= blobs /\ blobs <= until
    PROVE  \E e \in since .. until :
               InForce(ComputeForkDigest(CurrentFork(since), ScheduleEpoch(until)), e)
<1> DEFINE F == CurrentFork(since)
           B == ScheduleEpoch(until)
           e == IF since <= B THEN B ELSE since
<1>1. /\ Governs(F, ForkEpochs, since)
      /\ \A c \in ForkEpochs : c <= since => c <= F
  BY LatestGoverns, ForkEpochsAssumption DEF CurrentFork
<1>2. /\ Governs(B, BlobEpochs, until)
      /\ \A c \in BlobEpochs : c <= until => c <= B
  BY LatestGoverns, BlobEpochsAssumption DEF ScheduleEpoch
<1> HIDE DEF F, B
<1>3. F \in Nat /\ F <= since /\ F \in ForkEpochs \cup {0}
  BY <1>1, ForkEpochsAssumption DEF Governs
<1>4. B \in Nat /\ B <= until /\ B \in BlobEpochs \cup {0}
  BY <1>2, BlobEpochsAssumption DEF Governs
<1>5. e \in since .. until
  BY <1>4
<1>6. Governs(F, ForkEpochs, e)
  <2>1. ASSUME NEW c \in ForkEpochs, F < c, c <= e PROVE FALSE
    <3>1. c \in Nat
      BY ForkEpochsAssumption
    <3>2. ~(c <= since)
      BY <1>1, <1>3, <2>1, <3>1
    <3>3. since < c /\ c <= B /\ e = B
      BY <1>4, <2>1, <3>1, <3>2
    <3>4. B \in BlobEpochs
      BY <1>4, <3>1, <3>3
    <3> QED
      BY <1>4, <3>3, <3>4
  <2>2. F <= e
    BY <1>3, <1>4
  <2> QED
    BY <1>3, <2>1, <2>2 DEF Governs
<1>7. Governs(B, BlobEpochs, e)
  <2>1. ASSUME NEW c \in BlobEpochs, B < c, c <= e PROVE FALSE
    <3>1. c \in Nat /\ c <= until
      BY <1>5, <2>1, BlobEpochsAssumption
    <3> QED
      BY <1>2, <1>4, <2>1, <3>1
  <2>2. B <= e
    BY <1>4
  <2> QED
    BY <1>4, <2>1, <2>2 DEF Governs
<1>8. InForce(<<F, B>>, e)
  BY <1>6, <1>7 DEF InForce, F
<1> QED
  BY <1>5, <1>8 DEF ComputeForkDigest, F, B

LEMMA FetchInv == ASSUME IInv, NEW f \in Fetchers, FetchStep(f) PROVE IInv'
<1> USE DEF IInv
<1>0. /\ 0 \in 0 .. MaxHead /\ 0 \in 0 .. MaxEpoch
      /\ fetch \in [Fetchers -> FetchRecords] /\ fetch[f] \in FetchRecords
      /\ upstream \in [fin : 0 .. MaxHead, head : 0 .. MaxHead, epoch : 0 .. MaxEpoch]
      /\ upstream.fin <= upstream.head
  BY MaxHeadAssumption, MaxEpochAssumption DEF TypeOK, FetchRecords, FetchesSound
<1>f. UNCHANGED <<nodeVars, upstream, step, host, wired, discovery, crons,
                  onReady, isShutdown, stop, readyAtStop>>
  BY DEF FetchStep
<1>i. Idle \in FetchRecords /\ Idle.pc = "idle"
  BY <1>0 DEF Idle, FetchRecords
<1>1. CASE FetchFails(f)
  <2>1. fetch' = [fetch EXCEPT ![f] = Idle] /\ UNCHANGED status /\ ~Free(f)
    BY <1>1 DEF FetchFails, Set
  <2>2. fetch'[f] = Idle
    BY <1>0, <2>1
  <2>3. Sound(f)'
    BY <1>i, <2>2 DEF Sound
  <2> QED
    BY <1>f, <1>i, <2>1, <2>3, FetchFrame
       DEF TypeOK, StatusPart, StatusConsistent, DigestValid
<1>2. CASE FetchPart(f) /\ fetch[f].pc = "finality"
  <2> DEFINE at == [fetch[f] EXCEPT !.pc = "header", !.fin = upstream.fin]
  <2>1. fetch' = [fetch EXCEPT ![f] = at] /\ UNCHANGED status
    <3>1. Asked[fetch[f].pc] = "fin" /\ AfterAsking[fetch[f].pc] = "header"
      BY <1>2 DEF AfterAsking, Asked
    <3> DEFINE pc == fetch[f].pc
    <3>2. Set(f, [fetch[f] EXCEPT !.pc = AfterAsking[pc],
                                  ![Asked[pc]] = upstream[Asked[pc]]])
      BY <1>2 DEF FetchPart
    <3>3. Set(f, [fetch[f] EXCEPT !.pc = "header", !["fin"] = upstream["fin"]])
      BY <3>1, <3>2, Zenon
    <3> QED
      BY <3>3 DEF Set
  <2>2. at \in FetchRecords /\ at.pc = "header" /\ at.fin = upstream.fin
    BY <1>0 DEF FetchRecords
  <2> HIDE DEF at
  <2>3. fetch'[f] = at
    BY <1>0, <2>1
  <2>4. Sound(f)'
    BY <1>0, <1>f, <2>2, <2>3 DEF Sound
  <2> QED
    BY <1>2, <1>f, <2>1, <2>2, <2>4, FetchFrame
       DEF TypeOK, StatusPart, StatusConsistent, DigestValid, Free
<1>3. CASE FetchPart(f) /\ fetch[f].pc = "header"
  <2> DEFINE at == [fetch[f] EXCEPT !.pc = "digest", !.head = upstream.head]
  <2>1. fetch' = [fetch EXCEPT ![f] = at] /\ UNCHANGED status
    <3>1. Asked[fetch[f].pc] = "head" /\ AfterAsking[fetch[f].pc] = "digest"
      BY <1>3 DEF AfterAsking, Asked
    <3> DEFINE pc == fetch[f].pc
    <3>2. Set(f, [fetch[f] EXCEPT !.pc = AfterAsking[pc],
                                  ![Asked[pc]] = upstream[Asked[pc]]])
      BY <1>3 DEF FetchPart
    <3>3. Set(f, [fetch[f] EXCEPT !.pc = "digest", !["head"] = upstream["head"]])
      BY <3>1, <3>2, Zenon
    <3> QED
      BY <3>3 DEF Set
  <2>2. at \in FetchRecords /\ at.pc = "digest" /\ at.head = upstream.head
        /\ at.fin = fetch[f].fin
    BY <1>0 DEF FetchRecords
  <2> HIDE DEF at
  <2>3. fetch'[f] = at
    BY <1>0, <2>1
  <2>4. Sound(f)'
    <3>1. fetch[f].fin <= upstream.fin
      BY <1>3 DEF FetchesSound, Sound
    <3> QED
      BY <1>0, <1>f, <2>2, <2>3, <3>1, MaxHeadAssumption DEF Sound, FetchRecords
  <2> QED
    BY <1>3, <1>f, <2>1, <2>2, <2>4, FetchFrame
       DEF TypeOK, StatusPart, StatusConsistent, DigestValid, Free
\* The fetch ends with a status of this digest.
<1>4. ASSUME NEW digest, NEW since, NEW until, SetStatus(f, digest, since, until),
             fetch[f].pc \in {"digest", "blobs"},
             \/ \E e \in since .. until : InForce(digest, e)
             \/ \E fork \in ForkEpochs, blobs \in BlobEpochs :
                   since < fork /\ fork <= blobs /\ blobs <= until
      PROVE  IInv'
  <2>1. fetch' = [fetch EXCEPT ![f] = Idle]
    BY <1>4 DEF SetStatus
  <2>2. fetch'[f] = Idle
    BY <1>0, <2>1
  <2>3. Sound(f)'
    BY <1>i, <2>2 DEF Sound
  <2>4. /\ status'.fin = fetch[f].fin /\ status'.head = fetch[f].head
        /\ status'.digest = digest /\ status'.since = since /\ status'.until = until
    BY <1>4 DEF SetStatus
  <2>5. fetch[f].fin <= fetch[f].head
    BY <1>4 DEF FetchesSound, Sound
  <2>6. StatusPart'
    <3>1. DigestValid'
      BY <1>4, <2>4 DEF DigestValid
    <3> QED
      BY <2>4, <2>5, <3>1 DEF StatusPart, StatusConsistent
  <2> QED
    BY <1>0, <1>4, <1>f, <1>i, <2>1, <2>3, <2>4, <2>6, FetchFrame DEF Free, FetchRecords
<1>5. CASE ReadFork(f)
  <2>1. CASE HasBlobs(CurrentFork(upstream.epoch))
    <3> DEFINE at == [fetch[f] EXCEPT !.pc = "blobs", !.epoch = upstream.epoch]
    <3>1. fetch' = [fetch EXCEPT ![f] = at] /\ UNCHANGED status
      BY <1>5, <2>1 DEF ReadFork, Set
    <3>2. at \in FetchRecords /\ at.pc = "blobs" /\ at.epoch = upstream.epoch
          /\ at.fin = fetch[f].fin /\ at.head = fetch[f].head
      BY <1>0 DEF FetchRecords
    <3> HIDE DEF at
    <3>3. fetch'[f] = at
      BY <1>0, <3>1
    <3>4. HasBlobs(CurrentFork(fetch'[f].epoch)) /\ fetch'[f].epoch <= upstream.epoch
      BY <1>0, <2>1, <3>2, <3>3, MaxEpochAssumption
    <3>5. Sound(f)'
      BY <1>0, <1>5, <1>f, <2>1, <3>2, <3>3, <3>4, MaxEpochAssumption
         DEF Sound, FetchesSound, ReadFork, HasBlobs
    <3> QED
      BY <1>5, <1>f, <3>1, <3>2, <3>5, FetchFrame
         DEF TypeOK, StatusPart, StatusConsistent, DigestValid, Free, ReadFork
  <2>2. CASE ~HasBlobs(CurrentFork(upstream.epoch))
    <3> DEFINE digest == ComputeForkDigest(CurrentFork(upstream.epoch), NoBlobs)
    <3>1. upstream.epoch \in Nat /\ upstream.epoch \in upstream.epoch .. upstream.epoch
      BY <1>0, MaxEpochAssumption
    <3>2. InForce(digest, upstream.epoch)
      BY <2>2, <3>1, EarlyDigest
    <3>3. SetStatus(f, digest, upstream.epoch, upstream.epoch)
      BY <1>5, <2>2 DEF ReadFork
    <3> HIDE DEF digest
    <3> QED
      BY <1>4, <1>5, <3>1, <3>2, <3>3 DEF ReadFork
  <2> QED
    BY <2>1, <2>2
<1>6. CASE ReadBlobs(f)
  <2> DEFINE since == fetch[f].epoch
             until == upstream.epoch
             digest == ComputeForkDigest(CurrentFork(since), ScheduleEpoch(until))
  <2>1. HasBlobs(CurrentFork(since)) /\ since <= until
    BY <1>6 DEF ReadBlobs, FetchesSound, Sound
  <2>2. since \in Nat /\ until \in Nat
    BY <1>0, MaxEpochAssumption DEF FetchRecords
  <2>3. SetStatus(f, digest, since, until) /\ fetch[f].pc \in {"digest", "blobs"}
    BY <1>6 DEF ReadBlobs
  <2>4. \/ \E e \in since .. until : InForce(digest, e)
        \/ \E fork \in ForkEpochs, blobs \in BlobEpochs :
              since < fork /\ fork <= blobs /\ blobs <= until
    <3> HIDE DEF since, until
    <3> QED
      BY <2>1, <2>2, LaterSchedule
  <2> HIDE DEF since, until, digest
  <2> QED
    BY <1>4, <2>3, <2>4
<1> QED
  BY <1>1, <1>2, <1>3, <1>5, <1>6 DEF FetchStep, FetchPart, Asked
-----------------------------------------------------------------------------
(* The callback and Stop. *)

\* What a step that leaves node, upstream, fetches and status has to show.
LEMMA StepFrame ==
    ASSUME IInv, UNCHANGED <<spec, metadata, network, loader, serviceReady, start,
                             upstream, fetch, status>>,
           TypeOK', boot' = boot \/ (boot = "callbacks" /\ boot' = "ready"),
           StartPart', StopPart'
    PROVE  IInv'
  BY DEF IInv, NodePart, Known, Named, FetchesSound, Sound, StatusPart, StatusConsistent,
         DigestValid

LEMMA CallbackInv == ASSUME IInv, Callback PROVE IInv'
<1> USE DEF IInv
<1>1. CASE BeginCallback
  <2> USE <1>1 DEF BeginCallback, ToStep, nodeVars
  <2>f. UNCHANGED <<spec, metadata, network, loader, serviceReady, start,
                    upstream, fetch, status>>
    OBVIOUS
  <2>g. boot' = boot
    OBVIOUS
  <2>1. TypeOK'
    BY DEF TypeOK, NodeTypeOK
  <2>2. StartPart' /\ StopPart'
    BY DEF StartPart, StopPart, Free
  <2> QED
    BY <2>f, <2>g, <2>1, <2>2, StepFrame, Zenon
<1>2. CASE InitialFetch
  BY <1>2, BeginInv DEF InitialFetch, Fetchers
<1>3. CASE StatusFetched
  <2> USE <1>3 DEF StatusFetched, ToStep, nodeVars
  <2>f. UNCHANGED <<spec, metadata, network, loader, serviceReady, start,
                    upstream, fetch, status>>
    OBVIOUS
  <2>g. boot' = boot
    OBVIOUS
  <2>1. TypeOK'
    BY DEF TypeOK, NodeTypeOK
  <2>2. StartPart' /\ StopPart'
    BY DEF StartPart, StopPart, Free
  <2> QED
    BY <2>f, <2>g, <2>1, <2>2, StepFrame, Zenon
<1>4. CASE StartHost
  <2> USE <1>4 DEF StartHost, ToStep, nodeVars
  <2>f. UNCHANGED <<spec, metadata, network, loader, serviceReady, start,
                    upstream, fetch, status>>
    OBVIOUS
  <2>g. boot' = boot
    OBVIOUS
  <2>1. TypeOK'
    BY DEF TypeOK, NodeTypeOK
  <2>2. StartPart' /\ StopPart'
    BY DEF StartPart, StopPart, Free
  <2> QED
    BY <2>f, <2>g, <2>1, <2>2, StepFrame, Zenon
<1>5. CASE WireUpComponents
  <2> USE <1>5 DEF WireUpComponents, ToStep, nodeVars
  <2>f. UNCHANGED <<spec, metadata, network, loader, serviceReady, start,
                    upstream, fetch, status>>
    OBVIOUS
  <2>g. boot' = boot
    OBVIOUS
  <2>1. TypeOK'
    BY DEF TypeOK, NodeTypeOK
  <2>2. StartPart' /\ StopPart'
    BY DEF StartPart, StopPart, Free
  <2> QED
    BY <2>f, <2>g, <2>1, <2>2, StepFrame, Zenon
<1>6. CASE StartDiscovery
  <2> USE <1>6 DEF StartDiscovery, ToStep, nodeVars
  <2>f. UNCHANGED <<spec, metadata, network, loader, serviceReady, start,
                    upstream, fetch, status>>
    OBVIOUS
  <2>g. boot' = boot
    OBVIOUS
  <2>1. TypeOK'
    BY DEF TypeOK, NodeTypeOK
  <2>2. StartPart' /\ StopPart'
    BY DEF StartPart, StopPart, Free
  <2> QED
    BY <2>f, <2>g, <2>1, <2>2, StepFrame, Zenon
<1>7. CASE StartCrons
  <2> USE <1>7 DEF StartCrons, ToStep, nodeVars
  <2>f. UNCHANGED <<spec, metadata, network, loader, serviceReady, start,
                    upstream, fetch, status>>
    OBVIOUS
  <2>g. boot' = boot
    OBVIOUS
  <2>1. TypeOK'
    BY DEF TypeOK, NodeTypeOK
  <2>2. StartPart' /\ StopPart'
    BY DEF StartPart, StopPart, Free
  <2> QED
    BY <2>f, <2>g, <2>1, <2>2, StepFrame, Zenon
<1>8. CASE CallbackFatal
  <2> USE <1>8 DEF CallbackFatal, crawlerVars
  <2>f. UNCHANGED <<spec, metadata, network, loader, serviceReady, start,
                    upstream, fetch, status>>
    OBVIOUS
  <2>g. boot' = boot
    OBVIOUS
  <2>1. TypeOK'
    BY DEF TypeOK, NodeTypeOK
  <2>2. StartPart' /\ StopPart'
    BY DEF StartPart, StopPart, Free
  <2> QED
    BY <2>f, <2>g, <2>1, <2>2, StepFrame, Zenon
<1>9. CASE CloseOnReady
  <2> USE <1>9 DEF CloseOnReady
  <2>1. TypeOK'
    BY DEF TypeOK, NodeTypeOK
  <2>2. StartPart' /\ StopPart'
    BY DEF StartPart, StopPart, Free
  <2>3. boot = "callbacks" \/ boot = "ready"
    BY DEF StartPart
  <2> QED
    BY <2>1, <2>2, <2>3, StepFrame
<1> QED
  BY <1>1, <1>2, <1>3, <1>4, <1>5, <1>6, <1>7, <1>8, <1>9 DEF Callback

LEMMA StopInv == ASSUME IInv, Stop PROVE IInv'
<1> USE DEF IInv
<1>1. CASE MarkShutdown
  <2> USE <1>1 DEF MarkShutdown, ToStop
  <2>f. UNCHANGED <<spec, metadata, network, loader, serviceReady, start,
                    upstream, fetch, status>>
    OBVIOUS
  <2>g. boot' = boot
    OBVIOUS
  <2>1. TypeOK'
    BY DEF TypeOK, NodeTypeOK
  <2>2. StartPart' /\ StopPart'
    BY DEF StartPart, StopPart, Free
  <2> QED
    BY <2>f, <2>g, <2>1, <2>2, StepFrame, Zenon
<1>2. CASE StopNode
  <2> USE <1>2 DEF StopNode, ToStop
  <2>f. UNCHANGED <<spec, metadata, network, loader, serviceReady, start,
                    upstream, fetch, status>>
    OBVIOUS
  <2>g. boot' = boot
    OBVIOUS
  <2>1. TypeOK'
    <3>1. NodeTypeOK'
      <4>1. healthy' \in BOOLEAN
        OBVIOUS
      <4>2. UNCHANGED <<spec, metadata, network, loader, refresher, serviceReady, boot,
                        errs, start, cancelled, exited>>
        OBVIOUS
      <4> QED
        BY <4>1, <4>2 DEF TypeOK, NodeTypeOK
    <3> QED
      BY <3>1 DEF TypeOK
  <2>2. StartPart' /\ StopPart'
    BY DEF StartPart, StopPart, Free
  <2> QED
    BY <2>f, <2>g, <2>1, <2>2, StepFrame, Zenon
<1>3. CASE StopCrons
  <2> USE <1>3 DEF StopCrons, ToStop, nodeVars
  <2>f. UNCHANGED <<spec, metadata, network, loader, serviceReady, start,
                    upstream, fetch, status>>
    OBVIOUS
  <2>g. boot' = boot
    OBVIOUS
  <2>1. TypeOK'
    BY DEF TypeOK, NodeTypeOK
  <2>2. StartPart'
    BY DEF StartPart
  <2>3. StopPart'
    BY DEF StartPart, StopPart, Free, JobDone, TypeOK
  <2> QED
    BY <2>f, <2>g, <2>1, <2>2, <2>3, StepFrame, Zenon
<1>4. CASE StopDiscovery
  <2> USE <1>4 DEF StopDiscovery, ToStop, nodeVars
  <2>f. UNCHANGED <<spec, metadata, network, loader, serviceReady, start,
                    upstream, fetch, status>>
    OBVIOUS
  <2>g. boot' = boot
    OBVIOUS
  <2>1. TypeOK'
    BY DEF TypeOK, NodeTypeOK
  <2>2. StartPart'
    BY DEF StartPart
  <2>3. StopPart'
    BY DEF StartPart, StopPart, Free, TypeOK
  <2> QED
    BY <2>f, <2>g, <2>1, <2>2, <2>3, StepFrame, Zenon
<1>5. CASE StopHost
  <2> USE <1>5 DEF StopHost, ToStop, nodeVars
  <2>f. UNCHANGED <<spec, metadata, network, loader, serviceReady, start,
                    upstream, fetch, status>>
    OBVIOUS
  <2>g. boot' = boot
    OBVIOUS
  <2>1. TypeOK'
    BY DEF TypeOK, NodeTypeOK
  <2>2. StartPart'
    BY DEF StartPart
  <2>3. StopPart'
    BY DEF StartPart, StopPart, Free, TypeOK
  <2> QED
    BY <2>f, <2>g, <2>1, <2>2, <2>3, StepFrame, Zenon
<1> QED
  BY <1>1, <1>2, <1>3, <1>4, <1>5 DEF Stop

THEOREM SpecInv == Spec => []IInv
<1>1. IInv /\ [Next]_vars => IInv'
  <2> SUFFICES ASSUME IInv, [Next]_vars PROVE IInv'
    OBVIOUS
  <2>1. CASE UNCHANGED vars
    <3>1. TypeOK'
      BY <2>1 DEF IInv, vars, nodeVars, crawlerVars, TypeOK, NodeTypeOK
    <3>2. StartPart' /\ StopPart'
      BY <2>1 DEF IInv, vars, nodeVars, crawlerVars, StartPart, StopPart, Free
    <3>3. UNCHANGED <<spec, metadata, network, loader, serviceReady, start,
                      upstream, fetch, status>>
      BY <2>1 DEF vars, nodeVars, crawlerVars
    <3>4. boot' = boot
      BY <2>1 DEF vars, nodeVars
    <3> QED
      BY <3>1, <3>2, <3>3, <3>4, StepFrame, Zenon
  <2>2. CASE CronJob
    BY <2>2, BeginInv DEF CronJob, Fetchers
  <2>3. CASE HeadEvent
    BY <2>3, BeginInv DEF HeadEvent, Fetchers
  <2> QED
    BY <2>1, <2>2, <2>3, NodeInv, UpstreamInv, FetchInv, CallbackInv, StopInv DEF Next
<1> QED
  BY InitInv, <1>1, PTL DEF Spec

-----------------------------------------------------------------------------
\* Node, fetches, callback and Stop keep their types, the bounds of the
\* upstream included.
THEOREM TypeCorrect == Spec => []TypeOK
<1>1. IInv => TypeOK
  BY DEF IInv
<1> QED
  BY SpecInv, <1>1, PTL

\* A Start that returned nil has a named network and a node identity, and the
\* crawler on it runs (beacon.go 113-121, 293-311; metadata.go 141-158).
THEOREM ReadyTrue == Spec => []ReadyMeans
<1>1. IInv => ReadyMeans
  BY DEF IInv, NodePart, Known, Named, StartPart, ReadyMeans
<1> QED
  BY SpecInv, <1>1, PTL

\* The status we tell our peers never finalises past its own head, whatever
\* fetches overlap (crawler.go 738-797).
THEOREM StatusSound == Spec => []StatusConsistent
<1>1. IInv => StatusConsistent
  BY DEF IInv, StatusPart
<1> QED
  BY SpecInv, <1>1, PTL

\* The fork digest of our status was in force between the two readings of the
\* clock that made it, unless a fork and then an entry of the blob schedule took
\* effect between them, for any epochs of forks, Fulu among them, and any
\* schedule of blobs (beacon.go 202-288).
THEOREM DigestSound == Spec => []DigestValid
<1>1. IInv => DigestValid
  BY DEF IInv, StatusPart
<1> QED
  BY SpecInv, <1>1, PTL

\* What was ready when Stop began is down, or discovery told to go down, when
\* Stop is done (crawler.go 284-407).
THEOREM StopQuiets == Spec => []StoppedQuiet
<1>1. IInv => StoppedQuiet
  BY DEF IInv, StopPart, StoppedQuiet
<1> QED
  BY SpecInv, <1>1, PTL
=============================================================================
