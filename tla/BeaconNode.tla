------------------------------ MODULE BeaconNode ------------------------------
(***************************************************************************)
(* The upstream beacon node of src/pkg/ethereum: the start of the node and *)
(* of its metadata service.  Three goroutines meet here: the caller of     *)
(* Start, the callback that the beacon library runs when the upstream is   *)
(* healthy for the first time, and the loader that MetadataService.Start   *)
(* launches; a cron job refreshes the metadata beside them.  What the      *)
(* upstream answers, and whether it answers, is the environment's choice.  *)
(***************************************************************************)
EXTENDS Integers

CONSTANTS
    SpecKinds,          \* what the upstream's spec may say, see DeriveFromSpec
    NetworkOverride     \* is Config.NetworkOverride set?

ASSUME SpecKindsAssumption ==
    SpecKinds \subseteq {"known", "testnet", "devnet", "impostor", "unnamed"}
ASSUME NetworkOverrideAssumption == NetworkOverride \in BOOLEAN

VARIABLES
    spec,           \* MetadataService.Spec, "missing" for nil
    metadata,       \* which of Genesis, wallclock, nodeIdentity, nodeIDHash are set
    network,        \* MetadataService.Network.Name
    loader,         \* the goroutine of MetadataService.Start
    refresher,      \* does the metadata scheduler run?
    serviceReady,   \* is startServices' channel closed?
    boot,           \* the callback of OnFirstTimeHealthy and its goroutine
    errs,           \* is there an error in Start's channel?
    start,          \* the call of Start
    healthy,        \* BeaconNode.healthy
    cancelled,      \* has the context of Start ended?
    exited          \* has a Fatal log ended the process?

nodeVars == <<spec, metadata, network, loader, refresher, serviceReady, boot,
              errs, start, healthy, cancelled, exited>>

Fields == {"genesis", "wallclock", "identity", "idHash"}

(***************************************************************************)
(* The network of a spec, "error" when it cannot be named: "known" is a    *)
(* deposit contract and chain of KnownNetworks, "impostor" claims the name *)
(* of a known network with another contract, "unnamed" has no CONFIG_NAME; *)
(* any other name is taken as it is.                                       *)
(***************************************************************************)
DeriveFromSpec(s) == IF s \in {"impostor", "unnamed"} THEN "error" ELSE s

\* DeriveNetwork: the override replaces the name "testnet" and no other.
NetworkOf(s) ==
    CASE s = "missing" -> "error"
      [] NetworkOverride /\ DeriveFromSpec(s) = "testnet" -> "override"
      [] OTHER -> DeriveFromSpec(s)

NodeInit ==
    /\ spec = "missing" /\ metadata = [f \in Fields |-> FALSE]
    /\ network = "none" /\ loader = "off" /\ refresher = FALSE
    /\ serviceReady = FALSE /\ boot = "none" /\ errs = FALSE /\ start = "idle"
    /\ healthy = FALSE /\ cancelled = FALSE /\ exited = FALSE

-----------------------------------------------------------------------------
(* Start and its callback. *)

\* Start registers the callback and waits.
StartNode ==
    /\ start = "idle" /\ start' = "waiting" /\ boot' = "waiting"
    /\ UNCHANGED <<spec, metadata, network, loader, refresher, serviceReady,
                   errs, healthy, cancelled, exited>>

FirstTimeHealthy ==
    /\ boot = "waiting" /\ boot' = "await" /\ healthy' = TRUE
    /\ UNCHANGED <<spec, metadata, network, loader, refresher, serviceReady,
                   errs, start, cancelled, exited>>

\* The loop on Healthy, which the end of the context leaves too.
AwaitHealthy ==
    /\ boot = "await"
    /\ boot' = "services" \/ (cancelled /\ boot' = "failed")
    /\ UNCHANGED <<spec, metadata, network, loader, refresher, serviceReady,
                   errs, start, healthy, cancelled, exited>>

\* startServices and MetadataService.Start: the loader is launched first, then
\* the scheduler is made, which may fail while the loader goes on.
StartService ==
    /\ boot = "services" /\ loader' = "refresh"
    /\ \/ boot' = "wait" /\ refresher' = TRUE /\ UNCHANGED errs
       \/ boot' = "failed" /\ errs' = TRUE /\ UNCHANGED refresher
    /\ UNCHANGED <<spec, metadata, network, serviceReady, start, healthy,
                   cancelled, exited>>

\* startServices waits for the service; then a goroutine runs the callbacks.
ServicesStarted ==
    /\ boot = "wait"
    /\ (serviceReady /\ boot' = "callbacks") \/ (cancelled /\ boot' = "failed")
    /\ UNCHANGED <<spec, metadata, network, loader, refresher, serviceReady,
                   errs, start, healthy, cancelled, exited>>

\* Start returns on the first of its three channels.
StartReturn ==
    /\ start = "waiting"
    /\ \/ boot = "ready" /\ start' = "ok" /\ UNCHANGED errs
       \/ errs /\ start' = "error" /\ errs' = FALSE
       \/ cancelled /\ start' = "cancelled" /\ UNCHANGED errs
    /\ UNCHANGED <<spec, metadata, network, loader, refresher, serviceReady,
                   boot, healthy, cancelled, exited>>

-----------------------------------------------------------------------------
(* The metadata service. *)

(***************************************************************************)
(* RefreshAll with the parts that the upstream answers.  A part that fails *)
(* keeps its old value and is only logged.  The identity is stored before  *)
(* its ENR is parsed, so it can be there without a node ID.  Each part     *)
(* writes a field of its own, so that the order of two overlapping         *)
(* refreshes does not show.                                                *)
(***************************************************************************)
RefreshAll ==
    \E got \in SUBSET {"spec", "genesis", "identity", "enode"} :
        /\ IF "spec" \in got /\ spec = "missing"
             THEN spec' \in SpecKinds ELSE UNCHANGED spec
        /\ LET genesis == metadata["genesis"] \/ "genesis" \in got
           IN  metadata' =
                 [genesis   |-> genesis,
                  wallclock |-> metadata["wallclock"] \/ (genesis /\ spec' # "missing"),
                  identity  |-> metadata["identity"] \/ "identity" \in got,
                  idHash    |-> metadata["idHash"] \/ {"identity", "enode"} \subseteq got]

\* The loader's first refresh.  RefreshAll returns nil whatever happened, so
\* the retries around it never come.
FirstRefresh ==
    /\ loader = "refresh" /\ loader' = "derive" /\ RefreshAll
    /\ UNCHANGED <<network, refresher, serviceReady, boot, errs, start, healthy,
                   cancelled, exited>>

\* The cron job's, every five minutes; MetadataService.Stop does not end it.
CronRefresh ==
    /\ refresher /\ RefreshAll
    /\ UNCHANGED <<network, loader, refresher, serviceReady, boot, errs, start,
                   healthy, cancelled, exited>>

\* A network that cannot be derived ends the process.
DeriveNetwork ==
    /\ loader = "derive"
    /\ IF NetworkOf(spec) = "error"
         THEN exited' = TRUE /\ UNCHANGED <<network, loader>>
         ELSE network' = NetworkOf(spec) /\ loader' = "callbacks" /\ UNCHANGED exited
    /\ UNCHANGED <<spec, metadata, refresher, serviceReady, boot, errs, start,
                   healthy, cancelled>>

NodeIdKnown == metadata["idHash"]

\* Ready is only logged; then the callback of startServices runs, once.  It
\* closes the channel only when the node ID is known.
RunServiceCallback ==
    /\ loader = "callbacks" /\ loader' = "done"
    /\ serviceReady' = NodeIdKnown
    /\ UNCHANGED <<spec, metadata, network, refresher, boot, errs, start,
                   healthy, cancelled, exited>>

-----------------------------------------------------------------------------
NodeNext ==
    \/ StartNode \/ FirstTimeHealthy \/ AwaitHealthy \/ StartService
    \/ ServicesStarted \/ StartReturn \/ FirstRefresh \/ CronRefresh
    \/ DeriveNetwork \/ RunServiceCallback

NodeTypeOK ==
    /\ spec \in SpecKinds \cup {"missing"}
    /\ metadata \in [Fields -> BOOLEAN]
    /\ network \in {"none", "known", "testnet", "devnet", "override"}
    /\ loader \in {"off", "refresh", "derive", "callbacks", "done"}
    /\ refresher \in BOOLEAN /\ serviceReady \in BOOLEAN
    /\ boot \in {"none", "waiting", "await", "services", "wait", "callbacks",
                 "ready", "failed"}
    /\ errs \in BOOLEAN
    /\ start \in {"idle", "waiting", "ok", "error", "cancelled"}
    /\ healthy \in BOOLEAN /\ cancelled \in BOOLEAN /\ exited \in BOOLEAN
=============================================================================
