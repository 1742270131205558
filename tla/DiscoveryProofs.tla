-------------------------- MODULE DiscoveryProofs --------------------------
(***************************************************************************)
(* Proofs about Discovery, for any number of Starts, job runs and lists of *)
(* boot nodes.                                                             *)
(*                                                                         *)
(* Start, Stop and the runs of the job overlap in every way d.mu allows.   *)
(* A Start that has set `started` has a scheduler to come (SchedulerDue);  *)
(* a listener that the discovery or a Stop holds is open, and no run works *)
(* on its slot, so nothing a goroutine found through it can meet its slot  *)
(* opened again (SlotsApart).                                              *)
(***************************************************************************)
EXTENDS Discovery, TLAPS

-----------------------------------------------------------------------------
InProgress == {"marked", "build", "built", "failed"}

\* What is started has a scheduler, or a Start that is about to store one or
\* failed to; a scheduler in use, or taken away, is past being stored.
SchedulerDue ==
    /\ started => scheduler # None \/ \E s \in Starts : start[s] \in InProgress
    /\ \A s \in Starts : scheduler = s \/ stop[3] = s =>
           start[s] \in {"stored", "running", "over"}

\* A Stop that closed its listener holds none, and never the installed one.
StopApart ==
    /\ stop[1] = "scheduler" => stop[2] = None
    /\ listener # None => stop[2] # listener

\* A listener in someone's hands is open.
HeldOpen ==
    \A r \in Runs :
        /\ listener = r \/ stop[2] = r => Open(r) /\ ~Active(r)
        /\ run[r] = "install" => Open(r)

\* A slot in use by a run has no goroutine, and nothing it found of itself.
SlotsApart == \A r \in Runs : Active(r) => r \notin iterated /\ found # <<r, r>>

IInv ==
    /\ TypeOK
    /\ SchedulerDue
    /\ StopApart
    /\ HeldOpen
    /\ SlotsApart
    /\ NeverOwnIdentity

-----------------------------------------------------------------------------
(* Start *)

\* The Start that sets `started` has yet to look for a scheduler.
LEMMA MarkStartedKeeps ==
    ASSUME IInv, NEW s \in Starts, MarkStarted(s) PROVE IInv'
  <1> USE DEF IInv
  <1>1. TypeOK'
    BY DiscoveryAssumption DEF TypeOK, MarkStarted, StartAt, slots
  <1>2. SchedulerDue'
    BY DiscoveryAssumption DEF SchedulerDue, InProgress, TypeOK, MarkStarted, StartAt, slots
  <1>3. StopApart' /\ HeldOpen' /\ SlotsApart' /\ NeverOwnIdentity'
    BY DEF StopApart, HeldOpen, SlotsApart, NeverOwnIdentity, Active, Open, MarkStarted,
       StartAt, slots
  <1> QED  BY <1>1, <1>2, <1>3

\* It ends early only when there is a scheduler.
LEMMA CheckSchedulerKeeps ==
    ASSUME IInv, NEW s \in Starts, CheckScheduler(s) PROVE IInv'
  <1> USE DEF IInv
  <1>1. TypeOK'
    BY DiscoveryAssumption DEF TypeOK, CheckScheduler, StartAt, fields, slots
  <1>2. SchedulerDue'
    BY DiscoveryAssumption DEF SchedulerDue, InProgress, TypeOK, CheckScheduler, StartAt,
       fields, slots
  <1>3. StopApart' /\ HeldOpen' /\ SlotsApart' /\ NeverOwnIdentity'
    BY DEF StopApart, HeldOpen, SlotsApart, NeverOwnIdentity, Active, Open, CheckScheduler,
       StartAt, fields, slots
  <1> QED  BY <1>1, <1>2, <1>3

\* A failure leaves its mark: `started` stays set without a scheduler.
LEMMA BuildSchedulerKeeps ==
    ASSUME IInv, NEW s \in Starts, BuildScheduler(s) PROVE IInv'
  <1> USE DEF IInv
  <1>1. TypeOK'
    BY DiscoveryAssumption DEF TypeOK, BuildScheduler, StartAt, fields, slots
  <1>2. SchedulerDue'
    BY DiscoveryAssumption DEF SchedulerDue, InProgress, TypeOK, BuildScheduler, StartAt,
       fields, slots
  <1>3. StopApart' /\ HeldOpen' /\ SlotsApart' /\ NeverOwnIdentity'
    BY DEF StopApart, HeldOpen, SlotsApart, NeverOwnIdentity, Active, Open, BuildScheduler,
       StartAt, fields, slots
  <1> QED  BY <1>1, <1>2, <1>3

\* It is stored at last, over one that another Start stored meanwhile.
LEMMA StoreSchedulerKeeps ==
    ASSUME IInv, NEW s \in Starts, StoreScheduler(s) PROVE IInv'
  <1> USE DEF IInv
  <1>1. TypeOK'
    BY DiscoveryAssumption DEF TypeOK, StoreScheduler, StartAt, slots
  <1>2. SchedulerDue'
    BY DiscoveryAssumption DEF SchedulerDue, InProgress, TypeOK, StoreScheduler, StartAt, slots
  <1>3. StopApart' /\ HeldOpen' /\ SlotsApart' /\ NeverOwnIdentity'
    BY DEF StopApart, HeldOpen, SlotsApart, NeverOwnIdentity, Active, Open, StoreScheduler,
       StartAt, slots
  <1> QED  BY <1>1, <1>2, <1>3

LEMMA RunSchedulerKeeps ==
    ASSUME IInv, NEW s \in Starts, RunScheduler(s) PROVE IInv'
  <1> USE DEF IInv
  <1>1. TypeOK'
    BY DiscoveryAssumption DEF TypeOK, RunScheduler, StartAt, fields, slots
  <1>2. SchedulerDue'
    BY DiscoveryAssumption DEF SchedulerDue, InProgress, TypeOK, RunScheduler, StartAt, fields,
       slots
  <1>3. StopApart' /\ HeldOpen' /\ SlotsApart' /\ NeverOwnIdentity'
    BY DEF StopApart, HeldOpen, SlotsApart, NeverOwnIdentity, Active, Open, RunScheduler,
       StartAt, fields, slots
  <1> QED  BY <1>1, <1>2, <1>3

-----------------------------------------------------------------------------
(* Stop and UpdateBootNodes *)

\* What Stop takes away is nobody else's any more.
LEMMA TakeAwayKeeps ==
    ASSUME IInv, TakeAway PROVE IInv'
  <1> USE DEF IInv
  <1>1. TypeOK'
    BY DiscoveryAssumption DEF TypeOK, TakeAway, Idle, slots
  <1>2. SchedulerDue'
    BY DiscoveryAssumption DEF SchedulerDue, InProgress, TypeOK, TakeAway, Idle, slots
  <1>3. StopApart'
    BY DiscoveryAssumption DEF StopApart, TypeOK, TakeAway, Idle, slots
  <1>4. HeldOpen'
    BY DiscoveryAssumption DEF HeldOpen, Open, Active, TypeOK, TakeAway, Idle, slots
  <1>5. NeverOwnIdentity'
    BY DiscoveryAssumption DEF NeverOwnIdentity, TypeOK, TakeAway, Idle, slots
  <1>6. SlotsApart'
    BY DEF SlotsApart, Active, TakeAway, Idle, slots
  <1> QED  BY <1>1, <1>2, <1>3, <1>4, <1>5, <1>6

\* It closes what it took, which no run has installed again.
LEMMA CloseTakenKeeps ==
    ASSUME IInv, CloseTaken PROVE IInv'
  <1> USE DEF IInv
  <1>1. TypeOK'
    BY DiscoveryAssumption DEF TypeOK, CloseTaken, Close, fields
  <1>2. SchedulerDue'
    BY DiscoveryAssumption DEF SchedulerDue, InProgress, TypeOK, CloseTaken, Close, fields
  <1>3. StopApart'
    BY DiscoveryAssumption DEF StopApart, TypeOK, CloseTaken, Close, fields
  <1>4. HeldOpen'
    BY DiscoveryAssumption DEF HeldOpen, Open, Active, StopApart, TypeOK, CloseTaken, Close,
       fields
  <1>5. SlotsApart' /\ NeverOwnIdentity'
    BY DEF SlotsApart, NeverOwnIdentity, Active, CloseTaken, Close, fields
  <1> QED  BY <1>1, <1>2, <1>3, <1>4, <1>5

LEMMA ShutDownKeeps ==
    ASSUME IInv, ShutDown PROVE IInv'
  <1> USE DEF IInv
  <1>1. TypeOK'
    BY DiscoveryAssumption DEF TypeOK, ShutDown, StartAt, Idle, fields, slots
  <1>2. SchedulerDue'
    BY DiscoveryAssumption DEF SchedulerDue, InProgress, TypeOK, ShutDown, StartAt, Idle,
       fields, slots
  <1>3. StopApart'
    BY DiscoveryAssumption DEF StopApart, TypeOK, ShutDown, StartAt, Idle, fields, slots
  <1>4. HeldOpen'
    BY DiscoveryAssumption DEF HeldOpen, Open, Active, TypeOK, ShutDown, StartAt, Idle, fields,
       slots
  <1>5. SlotsApart' /\ NeverOwnIdentity'
    BY DEF SlotsApart, NeverOwnIdentity, Active, ShutDown, StartAt, Idle, fields, slots
  <1> QED  BY <1>1, <1>2, <1>3, <1>4, <1>5

LEMMA UpdateBootNodesKeeps ==
    ASSUME IInv, NEW b \in BootNodes, UpdateBootNodes(b) PROVE IInv'
  <1> USE DEF IInv
  <1>1. TypeOK'
    BY DiscoveryAssumption DEF TypeOK, UpdateBootNodes, slots
  <1>2. SchedulerDue' /\ StopApart' /\ HeldOpen' /\ SlotsApart' /\ NeverOwnIdentity'
    BY DEF SchedulerDue, StopApart, HeldOpen, SlotsApart, NeverOwnIdentity, Active, InProgress,
       Open, UpdateBootNodes, slots
  <1> QED  BY <1>1, <1>2

-----------------------------------------------------------------------------
(* The runs of the job *)

\* A slot is used again when nobody holds its listener and no goroutine does.
LEMMA BeginRunKeeps ==
    ASSUME IInv, NEW s \in Starts, NEW r \in Runs, BeginRun(s, r) PROVE IInv'
  <1> USE DEF IInv
  <1>1. TypeOK'
    BY DiscoveryAssumption DEF TypeOK, BeginRun, RunAt, fields
  <1>2. HeldOpen'
    BY DiscoveryAssumption DEF HeldOpen, Open, Active, Free, Held, TypeOK, BeginRun, RunAt,
       fields
  <1>3. SlotsApart'
    BY DiscoveryAssumption DEF SlotsApart, Active, TypeOK, BeginRun, RunAt, fields
  <1>4. NeverOwnIdentity'
    BY DiscoveryAssumption DEF NeverOwnIdentity, TypeOK, BeginRun, RunAt, fields
  <1>5. SchedulerDue' /\ StopApart'
    BY DEF SchedulerDue, StopApart, InProgress, BeginRun, RunAt, fields
  <1> QED  BY <1>1, <1>2, <1>3, <1>4, <1>5

\* The run closes the installed listener, not one that Stop took.
LEMMA CloseOldKeeps ==
    ASSUME IInv, NEW r \in Runs, CloseOld(r) PROVE IInv'
  <1> USE DEF IInv
  <1>1. TypeOK'
    BY DiscoveryAssumption DEF TypeOK, CloseOld, RunAt, Close
  <1>2. StopApart'
    BY DiscoveryAssumption DEF StopApart, TypeOK, CloseOld, RunAt, Close
  <1>3. HeldOpen'
    BY DiscoveryAssumption DEF HeldOpen, Open, Active, StopApart, TypeOK, CloseOld, RunAt, Close
  <1>4. SlotsApart'
    BY DiscoveryAssumption DEF SlotsApart, Active, TypeOK, CloseOld, RunAt, Close
  <1>5. NeverOwnIdentity'
    BY DiscoveryAssumption DEF NeverOwnIdentity, TypeOK, CloseOld, RunAt, Close
  <1>6. SchedulerDue'
    BY DEF SchedulerDue, InProgress, CloseOld, RunAt, Close
  <1> QED  BY <1>1, <1>2, <1>3, <1>4, <1>5, <1>6

LEMMA BindSocketKeeps ==
    ASSUME IInv, NEW r \in Runs, BindSocket(r) PROVE IInv'
  <1> USE DEF IInv
  <1>1. TypeOK'
    BY DiscoveryAssumption DEF TypeOK, BindSocket, RunAt, fields
  <1>2. HeldOpen'
    BY DiscoveryAssumption DEF HeldOpen, Open, Active, TypeOK, BindSocket, RunAt, fields
  <1>3. SlotsApart'
    BY DiscoveryAssumption DEF SlotsApart, Active, TypeOK, BindSocket, RunAt, fields
  <1>4. SchedulerDue' /\ StopApart' /\ NeverOwnIdentity'
    BY DEF SchedulerDue, StopApart, NeverOwnIdentity, InProgress, BindSocket, RunAt, fields
  <1> QED  BY <1>1, <1>2, <1>3, <1>4

LEMMA OpenListenerKeeps ==
    ASSUME IInv, NEW r \in Runs, OpenListener(r) PROVE IInv'
  <1> USE DEF IInv
  <1>1. TypeOK'
    BY DiscoveryAssumption DEF TypeOK, OpenListener, RunAt, fields
  <1>2. HeldOpen'
    BY DiscoveryAssumption DEF HeldOpen, Open, Active, TypeOK, OpenListener, RunAt, fields
  <1>3. SlotsApart'
    BY DiscoveryAssumption DEF SlotsApart, Active, TypeOK, OpenListener, RunAt, fields
  <1>4. SchedulerDue' /\ StopApart' /\ NeverOwnIdentity'
    BY DEF SchedulerDue, StopApart, NeverOwnIdentity, InProgress, OpenListener, RunAt, fields
  <1> QED  BY <1>1, <1>2, <1>3, <1>4

\* The new listener replaces whatever is installed; nothing was found
\* through it yet.
LEMMA InstallListenerKeeps ==
    ASSUME IInv, NEW r \in Runs, InstallListener(r) PROVE IInv'
  <1> USE DEF IInv
  <1>1. TypeOK'
    BY DiscoveryAssumption DEF TypeOK, InstallListener, RunAt
  <1>2. StopApart'
    BY DiscoveryAssumption DEF StopApart, HeldOpen, Active, TypeOK, InstallListener, RunAt
  <1>3. HeldOpen'
    BY DiscoveryAssumption DEF HeldOpen, Open, Active, TypeOK, InstallListener, RunAt
  <1>4. SlotsApart'
    BY DiscoveryAssumption DEF SlotsApart, Active, TypeOK, InstallListener, RunAt
  <1>5. NeverOwnIdentity'
    BY DiscoveryAssumption DEF NeverOwnIdentity, SlotsApart, Active, TypeOK, InstallListener,
       RunAt
  <1>6. SchedulerDue'
    BY DEF SchedulerDue, InProgress, InstallListener, RunAt
  <1> QED  BY <1>1, <1>2, <1>3, <1>4, <1>5, <1>6

LEMMA LogFailureKeeps ==
    ASSUME IInv, NEW r \in Runs, LogFailure(r) PROVE IInv'
  <1> USE DEF IInv
  <1>1. TypeOK'
    BY DiscoveryAssumption DEF TypeOK, LogFailure, RunAt, fields
  <1>2. HeldOpen'
    BY DiscoveryAssumption DEF HeldOpen, Open, Active, TypeOK, LogFailure, RunAt, fields
  <1>3. SlotsApart'
    BY DiscoveryAssumption DEF SlotsApart, Active, TypeOK, LogFailure, RunAt, fields
  <1>4. SchedulerDue' /\ StopApart' /\ NeverOwnIdentity'
    BY DEF SchedulerDue, StopApart, NeverOwnIdentity, InProgress, LogFailure, RunAt, fields
  <1> QED  BY <1>1, <1>2, <1>3, <1>4

-----------------------------------------------------------------------------
(* The goroutines *)

\* The installed listener belongs to no run that still works on its slot.
LEMMA PickListenerKeeps ==
    ASSUME IInv, NEW r \in Runs, PickListener(r) PROVE IInv'
  <1> USE DEF IInv
  <1>1. TypeOK'
    BY DiscoveryAssumption DEF TypeOK, PickListener, RunAt, fields
  <1>2. HeldOpen'
    BY DiscoveryAssumption DEF HeldOpen, Open, Active, TypeOK, PickListener, RunAt, fields
  <1>3. SlotsApart'
    BY DiscoveryAssumption DEF SlotsApart, Active, HeldOpen, TypeOK, PickListener, RunAt, fields
  <1>4. SchedulerDue' /\ StopApart' /\ NeverOwnIdentity'
    BY DEF SchedulerDue, StopApart, NeverOwnIdentity, InProgress, PickListener, RunAt, fields
  <1> QED  BY <1>1, <1>2, <1>3, <1>4

\* The filter refuses the identity of the installed listener, since that
\* one is open.
LEMMA NextNodeKeeps ==
    ASSUME IInv, NEW r \in Runs, NextNode(r) PROVE IInv'
  <1> USE DEF IInv
  <1>1. TypeOK'
    BY DiscoveryAssumption DEF TypeOK, NextNode, FilterPeer, FilterPeerV4, fields
  <1>2. SlotsApart'
    BY DiscoveryAssumption DEF SlotsApart, Active, TypeOK, NextNode, FilterPeer, FilterPeerV4,
       fields
  <1>3. NeverOwnIdentity'
    BY DiscoveryAssumption DEF NeverOwnIdentity, TypeOK, NextNode, FilterPeer, FilterPeerV4,
       fields
  <1>4. SchedulerDue' /\ StopApart' /\ HeldOpen'
    BY DEF SchedulerDue, StopApart, HeldOpen, Active, InProgress, Open, NextNode, FilterPeer,
       FilterPeerV4, fields
  <1> QED  BY <1>1, <1>2, <1>3, <1>4

LEMMA PublishNodeKeeps ==
    ASSUME IInv, PublishNode PROVE IInv'
  <1> USE DEF IInv
  <1>1. TypeOK'
    BY DiscoveryAssumption DEF TypeOK, PublishNode, fields
  <1>2. SlotsApart'
    BY DiscoveryAssumption DEF SlotsApart, Active, TypeOK, PublishNode, fields
  <1>3. NeverOwnIdentity'
    BY DiscoveryAssumption DEF NeverOwnIdentity, TypeOK, PublishNode, fields
  <1>4. SchedulerDue' /\ StopApart' /\ HeldOpen'
    BY DEF SchedulerDue, StopApart, HeldOpen, Active, InProgress, Open, PublishNode, fields
  <1> QED  BY <1>1, <1>2, <1>3, <1>4

LEMMA EndOfNodesKeeps ==
    ASSUME IInv, NEW r \in Runs, EndOfNodes(r) PROVE IInv'
  <1> USE DEF IInv
  <1>1. TypeOK'
    BY DiscoveryAssumption DEF TypeOK, EndOfNodes, fields
  <1>2. HeldOpen'
    BY DiscoveryAssumption DEF HeldOpen, Open, Active, TypeOK, EndOfNodes, fields
  <1>3. SlotsApart'
    BY DiscoveryAssumption DEF SlotsApart, Active, TypeOK, EndOfNodes, fields
  <1>4. SchedulerDue' /\ StopApart' /\ NeverOwnIdentity'
    BY DEF SchedulerDue, StopApart, NeverOwnIdentity, InProgress, EndOfNodes, fields
  <1> QED  BY <1>1, <1>2, <1>3, <1>4

-----------------------------------------------------------------------------
(* The theorems *)

LEMMA InitHolds == Init => IInv
  <1> SUFFICES ASSUME Init PROVE IInv
    OBVIOUS
  <1>1. TypeOK
    BY DEF Init, TypeOK, Idle
  <1>2. SchedulerDue /\ StopApart
    BY DiscoveryAssumption DEF Init, SchedulerDue, StopApart, Idle
  <1>3. HeldOpen /\ SlotsApart
    BY DiscoveryAssumption DEF Init, HeldOpen, SlotsApart, Active, Idle
  <1>4. NeverOwnIdentity
    BY DiscoveryAssumption DEF Init, NeverOwnIdentity
  <1> QED  BY <1>1, <1>2, <1>3, <1>4 DEF IInv

\* Every step keeps the inductive invariant.
LEMMA NextKeeps == IInv /\ [Next]_vars => IInv'
  <1> SUFFICES ASSUME IInv, [Next]_vars PROVE IInv'
    OBVIOUS
  <1>1. ASSUME NEW s \in Starts, MarkStarted(s) \/ StartStep(s) PROVE IInv'
    BY <1>1, MarkStartedKeeps, CheckSchedulerKeeps, BuildSchedulerKeeps, StoreSchedulerKeeps,
       RunSchedulerKeeps
    DEF StartStep
  <1>2. ASSUME NEW s \in Starts, NEW r \in Runs, BeginRun(s, r) PROVE IInv'
    BY <1>2, BeginRunKeeps
  <1>3. CASE TakeAway \/ StopStep
    BY <1>3, TakeAwayKeeps, CloseTakenKeeps, ShutDownKeeps DEF StopStep
  <1>4. ASSUME NEW b \in BootNodes, UpdateBootNodes(b) PROVE IInv'
    BY <1>4, UpdateBootNodesKeeps
  <1>5. ASSUME NEW r \in Runs, RunStep(r) PROVE IInv'
    BY <1>5, CloseOldKeeps, BindSocketKeeps, OpenListenerKeeps, InstallListenerKeeps,
       LogFailureKeeps
    DEF RunStep
  <1>6. ASSUME NEW r \in Runs, ListenStep(r) \/ NextNode(r) PROVE IInv'
    BY <1>6, PickListenerKeeps, EndOfNodesKeeps, NextNodeKeeps DEF ListenStep
  <1>7. CASE PublishNode
    BY <1>7, PublishNodeKeeps
  <1>8. CASE UNCHANGED vars
    BY <1>8
    DEF vars, fields, slots, IInv, TypeOK, SchedulerDue, StopApart, HeldOpen, SlotsApart,
        NeverOwnIdentity, Active, Open
  <1> QED  BY <1>1, <1>2, <1>3, <1>4, <1>5, <1>6, <1>7, <1>8 DEF Next

\* The inductive invariant holds in every reachable state.
THEOREM SpecInv == Spec => []IInv
  <1>1. Init => IInv
    BY InitHolds
  <1>2. IInv /\ [Next]_vars => IInv'
    BY NextKeeps
  <1> QED  BY <1>1, <1>2, PTL DEF Spec

\* Every variable keeps its type.
THEOREM TypeCorrect == Spec => []TypeOK
  <1>1. IInv => TypeOK
    BY DEF IInv
  <1> QED  BY <1>1, SpecInv, PTL

\* However Starts and Stops overlap, a discovery that is started, with no
\* Start in progress and none that failed, has a scheduler (disc_v5.go:55-72,
\* 110-117, 195-241).
THEOREM SchedulerThere == Spec => []StartedHasScheduler
  <1>1. IInv => StartedHasScheduler
    BY DEF IInv, SchedulerDue, StartedHasScheduler, InProgress
  <1> QED  BY <1>1, SpecInv, PTL

\* No goroutine publishes the identity of its listener while that one is the
\* discovery's own (disc_v5.go:378-388).
THEOREM OwnIdentityKept == Spec => []NeverOwnIdentity
  <1>1. IInv => NeverOwnIdentity
    BY DEF IInv
  <1> QED  BY <1>1, SpecInv, PTL

\* What a step may do to the listener of slot r while someone can close it.
Keeps(r) ==
    Held(r) => \/ Held(r)' \/ socket'[r] \in {"none", "closed"}
               \/ listener = r /\ listener' \in Runs

\* A step that leaves alone who holds a listener keeps it.
LEMMA SameHolders ==
    ASSUME NEW r \in Runs, UNCHANGED <<listener, stop>>,
           run[r] \in {"open", "install"} => run'[r] \in {"open", "install"}
    PROVE  Keeps(r)
  BY DEF Keeps, Held

LEMMA StepKeeps == ASSUME IInv, [Next]_vars, NEW q \in Runs PROVE Keeps(q)
  <1> USE DEF IInv
  <1>1. CASE \E s \in Starts : MarkStarted(s) \/ StartStep(s)
    BY <1>1, SameHolders
    DEF MarkStarted, StartStep, CheckScheduler, BuildScheduler, StoreScheduler, RunScheduler,
        fields, slots
  <1>2. ASSUME NEW s \in Starts, NEW r \in Runs, BeginRun(s, r) PROVE Keeps(q)
    BY <1>2 DEF BeginRun, RunAt, fields, Keeps, Held, TypeOK
  <1>3. CASE TakeAway
    BY <1>3, DiscoveryAssumption DEF TakeAway, Idle, slots, Keeps, Held
  <1>4. CASE CloseTaken
    BY <1>4 DEF CloseTaken, Close, fields, Keeps, Held, TypeOK
  <1>5. CASE ShutDown
    BY <1>5, DiscoveryAssumption DEF ShutDown, fields, slots, Keeps, Held, StopApart
  <1>6. CASE \E b \in BootNodes : UpdateBootNodes(b)
    BY <1>6, SameHolders DEF UpdateBootNodes, slots
  <1>7. ASSUME NEW r \in Runs, CloseOld(r) PROVE Keeps(q)
    BY <1>7 DEF CloseOld, Close, RunAt, Keeps, Held, TypeOK
  <1>8. ASSUME NEW r \in Runs, BindSocket(r) PROVE Keeps(q)
    BY <1>8, SameHolders DEF BindSocket, RunAt, fields, TypeOK
  <1>9. ASSUME NEW r \in Runs, OpenListener(r) PROVE Keeps(q)
    BY <1>9 DEF OpenListener, RunAt, fields, Keeps, Held, TypeOK
  <1>10. ASSUME NEW r \in Runs, InstallListener(r) PROVE Keeps(q)
    BY <1>10 DEF InstallListener, RunAt, Keeps, Held, TypeOK
  <1>11. ASSUME NEW r \in Runs, LogFailure(r) \/ PickListener(r) PROVE Keeps(q)
    BY <1>11, SameHolders DEF LogFailure, PickListener, RunAt, fields, TypeOK
  <1>12. CASE (\E r \in Runs : EndOfNodes(r) \/ NextNode(r)) \/ PublishNode
    BY <1>12, SameHolders DEF EndOfNodes, NextNode, PublishNode, fields
  <1>13. CASE UNCHANGED vars
    BY <1>13, SameHolders DEF vars, fields, slots
  <1> QED
    BY <1>1, <1>2, <1>3, <1>4, <1>5, <1>6, <1>7, <1>8, <1>9, <1>10, <1>11, <1>12, <1>13
    DEF Next, StopStep, RunStep, ListenStep

\* A listener stays in the hands of someone who can close it, or is closed,
\* unless a run that overlapped installs its own in its place
\* (disc_v5.go:76-102).
THEOREM ListenersInSight == Spec => ListenersKept
  <1>1. IInv /\ [Next]_vars =>
            [\A r \in Runs : Held(r) =>
                \/ Held(r)' \/ socket'[r] \in {"none", "closed"}
                \/ listener = r /\ listener' \in Runs]_vars
    BY StepKeeps DEF Keeps
  <1> QED  BY <1>1, SpecInv, PTL DEF Spec, ListenersKept
=============================================================================
