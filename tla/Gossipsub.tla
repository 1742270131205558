----------------------------- MODULE Gossipsub -----------------------------
(***************************************************************************)
(* Subscriptions of pkg/consensus/mimicry/p2p/pubsub/v1: Subscribe, the    *)
(* processor and the remover goroutine of each subscription, Cancel,       *)
(* Publish and Stop, as callers run them concurrently.                     *)
(*                                                                         *)
(* A member of Subs is one call of Subscribe and all that a successful one *)
(* creates: the Subscription, its processor with the goroutine that runs   *)
(* it, and the goroutine that waits for the subscription's context to end  *)
(* and then calls removeProcessor.  The maps subscriptions and processors  *)
(* are keyed by topic NAME, so what one goroutine put there another one    *)
(* may find.                                                               *)
(*                                                                         *)
(* libp2p's pubsub is external: one goroutine serves its calls in turn, a  *)
(* topic that was joined stays joined (nothing here closes a topic), and   *)
(* after Stop cancelled its context it may serve a few more calls before   *)
(* it exits.  Messages are told apart only by whether the validator of     *)
(* their topic has seen them; a set of them stands for any number.         *)
(***************************************************************************)
EXTENDS Naturals

CONSTANTS
    Topics,      \* topic names with a handler in the registry
    Validated,   \* the topics whose handler has a validator
    Subs,        \* calls of Subscribe, numbered, and what each one makes
    NoTopic,     \* the topic of a call not made
    NoSub,       \* a missing entry of the two maps
    MaxMessages, \* bound: messages that arrive
    Sources      \* bound: the topics they arrive for

ASSUME GossipsubAssumption ==
    /\ Validated \subseteq Topics
    /\ NoTopic \notin Topics
    /\ Subs \subseteq Nat
    /\ NoSub \notin Subs
    /\ MaxMessages \in Nat
    /\ Sources \subseteq Topics

VARIABLES
    subscriptions,  \* Gossipsub.subscriptions
    processors,     \* Gossipsub.processors
    validators,     \* pubsub: topics with a registered validator
    joined,         \* pubsub: topics that were joined
    receiving,      \* pubsub: the subscriptions it delivers to
    inFlight,       \* pubsub: messages between validation and delivery
    pubsub,         \* pubsub: its goroutine
    call,           \* how far a call of Subscribe has come
    topic,          \* the topic it is for
    cancelled,      \* subscriptions with Subscription.cancelled set
    ctxEnded,       \* the calls whose caller's context has ended
    remover,        \* how far the remover goroutine has come
    taken,          \* the processor it took from the map
    procStopped,    \* processors whose cancel was called
    run,            \* the goroutine that runs a processor
    inbox,          \* messages it has not read
    handling,       \* messages its processMessage goroutines work on
    stopPc,         \* how far Stop has come
    pending,        \* processors Stop has still to stop
    stopping,       \* the one it waits for
    raced,          \* a concurrent write of a map ended the process
    arrived         \* history: messages that arrived

maps     == <<subscriptions, processors>>
libp2p   == <<validators, joined, receiving, inFlight, pubsub>>
calls    == <<call, topic>>
ends     == <<cancelled, ctxEnded, procStopped>>
removal  == <<remover, taken>>
messages == <<run, inbox, handling, arrived>>
stop     == <<stopPc, pending, stopping>>
vars     == <<maps, libp2p, calls, ends, removal, messages, stop, raced>>

CallPcs    == {"none", "called", "join", "create", "store", "returned",
               "refused"}
RemoverPcs == {"none", "waiting", "taking", "stopping", "unregistering",
               "unlisting", "gone"}
StopPcs    == {"running", "cancelled", "subs", "procs", "waiting", "waited",
               "stopped"}

-----------------------------------------------------------------------------
\* Subscribe holds subMutex from its check to its return.
SubMutexFree == \A s \in Subs : call[s] \notin {"join", "create", "store"}

\* Variant: removeProcessor unlocks procMutex when it returns.
HoldsUntilReturn(s) ==
    remover[s] \in {"taking", "stopping", "unregistering", "unlisting"}

\* procMutex is held by a remover while it deletes, and by Stop while it
\* stops the processors.
HoldsProcMutex(s) == remover[s] = "taking"

ProcMutexFree == stopPc # "procs" /\ \A s \in Subs : ~HoldsProcMutex(s)

\* The contexts of a subscription and of its processor, both children of the
\* caller's.
SubDone(s)  == s \in cancelled \cup ctxEnded
ProcDone(s) == s \in procStopped \cup ctxEnded

Init ==
    /\ subscriptions = [t \in Topics |-> NoSub]
    /\ processors = [t \in Topics |-> NoSub]
    /\ validators = {} /\ joined = {} /\ receiving = {} /\ inFlight = {}
    /\ pubsub = "running"
    /\ call = [s \in Subs |-> "none"]
    /\ topic = [s \in Subs |-> NoTopic]
    /\ cancelled = {} /\ ctxEnded = {} /\ procStopped = {}
    /\ remover = [s \in Subs |-> "none"]
    /\ taken = [s \in Subs |-> NoSub]
    /\ run = [s \in Subs |-> "none"]
    /\ inbox = [s \in Subs |-> {}]
    /\ handling = [s \in Subs |-> {}]
    /\ stopPc = "running" /\ pending = {} /\ stopping = NoSub
    /\ raced = FALSE
    /\ arrived = 0

-----------------------------------------------------------------------------
(* Publish, Subscribe and Cancel *)

\* The old pubsub.Publish joins the topic it publishes to.
Publish(t) ==
    /\ stopPc # "stopped"
    /\ pubsub # "exited"
    /\ joined' = joined \cup {t}
    /\ UNCHANGED <<maps, validators, receiving, inFlight, pubsub, calls,
                   ends, removal, messages, stop, raced>>

\* Calls are numbered in the order they are made.
Subscribe(s, t) ==
    /\ call[s] = "none"
    /\ \A earlier \in Subs : earlier < s => call[earlier] # "none"
    /\ stopPc # "stopped"
    /\ call' = [call EXCEPT ![s] = "called"]
    /\ topic' = [topic EXCEPT ![s] = t]
    /\ UNCHANGED <<maps, libp2p, ends, removal, messages, stop, raced>>

\* The call returns an error, and nothing it did so far is taken back.
Refused(s) == call' = [call EXCEPT ![s] = "refused"]

AlreadySubscribed(t) ==
    subscriptions[t] # NoSub /\ subscriptions[t] \notin cancelled

ValidatorOf(t) == {t} \cap Validated

\* A topic has one validator at most: a second one is an error.
CheckSubscribed(s) ==
    LET t == topic[s] IN
    /\ call[s] = "called"
    /\ SubMutexFree
    /\ \/ /\ \/ AlreadySubscribed(t)
             \/ t \in Validated /\ (t \in validators \/ pubsub # "running")
          /\ Refused(s)
          /\ UNCHANGED validators
       \/ /\ ~AlreadySubscribed(t)
          /\ t \in Validated => t \notin validators /\ pubsub # "exited"
          /\ validators' = validators \cup ValidatorOf(t)
          /\ call' = [call EXCEPT ![s] = "join"]
    /\ UNCHANGED <<maps, topic, joined, receiving, inFlight, pubsub, ends, removal,
                   messages, stop, raced>>

\* Variant: a topic that was joined before is used again.
JoinReused(s) ==
    /\ call[s] = "join"
    /\ joined' = joined \cup {topic[s]}
    /\ receiving' = receiving \cup {s}
    /\ call' = [call EXCEPT ![s] = "create"]
    /\ UNCHANGED <<topic, maps, validators, inFlight, pubsub, ends, removal,
                   messages, stop, raced>>

\* Join refuses a topic that was joined before; setting the score parameters
\* or subscribing may fail after it.
JoinTopic(s) ==
    LET t == topic[s] IN
    /\ call[s] = "join"
    /\ \/ /\ t \notin joined /\ pubsub # "exited"
          /\ joined' = joined \cup {t}
          /\ \/ /\ receiving' = receiving \cup {s}
                /\ call' = [call EXCEPT ![s] = "create"]
             \/ Refused(s) /\ UNCHANGED receiving
       \/ /\ t \in joined \/ pubsub # "running"
          /\ Refused(s)
          /\ UNCHANGED <<joined, receiving>>
    /\ UNCHANGED <<maps, topic, validators, inFlight, pubsub, ends, removal,
                   messages, stop, raced>>

CreateProcessor(s) ==
    /\ call[s] = "create"
    /\ ProcMutexFree
    /\ processors' = [processors EXCEPT ![topic[s]] = s]
    /\ call' = [call EXCEPT ![s] = "store"]
    /\ UNCHANGED <<subscriptions, topic, libp2p, ends, removal,
                   messages, stop, raced>>

\* The second write of processors is made without procMutex: beside another
\* goroutine that uses the map it may end the process.
StoreSubscription(s) ==
    /\ call[s] = "store"
    /\ subscriptions' = [subscriptions EXCEPT ![topic[s]] = s]
    /\ processors' = [processors EXCEPT ![topic[s]] = s]
    /\ remover' = [remover EXCEPT ![s] = "waiting"]
    /\ run' = [run EXCEPT ![s] = "running"]
    /\ call' = [call EXCEPT ![s] = "returned"]
    /\ raced' \in {FALSE, ~ProcMutexFree}
    /\ UNCHANGED <<topic, libp2p, ends, taken, inbox, handling, arrived,
                   stop>>

Cancel(s) ==
    /\ call[s] = "returned"
    /\ s \notin cancelled
    /\ cancelled' = cancelled \cup {s}
    /\ UNCHANGED <<maps, libp2p, calls, ctxEnded, procStopped, removal,
                   messages, stop, raced>>

\* The context the caller gave to Subscribe ends; cancelled stays as it is.
EndContext(s) ==
    /\ call[s] = "returned"
    /\ s \notin ctxEnded
    /\ ctxEnded' = ctxEnded \cup {s}
    /\ UNCHANGED <<maps, libp2p, calls, cancelled, procStopped, removal,
                   messages, stop, raced>>

-----------------------------------------------------------------------------
(* Messages and the processor *)

\* libp2p looks up the validators of a message when it arrives.
PushMessage(t) ==
    /\ pubsub # "exited"
    /\ arrived < MaxMessages /\ t \in Sources
    /\ \E s \in receiving : topic[s] = t
    /\ arrived' = arrived + 1
    /\ inFlight' = inFlight \cup {[topic |-> t,
                                   checked |-> t \in Validated => t \in validators]}
    /\ UNCHANGED <<maps, validators, joined, receiving, pubsub, calls, ends,
                   removal, run, inbox, handling, stop, raced>>

DeliverMessage(m) ==
    /\ inFlight' = inFlight \ {m}
    /\ inbox' = [s \in Subs |->
                    IF s \in receiving /\ topic[s] = m.topic /\ run[s] # "exited"
                    THEN inbox[s] \cup {m.checked} ELSE inbox[s]]
    /\ UNCHANGED <<maps, validators, joined, receiving, pubsub, calls, ends,
                   removal, run, handling, arrived, stop, raced>>

RunReceive(s) ==
    /\ run[s] = "running"
    /\ \E checked \in inbox[s] :
           /\ inbox' = [inbox EXCEPT ![s] = @ \ {checked}]
           /\ handling' = [handling EXCEPT ![s] = @ \cup {checked}]
    /\ UNCHANGED <<maps, libp2p, calls, ends, removal, run, arrived, stop, raced>>

\* What it has not read, and what libp2p still delivers to it, is lost.
RunExit(s) ==
    /\ run[s] = "running"
    /\ ProcDone(s)
    /\ run' = [run EXCEPT ![s] = "exited"]
    /\ inbox' = [inbox EXCEPT ![s] = {}]
    /\ UNCHANGED <<maps, libp2p, calls, ends, removal, handling, arrived, stop,
                   raced>>

\* processMessage runs in a goroutine of its own, which nothing waits for.
HandlerReturns(s) ==
    /\ \E checked \in handling[s] :
           handling' = [handling EXCEPT ![s] = @ \ {checked}]
    /\ UNCHANGED <<maps, libp2p, calls, ends, removal, run, inbox, arrived, stop,
                   raced>>

-----------------------------------------------------------------------------
(* removeProcessor, in the goroutine of a subscription that has ended *)

\* Variant: the validator goes before the processor is stopped.
RemoverLockUnregister(s) ==
    /\ remover[s] = "waiting"
    /\ SubDone(s)
    /\ ProcMutexFree
    /\ validators' = validators \ {topic[s]}
    /\ remover' = [remover EXCEPT ![s] = "taking"]
    /\ UNCHANGED <<maps, joined, receiving, inFlight, pubsub, calls, ends,
                   taken, messages, stop, raced>>

RemoverLock(s) ==
    /\ remover[s] = "waiting"
    /\ SubDone(s)
    /\ ProcMutexFree
    /\ remover' = [remover EXCEPT ![s] = "taking"]
    /\ UNCHANGED <<maps, libp2p, calls, ends, taken, messages, stop, raced>>

\* Variant: the entry is deleted but its processor not stopped.
RemoverForgets(s) ==
    /\ remover[s] = "taking"
    /\ processors' = [processors EXCEPT ![topic[s]] = NoSub]
    /\ remover' = [remover EXCEPT ![s] = "unregistering"]
    /\ UNCHANGED <<subscriptions, libp2p, calls, ends, taken,
                   messages, stop, raced>>

\* It takes whatever processor its topic has, releases procMutex and cancels
\* what it took.
RemoverTake(s) ==
    LET proc == processors[topic[s]] IN
    /\ remover[s] = "taking"
    /\ taken' = [taken EXCEPT ![s] = proc]
    /\ processors' = [processors EXCEPT ![topic[s]] = NoSub]
    /\ procStopped' = procStopped \cup ({proc} \cap Subs)
    /\ remover' = [remover EXCEPT ![s] = IF proc = NoSub THEN "unregistering"
                                         ELSE "stopping"]
    /\ UNCHANGED <<subscriptions, libp2p, calls, cancelled, ctxEnded,
                   messages, stop, raced>>

\* The processor's goroutine has ended; its libp2p subscription is cancelled.
RemoverStopped(s) ==
    /\ remover[s] = "stopping"
    /\ run[taken[s]] # "running"
    /\ receiving' = receiving \ {taken[s]}
    /\ remover' = [remover EXCEPT ![s] = "unregistering"]
    /\ taken' = [taken EXCEPT ![s] = NoSub]
    /\ UNCHANGED <<maps, validators, joined, inFlight, pubsub, calls, ends,
                   messages, stop, raced>>

RemoverUnregister(s) ==
    /\ remover[s] = "unregistering"
    /\ \/ pubsub # "exited" /\ validators' = validators \ {topic[s]}
       \/ pubsub # "running" /\ UNCHANGED validators
    /\ remover' = [remover EXCEPT ![s] = "unlisting"]
    /\ UNCHANGED <<maps, joined, receiving, inFlight, pubsub, calls, ends,
                   taken, messages, stop, raced>>

RemoverUnlist(s) ==
    /\ remover[s] = "unlisting"
    /\ SubMutexFree
    /\ subscriptions' = [subscriptions EXCEPT ![topic[s]] = NoSub]
    /\ remover' = [remover EXCEPT ![s] = "gone"]
    /\ UNCHANGED <<processors, libp2p, calls, ends, taken, messages,
                   stop, raced>>

-----------------------------------------------------------------------------
(* Stop *)

Entries(map) == {map[t] : t \in Topics} \cap Subs

StopStep(from, to) == stopPc = from /\ stopPc' = to

StopCancel ==
    /\ StopStep("running", "cancelled")
    /\ pubsub' = "cancelled"
    /\ UNCHANGED <<maps, validators, joined, receiving, inFlight, calls,
                   ends, removal, messages, pending, stopping, raced>>

PubsubExits ==
    /\ pubsub = "cancelled"
    /\ pubsub' = "exited"
    /\ inFlight' = {}
    /\ UNCHANGED <<maps, validators, joined, receiving, calls, ends, removal,
                   messages, stop, raced>>

StopSubscriptions ==
    /\ StopStep("cancelled", "subs")
    /\ SubMutexFree
    /\ cancelled' = cancelled \cup Entries(subscriptions)
    /\ UNCHANGED <<maps, libp2p, calls, ctxEnded, procStopped, removal,
                   messages, pending, stopping, raced>>

StopLockProcessors ==
    /\ StopStep("subs", "procs")
    /\ ProcMutexFree
    /\ pending' = Entries(processors)
    /\ UNCHANGED <<maps, libp2p, calls, ends, removal, messages, stopping,
                   raced>>

StopProcessor(s) ==
    /\ stopPc = "procs"
    /\ stopping = NoSub
    /\ s \in pending
    /\ procStopped' = procStopped \cup {s}
    /\ pending' = pending \ {s}
    /\ stopping' = s
    /\ UNCHANGED <<maps, libp2p, calls, cancelled, ctxEnded, removal,
                   messages, stopPc, raced>>

StopProcessorDone ==
    /\ stopping # NoSub
    /\ run[stopping] # "running"
    /\ receiving' = receiving \ {stopping}
    /\ stopping' = NoSub
    /\ UNCHANGED <<maps, validators, joined, inFlight, pubsub, calls, ends,
                   removal, messages, stopPc, pending, raced>>

StopUnlockProcessors ==
    /\ StopStep("procs", "waiting")
    /\ pending = {} /\ stopping = NoSub
    /\ UNCHANGED <<maps, libp2p, calls, ends, removal, messages, pending,
                   stopping, raced>>

\* The WaitGroup counts the remover goroutines.
StopWait ==
    /\ StopStep("waiting", "waited")
    /\ \A s \in Subs : remover[s] \in {"none", "gone"}
    /\ UNCHANGED <<maps, libp2p, calls, ends, removal, messages, pending,
                   stopping, raced>>

StopClear ==
    /\ StopStep("waited", "stopped")
    /\ subscriptions' = [t \in Topics |-> NoSub]
    /\ processors' = [t \in Topics |-> NoSub]
    /\ UNCHANGED <<libp2p, calls, ends, removal, messages, pending,
                   stopping, raced>>

-----------------------------------------------------------------------------
Caller ==
    \/ \E t \in Topics : Publish(t) \/ PushMessage(t)
    \/ \E s \in Subs, t \in Topics : Subscribe(s, t)
    \/ \E s \in Subs : Cancel(s) \/ EndContext(s)

SubscribeCall(s) ==
    CheckSubscribed(s) \/ JoinTopic(s) \/ CreateProcessor(s) \/ StoreSubscription(s)

Remover(s) ==
    \/ RemoverLock(s) \/ RemoverTake(s) \/ RemoverStopped(s)
    \/ RemoverUnregister(s) \/ RemoverUnlist(s)

StopNext ==
    \/ StopSubscriptions \/ StopLockProcessors \/ (\E s \in Subs : StopProcessor(s))
    \/ StopProcessorDone \/ StopUnlockProcessors \/ StopWait \/ StopClear

Next ==
    /\ ~raced
    /\ \/ Caller \/ PubsubExits \/ StopCancel \/ StopNext
       \/ \E m \in inFlight : DeliverMessage(m)
       \/ \E s \in Subs : \/ SubscribeCall(s) \/ Remover(s) \/ RunReceive(s)
                          \/ RunExit(s) \/ HandlerReturns(s)

Spec == Init /\ [][Next]_vars

\* Goroutines that can go on do.  Callers owe nothing: a handler may never
\* return.  Weak fairness is enough, since the calls that compete for a mutex
\* are finitely many (Go's mutex also serves its waiters in order).
Fairness ==
    /\ WF_vars(~raced /\ PubsubExits)
    /\ WF_vars(~raced /\ StopNext)
    /\ \A s \in Subs :
           /\ WF_vars(~raced /\ SubscribeCall(s))
           /\ WF_vars(~raced /\ Remover(s))
           /\ WF_vars(~raced /\ RunExit(s))

FairSpec == Spec /\ Fairness

-----------------------------------------------------------------------------
(* Properties *)

\* Every variable has its type.
TypeOK ==
    /\ subscriptions \in [Topics -> Subs \cup {NoSub}]
    /\ processors \in [Topics -> Subs \cup {NoSub}]
    /\ validators \in SUBSET Validated
    /\ joined \in SUBSET Topics
    /\ receiving \in SUBSET Subs
    /\ inFlight \in SUBSET [topic : Topics, checked : BOOLEAN]
    /\ pubsub \in {"running", "cancelled", "exited"}
    /\ call \in [Subs -> CallPcs]
    /\ topic \in [Subs -> Topics \cup {NoTopic}]
    /\ cancelled \in SUBSET Subs
    /\ ctxEnded \in SUBSET Subs
    /\ procStopped \in SUBSET Subs
    /\ remover \in [Subs -> RemoverPcs]
    /\ taken \in [Subs -> Subs \cup {NoSub}]
    /\ run \in [Subs -> {"none", "running", "exited"}]
    /\ inbox \in [Subs -> SUBSET BOOLEAN]
    /\ handling \in [Subs -> SUBSET BOOLEAN]
    /\ stopPc \in StopPcs
    /\ pending \in SUBSET Subs
    /\ stopping \in Subs \cup {NoSub}
    /\ raced \in BOOLEAN
    /\ arrived \in 0 .. MaxMessages

\* A subscription that neither its caller nor Stop has ended is served: both
\* maps name it, its goroutine reads what libp2p delivers, and its topic's
\* validator is in place.  No remover of an earlier subscription of the topic
\* takes these away by the topic's name.
LiveServed ==
    \A s \in Subs :
        LET t == topic[s] IN
        call[s] = "returned" /\ ~SubDone(s) /\ stopPc = "running" =>
            /\ subscriptions[t] = s
            /\ processors[t] = s
            /\ run[s] = "running"
            /\ s \in receiving
            /\ t \in Validated => t \in validators

\* A processor that runs on can still be found by the goroutine that is to
\* stop it, until Stop drops the maps.
ProcessorOwned ==
    \A s \in Subs :
        run[s] = "running" /\ ~ProcDone(s) /\ stopPc # "stopped" =>
            /\ processors[topic[s]] = s
            /\ remover[s] \in {"waiting", "taking"}

\* subscription.go:375: what reaches a handler was validated, through every
\* order of registration, removal and delivery, until Stop drops the maps.
HandledChecked ==
    stopPc # "stopped" => \A s \in Subs : FALSE \notin inbox[s] \cup handling[s]

\* A subscription as its caller sees it.
Standing(s) ==
    IF call[s] \in {"none", "refused"} THEN call[s]
    ELSE IF call[s] # "returned" THEN "asked"
    ELSE IF run[s] = "exited" THEN "left"
    ELSE IF SubDone(s) \/ ProcDone(s) THEN "ended"
    ELSE "served"

Contract == INSTANCE SubscriptionContract WITH
    Calls <- Subs,
    Messages <- BOOLEAN,
    state <- [s \in Subs |-> Standing(s)]

\* Subscribe keeps the contract of a subscription: while the goroutine of one
\* call still hands out its topic's messages no other call is served the
\* topic, however Cancel, its remover and the next Subscribe interleave, and a
\* handler is given nothing once that goroutine has gone.
KeepsSubscriptionContract == Contract!Spec

\* A subscription that was cancelled is removed in the end, and its libp2p
\* subscription ended, or Stop drops the maps: Subscribe, the removers and
\* Stop take the two mutexes in no conflicting order, and wait for no handler.
CancelledRemoved ==
    []<>(\/ \A s \in cancelled : remover[s] = "gone" /\ s \notin receiving
         \/ stopPc = "stopped" \/ raced)

\* Stop returns, unless a Subscribe that libp2p still served after Stop had
\* cancelled the subscriptions made one more, which only its caller can end.
SlippedThrough ==
    /\ stopPc \notin {"running", "cancelled"}
    /\ \E s \in Subs : call[s] = "returned" /\ ~SubDone(s)
StopReturns == []<>(stopPc \in {"running", "stopped"} \/ SlippedThrough \/ raced)

-----------------------------------------------------------------------------
(* What the code says of itself, and does not keep *)

\* doc.go:361 "All public APIs are thread-safe and can be called concurrently
\* from multiple goroutines.": no two goroutines write one map at a time.
NoMapRace == ~raced
=============================================================================
