-------------------------- MODULE GossipsubProofs --------------------------
(***************************************************************************)
(* Proofs about Gossipsub, for any topics, calls and messages.             *)
(*                                                                         *)
(* What keeps the removers off each other's subscriptions, though they go  *)
(* by the topic's name, is libp2p: Join refuses a topic that was joined,   *)
(* and nothing here leaves one.  So at most one call ever gets past Join   *)
(* for a topic (OneJoined), and what is filed under the topic's name is    *)
(* its (Filed).  The validator is the one thing a call registers before    *)
(* Join; ValidatorKept says why no remover takes that one away.            *)
(*                                                                         *)
(* The same invariant shows that Gossipsub implements SubscriptionContract.*)
(***************************************************************************)
EXTENDS Gossipsub, TLAPS

-----------------------------------------------------------------------------
\* The call is past pubsub.Join: it alone has joined its topic.
Made(s) == call[s] \in {"create", "store", "returned"}

\* The call holds subMutex.
InSubscribe(s) == call[s] \in {"join", "create", "store"}

\* How far a call, its remover and its processor's goroutine are together.
CallsMatch ==
    \A s \in Subs :
        /\ call[s] # "none" => topic[s] \in Topics
        /\ Made(s) => topic[s] \in joined
        /\ remover[s] = "none" <=> call[s] # "returned"
        /\ run[s] = "none" <=> call[s] # "returned"
        /\ s \in receiving => Made(s)

\* One call is inside subMutex, and one at most ever joined a topic.
OneInside == \A s, u \in Subs : InSubscribe(s) /\ InSubscribe(u) => s = u
OneJoined == \A s, u \in Subs : Made(s) /\ Made(u) /\ topic[s] = topic[u] => s = u

\* What the maps hold is filed under its own topic.
Filed ==
    \A t \in Topics :
        /\ processors[t] # NoSub =>
               /\ call[processors[t]] \in {"store", "returned"}
               /\ topic[processors[t]] = t
        /\ subscriptions[t] # NoSub =>
               /\ call[subscriptions[t]] = "returned"
               /\ topic[subscriptions[t]] = t

\* What a subscription has filed stays until its own remover takes it.
Found ==
    stopPc # "stopped" =>
        \A s \in Subs :
            /\ call[s] = "store" \/ remover[s] \in {"waiting", "taking"} =>
                   processors[topic[s]] = s
            /\ remover[s] \notin {"none", "gone"} => subscriptions[topic[s]] = s

\* A remover runs for a subscription that has ended, and stops its processor.
RemoverSound ==
    \A s \in Subs :
        /\ remover[s] \notin {"none", "waiting"} => SubDone(s)
        /\ remover[s] = "stopping" => taken[s] = s
        /\ stopPc # "stopped" =>
               /\ remover[s] \notin {"none", "waiting", "taking"} => s \in procStopped
               /\ remover[s] \in {"unregistering", "unlisting", "gone"} => s \notin receiving

\* Before Stop nothing but its remover ends what serves a subscription.
ServedUntilStop ==
    /\ \A s \in Subs : run[s] = "exited" => ProcDone(s)
    /\ stopPc = "running" =>
        /\ stopping = NoSub
        /\ \A s \in Subs :
            /\ s \in procStopped => SubDone(s)
            /\ Made(s) /\ remover[s] \in {"none", "waiting"} => s \in receiving

\* The validator is there from its registration to its removal, which comes
\* before another call for the topic can get past its own.
ValidatorKept ==
    \A s \in Subs :
        /\ call[s] = "join" \/ (Made(s) /\ remover[s] \notin {"unlisting", "gone"}) =>
               ValidatorOf(topic[s]) \subseteq validators
        /\ \A u \in Subs :
               call[s] = "join" /\ Made(u) /\ topic[s] = topic[u] /\ topic[s] \in Validated =>
                   remover[u] \in {"unlisting", "gone"}

\* Every message on its way has been checked, until Stop drops the maps.
AllChecked ==
    stopPc # "stopped" =>
        /\ \A m \in inFlight : m.checked
        /\ \A s \in Subs : FALSE \notin inbox[s] \cup handling[s]

IInv ==
    /\ TypeOK
    /\ CallsMatch
    /\ OneInside
    /\ OneJoined
    /\ Filed
    /\ Found
    /\ RemoverSound
    /\ ServedUntilStop
    /\ ValidatorKept
    /\ AllChecked

-----------------------------------------------------------------------------
(* What callers, libp2p and the processors do *)

\* Publish joins the topic and touches nothing a subscription relies on.
LEMMA PublishKeeps ==
    ASSUME IInv, NEW t \in Topics, Publish(t) PROVE IInv'
  <1> USE DEF IInv
  <1>1. TypeOK'
    BY GossipsubAssumption DEF TypeOK, CallPcs, RemoverPcs, StopPcs, Publish, maps, calls,
       ends, removal, messages, stop
  <1>2. CallsMatch'
    BY GossipsubAssumption DEF CallsMatch, Made, TypeOK, Publish, maps, calls, ends, removal,
       messages, stop
  <1>3. OneInside' /\ OneJoined' /\ Filed' /\ Found' /\ RemoverSound' /\ ServedUntilStop' /\
     ValidatorKept' /\ AllChecked'
    BY DEF OneInside, OneJoined, Filed, Found, RemoverSound, ServedUntilStop, ValidatorKept,
       AllChecked, InSubscribe, Made, ProcDone, SubDone, ValidatorOf, Publish, maps, calls,
       ends, removal, messages, stop
  <1>4. QED  BY <1>1, <1>2, <1>3

\* A new call has nothing yet, so what is filed under its topic is another's.
LEMMA SubscribeKeeps ==
    ASSUME IInv, NEW s \in Subs, NEW t \in Topics, Subscribe(s, t) PROVE IInv'
  <1> USE DEF IInv
  <1>1. TypeOK'
    BY GossipsubAssumption DEF TypeOK, CallPcs, RemoverPcs, StopPcs, Subscribe, maps, libp2p,
       ends, removal, messages, stop
  <1>2. CallsMatch'
    BY GossipsubAssumption DEF CallsMatch, Made, TypeOK, Subscribe, maps, libp2p, ends,
       removal, messages, stop
  <1>3. OneInside'
    BY GossipsubAssumption DEF OneInside, InSubscribe, TypeOK, Subscribe, maps, libp2p, ends,
       removal, messages, stop
  <1>4. OneJoined'
    BY GossipsubAssumption DEF OneJoined, Made, TypeOK, Subscribe, maps, libp2p, ends, removal,
       messages, stop
  <1>5. Filed'
    BY GossipsubAssumption DEF Filed, TypeOK, Subscribe, maps, libp2p, ends, removal, messages,
       stop
  <1>6. Found'
    BY GossipsubAssumption DEF Found, CallsMatch, Made, TypeOK, Subscribe, maps, libp2p, ends,
       removal, messages, stop
  <1>7. ServedUntilStop'
    BY GossipsubAssumption DEF ServedUntilStop, SubDone, ProcDone, Made, TypeOK, Subscribe,
       maps, libp2p, ends, removal, messages, stop
  <1>8. ValidatorKept'
    BY GossipsubAssumption DEF ValidatorKept, Made, ValidatorOf, TypeOK, Subscribe, maps,
       libp2p, ends, removal, messages, stop
  <1>9. RemoverSound' /\ AllChecked'
    BY DEF RemoverSound, AllChecked, SubDone, Subscribe, maps, libp2p, ends, removal,
       messages, stop
  <1>10. QED  BY <1>1, <1>2, <1>3, <1>4, <1>5, <1>6, <1>7, <1>8, <1>9

-----------------------------------------------------------------------------
(* Subscribe *)

\* A call past its check holds the mutex, and a validator that no other
\* call for the topic still relies on: one that did would have kept it there.
LEMMA CheckSubscribedKeeps ==
    ASSUME IInv, NEW s \in Subs, CheckSubscribed(s) PROVE IInv'
  <1> USE DEF IInv
  <1> PICK pc \in {"refused", "join"} :
           /\ call' = [call EXCEPT ![s] = pc]
           /\ pc = "join" => ~AlreadySubscribed(topic[s])
           /\ pc = "join" /\ topic[s] \in Validated => topic[s] \notin validators
           /\ validators' = validators \cup (IF pc = "join" THEN ValidatorOf(topic[s]) ELSE {})
    BY DEF CheckSubscribed, Refused, ValidatorOf
  <1>1. TypeOK'
    BY GossipsubAssumption DEF TypeOK, CallPcs, RemoverPcs, StopPcs, CheckSubscribed, Refused,
       AlreadySubscribed, ValidatorOf, SubMutexFree, maps, ends, removal, messages, stop
  <1>2. CallsMatch'
    BY GossipsubAssumption DEF CallsMatch, Made, TypeOK, CheckSubscribed, Refused,
       AlreadySubscribed, ValidatorOf, SubMutexFree, maps, ends, removal, messages, stop
  <1>3. OneInside'
    BY GossipsubAssumption DEF OneInside, InSubscribe, TypeOK, CheckSubscribed, Refused,
       AlreadySubscribed, ValidatorOf, SubMutexFree, maps, ends, removal, messages, stop
  <1>4. OneJoined'
    BY GossipsubAssumption DEF OneJoined, Made, TypeOK, CheckSubscribed, Refused,
       AlreadySubscribed, ValidatorOf, SubMutexFree, maps, ends, removal, messages, stop
  <1>5. Filed'
    BY GossipsubAssumption DEF Filed, TypeOK, CheckSubscribed, Refused, AlreadySubscribed,
       ValidatorOf, SubMutexFree, maps, ends, removal, messages, stop
  <1>6. Found'
    BY GossipsubAssumption DEF Found, TypeOK, CheckSubscribed, Refused, AlreadySubscribed,
       ValidatorOf, SubMutexFree, maps, ends, removal, messages, stop
  <1>7. ServedUntilStop'
    BY GossipsubAssumption DEF ServedUntilStop, SubDone, ProcDone, Made, TypeOK,
       CheckSubscribed, Refused, AlreadySubscribed, ValidatorOf, SubMutexFree, maps, ends,
       removal, messages, stop
  <1>8. ValidatorKept'
    BY GossipsubAssumption DEF ValidatorKept, Made, ValidatorOf, TypeOK, CheckSubscribed,
       Refused, AlreadySubscribed, ValidatorOf, SubMutexFree, maps, ends, removal, messages,
       stop
  <1>9. RemoverSound' /\ AllChecked'
    BY DEF RemoverSound, AllChecked, SubDone, CheckSubscribed, Refused, AlreadySubscribed,
       ValidatorOf, SubMutexFree, maps, ends, removal, messages, stop
  <1>10. QED  BY <1>1, <1>2, <1>3, <1>4, <1>5, <1>6, <1>7, <1>8, <1>9

\* pubsub.Join refuses a topic that was joined: this is what makes the call
\* the only one ever to file anything under the topic.
LEMMA JoinTopicKeeps ==
    ASSUME IInv, NEW s \in Subs, JoinTopic(s) PROVE IInv'
  <1> USE DEF IInv
  <1>a. /\ call[s] = "join"
        /\ joined \subseteq joined'
        /\ joined' \subseteq joined \cup {topic[s]}
    BY DEF JoinTopic
  <1>b. PICK pc \in {"create", "refused"} :
           /\ call' = [call EXCEPT ![s] = pc]
           /\ receiving' = receiving \cup (IF pc = "create" THEN {s} ELSE {})
           /\ pc = "create" => topic[s] \notin joined /\ topic[s] \in joined'
    BY DEF JoinTopic, Refused
  <1>c. UNCHANGED <<topic, maps, validators, inFlight, pubsub, ends, removal, messages, stop,
     raced>>
    BY DEF JoinTopic
  <1>d. topic[s] \in Topics
    BY <1>a DEF CallsMatch
  <1>1. TypeOK'
    BY <1>a, <1>b, <1>c, <1>d, GossipsubAssumption DEF TypeOK, CallPcs, RemoverPcs, StopPcs,
       maps, ends, removal, messages, stop
  <1>2. CallsMatch'
    BY <1>a, <1>b, <1>c, <1>d, GossipsubAssumption DEF CallsMatch, Made, TypeOK, maps, ends,
       removal, messages, stop
  <1>3. OneInside'
    BY <1>a, <1>b, <1>c, <1>d, GossipsubAssumption DEF OneInside, InSubscribe, TypeOK, maps,
       ends, removal, messages, stop
  <1>4. OneJoined'
    BY <1>a, <1>b, <1>c, <1>d, GossipsubAssumption DEF OneJoined, Made, CallsMatch, TypeOK,
       maps, ends, removal, messages, stop
  <1>5. Filed'
    BY <1>a, <1>b, <1>c, <1>d, GossipsubAssumption DEF Filed, TypeOK, maps, ends, removal,
       messages, stop
  <1>6. Found'
    BY <1>a, <1>b, <1>c, <1>d, GossipsubAssumption DEF Found, CallsMatch, Made, TypeOK, maps,
       ends, removal, messages, stop
  <1>7. RemoverSound'
    BY <1>a, <1>b, <1>c, <1>d, GossipsubAssumption DEF RemoverSound, SubDone, CallsMatch, Made,
       TypeOK, maps, ends, removal, messages, stop
  <1>8. ServedUntilStop'
    BY <1>a, <1>b, <1>c, <1>d, GossipsubAssumption DEF ServedUntilStop, SubDone, ProcDone,
       Made, CallsMatch, TypeOK, maps, ends, removal, messages, stop
  <1>9. ValidatorKept'
    BY <1>a, <1>b, <1>c, <1>d, GossipsubAssumption DEF ValidatorKept, Made, ValidatorOf,
       CallsMatch, OneInside, InSubscribe, TypeOK, maps, ends, removal, messages, stop
  <1>10. AllChecked'
    BY <1>a, <1>b, <1>c, <1>d DEF AllChecked, maps, ends, removal, messages, stop
  <1>11. QED  BY <1>1, <1>2, <1>3, <1>4, <1>5, <1>6, <1>7, <1>8, <1>9, <1>10

\* The first write of processors, under procMutex.
LEMMA CreateProcessorKeeps ==
    ASSUME IInv, NEW s \in Subs, CreateProcessor(s) PROVE IInv'
  <1> USE DEF IInv
  <1>1. TypeOK'
    BY GossipsubAssumption DEF TypeOK, CallPcs, RemoverPcs, StopPcs, CreateProcessor, libp2p,
       ends, removal, messages, stop
  <1>2. CallsMatch'
    BY GossipsubAssumption DEF CallsMatch, Made, TypeOK, CreateProcessor, libp2p, ends,
       removal, messages, stop
  <1>3. OneInside'
    BY GossipsubAssumption DEF OneInside, InSubscribe, TypeOK, CreateProcessor, libp2p, ends,
       removal, messages, stop
  <1>4. OneJoined'
    BY GossipsubAssumption DEF OneJoined, Made, TypeOK, CreateProcessor, libp2p, ends, removal,
       messages, stop
  <1>5. Filed'
    BY GossipsubAssumption DEF Filed, TypeOK, CreateProcessor, libp2p, ends, removal, messages,
       stop
  <1>6. Found'
    BY GossipsubAssumption DEF Found, CallsMatch, OneJoined, Made, TypeOK, CreateProcessor,
       libp2p, ends, removal, messages, stop
  <1>7. ServedUntilStop'
    BY GossipsubAssumption DEF ServedUntilStop, SubDone, ProcDone, Made, TypeOK,
       CreateProcessor, libp2p, ends, removal, messages, stop
  <1>8. ValidatorKept'
    BY GossipsubAssumption DEF ValidatorKept, Made, ValidatorOf, TypeOK, CreateProcessor,
       libp2p, ends, removal, messages, stop
  <1>9. RemoverSound' /\ AllChecked'
    BY DEF RemoverSound, AllChecked, SubDone, CreateProcessor, libp2p, ends, removal,
       messages, stop
  <1>10. QED  BY <1>1, <1>2, <1>3, <1>4, <1>5, <1>6, <1>7, <1>8, <1>9

\* The second write, without procMutex: it writes what is there already.
LEMMA StoreSubscriptionKeeps ==
    ASSUME IInv, NEW s \in Subs, StoreSubscription(s) PROVE IInv'
  <1> USE DEF IInv
  <1>1. TypeOK'
    BY GossipsubAssumption DEF TypeOK, CallPcs, RemoverPcs, StopPcs, StoreSubscription, libp2p,
       ends, stop
  <1>2. CallsMatch'
    BY GossipsubAssumption DEF CallsMatch, Made, TypeOK, StoreSubscription, libp2p, ends, stop
  <1>3. OneInside'
    BY GossipsubAssumption DEF OneInside, InSubscribe, TypeOK, StoreSubscription, libp2p, ends,
       stop
  <1>4. OneJoined'
    BY GossipsubAssumption DEF OneJoined, Made, TypeOK, StoreSubscription, libp2p, ends, stop
  <1>5. Filed'
    BY GossipsubAssumption DEF Filed, TypeOK, StoreSubscription, libp2p, ends, stop
  <1>6. Found'
    BY GossipsubAssumption DEF Found, CallsMatch, OneJoined, Made, TypeOK, StoreSubscription,
       libp2p, ends, stop
  <1>7. RemoverSound'
    BY GossipsubAssumption DEF RemoverSound, SubDone, TypeOK, StoreSubscription, libp2p, ends,
       stop
  <1>8. ServedUntilStop'
    BY GossipsubAssumption DEF ServedUntilStop, SubDone, ProcDone, Made, CallsMatch, TypeOK,
       StoreSubscription, libp2p, ends, stop
  <1>9. ValidatorKept'
    BY GossipsubAssumption DEF ValidatorKept, Made, ValidatorOf, CallsMatch, OneInside,
       InSubscribe, TypeOK, StoreSubscription, libp2p, ends, stop
  <1>10. AllChecked'
    BY DEF AllChecked, StoreSubscription, libp2p, ends, stop
  <1>11. QED  BY <1>1, <1>2, <1>3, <1>4, <1>5, <1>6, <1>7, <1>8, <1>9, <1>10

\* Ending a subscription changes only whether it is done.
LEMMA CancelKeeps ==
    ASSUME IInv, NEW s \in Subs, Cancel(s) PROVE IInv'
  <1> USE DEF IInv
  <1>1. TypeOK'
    BY GossipsubAssumption DEF TypeOK, CallPcs, RemoverPcs, StopPcs, Cancel, maps, libp2p,
       calls, removal, messages, stop
  <1>2. RemoverSound'
    BY GossipsubAssumption DEF RemoverSound, SubDone, TypeOK, Cancel, maps, libp2p, calls,
       removal, messages, stop
  <1>3. ServedUntilStop'
    BY GossipsubAssumption DEF ServedUntilStop, SubDone, ProcDone, Made, TypeOK, Cancel, maps,
       libp2p, calls, removal, messages, stop
  <1>4. CallsMatch' /\ OneInside' /\ OneJoined' /\ Filed' /\ Found' /\ ValidatorKept' /\
     AllChecked'
    BY DEF CallsMatch, OneInside, OneJoined, Filed, Found, ValidatorKept, AllChecked,
       InSubscribe, Made, ValidatorOf, Cancel, maps, libp2p, calls, removal, messages, stop
  <1>5. QED  BY <1>1, <1>2, <1>3, <1>4

LEMMA EndContextKeeps ==
    ASSUME IInv, NEW s \in Subs, EndContext(s) PROVE IInv'
  <1> USE DEF IInv
  <1>1. TypeOK'
    BY GossipsubAssumption DEF TypeOK, CallPcs, RemoverPcs, StopPcs, EndContext, maps, libp2p,
       calls, removal, messages, stop
  <1>2. RemoverSound'
    BY GossipsubAssumption DEF RemoverSound, SubDone, TypeOK, EndContext, maps, libp2p, calls,
       removal, messages, stop
  <1>3. ServedUntilStop'
    BY GossipsubAssumption DEF ServedUntilStop, SubDone, ProcDone, Made, TypeOK, EndContext,
       maps, libp2p, calls, removal, messages, stop
  <1>4. CallsMatch' /\ OneInside' /\ OneJoined' /\ Filed' /\ Found' /\ ValidatorKept' /\
     AllChecked'
    BY DEF CallsMatch, OneInside, OneJoined, Filed, Found, ValidatorKept, AllChecked,
       InSubscribe, Made, ValidatorOf, EndContext, maps, libp2p, calls, removal, messages, stop
  <1>5. QED  BY <1>1, <1>2, <1>3, <1>4

\* A message that arrives for a subscription libp2p delivers to finds the
\* topic's validator in place, until Stop drops the maps.
LEMMA PushMessageKeeps ==
    ASSUME IInv, NEW t \in Topics, PushMessage(t) PROVE IInv'
  <1> USE DEF IInv
  <1> DEFINE ok == t \in Validated => t \in validators
  <1>a. ok \in BOOLEAN
    OBVIOUS
  <1>b. /\ inFlight' = inFlight \cup {[topic |-> t, checked |-> ok]}
        /\ arrived' \in 0 .. MaxMessages
    BY GossipsubAssumption DEF PushMessage, TypeOK
  <1>c. UNCHANGED <<maps, validators, joined, receiving, pubsub, calls, ends, removal, run,
                    inbox, handling, stop, raced>>
    BY DEF PushMessage
  <1>d. stopPc # "stopped" => ok
    <2>1. PICK s \in receiving : topic[s] = t
      BY DEF PushMessage
    <2>2. s \in Subs /\ Made(s) /\ (stopPc # "stopped" => remover[s] \notin {"unlisting",
       "gone"})
      BY <2>1 DEF TypeOK, CallsMatch, RemoverSound
    <2> QED  BY <2>1, <2>2 DEF ValidatorKept, ValidatorOf
  <1> HIDE DEF ok
  <1>1. TypeOK'
    BY <1>a, <1>b, <1>c, <1>d, GossipsubAssumption DEF TypeOK, CallPcs, RemoverPcs, StopPcs,
       maps, calls, ends, removal, stop
  <1>2. AllChecked'
    <2> SUFFICES ASSUME stopPc # "stopped" PROVE \A m \in inFlight' : m.checked
      BY <1>c DEF AllChecked, stop
    <2>1. ok = TRUE
      BY <1>a, <1>d
    <2>2. \A m \in inFlight' : m \in inFlight \/ m = [topic |-> t, checked |-> TRUE]
      BY <1>b, <2>1
    <2> QED  BY <2>2 DEF AllChecked
  <1>3. CallsMatch' /\ OneInside' /\ OneJoined' /\ Filed' /\ Found' /\ RemoverSound' /\
     ServedUntilStop' /\ ValidatorKept'
    BY <1>a, <1>b, <1>c, <1>d DEF CallsMatch, OneInside, OneJoined, Filed, Found, RemoverSound,
       ServedUntilStop, ValidatorKept, InSubscribe, Made, ProcDone, SubDone, ValidatorOf, maps,
       calls, ends, removal, stop
  <1>4. QED  BY <1>1, <1>2, <1>3

\* Delivery, reading and handling move a message on as it is.
LEMMA DeliverMessageKeeps ==
    ASSUME IInv, NEW m \in inFlight, DeliverMessage(m) PROVE IInv'
  <1> USE DEF IInv
  <1>1. TypeOK'
    BY GossipsubAssumption DEF TypeOK, CallPcs, RemoverPcs, StopPcs, DeliverMessage, maps,
       calls, ends, removal, stop
  <1>2. AllChecked'
    BY GossipsubAssumption DEF AllChecked, TypeOK, DeliverMessage, maps, calls, ends, removal,
       stop
  <1>3. CallsMatch' /\ OneInside' /\ OneJoined' /\ Filed' /\ Found' /\ RemoverSound' /\
     ServedUntilStop' /\ ValidatorKept'
    BY DEF CallsMatch, OneInside, OneJoined, Filed, Found, RemoverSound, ServedUntilStop,
       ValidatorKept, InSubscribe, Made, ProcDone, SubDone, ValidatorOf, DeliverMessage, maps,
       calls, ends, removal, stop
  <1>4. QED  BY <1>1, <1>2, <1>3

LEMMA RunReceiveKeeps ==
    ASSUME IInv, NEW s \in Subs, RunReceive(s) PROVE IInv'
  <1> USE DEF IInv
  <1>a. PICK checked \in inbox[s] :
           /\ inbox' = [inbox EXCEPT ![s] = @ \ {checked}]
           /\ handling' = [handling EXCEPT ![s] = @ \cup {checked}]
    BY DEF RunReceive
  <1>1. TypeOK'
    BY <1>a, GossipsubAssumption DEF TypeOK, CallPcs, RemoverPcs, StopPcs, RunReceive, maps,
       libp2p, calls, ends, removal, stop
  <1>2. AllChecked'
    <2> SUFFICES ASSUME stopPc # "stopped", NEW u \in Subs
                 PROVE  FALSE \notin inbox'[u] \cup handling'[u]
      BY DEF AllChecked, RunReceive, libp2p, stop
    <2>1. FALSE \notin inbox[u] \cup handling[u] /\ FALSE \notin inbox[s]
      BY DEF AllChecked
    <2>2. inbox'[u] \subseteq inbox[u] /\ handling'[u] \subseteq handling[u] \cup inbox[s]
      BY <1>a DEF TypeOK
    <2> QED  BY <2>1, <2>2
  <1>3. CallsMatch' /\ OneInside' /\ OneJoined' /\ Filed' /\ Found' /\ RemoverSound' /\
     ServedUntilStop' /\ ValidatorKept'
    BY <1>a DEF CallsMatch, OneInside, OneJoined, Filed, Found, RemoverSound, ServedUntilStop,
       ValidatorKept, InSubscribe, Made, ProcDone, SubDone, ValidatorOf, RunReceive, maps,
       libp2p, calls, ends, removal, stop
  <1>4. QED  BY <1>1, <1>2, <1>3

\* A processor's goroutine ends only when its context has.
LEMMA RunExitKeeps ==
    ASSUME IInv, NEW s \in Subs, RunExit(s) PROVE IInv'
  <1> USE DEF IInv
  <1>1. TypeOK'
    BY GossipsubAssumption DEF TypeOK, CallPcs, RemoverPcs, StopPcs, RunExit, maps, libp2p,
       calls, ends, removal, stop
  <1>2. CallsMatch'
    BY GossipsubAssumption DEF CallsMatch, Made, TypeOK, RunExit, maps, libp2p, calls, ends,
       removal, stop
  <1>3. ServedUntilStop'
    BY GossipsubAssumption DEF ServedUntilStop, SubDone, ProcDone, Made, TypeOK, RunExit, maps,
       libp2p, calls, ends, removal, stop
  <1>4. AllChecked'
    BY GossipsubAssumption DEF AllChecked, TypeOK, RunExit, libp2p, stop
  <1>5. OneInside' /\ OneJoined' /\ Filed' /\ Found' /\ RemoverSound' /\ ValidatorKept'
    BY DEF OneInside, OneJoined, Filed, Found, RemoverSound, ValidatorKept, InSubscribe, Made,
       SubDone, ValidatorOf, RunExit, maps, libp2p, calls, ends, removal, stop
  <1>6. QED  BY <1>1, <1>2, <1>3, <1>4, <1>5

LEMMA HandlerReturnsKeeps ==
    ASSUME IInv, NEW s \in Subs, HandlerReturns(s) PROVE IInv'
  <1> USE DEF IInv
  <1>a. PICK checked \in handling[s] :
           handling' = [handling EXCEPT ![s] = @ \ {checked}]
    BY DEF HandlerReturns
  <1>1. TypeOK'
    BY <1>a, GossipsubAssumption DEF TypeOK, CallPcs, RemoverPcs, StopPcs, HandlerReturns,
       maps, libp2p, calls, ends, removal, stop
  <1>2. AllChecked'
    BY <1>a, GossipsubAssumption DEF AllChecked, TypeOK, HandlerReturns, maps, libp2p, calls,
       ends, removal, stop
  <1>3. CallsMatch' /\ OneInside' /\ OneJoined' /\ Filed' /\ Found' /\ RemoverSound' /\
     ServedUntilStop' /\ ValidatorKept'
    BY <1>a DEF CallsMatch, OneInside, OneJoined, Filed, Found, RemoverSound, ServedUntilStop,
       ValidatorKept, InSubscribe, Made, ProcDone, SubDone, ValidatorOf, HandlerReturns, maps,
       libp2p, calls, ends, removal, stop
  <1>4. QED  BY <1>1, <1>2, <1>3

-----------------------------------------------------------------------------
(* The remover *)

\* It starts for a subscription whose context has ended.
LEMMA RemoverLockKeeps ==
    ASSUME IInv, NEW s \in Subs, RemoverLock(s) PROVE IInv'
  <1> USE DEF IInv
  <1>1. TypeOK'
    BY GossipsubAssumption DEF TypeOK, CallPcs, RemoverPcs, StopPcs, RemoverLock, maps, libp2p,
       calls, ends, messages, stop
  <1>2. CallsMatch'
    BY GossipsubAssumption DEF CallsMatch, Made, TypeOK, RemoverLock, maps, libp2p, calls,
       ends, messages, stop
  <1>3. Found'
    BY GossipsubAssumption DEF Found, TypeOK, RemoverLock, maps, libp2p, calls, ends, messages,
       stop
  <1>4. RemoverSound'
    BY GossipsubAssumption DEF RemoverSound, SubDone, TypeOK, RemoverLock, maps, libp2p, calls,
       ends, messages, stop
  <1>5. ServedUntilStop'
    BY GossipsubAssumption DEF ServedUntilStop, SubDone, ProcDone, Made, TypeOK, RemoverLock,
       maps, libp2p, calls, ends, messages, stop
  <1>6. ValidatorKept'
    BY GossipsubAssumption DEF ValidatorKept, Made, ValidatorOf, TypeOK, RemoverLock, maps,
       libp2p, calls, ends, messages, stop
  <1>7. OneInside' /\ OneJoined' /\ Filed' /\ AllChecked'
    BY DEF OneInside, OneJoined, Filed, AllChecked, InSubscribe, Made, RemoverLock, maps,
       libp2p, calls, ends, messages, stop
  <1>8. QED  BY <1>1, <1>2, <1>3, <1>4, <1>5, <1>6, <1>7

\* The entry it finds under the topic's name is its own subscription's, or,
\* after Stop dropped the maps, nothing.
LEMMA RemoverTakeKeeps ==
    ASSUME IInv, NEW s \in Subs, RemoverTake(s) PROVE IInv'
  <1> USE DEF IInv
  <1> DEFINE proc == processors[topic[s]]
  <1>a. /\ remover[s] = "taking" /\ call[s] = "returned"
        /\ topic[s] \in Topics
    BY DEF RemoverTake, CallsMatch
  <1>b. proc \in {NoSub, s} /\ (stopPc # "stopped" => proc = s)
    <2>1. proc \in Subs \cup {NoSub}
      BY <1>a DEF TypeOK
    <2>2. proc # NoSub => proc \in Subs /\ Made(proc) /\ topic[proc] = topic[s]
      BY <1>a, <2>1 DEF Filed, Made
    <2>3. proc # NoSub => proc = s
      BY <1>a, <2>2 DEF OneJoined, Made
    <2>4. stopPc # "stopped" => proc = s
      BY <1>a DEF Found
    <2> QED  BY <2>3, <2>4
  <1>c. PICK pc \in {"unregistering", "stopping"} :
        /\ taken' = [taken EXCEPT ![s] = proc]
        /\ processors' = [processors EXCEPT ![topic[s]] = NoSub]
        /\ procStopped' = procStopped \cup ({proc} \cap Subs)
        /\ remover' = [remover EXCEPT ![s] = pc]
        /\ pc = "stopping" <=> proc # NoSub
        /\ UNCHANGED <<subscriptions, libp2p, calls, cancelled, ctxEnded, messages, stop,
           raced>>
    BY DEF RemoverTake
  <1> HIDE DEF proc
  <1>1. TypeOK'
    BY <1>a, <1>b, <1>c, GossipsubAssumption DEF TypeOK, CallPcs, RemoverPcs, StopPcs, libp2p,
       calls, messages, stop
  <1>2. CallsMatch'
    BY <1>a, <1>b, <1>c, GossipsubAssumption DEF CallsMatch, Made, TypeOK, libp2p, calls,
       messages, stop
  <1>3. Filed'
    BY <1>a, <1>b, <1>c, GossipsubAssumption DEF Filed, TypeOK, libp2p, calls, messages, stop
  <1>4. Found'
    BY <1>a, <1>b, <1>c, GossipsubAssumption DEF Found, CallsMatch, OneJoined, Made, TypeOK,
       libp2p, calls, messages, stop
  <1>5. RemoverSound'
    BY <1>a, <1>b, <1>c, GossipsubAssumption DEF RemoverSound, SubDone, CallsMatch, OneJoined,
       Filed, Found, Made, TypeOK, libp2p, calls, messages, stop
  <1>6. ServedUntilStop'
    BY <1>a, <1>b, <1>c, GossipsubAssumption DEF ServedUntilStop, SubDone, ProcDone, Made,
       CallsMatch, OneJoined, Filed, Made, RemoverSound, TypeOK, libp2p, calls, messages, stop
  <1>7. ValidatorKept'
    BY <1>a, <1>b, <1>c, GossipsubAssumption DEF ValidatorKept, Made, ValidatorOf, TypeOK,
       libp2p, calls, messages, stop
  <1>8. OneInside' /\ OneJoined' /\ AllChecked'
    BY <1>a, <1>b, <1>c DEF OneInside, OneJoined, AllChecked, InSubscribe, Made, libp2p, calls,
       messages, stop
  <1>9. QED  BY <1>1, <1>2, <1>3, <1>4, <1>5, <1>6, <1>7, <1>8

\* It ends the libp2p subscription of its own processor.
LEMMA RemoverStoppedKeeps ==
    ASSUME IInv, NEW s \in Subs, RemoverStopped(s) PROVE IInv'
  <1> USE DEF IInv
  <1>1. TypeOK'
    BY GossipsubAssumption DEF TypeOK, CallPcs, RemoverPcs, StopPcs, RemoverStopped, maps,
       calls, ends, messages, stop
  <1>2. CallsMatch'
    BY GossipsubAssumption DEF CallsMatch, Made, TypeOK, RemoverStopped, maps, calls, ends,
       messages, stop
  <1>3. Found'
    BY GossipsubAssumption DEF Found, TypeOK, RemoverStopped, maps, calls, ends, messages, stop
  <1>4. RemoverSound'
    BY GossipsubAssumption DEF RemoverSound, SubDone, TypeOK, RemoverStopped, maps, calls,
       ends, messages, stop
  <1>5. ServedUntilStop'
    BY GossipsubAssumption DEF ServedUntilStop, SubDone, ProcDone, Made, RemoverSound, TypeOK,
       RemoverStopped, maps, calls, ends, messages, stop
  <1>6. ValidatorKept'
    BY GossipsubAssumption DEF ValidatorKept, Made, ValidatorOf, TypeOK, RemoverStopped, maps,
       calls, ends, messages, stop
  <1>7. OneInside' /\ OneJoined' /\ Filed' /\ AllChecked'
    BY DEF OneInside, OneJoined, Filed, AllChecked, InSubscribe, Made, RemoverStopped, maps,
       calls, ends, messages, stop
  <1>8. QED  BY <1>1, <1>2, <1>3, <1>4, <1>5, <1>6, <1>7

\* The validator it unregisters serves no other subscription.
LEMMA RemoverUnregisterKeeps ==
    ASSUME IInv, NEW s \in Subs, RemoverUnregister(s) PROVE IInv'
  <1> USE DEF IInv
  <1>1. TypeOK'
    BY GossipsubAssumption DEF TypeOK, CallPcs, RemoverPcs, StopPcs, RemoverUnregister, maps,
       calls, ends, messages, stop
  <1>2. CallsMatch'
    BY GossipsubAssumption DEF CallsMatch, Made, TypeOK, RemoverUnregister, maps, calls, ends,
       messages, stop
  <1>3. Found'
    BY GossipsubAssumption DEF Found, TypeOK, RemoverUnregister, maps, calls, ends, messages,
       stop
  <1>4. RemoverSound'
    BY GossipsubAssumption DEF RemoverSound, SubDone, TypeOK, RemoverUnregister, maps, calls,
       ends, messages, stop
  <1>5. ServedUntilStop'
    BY GossipsubAssumption DEF ServedUntilStop, SubDone, ProcDone, Made, TypeOK,
       RemoverUnregister, maps, calls, ends, messages, stop
  <1>6. ValidatorKept'
    BY GossipsubAssumption DEF ValidatorKept, Made, ValidatorOf, CallsMatch, OneJoined, TypeOK,
       RemoverUnregister, maps, calls, ends, messages, stop
  <1>7. OneInside' /\ OneJoined' /\ Filed' /\ AllChecked'
    BY DEF OneInside, OneJoined, Filed, AllChecked, InSubscribe, Made, RemoverUnregister,
       maps, calls, ends, messages, stop
  <1>8. QED  BY <1>1, <1>2, <1>3, <1>4, <1>5, <1>6, <1>7

\* The subscription it deletes is its own.
LEMMA RemoverUnlistKeeps ==
    ASSUME IInv, NEW s \in Subs, RemoverUnlist(s) PROVE IInv'
  <1> USE DEF IInv
  <1>1. TypeOK'
    BY GossipsubAssumption DEF TypeOK, CallPcs, RemoverPcs, StopPcs, RemoverUnlist, libp2p,
       calls, ends, messages, stop
  <1>2. CallsMatch'
    BY GossipsubAssumption DEF CallsMatch, Made, TypeOK, RemoverUnlist, libp2p, calls, ends,
       messages, stop
  <1>3. Filed'
    BY GossipsubAssumption DEF Filed, TypeOK, RemoverUnlist, libp2p, calls, ends, messages, stop
  <1>4. Found'
    BY GossipsubAssumption DEF Found, TypeOK, RemoverUnlist, libp2p, calls, ends, messages, stop
  <1>5. RemoverSound'
    BY GossipsubAssumption DEF RemoverSound, SubDone, TypeOK, RemoverUnlist, libp2p, calls,
       ends, messages, stop
  <1>6. ServedUntilStop'
    BY GossipsubAssumption DEF ServedUntilStop, SubDone, ProcDone, Made, TypeOK, RemoverUnlist,
       libp2p, calls, ends, messages, stop
  <1>7. ValidatorKept'
    BY GossipsubAssumption DEF ValidatorKept, Made, ValidatorOf, TypeOK, RemoverUnlist, libp2p,
       calls, ends, messages, stop
  <1>8. OneInside' /\ OneJoined' /\ AllChecked'
    BY DEF OneInside, OneJoined, AllChecked, InSubscribe, Made, RemoverUnlist, libp2p, calls,
       ends, messages, stop
  <1>9. QED  BY <1>1, <1>2, <1>3, <1>4, <1>5, <1>6, <1>7, <1>8

-----------------------------------------------------------------------------
(* Stop *)

\* Until here nothing was cancelled; from here the weaker facts suffice.
LEMMA StopCancelKeeps ==
    ASSUME IInv, StopCancel PROVE IInv'
  <1> USE DEF IInv
  <1>1. TypeOK'
    BY GossipsubAssumption DEF TypeOK, CallPcs, RemoverPcs, StopPcs, StopCancel, StopStep,
       maps, calls, ends, removal, messages
  <1>2. Found'
    BY GossipsubAssumption DEF Found, TypeOK, StopCancel, StopStep, maps, calls, ends, removal,
       messages
  <1>3. RemoverSound'
    BY GossipsubAssumption DEF RemoverSound, SubDone, TypeOK, StopCancel, StopStep, maps,
       calls, ends, removal, messages
  <1>4. ServedUntilStop'
    BY GossipsubAssumption DEF ServedUntilStop, SubDone, ProcDone, Made, TypeOK, StopCancel,
       StopStep, maps, calls, ends, removal, messages
  <1>5. AllChecked'
    BY GossipsubAssumption DEF AllChecked, TypeOK, StopCancel, StopStep, maps, calls, ends,
       removal, messages
  <1>6. CallsMatch' /\ OneInside' /\ OneJoined' /\ Filed' /\ ValidatorKept'
    BY DEF CallsMatch, OneInside, OneJoined, Filed, ValidatorKept, InSubscribe, Made,
       ValidatorOf, StopCancel, StopStep, maps, calls, ends, removal, messages
  <1>7. QED  BY <1>1, <1>2, <1>3, <1>4, <1>5, <1>6

\* libp2p drops what was in flight.
LEMMA PubsubExitsKeeps ==
    ASSUME IInv, PubsubExits PROVE IInv'
  <1> USE DEF IInv
  <1>1. TypeOK'
    BY GossipsubAssumption DEF TypeOK, CallPcs, RemoverPcs, StopPcs, PubsubExits, maps, calls,
       ends, removal, messages, stop
  <1>2. AllChecked'
    BY GossipsubAssumption DEF AllChecked, TypeOK, PubsubExits, maps, calls, ends, removal,
       messages, stop
  <1>3. CallsMatch' /\ OneInside' /\ OneJoined' /\ Filed' /\ Found' /\ RemoverSound' /\
     ServedUntilStop' /\ ValidatorKept'
    BY DEF CallsMatch, OneInside, OneJoined, Filed, Found, RemoverSound, ServedUntilStop,
       ValidatorKept, InSubscribe, Made, ProcDone, SubDone, ValidatorOf, PubsubExits, maps,
       calls, ends, removal, messages, stop
  <1>4. QED  BY <1>1, <1>2, <1>3

\* Stop cancels subscriptions and stops processors, and drops the maps last.
LEMMA StopSubscriptionsKeeps ==
    ASSUME IInv, StopSubscriptions PROVE IInv'
  <1> USE DEF IInv
  <1>1. TypeOK'
    BY GossipsubAssumption DEF TypeOK, CallPcs, RemoverPcs, StopPcs, StopSubscriptions,
       StopStep, Entries, maps, libp2p, calls, removal, messages
  <1>2. Found'
    BY GossipsubAssumption DEF Found, TypeOK, StopSubscriptions, StopStep, Entries, maps,
       libp2p, calls, removal, messages
  <1>3. RemoverSound'
    BY GossipsubAssumption DEF RemoverSound, SubDone, TypeOK, StopSubscriptions, StopStep,
       Entries, maps, libp2p, calls, removal, messages
  <1>4. ServedUntilStop'
    BY GossipsubAssumption DEF ServedUntilStop, SubDone, ProcDone, Made, TypeOK,
       StopSubscriptions, StopStep, Entries, maps, libp2p, calls, removal, messages
  <1>5. AllChecked'
    BY GossipsubAssumption DEF AllChecked, TypeOK, StopSubscriptions, StopStep, Entries, maps,
       libp2p, calls, removal, messages
  <1>6. CallsMatch' /\ OneInside' /\ OneJoined' /\ Filed' /\ ValidatorKept'
    BY DEF CallsMatch, OneInside, OneJoined, Filed, ValidatorKept, InSubscribe, Made,
       ValidatorOf, StopSubscriptions, StopStep, Entries, maps, libp2p, calls, removal,
       messages
  <1>7. QED  BY <1>1, <1>2, <1>3, <1>4, <1>5, <1>6

LEMMA StopLockProcessorsKeeps ==
    ASSUME IInv, StopLockProcessors PROVE IInv'
  <1> USE DEF IInv
  <1>1. TypeOK'
    BY GossipsubAssumption DEF TypeOK, CallPcs, RemoverPcs, StopPcs, StopLockProcessors,
       StopStep, Entries, maps, libp2p, calls, ends, removal, messages
  <1>2. Found'
    BY GossipsubAssumption DEF Found, TypeOK, StopLockProcessors, StopStep, Entries, maps,
       libp2p, calls, ends, removal, messages
  <1>3. RemoverSound'
    BY GossipsubAssumption DEF RemoverSound, SubDone, TypeOK, StopLockProcessors, StopStep,
       Entries, maps, libp2p, calls, ends, removal, messages
  <1>4. ServedUntilStop'
    BY GossipsubAssumption DEF ServedUntilStop, SubDone, ProcDone, Made, TypeOK,
       StopLockProcessors, StopStep, Entries, maps, libp2p, calls, ends, removal, messages
  <1>5. AllChecked'
    BY GossipsubAssumption DEF AllChecked, TypeOK, StopLockProcessors, StopStep, Entries, maps,
       libp2p, calls, ends, removal, messages
  <1>6. CallsMatch' /\ OneInside' /\ OneJoined' /\ Filed' /\ ValidatorKept'
    BY DEF CallsMatch, OneInside, OneJoined, Filed, ValidatorKept, InSubscribe, Made,
       ValidatorOf, StopLockProcessors, StopStep, Entries, maps, libp2p, calls, ends, removal,
       messages
  <1>7. QED  BY <1>1, <1>2, <1>3, <1>4, <1>5, <1>6

LEMMA StopProcessorKeeps ==
    ASSUME IInv, NEW s \in Subs, StopProcessor(s) PROVE IInv'
  <1> USE DEF IInv
  <1>1. TypeOK'
    BY GossipsubAssumption DEF TypeOK, CallPcs, RemoverPcs, StopPcs, StopProcessor, maps,
       libp2p, calls, removal, messages
  <1>2. RemoverSound'
    BY GossipsubAssumption DEF RemoverSound, SubDone, TypeOK, StopProcessor, maps, libp2p,
       calls, removal, messages
  <1>3. ServedUntilStop'
    BY GossipsubAssumption DEF ServedUntilStop, SubDone, ProcDone, Made, TypeOK, StopProcessor,
       maps, libp2p, calls, removal, messages
  <1>4. CallsMatch' /\ OneInside' /\ OneJoined' /\ Filed' /\ Found' /\ ValidatorKept' /\
     AllChecked'
    BY DEF CallsMatch, OneInside, OneJoined, Filed, Found, ValidatorKept, AllChecked,
       InSubscribe, Made, ValidatorOf, StopProcessor, maps, libp2p, calls, removal, messages
  <1>5. QED  BY <1>1, <1>2, <1>3, <1>4

LEMMA StopProcessorDoneKeeps ==
    ASSUME IInv, StopProcessorDone PROVE IInv'
  <1> USE DEF IInv
  <1>1. TypeOK'
    BY GossipsubAssumption DEF TypeOK, CallPcs, RemoverPcs, StopPcs, StopProcessorDone, maps,
       calls, ends, removal, messages
  <1>2. CallsMatch'
    BY GossipsubAssumption DEF CallsMatch, Made, TypeOK, StopProcessorDone, maps, calls, ends,
       removal, messages
  <1>3. RemoverSound'
    BY GossipsubAssumption DEF RemoverSound, SubDone, TypeOK, StopProcessorDone, maps, calls,
       ends, removal, messages
  <1>4. ServedUntilStop'
    BY GossipsubAssumption DEF ServedUntilStop, SubDone, ProcDone, Made, TypeOK,
       StopProcessorDone, maps, calls, ends, removal, messages
  <1>5. OneInside' /\ OneJoined' /\ Filed' /\ Found' /\ ValidatorKept' /\ AllChecked'
    BY DEF OneInside, OneJoined, Filed, Found, ValidatorKept, AllChecked, InSubscribe, Made,
       ValidatorOf, StopProcessorDone, maps, calls, ends, removal, messages
  <1>6. QED  BY <1>1, <1>2, <1>3, <1>4, <1>5

LEMMA StopUnlockProcessorsKeeps ==
    ASSUME IInv, StopUnlockProcessors PROVE IInv'
  <1> USE DEF IInv
  <1>1. TypeOK'
    BY GossipsubAssumption DEF TypeOK, CallPcs, RemoverPcs, StopPcs, StopUnlockProcessors,
       StopStep, maps, libp2p, calls, ends, removal, messages
  <1>2. Found'
    BY GossipsubAssumption DEF Found, TypeOK, StopUnlockProcessors, StopStep, maps, libp2p,
       calls, ends, removal, messages
  <1>3. RemoverSound'
    BY GossipsubAssumption DEF RemoverSound, SubDone, TypeOK, StopUnlockProcessors, StopStep,
       maps, libp2p, calls, ends, removal, messages
  <1>4. ServedUntilStop'
    BY GossipsubAssumption DEF ServedUntilStop, SubDone, ProcDone, Made, TypeOK,
       StopUnlockProcessors, StopStep, maps, libp2p, calls, ends, removal, messages
  <1>5. AllChecked'
    BY GossipsubAssumption DEF AllChecked, TypeOK, StopUnlockProcessors, StopStep, maps,
       libp2p, calls, ends, removal, messages
  <1>6. CallsMatch' /\ OneInside' /\ OneJoined' /\ Filed' /\ ValidatorKept'
    BY DEF CallsMatch, OneInside, OneJoined, Filed, ValidatorKept, InSubscribe, Made,
       ValidatorOf, StopUnlockProcessors, StopStep, maps, libp2p, calls, ends, removal,
       messages
  <1>7. QED  BY <1>1, <1>2, <1>3, <1>4, <1>5, <1>6

LEMMA StopWaitKeeps ==
    ASSUME IInv, StopWait PROVE IInv'
  <1> USE DEF IInv
  <1>1. TypeOK'
    BY GossipsubAssumption DEF TypeOK, CallPcs, RemoverPcs, StopPcs, StopWait, StopStep, maps,
       libp2p, calls, ends, removal, messages
  <1>2. Found'
    BY GossipsubAssumption DEF Found, TypeOK, StopWait, StopStep, maps, libp2p, calls, ends,
       removal, messages
  <1>3. RemoverSound'
    BY GossipsubAssumption DEF RemoverSound, SubDone, TypeOK, StopWait, StopStep, maps, libp2p,
       calls, ends, removal, messages
  <1>4. ServedUntilStop'
    BY GossipsubAssumption DEF ServedUntilStop, SubDone, ProcDone, Made, TypeOK, StopWait,
       StopStep, maps, libp2p, calls, ends, removal, messages
  <1>5. AllChecked'
    BY GossipsubAssumption DEF AllChecked, TypeOK, StopWait, StopStep, maps, libp2p, calls,
       ends, removal, messages
  <1>6. CallsMatch' /\ OneInside' /\ OneJoined' /\ Filed' /\ ValidatorKept'
    BY DEF CallsMatch, OneInside, OneJoined, Filed, ValidatorKept, InSubscribe, Made,
       ValidatorOf, StopWait, StopStep, maps, libp2p, calls, ends, removal, messages
  <1>7. QED  BY <1>1, <1>2, <1>3, <1>4, <1>5, <1>6

LEMMA StopClearKeeps ==
    ASSUME IInv, StopClear PROVE IInv'
  <1> USE DEF IInv
  <1>1. TypeOK'
    BY GossipsubAssumption DEF TypeOK, CallPcs, RemoverPcs, StopPcs, StopClear, StopStep,
       libp2p, calls, ends, removal, messages
  <1>2. Filed'
    BY GossipsubAssumption DEF Filed, TypeOK, StopClear, StopStep, libp2p, calls, ends,
       removal, messages
  <1>3. Found'
    BY GossipsubAssumption DEF Found, TypeOK, StopClear, StopStep, libp2p, calls, ends,
       removal, messages
  <1>4. RemoverSound'
    BY GossipsubAssumption DEF RemoverSound, SubDone, TypeOK, StopClear, StopStep, libp2p,
       calls, ends, removal, messages
  <1>5. ServedUntilStop'
    BY GossipsubAssumption DEF ServedUntilStop, SubDone, ProcDone, Made, TypeOK, StopClear,
       StopStep, libp2p, calls, ends, removal, messages
  <1>6. AllChecked'
    BY GossipsubAssumption DEF AllChecked, TypeOK, StopClear, StopStep, libp2p, calls, ends,
       removal, messages
  <1>7. CallsMatch' /\ OneInside' /\ OneJoined' /\ ValidatorKept'
    BY DEF CallsMatch, OneInside, OneJoined, ValidatorKept, InSubscribe, Made, ValidatorOf,
       StopClear, StopStep, libp2p, calls, ends, removal, messages
  <1>8. QED  BY <1>1, <1>2, <1>3, <1>4, <1>5, <1>6, <1>7

-----------------------------------------------------------------------------
(* The theorems *)

LEMMA InitHolds == Init => IInv
  <1> SUFFICES ASSUME Init PROVE IInv
    OBVIOUS
  <1> USE GossipsubAssumption DEF Init
  <1>1. TypeOK
    <2>1. /\ inbox \in [Subs -> SUBSET BOOLEAN] /\ handling \in [Subs -> SUBSET BOOLEAN]
          /\ inFlight \in SUBSET [topic : Topics, checked : BOOLEAN]
      OBVIOUS
    <2>2. raced \in BOOLEAN
      OBVIOUS
    <2> QED  BY <2>1, <2>2 DEF TypeOK, CallPcs, RemoverPcs, StopPcs
  <1>2. CallsMatch /\ OneInside /\ OneJoined
    BY DEF CallsMatch, OneInside, OneJoined, Made, InSubscribe
  <1>3. Filed /\ Found
    BY DEF Filed, Found
  <1>4. RemoverSound /\ ServedUntilStop
    BY DEF RemoverSound, ServedUntilStop, Made
  <1>5. ValidatorKept
    BY DEF ValidatorKept, Made
  <1>6. AllChecked
    BY DEF AllChecked
  <1> QED  BY <1>1, <1>2, <1>3, <1>4, <1>5, <1>6 DEF IInv

LEMMA StutterKeeps == ASSUME IInv, UNCHANGED vars PROVE IInv'
  <1> USE DEF vars, maps, libp2p, calls, ends, removal, messages, stop, IInv
  <1>1. TypeOK'
    BY DEF TypeOK
  <1>2. CallsMatch' /\ OneInside' /\ OneJoined'
    BY DEF CallsMatch, OneInside, OneJoined, Made, InSubscribe
  <1>3. Filed' /\ Found'
    BY DEF Filed, Found
  <1>4. RemoverSound' /\ ServedUntilStop'
    BY DEF RemoverSound, ServedUntilStop, SubDone, ProcDone, Made
  <1>5. ValidatorKept' /\ AllChecked'
    BY DEF ValidatorKept, Made, ValidatorOf, AllChecked
  <1> QED  BY <1>1, <1>2, <1>3, <1>4, <1>5

\* Every step keeps the inductive invariant.
LEMMA NextKeeps == IInv /\ [Next]_vars => IInv'
  <1> SUFFICES ASSUME IInv, [Next]_vars PROVE IInv'
    OBVIOUS
  <1>1. CASE Caller
    BY <1>1, PublishKeeps, PushMessageKeeps, SubscribeKeeps, CancelKeeps, EndContextKeeps
    DEF Caller
  <1>2. CASE PubsubExits
    BY <1>2, PubsubExitsKeeps
  <1>3. CASE StopCancel
    BY <1>3, StopCancelKeeps
  <1>4. CASE StopNext
    BY <1>4, StopSubscriptionsKeeps, StopLockProcessorsKeeps, StopProcessorKeeps,
       StopProcessorDoneKeeps, StopUnlockProcessorsKeeps, StopWaitKeeps, StopClearKeeps
    DEF StopNext
  <1>5. ASSUME NEW m \in inFlight, DeliverMessage(m) PROVE IInv'
    BY <1>5, DeliverMessageKeeps
  <1>6. ASSUME NEW s \in Subs, SubscribeCall(s) PROVE IInv'
    BY <1>6, CheckSubscribedKeeps, JoinTopicKeeps, CreateProcessorKeeps, StoreSubscriptionKeeps
    DEF SubscribeCall
  <1>7. ASSUME NEW s \in Subs, Remover(s) PROVE IInv'
    BY <1>7, RemoverLockKeeps, RemoverTakeKeeps, RemoverStoppedKeeps, RemoverUnregisterKeeps,
       RemoverUnlistKeeps
    DEF Remover
  <1>8. ASSUME NEW s \in Subs, RunReceive(s) \/ RunExit(s) \/ HandlerReturns(s) PROVE IInv'
    BY <1>8, RunReceiveKeeps, RunExitKeeps, HandlerReturnsKeeps
  <1>9. CASE UNCHANGED vars
    BY <1>9, StutterKeeps
  <1> QED  BY <1>1, <1>2, <1>3, <1>4, <1>5, <1>6, <1>7, <1>8, <1>9 DEF Next

\* The inductive invariant holds in every reachable state.
THEOREM SpecInv == Spec => []IInv
  <1>1. Init => IInv
    BY InitHolds
  <1>2. IInv /\ [Next]_vars => IInv'
    BY NextKeeps
  <1> QED  BY <1>1, <1>2, PTL DEF Spec

\* Every variable keeps its type.
THEOREM TypeCorrect == Spec => []TypeOK
  <1>1. IInv => TypeOK
    BY DEF IInv
  <1> QED  BY <1>1, SpecInv, PTL

\* Whatever calls, removers and deliveries interleave, a subscription that
\* neither its caller nor Stop has ended is in both maps, its goroutine runs,
\* libp2p delivers to it and its topic's validator is registered
\* (gossipsub.go: Subscribe, removeProcessor).
THEOREM LiveIsServed == Spec => []LiveServed
  <1>1. IInv => LiveServed
    <2> SUFFICES ASSUME IInv, NEW s \in Subs, call[s] = "returned", ~SubDone(s), stopPc = "running"
                 PROVE  /\ subscriptions[topic[s]] = s /\ processors[topic[s]] = s
                        /\ run[s] = "running" /\ s \in receiving
                        /\ topic[s] \in Validated => topic[s] \in validators
      BY DEF LiveServed
    <2>1. remover[s] = "waiting"
      BY DEF IInv, CallsMatch, RemoverSound
    <2>2. subscriptions[topic[s]] = s /\ processors[topic[s]] = s
      BY <2>1 DEF IInv, Found
    <2>3. ~ProcDone(s)
      BY DEF IInv, ServedUntilStop, SubDone, ProcDone
    <2>4. run[s] = "running"
      BY <2>3 DEF IInv, TypeOK, CallsMatch, ServedUntilStop
    <2>5. s \in receiving
      BY <2>1 DEF IInv, ServedUntilStop, Made
    <2>6. topic[s] \in Validated => topic[s] \in validators
      BY <2>1 DEF IInv, ValidatorKept, ValidatorOf, Made
    <2> QED  BY <2>2, <2>4, <2>5, <2>6
  <1> QED  BY <1>1, SpecInv, PTL

\* A processor that runs on stays where its remover, or Stop, finds it.
THEOREM RunningIsOwned == Spec => []ProcessorOwned
  <1>1. IInv => ProcessorOwned
    <2> SUFFICES ASSUME IInv, NEW s \in Subs, run[s] = "running", ~ProcDone(s), stopPc # "stopped"
                 PROVE  processors[topic[s]] = s /\ remover[s] \in {"waiting", "taking"}
      BY DEF ProcessorOwned
    <2>1. remover[s] # "none" /\ s \notin procStopped
      BY DEF IInv, CallsMatch, ProcDone
    <2>2. remover[s] \in {"waiting", "taking"}
      BY <2>1 DEF IInv, RemoverSound
    <2> QED  BY <2>2 DEF IInv, Found
  <1> QED  BY <1>1, SpecInv, PTL

\* No handler is given a message its topic's validator has not seen, in any
\* order of registration, removal and delivery (subscription.go:375).
THEOREM OnlyCheckedHandled == Spec => []HandledChecked
  <1>1. IInv => HandledChecked
    BY DEF IInv, AllChecked, HandledChecked
  <1> QED  BY <1>1, SpecInv, PTL

-----------------------------------------------------------------------------
(* The refinement of SubscriptionContract *)

LEMMA SameStanding ==
    ASSUME UNCHANGED <<call, topic, run, handling, ends>>
    PROVE  UNCHANGED Contract!vars
  BY DEF Contract!vars, Standing, SubDone, ProcDone, ends

\* A step that moves one call, and ends none, moves no other in the contract.
LEMMA OneMoves ==
    ASSUME NEW c \in Subs,
           \A s \in Subs \ {c} : call'[s] = call[s] /\ run'[s] = run[s],
           UNCHANGED ends
    PROVE  [s \in Subs |-> Standing(s)]' =
               [[s \in Subs |-> Standing(s)] EXCEPT ![c] = Standing(c)']
<1>1. \A s \in Subs \ {c} : Standing(s)' = Standing(s)
  BY DEF Standing, SubDone, ProcDone, ends
<1> QED
  BY <1>1

LEMMA Stays ==
    ASSUME NEW c \in Subs,
           \A s \in Subs \ {c} : call'[s] = call[s] /\ run'[s] = run[s],
           UNCHANGED <<ends, topic, handling>>,
           Standing(c)' = Standing(c)
    PROVE  UNCHANGED Contract!vars
<1>1. \A s \in Subs \ {c} : Standing(s)' = Standing(s)
  BY DEF Standing, SubDone, ProcDone, ends
<1> QED
  BY <1>1 DEF Contract!vars

LEMMA Moves ==
    ASSUME NEW c \in Subs,
           \A s \in Subs \ {c} : call'[s] = call[s] /\ run'[s] = run[s],
           UNCHANGED <<ends, handling>>,
           \/ /\ Standing(c) = "none" /\ Standing(c)' = "asked"
              /\ \E t \in Topics : topic' = [topic EXCEPT ![c] = t]
           \/ /\ Standing(c) = "asked" /\ Standing(c)' = "refused"
              /\ UNCHANGED topic
           \/ /\ Standing(c) = "asked" /\ Standing(c)' \in {"served", "ended"}
              /\ \A d \in Subs : Standing(d) \in {"served", "ended"} =>
                                     topic[d] # topic[c]
              /\ UNCHANGED topic
           \/ /\ Standing(c) = "ended" /\ Standing(c)' = "left"
              /\ UNCHANGED topic
    PROVE  Contract!Next
<1> DEFINE state == [s \in Subs |-> Standing(s)]
<1>1. state' = [state EXCEPT ![c] = Standing(c)']
  BY OneMoves
<1>2. \A s \in Subs : state[s] = Standing(s)
  OBVIOUS
<1> HIDE DEF state
<1>3. \/ \E t \in Topics : Contract!Ask(c, t)
      \/ Contract!Refuse(c) \/ Contract!Serve(c) \/ Contract!Leave(c)
  <2>1. CASE /\ Standing(c) = "none" /\ Standing(c)' = "asked"
             /\ \E t \in Topics : topic' = [topic EXCEPT ![c] = t]
    BY <1>1, <1>2, <2>1 DEF state, Contract!Ask
  <2>2. CASE Standing(c) = "asked" /\ Standing(c)' = "refused" /\ UNCHANGED topic
    BY <1>1, <1>2, <2>2 DEF state, Contract!Refuse
  <2>3. CASE /\ Standing(c) = "asked" /\ Standing(c)' \in {"served", "ended"}
             /\ \A d \in Subs : Standing(d) \in {"served", "ended"} =>
                                    topic[d] # topic[c]
             /\ UNCHANGED topic
    BY <1>1, <1>2, <2>3 DEF state, Contract!Serve, Contract!Served
  <2>4. CASE Standing(c) = "ended" /\ Standing(c)' = "left" /\ UNCHANGED topic
    BY <1>1, <1>2, <2>4 DEF state, Contract!Leave
  <2> QED
    BY <2>1, <2>2, <2>3, <2>4
<1> QED
  BY <1>3 DEF Contract!Next

\* A step that only ends subscriptions.
LEMMA Ends ==
    ASSUME UNCHANGED <<call, topic, run, handling>>,
           cancelled \subseteq cancelled', ctxEnded \subseteq ctxEnded',
           procStopped \subseteq procStopped'
    PROVE  Contract!Next
<1> DEFINE cs == {s \in Subs : Standing(s) = "served" /\ Standing(s)' = "ended"}
           state == [s \in Subs |-> Standing(s)]
<1>1. \A s \in Subs \ cs : Standing(s)' = Standing(s)
  BY DEF Standing, SubDone, ProcDone
<1>2. \A s \in cs : Standing(s) = "served" /\ Standing(s)' = "ended"
  OBVIOUS
<1>3. cs \in SUBSET Subs
  OBVIOUS
<1> HIDE DEF cs
<1>4. state' = [s \in Subs |-> IF s \in cs THEN "ended" ELSE state[s]]
  BY <1>1, <1>2
<1>5. \A s \in cs : state[s] = "served"
  BY <1>2, <1>3
<1>6. Contract!End(cs)
  BY <1>4, <1>5 DEF Contract!End
<1> QED
  BY <1>3, <1>6 DEF Contract!Next

\* The call that is served its topic finds it free: one call at most is past
\* Join for a topic.
LEMMA StoreServes ==
    ASSUME IInv, NEW s \in Subs, StoreSubscription(s)
    PROVE  Contract!Next
<1> USE DEF IInv, TypeOK, StoreSubscription, ends
<1>1. \A d \in Subs : Standing(d) \in {"served", "ended"} => topic[d] # topic[s]
  <2>1. \A d \in Subs : Standing(d) \in {"served", "ended"} => call[d] = "returned"
    BY DEF Standing
  <2> QED
    BY <2>1 DEF OneJoined, Made
<1>2. Standing(s) = "asked" /\ Standing(s)' \in {"served", "ended"}
  BY DEF Standing, CallPcs
<1>3. \A d \in Subs \ {s} : call'[d] = call[d] /\ run'[d] = run[d]
  OBVIOUS
<1> QED
  BY <1>1, <1>2, <1>3, Moves

LEMMA NextContract ==
    ASSUME IInv, [Next]_vars
    PROVE  [Contract!Next]_Contract!vars
<1> USE DEF IInv, TypeOK, CallPcs, maps, libp2p, calls, ends, removal, messages, stop
<1>1. ASSUME NEW s \in Subs, NEW t \in Topics, Subscribe(s, t) PROVE Contract!Next
  BY <1>1, Moves DEF Subscribe, Standing
<1>2. ASSUME NEW s \in Subs, CheckSubscribed(s)
      PROVE  [Contract!Next]_Contract!vars
  <2>1. CASE Refused(s)
    BY <1>2, <2>1, Moves DEF CheckSubscribed, Refused, Standing
  <2>2. CASE call' = [call EXCEPT ![s] = "join"]
    BY <1>2, <2>2, Stays DEF CheckSubscribed, Standing
  <2> QED
    BY <1>2, <2>1, <2>2 DEF CheckSubscribed
<1>3. ASSUME NEW s \in Subs, JoinTopic(s)
      PROVE  [Contract!Next]_Contract!vars
  <2>1. CASE Refused(s)
    BY <1>3, <2>1, Moves DEF JoinTopic, Refused, Standing
  <2>2. CASE call' = [call EXCEPT ![s] = "create"]
    BY <1>3, <2>2, Stays DEF JoinTopic, Standing
  <2> QED
    BY <1>3, <2>1, <2>2 DEF JoinTopic
<1>4. ASSUME NEW s \in Subs, CreateProcessor(s) PROVE UNCHANGED Contract!vars
  BY <1>4, Stays DEF CreateProcessor, Standing
<1>5. ASSUME NEW s \in Subs,
             Cancel(s) \/ EndContext(s) \/ RemoverTake(s) \/ StopProcessor(s)
      PROVE  Contract!Next
  BY <1>5, Ends DEF Cancel, EndContext, RemoverTake, StopProcessor
<1>6. ASSUME StopSubscriptions PROVE Contract!Next
  BY <1>6, Ends DEF StopSubscriptions, StopStep
<1>7. ASSUME NEW s \in Subs, RunExit(s) PROVE Contract!Next
  <2>1. Standing(s) = "ended" /\ Standing(s)' = "left"
    BY <1>7 DEF RunExit, Standing, CallsMatch
  <2> QED
    BY <1>7, <2>1, Moves DEF RunExit
<1>8. ASSUME NEW s \in Subs, RunReceive(s) PROVE Contract!Next
  <2>1. Standing(s) \in {"served", "ended"}
    BY <1>8 DEF RunReceive, Standing, CallsMatch
  <2>2. PICK m \in inbox[s] : handling' = [handling EXCEPT ![s] = @ \cup {m}]
    BY <1>8 DEF RunReceive
  <2>3. UNCHANGED <<[u \in Subs |-> Standing(u)], topic>>
    BY <1>8 DEF RunReceive, Standing, SubDone, ProcDone
  <2>4. Contract!Handle(s, m)
    BY <2>1, <2>2, <2>3 DEF Contract!Handle, Contract!Served
  <2>5. m \in BOOLEAN
    OBVIOUS
  <2> QED
    BY <2>4, <2>5 DEF Contract!Next
<1>9. ASSUME NEW s \in Subs, HandlerReturns(s) PROVE Contract!Next
  <2>1. PICK m \in handling[s] : handling' = [handling EXCEPT ![s] = @ \ {m}]
    BY <1>9 DEF HandlerReturns
  <2>2. m \in BOOLEAN
    OBVIOUS
  <2>3. UNCHANGED <<[u \in Subs |-> Standing(u)], topic>>
    BY <1>9 DEF HandlerReturns, Standing, SubDone, ProcDone
  <2>4. Contract!Finish(s, m)
    BY <2>1, <2>3 DEF Contract!Finish
  <2> QED
    BY <2>2, <2>4 DEF Contract!Next
<1>10. ASSUME NEW s \in Subs,
              \/ RemoverLock(s) \/ RemoverStopped(s) \/ RemoverUnregister(s)
              \/ RemoverUnlist(s)
       PROVE  UNCHANGED Contract!vars
  BY <1>10, SameStanding
     DEF RemoverLock, RemoverStopped, RemoverUnregister, RemoverUnlist
<1>11. ASSUME \/ StopCancel \/ PubsubExits \/ StopLockProcessors
              \/ StopProcessorDone \/ StopUnlockProcessors \/ StopWait \/ StopClear
       PROVE  UNCHANGED Contract!vars
  BY <1>11, SameStanding
     DEF StopStep, StopCancel, PubsubExits, StopLockProcessors, StopProcessorDone,
         StopUnlockProcessors, StopWait, StopClear
<1>12. ASSUME NEW t \in Topics, Publish(t) \/ PushMessage(t)
       PROVE  UNCHANGED Contract!vars
  BY <1>12, SameStanding DEF Publish, PushMessage
<1>13. ASSUME NEW m \in inFlight, DeliverMessage(m) PROVE UNCHANGED Contract!vars
  BY <1>13, SameStanding DEF DeliverMessage
<1>14. ASSUME UNCHANGED vars PROVE UNCHANGED Contract!vars
  BY <1>14, SameStanding DEF vars
<1> QED
  BY <1>1, <1>2, <1>3, StoreServes, <1>4, <1>5, <1>6, <1>7, <1>8, <1>9, <1>10,
     <1>11, <1>12, <1>13, <1>14
     DEF Next, Caller, StopNext, SubscribeCall, Remover

\* The refinement: for any topics, calls and messages, each subscription is
\* refused, or served its topic alone until its goroutine has gone, and hands
\* out nothing after (gossipsub.go: Subscribe, removeProcessor, Stop;
\* subscription.go: Cancel and the processor's loop).
THEOREM ContractKept == Spec => KeepsSubscriptionContract
<1>1. Init => Contract!Init
  BY DEF Init, Contract!Init, Standing
<1>2. IInv /\ [Next]_vars => [Contract!Next]_Contract!vars
  BY NextContract
<1> QED
  BY SpecInv, <1>1, <1>2, PTL DEF Spec, KeepsSubscriptionContract, Contract!Spec
=============================================================================
