------------------------ MODULE SubscriptionContract ------------------------
(***************************************************************************)
(* What a subscription promises, without maps, mutexes and goroutines: a   *)
(* call for a topic is refused or served; a topic is served to one call at *)
(* a time; the handler is given messages from the moment the topic is      *)
(* served until it is left, which follows an end that cannot be taken      *)
(* back; and no message is handed over after that, whatever handlers still *)
(* run.                                                                    *)
(***************************************************************************)
CONSTANTS Calls,     \* calls of Subscribe
          Topics,    \* topics they are for
          NoTopic,   \* the topic of a call not made
          Messages   \* what a handler can be given

VARIABLES state,     \* where each call stands
          topic,     \* the topic it is for
          handling   \* what its handlers work on

vars == <<state, topic, handling>>

Init == /\ state = [c \in Calls |-> "none"]
        /\ topic = [c \in Calls |-> NoTopic]
        /\ handling = [c \in Calls |-> {}]

Ask(c, t) == /\ state[c] = "none"
             /\ state' = [state EXCEPT ![c] = "asked"]
             /\ topic' = [topic EXCEPT ![c] = t]
             /\ UNCHANGED handling

Refuse(c) == /\ state[c] = "asked"
             /\ state' = [state EXCEPT ![c] = "refused"]
             /\ UNCHANGED <<topic, handling>>

Served(c) == state[c] \in {"served", "ended"}

\* The end may come first: Stop does not wait for a call under way.
Serve(c) == /\ state[c] = "asked"
            /\ \A d \in Calls : Served(d) => topic[d] # topic[c]
            /\ \E now \in {"served", "ended"} :
                   state' = [state EXCEPT ![c] = now]
            /\ UNCHANGED <<topic, handling>>

\* One call's caller ends it, or Stop ends several.
End(cs) == /\ \A c \in cs : state[c] = "served"
           /\ state' = [c \in Calls |-> IF c \in cs THEN "ended" ELSE state[c]]
           /\ UNCHANGED <<topic, handling>>

Leave(c) == /\ state[c] = "ended"
            /\ state' = [state EXCEPT ![c] = "left"]
            /\ UNCHANGED <<topic, handling>>

Handle(c, m) == /\ Served(c)
                /\ handling' = [handling EXCEPT ![c] = @ \cup {m}]
                /\ UNCHANGED <<state, topic>>

Finish(c, m) == /\ m \in handling[c]
                /\ handling' = [handling EXCEPT ![c] = @ \ {m}]
                /\ UNCHANGED <<state, topic>>

Next == \/ \E cs \in SUBSET Calls : End(cs)
        \/ \E c \in Calls :
               \/ \E t \in Topics : Ask(c, t)
               \/ Refuse(c) \/ Serve(c) \/ Leave(c)
               \/ \E m \in Messages : Handle(c, m) \/ Finish(c, m)

Spec == Init /\ [][Next]_vars
=============================================================================
