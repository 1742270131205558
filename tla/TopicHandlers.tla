----------------------------- MODULE TopicHandlers -----------------------------
(***************************************************************************)
(* What lies around the subscriptions of Gossipsub v1: the registry that   *)
(* maps topics and subnet patterns to handlers, the names of the topics,   *)
(* the way of one message through a handler, and SubnetSubscription, the   *)
(* set of subnet subscriptions that a caller keeps beside the Gossipsub.   *)
(* Every operation of the registry and of the set holds its mutex from     *)
(* beginning to end, so each is one action.  Subscribing itself, with its  *)
(* goroutines, is the module Gossipsub's.                                  *)
(***************************************************************************)
EXTENDS Integers, SequencesExt

CONSTANTS
    Patterns,       \* the subnet patterns: records of a prefix and a suffix
    MaxSubnets,     \* the number of subnets of each pattern
    PlainTopics,    \* the names of topics without a subnet
    Digests,        \* fork digests, as a part of a topic's name
    NumberOf,       \* the value of the words that are numbers
    Configs,        \* the handlers offered, as sets of options
    Subs,           \* subscription handles
    Nil             \* no handle, no handler, no digest

Unbounded == 1000       \* the maximum of uint64, beyond every number here

ASSUME PatternsAssumption == Patterns \subseteq [prefix : Seq(STRING), suffix : Seq(STRING)]
ASSUME MaxSubnetsAssumption == MaxSubnets \in Nat \ {0}
ASSUME ConfigsAssumption ==
    Configs \subseteq SUBSET {"encoder", "decoder", "compressor", "validator", "processor"}
\* ParseUint takes what a uint64 holds, and every subnet has a word.
ASSUME NumbersAssumption ==
    /\ DOMAIN NumberOf \subseteq STRING
    /\ NumberOf \in [DOMAIN NumberOf -> 0 .. Unbounded - 1]
    /\ \A n \in 0 .. MaxSubnets - 1 : \E w \in DOMAIN NumberOf : NumberOf[w] = n
ASSUME PlainTopicsAssumption == PlainTopics \subseteq Seq(STRING)
\* Add refuses a nil subscription.
ASSUME SubsAssumption == Nil \notin Subs

VARIABLES
    handlers,       \* Registry.handlers: a registered handler or Nil
    subnetHandlers, \* Registry.subnetHandlers
    message,        \* a message on its way through the handler of its topic
    subscriptions,  \* SubnetSubscription.subscriptions
    cancelled,      \* the subscriptions that Cancel was called on
    added,          \* (history) the subscriptions the set has held
    displaced       \* (history) those that a Set has put another handle, or nil, for

vars == <<handlers, subnetHandlers, message, subscriptions, cancelled, added, displaced>>
setVars == <<subscriptions, cancelled, added, displaced>>

Subnets == 0 .. MaxSubnets - 1
NoMessage == [stage |-> "none", handler |-> Nil, valid |-> TRUE, reports |-> 0]

-----------------------------------------------------------------------------
(* Names.  A name is a fork digest, Nil when it has no /eth2/ wrapping,    *)
(* and the words of its base name.                                         *)

Name(digest, base) == [digest |-> digest, base |-> base]

WordOf(n) == CHOOSE w \in DOMAIN NumberOf : NumberOf[w] = n

\* TopicForSubnet, for a subnet below the maximum, with its fork digest.
TopicForSubnet(p, n, digest) == Name(digest, p.prefix \o <<WordOf(n)>> \o p.suffix)

\* A ParseSubnet that looks at names without wrapping only.
ParseUnwrapped(p, max, name) ==
    LET words == IF name.digest = Nil THEN name.base ELSE <<name.digest>> \o name.base
    IN  IF /\ IsPrefix(p.prefix, words) /\ IsSuffix(p.suffix, words)
           /\ Len(words) = Len(p.prefix) + Len(p.suffix) + 1
           /\ words[Len(p.prefix) + 1] \in DOMAIN NumberOf
          THEN NumberOf[words[Len(p.prefix) + 1]]
          ELSE -1

\* Words that have the prefix and the suffix, each with its "_", but no word
\* between them: the "_", or more, is part of both.
Overlaps(p, words) ==
    /\ IsPrefix(p.prefix, words) /\ Len(p.prefix) < Len(words)
    /\ IsSuffix(p.suffix, words) /\ Len(p.suffix) < Len(words)
    /\ Len(words) <= Len(p.prefix) + Len(p.suffix)

Panics == -2

\* ParseSubnet: the wrapping is stripped, the prefix and the suffix must be
\* there, and what is between them must be a number below max; else an error.
\* Where the two overlap, the slice between them has a negative length.
ParseSubnet(p, max, name) ==
    LET words == name.base
        at == Len(p.prefix) + 1
    IN  IF Overlaps(p, words) THEN Panics
        ELSE IF /\ IsPrefix(p.prefix, words) /\ IsSuffix(p.suffix, words)
                /\ Len(words) = Len(p.prefix) + Len(p.suffix) + 1
                /\ words[at] \in DOMAIN NumberOf /\ NumberOf[words[at]] < max
          THEN NumberOf[words[at]]
          ELSE -1

-----------------------------------------------------------------------------
(* The registry. *)

\* HandlerConfig.Validate.
Validate(c) ==
    /\ {"validator", "processor"} \cap c # {}
    /\ {"encoder", "decoder"} \cap c # {}

\* The handler that Register stores: wrapDecoder makes a decoder of the encoder
\* when there is none, and wrapEncoder makes an encoder in any case.
Wrap(c) == c \cup {"encoder"} \cup (IF "encoder" \in c THEN {"decoder"} ELSE {})

\* Register refuses an invalid handler and a topic that has one.
Register(t, c) ==
    /\ Validate(c) /\ handlers[t] = Nil
    /\ handlers' = [handlers EXCEPT ![t] = Wrap(c)]
    /\ UNCHANGED <<subnetHandlers, message, setVars>>

RegisterSubnet(p, c) ==
    /\ Validate(c) /\ subnetHandlers[p] = Nil
    /\ subnetHandlers' = [subnetHandlers EXCEPT ![p] = Wrap(c)]
    /\ UNCHANGED <<handlers, message, setVars>>

ClearRegistry ==
    /\ handlers' = [t \in DOMAIN handlers |-> Nil]
    /\ subnetHandlers' = [p \in Patterns |-> Nil]
    /\ UNCHANGED <<message, setVars>>

(***************************************************************************)
(* GetHandler: the exact name first, then any pattern that parses it, in   *)
(* the order of a map iteration: the set of the handlers it may return,    *)
(* with Panicked when it may come to a pattern that panics first.          *)
(***************************************************************************)
Panicked == {"panic"}

GetHandler(name) ==
    LET Parsing(outcome) == {q \in Patterns : /\ subnetHandlers[q] # Nil
                                              /\ ParseSubnet(q, Unbounded, name) \in outcome}
    IN  IF name \in DOMAIN handlers /\ handlers[name] # Nil THEN {handlers[name]}
        ELSE {subnetHandlers[p] : p \in Parsing(0 .. Unbounded)}
             \cup {Panicked : p \in Parsing({Panics})}

-----------------------------------------------------------------------------
(* A message of a subscribed topic.  Its handler is the one the topic had  *)
(* when it was subscribed, whatever happens to the registry afterwards.    *)

Topics ==
    {Name(d, base) : d \in Digests, base \in PlainTopics} \cup
    {TopicForSubnet(p, n, d) : p \in Patterns, n \in Subnets, d \in Digests}

\* valid: the payload decompresses and decodes.
Arrive(t, valid) ==
    /\ message.stage = "none"
    /\ \E h \in GetHandler(t) \ {Panicked} :
         message' = [stage |-> IF "validator" \in h THEN "validate" ELSE "process",
                     handler |-> h, valid |-> valid, reports |-> 0]
    /\ UNCHANGED <<handlers, subnetHandlers, setVars>>

\* decoder, or encoder.Decode when there is none: a wrapped nil encoder panics.
CanDecode(h) == "decoder" \in h

\* A validator that lets libp2p have what it cannot decode.
VerdictPassing(m) == {"process", "done"}

\* What the libp2p validator makes of a message: rejected when it cannot be
\* decoded, else what the handler's validator says.
Verdict(m) == IF m.valid THEN {"process", "done"} ELSE {"done"}

\* createLibp2pValidator.  A payload that does not decompress or decode is
\* told to the global invalid payload handler.
ValidateMessage ==
    /\ message.stage = "validate"
    /\ \E next \in Verdict(message) :
         message' = [message EXCEPT !.stage = next,
                                    !.reports = IF message.valid THEN @ ELSE @ + 1]
    /\ UNCHANGED <<handlers, subnetHandlers, setVars>>

\* processMessage decompresses and decodes it again and calls the processor.
ProcessMessage ==
    /\ message.stage = "process"
    /\ message' = [message EXCEPT !.stage = "done",
                                  !.reports = IF message.valid THEN @ ELSE @ + 1]
    /\ UNCHANGED <<handlers, subnetHandlers, setVars>>

Forget ==
    /\ message.stage = "done" /\ message' = NoMessage
    /\ UNCHANGED <<handlers, subnetHandlers, setVars>>

-----------------------------------------------------------------------------
(* SubnetSubscription. *)

Cancel(s) ==
    /\ s \notin cancelled /\ cancelled' = cancelled \cup {s}
    /\ UNCHANGED <<handlers, subnetHandlers, message, subscriptions, added, displaced>>

Held(n) == {subscriptions[n]} \ {Nil}

\* An Add that only replaces.
AddReplacing(n, s) ==
    /\ n < MaxSubnets
    /\ subscriptions' = [subscriptions EXCEPT ![n] = s]
    /\ added' = added \cup {s}
    /\ UNCHANGED <<handlers, subnetHandlers, message, cancelled, displaced>>

\* Add cancels the subscription it replaces.
Add(n, s) ==
    /\ n < MaxSubnets
    /\ cancelled' = cancelled \cup Held(n)
    /\ subscriptions' = [subscriptions EXCEPT ![n] = s]
    /\ added' = added \cup {s}
    /\ UNCHANGED <<handlers, subnetHandlers, message, displaced>>

RemoveSubnet(n) ==
    /\ subscriptions[n] # Nil
    /\ cancelled' = cancelled \cup Held(n)
    /\ subscriptions' = [subscriptions EXCEPT ![n] = Nil]
    /\ UNCHANGED <<handlers, subnetHandlers, message, added, displaced>>

\* The subscriptions of subnets that the new map does not name are cancelled.
\* One whose subnet it does name, with another handle or with nil, is dropped
\* as it is.
Set(named, new) ==
    /\ cancelled' = cancelled \cup UNION {Held(n) : n \in Subnets \ named}
    /\ subscriptions' = [n \in Subnets |-> IF n \in named THEN new[n] ELSE Nil]
    /\ added' = added \cup ({new[n] : n \in named} \ {Nil})
    /\ displaced' = displaced \cup UNION {Held(n) \ {new[n]} : n \in named}
    /\ UNCHANGED <<handlers, subnetHandlers, message>>

Clear ==
    /\ cancelled' = cancelled \cup UNION {Held(n) : n \in Subnets}
    /\ subscriptions' = [n \in Subnets |-> Nil]
    /\ UNCHANGED <<handlers, subnetHandlers, message, added, displaced>>

\* Active: the snapshot that a caller sees.
Active == {n \in Subnets : subscriptions[n] # Nil /\ subscriptions[n] \notin cancelled}

-----------------------------------------------------------------------------
Init ==
    /\ handlers = [t \in {Name(d, base) : d \in Digests, base \in PlainTopics} |-> Nil]
    /\ subnetHandlers = [p \in Patterns |-> Nil]
    /\ message = NoMessage
    /\ subscriptions = [n \in Subnets |-> Nil]
    /\ cancelled = {} /\ added = {} /\ displaced = {}

Next ==
    \/ \E t \in DOMAIN handlers, c \in Configs : Register(t, c)
    \/ \E p \in Patterns, c \in Configs : RegisterSubnet(p, c)
    \/ ClearRegistry
    \/ \E t \in Topics, valid \in BOOLEAN : Arrive(t, valid)
    \/ ValidateMessage \/ ProcessMessage \/ Forget
    \/ \E s \in Subs : Cancel(s)
    \/ \E n \in Subnets, s \in Subs : Add(n, s)
    \/ \E n \in Subnets : RemoveSubnet(n)
    \/ \E named \in SUBSET Subnets : \E new \in [named -> Subs \cup {Nil}] : Set(named, new)
    \/ Clear

Spec == Init /\ [][Next]_vars

-----------------------------------------------------------------------------
(* Properties. *)

\* The patterns and the plain topics do not get in each other's way: no base
\* name of one is of the shape of another, nor of one in which the prefix and
\* the suffix of another overlap, as they do for "a_%d_1_b" in the name "a_1_b"
\* of "a_%d_b".
Shape(p) == {p.prefix \o <<w>> \o p.suffix : w \in DOMAIN NumberOf}
Separate ==
    /\ \A p, q \in Patterns : p # q =>
         \A base \in Shape(p) : base \notin Shape(q) /\ ~Overlaps(q, base)
    /\ \A base \in PlainTopics, p \in Patterns :
         base \notin Shape(p) /\ ~Overlaps(p, base)

(***************************************************************************)
(* The topic of a subnet finds the handler of its own pattern and no       *)
(* other, in whatever order the patterns are tried, and its name parses    *)
(* back to its subnet; a topic without subnet finds its own handler or     *)
(* none; and neither lookup panics (registry.go 126-152, topic.go 75-137). *)
(***************************************************************************)
HandlerChosen ==
    /\ \A p \in Patterns, n \in Subnets, d \in Digests :
         LET t == TopicForSubnet(p, n, d)
         IN  /\ GetHandler(t) = {subnetHandlers[p]} \ {Nil}
             /\ ParseSubnet(p, MaxSubnets, t) = n
    /\ \A t \in DOMAIN handlers : GetHandler(t) = {handlers[t]} \ {Nil}

(***************************************************************************)
(* "Returns nil if no handler is found" (registry.go 125): a lookup of a   *)
(* plain topic comes back, with a handler or without one.                  *)
(***************************************************************************)
LookupReturns == \A t \in DOMAIN handlers : Panicked \notin GetHandler(t)

(***************************************************************************)
(* "No decoder available - this should not happen if handler was           *)
(* validated" (subscription.go 355): a message at a handler can be         *)
(* decoded, whatever options the handler was registered with.              *)
(***************************************************************************)
DecoderThere == message.stage \in {"validate", "process"} => CanDecode(message.handler)

(***************************************************************************)
(* An invalid payload is reported to the global handler exactly once, by   *)
(* the validator or by the processor, and a valid one never, although both *)
(* decode the message (gossipsub.go 532-591, subscription.go 326-373).     *)
(***************************************************************************)
InvalidReportedOnce ==
    message.stage = "done" => message.reports = IF message.valid THEN 0 ELSE 1

(***************************************************************************)
(* A subscription that has left the set was cancelled, but for those that  *)
(* a Set put another handle for (subscription.go 93-168, 196-209): Add,    *)
(* Remove, Clear and the absent subnets of Set leave none running.         *)
(***************************************************************************)
LeftCancelled ==
    added \ {subscriptions[n] : n \in Subnets} \subseteq cancelled \cup displaced
=============================================================================
