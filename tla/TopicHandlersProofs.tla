------------------------- MODULE TopicHandlersProofs -------------------------
(***************************************************************************)
(* TopicHandlers for any patterns, handlers and subscriptions.             *)
(*                                                                         *)
(* A handler that is registered passed Validate and was wrapped, so it has *)
(* a decoder (Registered), and so has the handler of a message under way,  *)
(* which outlives the registry's clearing (Carried).  A message is         *)
(* reported where it ends, and one that is not valid ends at its first     *)
(* decoding (Counted).  A handle that was in the set is still there, or    *)
(* cancelled, or displaced by a Set (LeftCancelled itself is inductive).   *)
(*                                                                         *)
(* That the right handler is found is a fact about names: a name encloses  *)
(* a number between the prefix and the suffix of one pattern only.         *)
(***************************************************************************)
EXTENDS TopicHandlers, SequenceTheorems, TLAPS

\* What Register can store.
Stored == {Wrap(c) : c \in {d \in Configs : Validate(d)}}

Registered ==
    /\ handlers \in [{Name(d, base) : d \in Digests, base \in PlainTopics} -> Stored \cup {Nil}]
    /\ subnetHandlers \in [Patterns -> Stored \cup {Nil}]

Carried ==
    \/ message = NoMessage
    \/ message \in [stage : {"validate", "process", "done"}, handler : Stored,
                    valid : BOOLEAN, reports : Nat]

Counted == message.reports = IF message.stage = "done" /\ ~message.valid THEN 1 ELSE 0

Handles == /\ subscriptions \in [Subnets -> Subs \cup {Nil}]
           /\ Nil \notin added
           /\ LeftCancelled

IInv == Registered /\ Carried /\ Counted /\ Handles

\* What the registry stores can be decoded with: Validate wants an encoder or a
\* decoder, and Wrap makes a decoder of the encoder.
LEMMA StoredDecodes == \A h \in Stored : CanDecode(h)
  BY DEF Stored, Wrap, Validate, CanDecode

LEMMA InitInv == Init => IInv
<1> SUFFICES ASSUME Init PROVE IInv
  OBVIOUS
<1>1. Registered
  BY DEF Init, Registered
<1>2. Carried /\ Counted
  BY DEF Init, Carried, Counted, NoMessage
<1>3. Handles
  BY DEF Init, Handles, LeftCancelled
<1> QED
  BY <1>1, <1>2, <1>3 DEF IInv

\* What GetHandler returns was registered.
LEMMA HandlerStored ==
    ASSUME Registered, NEW t, NEW h \in GetHandler(t) \ {Panicked}
    PROVE  h \in Stored
  BY DEF Registered, GetHandler

LEMMA MessageInv ==
    ASSUME IInv,
           \/ \E t \in Topics, valid \in BOOLEAN : Arrive(t, valid)
           \/ ValidateMessage \/ ProcessMessage \/ Forget
    PROVE  IInv'
<1>1. (Registered /\ Handles)'
  <2>1. UNCHANGED <<handlers, subnetHandlers, subscriptions, cancelled, added, displaced>>
    BY DEF Arrive, ValidateMessage, ProcessMessage, Forget, setVars
  <2> QED
    BY <2>1 DEF IInv, Registered, Handles, LeftCancelled
<1>2. CASE \E t \in Topics, valid \in BOOLEAN : Arrive(t, valid)
  <2>1. PICK t \in Topics, valid \in BOOLEAN : Arrive(t, valid)
    BY <1>2
  <2>2. PICK h \in GetHandler(t) \ {Panicked} :
          message' = [stage |-> IF "validator" \in h THEN "validate" ELSE "process",
                      handler |-> h, valid |-> valid, reports |-> 0]
    BY <2>1 DEF Arrive
  <2>3. h \in Stored
    BY <2>2, HandlerStored DEF IInv
  <2>4. (Carried /\ Counted)'
    BY <2>2, <2>3 DEF Carried, Counted
  <2> QED
    BY <1>1, <2>4 DEF IInv
<1>3. CASE ValidateMessage \/ ProcessMessage
  <2>1. message \in [stage : {"validate", "process"}, handler : Stored,
                     valid : BOOLEAN, reports : Nat]
        /\ message.reports = 0
    <3>1. message.stage \in {"validate", "process"}
      BY <1>3 DEF ValidateMessage, ProcessMessage
    <3>2. message # NoMessage
      BY <3>1 DEF NoMessage
    <3> QED
      BY <3>1, <3>2 DEF IInv, Carried, Counted
  <2>2. PICK next \in {"process", "done"} :
          /\ message' = [message EXCEPT !.stage = next,
                                        !.reports = IF message.valid THEN @ ELSE @ + 1]
          /\ ~message.valid => next = "done"
    BY <1>3 DEF ValidateMessage, ProcessMessage, Verdict
  <2>3. /\ message'.stage = next /\ message'.handler = message.handler
        /\ message'.valid = message.valid
        /\ message'.reports = IF message.valid THEN 0 ELSE 1
    BY <2>1, <2>2
  <2>4. message' \in [stage : {"validate", "process", "done"}, handler : Stored,
                      valid : BOOLEAN, reports : Nat]
    <3>1. message' = [stage |-> next, handler |-> message.handler, valid |-> message.valid,
                      reports |-> IF message.valid THEN 0 ELSE 1]
      <4> DEFINE r == IF message.valid THEN message.reports ELSE message.reports + 1
      <4>1. r = IF message.valid THEN 0 ELSE 1
        BY <2>1
      <4>2. message' = [[message EXCEPT !.stage = next] EXCEPT !.reports = r]
        BY <2>2
      <4> HIDE DEF r
      <4> QED
        BY <2>1, <4>1, <4>2
    <3> QED
      BY <2>1, <3>1
  <2>5. (Carried /\ Counted)'
    BY <2>1, <2>2, <2>3, <2>4 DEF Carried, Counted
  <2> QED
    BY <1>1, <2>5 DEF IInv
<1>4. CASE Forget
  BY <1>1, <1>4 DEF IInv, Forget, Carried, Counted, NoMessage
<1> QED
  BY <1>2, <1>3, <1>4

LEMMA RegistryInv ==
    ASSUME IInv,
           \/ \E t \in DOMAIN handlers, c \in Configs : Register(t, c)
           \/ \E p \in Patterns, c \in Configs : RegisterSubnet(p, c)
           \/ ClearRegistry
    PROVE  IInv'
<1>1. (Carried /\ Counted /\ Handles)'
  BY DEF IInv, Register, RegisterSubnet, ClearRegistry, Carried, Counted, Handles,
         LeftCancelled, setVars
<1>2. Registered'
  <2>1. CASE \E t \in DOMAIN handlers, c \in Configs : Register(t, c)
    BY <2>1 DEF IInv, Register, Registered, Stored
  <2>2. CASE \E p \in Patterns, c \in Configs : RegisterSubnet(p, c)
    BY <2>2 DEF IInv, RegisterSubnet, Registered, Stored
  <2>3. CASE ClearRegistry
    BY <2>3 DEF IInv, ClearRegistry, Registered
  <2> QED
    BY <2>1, <2>2, <2>3
<1> QED
  BY <1>1, <1>2 DEF IInv

LEMMA SetInv ==
    ASSUME IInv,
           \/ \E s \in Subs : Cancel(s)
           \/ \E n \in Subnets, s \in Subs : Add(n, s)
           \/ \E n \in Subnets : RemoveSubnet(n)
           \/ \E named \in SUBSET Subnets : \E new \in [named -> Subs \cup {Nil}] :
                  Set(named, new)
           \/ Clear
    PROVE  IInv'
<1>1. (Registered /\ Carried /\ Counted)'
  BY DEF IInv, Cancel, Add, RemoveSubnet, Set, Clear, Registered, Carried, Counted
<1> USE DEF IInv, Handles, LeftCancelled, Held
<1>2. CASE \E s \in Subs : Cancel(s)
  BY <1>1, <1>2 DEF Cancel
<1>3. CASE \E n \in Subnets, s \in Subs : Add(n, s)
  BY <1>1, <1>3, SubsAssumption DEF Add
<1>4. CASE \E n \in Subnets : RemoveSubnet(n)
  BY <1>1, <1>4 DEF RemoveSubnet
<1>5. CASE \E named \in SUBSET Subnets : \E new \in [named -> Subs \cup {Nil}] :
               Set(named, new)
  <2> PICK named \in SUBSET Subnets : \E new \in [named -> Subs \cup {Nil}] : Set(named, new)
    BY <1>5
  <2>1. PICK new \in [named -> Subs \cup {Nil}] : Set(named, new)
    OBVIOUS
  <2>2. subscriptions' \in [Subnets -> Subs \cup {Nil}] /\ Nil \notin added'
    BY <2>1 DEF Set
  <2>3. ASSUME NEW s \in added', \A n \in Subnets : subscriptions'[n] # s
        PROVE  s \in cancelled' \cup displaced'
    <3>1. s \in added
      BY <2>1, <2>2, <2>3 DEF Set
    <3>2. CASE \A n \in Subnets : subscriptions[n] # s
      BY <2>1, <3>1, <3>2 DEF Set
    <3>3. ASSUME NEW n \in Subnets, subscriptions[n] = s
          PROVE  s \in cancelled' \cup displaced'
      <4>1. s # Nil /\ s \in Held(n)
        BY <2>2, <2>3, <3>3
      <4>2. CASE n \in named
        BY <2>1, <2>3, <4>1, <4>2 DEF Set
      <4>3. CASE n \notin named
        BY <2>1, <4>1, <4>3 DEF Set
      <4> QED
        BY <4>2, <4>3
    <3> QED
      BY <3>2, <3>3
  <2> QED
    BY <1>1, <2>2, <2>3
<1>6. CASE Clear
  BY <1>1, <1>6 DEF Clear
<1> QED
  BY <1>2, <1>3, <1>4, <1>5, <1>6

THEOREM SpecInv == Spec => []IInv
<1>1. IInv /\ [Next]_vars => IInv'
  <2> SUFFICES ASSUME IInv, [Next]_vars PROVE IInv'
    OBVIOUS
  <2>1. CASE UNCHANGED vars
    BY <2>1 DEF vars, IInv, Registered, Carried, Counted, Handles, LeftCancelled
  <2> QED
    BY <2>1, MessageInv, RegistryInv, SetInv DEF Next
<1> QED
  BY InitInv, <1>1, PTL DEF Spec

\* A message at a handler can be decoded, whatever options the handler was
\* registered with: "No decoder available" cannot happen (subscription.go 355).
THEOREM AlwaysDecodes == Spec => []DecoderThere
<1>1. IInv => DecoderThere
  BY StoredDecodes DEF IInv, Carried, NoMessage, DecoderThere
<1> QED
  BY SpecInv, <1>1, PTL

\* An invalid payload is reported exactly once, a valid one never, although
\* validator and processor both decode it (gossipsub.go 532-591,
\* subscription.go 326-373).
THEOREM ReportedOnce == Spec => []InvalidReportedOnce
<1>1. IInv => InvalidReportedOnce
  BY DEF IInv, Carried, Counted, NoMessage, InvalidReportedOnce
<1> QED
  BY SpecInv, <1>1, PTL

\* A subscription that left the set was cancelled or displaced by a Set,
\* whatever the order of Add, Remove, Set and Clear (subscription.go 93-168).
THEOREM NoneLeftRunning == Spec => []LeftCancelled
<1>1. IInv => LeftCancelled
  BY DEF IInv, Handles
<1> QED
  BY SpecInv, <1>1, PTL

-----------------------------------------------------------------------------
(* Names. *)

\* IsPrefix and IsSuffix, word by word.
LEMMA PrefixIs ==
    ASSUME NEW S, NEW a \in Seq(S), NEW w \in Seq(S)
    PROVE  IsPrefix(a, w) <=> Len(a) <= Len(w) /\ \A i \in 1 .. Len(a) : a[i] = w[i]
<1> SUFFICES ASSUME Len(a) <= Len(w)
             PROVE  SubSeq(a, 1, Len(a)) = SubSeq(w, 1, Len(a))
                      <=> \A i \in 1 .. Len(a) : a[i] = w[i]
  BY DEF IsPrefix
<1> DEFINE x == SubSeq(a, 1, Len(a))
           y == SubSeq(w, 1, Len(a))
<1>1. /\ x \in Seq(S) /\ Len(x) = Len(a) /\ \A i \in 1 .. Len(a) : x[i] = a[i]
      /\ y \in Seq(S) /\ Len(y) = Len(a) /\ \A i \in 1 .. Len(a) : y[i] = w[i]
  OBVIOUS
<1> HIDE DEF x, y
<1>2. ASSUME x = y, NEW i \in 1 .. Len(a) PROVE a[i] = w[i]
  BY <1>1, <1>2
<1>3. ASSUME \A i \in 1 .. Len(a) : a[i] = w[i] PROVE x = y
  <2>1. \A i \in 1 .. Len(x) : x[i] = y[i]
    BY <1>1, <1>3
  <2> QED
    BY <1>1, <2>1, SeqEqual
<1> QED
  BY <1>2, <1>3 DEF x, y

LEMMA Reversed ==
    ASSUME NEW S, NEW s \in Seq(S)
    PROVE  /\ Reverse(s) \in Seq(S)
           /\ Len(Reverse(s)) = Len(s)
           /\ \A i \in 1 .. Len(s) : Reverse(s)[i] = s[Len(s) - i + 1]
<1> DEFINE r == [i \in 1 .. Len(s) |-> s[Len(s) - i + 1]]
<1>1. Reverse(s) = r
  BY DEF Reverse
<1>2. \A i \in 1 .. Len(s) : Len(s) - i + 1 \in 1 .. Len(s)
  OBVIOUS
<1>3. \A i \in 1 .. Len(s) : s[Len(s) - i + 1] \in S
  BY <1>2
<1>4. r \in Seq(S)
  BY <1>3
<1>5. Len(r) = Len(s)
  OBVIOUS
<1> QED
  BY <1>1, <1>4, <1>5

LEMMA SuffixIs ==
    ASSUME NEW S, NEW b \in Seq(S), NEW w \in Seq(S)
    PROVE  IsSuffix(b, w) <=>
             Len(b) <= Len(w) /\ \A i \in 1 .. Len(b) : b[i] = w[Len(w) - Len(b) + i]
<1>1. /\ Reverse(b) \in Seq(S) /\ Len(Reverse(b)) = Len(b)
      /\ \A i \in 1 .. Len(b) : Reverse(b)[i] = b[Len(b) - i + 1]
  BY Reversed
<1>2. /\ Reverse(w) \in Seq(S) /\ Len(Reverse(w)) = Len(w)
      /\ \A i \in 1 .. Len(w) : Reverse(w)[i] = w[Len(w) - i + 1]
  BY Reversed
<1>3. IsSuffix(b, w) <=> Len(b) <= Len(w) /\ \A i \in 1 .. Len(b) : Reverse(b)[i] = Reverse(w)[i]
  <2> DEFINE x == Reverse(b)
             y == Reverse(w)
  <2>1. x \in Seq(S) /\ y \in Seq(S) /\ Len(x) = Len(b) /\ Len(y) = Len(w)
    BY <1>1, <1>2
  <2>2. IsSuffix(b, w) <=> IsPrefix(x, y)
    BY DEF IsSuffix
  <2> HIDE DEF x, y
  <2>3. IsPrefix(x, y) <=> Len(x) <= Len(y) /\ \A i \in 1 .. Len(x) : x[i] = y[i]
    BY <2>1, PrefixIs
  <2>4. IsSuffix(b, w) <=> Len(b) <= Len(w) /\ \A i \in 1 .. Len(b) : x[i] = y[i]
    BY <2>1, <2>2, <2>3
  <2> QED
    BY <2>4 DEF x, y
<1> SUFFICES ASSUME Len(b) <= Len(w)
             PROVE  (\A i \in 1 .. Len(b) : Reverse(b)[i] = Reverse(w)[i]) <=>
                    (\A i \in 1 .. Len(b) : b[i] = w[Len(w) - Len(b) + i])
  BY <1>3
<1>4. ASSUME \A i \in 1 .. Len(b) : Reverse(b)[i] = Reverse(w)[i], NEW i \in 1 .. Len(b)
      PROVE  b[i] = w[Len(w) - Len(b) + i]
  <2> DEFINE j == Len(b) - i + 1
  <2>1. j \in 1 .. Len(b) /\ j = Len(b) - i + 1
    OBVIOUS
  <2> HIDE DEF j
  <2>2. Len(b) - j + 1 = i /\ Len(w) - j + 1 = Len(w) - Len(b) + i /\ j \in 1 .. Len(w)
    BY <2>1
  <2>3. Reverse(b)[j] = b[i] /\ Reverse(w)[j] = w[Len(w) - Len(b) + i]
    BY <1>1, <1>2, <2>1, <2>2
  <2> QED
    BY <1>4, <2>1, <2>3
<1>5. ASSUME \A i \in 1 .. Len(b) : b[i] = w[Len(w) - Len(b) + i], NEW i \in 1 .. Len(b)
      PROVE  Reverse(b)[i] = Reverse(w)[i]
  <2> DEFINE j == Len(b) - i + 1
  <2>1. j \in 1 .. Len(b) /\ j = Len(b) - i + 1
    OBVIOUS
  <2> HIDE DEF j
  <2>2. Len(w) - Len(b) + j = Len(w) - i + 1 /\ i \in 1 .. Len(w)
    BY <2>1
  <2>3. Reverse(b)[i] = b[j] /\ Reverse(w)[i] = w[Len(w) - Len(b) + j]
    BY <1>1, <1>2, <2>1, <2>2
  <2> QED
    BY <1>5, <2>1, <2>3
<1> QED
  BY <1>4, <1>5

\* A prefix and a suffix that leave room for one word.
Encloses(a, b, w) == IsPrefix(a, w) /\ IsSuffix(b, w) /\ Len(w) = Len(a) + Len(b) + 1

LEMMA Enclosing ==
    ASSUME NEW S, NEW a \in Seq(S), NEW b \in Seq(S), NEW w \in Seq(S),
           NEW x \in S, w = a \o <<x>> \o b
    PROVE  Encloses(a, b, w) /\ w[Len(a) + 1] = x
<1>1. /\ Len(w) = Len(a) + Len(b) + 1
      /\ \A i \in 1 .. Len(a) : a[i] = w[i]
      /\ \A i \in 1 .. Len(b) : b[i] = w[Len(w) - Len(b) + i]
      /\ w[Len(a) + 1] = x
  OBVIOUS
<1>2. Len(a) <= Len(w) /\ Len(b) <= Len(w)
  BY <1>1
<1>3. IsPrefix(a, w)
  BY <1>1, <1>2, PrefixIs
<1>4. IsSuffix(b, w)
  BY <1>1, <1>2, SuffixIs
<1> QED
  BY <1>1, <1>3, <1>4 DEF Encloses

LEMMA Enclosed ==
    ASSUME NEW S, NEW a \in Seq(S), NEW b \in Seq(S), NEW w \in Seq(S), Encloses(a, b, w)
    PROVE  w = a \o <<w[Len(a) + 1]>> \o b /\ w[Len(a) + 1] \in S
<1>1. /\ Len(w) = Len(a) + Len(b) + 1
      /\ \A i \in 1 .. Len(a) : a[i] = w[i]
      /\ \A i \in 1 .. Len(b) : b[i] = w[Len(w) - Len(b) + i]
  <2>1. IsPrefix(a, w) /\ IsSuffix(b, w) /\ Len(w) = Len(a) + Len(b) + 1
    BY DEF Encloses
  <2>2. \A i \in 1 .. Len(a) : a[i] = w[i]
    BY <2>1, PrefixIs
  <2>3. \A i \in 1 .. Len(b) : b[i] = w[Len(w) - Len(b) + i]
    BY <2>1, SuffixIs
  <2> QED
    BY <2>1, <2>2, <2>3
<1> DEFINE x == w[Len(a) + 1]
           v == a \o <<x>> \o b
<1>2. x \in S
  BY <1>1
<1>3. /\ v \in Seq(S) /\ Len(v) = Len(a) + Len(b) + 1
      /\ \A i \in 1 .. Len(a) : v[i] = a[i]
      /\ v[Len(a) + 1] = x
      /\ \A i \in 1 .. Len(b) : v[Len(a) + 1 + i] = b[i]
  BY <1>2
<1>4. ASSUME NEW i \in 1 .. Len(w) PROVE v[i] = w[i]
  <2> HIDE DEF v, x
  <2>1. CASE i \in 1 .. Len(a)
    BY <1>1, <1>3, <2>1
  <2>2. CASE i = Len(a) + 1
    BY <1>3, <2>2 DEF x
  <2>3. CASE i > Len(a) + 1
    <3> DEFINE j == i - Len(a) - 1
    <3>1. j \in 1 .. Len(b) /\ i = Len(a) + 1 + j
      BY <1>1, <2>3
    <3> HIDE DEF j
    <3>2. i = Len(w) - Len(b) + j
      BY <1>1, <3>1
    <3> QED
      BY <1>1, <1>3, <3>1, <3>2
  <2> QED
    BY <2>1, <2>2, <2>3
<1>5. v = w
  <2> HIDE DEF v, x
  <2> QED
    BY <1>1, <1>3, <1>4, SeqEqual
<1> QED
  BY <1>2, <1>5

\* What ParseSubnet accepts, and what it returns.
LEMMA ParseIs ==
    ASSUME NEW p \in Patterns, NEW max \in Nat, NEW name, name.base \in Seq(STRING)
    PROVE  /\ ParseSubnet(p, max, name) >= 0 => name.base \in Shape(p)
           /\ ParseSubnet(p, max, name) = Panics => Overlaps(p, name.base)
           /\ \A w \in DOMAIN NumberOf :
                  name.base = p.prefix \o <<w>> \o p.suffix /\ NumberOf[w] < max
                    => ParseSubnet(p, max, name) = NumberOf[w]
<1> DEFINE words == name.base
           a == p.prefix
           b == p.suffix
           x == words[Len(a) + 1]
           fits == Encloses(a, b, words)
<1>1. a \in Seq(STRING) /\ b \in Seq(STRING)
  BY PatternsAssumption
<1>4. ParseSubnet(p, max, name) = IF Overlaps(p, words) THEN Panics
                                  ELSE IF fits /\ x \in DOMAIN NumberOf /\ NumberOf[x] < max
                                  THEN NumberOf[x] ELSE -1
  BY DEF ParseSubnet, Encloses
<1>2. words \in Seq(STRING)
  OBVIOUS
<1>3. fits => ~Overlaps(p, words)
  <2>1. fits => Len(words) = Len(a) + Len(b) + 1
    BY DEF Encloses
  <2>2. Overlaps(p, words) => Len(words) <= Len(a) + Len(b)
    BY DEF Overlaps
  <2>3. Len(words) \in Nat /\ Len(a) \in Nat /\ Len(b) \in Nat
    BY <1>1, <1>2
  <2> HIDE DEF words, a, b, fits
  <2> QED
    BY <2>1, <2>2, <2>3
<1>n. \A w \in DOMAIN NumberOf : NumberOf[w] \in Nat
  BY NumbersAssumption
<1> HIDE DEF words, a, b
<1>5. ASSUME ParseSubnet(p, max, name) >= 0 PROVE words \in Shape(p)
  <2>1. fits /\ x \in DOMAIN NumberOf
    BY <1>4, <1>5 DEF Panics
  <2>2. words = a \o <<x>> \o b
    BY <1>1, <1>2, <2>1, Enclosed, Zenon
  <2> QED
    BY <2>1, <2>2 DEF Shape, a, b
<1>6. ASSUME NEW w \in DOMAIN NumberOf, words = a \o <<w>> \o b, NumberOf[w] < max
      PROVE  ParseSubnet(p, max, name) = NumberOf[w]
  <2>1. w \in STRING
    BY NumbersAssumption
  <2>2. Encloses(a, b, words)
    BY <1>1, <1>2, <1>6, <2>1, Enclosing
  <2>3. words[Len(a) + 1] = w
    BY <1>1, <1>2, <1>6, <2>1
  <2> QED
    BY <1>3, <1>4, <1>6, <2>2, <2>3 DEF fits, x
<1>7. ParseSubnet(p, max, name) = Panics => Overlaps(p, words)
  <2> HIDE DEF fits, x
  <2> QED
    BY <1>4, <1>n DEF Panics
<1> QED
  BY <1>5, <1>6, <1>7 DEF words, a, b

\* The name of a subnet's topic parses back to the subnet.
LEMMA RoundTrip ==
    ASSUME NEW p \in Patterns, NEW n \in Subnets, NEW d \in Digests,
           NEW max \in Nat, n < max
    PROVE  /\ ParseSubnet(p, max, TopicForSubnet(p, n, d)) = n
           /\ TopicForSubnet(p, n, d).base \in Shape(p)
           /\ TopicForSubnet(p, n, d).base \in Seq(STRING)
           /\ ParseSubnet(p, max, TopicForSubnet(p, n, d)) # Panics
<1> DEFINE t == TopicForSubnet(p, n, d)
<1>1. WordOf(n) \in DOMAIN NumberOf /\ NumberOf[WordOf(n)] = n
  BY NumbersAssumption DEF WordOf, Subnets
<1>2. t.base = p.prefix \o <<WordOf(n)>> \o p.suffix
  BY DEF TopicForSubnet, Name
<1>3. p.prefix \in Seq(STRING) /\ p.suffix \in Seq(STRING) /\ WordOf(n) \in STRING
  BY <1>1, PatternsAssumption, NumbersAssumption
<1>4. t.base \in Seq(STRING)
  BY <1>2, <1>3
<1>5. n # Panics
  BY MaxSubnetsAssumption DEF Subnets, Panics
<1> HIDE DEF t
<1>6. ParseSubnet(p, max, t) = n /\ t.base \in Shape(p)
  BY <1>1, <1>2, <1>4, ParseIs DEF Shape
<1> QED
  BY <1>4, <1>5, <1>6 DEF t

\* The topic of a subnet finds the handler of its own pattern and no other, in
\* whatever order the patterns are tried, and its name parses back to its
\* subnet; a topic without subnet finds its own handler or none; and no lookup
\* panics, if the patterns and the topics are separate: no name of one has the
\* shape of another, or a prefix and a suffix of another that overlap
\* (registry.go 126-152, topic.go 75-137).
THEOREM RightHandler == ASSUME Separate PROVE Spec => []HandlerChosen
<1>1. IInv => HandlerChosen
  <2> SUFFICES ASSUME IInv PROVE HandlerChosen
    OBVIOUS
  <2>0. DOMAIN handlers = {Name(d, base) : d \in Digests, base \in PlainTopics}
        /\ MaxSubnets \in Nat /\ Unbounded \in Nat
    BY MaxSubnetsAssumption DEF IInv, Registered, Unbounded
  <2>1. ASSUME NEW p \in Patterns, NEW n \in Subnets, NEW d \in Digests
        PROVE  /\ GetHandler(TopicForSubnet(p, n, d)) = {subnetHandlers[p]} \ {Nil}
               /\ ParseSubnet(p, MaxSubnets, TopicForSubnet(p, n, d)) = n
    <3> DEFINE t == TopicForSubnet(p, n, d)
    <3>1. n \in Nat /\ n < MaxSubnets /\ n < Unbounded
      <4>1. n \in Nat /\ n < MaxSubnets
        BY <2>0 DEF Subnets
      <4>2. PICK w \in DOMAIN NumberOf : NumberOf[w] = n
        BY NumbersAssumption DEF Subnets
      <4>3. NumberOf[w] \in 0 .. Unbounded - 1
        BY NumbersAssumption
      <4> QED
        BY <4>1, <4>2, <4>3, <2>0
    <3>2. /\ ParseSubnet(p, MaxSubnets, t) = n /\ ParseSubnet(p, Unbounded, t) = n
          /\ t.base \in Shape(p) /\ t.base \in Seq(STRING)
          /\ ParseSubnet(p, Unbounded, t) # Panics
      BY <2>0, <3>1, RoundTrip
    <3> HIDE DEF t
    <3>3. t \notin DOMAIN handlers
      BY <2>0, <3>2 DEF Separate, Name
    <3>4. \A q \in Patterns : ParseSubnet(q, Unbounded, t) \in 0 .. Unbounded <=> q = p
      <4>1. ParseSubnet(p, Unbounded, t) \in 0 .. Unbounded
        BY <2>0, <3>1, <3>2
      <4>2. ASSUME NEW q \in Patterns, ParseSubnet(q, Unbounded, t) \in 0 .. Unbounded
            PROVE  q = p
        <5>1. ParseSubnet(q, Unbounded, t) >= 0
          BY <2>0, <4>2
        <5>2. t.base \in Shape(q)
          BY <2>0, <3>2, <5>1, ParseIs
        <5> QED
          BY <3>2, <5>2 DEF Separate
      <4> QED
        BY <4>1, <4>2
    <3>5. ASSUME NEW q \in Patterns PROVE ParseSubnet(q, Unbounded, t) # Panics
      <4>1. q # p => ~Overlaps(q, t.base)
        BY <3>2 DEF Separate
      <4> QED
        BY <2>0, <3>2, <4>1, ParseIs
    <3> QED
      BY <3>2, <3>3, <3>4, <3>5 DEF GetHandler, t
  <2>2. ASSUME NEW t \in DOMAIN handlers
        PROVE  GetHandler(t) = {handlers[t]} \ {Nil}
    <3>1. t.base \in PlainTopics /\ t.base \in Seq(STRING)
      BY <2>0, PlainTopicsAssumption DEF Name
    <3>2. \A q \in Patterns : /\ ~(ParseSubnet(q, Unbounded, t) >= 0)
                              /\ ParseSubnet(q, Unbounded, t) # Panics
      BY <2>0, <3>1, ParseIs DEF Separate
    <3>3. \A q \in Patterns : ParseSubnet(q, Unbounded, t) \notin 0 .. Unbounded
      BY <2>0, <3>2
    <3> QED
      BY <3>2, <3>3 DEF GetHandler
  <2> QED
    BY <2>1, <2>2 DEF HandlerChosen
<1> QED
  BY SpecInv, <1>1, PTL
=============================================================================
