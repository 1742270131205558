----------------------- MODULE ExecutionSessionProofs -----------------------
(***************************************************************************)
(* Proofs about ExecutionSession, for any versions a remote offers and any *)
(* number of messages, Starts and calls of Transactions.                   *)
(*                                                                         *)
(* Every step of a session has one of eleven outcomes (Outcome): it fails, *)
(* is quiet or replies, or answers a Hello, a Status or a Disconnect in    *)
(* one of the ways of its handler.  A lemma on each outcome shows what     *)
(* becomes of the events (EndShape, LastHello) and of the frames           *)
(* (FramesFit).                                                            *)
(***************************************************************************)
EXTENDS ExecutionSession, FiniteSetTheorems, TLAPS

-----------------------------------------------------------------------------
(* The inductive invariant *)

Versions == {0} \cup (MinVersion .. MaxVersion)

Events == ({"hello"} \X CapSets) \cup ({"disconnect"} \X {"none", "reason", "invalid"})
          \cup ({"status"} \X {68, 69})
          \cup ({"transactions", "newPooledTransactionHashes"} \X {"ok"})

Kinds == {"hello", "status", "pong", "receipts", "transactions", "blockHeaders", "blockBodies",
          "pooledTransactions"}

Frames == Kinds \X Versions \X BOOLEAN

Typed ==
    /\ start \in {"idle", "dial", "shake", "failed", "returned"}
    /\ starts \in Nat
    /\ session \in {"none", "hello", "read", "handle", "over"}
    /\ msg \in Contents \cup {NoMessage}
    /\ garbled \in BOOLEAN
    /\ snappy \in BOOLEAN
    /\ version \in Versions
    /\ statusSent \in BOOLEAN
    /\ out \in Seq(Frames)
    /\ events \in Seq(Events)

HasEvent(what) == \E i \in 1 .. Len(events) : events[i][1] = what
HasFrame(kind) == \E i \in 1 .. Len(out) : out[i][1] = kind

\* A session begins when Start returns.  Before its first message it has only
\* callers' frames; before the first Start the client knows nothing.
Beginning ==
    /\ session = "none" <=> start # "returned"
    /\ session \in {"none", "hello"} => msg = NoMessage /\ events = <<>>
    /\ session = "none" => out = <<>>
    /\ session = "hello" => \A i \in 1 .. Len(out) : out[i][1] = "transactions"
    /\ session = "handle" => msg \in Contents
    /\ session = "read" => msg[1] # "disconnect"
    /\ starts = 0 => start = "idle" /\ session = "none" /\ version = 0 /\ ~statusSent

\* The last n events, and they alone, are disconnects.
Ended(n) ==
    /\ n <= Len(events)
    /\ \A i \in 1 .. Len(events) : events[i][1] = "disconnect" <=> i > Len(events) - n

EndShape ==
    /\ session # "over" => Ended(0)
    /\ session = "over" => Ended(1) \/ (msg[1] = "getReceipts" /\ Ended(2))
    /\ session = "over" /\ msg[1] = "disconnect" =>
           (events[Len(events)][2] = "reason" <=> msg[2] \in {"list", "single"})

\* The version is the best that caps and the client have in common.
Best(caps) ==
    /\ version \in caps \cap SupportedEthCaps
    /\ \A v \in caps \cap SupportedEthCaps : v <= version

\* The last Hello is the one the version comes from.
LastHelloBest ==
    \E i \in 1 .. Len(events) :
        /\ events[i][1] = "hello"
        /\ \A j \in 1 .. Len(events) : events[j][1] = "hello" => j <= i
        /\ Best(events[i][2])

LastHello == HasEvent("hello") => LastHelloBest

\* In the first session, what the client knows it has from this session.
FirstSession ==
    /\ starts <= 1 /\ version # 0 => snappy /\ HasEvent("hello")
    /\ starts = 1 /\ session \in {"read", "handle"} /\ HasEvent("status") => statusSent
    /\ starts = 1 /\ statusSent => HasFrame("status")

HelloOrder ==
    \A i \in 1 .. Len(out) :
        out[i][1] \notin {"hello", "transactions"} => \E j \in 1 .. i - 1 : out[j][1] = "hello"

StatusOnce ==
    \A i, j \in 1 .. Len(out) : out[i][1] = "status" /\ out[j][1] = "status" => i = j

\* The remote offered version v in a Hello of this session.
Offered(v) == \E j \in 1 .. Len(events) : events[j][1] = "hello" /\ v \in events[j][2]

StatusSound ==
    \A i \in 1 .. Len(out) : out[i][1] = "status" => out[i][3] = TRUE /\ Offered(out[i][2])

FramesFit ==
    /\ session \in {"read", "handle"} => HasFrame("hello")
    /\ HelloOrder
    /\ ~statusSent => ~HasFrame("status")
    /\ StatusOnce
    /\ starts = 1 => StatusSound

IInv ==
    /\ Typed
    /\ Beginning
    /\ EndShape
    /\ LastHello
    /\ FirstSession
    /\ FramesFit

-----------------------------------------------------------------------------
(* Events that grow *)

\* The old events stay, and n new ones follow them.
Grown(n) ==
    /\ events' \in Seq(Events)
    /\ Len(events') = Len(events) + n
    /\ \A i \in 1 .. Len(events) : events'[i] = events[i]

First == events'[Len(events) + 1]
Second == events'[Len(events) + 2]

LEMMA PublishNone ==
    ASSUME events \in Seq(Events), Publish(<<>>) PROVE events' = events
  BY DEF Publish

LEMMA PublishOne ==
    ASSUME events \in Seq(Events), NEW x \in Events, Publish(<<x>>)
    PROVE  Grown(1) /\ First = x
  BY DEF Publish, Grown, First

\* The same, for what a handler published before its session ended.
LEMMA PublishEnd ==
    ASSUME events \in Seq(Events), Publish(Append(<<>>, Disconnected))
    PROVE  Grown(1) /\ First = Disconnected
  <1>1. Disconnected \in Events
    BY DEF Disconnected, Events
  <1> QED  BY <1>1 DEF Publish, Grown, First, Second

LEMMA PublishThenEnd ==
    ASSUME events \in Seq(Events), NEW x \in Events, Publish(Append(<<x>>, Disconnected))
    PROVE  Grown(2) /\ First = x /\ Second = Disconnected
  <1>1. Disconnected \in Events
    BY DEF Disconnected, Events
  <1> QED  BY <1>1 DEF Publish, Grown, First, Second

LEMMA EndedOne ==
    ASSUME events \in Seq(Events), Grown(1), Ended(0)
    PROVE  /\ First[1] = "disconnect" => Ended(1)'
           /\ First[1] # "disconnect" => Ended(0)'
  <1>1. \A i \in 1 .. Len(events') : i \in 1 .. Len(events) \/ i = Len(events) + 1
    BY DEF Grown
  <1> QED  BY <1>1 DEF Grown, Ended, First

LEMMA EndedTwo ==
    ASSUME events \in Seq(Events), Grown(2), Ended(0), Second[1] = "disconnect"
    PROVE  /\ First[1] = "disconnect" => Ended(2)'
           /\ First[1] # "disconnect" => Ended(1)'
  <1>1. \A i \in 1 .. Len(events') :
           i \in 1 .. Len(events) \/ i = Len(events) + 1 \/ i = Len(events) + 2
    BY DEF Grown
  <1> QED  BY <1>1 DEF Grown, Ended, First, Second

LEMMA HasOne ==
    ASSUME events \in Seq(Events), Grown(1), NEW what
    PROVE  HasEvent(what)' <=> HasEvent(what) \/ First[1] = what
  <1>1. \A i \in 1 .. Len(events') : i \in 1 .. Len(events) \/ i = Len(events) + 1
    BY DEF Grown
  <1>2. /\ Len(events) + 1 \in 1 .. Len(events')
        /\ \A i \in 1 .. Len(events) : i \in 1 .. Len(events')
    BY DEF Grown
  <1> QED  BY <1>1, <1>2 DEF Grown, HasEvent, First

LEMMA HasTwo ==
    ASSUME events \in Seq(Events), Grown(2), NEW what
    PROVE  HasEvent(what)' <=> HasEvent(what) \/ First[1] = what \/ Second[1] = what
  <1>1. \A i \in 1 .. Len(events') :
           i \in 1 .. Len(events) \/ i = Len(events) + 1 \/ i = Len(events) + 2
    BY DEF Grown
  <1>2. /\ Len(events) + 1 \in 1 .. Len(events') /\ Len(events) + 2 \in 1 .. Len(events')
        /\ \A i \in 1 .. Len(events) : i \in 1 .. Len(events')
    BY DEF Grown
  <1> QED  BY <1>1, <1>2 DEF Grown, HasEvent, First, Second

\* The last Hello stays the last one until another comes.
LEMMA LastHelloStays ==
    ASSUME events \in Seq(Events), LastHelloBest, version' = version,
           \/ Grown(1) /\ First[1] # "hello"
           \/ Grown(2) /\ First[1] # "hello" /\ Second[1] # "hello"
    PROVE  LastHelloBest'
  <1>1. PICK i \in 1 .. Len(events) :
           /\ events[i][1] = "hello"
           /\ \A j \in 1 .. Len(events) : events[j][1] = "hello" => j <= i
           /\ Best(events[i][2])
    BY DEF LastHelloBest
  <1>2. i \in 1 .. Len(events') /\ events'[i] = events[i]
    BY DEF Grown
  <1>3. \A j \in 1 .. Len(events') : events'[j][1] = "hello" =>
            j \in 1 .. Len(events) /\ events[j][1] = "hello"
    <2>1. CASE Grown(1) /\ First[1] # "hello"
      <3>1. \A j \in 1 .. Len(events') : j \in 1 .. Len(events) \/ j = Len(events) + 1
        BY <2>1 DEF Grown
      <3> QED  BY <2>1, <3>1 DEF Grown, First
    <2>2. CASE Grown(2) /\ First[1] # "hello" /\ Second[1] # "hello"
      <3>1. \A j \in 1 .. Len(events') :
               j \in 1 .. Len(events) \/ j = Len(events) + 1 \/ j = Len(events) + 2
        BY <2>2 DEF Grown
      <3> QED  BY <2>2, <3>1 DEF Grown, First, Second
    <2> QED  BY <2>1, <2>2
  <1>4. Best(events[i][2])'
    BY <1>1, <1>2 DEF Best
  <1>5. \A j \in 1 .. Len(events') : events'[j][1] = "hello" => j <= i
    BY <1>1, <1>3
  <1> QED  BY <1>1, <1>2, <1>4, <1>5 DEF LastHelloBest

LEMMA LastHelloComes ==
    ASSUME events \in Seq(Events), NEW caps, First = <<"hello", caps>>,
           version' \in caps \cap SupportedEthCaps,
           \A v \in caps \cap SupportedEthCaps : v <= version',
           Grown(1) \/ (Grown(2) /\ Second[1] # "hello")
    PROVE  LastHelloBest'
  <1> PICK n \in Nat : n = Len(events) + 1
    OBVIOUS
  <1>1. n \in 1 .. Len(events') /\ events'[n] = <<"hello", caps>>
    BY DEF Grown, First
  <1>2. \A j \in 1 .. Len(events') : events'[j][1] = "hello" => j <= n
    <2>1. CASE Grown(1)
      BY <2>1 DEF Grown
    <2>2. CASE Grown(2) /\ Second[1] # "hello"
      <3>1. \A j \in 1 .. Len(events') : j <= n \/ j = Len(events) + 2
        BY <2>2 DEF Grown
      <3> QED  BY <2>2, <3>1 DEF Second
    <2> QED  BY <2>1, <2>2
  <1>3. Best(caps)'
    BY DEF Best
  <1>4. Best(events[n][2])'
    BY <1>1, <1>3 DEF Best
  <1> QED  BY <1>1, <1>2, <1>4 DEF LastHelloBest

\* What was offered stays so.
LEMMA OfferedStays ==
    ASSUME events \in Seq(Events), NEW v, Offered(v),
           events' = events \/ Grown(1) \/ Grown(2)
    PROVE  Offered(v)'
  <1>1. PICK j \in 1 .. Len(events) : events[j][1] = "hello" /\ v \in events[j][2]
    BY DEF Offered
  <1>2. j \in 1 .. Len(events') /\ events'[j] = events[j]
    BY DEF Grown
  <1> QED  BY <1>1, <1>2 DEF Offered

\* The version of the last Hello was offered, and that of a new one is.
LEMMA BestOffered == LastHelloBest => Offered(version)
  BY DEF LastHelloBest, Best, Offered

LEMMA FirstOffered ==
    ASSUME events \in Seq(Events), Grown(1), NEW caps, First = <<"hello", caps>>, NEW v \in caps
    PROVE  Offered(v)'
  <1>1. Len(events) + 1 \in 1 .. Len(events')
    BY DEF Grown
  <1> QED  BY <1>1 DEF Offered, First

-----------------------------------------------------------------------------
(* Frames that grow *)

Added(frame) ==
    /\ out' \in Seq(Frames)
    /\ Len(out') = Len(out) + 1
    /\ \A i \in 1 .. Len(out) : out'[i] = out[i]
    /\ out'[Len(out) + 1] = frame

LEMMA WriteOne ==
    ASSUME out \in Seq(Frames), NEW kind \in Kinds, NEW layout \in Versions,
           NEW packed \in BOOLEAN, Write(kind, layout, packed)
    PROVE  Added(<<kind, layout, packed>>)
  <1>1. <<kind, layout, packed>> \in Frames
    BY DEF Frames
  <1> QED  BY <1>1 DEF Write, Added

LEMMA AddedAt ==
    ASSUME out \in Seq(Frames), NEW frame, Added(frame)
    PROVE  /\ \A i \in 1 .. Len(out') : i \in 1 .. Len(out) \/ i = Len(out) + 1
           /\ Len(out) + 1 \in 1 .. Len(out')
           /\ \A i \in 1 .. Len(out) : i \in 1 .. Len(out')
  BY DEF Added

LEMMA HasAdded ==
    ASSUME out \in Seq(Frames), NEW frame, Added(frame), NEW kind
    PROVE  HasFrame(kind)' <=> HasFrame(kind) \/ frame[1] = kind
  BY AddedAt DEF Added, HasFrame

LEMMA OrderAdded ==
    ASSUME out \in Seq(Frames), NEW frame, Added(frame), HelloOrder,
           HasFrame("hello") \/ frame[1] \in {"hello", "transactions"}
    PROVE  HelloOrder'
  <1> SUFFICES ASSUME NEW i \in 1 .. Len(out'), out'[i][1] \notin {"hello", "transactions"}
               PROVE  \E j \in 1 .. i - 1 : out'[j][1] = "hello"
    BY DEF HelloOrder
  <1>1. CASE i \in 1 .. Len(out)
    <2>1. PICK j \in 1 .. i - 1 : out[j][1] = "hello"
      BY <1>1 DEF HelloOrder, Added
    <2>2. j \in 1 .. Len(out)
      BY <1>1
    <2> QED  BY <2>1, <2>2 DEF Added
  <1>2. CASE i = Len(out) + 1
    <2>1. PICK j \in 1 .. Len(out) : out[j][1] = "hello"
      BY <1>2 DEF Added, HasFrame
    <2> QED  BY <1>2, <2>1 DEF Added
  <1> QED  BY <1>1, <1>2, AddedAt

LEMMA OnceAdded ==
    ASSUME out \in Seq(Frames), NEW frame, Added(frame), StatusOnce,
           frame[1] = "status" => ~HasFrame("status")
    PROVE  StatusOnce'
  BY AddedAt DEF StatusOnce, Added, HasFrame

LEMMA SoundAdded ==
    ASSUME out \in Seq(Frames), NEW frame, Added(frame), StatusSound,
           events \in Seq(Events), events' = events \/ Grown(1) \/ Grown(2),
           frame[1] = "status" => frame[3] = TRUE /\ Offered(frame[2])'
    PROVE  StatusSound'
  <1> SUFFICES ASSUME NEW i \in 1 .. Len(out'), out'[i][1] = "status",
                      NEW v, v = out'[i][2]
               PROVE  out'[i][3] = TRUE /\ Offered(v)'
    BY DEF StatusSound
  <1>1. CASE i \in 1 .. Len(out)
    <2>1. out'[i] = out[i] /\ out[i][3] = TRUE /\ Offered(v)
      BY <1>1 DEF StatusSound, Added
    <2>2. Offered(v)'
      BY <2>1, OfferedStays
    <2> QED  BY <2>1, <2>2
  <1>2. CASE i = Len(out) + 1
    <2>1. out'[i] = frame /\ v = frame[2]
      BY <1>2 DEF Added
    <2> QED  BY <2>1
  <1> QED  BY <1>1, <1>2, AddedAt

LEMMA SoundStays ==
    ASSUME out' = out, StatusSound, events \in Seq(Events),
           events' = events \/ Grown(1) \/ Grown(2)
    PROVE  StatusSound'
  BY OfferedStays DEF StatusSound

-----------------------------------------------------------------------------
(* The negotiated version *)

\* A Hello that passes has a version in common, and the best is chosen.
LEMMA Negotiated ==
    ASSUME NEW h \in Hellos, Validate(h)
    PROVE  /\ ETHProtocolVersion(h) \in MinVersion .. MaxVersion
           /\ ETHProtocolVersion(h) \in h.caps
           /\ \A v \in h.caps \cap SupportedEthCaps : v <= ETHProtocolVersion(h)
  <1> DEFINE S == {0} \cup {v \in h.caps : MinVersion <= v /\ v <= MaxVersion}
  <1>1. h.caps \subseteq Nat
    BY SessionAssumption DEF Hellos
  <1>2. S \subseteq {0, 68, 69, 70}
    BY <1>1 DEF MinVersion, MaxVersion
  <1>3. \E x \in S : \A y \in S : x >= y
    <2>1. CASE 70 \in S
      BY <1>2, <2>1
    <2>2. CASE 70 \notin S /\ 69 \in S
      BY <1>2, <2>2
    <2>3. CASE 70 \notin S /\ 69 \notin S /\ 68 \in S
      BY <1>2, <2>3
    <2>4. CASE S = {0}
      BY <2>4
    <2>5. 0 \in S
      OBVIOUS
    <2> QED  BY <1>2, <2>1, <2>2, <2>3, <2>4, <2>5
  <1>4. PICK b \in S : b # 0
    BY <1>1 DEF Validate, MinVersion, MaxVersion
  <1>5. ETHProtocolVersion(h) = CHOOSE x \in S : \A y \in S : x >= y
    BY DEF ETHProtocolVersion, Max
  <1>6. /\ ETHProtocolVersion(h) \in S
        /\ \A y \in S : ETHProtocolVersion(h) >= y
    BY <1>3, <1>5
  <1>7. ETHProtocolVersion(h) # 0
    BY <1>2, <1>4, <1>6
  <1>8. \A v \in h.caps \cap SupportedEthCaps : v \in S
    BY <1>1 DEF SupportedEthCaps, MinVersion, MaxVersion
  <1> HIDE DEF S
  <1>9. \A y \in S : y <= ETHProtocolVersion(h)
    BY <1>2, <1>6
  <1> QED  BY <1>2, <1>6, <1>7, <1>8, <1>9 DEF S, MinVersion, MaxVersion

-----------------------------------------------------------------------------
(* The outcomes of a step of a session *)

Rest == UNCHANGED <<start, starts, rlpx, msg, garbled, sent>>
Same == UNCHANGED <<snappy, client, out>>

\* The session ends with an error.
Fails ==
    /\ session \in {"hello", "read", "handle"}
    /\ session = "handle" => msg[1] # "disconnect"
    /\ Rest
    /\ SessionError(<<>>)

\* An error of an answer to GetReceipts is reported twice.
FailsTwice ==
    /\ session = "handle" /\ msg[1] = "getReceipts"
    /\ Rest
    /\ SessionError(<<Disconnected>>)

\* The message changes nothing.
Ignores ==
    /\ session = "handle" /\ msg[1] # "disconnect"
    /\ Rest /\ Same
    /\ Continue(<<>>)

\* The message is handed to the subscribers.
Announces ==
    \E x \in Events :
        /\ session = "handle" /\ msg[1] # "disconnect"
        /\ \/ x[1] \in {"transactions", "newPooledTransactionHashes"}
           \/ x[1] = "status" /\ statusSent
        /\ Rest /\ Same
        /\ Continue(<<x>>)

\* A frame other than a Status goes out, the first one a Hello.
Replies ==
    \E kind \in Kinds, layout \in Versions :
        /\ kind \notin {"status", "transactions"}
        /\ \/ session = "hello" /\ kind = "hello"
           \/ session = "handle" /\ msg[1] # "disconnect"
        /\ Rest
        /\ Write(kind, layout, snappy) /\ Continue(<<>>)
        /\ UNCHANGED <<snappy, client>>

\* A Hello sets the version and turns compression on.
Greeted(h, v) ==
    /\ session = "handle" /\ msg[1] # "disconnect"
    /\ h \in Hellos /\ Validate(h) /\ v = ETHProtocolVersion(h)
    /\ Rest
    /\ version' = v /\ snappy' = TRUE

Greets ==
    \E h \in Hellos, v \in Versions :
        /\ Greeted(h, v)
        /\ Continue(<<<<"hello", h.caps>>>>)
        /\ UNCHANGED <<statusSent, out>>

GreetsAndSends ==
    \E h \in Hellos, v \in Versions :
        /\ Greeted(h, v)
        /\ Continue(<<<<"hello", h.caps>>>>)
        /\ ~statusSent /\ statusSent' = TRUE
        /\ Write("status", v, TRUE)

GreetsAndFails ==
    \E h \in Hellos, v \in Versions :
        /\ Greeted(h, v)
        /\ session' = "over" /\ Publish(Append(<<<<"hello", h.caps>>>>, Disconnected))
        /\ UNCHANGED <<statusSent, out>>

\* A Status that the negotiated version decodes is answered with ours.
AnswersStatus ==
    \E layout \in {68, 69} :
        /\ session = "handle" /\ msg[1] # "disconnect"
        /\ Decodes(layout)
        /\ Rest
        /\ Continue(<<<<"status", layout>>>>)
        /\ ~statusSent /\ statusSent' = TRUE
        /\ Write("status", version, snappy)
        /\ UNCHANGED <<version, snappy>>

FailsStatus ==
    \E layout \in {68, 69} :
        /\ session = "handle" /\ msg[1] # "disconnect"
        /\ Rest /\ Same
        /\ session' = "over" /\ Publish(Append(<<<<"status", layout>>>>, Disconnected))

\* A Disconnect ends the session with its reason.
Leaves ==
    \E reason \in {"none", "reason", "invalid"} :
        /\ session = "handle" /\ msg[1] = "disconnect"
        /\ reason = "reason" <=> msg[2] \in {"list", "single"}
        /\ Rest /\ Same
        /\ session' = "over" /\ Publish(<<<<"disconnect", reason>>>>)

Outcome ==
    \/ Fails \/ FailsTwice \/ Ignores \/ Announces \/ Replies
    \/ Greets \/ GreetsAndSends \/ GreetsAndFails \/ AnswersStatus \/ FailsStatus \/ Leaves

\* What a message may be, kind by kind.
LEMMA Arguments ==
    ASSUME msg \in Contents
    PROVE  /\ msg[1] = "hello" => msg[2] \in Hellos
           /\ msg[1] = "disconnect" => msg[2] \in Forms
           /\ msg[1] = "status" => msg[2] \in {68, 69}
           /\ msg[1] \in {"hello", "disconnect", "status", "getReceipts", "ping", "unknown"}
                         \cup Quiet \cup Answered \cup Announced
  BY DEF Contents, Quiet, Answered, Announced

LEMMA Reason ==
    ASSUME NEW form \in Forms, NEW compressed \in BOOLEAN
    PROVE  /\ DecodeReason(compressed, form) \in {"none", "reason", "invalid"}
           /\ DecodeReason(compressed, form) = "reason" <=> form \in {"list", "single"}
  <1>1. /\ form \in {"list", "single"} => ReasonRLP(form) = "reason"
        /\ form \in {"long", "emptylist", "empty"} => ReasonRLP(form) = "invalid"
        /\ form = "bad" => ReasonRLP(form) = "error"
    BY DEF ReasonRLP
  <1>2. CASE compressed
    BY <1>1, <1>2 DEF DecodeReason, Forms
  <1>3. CASE ~compressed
    BY <1>1, <1>3 DEF DecodeReason, Forms
  <1> QED  BY <1>2, <1>3

\* A frame that went out is a reply.
LEMMA Replied ==
    ASSUME NEW kind \in Kinds, NEW layout \in Versions, kind \notin {"status", "transactions"},
           session = "handle", msg[1] # "disconnect",
           Rest, Write(kind, layout, snappy), Continue(<<>>), UNCHANGED <<snappy, client>>
    PROVE  Outcome
  BY Zenon DEF Replies, Outcome

LEMMA SendHelloOutcome == ASSUME IInv, SendHello PROVE Outcome
  <1>1. msg = NoMessage
    BY DEF SendHello, IInv, Beginning
  <1>2. CASE SessionError(<<>>)
    BY <1>1, <1>2 DEF SendHello, Fails, Rest, Outcome
  <1>3. CASE Write("hello", version, snappy) /\ Continue(<<>>) /\ UNCHANGED <<snappy, client>>
    <2>1. session = "hello" /\ Rest /\ version \in Versions
      BY DEF SendHello, Rest, IInv, Typed
    <2>2. "hello" \in Kinds
      BY DEF Kinds
    <2>3. Replies
      BY <1>3, <2>1, <2>2, Zenon DEF Replies
    <2> QED  BY <2>3 DEF Outcome
  <1> QED  BY <1>2, <1>3 DEF SendHello, Reply

LEMMA ReadErrorOutcome == ASSUME IInv, ReadError PROVE Outcome
  BY DEF ReadError, Fails, Rest, Outcome, IInv, Beginning

LEMMA HandleOutcome == ASSUME IInv, Handle PROVE Outcome
  <1> DEFINE arg == msg[2]
  <1>0. /\ session = "handle" /\ msg \in Contents /\ Rest
        /\ garbled \in BOOLEAN /\ version \in Versions /\ events \in Seq(Events)
    BY DEF Handle, Rest, IInv, Typed, Beginning
  <1>1. CASE msg[1] = "disconnect"
    <2>1. HandleDisconnect(arg)
      BY <1>1 DEF Handle
    <2>2. arg \in Forms
      BY <1>0, <1>1, Arguments
    <2> DEFINE reason == DecodeReason(garbled, arg)
    <2>3. /\ reason \in {"none", "reason", "invalid"}
          /\ reason = "reason" <=> arg \in {"list", "single"}
      BY <1>0, <2>2, Reason
    <2>4. session' = "over" /\ Publish(<<<<"disconnect", reason>>>>) /\ Same
      BY <2>1 DEF HandleDisconnect, Same
    <2> HIDE DEF reason
    <2> QED  BY <1>0, <1>1, <2>3, <2>4 DEF Leaves, Outcome
  <1>2. CASE msg[1] = "ping"
    <2>1. Reply("pong", <<>>)
      BY <1>2 DEF Handle, HandlePing, SendPong
    <2>2. CASE SessionError(<<>>)
      BY <1>0, <1>2, <2>2 DEF Fails, Outcome
    <2>3. CASE Write("pong", version, snappy) /\ Continue(<<>>) /\ UNCHANGED <<snappy, client>>
      <3>1. "pong" \in Kinds /\ msg[1] # "disconnect"
        BY <1>2 DEF Kinds
      <3> QED  BY <1>0, <2>3, <3>1, Replied
    <2> QED  BY <2>1, <2>2, <2>3 DEF Reply
  <1>3. CASE msg[1] = "unknown"
    BY <1>0, <1>3 DEF Handle, Same, Ignores, Outcome
  <1>4. CASE garbled /\ msg[1] \notin {"disconnect", "ping", "unknown"}
    <2>1. SessionError(<<>>)
      BY <1>4 DEF Handle
    <2> QED  BY <1>0, <1>4, <2>1 DEF Fails, Outcome
  <1>5. CASE ~garbled /\ msg[1] = "hello"
    <2>1. HandleHello(arg)
      BY <1>5 DEF Handle
    <2>2. arg \in Hellos
      BY <1>0, <1>5, Arguments
    <2>3. CASE ~Validate(arg)
      BY <1>0, <1>5, <2>1, <2>3 DEF HandleHello, Fails, Outcome
    <2>4. CASE Validate(arg)
      <3> DEFINE v == ETHProtocolVersion(arg)
      <3>1. v \in Versions
        BY <2>2, <2>4, Negotiated DEF Versions
      <3>2. session = "handle" /\ msg[1] # "disconnect" /\ v = ETHProtocolVersion(arg)
        BY <1>0, <1>5
      <3>3. \/ /\ version' = v /\ snappy' = TRUE
               /\ Continue(<<<<"hello", arg.caps>>>>)
               /\ UNCHANGED <<statusSent, out>>
            \/ ~statusSent /\ SendStatus(v, TRUE, <<<<"hello", arg.caps>>>>)
            \/ /\ ~statusSent
               /\ version' = v /\ snappy' = TRUE
               /\ session' = "over"
               /\ Publish(Append(<<<<"hello", arg.caps>>>>, Disconnected))
               /\ UNCHANGED <<statusSent, out>>
        BY <2>1, <2>4 DEF HandleHello
      <3> HIDE DEF v, arg
      <3> QED
        BY <1>0, <2>2, <2>4, <3>1, <3>2, <3>3
        DEF SendStatus, Greets, GreetsAndSends, GreetsAndFails, Greeted, Outcome
    <2> QED  BY <2>3, <2>4
  <1>6. CASE ~garbled /\ msg[1] = "status"
    <2>1. HandleStatus(arg)
      BY <1>6 DEF Handle
    <2>2. arg \in {68, 69}
      BY <1>0, <1>6, Arguments
    <2>3. CASE SessionError(<<>>)
      BY <1>0, <1>6, <2>3 DEF Fails, Outcome
    <2>4. CASE ~SessionError(<<>>)
      <3> DEFINE status == <<"status", arg>>
      <3>1. Decodes(arg)
        BY <2>1, <2>4 DEF HandleStatus
      <3>2. IF statusSent THEN Continue(<<status>>) /\ Same
            ELSE SendStatus(version, snappy, <<status>>)
        BY <2>1, <2>4, <3>1 DEF HandleStatus, Same
      <3>3. status \in Events /\ status[1] = "status"
        BY <2>2 DEF Events
      <3>4. CASE statusSent
        <4>1. Continue(<<status>>) /\ Same
          BY <3>2, <3>4
        <4> HIDE DEF status
        <4> QED  BY <1>0, <1>6, <3>3, <3>4, <4>1 DEF Announces, Outcome
      <3>5. CASE ~statusSent
        <4>1. SendStatus(version, snappy, <<status>>)
          BY <3>2, <3>5
        <4> HIDE DEF arg
        <4> QED
          BY <1>0, <1>6, <2>2, <3>1, <3>5, <4>1
          DEF SendStatus, AnswersStatus, FailsStatus, Same, client, Outcome
      <3> QED  BY <3>4, <3>5
    <2> QED  BY <2>3, <2>4
  <1>7. CASE ~garbled /\ msg[1] = "getReceipts"
    <2>1. HandleGetReceipts(arg)
      BY <1>7 DEF Handle
    <2> DEFINE layout == IF version >= 70 THEN 70 ELSE 69
    <2>2. layout \in Versions
      BY DEF Versions, MinVersion, MaxVersion
    <2>3. \/ SessionError(<<>>)
          \/ Write("receipts", layout, snappy) /\ Continue(<<>>) /\ UNCHANGED <<snappy, client>>
          \/ SessionError(<<Disconnected>>)
      BY <2>1 DEF HandleGetReceipts, SendReceipts
    <2> HIDE DEF layout
    <2>4. CASE Write("receipts", layout, snappy) /\ Continue(<<>>) /\ UNCHANGED <<snappy, client>>
      <3>1. "receipts" \in Kinds /\ msg[1] # "disconnect"
        BY <1>7 DEF Kinds
      <3> QED  BY <1>0, <2>2, <2>4, <3>1, Replied
    <2>5. CASE SessionError(<<>>) \/ SessionError(<<Disconnected>>)
      BY <1>0, <1>7, <2>5 DEF Fails, FailsTwice, Outcome
    <2> QED  BY <2>3, <2>4, <2>5
  <1>8. CASE ~garbled /\ msg[1] \in Announced
    <2>1. Continue(<<<<msg[1], "ok">>>>) /\ Same
      BY <1>8
      DEF Handle, Announced, HandleTransactions, HandleNewPooledTransactionHashes, Same
    <2> DEFINE x == <<msg[1], "ok">>
    <2>2. x \in Events /\ x[1] \in {"transactions", "newPooledTransactionHashes"}
      BY <1>8 DEF Events, Announced
    <2> HIDE DEF x
    <2>3. msg[1] # "disconnect"
      BY <1>8 DEF Announced
    <2> QED  BY <1>0, <2>1, <2>2, <2>3 DEF Announces, Outcome, x
  <1>9. CASE ~garbled /\ msg[1] \in Answered
    <2>1. \/ SessionError(<<>>)
          \/ \E kind \in {"blockHeaders", "blockBodies", "pooledTransactions"} :
                Write(kind, version, snappy) /\ Continue(<<>>) /\ UNCHANGED <<snappy, client>>
      BY <1>9
      DEF Handle, Answered, HandleGetBlockHeaders, HandleGetBlockBodies,
          HandleGetPooledTransactions, SendBlockHeaders, SendBlockBodies,
          SendPooledTransactions, Reply
    <2>2. msg[1] # "disconnect"
      BY <1>9 DEF Answered
    <2>3. CASE SessionError(<<>>)
      BY <1>0, <2>2, <2>3 DEF Fails, Outcome
    <2>4. ASSUME NEW kind \in {"blockHeaders", "blockBodies", "pooledTransactions"},
                 Write(kind, version, snappy), Continue(<<>>), UNCHANGED <<snappy, client>>
          PROVE  Outcome
      <3>1. kind \in Kinds /\ kind \notin {"status", "transactions"}
        BY <2>4 DEF Kinds
      <3> QED  BY <1>0, <2>2, <2>4, <3>1, Replied
    <2> QED  BY <2>1, <2>3, <2>4
  <1>10. CASE ~garbled /\ msg[1] \in Quiet
    BY <1>0, <1>10
    DEF Handle, Quiet, HandleBlockHeaders, HandleBlockRangeUpdate,
        HandlePooledTransactions, Same, Ignores, Outcome
  <1> QED
    BY <1>0, <1>1, <1>2, <1>3, <1>4, <1>5, <1>6, <1>7, <1>8, <1>9, <1>10, Arguments

-----------------------------------------------------------------------------
(* Each outcome keeps the inductive invariant *)

\* The session's only disconnect event, and its last.
LEMMA FailsKeeps == ASSUME IInv, Fails PROVE IInv'
  <1> USE DEF IInv
  <1>a. /\ UNCHANGED <<start, starts, msg, garbled, snappy, version, statusSent, out>>
        /\ session' = "over"
        /\ session \in {"hello", "read", "handle"} /\ msg[1] # "disconnect"
    BY DEF Fails, Rest, SessionError, client, Beginning, NoMessage
  <1>b. Grown(1) /\ First = <<"disconnect", "none">>
    BY PublishEnd DEF Fails, SessionError, Typed, Disconnected
  <1>f. events \in Seq(Events)
    BY DEF Typed
  <1>g. /\ HasEvent("hello")' <=> HasEvent("hello") \/ First[1] = "hello"
        /\ HasEvent("status")' <=> HasEvent("status") \/ First[1] = "status"
    BY <1>b, <1>f, HasOne
  <1>1. Typed'
    BY <1>a, <1>b DEF Typed, Versions, SupportedEthCaps, Grown
  <1>2. Beginning'
    BY <1>a DEF Beginning, Typed
  <1>3. EndShape'
    BY <1>a, <1>b, <1>f, EndedOne DEF EndShape
  <1>4. LastHello'
    BY <1>a, <1>b, <1>f, <1>g, LastHelloStays DEF LastHello
  <1>5. FirstSession'
    BY <1>a, <1>b, <1>f, <1>g DEF FirstSession, Beginning, HasFrame
  <1>6. FramesFit'
    BY <1>a, <1>b, <1>f, SoundStays DEF FramesFit, HelloOrder, StatusOnce, HasFrame, Typed
  <1> QED  BY <1>1, <1>2, <1>3, <1>4, <1>5, <1>6

\* The one session that ends with two disconnect events.
LEMMA FailsTwiceKeeps == ASSUME IInv, FailsTwice PROVE IInv'
  <1> USE DEF IInv
  <1>a. /\ UNCHANGED <<start, starts, msg, garbled, snappy, version, statusSent, out>>
        /\ session' = "over"
        /\ session = "handle" /\ msg[1] = "getReceipts"
    BY DEF FailsTwice, Rest, SessionError, client
  <1>b. /\ Grown(2)
        /\ First = <<"disconnect", "none">>
        /\ Second = <<"disconnect", "none">>
    <2>1. Disconnected \in Events
      BY DEF Disconnected, Events
    <2> QED  BY <2>1, PublishThenEnd DEF FailsTwice, SessionError, Typed, Disconnected
  <1>f. events \in Seq(Events)
    BY DEF Typed
  <1>g. /\ HasEvent("hello")' <=> HasEvent("hello") \/ First[1] = "hello" \/ Second[1] = "hello"
        /\ HasEvent("status")' <=> HasEvent("status") \/ First[1] = "status" \/ Second[1] =
           "status"
    BY <1>b, <1>f, HasTwo
  <1>1. Typed'
    BY <1>a, <1>b DEF Typed, Versions, SupportedEthCaps, Grown
  <1>2. Beginning'
    BY <1>a DEF Beginning, Typed
  <1>3. EndShape'
    BY <1>a, <1>b, <1>f, EndedTwo DEF EndShape
  <1>4. LastHello'
    BY <1>a, <1>b, <1>f, <1>g, LastHelloStays DEF LastHello
  <1>5. FirstSession'
    BY <1>a, <1>b, <1>f, <1>g DEF FirstSession, Beginning, HasFrame
  <1>6. FramesFit'
    BY <1>a, <1>b, <1>f, SoundStays DEF FramesFit, HelloOrder, StatusOnce, HasFrame, Typed
  <1> QED  BY <1>1, <1>2, <1>3, <1>4, <1>5, <1>6

\* Nothing was published and nothing went out.
LEMMA IgnoresKeeps == ASSUME IInv, Ignores PROVE IInv'
  <1> USE DEF IInv
  <1>a. /\ UNCHANGED <<start, starts, msg, garbled, snappy, version, statusSent, out>>
        /\ session' = "read"
        /\ session = "handle" /\ msg[1] # "disconnect"
    BY DEF Ignores, Rest, Same, Continue, client
  <1>b. events' = events
    BY PublishNone DEF Ignores, Continue, Typed
  <1>1. Typed'
    BY <1>a, <1>b DEF Typed, Versions, SupportedEthCaps
  <1>2. Beginning'
    BY <1>a DEF Beginning, Typed
  <1>3. EndShape'
    BY <1>a, <1>b DEF EndShape, Ended
  <1>4. LastHello'
    BY <1>a, <1>b DEF LastHello, LastHelloBest, HasEvent, Best
  <1>5. FirstSession'
    BY <1>a, <1>b DEF FirstSession, Beginning, HasEvent, HasFrame
  <1>6. FramesFit'
    BY <1>a, <1>b, SoundStays DEF FramesFit, HelloOrder, StatusOnce, HasFrame, Typed
  <1> QED  BY <1>1, <1>2, <1>3, <1>4, <1>5, <1>6

\* The event is neither a Hello nor a disconnect.
LEMMA AnnouncesKeeps == ASSUME IInv, Announces PROVE IInv'
  <1> USE DEF IInv
  <1> PICK x \in Events :
           /\ session = "handle" /\ msg[1] # "disconnect"
           /\ \/ x[1] \in {"transactions", "newPooledTransactionHashes"}
              \/ x[1] = "status" /\ statusSent
           /\ Rest /\ Same
           /\ Continue(<<x>>)
    BY DEF Announces
  <1>a. /\ UNCHANGED <<start, starts, msg, garbled, snappy, version, statusSent, out>>
        /\ session' = "read"
        /\ session = "handle" /\ msg[1] # "disconnect"
    BY DEF Rest, Same, Continue, client
  <1>b. Grown(1) /\ First = x
    BY PublishOne DEF Continue, Typed
  <1>c. x[1] \notin {"hello", "disconnect"} /\ (x[1] = "status" => statusSent)
    OBVIOUS
  <1>f. events \in Seq(Events)
    BY DEF Typed
  <1>g. /\ HasEvent("hello")' <=> HasEvent("hello") \/ First[1] = "hello"
        /\ HasEvent("status")' <=> HasEvent("status") \/ First[1] = "status"
    BY <1>b, <1>f, HasOne
  <1>1. Typed'
    BY <1>a, <1>b, <1>c DEF Typed, Versions, SupportedEthCaps, Grown
  <1>2. Beginning'
    BY <1>a DEF Beginning, Typed
  <1>3. EndShape'
    BY <1>a, <1>b, <1>c, <1>f, EndedOne DEF EndShape
  <1>4. LastHello'
    BY <1>a, <1>b, <1>c, <1>f, <1>g, LastHelloStays DEF LastHello
  <1>5. FirstSession'
    BY <1>a, <1>b, <1>c, <1>f, <1>g DEF FirstSession, Beginning, HasFrame
  <1>6. FramesFit'
    BY <1>a, <1>b, <1>f, SoundStays DEF FramesFit, HelloOrder, StatusOnce, HasFrame, Typed
  <1> QED  BY <1>1, <1>2, <1>3, <1>4, <1>5, <1>6

\* The frame is no Status, and a Hello comes first.
LEMMA RepliesKeeps == ASSUME IInv, Replies PROVE IInv'
  <1> USE DEF IInv
  <1> PICK kind \in Kinds, layout \in Versions :
           /\ kind \notin {"status", "transactions"}
           /\ \/ session = "hello" /\ kind = "hello"
              \/ session = "handle" /\ msg[1] # "disconnect"
           /\ Rest
           /\ Write(kind, layout, snappy) /\ Continue(<<>>)
           /\ UNCHANGED <<snappy, client>>
    BY DEF Replies
  <1>a. /\ UNCHANGED <<start, starts, msg, garbled, snappy, version, statusSent>>
        /\ session' = "read"
        /\ (session = "hello" /\ kind = "hello") \/ (session = "handle" /\ msg[1] #
           "disconnect")
    BY DEF Rest, Continue, client
  <1>b. events' = events
    BY PublishNone DEF Continue, Typed
  <1>c. /\ Added(<<kind, layout, snappy>>) /\ kind \notin {"status", "transactions"}
    BY WriteOne DEF Typed
  <1>h. PICK frame : frame = <<kind, layout, snappy>>
    OBVIOUS
  <1>i. out \in Seq(Frames) /\ events \in Seq(Events) /\ Added(frame) /\ frame[1] = kind
    BY <1>c, <1>h DEF Typed
  <1>j. /\ HasFrame("hello")' <=> HasFrame("hello") \/ frame[1] = "hello"
        /\ HasFrame("status")' <=> HasFrame("status") \/ frame[1] = "status"
    BY <1>i, HasAdded
  <1>1. Typed'
    BY <1>a, <1>b, <1>c, <1>i, <1>h DEF Typed, Versions, SupportedEthCaps, Added
  <1>2. Beginning'
    BY <1>a DEF Beginning, Typed, NoMessage
  <1>3. EndShape'
    BY <1>a, <1>b DEF EndShape, Ended
  <1>4. LastHello'
    BY <1>a, <1>b DEF LastHello, LastHelloBest, HasEvent, Best
  <1>5. FirstSession'
    BY <1>a, <1>b, <1>c, <1>i, <1>j, <1>h DEF FirstSession, Beginning, HasEvent
  <1>6. FramesFit'
    BY <1>a, <1>b, <1>c, <1>i, <1>j, <1>h, OrderAdded, OnceAdded, SoundAdded DEF FramesFit
  <1> QED  BY <1>1, <1>2, <1>3, <1>4, <1>5, <1>6

\* The Hello is the last one now, and its version the best.
LEMMA GreetsKeeps == ASSUME IInv, Greets PROVE IInv'
  <1> USE DEF IInv
  <1> PICK h \in Hellos, v \in Versions :
           /\ Greeted(h, v)
           /\ Continue(<<<<"hello", h.caps>>>>)
           /\ UNCHANGED <<statusSent, out>>
    BY DEF Greets
  <1>a. /\ UNCHANGED <<start, starts, msg, garbled, statusSent, out>>
        /\ session' = "read"
        /\ session = "handle" /\ msg[1] # "disconnect"
        /\ version' = v /\ snappy' = TRUE
    BY DEF Greeted, Rest, Continue
  <1>d. /\ v \in h.caps \cap SupportedEthCaps
        /\ \A w \in h.caps \cap SupportedEthCaps : w <= v
    BY Negotiated DEF Greeted, SupportedEthCaps
  <1>e. <<"hello", h.caps>> \in Events
    BY DEF Hellos, Events
  <1>b. Grown(1) /\ First = <<"hello", h.caps>>
    BY <1>e, PublishOne DEF Continue, Typed
  <1>f. events \in Seq(Events)
    BY DEF Typed
  <1>g. /\ HasEvent("hello")' <=> HasEvent("hello") \/ First[1] = "hello"
        /\ HasEvent("status")' <=> HasEvent("status") \/ First[1] = "status"
    BY <1>b, <1>f, HasOne
  <1>1. Typed'
    BY <1>a, <1>b, <1>d, <1>e DEF Typed, Versions, SupportedEthCaps, Grown
  <1>2. Beginning'
    BY <1>a DEF Beginning, Typed
  <1>3. EndShape'
    BY <1>a, <1>b, <1>f, EndedOne DEF EndShape
  <1>4. LastHello'
    BY <1>a, <1>b, <1>d, <1>f, LastHelloComes DEF LastHello
  <1>5. FirstSession'
    BY <1>a, <1>b, <1>d, <1>e, <1>f, <1>g DEF FirstSession, Beginning, HasFrame
  <1>6. FramesFit'
    <2>1. UNCHANGED <<starts, statusSent, out>> /\ Grown(1) /\ session = "handle"
      BY <1>a, <1>b
    <2>2. starts = 1 => StatusSound'
      BY <1>f, <2>1, SoundStays DEF FramesFit
    <2> QED  BY <1>a, <2>1, <2>2 DEF FramesFit, HelloOrder, StatusOnce, HasFrame
  <1> QED  BY <1>1, <1>2, <1>3, <1>4, <1>5, <1>6

\* The first Status goes out, in the version just negotiated.
LEMMA GreetsAndSendsKeeps == ASSUME IInv, GreetsAndSends PROVE IInv'
  <1> USE DEF IInv
  <1> PICK h \in Hellos, v \in Versions :
           /\ Greeted(h, v)
           /\ Continue(<<<<"hello", h.caps>>>>)
           /\ ~statusSent /\ statusSent' = TRUE
           /\ Write("status", v, TRUE)
    BY DEF GreetsAndSends
  <1>a. /\ UNCHANGED <<start, starts, msg, garbled>>
        /\ session' = "read"
        /\ session = "handle" /\ msg[1] # "disconnect"
        /\ version' = v /\ snappy' = TRUE
    BY DEF Greeted, Rest, Continue
  <1>d. /\ v \in h.caps \cap SupportedEthCaps
        /\ \A w \in h.caps \cap SupportedEthCaps : w <= v
    BY Negotiated DEF Greeted, SupportedEthCaps
  <1>e. <<"hello", h.caps>> \in Events
    BY DEF Hellos, Events
  <1>b. Grown(1) /\ First = <<"hello", h.caps>>
    BY <1>e, PublishOne DEF Continue, Typed
  <1>c. /\ Added(<<"status", v, TRUE>>)
        /\ ~statusSent /\ statusSent' = TRUE
    BY WriteOne DEF Typed, Kinds
  <1>f. events \in Seq(Events)
    BY DEF Typed
  <1>g. /\ HasEvent("hello")' <=> HasEvent("hello") \/ First[1] = "hello"
        /\ HasEvent("status")' <=> HasEvent("status") \/ First[1] = "status"
    BY <1>b, <1>f, HasOne
  <1>h. PICK frame : frame = <<"status", v, TRUE>>
    OBVIOUS
  <1>i. out \in Seq(Frames) /\ events \in Seq(Events) /\ Added(frame) /\ frame[1] = "status"
    BY <1>c, <1>h DEF Typed
  <1>j. /\ HasFrame("hello")' <=> HasFrame("hello") \/ frame[1] = "hello"
        /\ HasFrame("status")' <=> HasFrame("status") \/ frame[1] = "status"
    BY <1>i, HasAdded
  <1>1. Typed'
    BY <1>a, <1>b, <1>d, <1>e, <1>c, <1>i, <1>h DEF Typed, Versions, SupportedEthCaps, Grown,
       Added
  <1>2. Beginning'
    BY <1>a DEF Beginning, Typed
  <1>3. EndShape'
    BY <1>a, <1>b, <1>f, EndedOne DEF EndShape
  <1>4. LastHello'
    BY <1>a, <1>b, <1>d, <1>f, LastHelloComes DEF LastHello
  <1>5. FirstSession'
    BY <1>a, <1>b, <1>d, <1>e, <1>c, <1>f, <1>g, <1>i, <1>j, <1>h DEF FirstSession, Beginning
  <1>6. FramesFit'
    <2>1. frame[3] = TRUE /\ Offered(frame[2])'
      <3>1. frame[2] = v /\ frame[3] = TRUE
        BY <1>h
      <3>2. Offered(v)'
        BY <1>b, <1>d, <1>f, FirstOffered
      <3> QED  BY <3>1, <3>2
    <2>2. starts = 1 => StatusSound'
      BY <1>b, <1>i, <2>1, SoundAdded DEF FramesFit
    <2>3. HelloOrder' /\ StatusOnce'
      BY <1>a, <1>c, <1>i, OrderAdded, OnceAdded DEF FramesFit
    <2> QED  BY <1>a, <1>c, <1>j, <2>2, <2>3 DEF FramesFit
  <1> QED  BY <1>1, <1>2, <1>3, <1>4, <1>5, <1>6

\* The Hello was published before the session failed.
LEMMA GreetsAndFailsKeeps == ASSUME IInv, GreetsAndFails PROVE IInv'
  <1> USE DEF IInv
  <1> PICK h \in Hellos, v \in Versions :
           /\ Greeted(h, v)
           /\ session' = "over" /\ Publish(Append(<<<<"hello", h.caps>>>>, Disconnected))
           /\ UNCHANGED <<statusSent, out>>
    BY DEF GreetsAndFails
  <1>a. /\ UNCHANGED <<start, starts, msg, garbled, statusSent, out>>
        /\ session' = "over"
        /\ session = "handle" /\ msg[1] # "disconnect"
        /\ version' = v /\ snappy' = TRUE
    BY DEF Greeted, Rest, Continue
  <1>d. /\ v \in h.caps \cap SupportedEthCaps
        /\ \A w \in h.caps \cap SupportedEthCaps : w <= v
    BY Negotiated DEF Greeted, SupportedEthCaps
  <1>e. <<"hello", h.caps>> \in Events
    BY DEF Hellos, Events
  <1>b. /\ Grown(2)
        /\ First = <<"hello", h.caps>>
        /\ Second = <<"disconnect", "none">>
    BY <1>e, PublishThenEnd DEF Typed, Disconnected
  <1>f. events \in Seq(Events)
    BY DEF Typed
  <1>g. /\ HasEvent("hello")' <=> HasEvent("hello") \/ First[1] = "hello" \/ Second[1] = "hello"
        /\ HasEvent("status")' <=> HasEvent("status") \/ First[1] = "status" \/ Second[1] =
           "status"
    BY <1>b, <1>f, HasTwo
  <1>1. Typed'
    BY <1>a, <1>b, <1>d, <1>e DEF Typed, Versions, SupportedEthCaps, Grown
  <1>2. Beginning'
    BY <1>a DEF Beginning, Typed
  <1>3. EndShape'
    BY <1>a, <1>b, <1>f, EndedTwo DEF EndShape
  <1>4. LastHello'
    BY <1>a, <1>b, <1>d, <1>f, LastHelloComes DEF LastHello
  <1>5. FirstSession'
    BY <1>a, <1>b, <1>d, <1>e, <1>f, <1>g DEF FirstSession, Beginning, HasFrame
  <1>6. FramesFit'
    <2>1. UNCHANGED <<starts, statusSent, out>> /\ Grown(2) /\ session = "handle"
      BY <1>a, <1>b
    <2>2. starts = 1 => StatusSound'
      BY <1>f, <2>1, SoundStays DEF FramesFit
    <2> QED  BY <1>a, <2>1, <2>2 DEF FramesFit, HelloOrder, StatusOnce, HasFrame
  <1> QED  BY <1>1, <1>2, <1>3, <1>4, <1>5, <1>6

\* The first Status goes out, in the version of an earlier Hello.
LEMMA AnswersStatusKeeps == ASSUME IInv, AnswersStatus PROVE IInv'
  <1> USE DEF IInv
  <1> PICK layout \in {68, 69} :
           /\ session = "handle" /\ msg[1] # "disconnect"
           /\ Decodes(layout)
           /\ Rest
           /\ Continue(<<<<"status", layout>>>>)
           /\ ~statusSent /\ statusSent' = TRUE
           /\ Write("status", version, snappy)
           /\ UNCHANGED <<version, snappy>>
    BY DEF AnswersStatus
  <1>a. /\ UNCHANGED <<start, starts, msg, garbled, snappy, version>>
        /\ session' = "read"
        /\ session = "handle" /\ msg[1] # "disconnect"
        /\ version # 0
    BY DEF Rest, Continue, Decodes
  <1>b. Grown(1) /\ First = <<"status", layout>>
    <2>1. <<"status", layout>> \in Events
      BY DEF Events
    <2> QED  BY <2>1, PublishOne DEF Continue, Typed
  <1>c. /\ Added(<<"status", version, snappy>>)
        /\ ~statusSent /\ statusSent' = TRUE
    BY WriteOne DEF Typed, Kinds
  <1>f. events \in Seq(Events)
    BY DEF Typed
  <1>g. /\ HasEvent("hello")' <=> HasEvent("hello") \/ First[1] = "hello"
        /\ HasEvent("status")' <=> HasEvent("status") \/ First[1] = "status"
    BY <1>b, <1>f, HasOne
  <1>h. PICK frame : frame = <<"status", version, snappy>>
    OBVIOUS
  <1>i. out \in Seq(Frames) /\ events \in Seq(Events) /\ Added(frame) /\ frame[1] = "status"
    BY <1>c, <1>h DEF Typed
  <1>j. /\ HasFrame("hello")' <=> HasFrame("hello") \/ frame[1] = "hello"
        /\ HasFrame("status")' <=> HasFrame("status") \/ frame[1] = "status"
    BY <1>i, HasAdded
  <1>1. Typed'
    BY <1>a, <1>b, <1>c, <1>i, <1>h DEF Typed, Versions, SupportedEthCaps, Grown, Added
  <1>2. Beginning'
    BY <1>a DEF Beginning, Typed
  <1>3. EndShape'
    BY <1>a, <1>b, <1>f, EndedOne DEF EndShape
  <1>4. LastHello'
    BY <1>a, <1>b, <1>f, <1>g, LastHelloStays DEF LastHello
  <1>5. FirstSession'
    BY <1>a, <1>b, <1>c, <1>f, <1>g, <1>i, <1>j, <1>h DEF FirstSession, Beginning
  <1>6. FramesFit'
    <2>1. starts = 1 => frame[3] = TRUE /\ Offered(frame[2])'
      <3> SUFFICES ASSUME starts = 1 PROVE frame[3] = TRUE /\ Offered(frame[2])'
        OBVIOUS
      <3>1. snappy = TRUE /\ HasEvent("hello")
        BY <1>a DEF FirstSession, Typed
      <3> PICK v \in Versions : v = version
        BY DEF Typed
      <3>2. Offered(v)
        BY <3>1, BestOffered DEF LastHello
      <3>3. Offered(v)'
        BY <1>b, <1>f, <3>2, OfferedStays
      <3>4. frame[2] = v /\ frame[3] = TRUE
        BY <1>h, <3>1
      <3> QED  BY <3>3, <3>4
    <2>2. starts = 1 => StatusSound'
      BY <1>b, <1>i, <2>1, SoundAdded DEF FramesFit
    <2>3. HelloOrder' /\ StatusOnce'
      BY <1>a, <1>c, <1>i, OrderAdded, OnceAdded DEF FramesFit
    <2> QED  BY <1>a, <1>c, <1>j, <2>2, <2>3 DEF FramesFit
  <1> QED  BY <1>1, <1>2, <1>3, <1>4, <1>5, <1>6

\* The remote's Status was published before the session failed.
LEMMA FailsStatusKeeps == ASSUME IInv, FailsStatus PROVE IInv'
  <1> USE DEF IInv
  <1> PICK layout \in {68, 69} :
           /\ session = "handle" /\ msg[1] # "disconnect"
           /\ Rest /\ Same
           /\ session' = "over" /\ Publish(Append(<<<<"status", layout>>>>, Disconnected))
    BY DEF FailsStatus
  <1>a. /\ UNCHANGED <<start, starts, msg, garbled, snappy, version, statusSent, out>>
        /\ session' = "over"
        /\ session = "handle" /\ msg[1] # "disconnect"
    BY DEF Rest, Same, client
  <1>b. /\ Grown(2)
        /\ First = <<"status", layout>>
        /\ Second = <<"disconnect", "none">>
    <2>1. <<"status", layout>> \in Events
      BY DEF Events
    <2> QED  BY <2>1, PublishThenEnd DEF Typed, Disconnected
  <1>f. events \in Seq(Events)
    BY DEF Typed
  <1>g. /\ HasEvent("hello")' <=> HasEvent("hello") \/ First[1] = "hello" \/ Second[1] = "hello"
        /\ HasEvent("status")' <=> HasEvent("status") \/ First[1] = "status" \/ Second[1] =
           "status"
    BY <1>b, <1>f, HasTwo
  <1>1. Typed'
    BY <1>a, <1>b DEF Typed, Versions, SupportedEthCaps, Grown
  <1>2. Beginning'
    BY <1>a DEF Beginning, Typed
  <1>3. EndShape'
    BY <1>a, <1>b, <1>f, EndedTwo DEF EndShape
  <1>4. LastHello'
    BY <1>a, <1>b, <1>f, <1>g, LastHelloStays DEF LastHello
  <1>5. FirstSession'
    BY <1>a, <1>b, <1>f, <1>g DEF FirstSession, Beginning, HasFrame
  <1>6. FramesFit'
    BY <1>a, <1>b, <1>f, SoundStays DEF FramesFit, HelloOrder, StatusOnce, HasFrame, Typed
  <1> QED  BY <1>1, <1>2, <1>3, <1>4, <1>5, <1>6

\* The last event has the remote's reason.
LEMMA LeavesKeeps == ASSUME IInv, Leaves PROVE IInv'
  <1> USE DEF IInv
  <1> PICK reason \in {"none", "reason", "invalid"} :
           /\ session = "handle" /\ msg[1] = "disconnect"
           /\ reason = "reason" <=> msg[2] \in {"list", "single"}
           /\ Rest /\ Same
           /\ session' = "over" /\ Publish(<<<<"disconnect", reason>>>>)
    BY DEF Leaves
  <1>a. /\ UNCHANGED <<start, starts, msg, garbled, snappy, version, statusSent, out>>
        /\ session' = "over"
        /\ session = "handle" /\ msg[1] = "disconnect"
    BY DEF Rest, Same, client
  <1>b. Grown(1) /\ First = <<"disconnect", reason>>
    <2>1. <<"disconnect", reason>> \in Events
      BY DEF Events
    <2> QED  BY <2>1, PublishOne DEF Typed
  <1>c. reason = "reason" <=> msg[2] \in {"list", "single"}
    OBVIOUS
  <1>f. events \in Seq(Events)
    BY DEF Typed
  <1>g. /\ HasEvent("hello")' <=> HasEvent("hello") \/ First[1] = "hello"
        /\ HasEvent("status")' <=> HasEvent("status") \/ First[1] = "status"
    BY <1>b, <1>f, HasOne
  <1>1. Typed'
    BY <1>a, <1>b, <1>c DEF Typed, Versions, SupportedEthCaps, Grown
  <1>2. Beginning'
    BY <1>a DEF Beginning, Typed
  <1>3. EndShape'
    BY <1>a, <1>b, <1>c, <1>f, EndedOne DEF EndShape, Grown, First
  <1>4. LastHello'
    BY <1>a, <1>b, <1>f, <1>g, LastHelloStays DEF LastHello
  <1>5. FirstSession'
    BY <1>a, <1>b, <1>c, <1>f, <1>g DEF FirstSession, Beginning, HasFrame
  <1>6. FramesFit'
    BY <1>a, <1>b, <1>f, SoundStays DEF FramesFit, HelloOrder, StatusOnce, HasFrame, Typed
  <1> QED  BY <1>1, <1>2, <1>3, <1>4, <1>5, <1>6
-----------------------------------------------------------------------------
(* The other steps *)

\* What depends on the variables of the session alone.
LEMMA SameSession ==
    ASSUME IInv, UNCHANGED <<starts, session, msg, version, snappy, statusSent, out, events>>
    PROVE  EndShape' /\ LastHello' /\ FirstSession' /\ FramesFit'
  BY DEF IInv, EndShape, Ended, LastHello, LastHelloBest, Best, HasEvent, FirstSession, HasFrame,
         FramesFit, HelloOrder, StatusOnce, StatusSound, Offered

\* A new session has no events and no frames.
LEMMA StartDialKeeps == ASSUME IInv, StartDial PROVE IInv'
  <1> USE DEF IInv
  <1>a. /\ start' = "dial" /\ starts' = starts + 1 /\ session' = "none" /\ msg' = NoMessage
        /\ garbled' = FALSE /\ snappy' = FALSE /\ out' = <<>> /\ events' = <<>>
        /\ UNCHANGED <<version, statusSent>>
    BY DEF StartDial, client
  <1>1. Typed'
    <2>1. garbled' \in BOOLEAN /\ snappy' \in BOOLEAN
      BY <1>a
    <2>2. out' \in Seq(Frames) /\ events' \in Seq(Events)
      BY <1>a
    <2> QED  BY <1>a, <2>1, <2>2 DEF Typed
  <1>2. Beginning'
    BY <1>a DEF Beginning, Typed
  <1>3. EndShape' /\ LastHello'
    BY <1>a DEF EndShape, Ended, LastHello, HasEvent
  <1>4. FirstSession'
    BY <1>a DEF FirstSession, Beginning, Typed
  <1>5. FramesFit'
    BY <1>a DEF FramesFit, HelloOrder, HasFrame, StatusOnce, StatusSound
  <1> QED  BY <1>1, <1>2, <1>3, <1>4, <1>5

LEMMA DialledKeeps == ASSUME IInv, Dialled PROVE IInv'
  <1>a. /\ start = "dial" /\ start' \in {"shake", "failed"}
        /\ UNCHANGED <<starts, session, msg, garbled, version, snappy, statusSent, out, events>>
    BY DEF Dialled, client
  <1>1. Typed' /\ Beginning'
    BY <1>a DEF IInv, Typed, Beginning
  <1> QED  BY <1>a, <1>1, SameSession DEF IInv

\* A session begins as it was dialled: with nothing.
LEMMA HandshakeKeeps == ASSUME IInv, Handshake PROVE IInv'
  <1> USE DEF IInv
  <1>a. /\ UNCHANGED <<starts, msg, garbled, version, snappy, statusSent, out, events>>
        /\ start = "shake"
        /\ \/ start' = "returned" /\ session' = "hello"
           \/ start' = "failed" /\ UNCHANGED session
    BY DEF Handshake, client
  <1>b. session = "none" /\ out = <<>> /\ events = <<>> /\ starts # 0
    BY <1>a DEF Beginning
  <1>1. Typed' /\ Beginning'
    BY <1>a, <1>b DEF Typed, Beginning
  <1>2. EndShape' /\ LastHello'
    BY <1>a, <1>b DEF EndShape, Ended, LastHello, HasEvent
  <1>3. FirstSession'
    BY <1>a, <1>b DEF FirstSession, HasEvent, HasFrame
  <1>4. FramesFit'
    BY <1>a, <1>b DEF FramesFit, HelloOrder, HasFrame, StatusOnce, StatusSound
  <1> QED  BY <1>1, <1>2, <1>3, <1>4

\* The message read is any the remote may send.
LEMMA ReadKeeps == ASSUME IInv, NEW m \in Contents, Read(m) PROVE IInv'
  <1> USE DEF IInv
  <1>a. /\ session = "read" /\ session' = "handle" /\ msg' = m /\ garbled' \in BOOLEAN
        /\ UNCHANGED <<start, starts, version, snappy, statusSent, out, events>>
    BY DEF Read, client
  <1>1. Typed' /\ Beginning'
    BY <1>a DEF Typed, Beginning
  <1>2. EndShape' /\ LastHello'
    BY <1>a DEF EndShape, Ended, LastHello, LastHelloBest, Best, HasEvent
  <1>3. FirstSession'
    BY <1>a DEF FirstSession, HasEvent, HasFrame
  <1>4. FramesFit'
    BY <1>a DEF FramesFit, HelloOrder, HasFrame, StatusOnce, StatusSound, Offered
  <1> QED  BY <1>1, <1>2, <1>3, <1>4

\* A caller's frame may go out before Hello, and is no Status.
LEMMA TransactionsKeeps == ASSUME IInv, Transactions PROVE IInv'
  <1> USE DEF IInv
  <1>a. /\ UNCHANGED <<start, starts, session, msg, garbled, version, snappy, statusSent, events>>
        /\ start = "returned"
    BY DEF Transactions, client
  <1>h. PICK frame : frame = <<"transactions", version, snappy>>
    OBVIOUS
  <1>i. out \in Seq(Frames) /\ events \in Seq(Events) /\ Added(frame) /\ frame[1] = "transactions"
    BY <1>h, WriteOne DEF Transactions, Typed, Kinds
  <1>j. /\ HasFrame("hello")' <=> HasFrame("hello") \/ frame[1] = "hello"
        /\ HasFrame("status")' <=> HasFrame("status") \/ frame[1] = "status"
    BY <1>i, HasAdded
  <1>1. Typed'
    BY <1>a, <1>i DEF Typed, Added
  <1>2. Beginning'
    BY <1>a, <1>i, AddedAt DEF Beginning, Typed, Added
  <1>3. EndShape' /\ LastHello'
    BY <1>a DEF EndShape, Ended, LastHello, LastHelloBest, Best, HasEvent
  <1>4. FirstSession'
    BY <1>a, <1>i, <1>j DEF FirstSession, HasEvent
  <1>5. FramesFit'
    <2>1. starts = 1 => StatusSound'
      BY <1>a, <1>i, SoundAdded DEF FramesFit
    <2>2. HelloOrder' /\ StatusOnce'
      BY <1>i, OrderAdded, OnceAdded DEF FramesFit
    <2> QED  BY <1>a, <1>i, <1>j, <2>1, <2>2 DEF FramesFit
  <1> QED  BY <1>1, <1>2, <1>3, <1>4, <1>5

LEMMA OutcomeKeeps == ASSUME IInv, Outcome PROVE IInv'
  BY FailsKeeps, FailsTwiceKeeps, IgnoresKeeps, AnnouncesKeeps, RepliesKeeps, GreetsKeeps,
     GreetsAndSendsKeeps, GreetsAndFailsKeeps, AnswersStatusKeeps, FailsStatusKeeps, LeavesKeeps
  DEF Outcome

-----------------------------------------------------------------------------
(* The theorems *)

LEMMA InitHolds == Init => IInv
  <1> SUFFICES ASSUME Init PROVE IInv
    OBVIOUS
  <1>1. Typed
    <2>1. garbled \in BOOLEAN /\ snappy \in BOOLEAN /\ statusSent \in BOOLEAN
      BY DEF Init
    <2>2. out \in Seq(Frames) /\ events \in Seq(Events)
      BY DEF Init
    <2> QED  BY <2>1, <2>2 DEF Init, Typed, Versions
  <1>2. Beginning /\ EndShape
    BY DEF Init, Beginning, EndShape, Ended
  <1>3. LastHello /\ FirstSession
    BY DEF Init, LastHello, FirstSession, HasEvent
  <1>4. FramesFit
    BY DEF Init, FramesFit, HelloOrder, HasFrame, StatusOnce, StatusSound
  <1> QED  BY <1>1, <1>2, <1>3, <1>4 DEF IInv

\* Every step keeps the inductive invariant.
LEMMA NextKeeps == IInv /\ [Next]_vars => IInv'
  <1> SUFFICES ASSUME IInv, [Next]_vars PROVE IInv'
    OBVIOUS
  <1>1. CASE StartDial \/ Dialled \/ Handshake
    BY <1>1, StartDialKeeps, DialledKeeps, HandshakeKeeps
  <1>2. CASE Stop \/ UNCHANGED vars
    <2>1. UNCHANGED <<start, starts, session, msg, garbled, version, snappy, statusSent, out,
                      events>>
      BY <1>2 DEF Stop, vars, client
    <2>2. Typed' /\ Beginning'
      BY <2>1 DEF IInv, Typed, Beginning
    <2> QED  BY <2>1, <2>2, SameSession DEF IInv
  <1>3. CASE SendHello \/ ReadError \/ Handle
    BY <1>3, SendHelloOutcome, ReadErrorOutcome, HandleOutcome, OutcomeKeeps
  <1>4. ASSUME NEW m \in Contents, Read(m) PROVE IInv'
    BY <1>4, ReadKeeps
  <1>5. CASE Transactions
    BY <1>5, TransactionsKeeps
  <1> QED  BY <1>1, <1>2, <1>3, <1>4, <1>5 DEF Next

\* The inductive invariant holds in every reachable state.
THEOREM SpecInv == Spec => []IInv
  <1>1. Init => IInv
    BY InitHolds
  <1>2. IInv /\ [Next]_vars => IInv'
    BY NextKeeps
  <1> QED  BY <1>1, <1>2, PTL DEF Spec

\* The disconnect events of a session that has ended.
LEMMA DisconnectsAre ==
    ASSUME events \in Seq(Events), NEW n \in 0 .. 2, Ended(n)
    PROVE  /\ Disconnects = Len(events) - n + 1 .. Len(events)
           /\ Cardinality(Disconnects) = n
  <1>1. Disconnects = Len(events) - n + 1 .. Len(events)
    BY DEF Disconnects, Ended
  <1>2. Cardinality(Len(events) - n + 1 .. Len(events)) = n
    BY FS_Interval DEF Ended
  <1> QED  BY <1>1, <1>2

\* A session ends with its disconnect event, which comes once, twice only
\* after a failed answer to GetReceipts, and which has the reason of a
\* remote's Disconnect (client.go:215-320, message_disconnect.go:35-87).
THEOREM DisconnectsOnce == Spec => []DisconnectOnceAndLast
  <1>1. IInv => DisconnectOnceAndLast
    <2> SUFFICES ASSUME IInv PROVE DisconnectOnceAndLast
      OBVIOUS
    <2>1. events \in Seq(Events)
      BY DEF IInv, Typed
    <2>2. CASE session # "over"
      <3>1. Disconnects = {} /\ Cardinality(Disconnects) = 0
        BY <2>1, <2>2, DisconnectsAre DEF IInv, EndShape
      <3> QED  BY <2>2, <3>1 DEF DisconnectOnceAndLast
    <2>3. CASE session = "over"
      <3>1. PICK n \in 1 .. 2 : Ended(n) /\ (n = 2 => msg[1] = "getReceipts")
        BY <2>3 DEF IInv, EndShape
      <3>2. /\ Disconnects = Len(events) - n + 1 .. Len(events)
            /\ Cardinality(Disconnects) = n
        <4>1. n \in 0 .. 2 /\ Ended(n)
          BY <3>1
        <4> QED  BY <2>1, <4>1, DisconnectsAre
      <3>3. Disconnects # {}
        <4>1. Len(events) \in Nat /\ Len(events) \in Len(events) - n + 1 .. Len(events)
          BY <2>1, <3>1
        <4> QED  BY <3>2, <4>1
      <3>4. Cardinality(Disconnects) <= IF msg[1] = "getReceipts" THEN 2 ELSE 1
        BY <3>1, <3>2
      <3>5. \A i \in Disconnects : \A j \in i .. Len(events) : j \in Disconnects
        BY <2>1, <3>2
      <3>6. msg[1] = "disconnect" =>
               (events[Len(events)][2] = "reason" <=> msg[2] \in {"list", "single"})
        BY <2>3 DEF IInv, EndShape
      <3> QED  BY <2>3, <3>3, <3>4, <3>5, <3>6 DEF DisconnectOnceAndLast
    <2> QED  BY <2>2, <2>3
  <1> QED  BY <1>1, SpecInv, PTL

\* However often Hello and Status are repeated, a session opens with Hello and
\* sends one Status at most, the first session's compressed and of a version
\* the remote offered (message_hello.go:170, message_status.go:160).
THEOREM StatusOnlyOnce == Spec => []OneStatus
  <1>1. IInv => OneStatus
    <2> SUFFICES ASSUME IInv PROVE OneStatus
      OBVIOUS
    <2>1. DOMAIN out = 1 .. Len(out) /\ DOMAIN events = 1 .. Len(events)
      BY DEF IInv, Typed
    <2>2. \A i \in DOMAIN out : out[i][1] \notin {"hello", "transactions"} =>
             \E j \in 1 .. i - 1 : out[j][1] = "hello"
      BY <2>1 DEF IInv, FramesFit, HelloOrder
    <2>3. Cardinality(Statuses) <= 1
      <3>1. CASE Statuses = {}
        BY <3>1, FS_EmptySet
      <3>2. ASSUME NEW i \in Statuses PROVE Cardinality(Statuses) <= 1
        <4>1. Statuses = {i}
          BY <2>1 DEF Statuses, IInv, FramesFit, StatusOnce
        <4> QED  BY <4>1, FS_Singleton
      <3> QED  BY <3>1, <3>2
    <2>4. starts = 1 => \A i \in Statuses :
             /\ out[i][3]
             /\ \E j \in DOMAIN events : events[j][1] = "hello" /\ out[i][2] \in events[j][2]
      BY <2>1 DEF Statuses, IInv, FramesFit, StatusSound, Offered
    <2> QED  BY <2>2, <2>3, <2>4 DEF OneStatus
  <1> QED  BY <1>1, SpecInv, PTL

\* A remote whose Status the first session accepted has got ours
\* (message_status.go:158-164).
THEOREM StatusIsAnswered == Spec => []StatusAnswered
  <1>1. IInv => StatusAnswered
    BY DEF IInv, Typed, FirstSession, HasEvent, HasFrame, StatusAnswered, Statuses
  <1> QED  BY <1>1, SpecInv, PTL

\* The version in use is the highest that both sides have, of the last Hello
\* accepted, for any versions offered (message_hello.go:49-92, 163).
THEOREM BestVersion == Spec => []NegotiationSound
  <1>1. IInv => NegotiationSound
    <2> SUFFICES ASSUME IInv PROVE NegotiationSound
      OBVIOUS
    <2> DEFINE hellos == {i \in DOMAIN events : events[i][1] = "hello"}
    <2>1. DOMAIN events = 1 .. Len(events) /\ Len(events) \in Nat
      BY DEF IInv, Typed
    <2>2. CASE hellos = {}
      BY <2>2 DEF NegotiationSound
    <2>3. CASE hellos # {}
      <3>1. PICK i \in hellos : /\ \A j \in hellos : j <= i
                                /\ Best(events[i][2])
        BY <2>1, <2>3 DEF IInv, LastHello, LastHelloBest, HasEvent
      <3>2. hellos \subseteq Nat
        BY <2>1
      <3>3. Max(hellos) = CHOOSE x \in hellos : \A y \in hellos : x >= y
        BY DEF Max
      <3> HIDE DEF hellos
      <3>4. Max(hellos) = i
        BY <3>1, <3>2, <3>3
      <3> QED  BY <2>3, <3>1, <3>4 DEF NegotiationSound, Best, hellos
    <2> QED  BY <2>2, <2>3
  <1> QED  BY <1>1, SpecInv, PTL
=============================================================================
