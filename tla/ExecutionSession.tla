--------------------------- MODULE ExecutionSession ---------------------------
(***************************************************************************)
(* The devp2p session of pkg/execution/mimicry: Client.Start dials and     *)
(* shakes hands, then startSession, in a goroutine of its own, sends Hello *)
(* and handles one message after another until an error or a Disconnect.   *)
(* Stop and Transactions are called from other goroutines at any time.     *)
(* The hand-over of pooled transactions is in PooledTransactions.          *)
(*                                                                         *)
(* A message has a kind and a content.  A garbled one cannot be decoded as *)
(* it is: it is malformed, or compressed while the connection is not yet;  *)
(* a garbled Disconnect is a compressed one.  A provider that is not       *)
(* configured is one that never has a value.  Start is called again, if at *)
(* all, once the session before it is over.                                *)
(***************************************************************************)
EXTENDS Naturals, Sequences, FiniteSetsExt

CONSTANTS CapSets,      \* the sets of eth versions a remote offers
          MaxMessages,  \* bound: messages a remote sends in a session
          MaxStarts,    \* bound: calls of Start
          MaxCalls      \* bound: calls of Transactions in a session

MinVersion == 68
MaxVersion == 70
MinP2PVersion == 5

ASSUME SessionAssumption == /\ \A caps \in CapSets : caps \subseteq Nat
                            /\ {MaxMessages, MaxStarts, MaxCalls} \subseteq Nat

Hellos == [p2p : {MinP2PVersion - 1, MinP2PVersion}, caps : CapSets]

\* The layouts of a Disconnect: a reason in a list or bare, an element of the list
\* that is not one byte long (RLP's zero among them), nothing, or no RLP at all.
Forms == {"list", "single", "long", "emptylist", "empty", "bad"}

\* Kinds that are only decoded, and requests that a handler answers.
Quiet == {"blockHeaders", "blockRangeUpdate", "pooledTransactions"}
Answered == {"getBlockHeaders", "getBlockBodies", "getPooledTransactions"}
Announced == {"transactions", "newPooledTransactionHashes"}

Contents == {<<"hello", h>> : h \in Hellos}
            \cup {<<"disconnect", form>> : form \in Forms}
            \cup {<<"status", layout>> : layout \in {68, 69}}
            \cup {<<"getReceipts", layout>> : layout \in {69, 70}}
            \cup {<<kind, "ok">> : kind \in Quiet \cup Answered \cup Announced
                                           \cup {"ping", "unknown"}}

NoMessage == <<"none", "ok">>

VARIABLES start,     \* where Start is
          starts,    \* calls of Start
          rlpx,      \* c.rlpxConn: nil, before its handshake, open or closed
          session,   \* where startSession is
          msg,       \* the message read last,
          garbled,   \*   and whether it is garbled
          sent,      \* messages the remote sent in this session
          snappy,    \* the connection compresses
          version,   \* c.ethCapVersion
          statusSent, \* c.statusSent
          out,       \* frames written in this session: <<kind, layout, compressed>>
          events     \* published in this session: <<topic, what>>

client == <<version, statusSent>>
vars == <<start, starts, rlpx, session, msg, garbled, sent, snappy, client, out, events>>

TypeOK ==
    /\ start \in {"idle", "dial", "shake", "failed", "returned"}
    /\ starts \in 0 .. MaxStarts
    /\ rlpx \in {"nil", "new", "open", "closed"}
    /\ session \in {"none", "hello", "read", "handle", "over"}
    /\ msg \in Contents \cup {NoMessage}
    /\ garbled \in BOOLEAN
    /\ sent \in 0 .. MaxMessages
    /\ snappy \in BOOLEAN
    /\ version \in {0} \cup (MinVersion .. MaxVersion)
    /\ statusSent \in BOOLEAN
    /\ Len(out) <= 2 + sent + MaxCalls
    /\ Len(events) <= sent + 2

Init ==
    /\ start = "idle" /\ starts = 0
    /\ rlpx = "nil"
    /\ session = "none" /\ msg = NoMessage /\ garbled = FALSE /\ sent = 0
    /\ snappy = FALSE
    /\ version = 0 /\ statusSent = FALSE
    /\ out = <<>> /\ events = <<>>

-----------------------------------------------------------------------------
\* Start and Stop.

\* NewPeer, MsgPipe and eth.NewPeer are of no consequence to the session.
StartDial ==
    /\ start \in {"idle", "failed"} \/ session = "over"
    /\ starts < MaxStarts
    /\ start' = "dial" /\ starts' = starts + 1
    /\ session' = "none" /\ msg' = NoMessage /\ garbled' = FALSE /\ sent' = 0
    /\ snappy' = FALSE
    /\ out' = <<>> /\ events' = <<>>
    /\ UNCHANGED <<rlpx, client>>

\* Dial, within five seconds; the old connection stays in place if it fails.
Dialled ==
    /\ start = "dial"
    /\ \/ start' = "shake" /\ rlpx' = "new"
       \/ start' = "failed" /\ UNCHANGED rlpx
    /\ UNCHANGED <<starts, session, msg, garbled, sent, snappy, client, out, events>>

\* The handshake, with a deadline; no error closes the connection.
Handshake ==
    /\ start = "shake"
    /\ \/ rlpx = "new" /\ rlpx' = "open" /\ start' = "returned" /\ session' = "hello"
       \/ start' = "failed" /\ UNCHANGED <<rlpx, session>>
    /\ UNCHANGED <<starts, msg, garbled, sent, snappy, client, out, events>>

\* Stop, at any time: during the first dial there is nothing to close.
Stop ==
    /\ rlpx \in {"new", "open"}
    /\ rlpx' = "closed"
    /\ UNCHANGED <<start, starts, session, msg, garbled, sent, snappy, client, out, events>>

-----------------------------------------------------------------------------
\* Writing and ending.

\* Events are published before the frame of a handler is written.
Publish(published) == events' = events \o published

\* handleSessionError and disconnect: the event without a reason.
Disconnected == <<"disconnect", "none">>
SessionError(published) ==
    /\ session' = "over"
    /\ Publish(Append(published, Disconnected))
    /\ UNCHANGED <<snappy, client, out>>

Continue(published) ==
    /\ session' = "read"
    /\ Publish(published)

\* writeRLPx: a frame goes out, compressed once snappy is on.
Write(kind, layout, packed) ==
    /\ rlpx = "open"
    /\ out' = Append(out, <<kind, layout, packed>>)

\* A write may fail at any time: the remote may be gone.
Reply(kind, published) ==
    \/ Write(kind, version, snappy) /\ Continue(published) /\ UNCHANGED <<snappy, client>>
    \/ SessionError(published)

SendPong(published) == Reply("pong", published)
SendBlockHeaders(published) == Reply("blockHeaders", published)
SendBlockBodies(published) == Reply("blockBodies", published)
SendPooledTransactions(published) == Reply("pooledTransactions", published)

\* sendHello opens the session.
SendHello ==
    /\ session = "hello"
    /\ Reply("hello", <<>>)
    /\ UNCHANGED <<start, starts, rlpx, msg, garbled, sent>>

-----------------------------------------------------------------------------
\* Hello and Status.

\* Hello.Validate; the code's highest version serves its error texts.
Validate(h) == /\ h.p2p >= MinP2PVersion
               /\ \E v \in h.caps : MinVersion <= v /\ v <= MaxVersion

SupportedEthCaps == MinVersion .. MaxVersion

\* Variant: the highest version the remote offers.
HighestVersion(h) == IF h.caps = {} THEN 0 ELSE Max(h.caps)

\* Hello.ETHProtocolVersion; zero without a common version.
ETHProtocolVersion(h) == Max({0} \cup {v \in h.caps : MinVersion <= v /\ v <= MaxVersion})

\* sendStatus.  The flag is set once the frame is out.
SendStatus(v, packed, published) ==
    \/ /\ Write("status", v, packed)
       /\ statusSent' = TRUE
       /\ version' = v /\ snappy' = packed
       /\ Continue(published)
    \/ /\ session' = "over"
       /\ Publish(Append(published, Disconnected))
       /\ version' = v /\ snappy' = packed
       /\ UNCHANGED <<out, statusSent>>

\* Variant: the answer to Hello does not ask whether a Status was sent.
HandleHelloAgain(h) ==
    IF ~Validate(h) THEN SessionError(<<>>)
    ELSE SendStatus(ETHProtocolVersion(h), TRUE, <<<<"hello", h.caps>>>>)

\* receiveHello and handleHello.  A configured provider may have a Status for
\* the new version, none, or an error.
HandleHello(h) ==
    IF ~Validate(h) THEN SessionError(<<>>)
    ELSE LET v == ETHProtocolVersion(h)
             hello == <<<<"hello", h.caps>>>>
         IN \/ /\ version' = v /\ snappy' = TRUE
               /\ Continue(hello)
               /\ UNCHANGED <<statusSent, out>>
            \/ ~statusSent /\ SendStatus(v, TRUE, hello)
            \/ /\ ~statusSent
               /\ version' = v /\ snappy' = TRUE
               /\ session' = "over"
               /\ Publish(Append(hello, Disconnected))
               /\ UNCHANGED <<statusSent, out>>

\* receiveStatus: the layout that the negotiated version calls for.
Decodes(layout) == \/ version = 68 /\ layout = 68
                   \/ version \in {69, 70} /\ layout = 69

\* Variant: no Status of our own follows.
HandleStatusSilent(layout) ==
    IF ~Decodes(layout) THEN SessionError(<<>>)
    ELSE /\ Continue(<<<<"status", layout>>>>)
         /\ UNCHANGED <<snappy, client, out>>

\* handleStatus.  An error of the provider comes before the event; without a
\* value of it the remote's own Status is sent back.
HandleStatus(layout) ==
    IF ~Decodes(layout) THEN SessionError(<<>>)
    ELSE \/ SessionError(<<>>)
         \/ LET status == <<<<"status", layout>>>>
            IN  IF statusSent
                THEN Continue(status) /\ UNCHANGED <<snappy, client, out>>
                ELSE SendStatus(version, snappy, status)

-----------------------------------------------------------------------------
\* The other messages.

\* decodeDisconnectReasonRLP: "none" for DiscInvalid, "error" for an error.
ReasonRLP(form) == CASE form \in {"list", "single"} -> "reason"
                     [] form \in {"long", "emptylist", "empty"} -> "invalid"
                     [] form = "bad" -> "error"

\* decodeDisconnectReason: compressed bytes do not decode as they are, and are
\* decompressed for a second attempt.
DecodeReason(compressed, form) ==
    LET first == IF compressed THEN "error" ELSE ReasonRLP(form)
        second == IF compressed THEN ReasonRLP(form) ELSE "error"
    IN  CASE first # "error" -> first
          [] first = "error" /\ second # "error" -> second
          [] OTHER -> "invalid"

\* Variant: the session reads on.
HandleDisconnectOn(form) ==
    /\ Continue(<<<<"disconnect", DecodeReason(garbled, form)>>>>)
    /\ UNCHANGED <<snappy, client, out>>

HandleDisconnect(form) ==
    /\ session' = "over"
    /\ Publish(<<<<"disconnect", DecodeReason(garbled, form)>>>>)
    /\ UNCHANGED <<snappy, client, out>>

\* A ping is not decoded.
HandlePing == SendPong(<<>>)

HandleTransactions ==
    Continue(<<<<"transactions", "ok">>>>) /\ UNCHANGED <<snappy, client, out>>

HandleNewPooledTransactionHashes ==
    Continue(<<<<"newPooledTransactionHashes", "ok">>>>) /\ UNCHANGED <<snappy, client, out>>

\* Headers that nobody asked for are ignored.
HandleBlockHeaders == Continue(<<>>) /\ UNCHANGED <<snappy, client, out>>
HandleBlockRangeUpdate == Continue(<<>>) /\ UNCHANGED <<snappy, client, out>>

\* A response goes to the call that waits for it, if one does; the wait for
\* that call need not end (module PooledTransactions).
HandlePooledTransactions == Continue(<<>>) /\ UNCHANGED <<snappy, client, out>>

\* An error of the header provider gives an empty list, one of the body
\* provider ends the session.
HandleGetBlockHeaders == SendBlockHeaders(<<>>)
HandleGetBlockBodies == SendBlockBodies(<<>>) \/ SessionError(<<>>)

\* The answer holds no transaction.
HandleGetPooledTransactions == SendPooledTransactions(<<>>)

\* receiveGetReceipts: eth/70 has a layout of its own.
DecodesReceipts(layout) == layout = IF version = 70 THEN 70 ELSE 69

\* sendReceipts in the layout of the version.
SendReceipts == /\ Write("receipts", IF version >= 70 THEN 70 ELSE 69, snappy)
                /\ Continue(<<>>)
                /\ UNCHANGED <<snappy, client>>

\* When the write fails, both the handler and the loop report the error.
HandleGetReceipts(layout) ==
    IF ~DecodesReceipts(layout) THEN SessionError(<<>>)
    ELSE SessionError(<<>>) \/ SendReceipts \/ SessionError(<<Disconnected>>)

\* A caller's Transactions go out at once, compressed or not.
Transactions ==
    /\ start = "returned"
    /\ Cardinality({i \in DOMAIN out : out[i][1] = "transactions"}) < MaxCalls
    /\ Write("transactions", version, snappy)
    /\ UNCHANGED <<start, starts, rlpx, session, msg, garbled, sent, snappy, client, events>>

-----------------------------------------------------------------------------
\* The loop of startSession.

\* Once snappy is on, rlpx decompresses each message or fails.
Read(m) ==
    /\ session = "read"
    /\ rlpx = "open"
    /\ sent < MaxMessages
    /\ sent' = sent + 1
    /\ msg' = m
    /\ garbled' \in (IF snappy /\ m[1] = "disconnect" THEN {FALSE} ELSE BOOLEAN)
    /\ session' = "handle"
    /\ UNCHANGED <<start, starts, rlpx, snappy, client, out, events>>

\* Variant: reads have no deadline.
ReadErrorClosed ==
    /\ session = "read" /\ rlpx = "closed"
    /\ SessionError(<<>>)
    /\ UNCHANGED <<start, starts, rlpx, msg, garbled, sent>>

\* The connection ends, or the read deadline of thirty seconds passes.
ReadError ==
    /\ session = "read"
    /\ SessionError(<<>>)
    /\ UNCHANGED <<start, starts, rlpx, msg, garbled, sent>>

Handle ==
    /\ session = "handle"
    /\ LET kind == msg[1]
           arg == msg[2]
       IN CASE kind = "disconnect" -> HandleDisconnect(arg)
            [] kind = "ping" -> HandlePing
            [] kind = "unknown" -> Continue(<<>>) /\ UNCHANGED <<snappy, client, out>>
            [] garbled /\ kind \notin {"disconnect", "ping", "unknown"} -> SessionError(<<>>)
            [] ~garbled /\ kind = "hello" -> HandleHello(arg)
            [] ~garbled /\ kind = "status" -> HandleStatus(arg)
            [] ~garbled /\ kind = "getReceipts" -> HandleGetReceipts(arg)
            [] ~garbled /\ kind = "transactions" -> HandleTransactions
            [] ~garbled /\ kind = "newPooledTransactionHashes" ->
                   HandleNewPooledTransactionHashes
            [] ~garbled /\ kind = "getBlockHeaders" -> HandleGetBlockHeaders
            [] ~garbled /\ kind = "getBlockBodies" -> HandleGetBlockBodies
            [] ~garbled /\ kind = "getPooledTransactions" -> HandleGetPooledTransactions
            [] ~garbled /\ kind = "blockRangeUpdate" -> HandleBlockRangeUpdate
            [] ~garbled /\ kind = "blockHeaders" -> HandleBlockHeaders
            [] ~garbled /\ kind = "pooledTransactions" -> HandlePooledTransactions
    /\ UNCHANGED <<start, starts, rlpx, msg, garbled, sent>>

-----------------------------------------------------------------------------
Next == \/ StartDial \/ Dialled \/ Handshake \/ Stop
        \/ SendHello \/ (\E m \in Contents : Read(m)) \/ ReadError \/ Handle
        \/ Transactions

Spec == Init /\ [][Next]_vars

\* A session at a write, which has no deadline, while the connection is open;
\* and one that hands a response over.  Neither need go on: the remote may have
\* stopped reading, and the call may wait for the session.
Writers == Answered \cup {"hello", "status", "getReceipts"}
AtWrite == \/ session = "hello"
           \/ session = "handle" /\ (msg[1] = "ping" \/ (~garbled /\ msg[1] \in Writers))
AtHandOver == session = "handle" /\ ~garbled /\ msg[1] = "pooledTransactions"
MayBlock == AtHandOver \/ (AtWrite /\ rlpx = "open")

\* Dial, handshake and read have deadlines, providers return, and handlers that
\* cannot block go on; a write fails once Stop has closed the connection.
FairSpec == Spec /\ WF_vars(Dialled) /\ WF_vars(Handshake) /\ WF_vars(ReadError)
                 /\ WF_vars(~MayBlock /\ (SendHello \/ Handle))

-----------------------------------------------------------------------------
\* Properties.

Disconnects == {i \in DOMAIN events : events[i][1] = "disconnect"}

\* A session is over when its subscribers know: the disconnect event is its
\* last one, and comes once.  Only a failed answer to GetReceipts is reported
\* twice, by the handler and by the loop (client.go:215-320,
\* message_get_receipts.go:120-124).  The reason of a remote's Disconnect is in
\* it, in a list or bare, compressed or not (message_disconnect.go:35-87).
DisconnectOnceAndLast ==
    /\ session = "over" <=> Disconnects # {}
    /\ Cardinality(Disconnects) <= IF msg[1] = "getReceipts" THEN 2 ELSE 1
    /\ \A i \in Disconnects : \A j \in i .. Len(events) : j \in Disconnects
    /\ session = "over" /\ msg[1] = "disconnect" =>
          (events[Len(events)][2] = "reason" <=> msg[2] \in {"list", "single"})

Statuses == {i \in DOMAIN out : out[i][1] = "status"}

\* A session opens with Hello, callers' frames aside, and sends one Status at
\* most, however often the remote repeats Hello and Status.  In the first
\* session of a client it is compressed, and of a version the remote offered
\* (message_hello.go:170, message_status.go:160).
OneStatus ==
    /\ \A i \in DOMAIN out : out[i][1] \notin {"hello", "transactions"} =>
          \E j \in 1 .. i - 1 : out[j][1] = "hello"
    /\ Cardinality(Statuses) <= 1
    /\ starts = 1 => \A i \in Statuses :
          /\ out[i][3]
          /\ \E j \in DOMAIN events : /\ events[j][1] = "hello"
                                     /\ out[i][2] \in events[j][2]

\* In the first session, a remote whose Status was accepted has got ours
\* (message_status.go:158-164).
StatusAnswered ==
    /\ starts = 1 /\ session = "read"
    /\ \E i \in DOMAIN events : events[i][1] = "status"
    => Statuses # {}

\* The version in use is one that both sides have, and the highest such, of the
\* Hello accepted last (message_hello.go:49-92, 163).
NegotiationSound ==
    LET hellos == {i \in DOMAIN events : events[i][1] = "hello"}
    IN  hellos # {} =>
            LET common == events[Max(hellos)][2] \cap SupportedEthCaps
            IN  version \in common /\ \A v \in common : v <= version

\* A session ends once its remote falls silent, and Stop ends it, except for one
\* that never gets out of a write on a connection nobody closes, or out of the
\* hand-over of a response (client.go:166, 203, 224,
\* message_pooled_transactions.go:40-46).
SessionEnds == session = "hello" ~> (session = "over" \/ []MayBlock)
=============================================================================
