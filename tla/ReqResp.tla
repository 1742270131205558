------------------------------- MODULE ReqResp -------------------------------
(***************************************************************************)
(* Requests over streams: SendRequest of the client, the wrapper and the   *)
(* handlers of the server, and the stream between them.  A call has a      *)
(* stream of its own.  The request is in `up`, what the handler has        *)
(* written is in `down`, of which the client has read the first `read`     *)
(* items; either side may have shut its direction.                         *)
(*                                                                         *)
(* The client sets no deadline for its reads: the timeout of a request is  *)
(* the context of NewStream only.  The server's reads and writes have one. *)
(***************************************************************************)
EXTENDS Naturals, Sequences, Functions

CONSTANTS Calls,     \* calls of SendRequest, each with its stream
          Digests,   \* fork digests, which stand for a status
          Plain,     \* the answer of a handler that reports no status
          None       \* no value

\* The protocols whose handlers differ, and those whose request has a payload.
Protocols == {"status", "goodbye", "ping", "metadata", "dummy"}
WithPayload == {"status", "goodbye", "ping"}

ASSUME ReqRespAssumption == /\ Plain \notin Digests
                            /\ None \notin Digests \cup {Plain} \cup Protocols

VARIABLES protocols, \* protocols a handler is registered for
          digest,    \* the server's current status
          client,    \* where each SendRequest is
          server,    \* where each handler is
          proto,     \* the protocol of each call
          asked,     \* the status the client had when it called
          mine,      \* the server's copy of its status in a handler
          up, upShut,       \* the client's direction of the stream
          down, downShut,   \* the server's direction
          read,      \* items of `down` the client has read
          lost,      \* the connection is gone
          got,       \* what a call returned
          updates    \* PeerStatusUpdated events: <<"client" or "server", call>>

clientVars == <<client, proto, asked, read, got>>
serverVars == <<server, mine, down, downShut>>
vars == <<protocols, digest, clientVars, serverVars, up, upShut, lost, updates>>

TypeOK ==
    /\ protocols \subseteq Protocols
    /\ digest \in Digests
    /\ client \in [Calls -> {"idle", "write", "code", "body", "finish", "ok", "failed"}]
    /\ server \in [Calls -> {"none", "start", "read", "serve", "write", "refuse",
                             "close", "gone"}]
    /\ proto \in [Calls -> Protocols \cup {None}]
    /\ asked \in [Calls -> Digests]
    /\ mine \in [Calls -> Digests \cup {None}]
    /\ up \in [Calls -> BOOLEAN]
    /\ upShut \in [Calls -> BOOLEAN]
    /\ down \in [Calls -> Seq({"ok", "err", "body"})]
    /\ downShut \in [Calls -> BOOLEAN]
    /\ \A c \in Calls : read[c] \in 0 .. Len(down[c])
    /\ lost \in [Calls -> BOOLEAN]
    /\ got \in [Calls -> Digests \cup {Plain, None}]
    /\ updates \subseteq {"client", "server"} \X Calls

\* SendRequest and the handlers each read the status once, under statusMu.
Init ==
    /\ protocols = {}
    /\ digest \in Digests
    /\ client = [c \in Calls |-> "idle"]
    /\ server = [c \in Calls |-> "none"]
    /\ proto = [c \in Calls |-> None]
    /\ asked \in [Calls -> Digests]
    /\ mine = [c \in Calls |-> None]
    /\ up = [c \in Calls |-> FALSE]
    /\ upShut = [c \in Calls |-> FALSE]
    /\ down = [c \in Calls |-> <<>>]
    /\ downShut = [c \in Calls |-> FALSE]
    /\ read = [c \in Calls |-> 0]
    /\ lost = [c \in Calls |-> FALSE]
    /\ got = [c \in Calls |-> None]
    /\ updates = {}

\* What the body written by the handler of c says.
Body(c) == IF proto[c] = "status" THEN mine[c] ELSE Plain

\* Nothing more can arrive at the client.
Drained(c) == read[c] = Len(down[c]) /\ (downShut[c] \/ lost[c])

-----------------------------------------------------------------------------
\* The client.

RegisterHandler(p) ==
    /\ p \notin protocols
    /\ protocols' = protocols \cup {p}
    /\ UNCHANGED <<digest, clientVars, serverVars, up, upShut, lost, updates>>

\* SetStatus: the server's status moves on.
SetStatus(d) ==
    /\ digest' = d
    /\ UNCHANGED <<protocols, clientVars, serverVars, up, upShut, lost, updates>>

\* SendRequest returns an error; its deferred Close shuts both directions.
FailCall(c) ==
    /\ client' = [client EXCEPT ![c] = "failed"]
    /\ upShut' = [upShut EXCEPT ![c] = TRUE]
    /\ UNCHANGED <<protocols, digest, proto, asked, read, got, serverVars, up, lost, updates>>

\* NewStream: negotiation succeeds for a registered protocol only.
NewStream(c, p) ==
    /\ client[c] = "idle"
    /\ \/ /\ p \in protocols
          /\ client' = [client EXCEPT ![c] = "write"]
          /\ server' = [server EXCEPT ![c] = "start"]
          /\ proto' = [proto EXCEPT ![c] = p]
       \/ /\ client' = [client EXCEPT ![c] = "failed"]
          /\ UNCHANGED <<server, proto>>
    /\ UNCHANGED <<protocols, digest, asked, read, got, mine, down, downShut,
                   up, upShut, lost, updates>>

\* The payload is written and the direction left open; without a payload the
\* direction is shut at once.
WritePayload(c) ==
    /\ client[c] = "write"
    /\ \/ /\ ~lost[c]
          /\ client' = [client EXCEPT ![c] = "code"]
          /\ up' = [up EXCEPT ![c] = proto[c] \in WithPayload]
          /\ upShut' = [upShut EXCEPT ![c] = proto[c] \notin WithPayload]
          /\ UNCHANGED <<protocols, digest, proto, asked, read, got, serverVars, lost, updates>>
       \/ FailCall(c)

\* Variant: any response code is taken for a success.
ReadCodeUnchecked(c) ==
    /\ client[c] = "code"
    /\ \/ /\ read[c] < Len(down[c])
          /\ client' = [client EXCEPT ![c] = "finish"]
          /\ read' = [read EXCEPT ![c] = @ + 1]
          /\ got' = [got EXCEPT ![c] = Plain]
          /\ UNCHANGED <<protocols, digest, proto, asked, serverVars, up, upShut, lost, updates>>
       \/ (Drained(c) \/ lost[c]) /\ FailCall(c)

\* The first byte: 0x00 is a success, all else ErrInvalidResponse.
ReadCode(c) ==
    /\ client[c] = "code"
    /\ \/ /\ read[c] < Len(down[c])
          /\ down[c][read[c] + 1] = "ok"
          /\ client' = [client EXCEPT ![c] = "body"]
          /\ read' = [read EXCEPT ![c] = @ + 1]
          /\ UNCHANGED <<protocols, digest, proto, asked, got, serverVars, up, upShut,
                         lost, updates>>
       \/ /\ \/ read[c] < Len(down[c]) /\ down[c][read[c] + 1] # "ok"
             \/ Drained(c)
             \/ lost[c]
          /\ FailCall(c)

\* The response is decoded from the stream.
ReadBody(c) ==
    /\ client[c] = "body"
    /\ \/ /\ read[c] < Len(down[c])
          /\ down[c][read[c] + 1] = "body"
          /\ client' = [client EXCEPT ![c] = "finish"]
          /\ read' = [read EXCEPT ![c] = @ + 1]
          /\ got' = [got EXCEPT ![c] = Body(c)]
          /\ UNCHANGED <<protocols, digest, proto, asked, serverVars, up, upShut,
                         lost, updates>>
       \/ /\ \/ read[c] < Len(down[c]) /\ down[c][read[c] + 1] # "body"
             \/ Drained(c)
             \/ lost[c]
          /\ FailCall(c)

\* CloseWrite, the deferred Close, and for a status the comparison with the
\* copy that was sent.  If CloseWrite fails, the answer read is given up.
FinishCall(c) ==
    /\ client[c] = "finish"
    /\ \/ /\ client' = [client EXCEPT ![c] = "ok"]
          /\ upShut' = [upShut EXCEPT ![c] = TRUE]
          /\ updates' = IF proto[c] = "status" /\ got[c] # asked[c]
                        THEN updates \cup {<<"client", c>>} ELSE updates
          /\ UNCHANGED <<protocols, digest, proto, asked, read, got, serverVars, up, lost>>
       \/ /\ lost[c]
          /\ proto[c] \in WithPayload
          /\ got' = [got EXCEPT ![c] = None]
          /\ client' = [client EXCEPT ![c] = "failed"]
          /\ upShut' = [upShut EXCEPT ![c] = TRUE]
          /\ UNCHANGED <<protocols, digest, proto, asked, read, serverVars, up, lost, updates>>

-----------------------------------------------------------------------------
\* The server.

\* The wrapper's deadline, and the way into each handler.
Dispatch(c) ==
    /\ server[c] = "start"
    /\ server' = [server EXCEPT ![c] = IF lost[c] THEN "gone" ELSE
                    CASE proto[c] \in WithPayload -> "read"
                      [] proto[c] = "metadata" -> "write"
                      [] OTHER -> "refuse"]
    /\ UNCHANGED <<protocols, digest, clientVars, mine, down, downShut, up, upShut,
                   lost, updates>>

\* Where a handler goes when its request cannot be read: status and goodbye
\* report the error to the client, ping only closes.
Unreadable(p) == IF p \in {"status", "goodbye"} THEN "refuse" ELSE "close"

\* ReadRequest: the payload, or an error (the direction is shut, the
\* connection gone, or the deadline passed before the payload came).
ReadRequest(c) ==
    /\ server[c] = "read"
    /\ \/ /\ up[c] /\ ~lost[c]
          /\ server' = [server EXCEPT ![c] = IF proto[c] = "status" THEN "serve" ELSE "write"]
       \/ /\ ~up[c] \/ lost[c]
          /\ server' = [server EXCEPT ![c] = Unreadable(proto[c])]
    /\ UNCHANGED <<protocols, digest, clientVars, mine, down, downShut, up, upShut,
                   lost, updates>>

\* Variant: the status is looked at for the comparison, and again later.
ServeStatusTwice(c) ==
    /\ server[c] = "serve"
    /\ server' = [server EXCEPT ![c] = "write"]
    /\ mine' \in {[mine EXCEPT ![c] = d] : d \in Digests}
    /\ updates' = IF digest # asked[c] THEN updates \cup {<<"server", c>>} ELSE updates
    /\ UNCHANGED <<protocols, digest, clientVars, down, downShut, up, upShut, lost>>

\* handleStatus: one copy of our status for the comparison and the answer.
ServeStatus(c) ==
    /\ server[c] = "serve"
    /\ server' = [server EXCEPT ![c] = "write"]
    /\ mine' = [mine EXCEPT ![c] = digest]
    /\ updates' = IF digest # asked[c] THEN updates \cup {<<"server", c>>} ELSE updates
    /\ UNCHANGED <<protocols, digest, clientVars, down, downShut, up, upShut, lost>>

\* Variant: every handler reports a failed response to the client.
AfterFailedResponseAll(p) == "refuse"

\* Variant: a handler whose response failed returns without its deferred close.
AfterFailedResponseOpen(p) == IF p = "goodbye" THEN "refuse" ELSE "gone"

\* Where a handler goes when its response failed: the deferred function of
\* handleGoodbye writes another one.
AfterFailedResponse(p) == IF p = "goodbye" THEN "refuse" ELSE "close"

\* WriteResponse: the code, the payload, CloseWrite.  Each write may fail
\* and leave what was written before it.
WriteResponse(c) ==
    /\ server[c] = "write"
    /\ \/ /\ ~lost[c]
          /\ down' = [down EXCEPT ![c] = @ \o <<"ok", "body">>]
          /\ downShut' = [downShut EXCEPT ![c] = TRUE]
          /\ server' = [server EXCEPT ![c] = "close"]
       \/ /\ down' \in {[down EXCEPT ![c] = @ \o w] : w \in {<<>>, <<"ok">>, <<"ok", "body">>}}
          /\ server' = [server EXCEPT ![c] = AfterFailedResponse(proto[c])]
          /\ UNCHANGED downShut
    /\ UNCHANGED <<protocols, digest, clientVars, mine, up, upShut, lost, updates>>

\* Where a handler goes when its refusal failed: handleDummyRPC returns
\* without closing the stream, the others have deferred the close.
AfterFailedRefusal(p) == IF p = "dummy" THEN "gone" ELSE "close"

\* WriteResponse with an error: the code 0x01 and no payload.
WriteRefusal(c) ==
    /\ server[c] = "refuse"
    /\ \/ /\ ~lost[c]
          /\ down' = [down EXCEPT ![c] = Append(@, "err")]
          /\ downShut' = [downShut EXCEPT ![c] = TRUE]
          /\ server' = [server EXCEPT ![c] = "close"]
       \/ /\ down' \in {[down EXCEPT ![c] = @ \o w] : w \in {<<>>, <<"err">>}}
          /\ server' = [server EXCEPT ![c] = AfterFailedRefusal(proto[c])]
          /\ UNCHANGED downShut
    /\ UNCHANGED <<protocols, digest, clientVars, mine, up, upShut, lost, updates>>

\* stream.Close, deferred by the handlers or the last call of handleDummyRPC.
CloseStream(c) ==
    /\ server[c] = "close"
    /\ server' = [server EXCEPT ![c] = "gone"]
    /\ downShut' = [downShut EXCEPT ![c] = TRUE]
    /\ UNCHANGED <<protocols, digest, clientVars, mine, down, up, upShut, lost, updates>>

\* The connection goes away under both ends.
LoseConnection(c) ==
    /\ server[c] # "none"
    /\ ~lost[c]
    /\ lost' = [lost EXCEPT ![c] = TRUE]
    /\ UNCHANGED <<protocols, digest, clientVars, serverVars, up, upShut, updates>>

-----------------------------------------------------------------------------
ClientStep(c) == WritePayload(c) \/ ReadCode(c) \/ ReadBody(c) \/ FinishCall(c)
ServerStep(c) == \/ Dispatch(c) \/ ReadRequest(c) \/ ServeStatus(c)
                 \/ WriteResponse(c) \/ WriteRefusal(c) \/ CloseStream(c)

Next == \/ \E p \in Protocols : RegisterHandler(p)
        \/ \E d \in Digests : SetStatus(d)
        \/ \E c \in Calls : \/ \E p \in Protocols : NewStream(c, p)
                            \/ ClientStep(c) \/ ServerStep(c) \/ LoseConnection(c)

Spec == Init /\ [][Next]_vars

\* Goroutines that can go on do; a server's deadline passes.
FairSpec == /\ Spec
            /\ \A c \in Calls : WF_vars(ClientStep(c)) /\ WF_vars(ServerStep(c))

-----------------------------------------------------------------------------
\* Length prefix of the variants that take raw bytes: groups of seven bits,
\* the lowest first, all but the last with the continuation bit.

CONSTANTS GroupBits, WordBits,  \* bits of a group and of the length (7 and 64)
          MaxLength             \* the largest length accepted (10_000_000)

\* 1 << n.  A function, since the provers know nothing of 2 ^ n.
Shift[n \in Nat] == IF n = 0 THEN 1 ELSE 2 * Shift[n - 1]

ASSUME VarintAssumption == /\ GroupBits \in Nat \ {0} /\ WordBits \in Nat \ {0}
                           /\ MaxLength \in 1 .. (Shift[WordBits] - 1)

Base == Shift[GroupBits]

\* The loop of WriteRequestBytes and WriteResponseBytes.
WriteVarint[n \in Nat] ==
    IF n < Base THEN <<n>> ELSE <<n % Base>> \o WriteVarint[n \div Base]

\* Variant: only groups that fit the word as a whole are taken.
WholeGroups == WordBits \div GroupBits

\* The groups ReadResponseBytes takes before its shift reaches the word size.
MaxGroups == (WordBits + GroupBits - 1) \div GroupBits

\* What the loop of ReadResponseBytes has put together after each group.
Sums(groups) ==
    LET Sum[k \in 0 .. Len(groups)] ==
            IF k = 0 THEN 0 ELSE Sum[k - 1] + groups[k] * Shift[GroupBits * (k - 1)]
    IN  Sum

\* The loop and its checks; None stands for an error.  The last group may be
\* shifted out of the word: Go drops those bits.
ReadVarint(groups) ==
    LET length == Sums(groups)[Len(groups)] % Shift[WordBits]
    IN  IF Len(groups) > MaxGroups \/ length = 0 \/ length > MaxLength
        THEN None ELSE length

-----------------------------------------------------------------------------
\* Properties.

\* Apart from a goodbye, what a handler has written is a prefix of one
\* response: no handler answers twice, however its writes fail
\* (req_handlers.go).  The deferred function of handleGoodbye may add an error
\* to a response that had already begun.
OneResponse ==
    \A c \in Calls :
        \/ down[c] \in {<<>>, <<"ok">>, <<"ok", "body">>, <<"err">>}
        \/ proto[c] = "goodbye" /\ down[c] \in {<<"ok", "err">>, <<"ok", "body", "err">>}

\* A handler that is gone has closed its stream, so that the client, which
\* reads without a deadline, is woken: only handleDummyRPC can leave it open,
\* when its one write failed (req_handlers.go:291).
LeftOpen(c) == server[c] = "gone" /\ ~downShut[c] /\ ~lost[c]
OnlyDummyLeavesOpen == \A c \in Calls : LeftOpen(c) => proto[c] = "dummy"

\* When both ends of a status exchange are done and the client has its answer,
\* both have announced a difference of fork digests or neither has, although
\* the server's status may move in between (req_handlers.go:61,
\* crawler.go:632).
UpdatesAgree ==
    \A c \in Calls : client[c] = "ok" /\ proto[c] = "status" =>
        (<<"client", c>> \in updates <=> <<"server", c>> \in updates)

\* Every request returns (req.go:148), unless handleDummyRPC left the stream
\* open: nothing but the other side ends a read of SendRequest.
RequestReturns ==
    \A c \in Calls : client[c] = "code" ~>
        (client[c] \in {"ok", "failed"} \/ (LeftOpen(c) /\ proto[c] = "dummy"))

\* ReadResponseBytes gets back each length that WriteResponseBytes writes, if
\* it is a legal one, and never accepts an illegal one (resp.go:88).  Lengths do
\* not depend on the state: they are compared before the first call.
VarintCorrect == (\A c \in Calls : client[c] = "idle") =>
    /\ \A n \in 0 .. (Shift[WordBits] - 1) :
          ReadVarint(WriteVarint[n]) = IF n \in 1 .. MaxLength THEN n ELSE None
    /\ \A groups \in UNION {[1 .. k -> 0 .. (Base - 1)] : k \in 1 .. MaxGroups + 1} :
          ReadVarint(groups) \in 1 .. MaxLength \cup {None}

\* The promise of a request, and how the streams keep it: a call is pending
\* while SendRequest runs, and answered once the payload is on its stream.
Contract == INSTANCE RequestContract WITH
    Answers <- Digests \cup {Plain},
    outcome <- [c \in Calls |-> CASE client[c] = "idle" -> "none"
                                  [] client[c] \in {"ok", "failed"} -> client[c]
                                  [] OTHER -> "pending"],
    answer <- [c \in Calls |-> IF "body" \in Range(down[c]) THEN Body(c) ELSE None],
    result <- [c \in Calls |-> IF client[c] = "ok" THEN got[c] ELSE None]

\* A call returns the one answer the handler of this stream wrote, or fails,
\* and it does so once (req.go:148-205).
KeepsContract == Contract!Spec
=============================================================================
