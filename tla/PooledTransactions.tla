------------------------- MODULE PooledTransactions -------------------------
(***************************************************************************)
(* Requests and responses of pkg/execution/mimicry: callers of             *)
(* Client.GetPooledTransactions, each in a goroutine of its own, and the   *)
(* session loop that reads the connection and hands a PooledTransactions   *)
(* response to the caller that waits for it, over an unbuffered channel    *)
(* found in pooledTransactionsMap.                                         *)
(*                                                                         *)
(* A request id is drawn from 64 random bits; a caller stands for its id,  *)
(* so two calls in progress never share one, and no id can be guessed.     *)
(* The remote node answers a request it was sent as often as it likes, and *)
(* as late.                                                                *)
(***************************************************************************)
EXTENDS Naturals, Sequences

CONSTANTS
    Callers,       \* goroutines that call GetPooledTransactions, once each
    Nobody,        \* no caller
    MaxResponses,  \* bound: responses with one request id
    InboxCap       \* bound: messages on their way to the session

ASSUME PooledAssumption ==
    /\ Nobody \notin Callers
    /\ MaxResponses \in Nat
    /\ InboxCap \in Nat

VARIABLES
    pc,         \* program counter of a caller
    outcome,    \* how its call ends
    channels,   \* pooledTransactionsMap: the ids that have an open channel
    session,    \* program counter of the session loop
    handed,     \* the id whose response the session is handing over
    inbox,      \* ids of the responses on the connection, in order
    responses,  \* history: responses sent with an id
    connected,  \* the connection is up
    crashed     \* the runtime found the map read and written at once

vars == <<pc, outcome, channels, session, handed, inbox, responses, connected,
          crashed>>

Init ==
    /\ pc = [r \in Callers |-> "start"]
    /\ outcome = [r \in Callers |-> "none"]
    /\ channels = {}
    /\ session = "read"
    /\ handed = Nobody
    /\ inbox = <<>>
    /\ responses = [r \in Callers |-> 0]
    /\ connected = TRUE
    /\ crashed = FALSE

Goto(r, label) == pc' = [pc EXCEPT ![r] = label]

\* handlePooledTransactions holds the mutex from its lookup to the end of its
\* send; every other critical section is one step.
MuxFree == session # "send"

\* The select expression reads the map without the mutex.  A write of the map
\* at the same time may end the process or go unnoticed.
MayCrash(r) ==
    crashed' \in IF \E q \in Callers \ {r} : pc[q] = "select"
                 THEN BOOLEAN ELSE {FALSE}

-----------------------------------------------------------------------------
(* GetPooledTransactions *)

Register(r) ==
    /\ pc[r] = "start"
    /\ MuxFree
    /\ channels' = channels \cup {r}
    /\ Goto(r, "write")
    /\ MayCrash(r)
    /\ UNCHANGED <<outcome, session, handed, inbox, responses, connected>>

\* writeRLPx holds writeMu over a write that has no deadline: a remote node
\* that stops reading can keep its holder, and so every other writer.
LockWrite(r) ==
    /\ pc[r] = "write"
    /\ \A q \in Callers : pc[q] # "writing"
    /\ Goto(r, "writing")
    /\ UNCHANGED <<outcome, channels, session, handed, inbox, responses,
                   connected, crashed>>

\* The write returns.
SendRequest(r) ==
    /\ pc[r] = "writing"
    /\ IF connected
       THEN Goto(r, "select") /\ UNCHANGED outcome
       ELSE /\ Goto(r, "cleanup")
            /\ outcome' = [outcome EXCEPT ![r] = "error"]
    /\ UNCHANGED <<channels, session, handed, inbox, responses, connected,
                   crashed>>

\* The channel the caller waits on is the one the map holds now.
Select(r) ==
    /\ pc[r] = "select"
    /\ Goto(r, IF r \in channels THEN "wait" ELSE "waitNil")
    /\ UNCHANGED <<outcome, channels, session, handed, inbox, responses,
                   connected, crashed>>

Timeout(r) ==
    /\ pc[r] \in {"wait", "waitNil"}
    /\ Goto(r, "cleanup")
    /\ outcome' = [outcome EXCEPT ![r] = "timeout"]
    /\ UNCHANGED <<channels, session, handed, inbox, responses, connected,
                   crashed>>

\* Variant: an error return leaves the channel in the map.
CleanupAnswered(r) ==
    /\ pc[r] = "cleanup"
    /\ MuxFree
    /\ channels' = IF outcome[r] = "answered" THEN channels \ {r} ELSE channels
    /\ Goto(r, "done")
    /\ MayCrash(r)
    /\ UNCHANGED <<outcome, session, handed, inbox, responses, connected>>

\* Variant: the channel is closed without the mutex.
CleanupUnlocked(r) ==
    /\ pc[r] = "cleanup"
    /\ channels' = channels \ {r}
    /\ Goto(r, "done")
    /\ MayCrash(r)
    /\ UNCHANGED <<outcome, session, handed, inbox, responses, connected>>

\* The deferred function closes the channel and drops it from the map.
Cleanup(r) ==
    /\ pc[r] = "cleanup"
    /\ MuxFree
    /\ channels' = channels \ {r}
    /\ Goto(r, "done")
    /\ MayCrash(r)
    /\ UNCHANGED <<outcome, session, handed, inbox, responses, connected>>

-----------------------------------------------------------------------------
(* The session loop *)

\* Variant: the lookup's second result is not looked at, and a send on the nil
\* channel of a missing entry never goes through.
HandleResponseUnchecked ==
    /\ session = "read"
    /\ inbox # <<>>
    /\ inbox' = Tail(inbox)
    /\ session' = "send" /\ handed' = Head(inbox)
    /\ UNCHANGED <<pc, outcome, channels, responses, connected, crashed>>

\* The unbuffered send can only go through to a caller that is in its select.
\* A response nobody waits for finds no channel.
HandleResponse ==
    /\ session = "read"
    /\ inbox # <<>>
    /\ inbox' = Tail(inbox)
    /\ IF Head(inbox) \in channels
       THEN session' = "send" /\ handed' = Head(inbox)
       ELSE UNCHANGED <<session, handed>>
    /\ UNCHANGED <<pc, outcome, channels, responses, connected, crashed>>

\* Variant: one channel for all the calls, so whoever waits takes the response.
HandOverShared ==
    /\ session = "send"
    /\ \E r \in Callers :
          /\ pc[r] = "wait"
          /\ Goto(r, "cleanup")
          /\ outcome' = [outcome EXCEPT ![r] = "answered"]
    /\ session' = "read"
    /\ handed' = Nobody
    /\ UNCHANGED <<channels, inbox, responses, connected, crashed>>

HandOver ==
    /\ session = "send"
    /\ pc[handed] = "wait"
    /\ Goto(handed, "cleanup")
    /\ outcome' = [outcome EXCEPT ![handed] = "answered"]
    /\ session' = "read"
    /\ handed' = Nobody
    /\ UNCHANGED <<channels, inbox, responses, connected, crashed>>

\* A read or deadline error, or a Disconnect message, ends the loop.
EndSession ==
    /\ session = "read"
    /\ session' = "ended"
    /\ UNCHANGED <<pc, outcome, channels, handed, inbox, responses, connected,
                   crashed>>

-----------------------------------------------------------------------------
(* The remote node and the network *)

\* The node may have the request, and answer it, before the write returns.
WasSent(r) == /\ pc[r] \notin {"start", "write"}
              /\ outcome[r] # "error"

RemoteResponds(r) ==
    /\ connected
    /\ WasSent(r)
    /\ responses[r] < MaxResponses
    /\ Len(inbox) < InboxCap
    /\ inbox' = Append(inbox, r)
    /\ responses' = [responses EXCEPT ![r] = @ + 1]
    /\ UNCHANGED <<pc, outcome, channels, session, handed, connected, crashed>>

\* The node goes, or Stop closes the connection.
ConnectionLost ==
    /\ connected
    /\ connected' = FALSE
    /\ UNCHANGED <<pc, outcome, channels, session, handed, inbox, responses,
                   crashed>>

-----------------------------------------------------------------------------
Caller(r) == \/ Register(r) \/ LockWrite(r) \/ SendRequest(r) \/ Select(r)
             \/ Timeout(r) \/ Cleanup(r)

Session == HandleResponse \/ HandOver \/ EndSession

Remote == ConnectionLost \/ \E r \in Callers : RemoteResponds(r)

Next ==
    /\ ~crashed
    /\ Session \/ Remote \/ \E r \in Callers : Caller(r)

Spec == Init /\ [][Next]_vars

\* The timer starts after the write: until then nothing but the end of the
\* connection gets a call out of a write the remote node does not read.
AtItsWrite(r) ==
    /\ connected
    /\ pc[r] \in {"write", "writing"}
    /\ responses[r] = 0

\* A goroutine that can go on does: the caller's timer fires, and the send
\* meets a caller that stays in its select.  Weak fairness is enough for the
\* mutex, since the responses that compete for it are bounded.  A write only
\* has to return once the connection is lost, or the remote node has answered
\* and so has read the whole of the request.  The node owes nothing, not even
\* to read, and no call need be made.
Fairness ==
    /\ WF_vars(~crashed /\ HandOver)
    /\ \A r \in Callers :
           /\ WF_vars(~crashed /\ (Select(r) \/ Timeout(r) \/ Cleanup(r)))
           /\ WF_vars(~crashed /\ ~AtItsWrite(r) /\ (LockWrite(r) \/ SendRequest(r)))

FairSpec == Spec /\ Fairness

-----------------------------------------------------------------------------
(* Properties *)

TypeOK ==
    /\ pc \in [Callers -> {"start", "write", "writing", "select", "wait",
                           "waitNil", "cleanup", "done"}]
    /\ outcome \in [Callers -> {"none", "answered", "timeout", "error"}]
    /\ channels \in SUBSET Callers
    /\ session \in {"read", "send", "ended"}
    /\ handed \in Callers \cup {Nobody}
    /\ inbox \in Seq(Callers)
    /\ responses \in [Callers -> Nat]
    /\ connected \in BOOLEAN
    /\ crashed \in BOOLEAN

\* While handlePooledTransactions is blocked on a channel, the channel stays
\* open: a send on a channel the caller's deferred function closed would end
\* the process, and only the mutex held over the send prevents it.
OpenWhileSending == session = "send" => handed \in channels

\* The map holds a channel for the calls in progress and for no other: no
\* call waits on the nil channel of a missing entry, and no call that
\* returned, in whatever way, leaves its channel behind.
ChannelPerCall ==
    \A r \in Callers :
        /\ pc[r] # "waitNil"
        /\ r \in channels <=> pc[r] \notin {"start", "done"}

\* The session holds the mutex and sends to a call that is past its select and
\* waits for the mutex.
Stuck == session = "send" /\ pc[handed] = "cleanup"

\* A call past its write, or with a lost connection, returns, whatever the
\* remote node does with it, except when a late or repeated response has the
\* session and a call wait for each other: no other order of lookups, sends,
\* timers and clean-ups keeps a caller from returning.
CallReturns ==
    \A r \in Callers :
        pc[r] \notin {"start", "done"} /\ ~AtItsWrite(r)
            ~> pc[r] = "done" \/ Stuck \/ crashed

\* message_pooled_transactions.go:45: nothing in the client gets the two out of
\* it again, neither a timer nor the end of the connection nor another call,
\* and from then on no call gets a channel and none returns.
StuckForGood ==
    [][Stuck => /\ Stuck' /\ handed' = handed
                /\ \A r \in Callers :
                      /\ pc[r] = "start" <=> pc'[r] = "start"
                      /\ pc[r] = "done" <=> pc'[r] = "done"]_vars

\* The call as its caller sees it, and the response it is given: the one in
\* the session's hands from the lookup on, whether it is taken or not.
Standing(r) == IF pc[r] = "start" THEN "none"
               ELSE IF outcome[r] = "none" THEN "pending"
               ELSE IF outcome[r] = "answered" THEN "ok"
               ELSE "failed"

Given(r) == IF outcome[r] = "answered" THEN r ELSE Nobody

Contract == INSTANCE RequestContract WITH
    Calls <- Callers,
    Answers <- Callers,
    None <- Nobody,
    outcome <- [r \in Callers |-> Standing(r)],
    answer <- [r \in Callers |-> IF handed = r THEN r ELSE Given(r)],
    result <- [r \in Callers |-> Given(r)]

\* GetPooledTransactions keeps the contract of a request: a call returns the
\* response with its own id or a failure, once.  A response the session took
\* from the connection in time is never handed to a call that timed out, nor
\* does a second response with the id change what the call returned.
KeepsRequestContract == Contract!Spec
=============================================================================
