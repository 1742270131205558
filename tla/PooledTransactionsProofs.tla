---------------------- MODULE PooledTransactionsProofs ----------------------
(***************************************************************************)
(* The safety properties of PooledTransactions for any number of callers   *)
(* and any number of responses, and its refinement of RequestContract.     *)
(***************************************************************************)
EXTENDS PooledTransactions, TLAPS

\* A step of the session blocked in its send leaves the map alone, because
\* every writer of the map needs the mutex the session holds; and the map
\* changes hands with the program counters.  For the refinement: a call has an
\* outcome once it is past its select and not before, and the session holds a
\* response exactly while it is in its send.
Settled ==
    /\ handed = Nobody <=> session # "send"
    /\ \A r \in Callers :
          outcome[r] = "none" <=> pc[r] \notin {"cleanup", "done"}

IInv ==
    /\ TypeOK
    /\ Settled
    /\ OpenWhileSending
    /\ ChannelPerCall

LEMMA HeadTail ==
    ASSUME NEW S, NEW s \in Seq(S), s # <<>>
    PROVE  Head(s) \in S /\ Tail(s) \in Seq(S)
  OBVIOUS

LEMMA InitInv == Init => IInv
<1> SUFFICES ASSUME Init PROVE IInv
  OBVIOUS
<1>1. TypeOK
  <2>1. inbox \in Seq(Callers)
    BY DEF Init
  <2>2. responses \in [Callers -> Nat]
    BY DEF Init
  <2>3. pc \in [Callers -> {"start", "write", "writing", "select", "wait",
                            "waitNil", "cleanup", "done"}]
    BY DEF Init
  <2>4. outcome \in [Callers -> {"none", "answered", "timeout", "error"}]
    BY DEF Init
  <2> QED
    BY <2>1, <2>2, <2>3, <2>4 DEF Init, TypeOK
<1>2. OpenWhileSending /\ ChannelPerCall /\ Settled
  BY DEF Init, OpenWhileSending, ChannelPerCall, Settled
<1> QED
  BY <1>1, <1>2 DEF IInv

LEMMA NextInv == IInv /\ [Next]_vars => IInv'
<1> SUFFICES ASSUME IInv, [Next]_vars PROVE IInv'
  OBVIOUS
<1> USE PooledAssumption
    DEF IInv, TypeOK, OpenWhileSending, ChannelPerCall, Settled, Goto,
        MuxFree
<1>1. ASSUME NEW r \in Callers, Register(r) PROVE IInv'
  BY <1>1 DEF Register, MayCrash
<1>2. ASSUME NEW r \in Callers, LockWrite(r) \/ SendRequest(r) PROVE IInv'
  BY <1>2 DEF LockWrite, SendRequest
<1>3. ASSUME NEW r \in Callers, Select(r) PROVE IInv'
  BY <1>3 DEF Select
<1>4. ASSUME NEW r \in Callers, Timeout(r) PROVE IInv'
  BY <1>4 DEF Timeout
<1>5. ASSUME NEW r \in Callers, Cleanup(r) PROVE IInv'
  BY <1>5 DEF Cleanup, MayCrash
<1>6. CASE HandleResponse
  <2>1. Head(inbox) \in Callers /\ Tail(inbox) \in Seq(Callers)
    BY <1>6, HeadTail DEF HandleResponse
  <2> QED
    BY <1>6, <2>1 DEF HandleResponse
<1>7. CASE HandOver
  <2>1. handed \in Callers
    BY <1>7 DEF HandOver
  <2> QED
    BY <1>7, <2>1 DEF HandOver
<1>8. CASE EndSession
  BY <1>8 DEF EndSession
<1>9. CASE ConnectionLost
  BY <1>9 DEF ConnectionLost
<1>10. ASSUME NEW r \in Callers, RemoteResponds(r) PROVE IInv'
  BY <1>10 DEF RemoteResponds
<1>11. CASE UNCHANGED vars
  BY <1>11 DEF vars
<1> QED
  BY <1>1, <1>2, <1>3, <1>4, <1>5, <1>6, <1>7, <1>8, <1>9, <1>10, <1>11
     DEF Next, Session, Remote, Caller

THEOREM SpecInv == Spec => []IInv
  BY InitInv, NextInv, PTL DEF Spec

\* Type correctness.
THEOREM TypeCorrect == Spec => []TypeOK
<1>1. IInv => TypeOK
  BY DEF IInv
<1> QED
  BY <1>1, SpecInv, PTL

\* handlePooledTransactions never sends on a channel that its caller closed,
\* whatever number of callers and however often the remote node answers.
THEOREM NeverSendsOnClosedChannel == Spec => []OpenWhileSending
<1>1. IInv => OpenWhileSending
  BY DEF IInv
<1> QED
  BY <1>1, SpecInv, PTL

\* pooledTransactionsMap holds one channel for each call in progress, and no
\* call waits on a nil channel.
THEOREM MapFollowsCalls == Spec => []ChannelPerCall
<1>1. IInv => ChannelPerCall
  BY DEF IInv
<1> QED
  BY <1>1, SpecInv, PTL

\* Once the session and a call wait for each other they do so for ever, and no
\* other call begins or returns: the send needs a caller in its select, and
\* every step back to the loop or out of a call needs the send to be over.
THEOREM DeadlockStays == Spec => StuckForGood
<1> DEFINE Held == /\ Stuck' /\ handed' = handed
                   /\ \A r \in Callers :
                         /\ pc[r] = "start" <=> pc'[r] = "start"
                         /\ pc[r] = "done" <=> pc'[r] = "done"
<1>1. IInv /\ [Next]_vars => [Stuck => Held]_vars
  <2> SUFFICES ASSUME IInv, Next, Stuck PROVE Held
    OBVIOUS
  <2> USE PooledAssumption DEF IInv, TypeOK, OpenWhileSending, Stuck, MuxFree, Goto
  <2>1. handed \in Callers
    OBVIOUS
  <2>2. ASSUME NEW r \in Callers, Caller(r) PROVE Held
    <3>1. ~Register(r) /\ ~Cleanup(r)
      BY DEF Register, Cleanup
    <3>2. LockWrite(r) \/ SendRequest(r) \/ Select(r) \/ Timeout(r)
      BY <2>2, <3>1 DEF Caller
    <3> QED
      BY <2>1, <3>2 DEF LockWrite, SendRequest, Select, Timeout
  <2>3. ~Session
    BY DEF Session, HandleResponse, HandOver, EndSession
  <2>4. ASSUME Remote PROVE Held
    BY <2>4 DEF Remote, ConnectionLost, RemoteResponds
  <2> QED
    BY <2>2, <2>3, <2>4 DEF Next
<1> QED
  BY SpecInv, <1>1, PTL DEF Spec, StuckForGood

-----------------------------------------------------------------------------
(* The refinement.  A step of the system changes what the contract sees of *)
(* one call at most.                                                       *)

Answering(r) == IF handed = r THEN r ELSE Given(r)

\* What the contract sees of a call.
View(r) == <<Standing(r), Answering(r), Given(r)>>

\* A step that changes the view of no call is a stutter of the contract.
LEMMA SameView ==
    ASSUME \A r \in Callers : View(r)' = View(r)
    PROVE  UNCHANGED Contract!vars
<1>1. \A r \in Callers : /\ Standing(r)' = Standing(r)
                        /\ Answering(r)' = Answering(r)
                        /\ Given(r)' = Given(r)
  BY DEF View
<1> QED
  BY <1>1 DEF Contract!vars, Answering

\* A step that changes the view of one call as an action of the contract does
\* is that action.
LEMMA OneView ==
    ASSUME NEW c \in Callers,
           \A r \in Callers \ {c} : View(r)' = View(r),
           \/ /\ Standing(c) = "none" /\ Standing(c)' = "pending"
              /\ Answering(c)' = Answering(c) /\ Given(c)' = Given(c)
           \/ /\ Standing(c) # "none" /\ Answering(c) = Nobody
              /\ Answering(c)' = c
              /\ Standing(c)' = Standing(c) /\ Given(c)' = Given(c)
           \/ /\ Standing(c) = "pending" /\ Answering(c) # Nobody
              /\ Standing(c)' = "ok" /\ Given(c)' = Answering(c)
              /\ Answering(c)' = Answering(c)
           \/ /\ Standing(c) = "pending" /\ Standing(c)' = "failed"
              /\ Answering(c)' = Answering(c) /\ Given(c)' = Given(c)
    PROVE  Contract!Next
<1> DEFINE o == [r \in Callers |-> Standing(r)]
           a == [r \in Callers |-> IF handed = r THEN r ELSE Given(r)]
           g == [r \in Callers |-> Given(r)]
<1>1. \A r \in Callers \ {c} : /\ Standing(r)' = Standing(r)
                              /\ Answering(r)' = Answering(r)
                              /\ Given(r)' = Given(r)
  BY DEF View
<1>2. o' = [o EXCEPT ![c] = Standing(c)']
  BY <1>1
<1>3. a' = [a EXCEPT ![c] = Answering(c)']
  BY <1>1 DEF Answering
<1>4. g' = [g EXCEPT ![c] = Given(c)']
  BY <1>1
<1>5. /\ o[c] = Standing(c) /\ a[c] = Answering(c) /\ g[c] = Given(c)
      /\ Standing(c)' = Standing(c) => o' = o
      /\ Answering(c)' = Answering(c) => a' = a
      /\ Given(c)' = Given(c) => g' = g
  BY <1>2, <1>3, <1>4 DEF Answering
<1> HIDE DEF o, a, g
<1>6. \/ o[c] = "none" /\ o' = [o EXCEPT ![c] = "pending"] /\ a' = a /\ g' = g
      \/ o[c] # "none" /\ a[c] = Nobody /\ a' = [a EXCEPT ![c] = c]
         /\ o' = o /\ g' = g
      \/ o[c] = "pending" /\ a[c] # Nobody /\ o' = [o EXCEPT ![c] = "ok"]
         /\ g' = [g EXCEPT ![c] = a[c]] /\ a' = a
      \/ o[c] = "pending" /\ o' = [o EXCEPT ![c] = "failed"]
         /\ a' = a /\ g' = g
  BY <1>2, <1>3, <1>4, <1>5
<1>7. \/ Contract!Send(c) \/ Contract!Answer(c, c)
      \/ Contract!Return(c) \/ Contract!Fail(c)
  BY <1>6 DEF o, a, g, Contract!Send, Contract!Answer, Contract!Return,
              Contract!Fail
<1> QED
  BY <1>7 DEF Contract!Next

LEMMA NextContract ==
    ASSUME IInv, [Next]_vars
    PROVE  [Contract!Next]_Contract!vars
<1> USE PooledAssumption
    DEF IInv, TypeOK, OpenWhileSending, ChannelPerCall, Settled, Goto, View,
        Standing, Answering, Given
<1>1. ASSUME NEW c \in Callers, Register(c) PROVE Contract!Next
  BY <1>1, OneView DEF Register
<1>2. ASSUME NEW c \in Callers, SendRequest(c)
      PROVE  [Contract!Next]_Contract!vars
  <2>1. CASE connected
    BY <1>2, <2>1, SameView DEF SendRequest
  <2>2. CASE ~connected
    BY <1>2, <2>2, OneView DEF SendRequest
  <2> QED
    BY <2>1, <2>2
<1>3. ASSUME NEW c \in Callers, LockWrite(c) \/ Select(c)
      PROVE  UNCHANGED Contract!vars
  BY <1>3, SameView DEF LockWrite, Select
<1>4. ASSUME NEW c \in Callers, Timeout(c) PROVE Contract!Next
  BY <1>4, OneView DEF Timeout
<1>5. ASSUME NEW c \in Callers, Cleanup(c) PROVE UNCHANGED Contract!vars
  BY <1>5, SameView DEF Cleanup
<1>6. ASSUME HandleResponse PROVE [Contract!Next]_Contract!vars
  <2>1. Head(inbox) \in Callers
    BY <1>6, HeadTail DEF HandleResponse
  <2>2. CASE Head(inbox) \in channels /\ outcome[Head(inbox)] # "answered"
    BY <1>6, <2>1, <2>2, OneView DEF HandleResponse
  <2>3. CASE ~(Head(inbox) \in channels /\ outcome[Head(inbox)] # "answered")
    BY <1>6, <2>1, <2>3, SameView DEF HandleResponse
  <2> QED
    BY <2>2, <2>3
<1>7. ASSUME HandOver PROVE Contract!Next
  <2>1. handed \in Callers
    BY <1>7 DEF HandOver
  <2> QED
    BY <1>7, <2>1, OneView DEF HandOver
<1>8. ASSUME EndSession \/ Remote \/ UNCHANGED vars
      PROVE  UNCHANGED Contract!vars
  BY <1>8, SameView DEF EndSession, Remote, ConnectionLost, RemoteResponds, vars
<1> QED
  BY <1>1, <1>2, <1>3, <1>4, <1>5, <1>6, <1>7, <1>8 DEF Next, Session, Caller

\* The refinement: whatever the number of callers, and however late and often
\* the remote node answers, a call of GetPooledTransactions returns the
\* response with its own id or fails, and never both.
THEOREM ContractKept == Spec => KeepsRequestContract
<1>1. Init => Contract!Init
  BY PooledAssumption DEF Init, Contract!Init, Standing, Given
<1>2. IInv /\ [Next]_vars => [Contract!Next]_Contract!vars
  BY NextContract
<1> QED
  BY SpecInv, <1>1, <1>2, PTL DEF Spec, KeepsRequestContract, Contract!Spec
=============================================================================
