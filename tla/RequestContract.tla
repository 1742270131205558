--------------------------- MODULE RequestContract ---------------------------
(***************************************************************************)
(* What a request between two peers promises, without streams: a call is   *)
(* made, the other side may answer it once, and the call returns either    *)
(* that very answer or a failure, once.  A failed call may still be        *)
(* answered: its caller has stopped listening.                             *)
(***************************************************************************)
CONSTANTS Calls,    \* calls of SendRequest
          Answers,  \* what a handler can answer
          None      \* no answer

VARIABLES outcome,  \* where each call stands for its caller
          answer,   \* what the handler has answered
          result    \* what the caller was given

vars == <<outcome, answer, result>>

Init == /\ outcome = [c \in Calls |-> "none"]
        /\ answer = [c \in Calls |-> None]
        /\ result = [c \in Calls |-> None]

Send(c) == /\ outcome[c] = "none"
           /\ outcome' = [outcome EXCEPT ![c] = "pending"]
           /\ UNCHANGED <<answer, result>>

Answer(c, a) == /\ outcome[c] # "none"
                /\ answer[c] = None
                /\ answer' = [answer EXCEPT ![c] = a]
                /\ UNCHANGED <<outcome, result>>

Return(c) == /\ outcome[c] = "pending"
             /\ answer[c] # None
             /\ outcome' = [outcome EXCEPT ![c] = "ok"]
             /\ result' = [result EXCEPT ![c] = answer[c]]
             /\ UNCHANGED answer

Fail(c) == /\ outcome[c] \in {"none", "pending"}
           /\ outcome' = [outcome EXCEPT ![c] = "failed"]
           /\ UNCHANGED <<answer, result>>

Next == \E c \in Calls : \/ Send(c) \/ Return(c) \/ Fail(c)
                         \/ \E a \in Answers : Answer(c, a)

Spec == Init /\ [][Next]_vars
=============================================================================
