---------------------------- MODULE ReqRespProofs ----------------------------
(***************************************************************************)
(* Safety of ReqResp for any calls and any status, and the refinement of   *)
(* RequestContract.                                                        *)
(*                                                                         *)
(* What is on a stream is a function of how far its handler has come and   *)
(* of its protocol (Written): that is what OneResponse needs, and it is    *)
(* how the client's answer is known to be the whole answer of the handler  *)
(* (Answered), fixed from the moment it is on the stream.                  *)
(*                                                                         *)
(* That lengths survive their encoding needs induction over them.  The     *)
(* library has it for formulas, which no prover here can instantiate;      *)
(* SetInduction has it for sets, from counting.  Recursion gives the       *)
(* functions defined by recursion, so that each CHOOSE has its witness.    *)
(***************************************************************************)
EXTENDS ReqResp, TLAPS, FiniteSetTheorems

\* The items of a response, and what a handler may have written.
Items == {"ok", "err", "body"}
Begun == {<<>>, <<"ok">>, <<"ok", "body">>}
Twice == {<<"ok", "err">>, <<"ok", "body", "err">>}

Types ==
    /\ protocols \subseteq Protocols
    /\ digest \in Digests
    /\ client \in [Calls -> {"idle", "write", "code", "body", "finish", "ok", "failed"}]
    /\ server \in [Calls -> {"none", "start", "read", "serve", "write", "refuse",
                             "close", "gone"}]
    /\ proto \in [Calls -> Protocols \cup {None}]
    /\ asked \in [Calls -> Digests]
    /\ mine \in [Calls -> Digests \cup {None}]
    /\ up \in [Calls -> BOOLEAN]
    /\ upShut \in [Calls -> BOOLEAN]
    /\ down \in [Calls -> Begun \cup {<<"err">>} \cup Twice]
    /\ downShut \in [Calls -> BOOLEAN]
    /\ read \in [Calls -> Nat]
    /\ lost \in [Calls -> BOOLEAN]
    /\ got \in [Calls -> Digests \cup {Plain, None}]
    /\ updates \subseteq {"client", "server"} \X Calls

\* Which handlers reach which step.
Course(c) ==
    /\ server[c] = "none" <=> proto[c] = None
    /\ client[c] = "idle" => server[c] = "none"
    /\ server[c] = "none" => client[c] \in {"idle", "failed"}
    /\ server[c] = "read" => proto[c] \in WithPayload
    /\ server[c] = "serve" => proto[c] = "status"
    /\ server[c] = "write" => proto[c] # "dummy"

\* What the handler of c has written, by the step it is at.
Written(c) ==
    /\ server[c] \in {"none", "start", "read", "serve", "write"} => down[c] = <<>>
    /\ server[c] = "refuse" =>
           down[c] \in Begun /\ (down[c] = <<>> \/ proto[c] = "goodbye")
    /\ down[c] \in Twice => proto[c] = "goodbye"
    /\ proto[c] = "dummy" => down[c] \in {<<>>, <<"err">>}

\* A handler that is gone has closed its stream, apart from the dummy one.
Closed(c) == server[c] = "gone" => downShut[c] \/ lost[c] \/ proto[c] = "dummy"

\* The handler of a status has its copy once it is past the comparison, and
\* the event says how that copy compared.
Compared(c) ==
    /\ server[c] \in {"none", "start", "read", "serve"} => mine[c] = None
    /\ proto[c] = "status" /\ down[c] \in {<<"ok">>, <<"ok", "body">>} => mine[c] # None
    /\ proto[c] = "status" /\ server[c] = "write" => mine[c] # None
    /\ <<"server", c>> \in updates <=> mine[c] # None /\ mine[c] # asked[c]

\* The client has read a code only if it is there, and an answer only if it is
\* the answer.
HasBody(c) == down[c] \in {<<"ok", "body">>, <<"ok", "body", "err">>}
Answered(c) ==
    /\ read[c] <= Len(down[c])
    /\ client[c] \in {"finish", "ok"} => HasBody(c) /\ got[c] = Body(c)
    /\ <<"client", c>> \in updates <=>
           client[c] = "ok" /\ proto[c] = "status" /\ got[c] # asked[c]

Call(c) == Course(c) /\ Written(c) /\ Closed(c) /\ Compared(c) /\ Answered(c)
IInv == Types /\ \A c \in Calls : Call(c)

-----------------------------------------------------------------------------
\* Sequences of two and of three items.
LEMMA Pair == ASSUME NEW S, NEW s \in Seq(S), Len(s) = 2 PROVE s = <<s[1], s[2]>>
  OBVIOUS

LEMMA Triple == ASSUME NEW S, NEW s \in Seq(S), Len(s) = 3 PROVE s = <<s[1], s[2], s[3]>>
  OBVIOUS

LEMMA AppendOne ==
    ASSUME NEW x, NEW y
    PROVE  Append(<<x>>, y) = <<x, y>>
<1> DEFINE s == Append(<<x>>, y)
<1>1. s \in Seq({x, y}) /\ Len(s) = 2 /\ s[1] = x /\ s[2] = y
  OBVIOUS
<1> QED
  BY <1>1, Pair

LEMMA AppendTwo ==
    ASSUME NEW x, NEW y, NEW z
    PROVE  Append(<<x, y>>, z) = <<x, y, z>>
<1> DEFINE s == Append(<<x, y>>, z)
<1>1. s \in Seq({x, y, z}) /\ Len(s) = 3 /\ s[1] = x /\ s[2] = y /\ s[3] = z
  OBVIOUS
<1> QED
  BY <1>1, Triple

LEMMA ConcatOne == ASSUME NEW S, NEW s \in Seq(S), NEW x \in S
                   PROVE  s \o <<x>> = Append(s, x)
  OBVIOUS

LEMMA BegunItems == \A s \in Begun : s \in Seq(Items)
<1>1. <<>> \in Seq(Items)
  OBVIOUS
<1>2. <<"ok">> \in Seq(Items)
  BY DEF Items
<1>3. <<"ok", "body">> \in Seq(Items)
  BY DEF Items
<1> QED
  BY <1>1, <1>2, <1>3 DEF Begun

\* What a failed or complete refusal makes of a stream that has begun.
LEMMA Refusing ==
    \A s \in Begun :
        /\ s \o <<>> = s
        /\ s \o <<"err">> = Append(s, "err")
        /\ Append(s, "err") \in {<<"err">>} \cup Twice
        /\ s = <<>> => Append(s, "err") = <<"err">>
        /\ Len(s) <= Len(Append(s, "err"))
        /\ s = <<"ok", "body">> => Append(s, "err") = <<"ok", "body", "err">>
<1> SUFFICES ASSUME NEW s \in Begun
             PROVE  /\ s \o <<>> = s
                    /\ s \o <<"err">> = Append(s, "err")
                    /\ Append(s, "err") \in {<<"err">>} \cup Twice
                    /\ s = <<>> => Append(s, "err") = <<"err">>
                    /\ Len(s) <= Len(Append(s, "err"))
                    /\ s = <<"ok", "body">> => Append(s, "err") = <<"ok", "body", "err">>
  OBVIOUS
<1>1. s \in Seq(Items)
  BY BegunItems
<1>2. s \o <<>> = s /\ Len(s) <= Len(Append(s, "err"))
  BY <1>1
<1>3. s \o <<"err">> = Append(s, "err")
  BY <1>1, ConcatOne DEF Items
<1>4. Append(<<>>, "err") = <<"err">>
  OBVIOUS
<1>5. Append(<<"ok">>, "err") = <<"ok", "err">>
  BY AppendOne
<1>6. Append(<<"ok", "body">>, "err") = <<"ok", "body", "err">>
  BY AppendTwo
<1> QED
  BY <1>2, <1>3, <1>4, <1>5, <1>6 DEF Begun, Twice

\* What a response makes of an empty stream.
LEMMA Responding == \A s \in Begun : <<>> \o s = s
<1> SUFFICES ASSUME NEW s \in Begun PROVE <<>> \o s = s
  OBVIOUS
<1>1. s \in Seq(Items)
  BY BegunItems
<1> QED
  BY <1>1

\* The streams differ by their items.
LEMMA Distinct ==
    /\ \A s \in Begun \cup {<<"err">>} \cup Twice : Len(s) \in Nat
    /\ <<"err">> \notin Begun /\ <<"err">> \notin Twice
    /\ \A s \in Begun : s \notin Twice
    /\ <<"ok">> # <<>> /\ <<"ok", "body">> # <<>> /\ <<"err">> # <<>>
    /\ <<"ok">> # <<"ok", "body">>
    /\ <<"ok", "err">> # <<"ok", "body", "err">>
  BY DEF Begun, Twice

\* What is known of a stream before the response.
LEMMA EmptyFirst ==
    /\ <<>> \in Begun /\ <<>> \notin Twice /\ <<>> # <<"err">>
    /\ <<>> \notin {<<"ok">>, <<"ok", "body">>}
    /\ <<"err">> \notin {<<"ok">>, <<"ok", "body">>}
    /\ <<>> \notin {<<"ok", "body">>, <<"ok", "body", "err">>}
  BY DEF Begun, Twice

\* A body is read only where there is one.
LEMMA BodyThere ==
    ASSUME NEW s \in Begun \cup {<<"err">>} \cup Twice, NEW i \in Nat,
           i < Len(s), s[i + 1] = "body"
    PROVE  s \in {<<"ok", "body">>, <<"ok", "body", "err">>}
<1>1. s # <<>> /\ s # <<"ok">> /\ s # <<"err">> /\ s # <<"ok", "err">>
  OBVIOUS
<1> QED
  BY <1>1 DEF Begun, Twice

-----------------------------------------------------------------------------
\* A step that leaves all of d alone.
Still(d) ==
    /\ client'[d] = client[d] /\ server'[d] = server[d] /\ proto'[d] = proto[d]
    /\ asked'[d] = asked[d] /\ mine'[d] = mine[d] /\ down'[d] = down[d]
    /\ downShut'[d] = downShut[d] /\ read'[d] = read[d] /\ lost'[d] = lost[d]
    /\ got'[d] = got[d]
    /\ \A side \in {"client", "server"} :
           <<side, d>> \in updates' <=> <<side, d>> \in updates

LEMMA StillCall == ASSUME NEW d \in Calls, Call(d), Still(d) PROVE Call(d)'
  BY DEF Call, Still, Course, Written, Closed, Compared, Answered, HasBody, Body

LEMMA InitInv == Init => IInv
<1> SUFFICES ASSUME Init PROVE IInv
  OBVIOUS
<1>1. Types
  BY DEF Init, Types, Begun
<1>2. ASSUME NEW c \in Calls PROVE Call(c)
  <2>1. Course(c) /\ Closed(c) /\ Compared(c)
    BY <1>2, Distinct, ReqRespAssumption
       DEF Init, Course, Closed, Compared, Protocols
  <2>2. Written(c) /\ Answered(c)
    BY <1>2, Distinct DEF Init, Written, Answered, Begun
  <2> QED
    BY <2>1, <2>2 DEF Call
<1> QED
  BY <1>1, <1>2 DEF IInv

\* What a step of one call has to show.
LEMMA CallStep ==
    ASSUME IInv, NEW c \in Calls, Types', Call(c)', \A d \in Calls \ {c} : Still(d)
    PROVE  IInv'
  BY StillCall DEF IInv

\* A call that fails while it runs.
LEMMA FailInv ==
    ASSUME IInv, NEW c \in Calls, client[c] \in {"write", "code", "body"}, FailCall(c)
    PROVE  IInv'
<1> USE DEF IInv, FailCall, clientVars, serverVars
<1>1. Types'
  BY DEF Types
<1>2. ASSUME NEW d \in Calls \ {c} PROVE Still(d)
  BY DEF Types, Still
<1>3. /\ client'[c] = "failed" /\ upShut'[c] = TRUE /\ server'[c] = server[c]
      /\ proto'[c] = proto[c] /\ asked'[c] = asked[c] /\ mine'[c] = mine[c]
      /\ up'[c] = up[c] /\ down'[c] = down[c] /\ downShut'[c] = downShut[c]
      /\ read'[c] = read[c] /\ lost'[c] = lost[c] /\ got'[c] = got[c]
  BY DEF Types
<1>4. Course(c)' /\ Written(c)' /\ Closed(c)'
  BY <1>3, EmptyFirst, ReqRespAssumption
     DEF Types, Call, Course, Written, Closed, Protocols, WithPayload
<1>5. Compared(c)'
  BY <1>3, EmptyFirst, ReqRespAssumption
     DEF Types, Call, Course, Written, Compared
<1>6. Answered(c)'
  BY <1>3, EmptyFirst, ReqRespAssumption
     DEF Types, Call, Course, Written, Answered, HasBody, Body
<1> QED
  BY <1>1, <1>2, <1>4, <1>5, <1>6, CallStep DEF Call

LEMMA NextInv == IInv /\ [Next]_vars => IInv'
<1> SUFFICES ASSUME IInv, [Next]_vars PROVE IInv'
  OBVIOUS
<1> USE DEF IInv
<1>1. ASSUME NEW p \in Protocols, RegisterHandler(p) PROVE IInv'
  <2>1. Types'
    BY <1>1 DEF RegisterHandler, Types, clientVars, serverVars
  <2>2. ASSUME NEW d \in Calls PROVE Call(d)'
    BY <1>1, <2>2, StillCall DEF RegisterHandler, Still, clientVars, serverVars
  <2> QED
    BY <2>1, <2>2
<1>2. ASSUME NEW s \in Digests, SetStatus(s) PROVE IInv'
  <2>1. Types'
    BY <1>2 DEF SetStatus, Types, clientVars, serverVars
  <2>2. ASSUME NEW d \in Calls PROVE Call(d)'
    BY <1>2, <2>2, StillCall DEF SetStatus, Still, clientVars, serverVars
  <2> QED
    BY <2>1, <2>2
<1>3. ASSUME NEW c \in Calls, NEW p \in Protocols, NewStream(c, p) PROVE IInv'
  <2>1. CASE /\ client[c] = "idle"
            /\ client' = [client EXCEPT ![c] = "write"]
            /\ server' = [server EXCEPT ![c] = "start"]
            /\ proto' = [proto EXCEPT ![c] = p]
            /\ UNCHANGED <<protocols, digest, asked, mine, up, upShut, down, downShut, read,
                           lost, got, updates>>
    <3>1. Types'
      BY <2>1 DEF Types
    <3>2. ASSUME NEW d \in Calls \ {c} PROVE Still(d)
      BY <2>1 DEF Types, Still
    <3>3. /\ client'[c] = "write" /\ server'[c] = "start" /\ proto'[c] = p
          /\ asked'[c] = asked[c] /\ mine'[c] = mine[c] /\ up'[c] = up[c]
          /\ upShut'[c] = upShut[c] /\ down'[c] = down[c] /\ downShut'[c] = downShut[c]
          /\ read'[c] = read[c] /\ lost'[c] = lost[c] /\ got'[c] = got[c]
      BY <2>1 DEF Types
    <3>4. Course(c)' /\ Written(c)' /\ Closed(c)'
      BY <2>1, <3>3, EmptyFirst, ReqRespAssumption
         DEF Types, Call, Course, Written, Closed, Protocols, WithPayload
    <3>5. Compared(c)'
      BY <2>1, <3>3, EmptyFirst, ReqRespAssumption
         DEF Types, Call, Course, Written, Compared
    <3>6. Answered(c)'
      BY <2>1, <3>3, EmptyFirst, ReqRespAssumption
         DEF Types, Call, Course, Written, Answered, HasBody, Body
    <3> QED
      BY <3>1, <3>2, <3>4, <3>5, <3>6, CallStep DEF Call
  <2>2. CASE /\ client[c] = "idle"
            /\ client' = [client EXCEPT ![c] = "failed"]
            /\ UNCHANGED <<protocols, digest, server, proto, asked, mine, up, upShut, down,
                           downShut, read, lost, got, updates>>
    <3>1. Types'
      BY <2>2 DEF Types
    <3>2. ASSUME NEW d \in Calls \ {c} PROVE Still(d)
      BY <2>2 DEF Types, Still
    <3>3. /\ client'[c] = "failed" /\ server'[c] = server[c] /\ proto'[c] = proto[c]
          /\ asked'[c] = asked[c] /\ mine'[c] = mine[c] /\ up'[c] = up[c]
          /\ upShut'[c] = upShut[c] /\ down'[c] = down[c] /\ downShut'[c] = downShut[c]
          /\ read'[c] = read[c] /\ lost'[c] = lost[c] /\ got'[c] = got[c]
      BY <2>2 DEF Types
    <3>4. Course(c)' /\ Written(c)' /\ Closed(c)'
      BY <2>2, <3>3, EmptyFirst, ReqRespAssumption
         DEF Types, Call, Course, Written, Closed, Protocols, WithPayload
    <3>5. Compared(c)'
      BY <2>2, <3>3, EmptyFirst, ReqRespAssumption
         DEF Types, Call, Course, Written, Compared
    <3>6. Answered(c)'
      BY <2>2, <3>3, EmptyFirst, ReqRespAssumption
         DEF Types, Call, Course, Written, Answered, HasBody, Body
    <3> QED
      BY <3>1, <3>2, <3>4, <3>5, <3>6, CallStep DEF Call
  <2> QED
    BY <1>3, <2>1, <2>2 DEF NewStream, clientVars, serverVars
<1>4. ASSUME NEW c \in Calls, WritePayload(c) PROVE IInv'
  <2>1. CASE FailCall(c)
    BY <1>4, <2>1, FailInv DEF WritePayload
  <2>2. CASE /\ client[c] = "write"
            /\ proto[c] \in WithPayload
            /\ client' = [client EXCEPT ![c] = "code"]
            /\ up' = [up EXCEPT ![c] = TRUE]
            /\ upShut' = [upShut EXCEPT ![c] = FALSE]
            /\ UNCHANGED <<protocols, digest, server, proto, asked, mine, down, downShut,
                           read, lost, got, updates>>
    <3>1. Types'
      BY <2>2 DEF Types
    <3>2. ASSUME NEW d \in Calls \ {c} PROVE Still(d)
      BY <2>2 DEF Types, Still
    <3>3. /\ client'[c] = "code" /\ up'[c] = TRUE /\ upShut'[c] = FALSE
          /\ server'[c] = server[c] /\ proto'[c] = proto[c] /\ asked'[c] = asked[c]
          /\ mine'[c] = mine[c] /\ down'[c] = down[c] /\ downShut'[c] = downShut[c]
          /\ read'[c] = read[c] /\ lost'[c] = lost[c] /\ got'[c] = got[c]
      BY <2>2 DEF Types
    <3>4. Course(c)' /\ Written(c)' /\ Closed(c)'
      BY <2>2, <3>3, EmptyFirst, ReqRespAssumption
         DEF Types, Call, Course, Written, Closed, Protocols, WithPayload
    <3>5. Compared(c)'
      BY <2>2, <3>3, EmptyFirst, ReqRespAssumption
         DEF Types, Call, Course, Written, Compared
    <3>6. Answered(c)'
      BY <2>2, <3>3, EmptyFirst, ReqRespAssumption
         DEF Types, Call, Course, Written, Answered, HasBody, Body
    <3> QED
      BY <3>1, <3>2, <3>4, <3>5, <3>6, CallStep DEF Call
  <2>3. CASE /\ client[c] = "write"
            /\ proto[c] \notin WithPayload
            /\ client' = [client EXCEPT ![c] = "code"]
            /\ up' = [up EXCEPT ![c] = FALSE]
            /\ upShut' = [upShut EXCEPT ![c] = TRUE]
            /\ UNCHANGED <<protocols, digest, server, proto, asked, mine, down, downShut,
                           read, lost, got, updates>>
    <3>1. Types'
      BY <2>3 DEF Types
    <3>2. ASSUME NEW d \in Calls \ {c} PROVE Still(d)
      BY <2>3 DEF Types, Still
    <3>3. /\ client'[c] = "code" /\ up'[c] = FALSE /\ upShut'[c] = TRUE
          /\ server'[c] = server[c] /\ proto'[c] = proto[c] /\ asked'[c] = asked[c]
          /\ mine'[c] = mine[c] /\ down'[c] = down[c] /\ downShut'[c] = downShut[c]
          /\ read'[c] = read[c] /\ lost'[c] = lost[c] /\ got'[c] = got[c]
      BY <2>3 DEF Types
    <3>4. Course(c)' /\ Written(c)' /\ Closed(c)'
      BY <2>3, <3>3, EmptyFirst, ReqRespAssumption
         DEF Types, Call, Course, Written, Closed, Protocols, WithPayload
    <3>5. Compared(c)'
      BY <2>3, <3>3, EmptyFirst, ReqRespAssumption
         DEF Types, Call, Course, Written, Compared
    <3>6. Answered(c)'
      BY <2>3, <3>3, EmptyFirst, ReqRespAssumption
         DEF Types, Call, Course, Written, Answered, HasBody, Body
    <3> QED
      BY <3>1, <3>2, <3>4, <3>5, <3>6, CallStep DEF Call
  <2> QED
    <3>1. CASE proto[c] \in WithPayload
      <4>1. (proto[c] \in WithPayload) = TRUE /\ (proto[c] \notin WithPayload) = FALSE
        BY <3>1
      <4> QED
        BY <1>4, <2>1, <2>2, <3>1, <4>1, Zenon DEF WritePayload, clientVars, serverVars
    <3>2. CASE proto[c] \notin WithPayload
      <4>1. (proto[c] \in WithPayload) = FALSE /\ (proto[c] \notin WithPayload) = TRUE
        BY <3>2
      <4> QED
        BY <1>4, <2>1, <2>3, <3>2, <4>1, Zenon DEF WritePayload, clientVars, serverVars
    <3> QED
      BY <3>1, <3>2
<1>5. ASSUME NEW c \in Calls, ReadCode(c) PROVE IInv'
  <2>1. CASE FailCall(c)
    BY <1>5, <2>1, FailInv DEF ReadCode
  <2>2. CASE /\ client[c] = "code"
            /\ read[c] < Len(down[c])
            /\ client' = [client EXCEPT ![c] = "body"]
            /\ read' = [read EXCEPT ![c] = @ + 1]
            /\ UNCHANGED <<protocols, digest, server, proto, asked, mine, up, upShut, down,
                           downShut, lost, got, updates>>
    <3>1. Types'
      BY <2>2 DEF Types
    <3>2. ASSUME NEW d \in Calls \ {c} PROVE Still(d)
      BY <2>2 DEF Types, Still
    <3>3. /\ client'[c] = "body" /\ read'[c] = read[c] + 1 /\ server'[c] = server[c]
          /\ proto'[c] = proto[c] /\ asked'[c] = asked[c] /\ mine'[c] = mine[c]
          /\ up'[c] = up[c] /\ upShut'[c] = upShut[c] /\ down'[c] = down[c]
          /\ downShut'[c] = downShut[c] /\ lost'[c] = lost[c] /\ got'[c] = got[c]
      BY <2>2 DEF Types
    <3>4. Course(c)' /\ Written(c)' /\ Closed(c)'
      BY <2>2, <3>3, EmptyFirst, ReqRespAssumption
         DEF Types, Call, Course, Written, Closed, Protocols, WithPayload
    <3>5. Compared(c)'
      BY <2>2, <3>3, EmptyFirst, ReqRespAssumption
         DEF Types, Call, Course, Written, Compared
    <3>6. Answered(c)'
      BY <2>2, <3>3, EmptyFirst, ReqRespAssumption
         DEF Types, Call, Course, Written, Answered, HasBody, Body
    <3> QED
      BY <3>1, <3>2, <3>4, <3>5, <3>6, CallStep DEF Call
  <2> QED
    BY <1>5, <2>1, <2>2 DEF ReadCode, clientVars, serverVars
<1>6. ASSUME NEW c \in Calls, ReadBody(c) PROVE IInv'
  <2>1. CASE FailCall(c)
    BY <1>6, <2>1, FailInv DEF ReadBody
  <2>2. CASE /\ client[c] = "body"
            /\ read[c] < Len(down[c])
            /\ down[c][read[c] + 1] = "body"
            /\ client' = [client EXCEPT ![c] = "finish"]
            /\ read' = [read EXCEPT ![c] = @ + 1]
            /\ got' = [got EXCEPT ![c] = Body(c)]
            /\ UNCHANGED <<protocols, digest, server, proto, asked, mine, up, upShut, down,
                           downShut, lost, updates>>
    <3>1. Types'
      BY <2>2 DEF Types, Body
    <3>2. ASSUME NEW d \in Calls \ {c} PROVE Still(d)
      BY <2>2 DEF Types, Still
    <3>3. /\ client'[c] = "finish" /\ read'[c] = read[c] + 1 /\ got'[c] = Body(c)
          /\ server'[c] = server[c] /\ proto'[c] = proto[c] /\ asked'[c] = asked[c]
          /\ mine'[c] = mine[c] /\ up'[c] = up[c] /\ upShut'[c] = upShut[c]
          /\ down'[c] = down[c] /\ downShut'[c] = downShut[c] /\ lost'[c] = lost[c]
      BY <2>2 DEF Types
    <3>4. Course(c)' /\ Written(c)' /\ Closed(c)'
      BY <2>2, <3>3, EmptyFirst, ReqRespAssumption, BodyThere
         DEF Types, Call, Course, Written, Closed, Protocols, WithPayload
    <3>5. Compared(c)'
      BY <2>2, <3>3, EmptyFirst, ReqRespAssumption
         DEF Types, Call, Course, Written, Compared
    <3>6. Answered(c)'
      BY <2>2, <3>3, EmptyFirst, ReqRespAssumption, BodyThere
         DEF Types, Call, Course, Written, Answered, HasBody, Body
    <3> QED
      BY <3>1, <3>2, <3>4, <3>5, <3>6, CallStep DEF Call
  <2> QED
    BY <1>6, <2>1, <2>2 DEF ReadBody, clientVars, serverVars
<1>7. ASSUME NEW c \in Calls, FinishCall(c) PROVE IInv'
  <2>1. CASE /\ client[c] = "finish"
            /\ proto[c] = "status" /\ got[c] # asked[c]
            /\ client' = [client EXCEPT ![c] = "ok"]
            /\ upShut' = [upShut EXCEPT ![c] = TRUE]
            /\ updates' = updates \cup {<<"client", c>>}
            /\ UNCHANGED <<protocols, digest, server, proto, asked, mine, up, down, downShut,
                           read, lost, got>>
    <3>1. Types'
      BY <2>1 DEF Types
    <3>2. ASSUME NEW d \in Calls \ {c} PROVE Still(d)
      BY <2>1 DEF Types, Still
    <3>3. /\ client'[c] = "ok" /\ upShut'[c] = TRUE /\ server'[c] = server[c]
          /\ proto'[c] = proto[c] /\ asked'[c] = asked[c] /\ mine'[c] = mine[c]
          /\ up'[c] = up[c] /\ down'[c] = down[c] /\ downShut'[c] = downShut[c]
          /\ read'[c] = read[c] /\ lost'[c] = lost[c] /\ got'[c] = got[c]
      BY <2>1 DEF Types
    <3>4. Course(c)' /\ Written(c)' /\ Closed(c)'
      BY <2>1, <3>3, EmptyFirst, ReqRespAssumption
         DEF Types, Call, Course, Written, Closed, Protocols, WithPayload
    <3>5. Compared(c)'
      BY <2>1, <3>3, EmptyFirst, ReqRespAssumption
         DEF Types, Call, Course, Written, Compared
    <3>6. Answered(c)'
      BY <2>1, <3>3, EmptyFirst, ReqRespAssumption
         DEF Types, Call, Course, Written, Answered, HasBody, Body
    <3> QED
      BY <3>1, <3>2, <3>4, <3>5, <3>6, CallStep DEF Call
  <2>2. CASE /\ client[c] = "finish"
            /\ ~(proto[c] = "status" /\ got[c] # asked[c])
            /\ client' = [client EXCEPT ![c] = "ok"]
            /\ upShut' = [upShut EXCEPT ![c] = TRUE]
            /\ UNCHANGED <<protocols, digest, server, proto, asked, mine, up, down, downShut,
                           read, lost, got, updates>>
    <3>1. Types'
      BY <2>2 DEF Types
    <3>2. ASSUME NEW d \in Calls \ {c} PROVE Still(d)
      BY <2>2 DEF Types, Still
    <3>3. /\ client'[c] = "ok" /\ upShut'[c] = TRUE /\ server'[c] = server[c]
          /\ proto'[c] = proto[c] /\ asked'[c] = asked[c] /\ mine'[c] = mine[c]
          /\ up'[c] = up[c] /\ down'[c] = down[c] /\ downShut'[c] = downShut[c]
          /\ read'[c] = read[c] /\ lost'[c] = lost[c] /\ got'[c] = got[c]
      BY <2>2 DEF Types
    <3>4. Course(c)' /\ Written(c)' /\ Closed(c)'
      BY <2>2, <3>3, EmptyFirst, ReqRespAssumption
         DEF Types, Call, Course, Written, Closed, Protocols, WithPayload
    <3>5. Compared(c)'
      BY <2>2, <3>3, EmptyFirst, ReqRespAssumption
         DEF Types, Call, Course, Written, Compared
    <3>6. Answered(c)'
      BY <2>2, <3>3, EmptyFirst, ReqRespAssumption
         DEF Types, Call, Course, Written, Answered, HasBody, Body
    <3> QED
      BY <3>1, <3>2, <3>4, <3>5, <3>6, CallStep DEF Call
  <2>3. CASE /\ client[c] = "finish"
            /\ got' = [got EXCEPT ![c] = None]
            /\ client' = [client EXCEPT ![c] = "failed"]
            /\ upShut' = [upShut EXCEPT ![c] = TRUE]
            /\ UNCHANGED <<protocols, digest, server, proto, asked, mine, up, down, downShut,
                           read, lost, updates>>
    <3>1. Types'
      BY <2>3 DEF Types
    <3>2. ASSUME NEW d \in Calls \ {c} PROVE Still(d)
      BY <2>3 DEF Types, Still
    <3>3. /\ got'[c] = None /\ client'[c] = "failed" /\ upShut'[c] = TRUE
          /\ server'[c] = server[c] /\ proto'[c] = proto[c] /\ asked'[c] = asked[c]
          /\ mine'[c] = mine[c] /\ up'[c] = up[c] /\ down'[c] = down[c]
          /\ downShut'[c] = downShut[c] /\ read'[c] = read[c] /\ lost'[c] = lost[c]
      BY <2>3 DEF Types
    <3>4. Course(c)' /\ Written(c)' /\ Closed(c)'
      BY <2>3, <3>3, EmptyFirst, ReqRespAssumption
         DEF Types, Call, Course, Written, Closed, Protocols, WithPayload
    <3>5. Compared(c)'
      BY <2>3, <3>3, EmptyFirst, ReqRespAssumption
         DEF Types, Call, Course, Written, Compared
    <3>6. Answered(c)'
      BY <2>3, <3>3, EmptyFirst, ReqRespAssumption
         DEF Types, Call, Course, Written, Answered, HasBody, Body
    <3> QED
      BY <3>1, <3>2, <3>4, <3>5, <3>6, CallStep DEF Call
  <2> QED
    BY <1>7, <2>1, <2>2, <2>3 DEF FinishCall, clientVars, serverVars
<1>8. ASSUME NEW c \in Calls, Dispatch(c) PROVE IInv'
  <2>1. CASE /\ server[c] = "start"
            /\ lost[c]
            /\ server' = [server EXCEPT ![c] = "gone"]
            /\ UNCHANGED <<protocols, digest, client, proto, asked, mine, up, upShut, down,
                           downShut, read, lost, got, updates>>
    <3>1. Types'
      BY <2>1 DEF Types
    <3>2. ASSUME NEW d \in Calls \ {c} PROVE Still(d)
      BY <2>1 DEF Types, Still
    <3>3. /\ server'[c] = "gone" /\ client'[c] = client[c] /\ proto'[c] = proto[c]
          /\ asked'[c] = asked[c] /\ mine'[c] = mine[c] /\ up'[c] = up[c]
          /\ upShut'[c] = upShut[c] /\ down'[c] = down[c] /\ downShut'[c] = downShut[c]
          /\ read'[c] = read[c] /\ lost'[c] = lost[c] /\ got'[c] = got[c]
      BY <2>1 DEF Types
    <3>4. Course(c)' /\ Written(c)' /\ Closed(c)'
      BY <2>1, <3>3, EmptyFirst, ReqRespAssumption
         DEF Types, Call, Course, Written, Closed, Protocols, WithPayload
    <3>5. Compared(c)'
      BY <2>1, <3>3, EmptyFirst, ReqRespAssumption
         DEF Types, Call, Course, Written, Compared
    <3>6. Answered(c)'
      BY <2>1, <3>3, EmptyFirst, ReqRespAssumption
         DEF Types, Call, Course, Written, Answered, HasBody, Body
    <3> QED
      BY <3>1, <3>2, <3>4, <3>5, <3>6, CallStep DEF Call
  <2>2. CASE /\ server[c] = "start"
            /\ ~lost[c] /\ proto[c] \in WithPayload
            /\ server' = [server EXCEPT ![c] = "read"]
            /\ UNCHANGED <<protocols, digest, client, proto, asked, mine, up, upShut, down,
                           downShut, read, lost, got, updates>>
    <3>1. Types'
      BY <2>2 DEF Types
    <3>2. ASSUME NEW d \in Calls \ {c} PROVE Still(d)
      BY <2>2 DEF Types, Still
    <3>3. /\ server'[c] = "read" /\ client'[c] = client[c] /\ proto'[c] = proto[c]
          /\ asked'[c] = asked[c] /\ mine'[c] = mine[c] /\ up'[c] = up[c]
          /\ upShut'[c] = upShut[c] /\ down'[c] = down[c] /\ downShut'[c] = downShut[c]
          /\ read'[c] = read[c] /\ lost'[c] = lost[c] /\ got'[c] = got[c]
      BY <2>2 DEF Types
    <3>4. Course(c)' /\ Written(c)' /\ Closed(c)'
      BY <2>2, <3>3, EmptyFirst, ReqRespAssumption
         DEF Types, Call, Course, Written, Closed, Protocols, WithPayload
    <3>5. Compared(c)'
      BY <2>2, <3>3, EmptyFirst, ReqRespAssumption
         DEF Types, Call, Course, Written, Compared
    <3>6. Answered(c)'
      BY <2>2, <3>3, EmptyFirst, ReqRespAssumption
         DEF Types, Call, Course, Written, Answered, HasBody, Body
    <3> QED
      BY <3>1, <3>2, <3>4, <3>5, <3>6, CallStep DEF Call
  <2>3. CASE /\ server[c] = "start"
            /\ ~lost[c] /\ proto[c] = "metadata"
            /\ server' = [server EXCEPT ![c] = "write"]
            /\ UNCHANGED <<protocols, digest, client, proto, asked, mine, up, upShut, down,
                           downShut, read, lost, got, updates>>
    <3>1. Types'
      BY <2>3 DEF Types
    <3>2. ASSUME NEW d \in Calls \ {c} PROVE Still(d)
      BY <2>3 DEF Types, Still
    <3>3. /\ server'[c] = "write" /\ client'[c] = client[c] /\ proto'[c] = proto[c]
          /\ asked'[c] = asked[c] /\ mine'[c] = mine[c] /\ up'[c] = up[c]
          /\ upShut'[c] = upShut[c] /\ down'[c] = down[c] /\ downShut'[c] = downShut[c]
          /\ read'[c] = read[c] /\ lost'[c] = lost[c] /\ got'[c] = got[c]
      BY <2>3 DEF Types
    <3>4. Course(c)' /\ Written(c)' /\ Closed(c)'
      BY <2>3, <3>3, EmptyFirst, ReqRespAssumption
         DEF Types, Call, Course, Written, Closed, Protocols, WithPayload
    <3>5. Compared(c)'
      BY <2>3, <3>3, EmptyFirst, ReqRespAssumption
         DEF Types, Call, Course, Written, Compared
    <3>6. Answered(c)'
      BY <2>3, <3>3, EmptyFirst, ReqRespAssumption
         DEF Types, Call, Course, Written, Answered, HasBody, Body
    <3> QED
      BY <3>1, <3>2, <3>4, <3>5, <3>6, CallStep DEF Call
  <2>4. CASE /\ server[c] = "start"
            /\ ~lost[c] /\ proto[c] \notin WithPayload \cup {"metadata"}
            /\ server' = [server EXCEPT ![c] = "refuse"]
            /\ UNCHANGED <<protocols, digest, client, proto, asked, mine, up, upShut, down,
                           downShut, read, lost, got, updates>>
    <3>1. Types'
      BY <2>4 DEF Types
    <3>2. ASSUME NEW d \in Calls \ {c} PROVE Still(d)
      BY <2>4 DEF Types, Still
    <3>3. /\ server'[c] = "refuse" /\ client'[c] = client[c] /\ proto'[c] = proto[c]
          /\ asked'[c] = asked[c] /\ mine'[c] = mine[c] /\ up'[c] = up[c]
          /\ upShut'[c] = upShut[c] /\ down'[c] = down[c] /\ downShut'[c] = downShut[c]
          /\ read'[c] = read[c] /\ lost'[c] = lost[c] /\ got'[c] = got[c]
      BY <2>4 DEF Types
    <3>4. Course(c)' /\ Written(c)' /\ Closed(c)'
      BY <2>4, <3>3, EmptyFirst, ReqRespAssumption
         DEF Types, Call, Course, Written, Closed, Protocols, WithPayload
    <3>5. Compared(c)'
      BY <2>4, <3>3, EmptyFirst, ReqRespAssumption
         DEF Types, Call, Course, Written, Compared
    <3>6. Answered(c)'
      BY <2>4, <3>3, EmptyFirst, ReqRespAssumption
         DEF Types, Call, Course, Written, Answered, HasBody, Body
    <3> QED
      BY <3>1, <3>2, <3>4, <3>5, <3>6, CallStep DEF Call
  <2> QED
    <3>1. CASE lost[c]
      BY <1>8, <2>1, <3>1 DEF Dispatch, clientVars, serverVars
    <3>2. CASE ~lost[c] /\ proto[c] \in WithPayload
      BY <1>8, <2>2, <3>2 DEF Dispatch, clientVars, serverVars, WithPayload
    <3>3. CASE ~lost[c] /\ proto[c] = "metadata"
      BY <1>8, <2>3, <3>3 DEF Dispatch, clientVars, serverVars, WithPayload
    <3>4. CASE ~lost[c] /\ proto[c] \notin WithPayload \cup {"metadata"}
      BY <1>8, <2>4, <3>4 DEF Dispatch, clientVars, serverVars
    <3> QED
      BY <3>1, <3>2, <3>3, <3>4
<1>9. ASSUME NEW c \in Calls, ReadRequest(c) PROVE IInv'
  <2>1. CASE /\ server[c] = "read"
            /\ proto[c] = "status"
            /\ server' = [server EXCEPT ![c] = "serve"]
            /\ UNCHANGED <<protocols, digest, client, proto, asked, mine, up, upShut, down,
                           downShut, read, lost, got, updates>>
    <3>1. Types'
      BY <2>1 DEF Types
    <3>2. ASSUME NEW d \in Calls \ {c} PROVE Still(d)
      BY <2>1 DEF Types, Still
    <3>3. /\ server'[c] = "serve" /\ client'[c] = client[c] /\ proto'[c] = proto[c]
          /\ asked'[c] = asked[c] /\ mine'[c] = mine[c] /\ up'[c] = up[c]
          /\ upShut'[c] = upShut[c] /\ down'[c] = down[c] /\ downShut'[c] = downShut[c]
          /\ read'[c] = read[c] /\ lost'[c] = lost[c] /\ got'[c] = got[c]
      BY <2>1 DEF Types
    <3>4. Course(c)' /\ Written(c)' /\ Closed(c)'
      BY <2>1, <3>3, EmptyFirst, ReqRespAssumption
         DEF Types, Call, Course, Written, Closed, Protocols, WithPayload
    <3>5. Compared(c)'
      BY <2>1, <3>3, EmptyFirst, ReqRespAssumption
         DEF Types, Call, Course, Written, Compared
    <3>6. Answered(c)'
      BY <2>1, <3>3, EmptyFirst, ReqRespAssumption
         DEF Types, Call, Course, Written, Answered, HasBody, Body
    <3> QED
      BY <3>1, <3>2, <3>4, <3>5, <3>6, CallStep DEF Call
  <2>2. CASE /\ server[c] = "read"
            /\ proto[c] # "status"
            /\ proto[c] # "dummy"
            /\ server' = [server EXCEPT ![c] = "write"]
            /\ UNCHANGED <<protocols, digest, client, proto, asked, mine, up, upShut, down,
                           downShut, read, lost, got, updates>>
    <3>1. Types'
      BY <2>2 DEF Types
    <3>2. ASSUME NEW d \in Calls \ {c} PROVE Still(d)
      BY <2>2 DEF Types, Still
    <3>3. /\ server'[c] = "write" /\ client'[c] = client[c] /\ proto'[c] = proto[c]
          /\ asked'[c] = asked[c] /\ mine'[c] = mine[c] /\ up'[c] = up[c]
          /\ upShut'[c] = upShut[c] /\ down'[c] = down[c] /\ downShut'[c] = downShut[c]
          /\ read'[c] = read[c] /\ lost'[c] = lost[c] /\ got'[c] = got[c]
      BY <2>2 DEF Types
    <3>4. Course(c)' /\ Written(c)' /\ Closed(c)'
      BY <2>2, <3>3, EmptyFirst, ReqRespAssumption
         DEF Types, Call, Course, Written, Closed, Protocols, WithPayload
    <3>5. Compared(c)'
      BY <2>2, <3>3, EmptyFirst, ReqRespAssumption
         DEF Types, Call, Course, Written, Compared
    <3>6. Answered(c)'
      BY <2>2, <3>3, EmptyFirst, ReqRespAssumption
         DEF Types, Call, Course, Written, Answered, HasBody, Body
    <3> QED
      BY <3>1, <3>2, <3>4, <3>5, <3>6, CallStep DEF Call
  <2>3. CASE /\ server[c] = "read"
            /\ proto[c] \in {"status", "goodbye"}
            /\ server' = [server EXCEPT ![c] = "refuse"]
            /\ UNCHANGED <<protocols, digest, client, proto, asked, mine, up, upShut, down,
                           downShut, read, lost, got, updates>>
    <3>1. Types'
      BY <2>3 DEF Types
    <3>2. ASSUME NEW d \in Calls \ {c} PROVE Still(d)
      BY <2>3 DEF Types, Still
    <3>3. /\ server'[c] = "refuse" /\ client'[c] = client[c] /\ proto'[c] = proto[c]
          /\ asked'[c] = asked[c] /\ mine'[c] = mine[c] /\ up'[c] = up[c]
          /\ upShut'[c] = upShut[c] /\ down'[c] = down[c] /\ downShut'[c] = downShut[c]
          /\ read'[c] = read[c] /\ lost'[c] = lost[c] /\ got'[c] = got[c]
      BY <2>3 DEF Types
    <3>4. Course(c)' /\ Written(c)' /\ Closed(c)'
      BY <2>3, <3>3, EmptyFirst, ReqRespAssumption
         DEF Types, Call, Course, Written, Closed, Protocols, WithPayload
    <3>5. Compared(c)'
      BY <2>3, <3>3, EmptyFirst, ReqRespAssumption
         DEF Types, Call, Course, Written, Compared
    <3>6. Answered(c)'
      BY <2>3, <3>3, EmptyFirst, ReqRespAssumption
         DEF Types, Call, Course, Written, Answered, HasBody, Body
    <3> QED
      BY <3>1, <3>2, <3>4, <3>5, <3>6, CallStep DEF Call
  <2>4. CASE /\ server[c] = "read"
            /\ server' = [server EXCEPT ![c] = "close"]
            /\ UNCHANGED <<protocols, digest, client, proto, asked, mine, up, upShut, down,
                           downShut, read, lost, got, updates>>
    <3>1. Types'
      BY <2>4 DEF Types
    <3>2. ASSUME NEW d \in Calls \ {c} PROVE Still(d)
      BY <2>4 DEF Types, Still
    <3>3. /\ server'[c] = "close" /\ client'[c] = client[c] /\ proto'[c] = proto[c]
          /\ asked'[c] = asked[c] /\ mine'[c] = mine[c] /\ up'[c] = up[c]
          /\ upShut'[c] = upShut[c] /\ down'[c] = down[c] /\ downShut'[c] = downShut[c]
          /\ read'[c] = read[c] /\ lost'[c] = lost[c] /\ got'[c] = got[c]
      BY <2>4 DEF Types
    <3>4. Course(c)' /\ Written(c)' /\ Closed(c)'
      BY <2>4, <3>3, EmptyFirst, ReqRespAssumption
         DEF Types, Call, Course, Written, Closed, Protocols, WithPayload
    <3>5. Compared(c)'
      BY <2>4, <3>3, EmptyFirst, ReqRespAssumption
         DEF Types, Call, Course, Written, Compared
    <3>6. Answered(c)'
      BY <2>4, <3>3, EmptyFirst, ReqRespAssumption
         DEF Types, Call, Course, Written, Answered, HasBody, Body
    <3> QED
      BY <3>1, <3>2, <3>4, <3>5, <3>6, CallStep DEF Call
  <2> QED
    <3>1. proto[c] \in WithPayload
      BY <1>9 DEF Call, Course, ReadRequest
    <3>2. CASE up[c] /\ ~lost[c] /\ server' = [server EXCEPT ![c] =
                   IF proto[c] = "status" THEN "serve" ELSE "write"]
      BY <1>9, <2>1, <2>2, <3>1, <3>2 DEF ReadRequest, clientVars, serverVars, WithPayload
    <3>3. CASE server' = [server EXCEPT ![c] = Unreadable(proto[c])]
      BY <1>9, <2>3, <2>4, <3>3 DEF ReadRequest, Unreadable, clientVars, serverVars
    <3> QED
      BY <1>9, <3>2, <3>3 DEF ReadRequest
<1>10. ASSUME NEW c \in Calls, ServeStatus(c) PROVE IInv'
  <2>1. CASE /\ server[c] = "serve"
            /\ digest # asked[c]
            /\ server' = [server EXCEPT ![c] = "write"]
            /\ mine' = [mine EXCEPT ![c] = digest]
            /\ updates' = updates \cup {<<"server", c>>}
            /\ UNCHANGED <<protocols, digest, client, proto, asked, up, upShut, down,
                           downShut, read, lost, got>>
    <3>1. Types'
      BY <2>1 DEF Types
    <3>2. ASSUME NEW d \in Calls \ {c} PROVE Still(d)
      BY <2>1 DEF Types, Still
    <3>3. /\ server'[c] = "write" /\ mine'[c] = digest /\ client'[c] = client[c]
          /\ proto'[c] = proto[c] /\ asked'[c] = asked[c] /\ up'[c] = up[c]
          /\ upShut'[c] = upShut[c] /\ down'[c] = down[c] /\ downShut'[c] = downShut[c]
          /\ read'[c] = read[c] /\ lost'[c] = lost[c] /\ got'[c] = got[c]
      BY <2>1 DEF Types
    <3>4. Course(c)' /\ Written(c)' /\ Closed(c)'
      BY <2>1, <3>3, EmptyFirst, ReqRespAssumption
         DEF Types, Call, Course, Written, Closed, Protocols, WithPayload
    <3>5. Compared(c)'
      BY <2>1, <3>3, EmptyFirst, ReqRespAssumption
         DEF Types, Call, Course, Written, Compared
    <3>6. Answered(c)'
      BY <2>1, <3>3, EmptyFirst, ReqRespAssumption
         DEF Types, Call, Course, Written, Answered, HasBody, Body
    <3> QED
      BY <3>1, <3>2, <3>4, <3>5, <3>6, CallStep DEF Call
  <2>2. CASE /\ server[c] = "serve"
            /\ digest = asked[c]
            /\ server' = [server EXCEPT ![c] = "write"]
            /\ mine' = [mine EXCEPT ![c] = digest]
            /\ UNCHANGED <<protocols, digest, client, proto, asked, up, upShut, down,
                           downShut, read, lost, got, updates>>
    <3>1. Types'
      BY <2>2 DEF Types
    <3>2. ASSUME NEW d \in Calls \ {c} PROVE Still(d)
      BY <2>2 DEF Types, Still
    <3>3. /\ server'[c] = "write" /\ mine'[c] = digest /\ client'[c] = client[c]
          /\ proto'[c] = proto[c] /\ asked'[c] = asked[c] /\ up'[c] = up[c]
          /\ upShut'[c] = upShut[c] /\ down'[c] = down[c] /\ downShut'[c] = downShut[c]
          /\ read'[c] = read[c] /\ lost'[c] = lost[c] /\ got'[c] = got[c]
      BY <2>2 DEF Types
    <3>4. Course(c)' /\ Written(c)' /\ Closed(c)'
      BY <2>2, <3>3, EmptyFirst, ReqRespAssumption
         DEF Types, Call, Course, Written, Closed, Protocols, WithPayload
    <3>5. Compared(c)'
      BY <2>2, <3>3, EmptyFirst, ReqRespAssumption
         DEF Types, Call, Course, Written, Compared
    <3>6. Answered(c)'
      BY <2>2, <3>3, EmptyFirst, ReqRespAssumption
         DEF Types, Call, Course, Written, Answered, HasBody, Body
    <3> QED
      BY <3>1, <3>2, <3>4, <3>5, <3>6, CallStep DEF Call
  <2> QED
    BY <1>10, <2>1, <2>2 DEF ServeStatus, clientVars, serverVars
<1>11. ASSUME NEW c \in Calls, WriteResponse(c) PROVE IInv'
  <2>1. down[c] = <<>> /\ server[c] = "write" /\ proto[c] # "dummy"
    BY <1>11 DEF WriteResponse, Call, Written, Course
  <2>2. UNCHANGED <<protocols, digest, client, proto, asked, read, got, mine, up, upShut,
                    lost, updates>>
    BY <1>11 DEF WriteResponse, clientVars
  <2>3. /\ down'[c] \in Begun
        /\ \/ server'[c] = "close"
           \/ server'[c] = "refuse" /\ proto[c] = "goodbye"
        /\ Types'
    <3>1. CASE down' = [down EXCEPT ![c] = @ \o <<"ok", "body">>]
               /\ downShut' = [downShut EXCEPT ![c] = TRUE]
               /\ server' = [server EXCEPT ![c] = "close"]
      <4>1. down' = [down EXCEPT ![c] = <<"ok", "body">>] /\ <<"ok", "body">> \in Begun
        BY <2>1, <3>1, Responding DEF Types, Begun
      <4>2. /\ server' = [server EXCEPT ![c] = "close"]
            /\ downShut' = [downShut EXCEPT ![c] = TRUE]
        BY <3>1
      <4> QED
        BY <2>2, <4>1, <4>2 DEF Types
    <3>2. ASSUME NEW w \in Begun, down' = [down EXCEPT ![c] = @ \o w],
                 server' = [server EXCEPT ![c] = AfterFailedResponse(proto[c])],
                 UNCHANGED downShut
          PROVE  /\ down'[c] \in Begun
                 /\ \/ server'[c] = "close"
                    \/ server'[c] = "refuse" /\ proto[c] = "goodbye"
                 /\ Types'
      <4>1. down' = [down EXCEPT ![c] = w]
        BY <2>1, <3>2, Responding
      <4>2. /\ server' = [server EXCEPT ![c] =
                             IF proto[c] = "goodbye" THEN "refuse" ELSE "close"]
            /\ w \in Begun /\ UNCHANGED downShut
        BY <3>2 DEF AfterFailedResponse
      <4> QED
        BY <2>2, <4>1, <4>2 DEF Types
    <3> QED
      BY <1>11, <3>1, <3>2, Zenon DEF WriteResponse, Begun
  <2>4. ASSUME NEW d \in Calls \ {c} PROVE Still(d)
    BY <1>11 DEF WriteResponse, Types, Still, clientVars
  <2>5. Course(c)' /\ Written(c)' /\ Closed(c)'
    BY <2>1, <2>2, <2>3, Distinct DEF Types, Call, Course, Written, Closed
  <2>6. Compared(c)'
    BY <2>1, <2>2, <2>3, EmptyFirst DEF Types, Call, Course, Written, Compared
  <2>7. Answered(c)'
    BY <2>1, <2>2, <2>3, EmptyFirst, Distinct
       DEF Types, Call, Course, Written, Answered, HasBody, Body
  <2> QED
    BY <2>3, <2>4, <2>5, <2>6, <2>7, CallStep DEF Call
<1>12. ASSUME NEW c \in Calls, WriteRefusal(c) PROVE IInv'
  <2>1. down[c] \in Begun /\ server[c] = "refuse"
        /\ (down[c] = <<>> \/ proto[c] = "goodbye")
    BY <1>12 DEF WriteRefusal, Call, Written
  <2>2. UNCHANGED <<protocols, digest, client, proto, asked, read, got, mine, up, upShut,
                    lost, updates>>
    BY <1>12 DEF WriteRefusal, clientVars
  <2>3. /\ down'[c] \in {down[c], Append(down[c], "err")}
        /\ \/ server'[c] = "close"
           \/ server'[c] = "gone" /\ proto[c] = "dummy"
        /\ Types'
    <3>1. CASE down' = [down EXCEPT ![c] = Append(@, "err")]
               /\ downShut' = [downShut EXCEPT ![c] = TRUE]
               /\ server' = [server EXCEPT ![c] = "close"]
      BY <2>1, <2>2, <3>1, Refusing DEF Types
    <3>2. ASSUME NEW w \in {<<>>, <<"err">>}, down' = [down EXCEPT ![c] = @ \o w],
                 server' = [server EXCEPT ![c] = AfterFailedRefusal(proto[c])],
                 UNCHANGED downShut
          PROVE  /\ down'[c] \in {down[c], Append(down[c], "err")}
                 /\ \/ server'[c] = "close"
                    \/ server'[c] = "gone" /\ proto[c] = "dummy"
                 /\ Types'
      <4>1. down[c] \o w \in {down[c], Append(down[c], "err")}
        BY <2>1, <3>2, Refusing
      <4>2. down[c] \o w \in Begun \cup {<<"err">>} \cup Twice
        BY <2>1, <4>1, Refusing
      <4> QED
        BY <2>2, <3>2, <4>1, <4>2 DEF AfterFailedRefusal, Types
    <3> QED
      BY <1>12, <3>1, <3>2, Zenon DEF WriteRefusal
  <2>4. ASSUME NEW d \in Calls \ {c} PROVE Still(d)
    BY <1>12 DEF WriteRefusal, Types, Still, clientVars
  <2>5. Course(c)' /\ Written(c)' /\ Closed(c)'
    <3>1. proto[c] # "goodbye" => down'[c] \in {<<>>, <<"err">>}
      BY <2>1, <2>3, Refusing
    <3> QED
      BY <2>1, <2>2, <2>3, <3>1, Distinct, EmptyFirst
         DEF Types, Call, Course, Written, Closed
  <2>6. Compared(c)'
    <3>1. proto[c] # "goodbye" => down'[c] \notin {<<"ok">>, <<"ok", "body">>}
      BY <2>1, <2>3, Refusing, EmptyFirst
    <3> QED
      BY <2>1, <2>2, <2>3, <3>1 DEF Types, Call, Course, Written, Compared
  <2>7. Answered(c)'
    <3>1. HasBody(c) => HasBody(c)'
      BY <2>1, <2>3, Refusing, Distinct DEF HasBody, Twice
    <3>2. Len(down[c]) <= Len(down'[c])
      BY <2>1, <2>3, Refusing, Distinct
    <3>3. Len(down[c]) \in Nat /\ Len(down'[c]) \in Nat
      BY <2>1, <2>3, Distinct DEF Types
    <3>4. read'[c] <= Len(down'[c])
      <4>1. read[c] \in Nat /\ read[c] <= Len(down[c]) /\ read'[c] = read[c]
        BY <2>2 DEF Types, Call, Answered
      <4> QED
        BY <3>2, <3>3, <4>1
    <3> QED
      BY <2>2, <3>1, <3>4 DEF Call, Answered, Body
  <2> QED
    BY <2>3, <2>4, <2>5, <2>6, <2>7, CallStep DEF Call
<1>13. ASSUME NEW c \in Calls, CloseStream(c) PROVE IInv'
  <2>1. CASE /\ server[c] = "close"
            /\ server' = [server EXCEPT ![c] = "gone"]
            /\ downShut' = [downShut EXCEPT ![c] = TRUE]
            /\ UNCHANGED <<protocols, digest, client, proto, asked, mine, up, upShut, down,
                           read, lost, got, updates>>
    <3>1. Types'
      BY <2>1 DEF Types
    <3>2. ASSUME NEW d \in Calls \ {c} PROVE Still(d)
      BY <2>1 DEF Types, Still
    <3>3. /\ server'[c] = "gone" /\ downShut'[c] = TRUE /\ client'[c] = client[c]
          /\ proto'[c] = proto[c] /\ asked'[c] = asked[c] /\ mine'[c] = mine[c]
          /\ up'[c] = up[c] /\ upShut'[c] = upShut[c] /\ down'[c] = down[c]
          /\ read'[c] = read[c] /\ lost'[c] = lost[c] /\ got'[c] = got[c]
      BY <2>1 DEF Types
    <3>4. Course(c)' /\ Written(c)' /\ Closed(c)'
      BY <2>1, <3>3, EmptyFirst, ReqRespAssumption
         DEF Types, Call, Course, Written, Closed, Protocols, WithPayload
    <3>5. Compared(c)'
      BY <2>1, <3>3, EmptyFirst, ReqRespAssumption
         DEF Types, Call, Course, Written, Compared
    <3>6. Answered(c)'
      BY <2>1, <3>3, EmptyFirst, ReqRespAssumption
         DEF Types, Call, Course, Written, Answered, HasBody, Body
    <3> QED
      BY <3>1, <3>2, <3>4, <3>5, <3>6, CallStep DEF Call
  <2> QED
    BY <1>13, <2>1 DEF CloseStream, clientVars, serverVars
<1>14. ASSUME NEW c \in Calls, LoseConnection(c) PROVE IInv'
  <2>1. CASE /\ server[c] # "none"
            /\ lost' = [lost EXCEPT ![c] = TRUE]
            /\ UNCHANGED <<protocols, digest, client, server, proto, asked, mine, up, upShut,
                           down, downShut, read, got, updates>>
    <3>1. Types'
      BY <2>1 DEF Types
    <3>2. ASSUME NEW d \in Calls \ {c} PROVE Still(d)
      BY <2>1 DEF Types, Still
    <3>3. /\ lost'[c] = TRUE /\ client'[c] = client[c] /\ server'[c] = server[c]
          /\ proto'[c] = proto[c] /\ asked'[c] = asked[c] /\ mine'[c] = mine[c]
          /\ up'[c] = up[c] /\ upShut'[c] = upShut[c] /\ down'[c] = down[c]
          /\ downShut'[c] = downShut[c] /\ read'[c] = read[c] /\ got'[c] = got[c]
      BY <2>1 DEF Types
    <3>4. Course(c)' /\ Written(c)' /\ Closed(c)'
      BY <2>1, <3>3, EmptyFirst, ReqRespAssumption
         DEF Types, Call, Course, Written, Closed, Protocols, WithPayload
    <3>5. Compared(c)'
      BY <2>1, <3>3, EmptyFirst, ReqRespAssumption
         DEF Types, Call, Course, Written, Compared
    <3>6. Answered(c)'
      BY <2>1, <3>3, EmptyFirst, ReqRespAssumption
         DEF Types, Call, Course, Written, Answered, HasBody, Body
    <3> QED
      BY <3>1, <3>2, <3>4, <3>5, <3>6, CallStep DEF Call
  <2> QED
    BY <1>14, <2>1 DEF LoseConnection, clientVars, serverVars
<1>15. CASE UNCHANGED vars
  <2>1. Types'
    BY <1>15 DEF vars, Types, clientVars, serverVars
  <2>2. ASSUME NEW d \in Calls PROVE Call(d)'
    BY <1>15, <2>2, StillCall DEF vars, Still, clientVars, serverVars
  <2> QED
    BY <2>1, <2>2
<1> QED
  BY <1>1, <1>2, <1>3, <1>4, <1>5, <1>6, <1>7, <1>8, <1>9, <1>10, <1>11, <1>12,
     <1>13, <1>14, <1>15 DEF Next, ClientStep, ServerStep

THEOREM SpecInv == Spec => []IInv
<1>1. IInv /\ [Next]_vars => IInv'
  BY NextInv
<1> QED
  BY InitInv, <1>1, PTL DEF Spec

-----------------------------------------------------------------------------
\* What the streams carry is a sequence of items.
LEMMA Sequences == \A s \in Begun \cup {<<"err">>} \cup Twice : s \in Seq(Items)
<1>1. <<"err">> \in Seq(Items)
  BY DEF Items
<1>2. <<"ok", "err">> \in Seq(Items)
  BY DEF Items
<1>3. <<"ok", "body", "err">> \in Seq(Items)
  BY DEF Items
<1> QED
  BY <1>1, <1>2, <1>3, BegunItems DEF Twice

\* The state of every call of SendRequest (req.go) and of every handler
\* (req_handlers.go) has its type, and a client never has read more than the
\* handler wrote.
THEOREM TypeCorrect == Spec => []TypeOK
<1>1. IInv => TypeOK
  <2> SUFFICES ASSUME IInv PROVE TypeOK
    OBVIOUS
  <2>1. down \in [Calls -> Seq({"ok", "err", "body"})]
    BY Sequences DEF IInv, Types, Items
  <2>2. ASSUME NEW c \in Calls PROVE read[c] \in 0 .. Len(down[c])
    <3>1. read[c] \in Nat /\ read[c] <= Len(down[c])
      BY DEF IInv, Types, Call, Answered
    <3>2. Len(down[c]) \in Nat
      BY <2>1
    <3> QED
      BY <3>1, <3>2
  <2> QED
    BY <2>1, <2>2 DEF IInv, Types, TypeOK
<1> QED
  BY SpecInv, <1>1, PTL

\* No handler answers twice, however its writes fail: what it has written is a
\* prefix of one response, to which only the deferred function of handleGoodbye
\* adds an error (req_handlers.go).
THEOREM ResponseOnce == Spec => []OneResponse
<1>1. IInv => OneResponse
  BY DEF IInv, Types, Call, Written, Begun, Twice, OneResponse
<1> QED
  BY SpecInv, <1>1, PTL

\* Every handler but handleDummyRPC closes its stream, whichever of its writes
\* fail, so that the client's read is ended (req_handlers.go:291).
THEOREM OnlyDummyOpen == Spec => []OnlyDummyLeavesOpen
<1>1. IInv => OnlyDummyLeavesOpen
  BY DEF IInv, Call, Closed, OnlyDummyLeavesOpen, LeftOpen
<1> QED
  BY SpecInv, <1>1, PTL

\* Client and server compare the same two statuses, whatever SetStatus does in
\* between: the answer is the copy the handler compared (req_handlers.go:61,
\* crawler.go:632).
THEOREM EndsAgree == Spec => []UpdatesAgree
<1>1. IInv => UpdatesAgree
  <2> SUFFICES ASSUME IInv, NEW c \in Calls, client[c] = "ok", proto[c] = "status"
               PROVE  <<"client", c>> \in updates <=> <<"server", c>> \in updates
    BY DEF UpdatesAgree
  <2>1. got[c] = mine[c]
    BY DEF IInv, Call, Answered, Body
  <2>2. mine[c] # None
    <3>1. down[c] \in {<<"ok">>, <<"ok", "body">>}
      BY EmptyFirst, Distinct DEF IInv, Types, Call, Written, Answered, HasBody, Twice
    <3> QED
      BY <3>1 DEF IInv, Call, Compared
  <2> QED
    BY <2>1, <2>2 DEF IInv, Call, Answered, Compared
<1> QED
  BY SpecInv, <1>1, PTL

-----------------------------------------------------------------------------
\* What RequestContract sees of a call.
Outcome(c) == CASE client[c] = "idle" -> "none"
                [] client[c] \in {"ok", "failed"} -> client[c]
                [] OTHER -> "pending"
Reply(c) == IF HasBody(c) THEN Body(c) ELSE None
Given(c) == IF client[c] = "ok" THEN got[c] ELSE None

\* The payload is on the stream if it is one of the items.
LEMMA BodyItem ==
    \A s \in Begun \cup {<<"err">>} \cup Twice :
        "body" \in Range(s) <=> s \in {<<"ok", "body">>, <<"ok", "body", "err">>}
  BY DEF Range, Begun, Twice

\* One call takes a step of the contract, the others none.
LEMMA MapStep ==
    ASSUME Types, Types', NEW c \in Calls,
           \A d \in Calls \ {c} : /\ Outcome(d)' = Outcome(d)
                                  /\ Reply(d)' = Reply(d)
                                  /\ Given(d)' = Given(d),
           \/ Outcome(c)' = Outcome(c) /\ Reply(c)' = Reply(c) /\ Given(c)' = Given(c)
           \/ /\ Outcome(c) = "none" /\ Outcome(c)' = "pending"
              /\ Reply(c)' = Reply(c) /\ Given(c)' = Given(c)
           \/ /\ Outcome(c) # "none" /\ Reply(c) = None
              /\ Reply(c)' \in Digests \cup {Plain}
              /\ Outcome(c)' = Outcome(c) /\ Given(c)' = Given(c)
           \/ /\ Outcome(c) = "pending" /\ Reply(c) # None
              /\ Outcome(c)' = "ok" /\ Given(c)' = Reply(c) /\ Reply(c)' = Reply(c)
           \/ /\ Outcome(c) \in {"none", "pending"} /\ Outcome(c)' = "failed"
              /\ Reply(c)' = Reply(c) /\ Given(c)' = Given(c)
    PROVE  [Contract!Next]_Contract!vars
<1> DEFINE out == [d \in Calls |-> Outcome(d)]
           rep == [d \in Calls |-> Reply(d)]
           giv == [d \in Calls |-> Given(d)]
<1>1. /\ out = [d \in Calls |-> CASE client[d] = "idle" -> "none"
                                  [] client[d] \in {"ok", "failed"} -> client[d]
                                  [] OTHER -> "pending"]
      /\ giv = [d \in Calls |-> IF client[d] = "ok" THEN got[d] ELSE None]
  BY DEF Outcome, Given
<1>2. /\ out' = [d \in Calls |-> CASE client[d] = "idle" -> "none"
                                  [] client[d] \in {"ok", "failed"} -> client[d]
                                  [] OTHER -> "pending"]'
      /\ giv' = [d \in Calls |-> IF client[d] = "ok" THEN got[d] ELSE None]'
  BY DEF Outcome, Given
<1>3. rep = [d \in Calls |-> IF "body" \in Range(down[d]) THEN Body(d) ELSE None]
  BY BodyItem DEF Reply, HasBody, Types
<1>4. rep' = [d \in Calls |-> IF "body" \in Range(down[d]) THEN Body(d) ELSE None]'
  BY BodyItem DEF Reply, HasBody, Types
<1>5. /\ out[c] = Outcome(c) /\ rep[c] = Reply(c) /\ giv[c] = Given(c)
  OBVIOUS
<1>6. CASE Outcome(c)' = Outcome(c) /\ Reply(c)' = Reply(c) /\ Given(c)' = Given(c)
  <2>1. out' = out /\ rep' = rep /\ giv' = giv
    BY <1>6
  <2> QED
    BY <2>1, <1>1, <1>2, <1>3, <1>4 DEF Contract!vars
<1>7. CASE /\ Outcome(c) = "none" /\ Outcome(c)' = "pending"
           /\ Reply(c)' = Reply(c) /\ Given(c)' = Given(c)
  <2>1. out' = [out EXCEPT ![c] = "pending"] /\ rep' = rep /\ giv' = giv
    BY <1>7
  <2>2. Contract!Send(c)
    BY <2>1, <1>7, <1>1, <1>2, <1>3, <1>4, <1>5 DEF Contract!Send
  <2> QED
    BY <2>2 DEF Contract!Next
<1>8. CASE /\ Outcome(c) # "none" /\ Reply(c) = None
           /\ Reply(c)' \in Digests \cup {Plain}
           /\ Outcome(c)' = Outcome(c) /\ Given(c)' = Given(c)
  <2>1. out' = out /\ rep' = [rep EXCEPT ![c] = Reply(c)'] /\ giv' = giv
    BY <1>8
  <2>2. Contract!Answer(c, Reply(c)')
    BY <2>1, <1>8, <1>1, <1>2, <1>3, <1>4, <1>5 DEF Contract!Answer
  <2> QED
    BY <2>2, <1>8 DEF Contract!Next
<1>9. CASE /\ Outcome(c) = "pending" /\ Reply(c) # None
           /\ Outcome(c)' = "ok" /\ Given(c)' = Reply(c) /\ Reply(c)' = Reply(c)
  <2>1. /\ out' = [out EXCEPT ![c] = "ok"] /\ rep' = rep
        /\ giv' = [giv EXCEPT ![c] = rep[c]]
    BY <1>5, <1>9
  <2>2. Contract!Return(c)
    BY <2>1, <1>9, <1>1, <1>2, <1>3, <1>4, <1>5 DEF Contract!Return
  <2> QED
    BY <2>2 DEF Contract!Next
<1>10. CASE /\ Outcome(c) \in {"none", "pending"} /\ Outcome(c)' = "failed"
            /\ Reply(c)' = Reply(c) /\ Given(c)' = Given(c)
  <2>1. out' = [out EXCEPT ![c] = "failed"] /\ rep' = rep /\ giv' = giv
    BY <1>10
  <2>2. Contract!Fail(c)
    BY <2>1, <1>10, <1>1, <1>2, <1>3, <1>4, <1>5 DEF Contract!Fail
  <2> QED
    BY <2>2 DEF Contract!Next
<1> QED
  BY <1>6, <1>7, <1>8, <1>9, <1>10

\* A step of one call leaves the others alone.
LEMMA OthersStill ==
    ASSUME Types, NEW c \in Calls, NEW d \in Calls \ {c},
           \/ \E p \in Protocols : NewStream(c, p)
           \/ ClientStep(c) \/ ServerStep(c) \/ LoseConnection(c)
    PROVE  Still(d)
<1> USE DEF Types, Still, clientVars, serverVars
<1>1. CASE \E p \in Protocols : NewStream(c, p)
  BY <1>1 DEF NewStream
<1>2. CASE WritePayload(c)
  BY <1>2 DEF WritePayload, FailCall
<1>3. CASE ReadCode(c)
  BY <1>3 DEF ReadCode, FailCall
<1>4. CASE ReadBody(c)
  BY <1>4 DEF ReadBody, FailCall
<1>5. CASE FinishCall(c)
  BY <1>5 DEF FinishCall
<1>6. CASE Dispatch(c) \/ ReadRequest(c)
  BY <1>6 DEF Dispatch, ReadRequest
<1>7. CASE ServeStatus(c)
  BY <1>7 DEF ServeStatus
<1>8. CASE WriteResponse(c)
  BY <1>8 DEF WriteResponse
<1>9. CASE WriteRefusal(c)
  BY <1>9 DEF WriteRefusal
<1>10. CASE CloseStream(c)
  BY <1>10 DEF CloseStream
<1>11. CASE LoseConnection(c)
  BY <1>11 DEF LoseConnection
<1> QED
  BY <1>1, <1>2, <1>3, <1>4, <1>5, <1>6, <1>7, <1>8, <1>9, <1>10, <1>11
     DEF ClientStep, ServerStep

LEMMA StillMapped ==
    ASSUME NEW d \in Calls, Still(d)
    PROVE  Outcome(d)' = Outcome(d) /\ Reply(d)' = Reply(d) /\ Given(d)' = Given(d)
  BY DEF Still, Outcome, Reply, Given, HasBody, Body

\* The handler's steps before its response leave what the contract sees.
LEMMA Unseen ==
    ASSUME NEW c \in Calls, client'[c] = client[c], got'[c] = got[c],
           ~HasBody(c), ~HasBody(c)'
    PROVE  Outcome(c)' = Outcome(c) /\ Reply(c)' = Reply(c) /\ Given(c)' = Given(c)
  BY DEF Outcome, Reply, Given

\* A refusal brings no body.
LEMMA RefusedBody ==
    \A s \in Begun : s \in {<<"ok", "body">>, <<"ok", "body", "err">>} <=>
                     Append(s, "err") \in {<<"ok", "body">>, <<"ok", "body", "err">>}
<1>1. Append(<<>>, "err") = <<"err">>
  OBVIOUS
<1>2. Append(<<"ok">>, "err") = <<"ok", "err">>
  BY AppendOne
<1>3. Append(<<"ok", "body">>, "err") = <<"ok", "body", "err">>
  BY AppendTwo
<1>4. <<"ok", "err">> \notin {<<"ok", "body">>, <<"ok", "body", "err">>}
  OBVIOUS
<1>5. <<"err">> \notin {<<"ok", "body">>, <<"ok", "body", "err">>}
  OBVIOUS
<1>6. <<>> \notin {<<"ok", "body">>, <<"ok", "body", "err">>}
  BY EmptyFirst
<1>7. <<"ok">> \notin {<<"ok", "body">>, <<"ok", "body", "err">>}
  OBVIOUS
<1> QED
  BY <1>1, <1>2, <1>3, <1>4, <1>5, <1>6, <1>7 DEF Begun

\* A step of a call is a step of the contract, or none.
LEMMA CallRefines ==
    ASSUME IInv, IInv', NEW c \in Calls,
           \/ \E p \in Protocols : NewStream(c, p)
           \/ ClientStep(c) \/ ServerStep(c) \/ LoseConnection(c)
    PROVE  [Contract!Next]_Contract!vars
<1>1. \A d \in Calls \ {c} : Outcome(d)' = Outcome(d) /\ Reply(d)' = Reply(d)
                             /\ Given(d)' = Given(d)
  BY OthersStill, StillMapped DEF IInv
<1>t. Types /\ Types' /\ Call(c) /\ Call(c)'
  BY DEF IInv
\* What the contract sees of c does not change.
<1> DEFINE Same == Outcome(c)' = Outcome(c) /\ Reply(c)' = Reply(c) /\ Given(c)' = Given(c)
           Failed == /\ Outcome(c) \in {"none", "pending"} /\ Outcome(c)' = "failed"
                     /\ Reply(c)' = Reply(c) /\ Given(c)' = Given(c)
<1>s. ASSUME Same \/ Failed PROVE [Contract!Next]_Contract!vars
  BY <1>1, <1>t, <1>s, MapStep
<1> HIDE DEF Same, Failed
<1>f. ASSUME FailCall(c), client[c] \in {"write", "code", "body"} PROVE Failed
  <2>1. client'[c] = "failed" /\ Reply(c)' = Reply(c) /\ got'[c] = got[c]
    BY <1>f, <1>t DEF FailCall, Types, Reply, HasBody, Body, serverVars
  <2> QED
    BY <2>1, <1>f DEF Failed, Outcome, Given
<1>2. CASE \E p \in Protocols : NewStream(c, p)
  <2>1. PICK p \in Protocols : NewStream(c, p)
    BY <1>2
  <2>2. client[c] = "idle" /\ client'[c] \in {"write", "failed"} /\ down'[c] = down[c]
        /\ got'[c] = got[c]
    BY <1>t, <2>1 DEF NewStream, Types
  <2>3. down[c] = <<>>
    BY <1>t, <2>2 DEF Call, Course, Written
  <2>4. ~HasBody(c) /\ ~HasBody(c)'
    BY <2>2, <2>3, EmptyFirst DEF HasBody
  <2>5. Reply(c)' = Reply(c) /\ Given(c)' = Given(c)
    BY <2>2, <2>4 DEF Reply, Given
  <2>6. CASE client'[c] = "write"
    <3>1. Outcome(c) = "none" /\ Outcome(c)' = "pending"
      BY <2>2, <2>6 DEF Outcome
    <3> QED
      BY <1>1, <1>t, <2>5, <3>1, MapStep
  <2>7. CASE client'[c] = "failed"
    <3>1. Outcome(c) = "none" /\ Outcome(c)' = "failed"
      BY <2>2, <2>7 DEF Outcome
    <3> QED
      BY <1>1, <1>t, <2>5, <3>1, MapStep
  <2> QED
    BY <2>2, <2>6, <2>7
<1>3. CASE WritePayload(c)
  <2>1. CASE FailCall(c)
    BY <1>3, <1>f, <1>s, <2>1 DEF WritePayload
  <2>2. CASE /\ client[c] = "write" /\ client' = [client EXCEPT ![c] = "code"]
             /\ UNCHANGED <<proto, got, mine, down>>
    <3>1. client[c] = "write" /\ client'[c] = "code"
      BY <1>t, <2>2 DEF Types
    <3>2. Same
      BY <2>2, <3>1 DEF Same, Outcome, Reply, Given, HasBody, Body
    <3> QED
      BY <1>s, <3>2
  <2> QED
    BY <1>3, <2>1, <2>2 DEF WritePayload, serverVars
<1>4. CASE ReadCode(c)
  <2>1. CASE FailCall(c)
    BY <1>4, <1>f, <1>s, <2>1 DEF ReadCode
  <2>2. CASE /\ client[c] = "code" /\ client' = [client EXCEPT ![c] = "body"]
             /\ UNCHANGED <<proto, got, mine, down>>
    <3>1. client[c] = "code" /\ client'[c] = "body"
      BY <1>t, <2>2 DEF Types
    <3>2. Same
      BY <2>2, <3>1 DEF Same, Outcome, Reply, Given, HasBody, Body
    <3> QED
      BY <1>s, <3>2
  <2> QED
    BY <1>4, <2>1, <2>2 DEF ReadCode, serverVars
<1>5. CASE ReadBody(c)
  <2>1. CASE FailCall(c)
    BY <1>5, <1>f, <1>s, <2>1 DEF ReadBody
  <2>2. CASE /\ client[c] = "body" /\ client' = [client EXCEPT ![c] = "finish"]
             /\ UNCHANGED <<proto, mine, down>>
    <3>1. client[c] = "body" /\ client'[c] = "finish"
      BY <1>t, <2>2 DEF Types
    <3>2. Same
      BY <2>2, <3>1 DEF Same, Outcome, Reply, Given, HasBody, Body
    <3> QED
      BY <1>s, <3>2
  <2> QED
    BY <1>5, <2>1, <2>2 DEF ReadBody, serverVars
<1>6. CASE FinishCall(c)
  <2>1. /\ client[c] = "finish" /\ client'[c] \in {"ok", "failed"}
        /\ client'[c] = "ok" => got'[c] = got[c]
        /\ UNCHANGED <<proto, mine, down>>
    BY <1>6, <1>t DEF FinishCall, Types, serverVars
  <2>2. Reply(c)' = Reply(c) /\ Outcome(c) = "pending"
    BY <2>1 DEF Reply, HasBody, Body, Outcome
  <2>3. Reply(c) = got[c] /\ got[c] # None
    <3>1. HasBody(c) /\ got[c] = Body(c)
      BY <1>t, <2>1 DEF Call, Answered
    <3>2. proto[c] = "status" => mine[c] # None
      <4>1. proto[c] = "status" => down[c] \in {<<"ok">>, <<"ok", "body">>}
        BY <1>t, <3>1, EmptyFirst DEF Call, Written, HasBody, Twice
      <4> QED
        BY <1>t, <4>1 DEF Call, Compared
    <3> QED
      BY <3>1, <3>2, ReqRespAssumption DEF Reply, Body
  <2>4. CASE client'[c] = "ok"
    <3>1. Outcome(c)' = "ok" /\ Given(c)' = Reply(c)
      BY <2>1, <2>3, <2>4 DEF Outcome, Given
    <3> QED
      BY <1>1, <1>t, <2>2, <2>3, <3>1, MapStep
  <2>5. CASE client'[c] = "failed"
    <3>1. Outcome(c)' = "failed" /\ Given(c)' = Given(c)
      BY <2>1, <2>5 DEF Outcome, Given
    <3> QED
      BY <1>1, <1>t, <2>2, <3>1, MapStep
  <2> QED
    BY <2>1, <2>4, <2>5
<1>7. CASE Dispatch(c) \/ ReadRequest(c) \/ CloseStream(c) \/ LoseConnection(c)
  <2>1. UNCHANGED <<client, proto, got, mine, down>>
    BY <1>7 DEF Dispatch, ReadRequest, CloseStream, LoseConnection, clientVars, serverVars
  <2>2. Same
    BY <2>1 DEF Same, Outcome, Reply, Given, HasBody, Body
  <2> QED
    BY <1>s, <2>2
<1>8. CASE ServeStatus(c)
  <2>1. UNCHANGED <<client, got, down>> /\ down[c] = <<>>
    BY <1>8, <1>t DEF ServeStatus, clientVars, Call, Written
  <2>2. ~HasBody(c) /\ ~HasBody(c)'
    BY <2>1, EmptyFirst DEF HasBody
  <2>3. Same
    BY <2>1, <2>2, Unseen DEF Same
  <2> QED
    BY <1>s, <2>3
<1>9. CASE WriteResponse(c)
  <2>1. UNCHANGED <<client, proto, got, mine>> /\ down[c] = <<>> /\ server[c] = "write"
    BY <1>9, <1>t DEF WriteResponse, clientVars, Call, Written
  <2>2. ~HasBody(c) /\ Reply(c) = None
    BY <2>1, EmptyFirst DEF HasBody, Reply
  <2>3. CASE ~HasBody(c)'
    <3>1. Same
      BY <2>1, <2>2, <2>3, Unseen DEF Same
    <3> QED
      BY <1>s, <3>1
  <2>4. CASE HasBody(c)'
    <3>1. Reply(c)' = Body(c)
      BY <2>1, <2>4 DEF Reply, Body
    <3>2. Body(c) \in Digests \cup {Plain}
      BY <1>t, <2>1 DEF Body, Types, Call, Compared
    <3>3. Outcome(c) # "none" /\ Outcome(c)' = Outcome(c) /\ Given(c)' = Given(c)
      BY <1>t, <2>1 DEF Outcome, Given, Types, Call, Course
    <3> QED
      BY <1>1, <1>t, <2>2, <3>1, <3>2, <3>3, MapStep
  <2> QED
    BY <2>3, <2>4
<1>10. CASE WriteRefusal(c)
  <2>1. UNCHANGED <<client, proto, got, mine>> /\ down[c] \in Begun
    BY <1>10, <1>t DEF WriteRefusal, clientVars, Call, Written
  <2>2. down'[c] \in {down[c], Append(down[c], "err")}
    <3>1. CASE down' = [down EXCEPT ![c] = Append(@, "err")]
      BY <1>t, <3>1 DEF Types
    <3>2. ASSUME NEW w \in {<<>>, <<"err">>}, down' = [down EXCEPT ![c] = @ \o w]
          PROVE  down'[c] \in {down[c], Append(down[c], "err")}
      BY <1>t, <2>1, <3>2, Refusing DEF Types
    <3> QED
      BY <1>10, <3>1, <3>2, Zenon DEF WriteRefusal
  <2>3. HasBody(c)' <=> HasBody(c)
    BY <2>1, <2>2, RefusedBody DEF HasBody
  <2>4. Same
    BY <2>1, <2>3 DEF Same, Outcome, Reply, Given, Body
  <2> QED
    BY <1>s, <2>4
<1> QED
  BY <1>2, <1>3, <1>4, <1>5, <1>6, <1>7, <1>8, <1>9, <1>10 DEF ClientStep, ServerStep

\* A call returns the one answer its handler wrote, or fails, and it does so
\* once: streams, codes, half-closed directions and lost connections included
\* (req.go:148-205).
THEOREM ContractKept == Spec => KeepsContract
<1>1. Init => Contract!Init
  <2> SUFFICES ASSUME Init PROVE Contract!Init
    OBVIOUS
  <2>1. \A c \in Calls : client[c] = "idle" /\ "body" \notin Range(down[c])
    BY BodyItem, EmptyFirst DEF Init
  <2> QED
    BY <2>1 DEF Contract!Init
<1>2. IInv /\ IInv' /\ [Next]_vars => [Contract!Next]_Contract!vars
  <2> SUFFICES ASSUME IInv, IInv', [Next]_vars PROVE [Contract!Next]_Contract!vars
    OBVIOUS
  <2>1. CASE \/ \E p \in Protocols : RegisterHandler(p)
             \/ \E d \in Digests : SetStatus(d)
             \/ UNCHANGED vars
    <3>1. UNCHANGED <<client, proto, got, mine, down>>
      BY <2>1 DEF RegisterHandler, SetStatus, vars, clientVars, serverVars
    <3>2. \A d \in Calls : client'[d] = client[d] /\ proto'[d] = proto[d] /\ got'[d] = got[d]
                           /\ mine'[d] = mine[d] /\ down'[d] = down[d]
      BY <3>1
    <3> QED
      BY <3>1, <3>2 DEF Contract!vars, Body
  <2>2. CASE \E c \in Calls : \/ \E p \in Protocols : NewStream(c, p)
                              \/ ClientStep(c) \/ ServerStep(c) \/ LoseConnection(c)
    BY <2>2, CallRefines
  <2> QED
    BY <2>1, <2>2 DEF Next
<1> QED
  BY SpecInv, <1>1, <1>2, PTL DEF Spec, KeepsContract, Contract!Spec

-----------------------------------------------------------------------------
(* Induction and recursion over numbers *)

\* What has 0 and each successor has every number: otherwise `succ` would be
\* one-to-one from the members below the missing number to those without 0.
LEMMA SetInduction ==
  ASSUME NEW S \in SUBSET Nat, 0 \in S, \A n \in S : n + 1 \in S
  PROVE  S = Nat
<1> SUFFICES ASSUME NEW n \in Nat, n \notin S PROVE FALSE
  OBVIOUS
<1> DEFINE T == S \cap (0 .. n)
           succ == [k \in T |-> k + 1]
<1>1. IsFiniteSet(T)
  <2>1. IsFiniteSet(0 .. n)
    BY FS_Interval
  <2> QED  BY <2>1, FS_Subset
<1>2. 0 \in T
  OBVIOUS
<1>3. ASSUME NEW k \in T PROVE k + 1 \in T \ {0}
  OBVIOUS
<1>4. succ \in Injection(T, T \ {0})
  <2>1. succ \in [T -> T \ {0}]
    BY <1>3
  <2>2. \A a, b \in T : succ[a] = succ[b] => a = b
    OBVIOUS
  <2> QED  BY <2>1, <2>2 DEF Injection, IsInjective
<1>5. IsFiniteSet(T \ {0}) /\ Cardinality(T \ {0}) = Cardinality(T) - 1
  BY <1>1, <1>2, FS_RemoveElement
<1>6. Cardinality(T) <= Cardinality(T \ {0})
  BY <1>4, <1>5, FS_Injection
<1>7. Cardinality(T) \in Nat
  BY <1>1, FS_CardinalityType
<1> QED  BY <1>5, <1>6, <1>7

\* Course-of-values induction.
LEMMA CompleteInduction ==
  ASSUME NEW S \in SUBSET Nat,
         \A n \in Nat : (\A i \in 0 .. n - 1 : i \in S) => n \in S
  PROVE  S = Nat
<1> DEFINE T == {n \in Nat : \A i \in 0 .. n - 1 : i \in S}
<1>1. T = Nat
  <2>1. 0 \in T
    OBVIOUS
  <2>2. ASSUME NEW n \in T PROVE n + 1 \in T
    <3>1. \A i \in 0 .. n : i \in 0 .. n - 1 \/ i = n
      OBVIOUS
    <3> QED  BY <2>2, <3>1
  <2> HIDE DEF T
  <2>3. T \in SUBSET Nat
    BY DEF T
  <2> QED  BY <2>1, <2>2, <2>3, SetInduction
<1> QED  BY <1>1

\* The functions defined by recursion from f[pred[n]].
Recursive(S, Leaf, start, step, pred) ==
    {f \in [Nat -> S] :
        \A n \in Nat : f[n] = IF n \in Leaf THEN start[n] ELSE step[n][f[pred[n]]]}

\* A function may be defined by recursion on smaller numbers.
LEMMA Recursion ==
  ASSUME NEW S, NEW Leaf, NEW start \in [Nat -> S], NEW step \in [Nat -> [S -> S]],
         NEW pred \in [Nat -> Nat], \A n \in Nat \ Leaf : pred[n] < n
  PROVE  \E f : f \in Recursive(S, Leaf, start, step, pred)
<1> DEFINE At(g, i) == g[i] = IF i \in Leaf THEN start[i] ELSE step[i][g[pred[i]]]
           Upto(n) == {g \in [0 .. n -> S] : \A i \in 0 .. n : At(g, i)}
           Some == {n \in Nat : Upto(n) # {}}
<1>1. ASSUME NEW m \in Nat, NEW n \in Nat, NEW g \in Upto(m), NEW h \in Upto(n),
             NEW i \in Nat, i <= m, i <= n
      PROVE  g[i] = h[i]
  <2> DEFINE Same == {j \in Nat : j <= m /\ j <= n => g[j] = h[j]}
  <2>1. ASSUME NEW j \in Nat, \A k \in 0 .. j - 1 : k \in Same PROVE j \in Same
    <3> SUFFICES ASSUME j <= m, j <= n PROVE g[j] = h[j]
      OBVIOUS
    <3>1. At(g, j) /\ At(h, j)
      OBVIOUS
    <3>2. CASE j \in Leaf
      BY <3>1, <3>2
    <3>3. CASE j \notin Leaf
      <4>1. pred[j] \in 0 .. j - 1
        BY <3>3
      <4>2. g[pred[j]] = h[pred[j]]
        BY <4>1, <2>1
      <4> QED  BY <3>1, <3>3, <4>2
    <3> QED  BY <3>2, <3>3
  <2>2. Same = Nat
    <3> HIDE DEF Same
    <3>1. Same \in SUBSET Nat
      BY DEF Same
    <3> QED  BY <2>1, <3>1, CompleteInduction
  <2> QED  BY <1>1, <2>2
<1>2. Some = Nat
  <2>1. 0 \in Some
    <3> DEFINE g == [i \in 0 .. 0 |-> start[0]]
    <3>1. 0 \in Leaf
      OBVIOUS
    <3>2. g \in [0 .. 0 -> S] /\ \A i \in 0 .. 0 : At(g, i)
      BY <3>1
    <3>3. g \in Upto(0)
      BY <3>2
    <3> QED  BY <3>3
  <2>2. ASSUME NEW n \in Some PROVE n + 1 \in Some
    <3>1. PICK g \in Upto(n) : TRUE
      OBVIOUS
    <3> DEFINE last == IF n + 1 \in Leaf THEN start[n + 1] ELSE step[n + 1][g[pred[n + 1]]]
               h == [i \in 0 .. n + 1 |-> IF i = n + 1 THEN last ELSE g[i]]
    <3>2. last \in S
      <4>1. CASE n + 1 \in Leaf
        BY <4>1
      <4>2. CASE n + 1 \notin Leaf
        <5>1. pred[n + 1] \in 0 .. n
          BY <4>2
        <5>2. g[pred[n + 1]] \in S
          BY <5>1
        <5> QED  BY <4>2, <5>2
      <4> QED  BY <4>1, <4>2
    <3>3. h \in [0 .. n + 1 -> S]
      BY <3>2
    <3>4. ASSUME NEW i \in 0 .. n + 1 PROVE At(h, i)
      <4>0. i \in Nat \ Leaf => pred[i] \in 0 .. n /\ h[pred[i]] = g[pred[i]]
        OBVIOUS
      <4>1. CASE i = n + 1
        <5>1. h[i] = last
          BY <4>1
        <5> QED  BY <4>0, <4>1, <5>1
      <4>2. CASE i # n + 1
        <5>1. i \in 0 .. n /\ h[i] = g[i]
          BY <4>2
        <5>2. At(g, i)
          BY <5>1
        <5> QED  BY <4>0, <5>1, <5>2
      <4> QED  BY <4>1, <4>2
    <3>5. h \in Upto(n + 1)
      BY <3>3, <3>4
    <3> HIDE DEF Upto, h
    <3> QED  BY <3>5
  <2> HIDE DEF Some
  <2>3. Some \in SUBSET Nat
    BY DEF Some
  <2> QED  BY <2>1, <2>2, <2>3, SetInduction
<1> DEFINE g(n) == CHOOSE h \in Upto(n) : TRUE
           f == [n \in Nat |-> g(n)[n]]
<1>3. ASSUME NEW n \in Nat PROVE g(n) \in Upto(n)
  BY <1>2
<1>4. f \in [Nat -> S]
  <2>1. ASSUME NEW n \in Nat PROVE f[n] \in S
    <3> HIDE DEF g
    <3> QED  BY <1>3
  <2> QED  BY <2>1
<1>5. ASSUME NEW n \in Nat PROVE At(f, n)
  <2> HIDE DEF g
  <2>1. At(g(n), n) /\ f[n] = g(n)[n]
    BY <1>3
  <2>2. CASE n \in Leaf
    BY <2>1, <2>2
  <2>3. CASE n \notin Leaf
    <3>1. pred[n] \in Nat /\ pred[n] <= n
      BY <2>3
    <3> HIDE DEF Upto
    <3>2. g(n)[pred[n]] = g(pred[n])[pred[n]]
      BY <1>1, <1>3, <3>1
    <3> QED  BY <2>1, <2>3, <3>1, <3>2
  <2> QED  BY <2>2, <2>3
<1> HIDE DEF f
<1> QED  BY <1>4, <1>5 DEF Recursive

-----------------------------------------------------------------------------
(* The length prefix *)

\* A shift by one bit doubles.
LEMMA ShiftIs ==
  /\ Shift \in [Nat -> Nat]
  /\ Shift[0] = 1
  /\ \A n \in Nat : Shift[n + 1] = 2 * Shift[n]
<1> DEFINE Doubles(f) == f = [n \in Nat |-> IF n = 0 THEN 1 ELSE 2 * f[n - 1]]
           start == [n \in Nat |-> 1]
           step == [n \in Nat |-> [x \in Nat |-> 2 * x]]
           pred == [n \in Nat |-> IF n = 0 THEN 0 ELSE n - 1]
           Leaf == {0}
<1>1. PICK f : f \in Recursive(Nat, Leaf, start, step, pred)
  <2>1. start \in [Nat -> Nat]
    OBVIOUS
  <2>2. step \in [Nat -> [Nat -> Nat]]
    OBVIOUS
  <2>3. pred \in [Nat -> Nat] /\ \A n \in Nat \ Leaf : pred[n] < n
    OBVIOUS
  <2> HIDE DEF start, step, pred, Leaf
  <2> QED  BY <2>1, <2>2, <2>3, Recursion
<1>0. f \in [Nat -> Nat]
  BY <1>1 DEF Recursive
<1>2. \A n \in Nat : f[n] = IF n = 0 THEN 1 ELSE 2 * f[n - 1]
  <2> TAKE n \in Nat
  <2>1. CASE n = 0
    BY <1>1, <2>1 DEF Recursive
  <2>2. CASE n # 0
    <3>1. n - 1 \in Nat
      BY <2>2
    <3>2. f[n - 1] \in Nat
      BY <1>1, <3>1 DEF Recursive
    <3>3. f[n] = step[n][f[pred[n]]]
      BY <1>1, <2>2 DEF Recursive
    <3> QED  BY <2>2, <3>1, <3>2, <3>3
  <2> QED  BY <2>1, <2>2
<1>3. Doubles(f)
  BY <1>0, <1>2
<1>4. Shift = CHOOSE g : Doubles(g)
  BY DEF Shift
<1>5. Doubles(Shift)
  <2> HIDE DEF Doubles
  <2> QED  BY <1>3, <1>4
<1>6. \A n \in Nat : Shift[n] = IF n = 0 THEN 1 ELSE 2 * Shift[n - 1]
  BY <1>5
<1>7. Shift = f
  <2> DEFINE Same == {n \in Nat : Shift[n] = f[n]}
  <2>1. 0 \in Same
    BY <1>2, <1>6
  <2>2. ASSUME NEW n \in Same PROVE n + 1 \in Same
    BY <1>2, <1>6
  <2>3. Same = Nat
    <3> HIDE DEF Same
    <3>1. Same \in SUBSET Nat
      BY DEF Same
    <3> QED  BY <2>1, <2>2, <3>1, SetInduction
  <2>4. DOMAIN Shift = Nat /\ Shift = [n \in DOMAIN Shift |-> Shift[n]]
    BY <1>5
  <2> QED  BY <1>0, <2>3, <2>4
<1>8. ASSUME NEW n \in Nat PROVE Shift[n + 1] = 2 * Shift[n]
  <2>1. n + 1 # 0 /\ (n + 1) - 1 = n /\ n + 1 \in Nat
    OBVIOUS
  <2> QED  BY <1>6, <2>1
<1> QED  BY <1>0, <1>6, <1>7, <1>8

\* Shifting twice is shifting once by the sum.
LEMMA ShiftTwice ==
  ASSUME NEW a \in Nat, NEW b \in Nat PROVE Shift[a + b] = Shift[a] * Shift[b]
<1> DEFINE T == {n \in Nat : Shift[a + n] = Shift[a] * Shift[n]}
<1>1. 0 \in T
  BY ShiftIs
<1>2. ASSUME NEW n \in T PROVE n + 1 \in T
  <2>1. Shift[a + (n + 1)] = 2 * Shift[a + n] /\ Shift[n + 1] = 2 * Shift[n]
    BY ShiftIs
  <2>2. Shift[a] \in Nat /\ Shift[n] \in Nat
    BY ShiftIs
  <2> QED  BY <2>1, <2>2
<1>3. T = Nat
  <2> HIDE DEF T
  <2>1. T \in SUBSET Nat
    BY DEF T
  <2> QED  BY <1>1, <1>2, <2>1, SetInduction
<1> QED  BY <1>3

\* No shift loses the bit.
LEMMA ShiftPositive == \A n \in Nat : Shift[n] \in Nat /\ Shift[n] >= 1
<1> DEFINE T == {n \in Nat : Shift[n] >= 1}
<1>1. 0 \in T
  BY ShiftIs
<1>2. ASSUME NEW n \in T PROVE n + 1 \in T
  BY ShiftIs
<1>3. T = Nat
  <2> HIDE DEF T
  <2>1. T \in SUBSET Nat
    BY DEF T
  <2> QED  BY <1>1, <1>2, <2>1, SetInduction
<1> QED  BY <1>3, ShiftIs

\* A longer shift gives no less.
LEMMA ShiftGrows ==
  ASSUME NEW a \in Nat, NEW b \in Nat, a <= b PROVE Shift[a] <= Shift[b]
<1>1. b - a \in Nat /\ b = a + (b - a)
  OBVIOUS
<1>2. Shift[b] = Shift[a] * Shift[b - a]
  BY <1>1, ShiftTwice
<1>3. \A x, y \in Nat : y >= 1 => x <= x * y
  OBVIOUS
<1> QED  BY <1>1, <1>2, <1>3, ShiftPositive

\* A group has one bit at least.
LEMMA BaseIs == Base \in Nat /\ Base >= 2
<1>1. GroupBits \in Nat /\ GroupBits - 1 \in Nat /\ GroupBits = (GroupBits - 1) + 1
  BY VarintAssumption
<1>2. Base = 2 * Shift[GroupBits - 1]
  BY <1>1, ShiftIs DEF Base
<1> QED  BY <1>1, <1>2, ShiftPositive

\* The word's bits fit the groups that the reader takes.
LEMMA GroupsCover == MaxGroups \in Nat \ {0} /\ WordBits <= GroupBits * MaxGroups
<1>1. GroupBits \in Nat \ {0} /\ WordBits \in Nat \ {0}
  BY VarintAssumption
<1> DEFINE q == MaxGroups
<1>2. q \in Int /\ GroupBits * q <= WordBits + GroupBits - 1
        /\ WordBits + GroupBits - 1 < GroupBits * q + GroupBits
  BY <1>1 DEF MaxGroups
<1> HIDE DEF q
<1>3. q > 0
  <2>1. GroupBits * q > 0
    BY <1>1, <1>2
  <2> QED  BY <1>1, <1>2, <2>1
<1>4. WordBits <= GroupBits * q
  BY <1>1, <1>2
<1> QED  BY <1>2, <1>3, <1>4 DEF q

\* The values of a group.
Groups == 0 .. Base - 1

\* What is left of a length after its lowest group.
LEMMA Quotient ==
  ASSUME NEW n \in Nat
  PROVE  /\ n % Base \in Groups
         /\ n \div Base \in Nat
         /\ n = (n % Base) + Base * (n \div Base)
         /\ n >= Base => n \div Base \in 1 .. n - 1
<1> DEFINE b == Base
           q == n \div b
           r == n % b
<1>1. b \in Nat /\ b >= 2
  BY BaseIs
<1>2. q \in Nat /\ r \in 0 .. b - 1 /\ n = r + b * q
  <2> HIDE DEF b
  <2> QED  BY <1>1
<1>3. n >= b => q >= 1 /\ q < n
  <2> HIDE DEF b, q, r
  <2>1. ASSUME n >= b PROVE q >= 1
    <3>1. q = 0 => b * q = 0
      BY <1>1, <1>2
    <3> QED  BY <1>1, <1>2, <2>1, <3>1
  <2>2. 2 * q <= b * q
    BY <1>1, <1>2
  <2> QED  BY <1>1, <1>2, <2>1, <2>2
<1> QED  BY <1>1, <1>2, <1>3 DEF Groups

\* WriteVarint is the function that its recursion describes.
LEMMA WriteIs ==
  /\ WriteVarint \in [Nat -> Seq(Groups)]
  /\ \A n \in Nat : n < Base => WriteVarint[n] = <<n>>
  /\ \A n \in Nat : n >= Base => WriteVarint[n] = <<n % Base>> \o WriteVarint[n \div Base]
<1> DEFINE Writes(f) == f = [n \in Nat |-> IF n < Base THEN <<n>>
                                           ELSE <<n % Base>> \o f[n \div Base]]
           Leaf == Groups
           start == [n \in Nat |-> <<IF n < Base THEN n ELSE 0>>]
           step == [n \in Nat |-> [x \in Seq(Groups) |-> <<n % Base>> \o x]]
           pred == [n \in Nat |-> n \div Base]
<1>1. PICK f : f \in Recursive(Seq(Groups), Leaf, start, step, pred)
  <2>1. start \in [Nat -> Seq(Groups)]
    <3>1. ASSUME NEW n \in Nat PROVE (IF n < Base THEN n ELSE 0) \in Groups
      BY BaseIs DEF Groups
    <3> HIDE DEF Groups
    <3> QED  BY <3>1
  <2>2. step \in [Nat -> [Seq(Groups) -> Seq(Groups)]]
    <3>1. ASSUME NEW n \in Nat, NEW x \in Seq(Groups) PROVE <<n % Base>> \o x \in Seq(Groups)
      <4>1. n % Base \in Groups
        BY Quotient
      <4>2. <<n % Base>> \in Seq(Groups)
        BY <4>1
      <4> HIDE DEF Groups
      <4> QED  BY <4>2
    <3> QED  BY <3>1
  <2>3. pred \in [Nat -> Nat] /\ \A n \in Nat \ Leaf : pred[n] < n
    <3>1. ASSUME NEW n \in Nat PROVE n \div Base \in Nat /\ (n \notin Leaf => n \div Base < n)
      BY Quotient, BaseIs DEF Groups
    <3> QED  BY <3>1
  <2> HIDE DEF start, step, pred, Leaf
  <2> QED  BY <2>1, <2>2, <2>3, Recursion
<1>2. f \in [Nat -> Seq(Groups)]
  BY <1>1 DEF Recursive
<1>3. ASSUME NEW n \in Nat
      PROVE  f[n] = IF n < Base THEN <<n>> ELSE <<n % Base>> \o f[n \div Base]
  <2>1. CASE n < Base
    <3>1. n \in Leaf
      BY BaseIs, <2>1 DEF Groups
    <3>2. f[n] = start[n]
      BY <1>1, <3>1 DEF Recursive
    <3> QED  BY <2>1, <3>2
  <2>2. CASE ~(n < Base)
    <3>1. n \notin Leaf /\ n \div Base \in Nat
      BY BaseIs, Quotient, <2>2 DEF Groups
    <3>2. f[n] = step[n][f[n \div Base]]
      BY <1>1, <3>1 DEF Recursive
    <3>3. f[n \div Base] \in Seq(Groups)
      BY <1>2, <3>1
    <3>4. step[n][f[n \div Base]] = <<n % Base>> \o f[n \div Base]
      BY <3>3
    <3> QED  BY <2>2, <3>2, <3>4
  <2> QED  BY <2>1, <2>2
<1>4. Writes(f)
  BY <1>2, <1>3
<1>5. WriteVarint = CHOOSE g : Writes(g)
  BY DEF WriteVarint
<1>6. Writes(WriteVarint)
  <2> HIDE DEF Writes
  <2> QED  BY <1>4, <1>5
<1> DEFINE w == WriteVarint
<1>7. ASSUME NEW n \in Nat
      PROVE  w[n] = IF n < Base THEN <<n>> ELSE <<n % Base>> \o w[n \div Base]
  BY <1>6
<1>8. w = f
  <2> DEFINE Same == {n \in Nat : w[n] = f[n]}
  <2>1. ASSUME NEW n \in Nat, \A i \in 0 .. n - 1 : i \in Same PROVE n \in Same
    <3>1. n >= Base => n \div Base \in 0 .. n - 1
      BY Quotient
    <3>2. n >= Base => w[n \div Base] = f[n \div Base]
      BY <2>1, <3>1
    <3>3. n < Base \/ n >= Base
      BY BaseIs
    <3> HIDE DEF w
    <3> QED  BY <1>3, <1>7, <3>2, <3>3, BaseIs
  <2>2. Same = Nat
    <3> HIDE DEF Same
    <3>1. Same \in SUBSET Nat
      BY DEF Same
    <3> QED  BY <2>1, <3>1, CompleteInduction
  <2>3. w = [n \in Nat |-> w[n]]
    BY <1>6
  <2> HIDE DEF w
  <2> QED  BY <1>2, <2>2, <2>3
<1> HIDE DEF w
<1>9. \A n \in Nat : n >= Base => ~(n < Base)
  BY BaseIs
<1> QED  BY <1>2, <1>7, <1>8, <1>9 DEF w

\* Sums is the function that its recursion describes.
LEMMA SumsAre ==
  ASSUME NEW g \in Seq(Groups)
  PROVE  /\ Sums(g) \in [0 .. Len(g) -> Nat]
         /\ Sums(g)[0] = 0
         /\ \A k \in 1 .. Len(g) :
               Sums(g)[k] = Sums(g)[k - 1] + g[k] * Shift[GroupBits * (k - 1)]
<1> DEFINE Added(k) == g[k] * Shift[GroupBits * (k - 1)]
           SumsTo(f) == f = [k \in 0 .. Len(g) |->
                                IF k = 0 THEN 0 ELSE f[k - 1] + Added(k)]
           Leaf == {0}
           start == [n \in Nat |-> 0]
           step == [k \in Nat |-> [x \in Nat |->
                       IF k \in 1 .. Len(g) THEN x + Added(k) ELSE x]]
           pred == [n \in Nat |-> IF n = 0 THEN 0 ELSE n - 1]
<1>0. ASSUME NEW k \in 1 .. Len(g) PROVE Added(k) \in Nat /\ k - 1 \in Nat
  <2>1. k - 1 \in Nat /\ GroupBits * (k - 1) \in Nat
    BY VarintAssumption
  <2>2. g[k] \in Nat
    BY BaseIs DEF Groups
  <2>3. Shift[GroupBits * (k - 1)] \in Nat
    BY <2>1, ShiftIs
  <2>4. \A x, y \in Nat : x * y \in Nat
    OBVIOUS
  <2> QED  BY <2>1, <2>2, <2>3, <2>4
<1>1. PICK f : f \in Recursive(Nat, Leaf, start, step, pred)
  <2>1. start \in [Nat -> Nat]
    OBVIOUS
  <2>2. step \in [Nat -> [Nat -> Nat]]
    <3>1. ASSUME NEW k \in Nat, NEW x \in Nat
          PROVE  (IF k \in 1 .. Len(g) THEN x + Added(k) ELSE x) \in Nat
      <4> HIDE DEF Added
      <4> QED  BY <1>0
    <3> HIDE DEF Added
    <3> QED  BY <3>1
  <2>3. pred \in [Nat -> Nat] /\ \A n \in Nat \ Leaf : pred[n] < n
    OBVIOUS
  <2> HIDE DEF start, step, pred, Leaf
  <2> QED  BY <2>1, <2>2, <2>3, Recursion
<1>2. f \in [Nat -> Nat]
  BY <1>1 DEF Recursive
<1>3. f[0] = 0
  BY <1>1 DEF Recursive
<1>4. ASSUME NEW k \in 1 .. Len(g) PROVE f[k] = f[k - 1] + Added(k)
  <2> HIDE DEF Added
  <2>1. k \in Nat \ Leaf /\ k - 1 \in Nat /\ pred[k] = k - 1
    OBVIOUS
  <2>2. f[k] = step[k][f[k - 1]]
    <3> HIDE DEF step, Leaf, pred
    <3> QED  BY <1>1, <2>1 DEF Recursive
  <2>3. f[k - 1] \in Nat
    BY <1>2, <2>1
  <2> QED  BY <2>1, <2>2, <2>3
<1> HIDE DEF Added
<1> DEFINE h == [k \in 0 .. Len(g) |-> f[k]]
<1>5. SumsTo(h)
  <2>1. ASSUME NEW k \in 0 .. Len(g)
        PROVE  h[k] = IF k = 0 THEN 0 ELSE h[k - 1] + Added(k)
    BY <1>3, <1>4
  <2> HIDE DEF h
  <2>2. h = [k \in 0 .. Len(g) |-> h[k]]
    BY DEF h
  <2> QED  BY <2>1, <2>2
<1>6. Sums(g) = CHOOSE s : SumsTo(s)
  BY DEF Sums, Added
<1> DEFINE s == Sums(g)
<1>7. SumsTo(s)
  <2> HIDE DEF SumsTo
  <2> QED  BY <1>5, <1>6
<1> HIDE DEF s
<1>8. /\ s[0] = 0
      /\ \A k \in 1 .. Len(g) : s[k] = s[k - 1] + Added(k)
      /\ s = [k \in 0 .. Len(g) |-> s[k]]
  <2>1. \A k \in 1 .. Len(g) : k \in 0 .. Len(g) /\ k # 0
    OBVIOUS
  <2>2. 0 \in 0 .. Len(g)
    OBVIOUS
  <2> QED  BY <1>7, <2>1, <2>2
<1>9. ASSUME NEW k \in 0 .. Len(g) PROVE s[k] \in Nat
  <2> DEFINE T == {n \in Nat : n <= Len(g) => s[n] \in Nat}
  <2>1. 0 \in T
    BY <1>8
  <2>2. ASSUME NEW n \in T PROVE n + 1 \in T
    <3> SUFFICES ASSUME n + 1 <= Len(g) PROVE s[n + 1] \in Nat
      OBVIOUS
    <3>1. n + 1 \in 1 .. Len(g) /\ (n + 1) - 1 = n
      OBVIOUS
    <3>2. s[n] \in Nat /\ Added(n + 1) \in Nat
      BY <1>0, <2>2, <3>1
    <3>3. s[n + 1] = s[n] + Added(n + 1)
      BY <1>8, <3>1
    <3> QED  BY <3>2, <3>3
  <2>3. T = Nat
    <3> HIDE DEF T
    <3>1. T \in SUBSET Nat
      BY DEF T
    <3> QED  BY <2>1, <2>2, <3>1, SetInduction
  <2> QED  BY <2>3
<1> QED  BY <1>8, <1>9 DEF s, Added

\* One more group in front shifts what follows.
LEMMA SumsPrepend ==
  ASSUME NEW g \in Seq(Groups), NEW a \in Groups, NEW k \in 0 .. Len(g)
  PROVE  Sums(<<a>> \o g)[k + 1] = a + Base * Sums(g)[k]
<1> DEFINE h == <<a>> \o g
           T == {n \in Nat : n <= Len(g) => Sums(h)[n + 1] = a + Base * Sums(g)[n]}
<1>1. /\ h \in Seq(Groups) /\ Len(h) = Len(g) + 1 /\ h[1] = a
      /\ \A i \in 1 .. Len(g) : h[i + 1] = g[i]
  <2> HIDE DEF Groups
  <2> QED  OBVIOUS
<1> HIDE DEF h
<1>2. GroupBits \in Nat /\ a \in Nat /\ Base \in Nat
  BY VarintAssumption, BaseIs DEF Groups
<1>3. 0 \in T
  <2>1. 1 \in 1 .. Len(h) /\ 1 - 1 = 0
    BY <1>1
  <2>2. Sums(h)[1] = Sums(h)[0] + h[1] * Shift[GroupBits * 0]
    BY <1>1, <2>1, SumsAre
  <2>3. GroupBits * 0 = 0
    BY <1>2
  <2>4. Sums(h)[0] = 0 /\ Sums(g)[0] = 0 /\ Shift[GroupBits * 0] = 1
    BY <1>1, <2>3, SumsAre, ShiftIs
  <2>5. Sums(h)[1] = 0 + a * 1
    <3> HIDE DEF T
    <3> QED  BY <1>1, <2>2, <2>4
  <2>6. Sums(h)[0 + 1] = a + Base * Sums(g)[0]
    <3>1. Base * 0 = 0
      BY <1>2
    <3> QED  BY <1>2, <2>4, <2>5, <3>1
  <2> QED  BY <2>6
<1>4. ASSUME NEW n \in T PROVE n + 1 \in T
  <2> SUFFICES ASSUME n + 1 <= Len(g)
               PROVE  Sums(h)[n + 2] = a + Base * Sums(g)[n + 1]
    OBVIOUS
  <2> DEFINE x == g[n + 1]
             y == Shift[GroupBits * n]
             s == Sums(g)[n]
  <2>1. /\ n \in Nat /\ n + 1 \in 1 .. Len(g) /\ n + 2 \in 1 .. Len(h)
        /\ (n + 1) - 1 = n /\ (n + 2) - 1 = n + 1
    BY <1>1
  <2>2. Sums(g)[n + 1] = s + x * y
    BY <2>1, SumsAre
  <2>3. Sums(h)[n + 2] = Sums(h)[n + 1] + h[n + 2] * Shift[GroupBits * (n + 1)]
    BY <1>1, <2>1, SumsAre
  <2>4. h[n + 2] = x
    <3>1. h[(n + 1) + 1] = g[n + 1] /\ (n + 1) + 1 = n + 2
      BY <1>1, <2>1
    <3> QED  BY <3>1
  <2>5. Shift[GroupBits * (n + 1)] = Base * y
    <3>1. GroupBits * (n + 1) = GroupBits + GroupBits * n /\ GroupBits * n \in Nat
      BY <1>2
    <3> QED  BY <1>2, <3>1, ShiftTwice DEF Base
  <2>6. Sums(h)[n + 1] = a + Base * s
    BY <2>1
  <2>7. x \in Nat /\ y \in Nat /\ s \in Nat
    <3>1. GroupBits * n \in Nat /\ n \in 0 .. Len(g)
      BY <1>2, <2>1
    <3>2. x \in Nat
      <4>1. x \in Groups
        <5> HIDE DEF Groups
        <5> QED  BY <2>1
      <4>2. \A e \in Groups : e \in Nat
        BY BaseIs DEF Groups
      <4> QED  BY <4>1, <4>2
    <3> QED  BY <3>1, <3>2, SumsAre, ShiftIs
  <2>8. \A b, p, q, r \in Nat : (a + b * p) + q * (b * r) = a + b * (p + q * r)
    BY <1>2
  <2> HIDE DEF x, y, s
  <2> QED  BY <1>2, <2>2, <2>3, <2>4, <2>5, <2>6, <2>7, <2>8
<1>5. T = Nat
  <2> HIDE DEF T
  <2>1. T \in SUBSET Nat
    BY DEF T
  <2> QED  BY <1>3, <1>4, <2>1, SetInduction
<1> QED  BY <1>5 DEF h

\* The groups of a length add up to it.
LEMMA WriteThenAdd ==
  ASSUME NEW n \in Nat PROVE Sums(WriteVarint[n])[Len(WriteVarint[n])] = n
<1> DEFINE w == WriteVarint
           T == {m \in Nat : Sums(w[m])[Len(w[m])] = m}
<1>1. ASSUME NEW m \in Nat, \A i \in 0 .. m - 1 : i \in T PROVE m \in T
  <2>1. CASE m < Base
    <3>1. w[m] = <<m>> /\ Len(w[m]) = 1 /\ w[m][1] = m
      <4>1. w[m] = <<m>>
        BY <2>1, WriteIs
      <4> HIDE DEF w
      <4> QED  BY <4>1
    <3>2. w[m] \in Seq(Groups)
      BY WriteIs
    <3>3. 1 \in 1 .. Len(w[m]) /\ 1 - 1 = 0 /\ GroupBits * 0 = 0
      BY <3>1, VarintAssumption
    <3>4. Sums(w[m])[1] = Sums(w[m])[0] + w[m][1] * Shift[GroupBits * (1 - 1)]
      BY <3>2, <3>3, SumsAre
    <3>5. Sums(w[m])[0] = 0 /\ Shift[GroupBits * (1 - 1)] = 1
      BY <3>2, <3>3, SumsAre, ShiftIs
    <3>6. Sums(w[m])[1] = 0 + m * 1
      <4> HIDE DEF w, T
      <4> QED  BY <3>1, <3>4, <3>5
    <3>7. m \in Nat
      OBVIOUS
    <3>8. Len(w[m]) = 1
      BY <3>1
    <3>9. Sums(w[m])[Len(w[m])] = m
      <4> HIDE DEF w, T
      <4> QED  BY <3>6, <3>7, <3>8
    <3> HIDE DEF w
    <3> QED  BY <3>7, <3>9
  <2>2. CASE m >= Base
    <3> DEFINE q == m \div Base
    <3>1. q \in 0 .. m - 1 /\ q \in Nat /\ m % Base \in Groups /\ m = (m % Base) + Base * q
      BY <2>2, Quotient
    <3>2. w[m] = <<m % Base>> \o w[q]
      BY <2>2, WriteIs
    <3>3. w[q] \in Seq(Groups)
      BY <3>1, WriteIs
    <3>4. Len(w[m]) = Len(w[q]) + 1 /\ Len(w[q]) \in 0 .. Len(w[q])
      BY <3>2, <3>3
    <3>5. Sums(w[q])[Len(w[q])] = q
      BY <1>1, <3>1
    <3> HIDE DEF q, w
    <3>6. Sums(w[m])[Len(w[q]) + 1] = (m % Base) + Base * Sums(w[q])[Len(w[q])]
      BY <3>1, <3>2, <3>3, <3>4, SumsPrepend
    <3> QED  BY <3>1, <3>4, <3>5, <3>6
  <2> QED  BY <2>1, <2>2, BaseIs
<1>2. T = Nat
  <2> HIDE DEF T
  <2>1. T \in SUBSET Nat
    BY DEF T
  <2> QED  BY <1>1, <2>1, CompleteInduction
<1> QED  BY <1>2

\* What fits k groups is written in no more than k.
LEMMA WriteIsShort ==
  ASSUME NEW n \in Nat, NEW k \in Nat \ {0}, n < Shift[GroupBits * k]
  PROVE  Len(WriteVarint[n]) <= k
<1> DEFINE w == WriteVarint
           T == {m \in Nat : \A i \in Nat \ {0} : m < Shift[GroupBits * i] => Len(w[m]) <= i}
<1>1. ASSUME NEW m \in Nat, \A i \in 0 .. m - 1 : i \in T PROVE m \in T
  <2> SUFFICES ASSUME NEW i \in Nat \ {0}, m < Shift[GroupBits * i] PROVE Len(w[m]) <= i
    OBVIOUS
  <2>1. CASE m < Base
    <3>1. w[m] = <<m>>
      BY <2>1, WriteIs
    <3> HIDE DEF w
    <3> QED  BY <3>1
  <2>2. CASE m >= Base
    <3> DEFINE q == m \div Base
               j == i - 1
               y == Shift[GroupBits * j]
    <3>1. q \in 1 .. m - 1 /\ q \in Nat /\ m % Base \in Nat /\ m = (m % Base) + Base * q
      BY <2>2, Quotient DEF Groups
    <3>2. GroupBits \in Nat /\ j \in Nat /\ i = j + 1
      BY VarintAssumption
    <3>3. GroupBits * j \in Nat /\ GroupBits * i = GroupBits + GroupBits * j
      BY <3>2
    <3>4. Shift[GroupBits * i] = Base * y /\ y \in Nat
      <4>1. Shift[GroupBits + GroupBits * j] = Base * y
        BY <3>2, <3>3, ShiftTwice DEF Base
      <4>2. y \in Nat
        BY <3>3, ShiftIs
      <4> QED  BY <3>3, <4>1, <4>2
    <3> HIDE DEF q, y, j
    <3>5. q < y
      <4>1. Base * q < Base * y
        BY <3>1, <3>4, BaseIs
      <4>2. \A b, u, v \in Nat : b * u < b * v => u < v
        <5> SUFFICES ASSUME NEW b \in Nat, NEW u \in Nat, NEW v \in Nat, v <= u
                     PROVE  b * v <= b * u
          OBVIOUS
        <5> QED  OBVIOUS
      <4> QED  BY <3>1, <3>4, <4>1, <4>2, BaseIs
    <3>6. j # 0
      <4>1. GroupBits * 0 = 0
        BY <3>2
      <4> QED  BY <3>1, <3>5, <4>1, ShiftIs DEF y
    <3>7. Len(w[q]) <= j
      BY <1>1, <3>1, <3>2, <3>5, <3>6 DEF y
    <3>8. w[m] = <<m % Base>> \o w[q]
      BY <2>2, WriteIs DEF q
    <3>9. w[q] \in Seq(Groups)
      BY <3>1, WriteIs
    <3>10. Len(w[m]) = Len(w[q]) + 1 /\ Len(w[q]) \in Nat
      BY <3>8, <3>9
    <3> QED  BY <3>2, <3>7, <3>10
  <2> QED  BY <2>1, <2>2, BaseIs
<1>2. T = Nat
  <2> HIDE DEF T
  <2>1. T \in SUBSET Nat
    BY DEF T
  <2> QED  BY <1>1, <2>1, CompleteInduction
<1> QED  BY <1>2

\* A length of the word is read back, or refused for what it is.
LEMMA RoundTrip ==
  ASSUME NEW n \in 0 .. Shift[WordBits] - 1
  PROVE  ReadVarint(WriteVarint[n]) = IF n \in 1 .. MaxLength THEN n ELSE None
<1> DEFINE w == WriteVarint[n]
<1>0. WordBits \in Nat /\ MaxLength \in Nat /\ n \in Nat
  BY VarintAssumption, ShiftIs
<1>1. n < Shift[WordBits] /\ Shift[WordBits] \in Nat
  BY <1>0, ShiftIs
<1>2. n < Shift[GroupBits * MaxGroups]
  <2>1. GroupBits * MaxGroups \in Nat
    BY GroupsCover, VarintAssumption
  <2>2. Shift[WordBits] <= Shift[GroupBits * MaxGroups]
    BY <1>0, <2>1, GroupsCover, ShiftGrows
  <2> QED  BY <1>0, <1>1, <2>1, <2>2, ShiftIs
<1>3. Len(w) <= MaxGroups
  BY <1>0, <1>2, GroupsCover, WriteIsShort
<1>4. Sums(w)[Len(w)] = n
  BY <1>0, WriteThenAdd
<1>5. n % Shift[WordBits] = n
  BY <1>0, <1>1
<1>6. Len(w) \in Nat /\ MaxGroups \in Nat
  BY <1>0, WriteIs, GroupsCover
<1> HIDE DEF w
<1> QED  BY <1>0, <1>3, <1>4, <1>5, <1>6 DEF ReadVarint, w

\* Whatever groups arrive, no illegal length comes of them.
LEMMA NothingIllegal ==
  ASSUME NEW g \in Seq(Groups) PROVE ReadVarint(g) \in 1 .. MaxLength \cup {None}
<1> DEFINE length == Sums(g)[Len(g)] % Shift[WordBits]
<1>1. length \in Nat
  <2>1. Sums(g)[Len(g)] \in Nat
    BY SumsAre
  <2>2. Shift[WordBits] \in Nat /\ Shift[WordBits] >= 1
    BY VarintAssumption, ShiftPositive
  <2>3. \A x, y \in Nat : y >= 1 => x % y \in Nat
    OBVIOUS
  <2> QED  BY <2>1, <2>2, <2>3
<1>2. MaxLength \in Nat
  BY VarintAssumption, ShiftPositive
<1>3. ReadVarint(g) = IF Len(g) > MaxGroups \/ length = 0 \/ length > MaxLength
                      THEN None ELSE length
  BY DEF ReadVarint
<1> HIDE DEF length
<1> QED  BY <1>1, <1>2, <1>3

\* A length is read back as it was written, for any number of bits in a group
\* and in the word and any limit: those of the code are 7, 64 and 10_000_000.
THEOREM LengthsSurvive == Spec => []VarintCorrect
<1>1. VarintCorrect
  <2>1. ASSUME NEW k \in 1 .. MaxGroups + 1, NEW g \in [1 .. k -> 0 .. Base - 1]
        PROVE  ReadVarint(g) \in 1 .. MaxLength \cup {None}
    <3>1. k \in Nat
      BY GroupsCover
    <3>2. g \in [1 .. k -> Groups]
      BY DEF Groups
    <3>3. g \in Seq(Groups)
      BY <3>1, <3>2
    <3> QED  BY <3>3, NothingIllegal
  <2> QED  BY <2>1, RoundTrip DEF VarintCorrect
<1> QED  BY <1>1, PTL
=============================================================================
