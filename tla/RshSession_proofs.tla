------------------------ MODULE RshSession_proofs ---------------------------
(***************************************************************************)
(* Theorems about RshSession, for any set of clients and any value of the  *)
(* other constants: the type invariant; that the server executes the lines *)
(* of a client in order and at most once, however the network cuts and     *)
(* joins the sends; which connections the server holds; and, if the network*)
(* delivers whole sends and programs do not print the byte that ends an    *)
(* answer, that client and server stay in step and implement RshService.   *)
(***************************************************************************)
EXTENDS RshSession, TLAPS

-----------------------------------------------------------------------------
(* The buffers of recv().                                                  *)

\* What a recv() of n bytes leaves in the stream.
LEMMA RestIsSuffix ==
  ASSUME NEW S, NEW s \in Seq(S), NEW n \in 1..Len(s)
  PROVE  /\ Rest(s, n) \in Seq(S)
         /\ Len(Rest(s, n)) = Len(s) - n
         /\ DOMAIN Rest(s, n) = 1..(Len(s) - n)
         /\ \A i \in 1..(Len(s) - n) : Rest(s, n)[i] = s[n + i]
  BY DEF Rest

\* What it returns.
LEMMA FrontIsPrefix ==
  ASSUME NEW S, NEW s \in Seq(S), NEW n \in 1..Len(s)
  PROVE  /\ Front(s, n) \in Seq(S)
         /\ Len(Front(s, n)) = n
         /\ \A i \in 1..n : Front(s, n)[i] = s[i]
  BY DEF Front

\* What two streams look like one after the other.
LEMMA Joined ==
  ASSUME NEW S, NEW s \in Seq(S), NEW w \in Seq(S),
         NEW n \in Nat, NEW m \in Nat, n = Len(s), m = Len(w)
  PROVE  /\ DOMAIN (s \o w) = 1..(n + m)
         /\ \A i \in 1..n : (s \o w)[i] = s[i]
         /\ \A i \in 1..m : (s \o w)[n + i] = w[i]
  OBVIOUS

\* A request is four tokens of its number, two of them NULs at the end.
LEMMA RequestIs ==
  ASSUME NEW n \in Nat, NEW k \in AllKinds
  PROVE  /\ Request(n, k) \in UpStream
         /\ Len(Request(n, k)) = 4
         /\ \A i \in 1..4 : Request(n, k)[i].id = n
         /\ \A i \in 1..4 : Request(n, k)[i].part = "nul" <=> i > 2
<1>1. "inline" \in AllKinds
  BY DEF AllKinds
<1>2. /\ Half(n, k, "head") \in UpToken /\ Half(n, k, "tail") \in UpToken
      /\ Nul(n, FALSE) \in UpToken /\ Nul(n, TRUE) \in UpToken
  BY <1>1 DEF UpToken, Half, Nul
<1> QED
  BY <1>2 DEF Request, Half, Nul, UpStream

\* Whatever the server parses is a kind of command that exists.
LEMMA ParsedIsKind ==
  ASSUME NEW s \in UpStream, NEW n \in 1..Len(s)
  PROVE  Parsed(Front(s, n)) \subseteq AllKinds
<1>1. Front(s, n)[1] \in UpToken
  BY FrontIsPrefix DEF UpStream
<1>2. Front(s, n)[1].kind \in AllKinds
  BY <1>1 DEF UpToken
<1> QED
  BY <1>2, ConstantsAssumption DEF Parsed, AllKinds

\* The sends of an answer.
LEMMA ReplyIs ==
  ASSUME NEW k \in AllKinds, NEW n \in Nat
  PROVE  ReplyTo(k, n) \in DownStream /\ ReplyTo(k, n) # <<>>
<1>1. Byte("exit", n) \in DownToken /\ Byte("eot", n) \in DownToken
  BY DEF Byte, DownToken, AllTexts
<1>2. CASE k \in {"exit", "stop"}
  <2>1. ReplyTo(k, n) = <<Byte("exit", n), Byte("eot", n)>>
    BY <1>2 DEF ReplyTo
  <2> QED
    BY <1>1, <2>1 DEF DownStream
<1>3. CASE k \notin {"exit", "stop"}
  <2>1. ReplyTo(k, n) = <<Byte("eot", n)>>
    BY <1>3 DEF ReplyTo
  <2> QED
    BY <1>1, <2>1 DEF DownStream
<1> QED
  BY <1>2, <1>3

\* Streams stay streams when bytes are taken from them or added to them.
LEMMA UpStreams ==
  /\ <<>> \in UpStream
  /\ \A s, t \in UpStream : s \o t \in UpStream
  /\ \A s \in UpStream : \A n \in 1..Len(s) :
       Rest(s, n) \in UpStream /\ s[n] \in UpToken /\ Front(s, n)[1] = s[1] /\ s[1] \in UpToken
BY DEF UpStream, Rest, Front

LEMMA DownStreams ==
  /\ <<>> \in DownStream
  /\ \A s \in DownStream, b \in DownToken : Append(s, b) \in DownStream
  /\ \A s \in DownStream : s # <<>> => Head(s) \in DownToken /\ Tail(s) \in DownStream
  /\ \A s \in DownStream : \A n \in 1..Len(s) :
       Rest(s, n) \in DownStream /\ Front(s, n)[n] \in DownToken
BY DEF DownStream, Rest, Front

-----------------------------------------------------------------------------
(* Type correctness.                                                       *)

LEMMA TypeInit == Init => TypeOK
BY ConstantsAssumption, UpStreams, DownStreams DEF Init, TypeOK, AllKinds

\* Closing an end keeps the types of what it touches.
LEMMA ClosingTypes ==
  ASSUME TypeOK
  PROVE  /\ \A c \in Clients : ClientCloses(c) =>
              /\ cOpen' \in [Clients -> BOOLEAN]
              /\ down' \in [Clients -> DownStream]
              /\ sFault' \in [Clients -> {"ok", "err", "reset"}]
         /\ \A S : ServerCloses(S) =>
              /\ sOpen' \in [Clients -> BOOLEAN]
              /\ up' \in [Clients -> UpStream]
              /\ cFault' \in [Clients -> {"ok", "err", "reset"}]
<1>1. <<>> \in DownStream /\ <<>> \in UpStream
  BY UpStreams, DownStreams
<1>2. ASSUME NEW c \in Clients, ClientCloses(c)
      PROVE  /\ cOpen' \in [Clients -> BOOLEAN]
             /\ down' \in [Clients -> DownStream]
             /\ sFault' \in [Clients -> {"ok", "err", "reset"}]
  BY <1>1, <1>2 DEF TypeOK, ClientCloses
<1>3. ASSUME NEW S, ServerCloses(S)
      PROVE  /\ sOpen' \in [Clients -> BOOLEAN]
             /\ up' \in [Clients -> UpStream]
             /\ cFault' \in [Clients -> {"ok", "err", "reset"}]
  <2>1. sOpen' \in [Clients -> BOOLEAN]
    BY <1>3, Zenon DEF TypeOK, ServerCloses
  <2>2. up' \in [Clients -> UpStream]
    BY <1>1, <1>3 DEF TypeOK, ServerCloses
  <2>3. cFault' \in [Clients -> {"ok", "err", "reset"}]
    BY <1>3 DEF TypeOK, ServerCloses
  <2> QED
    BY <2>1, <2>2, <2>3
<1> QED
  BY <1>2, <1>3

LEMMA TypeStep == TypeOK /\ [Next]_vars => TypeOK'
<1> SUFFICES ASSUME TypeOK, [Next]_vars
             PROVE  TypeOK'
  OBVIOUS
<1> USE ConstantsAssumption
<1>1. CASE UNCHANGED vars
  BY <1>1 DEF TypeOK, vars, clientVars, serverVars
<1>2. ASSUME NEW c \in Clients, Connect(c)
      PROVE  TypeOK'
  <2>1. backlog' \in Seq(Clients)
    BY <1>2 DEF TypeOK, Connect
  <2>2. /\ cli' \in [Clients -> {"off", "prompt", "wait", "left", "failed", "killed"}]
        /\ cOpen' \in [Clients -> BOOLEAN]
        /\ sOpen' \in [Clients -> BOOLEAN]
    BY <1>2 DEF TypeOK, Connect
  <2> QED
    BY <1>2, <2>1, <2>2, SMTT(30) DEF TypeOK, Connect
<1>3. ASSUME NEW c \in Clients, ConnectFails(c)
      PROVE  TypeOK'
  BY <1>3 DEF TypeOK, ConnectFails, serverVars
<1>4. ASSUME NEW c \in Clients, NEW k \in Kinds, Send(c, k)
      PROVE  TypeOK'
  <2>1. nsent[c] + 1 \in Nat /\ k \in AllKinds
    BY DEF TypeOK
  <2>2. up' \in [Clients -> UpStream]
    <3>1. Request(nsent[c] + 1, k) \in UpStream
      BY <2>1, RequestIs
    <3>2. up[c] \o Request(nsent[c] + 1, k) \in UpStream
      BY <3>1, UpStreams DEF TypeOK
    <3> QED
      <4>1. up' = up \/ up' = [up EXCEPT ![c] = up[c] \o Request(nsent[c] + 1, k)]
        BY <1>4 DEF Send
      <4>2. up \in [Clients -> UpStream]
        BY DEF TypeOK
      <4> QED
        BY <3>2, <4>1, <4>2
  <2>3. cFault' \in [Clients -> {"ok", "err", "reset"}]
    <3>1. cFault' = cFault \/ \E f \in {"ok", "reset"} : cFault' = [cFault EXCEPT ![c] = f]
      BY <1>4 DEF Send
    <3>2. cFault \in [Clients -> {"ok", "err", "reset"}]
      BY DEF TypeOK
    <3> QED
      BY <3>1, <3>2
  <2> QED
    BY <1>4, <2>1, <2>2, <2>3, SMTT(30) DEF TypeOK, Send, serverVars
<1>5. ASSUME NEW c \in Clients, SendFails(c) \/ SendKills(c) \/ Leave(c) \/ Kill(c)
      PROVE  TypeOK'
  BY <1>5, ClosingTypes DEF TypeOK, SendFails, SendKills, Leave, Kill, serverVars
<1>6. ASSUME NEW c \in Clients, Receive(c)
      PROVE  TypeOK'
  <2>1. PICK n \in DownCuts(down[c]) :
          LET chunk == Front(down[c], n) IN
          /\ seen' = IF EndsWithEot(chunk) THEN [seen EXCEPT ![c] = chunk[n].req] ELSE seen
          /\ \/ /\ IsExitMessage(chunk)
                /\ cli' = [cli EXCEPT ![c] = "left"]
                /\ cOpen' = [cOpen EXCEPT ![c] = FALSE]
                /\ down' = [down EXCEPT ![c] = <<>>]
                /\ sFault' = [sFault EXCEPT ![c] =
                                IF sOpen[c] /\ Rest(down[c], n) # <<>> THEN "err" ELSE @]
             \/ /\ ~IsExitMessage(chunk)
                /\ cli' = [cli EXCEPT ![c] = IF EndsWithEot(chunk) THEN "prompt" ELSE "wait"]
                /\ down' = [down EXCEPT ![c] = Rest(@, n)]
                /\ UNCHANGED <<cOpen, sFault>>
    BY <1>6 DEF Receive
  <2>2. down[c] \in DownStream /\ n \in 1..Len(down[c])
    BY DEF TypeOK, DownCuts
  <2>3. Front(down[c], n)[n] \in DownToken
    BY <2>2, DownStreams
  <2>4. Front(down[c], n)[n].req \in Nat
    BY <2>3 DEF DownToken
  <2>5. Rest(down[c], n) \in DownStream /\ <<>> \in DownStream
    BY <2>2, DownStreams
  <2>6. /\ seen' \in [Clients -> Nat]
        /\ cli' \in [Clients -> {"off", "prompt", "wait", "left", "failed", "killed"}]
        /\ cOpen' \in [Clients -> BOOLEAN]
        /\ down' \in [Clients -> DownStream]
        /\ sFault' \in [Clients -> {"ok", "err", "reset"}]
    <3> DEFINE chunk == Front(down[c], n)
    <3>1. /\ seen \in [Clients -> Nat] /\ cOpen \in [Clients -> BOOLEAN]
          /\ cli \in [Clients -> {"off", "prompt", "wait", "left", "failed", "killed"}]
          /\ down \in [Clients -> DownStream]
          /\ sFault \in [Clients -> {"ok", "err", "reset"}]
      BY DEF TypeOK
    <3>2. seen' = seen \/ seen' = [seen EXCEPT ![c] = chunk[n].req]
      BY <2>1
    <3>3. \E v \in {"left", "prompt", "wait"} : cli' = [cli EXCEPT ![c] = v]
      BY <2>1
    <3>4. cOpen' = cOpen \/ cOpen' = [cOpen EXCEPT ![c] = FALSE]
      BY <2>1
    <3>5. \/ down' = [down EXCEPT ![c] = <<>>]
          \/ down' = [down EXCEPT ![c] = Rest(down[c], n)]
      BY <2>1
    <3>6. sFault' = sFault \/ \E v \in {"err", sFault[c]} : sFault' = [sFault EXCEPT ![c] = v]
      BY <2>1
    <3>7. seen' \in [Clients -> Nat]
      BY <2>4, <3>1, <3>2
    <3>8. cli' \in [Clients -> {"off", "prompt", "wait", "left", "failed", "killed"}]
      BY <3>1, <3>3
    <3>9. cOpen' \in [Clients -> BOOLEAN]
      BY <3>1, <3>4
    <3>10. down' \in [Clients -> DownStream]
      BY <2>5, <3>1, <3>5
    <3>11. sFault' \in [Clients -> {"ok", "err", "reset"}]
      BY <3>1, <3>6
    <3> QED
      BY <3>7, <3>8, <3>9, <3>10, <3>11
  <2> QED
    BY <1>6, <2>6, SMTT(30) DEF TypeOK, Receive, serverVars
<1>7. ASSUME NEW c \in Clients, ReceiveEnds(c)
      PROVE  TypeOK'
  BY <1>7 DEF TypeOK, ReceiveEnds, serverVars
<1>8. CASE Boot \/ AcceptFails
  BY <1>8 DEF TypeOK, Boot, AcceptFails, clientVars
<1>9. CASE Accept \/ AcceptNoMemory
  <2>1. Head(backlog) \in Clients /\ Tail(backlog) \in Seq(Clients)
    BY <1>9 DEF TypeOK, Accept, AcceptNoMemory
  <2> QED
    <3>1. CASE Accept
      <4>1. cur' \in Clients /\ spc' = "recv" /\ backlog' \in Seq(Clients) /\ spc = "accept"
        BY <2>1, <3>1 DEF Accept
      <4> QED
        BY <3>1, <4>1 DEF TypeOK, Accept, clientVars
    <3>2. CASE AcceptNoMemory
      <4>1. backlog' \in Seq(Clients)
        BY <2>1, <3>2 DEF AcceptNoMemory
      <4> QED
        BY <3>2, <4>1 DEF TypeOK, AcceptNoMemory, clientVars
    <3> QED
      BY <1>9, <3>1, <3>2
<1>10. CASE Shutdown \/ ReplyKills \/ NamelessKills \/ CloseLast \/ ClientGone \/ ForkFails
  <2>1. \E S : ServerCloses(S)
    BY <1>10 DEF Shutdown, ReplyKills, NamelessKills, ServerDies, CloseLast, ClientGone, ForkFails
  <2>2. /\ sOpen' \in [Clients -> BOOLEAN]
        /\ up' \in [Clients -> UpStream]
        /\ cFault' \in [Clients -> {"ok", "err", "reset"}]
    BY <2>1, ClosingTypes
  <2>3. CASE Shutdown
    BY <2>2, <2>3 DEF TypeOK, Shutdown
  <2>4. CASE ReplyKills \/ NamelessKills
    <3>1. <<>> \in DownStream /\ <<>> \in Seq(Clients)
      BY DownStreams
    <3> QED
      BY <2>2, <2>4, <3>1 DEF TypeOK, ReplyKills, NamelessKills, ServerDies
  <2>5. CASE CloseLast
    BY <2>2, <2>5 DEF TypeOK, CloseLast
  <2>6. CASE ClientGone
    BY <2>2, <2>6 DEF TypeOK, ClientGone
  <2>7. CASE ForkFails
    <3>1. <<>> \in DownStream
      BY DownStreams
    <3> QED
      BY <2>2, <2>7, <3>1 DEF TypeOK, ForkFails
  <2> QED
    BY <1>10, <2>3, <2>4, <2>5, <2>6, <2>7
<1>11. CASE RequestReceived
  <2>1. cur \in Clients
    BY <1>11 DEF TypeOK, RequestReceived
  <2>2. PICK n \in UpCuts(up[cur]) :
       LET chunk == Front(up[cur], n) IN
       /\ up' = [up EXCEPT ![cur] = Rest(@, n)]
       /\ \/ /\ ~EndsWithNul(chunk)
             /\ UNCHANGED <<spc, job, reply, nout, ran>>
          \/ /\ EndsWithNul(chunk)
             /\ \E k \in Parsed(chunk) :
                  /\ job' = [kind |-> k, id |-> chunk[1].id, who |-> cur]
                  /\ reply' = ReplyTo(k, chunk[1].id)
                  /\ spc' = IF k \in {"pipeline", "reader", "pipes"} THEN "fork" ELSE "reply"
             /\ nout' = 0
             /\ ran' = [ran EXCEPT ![cur] =
                          IF chunk[1].part = "nul" THEN @ ELSE Append(@, chunk[1].id)]
    BY <1>11 DEF RequestReceived
  <2> DEFINE chunk == Front(up[cur], n)
  <2>3. up[cur] \in UpStream /\ n \in 1..Len(up[cur])
    BY <2>1 DEF TypeOK, UpCuts
  <2>4. chunk[1] \in UpToken /\ Rest(up[cur], n) \in UpStream
    BY <2>3, UpStreams
  <2>5. chunk[1].id \in Nat
    BY <2>4 DEF UpToken
  <2>6. Parsed(chunk) \subseteq AllKinds
    BY <2>3, ParsedIsKind
  <2> HIDE DEF chunk
  <2>7. up' \in [Clients -> UpStream]
    BY <2>2, <2>4 DEF TypeOK
  <2>8. CASE UNCHANGED <<spc, job, reply, nout, ran>>
    BY <1>11, <2>7, <2>8 DEF TypeOK, RequestReceived, clientVars
  <2>9. ASSUME NEW k \in Parsed(chunk),
               job' = [kind |-> k, id |-> chunk[1].id, who |-> cur],
               reply' = ReplyTo(k, chunk[1].id),
               spc' = IF k \in {"pipeline", "reader", "pipes"} THEN "fork" ELSE "reply",
               nout' = 0,
               ran' = [ran EXCEPT ![cur] =
                          IF chunk[1].part = "nul" THEN @ ELSE Append(@, chunk[1].id)]
        PROVE  TypeOK'
    <3>1. k \in AllKinds
      BY <2>6, <2>9
    <3>2. reply' \in DownStream /\ reply' # <<>>
      BY <3>1, <2>5, <2>9, ReplyIs
    <3>3. job' \in [kind : AllKinds, id : Nat, who : Clients \cup {Nobody}]
      BY <2>1, <2>5, <2>9, <3>1
    <3>4. ran' \in [Clients -> Seq(Nat)]
      BY <2>1, <2>5, <2>9 DEF TypeOK
    <3> QED
      BY <1>11, <2>1, <2>7, <2>9, <3>2, <3>3, <3>4 DEF TypeOK, RequestReceived, clientVars
  <2> QED
    BY <2>2, <2>8, <2>9 DEF chunk
<1>12. ASSUME NEW t \in Texts, Write(t)
       PROVE  TypeOK'
  <2>1. cur \in Clients /\ Byte(t, job.id) \in DownToken
    BY <1>12 DEF TypeOK, Write, Byte, DownToken
  <2>2. down' \in [Clients -> DownStream] /\ sFault' \in [Clients -> {"ok", "err", "reset"}]
    <3>1. Append(down[cur], Byte(t, job.id)) \in DownStream
      BY <2>1, DownStreams DEF TypeOK
    <3>2. down' = down \/ down' = [down EXCEPT ![cur] = Append(down[cur], Byte(t, job.id))]
      BY <1>12 DEF Write
    <3>3. sFault' = sFault \/ \E f \in {"ok", "reset"} : sFault' = [sFault EXCEPT ![cur] = f]
      BY <1>12 DEF Write
    <3>4. down \in [Clients -> DownStream] /\ sFault \in [Clients -> {"ok", "err", "reset"}]
      BY DEF TypeOK
    <3>5. down' \in [Clients -> DownStream]
      BY <2>1, <3>1, <3>2, <3>4
    <3>6. sFault' \in [Clients -> {"ok", "err", "reset"}]
      BY <3>3, <3>4
    <3> QED
      BY <3>5, <3>6
  <2> QED
    BY <1>12, <2>2, SMTT(30) DEF TypeOK, Write, clientVars
<1>13. CASE ReadStdin
  <2>1. cur \in Clients
    BY <1>13 DEF TypeOK, ReadStdin
  <2>2. PICK n \in UpCuts(up[cur]) : up' = [up EXCEPT ![cur] = Rest(@, n)]
    BY <1>13 DEF ReadStdin
  <2>3. Rest(up[cur], n) \in UpStream
    BY <2>1, UpStreams DEF TypeOK, UpCuts
  <2>4. up' \in [Clients -> UpStream]
    BY <2>1, <2>2, <2>3 DEF TypeOK
  <2>5. job' \in [kind : AllKinds, id : Nat, who : Clients \cup {Nobody}]
    BY <1>13 DEF TypeOK, ReadStdin, AllKinds
  <2> QED
    BY <1>13, <2>4, <2>5 DEF TypeOK, ReadStdin, clientVars
<1>14. CASE Fork \/ PipelineEnds
  BY <1>14 DEF TypeOK, Fork, PipelineEnds, clientVars
<1>15. CASE Reply
  <2>1. cur \in Clients /\ reply # <<>> /\ Head(reply) \in DownToken /\ Tail(reply) \in DownStream
    BY <1>15, DownStreams DEF TypeOK, Reply
  <2>2. down' \in [Clients -> DownStream] /\ sFault' \in [Clients -> {"ok", "err", "reset"}]
    <3>1. Append(down[cur], Head(reply)) \in DownStream
      BY <2>1, DownStreams DEF TypeOK
    <3>2. down' = down \/ down' = [down EXCEPT ![cur] = Append(down[cur], Head(reply))]
      BY <1>15 DEF Reply
    <3>3. sFault' = sFault \/ \E f \in {"ok", "reset"} : sFault' = [sFault EXCEPT ![cur] = f]
      BY <1>15 DEF Reply
    <3>4. down \in [Clients -> DownStream] /\ sFault \in [Clients -> {"ok", "err", "reset"}]
      BY DEF TypeOK
    <3>5. down' \in [Clients -> DownStream]
      BY <2>1, <3>1, <3>2, <3>4
    <3>6. sFault' \in [Clients -> {"ok", "err", "reset"}]
      BY <3>3, <3>4
    <3> QED
      BY <3>5, <3>6
  <2> QED
    BY <1>15, <2>1, <2>2 DEF TypeOK, Reply, NextAfter, clientVars
<1>16. CASE ReplyFails
  <2>1. reply' = <<>> /\ reply' \in DownStream /\ spc' = NextAfter(<<>>)
    BY <1>16, DownStreams DEF ReplyFails
  <2>2. spc' = IF job.kind = "stop" THEN "close" ELSE "recv"
    BY <2>1 DEF NextAfter
  <2>3. cur \in Clients /\ sFault' \in [Clients -> {"ok", "err", "reset"}]
    BY <1>16 DEF TypeOK, ReplyFails
  <2> QED
    BY <1>16, <2>1, <2>2, <2>3 DEF TypeOK, ReplyFails, clientVars
<1> QED
  BY <1>1, <1>2, <1>3, <1>4, <1>5, <1>6, <1>7, <1>8, <1>9, <1>10, <1>11, <1>12, <1>13,
     <1>14, <1>15, <1>16 DEF Next, Server, Program, ClientLoop, User

\* The type invariant of the remote shell: in particular the server of
\* process_cli_requests() holds a connection exactly while it serves one.
THEOREM TypeCorrect == Spec => []TypeOK
BY TypeInit, TypeStep, PTL DEF Spec

-----------------------------------------------------------------------------
(* Execution in order, at most once.  AtMostOnce is not inductive: it takes *)
(* what the unread part of the stream looks like, UnreadIsNewer.            *)

Inv == TypeOK /\ AtMostOnce /\ UnreadIsNewer

\* Taking bytes from the front of a stream leaves the rest in order.
LEMMA UnreadRest ==
  ASSUME NEW s \in Seq(UpToken), NEW m \in 1..Len(s), NEW n \in Nat, NEW r \in Seq(Nat),
         Unread(s, n, r)
  PROVE  Unread(Rest(s, m), n, r)
<1> DEFINE t == Rest(s, m)
<1>1. DOMAIN t = 1..(Len(s) - m) /\ \A i \in DOMAIN t : t[i] = s[m + i]
  <2>1. DOMAIN t = 1..(Len(s) - m)
    BY RestIsSuffix, Zenon
  <2>2. \A i \in 1..(Len(s) - m) : t[i] = s[m + i]
    BY RestIsSuffix, Zenon
  <2> QED
    BY <2>1, <2>2, Zenon
<1> HIDE DEF t
<1>2. ASSUME NEW j \in DOMAIN t
      PROVE  m + j \in DOMAIN s /\ t[j] = s[m + j]
  BY <1>1
<1>3. ASSUME NEW j \in DOMAIN t, NEW i \in 1..(j - 1)
      PROVE  m + i \in 1..(m + j - 1) /\ t[i] = s[m + i]
  <2>1. j \in 1..(Len(s) - m) /\ Len(s) \in Nat
    BY <1>1
  <2>2. i \in DOMAIN t /\ m + i \in 1..(m + j - 1)
    BY <1>1, <2>1
  <2> QED
    BY <1>1, <2>2
<1>4. ASSUME NEW j \in DOMAIN t
      PROVE  /\ t[j].id \in 1..n
             /\ \A i \in 1..(j - 1) :
                  /\ t[i].id <= t[j].id
                  /\ t[i].part = "nul" /\ t[j].part # "nul" => t[i].id < t[j].id
             /\ t[j].part # "nul" => \A k \in DOMAIN r : r[k] < t[j].id
  <2> DEFINE p == m + j
  <2>0. p \in DOMAIN s /\ t[j] = s[p] /\ \A i \in 1..(j - 1) : m + i \in 1..(p - 1)
    <3>1. p \in DOMAIN s /\ t[j] = s[p]
      BY <1>2
    <3>2. j \in Nat /\ m \in Nat
      BY <1>1
    <3>3. \A i \in 1..(j - 1) : m + i \in 1..(p - 1)
      BY <3>2
    <3> QED
      BY <3>1, <3>3
  <2> HIDE DEF p
  <2>1. /\ s[p].id \in 1..n
        /\ \A i \in 1..(p - 1) :
             /\ s[i].id <= s[p].id
             /\ s[i].part = "nul" /\ s[p].part # "nul" => s[i].id < s[p].id
        /\ s[p].part # "nul" => \A k \in DOMAIN r : r[k] < s[p].id
    BY <2>0 DEF Unread
  <2>2. ASSUME NEW i \in 1..(j - 1)
        PROVE  /\ t[i].id <= t[j].id
               /\ t[i].part = "nul" /\ t[j].part # "nul" => t[i].id < t[j].id
    <3>1. PICK k : k = m + i /\ k \in 1..(p - 1)
      BY <2>0
    <3>2. t[i] = s[k] /\ t[j] = s[p]
      BY <1>3, <2>0, <3>1
    <3>3. /\ s[k].id <= s[p].id
          /\ s[k].part = "nul" /\ s[p].part # "nul" => s[k].id < s[p].id
      BY <2>1, <3>1
    <3> QED
      BY <3>2, <3>3
  <2> QED
    BY <2>0, <2>1, <2>2
<1>5. Unread(t, n, r)
  BY <1>4 DEF Unread
<1> QED
  BY <1>5 DEF t

\* Executing the line at the front of the stream, up to a NUL, leaves only
\* pieces of later lines.
LEMMA UnreadRun ==
  ASSUME NEW s \in Seq(UpToken), NEW m \in 1..Len(s), NEW n \in Nat, NEW r \in Seq(Nat),
         Unread(s, n, r), InOrder(r, n),
         s[m].part = "nul", s[1].part # "nul"
  PROVE  /\ Unread(Rest(s, m), n, Append(r, s[1].id))
         /\ InOrder(Append(r, s[1].id), n)
<1> DEFINE t == Rest(s, m)
           e == s[1].id
           q == Append(r, e)
<1>1. DOMAIN t = 1..(Len(s) - m) /\ \A i \in DOMAIN t : t[i] = s[m + i]
  <2>1. DOMAIN t = 1..(Len(s) - m)
    BY RestIsSuffix, Zenon
  <2>2. \A i \in 1..(Len(s) - m) : t[i] = s[m + i]
    BY RestIsSuffix, Zenon
  <2> QED
    BY <2>1, <2>2, Zenon
<1>2. e \in 1..n /\ \A k \in DOMAIN r : r[k] < e
  BY DEF Unread
<1>3. /\ DOMAIN q = 1..(Len(r) + 1) /\ DOMAIN r = 1..Len(r) /\ q[Len(r) + 1] = e
      /\ \A k \in 1..Len(r) : q[k] = r[k]
  BY <1>2
<1>4. m > 1
  OBVIOUS
<1> HIDE DEF t, q
<1>5. ASSUME NEW j \in DOMAIN t, t[j].part # "nul"
      PROVE  \A k \in DOMAIN q : q[k] < t[j].id
  <2> DEFINE p == m + j
  <2>1. p \in DOMAIN s /\ t[j] = s[p] /\ m \in 1..(p - 1) /\ 1 \in 1..(m - 1) /\ m \in DOMAIN s
    BY <1>1, <1>4
  <2> HIDE DEF p
  <2>2. s[m].id < s[p].id /\ s[1].id <= s[m].id
    <3>1. s[m].id < s[p].id
      <4>1. \A i \in 1..(p - 1) :
              s[i].part = "nul" /\ s[p].part # "nul" => s[i].id < s[p].id
        BY <2>1 DEF Unread
      <4> QED
        BY <1>5, <2>1, <4>1
    <3>2. s[1].id <= s[m].id
      BY <2>1 DEF Unread
    <3> QED
      BY <3>1, <3>2
  <2>3. s[m].id \in Nat /\ s[p].id \in Nat /\ e \in Nat
    BY <1>2, <2>1 DEF Unread
  <2>4. e < t[j].id
    BY <2>1, <2>2, <2>3
  <2>5. \A k \in DOMAIN r : r[k] < t[j].id
    BY <1>5, <2>1 DEF Unread
  <2> QED
    BY <1>3, <2>4, <2>5
<1>6. Unread(t, n, r)
  BY UnreadRest DEF t
<1>7. Unread(t, n, q)
  BY <1>5, <1>6 DEF Unread
<1>8. InOrder(q, n)
  <2>1. \A i \in DOMAIN r : r[i] \in 1..n
    BY DEF InOrder
  <2>2. ASSUME NEW i \in DOMAIN q, NEW j \in DOMAIN q, i < j
        PROVE  q[i] < q[j]
    <3>1. i \in DOMAIN r /\ q[i] = r[i]
      BY <1>3, <2>2
    <3>2. CASE j \in DOMAIN r
      BY <1>3, <2>2, <3>1, <3>2 DEF InOrder
    <3>3. CASE j = Len(r) + 1
      BY <1>2, <1>3, <3>1, <3>3
    <3> QED
      BY <1>3, <3>2, <3>3
  <2>3. \A i \in DOMAIN q : q[i] \in 1..n
    BY <1>2, <1>3, <2>1
  <2> QED
    BY <2>2, <2>3 DEF InOrder
<1> QED
  BY <1>7, <1>8 DEF t, q

\* A line that is sent has a higher number than all before it.
LEMMA UnreadAppend ==
  ASSUME NEW s \in Seq(UpToken), NEW n \in Nat, NEW r \in Seq(Nat),
         Unread(s, n, r), InOrder(r, n),
         NEW w \in Seq(UpToken), NEW m \in Nat, m = Len(w),
         \A i \in 1..m : w[i].id = n + 1,
         \A i \in 1..m : w[i].part = "nul" <=> i > 2
  PROVE  Unread(s \o w, n + 1, r)
<1> DEFINE t == s \o w
<1>1. /\ \A i \in 1..m : w[i].id = n + 1
      /\ \A i \in 1..m : w[i].part = "nul" <=> i > 2
  OBVIOUS
<1>2. PICK l \in Nat : l = Len(s) /\ DOMAIN s = 1..l
  OBVIOUS
<1>3. /\ DOMAIN t = 1..(l + m)
      /\ \A i \in 1..l : t[i] = s[i]
      /\ \A i \in 1..m : t[l + i] = w[i]
  BY <1>2, Joined
<1> HIDE DEF t
<1>4. ASSUME NEW j \in 1..l
      PROVE  t[j] = s[j] /\ t[j].id \in 1..n
  BY <1>2, <1>3 DEF Unread
<1>5. ASSUME NEW j \in (l + 1)..(l + m)
      PROVE  t[j].id = n + 1 /\ (t[j].part = "nul" <=> j > l + 2)
  <2>1. PICK i \in 1..m : j = l + i
    <3>1. j - l \in 1..m /\ j = l + (j - l)
      OBVIOUS
    <3> QED
      BY <3>1
  <2>2. t[j] = w[i] /\ (j > l + 2 <=> i > 2)
    BY <1>3, <2>1
  <2> QED
    BY <1>1, <2>1, <2>2
<1>6. ASSUME NEW j \in 1..(l + m)
      PROVE  /\ t[j].id \in 1..(n + 1)
             /\ \A i \in 1..(j - 1) :
                  /\ t[i].id <= t[j].id
                  /\ t[i].part = "nul" /\ t[j].part # "nul" => t[i].id < t[j].id
             /\ t[j].part # "nul" => \A q \in DOMAIN r : r[q] < t[j].id
  <2>1. CASE j \in 1..l
    <3>1. \A i \in 1..(j - 1) : i \in 1..l /\ t[i] = s[i]
      <4>1. \A i \in 1..(j - 1) : i \in 1..l
        BY <2>1
      <4> QED
        BY <1>3, <4>1
    <3>2. t[j] = s[j] /\ t[j].id \in 1..(n + 1) /\ j \in DOMAIN s
      BY <1>2, <1>4, <2>1
    <3> QED
      BY <3>1, <3>2 DEF Unread
  <2>2. CASE j \in (l + 1)..(l + m)
    <3>1. t[j].id = n + 1
      BY <1>5, <2>2
    <3>2. ASSUME NEW i \in 1..(j - 1)
          PROVE  /\ t[i].id <= t[j].id
                 /\ t[i].part = "nul" /\ t[j].part # "nul" => t[i].id < t[j].id
      <4>1. CASE i \in 1..l
        BY <1>4, <3>1, <4>1
      <4>2. CASE i \in (l + 1)..(l + m)
        BY <1>5, <2>2, <3>1, <3>2, <4>2
      <4> QED
        BY <2>2, <4>1, <4>2
    <3>3. \A q \in DOMAIN r : r[q] < n + 1
      BY DEF InOrder
    <3> QED
      BY <3>1, <3>2, <3>3
  <2> QED
    BY <1>6, <2>1, <2>2
<1>7. Unread(t, n + 1, r)
  BY <1>3, <1>6 DEF Unread
<1> QED
  BY <1>7 DEF t

LEMMA UnreadSend ==
  ASSUME NEW s \in Seq(UpToken), NEW n \in Nat, NEW r \in Seq(Nat), NEW k \in AllKinds,
         Unread(s, n, r), InOrder(r, n)
  PROVE  Unread(s \o Request(n + 1, k), n + 1, r)
<1>1. n + 1 \in Nat
  OBVIOUS
<1>2. PICK w \in Seq(UpToken) : w = Request(n + 1, k)
  BY <1>1, RequestIs DEF UpStream
<1>3. /\ Len(w) = 4 /\ \A i \in 1..4 : w[i].id = n + 1
      /\ \A i \in 1..4 : w[i].part = "nul" <=> i > 2
  BY <1>1, <1>2, RequestIs
<1>4. PICK m \in Nat : m = 4 /\ m = Len(w)
  BY <1>3
<1>5. Unread(s \o w, n + 1, r)
  BY <1>3, <1>4, UnreadAppend
<1> QED
  BY <1>2, <1>5

\* Nothing unread is trivially in order.
LEMMA UnreadNothing ==
  ASSUME NEW n, NEW r
  PROVE  Unread(<<>>, n, r)
BY DEF Unread

LEMMA OrderInit == Init => AtMostOnce /\ UnreadIsNewer
BY UnreadNothing DEF Init, AtMostOnce, UnreadIsNewer, InOrder

LEMMA OrderStep == Inv /\ [Next]_vars => (AtMostOnce /\ UnreadIsNewer)'
<1> SUFFICES ASSUME Inv, [Next]_vars
             PROVE  (AtMostOnce /\ UnreadIsNewer)'
  OBVIOUS
<1> DEFINE Good(c) == Unread(up'[c], nsent'[c], ran'[c]) /\ InOrder(ran'[c], nsent'[c])
<1>1. SUFFICES ASSUME NEW d \in Clients
               PROVE  Good(d)
  BY DEF AtMostOnce, UnreadIsNewer
<1>2. /\ Unread(up[d], nsent[d], ran[d]) /\ InOrder(ran[d], nsent[d])
      /\ up[d] \in Seq(UpToken) /\ nsent[d] \in Nat /\ ran[d] \in Seq(Nat)
      /\ up \in [Clients -> UpStream] /\ nsent \in [Clients -> Nat] /\ ran \in [Clients -> Seq(Nat)]
  BY DEF Inv, AtMostOnce, UnreadIsNewer, TypeOK, UpStream
<1>3. CASE UNCHANGED <<up, nsent, ran>>
  BY <1>2, <1>3
<1>4. ASSUME NEW S, ServerCloses(S), UNCHANGED <<nsent, ran>>
      PROVE  Good(d)
  <2>1. up'[d] = <<>> \/ up'[d] = up[d]
    BY <1>4 DEF ServerCloses
  <2> QED
    BY <1>2, <1>4, <2>1, UnreadNothing
<1>5. ASSUME NEW c \in Clients, NEW k \in Kinds, Send(c, k)
      PROVE  Good(d)
  <2>1. ran' = ran /\ k \in AllKinds
    BY <1>5, ConstantsAssumption DEF Send, serverVars
  <2>2. nsent'[d] = nsent[d] + (IF c = d THEN 1 ELSE 0)
    BY <1>2, <1>5 DEF Send
  <2>3. up'[d] = up[d] \/ (c = d /\ up'[d] = up[d] \o Request(nsent[d] + 1, k))
    BY <1>2, <1>5 DEF Send
  <2>4. CASE up'[d] = up[d]
    <3>1. nsent'[d] \in Nat /\ nsent[d] <= nsent'[d]
      BY <1>2, <2>2
    <3>2. \A i \in 1..nsent[d] : i \in 1..nsent'[d]
      BY <1>2, <3>1
    <3>3. Unread(up[d], nsent'[d], ran[d]) /\ InOrder(ran[d], nsent'[d])
      BY <1>2, <3>2, Zenon DEF Unread, InOrder
    <3> QED
      BY <2>1, <2>4, <3>3
  <2>5. CASE c = d /\ up'[d] = up[d] \o Request(nsent[d] + 1, k)
    <3>1. nsent'[d] = nsent[d] + 1
      BY <2>2, <2>5
    <3>2. Unread(up[d] \o Request(nsent[d] + 1, k), nsent[d] + 1, ran[d])
      BY <1>2, <2>1, UnreadSend
    <3>3. InOrder(ran[d], nsent[d] + 1)
      BY <1>2 DEF InOrder
    <3> QED
      BY <2>1, <2>5, <3>1, <3>2, <3>3
  <2> QED
    BY <2>3, <2>4, <2>5
<1>6. CASE RequestReceived
  <2>1. cur \in Clients /\ nsent' = nsent
    BY <1>6 DEF Inv, TypeOK, RequestReceived, clientVars
  <2>2. PICK n \in UpCuts(up[cur]) :
          /\ up' = [up EXCEPT ![cur] = Rest(up[cur], n)]
          /\ \/ ran' = ran
             \/ /\ EndsWithNul(Front(up[cur], n))
                /\ Front(up[cur], n)[1].part # "nul"
                /\ ran' = [ran EXCEPT ![cur] = Append(ran[cur], Front(up[cur], n)[1].id)]
    <3>1. PICK n \in UpCuts(up[cur]) :
            /\ up' = [up EXCEPT ![cur] = Rest(up[cur], n)]
            /\ \/ ran' = ran
               \/ /\ EndsWithNul(Front(up[cur], n))
                  /\ ran' = [ran EXCEPT ![cur] = IF Front(up[cur], n)[1].part = "nul" THEN ran[cur]
                               ELSE Append(ran[cur], Front(up[cur], n)[1].id)]
      BY <1>6, Zenon DEF RequestReceived
    <3>2. [ran EXCEPT ![cur] = ran[cur]] = ran
      BY <1>2, <2>1
    <3> QED
      BY <3>1, <3>2, Zenon
  <2>3. CASE d # cur
    BY <1>2, <2>1, <2>2, <2>3
  <2>4. CASE d = cur
    <3>1. n \in 1..Len(up[d]) /\ up'[d] = Rest(up[d], n)
      BY <1>2, <2>2, <2>4 DEF UpCuts
    <3>2. Front(up[d], n)[1] = up[d][1] /\ Front(up[d], n)[Len(Front(up[d], n))] = up[d][n]
      BY <1>2, <3>1, FrontIsPrefix
    <3>3. CASE ran' = ran
      BY <1>2, <2>1, <3>1, <3>3, UnreadRest
    <3>4. CASE /\ up[d][n].part = "nul" /\ up[d][1].part # "nul"
               /\ ran'[d] = Append(ran[d], up[d][1].id)
      BY <1>2, <2>1, <3>1, <3>4, UnreadRun
    <3> QED
      BY <1>2, <2>2, <2>4, <3>2, <3>3, <3>4 DEF EndsWithNul
  <2> QED
    BY <2>3, <2>4
<1>7. CASE ReadStdin
  <2>1. cur \in Clients /\ nsent' = nsent /\ ran' = ran
    BY <1>7 DEF Inv, TypeOK, ReadStdin, clientVars
  <2>2. PICK n \in UpCuts(up[cur]) : up' = [up EXCEPT ![cur] = Rest(up[cur], n)]
    BY <1>7 DEF ReadStdin
  <2>3. CASE d # cur
    BY <1>2, <2>1, <2>2, <2>3
  <2>4. CASE d = cur
    <3>1. n \in 1..Len(up[d]) /\ up'[d] = Rest(up[d], n)
      BY <1>2, <2>2, <2>4 DEF UpCuts
    <3> QED
      BY <1>2, <2>1, <3>1, UnreadRest
  <2> QED
    BY <2>3, <2>4
<1>8. CASE Shutdown \/ ReplyKills \/ NamelessKills \/ CloseLast \/ ClientGone \/ ForkFails
  BY <1>4, <1>8 DEF Shutdown, ReplyKills, NamelessKills, ServerDies, CloseLast, ClientGone, ForkFails
<1> HIDE DEF Good
<1>9. ASSUME NEW c \in Clients, ClientLoop(c) \/ User(c) \/ Kill(c)
      PROVE  Good(d)
  <2>1. (\E k \in Kinds : Send(c, k)) \/ UNCHANGED <<up, nsent, ran>>
    BY <1>9 DEF ClientLoop, User, Receive, ReceiveEnds, Connect, ConnectFails, Leave,
                SendFails, SendKills, Kill, serverVars
  <2> QED
    BY <1>3, <1>5, <2>1
<1>10. ASSUME Boot \/ Accept \/ AcceptNoMemory \/ AcceptFails \/ Reply \/ ReplyFails
              \/ Fork \/ PipelineEnds \/ (\E t \in Texts : Write(t)) \/ UNCHANGED vars
       PROVE  Good(d)
  <2>1. UNCHANGED <<up, nsent, ran>>
    BY <1>10 DEF Boot, Accept, AcceptNoMemory, AcceptFails, Reply, ReplyFails, Fork, PipelineEnds,
                 Write, vars, clientVars, serverVars
  <2> QED
    BY <1>3, <2>1
<1> QED
  BY <1>6, <1>7, <1>8, <1>9, <1>10 DEF Next, Server, Program

\* Inv is inductive.
LEMMA InvStep == Inv /\ [Next]_vars => Inv'
BY TypeStep, OrderStep DEF Inv

\* The server executes the lines of each client in the order of sending, none
\* twice and none that was not sent, for every number of clients and requests,
\* every cut of the streams, every output, and whichever clients are killed.
THEOREM ExecutedAtMostOnce == Spec => []AtMostOnce
<1>1. Init => Inv
  BY TypeInit, OrderInit DEF Inv
<1>2. Inv => AtMostOnce
  BY DEF Inv
<1> QED
  BY <1>1, <1>2, InvStep, PTL DEF Spec

\* What the server has still to read is newer than all it executed.
THEOREM UnreadStaysNewer == Spec => []UnreadIsNewer
<1>1. Init => Inv
  BY TypeInit, OrderInit DEF Inv
<1>2. Inv => UnreadIsNewer
  BY DEF Inv
<1> QED
  BY <1>1, <1>2, InvStep, PTL DEF Spec

-----------------------------------------------------------------------------
(* The connections of the server.                                          *)

\* No element of the sequence s occurs twice.
Once(s) == \A i, j \in DOMAIN s : s[i] = s[j] => i = j

Among(s) == {s[i] : i \in DOMAIN s}

LEMMA OnceAppend ==
  ASSUME NEW S, NEW s \in Seq(S), NEW e \in S, Once(s), e \notin Among(s)
  PROVE  Once(Append(s, e)) /\ Among(Append(s, e)) = Among(s) \cup {e}
<1> DEFINE t == Append(s, e)
<1>1. PICK n \in Nat : n = Len(s) /\ DOMAIN s = 1..n
  OBVIOUS
<1>2. DOMAIN t = 1..(n + 1) /\ t[n + 1] = e /\ \A i \in 1..n : t[i] = s[i]
  BY <1>1
<1> HIDE DEF t
<1>3. \A i \in 1..n : t[i] # e
  BY <1>1, <1>2 DEF Among
<1>4. Once(t)
  <2> SUFFICES ASSUME NEW i \in 1..(n + 1), NEW j \in 1..(n + 1), t[i] = t[j]
               PROVE  i = j
    BY <1>2 DEF Once
  <2>1. i \in 1..n \/ i = n + 1
    BY <1>1
  <2>2. j \in 1..n \/ j = n + 1
    BY <1>1
  <2> QED
    BY <1>1, <1>2, <1>3, <2>1, <2>2 DEF Once
<1>5. Among(t) = Among(s) \cup {e}
  <2>1. ASSUME NEW i \in 1..(n + 1) PROVE t[i] \in Among(s) \cup {e}
    BY <1>1, <1>2, <2>1 DEF Among
  <2>2. ASSUME NEW i \in 1..n PROVE s[i] \in Among(t)
    BY <1>1, <1>2, <2>2 DEF Among
  <2>3. e \in Among(t)
    BY <1>1, <1>2 DEF Among
  <2> QED
    BY <1>1, <1>2, <2>1, <2>2, <2>3 DEF Among
<1> QED
  BY <1>4, <1>5 DEF t

LEMMA OnceTail ==
  ASSUME NEW S, NEW s \in Seq(S), s # <<>>, Once(s)
  PROVE  /\ Head(s) \in Among(s) /\ Head(s) \in S /\ Tail(s) \in Seq(S)
         /\ Once(Tail(s)) /\ Among(Tail(s)) = Among(s) \ {Head(s)}
<1> DEFINE t == Tail(s)
<1>1. PICK n \in Nat : n = Len(s) /\ DOMAIN s = 1..n /\ n > 0
  OBVIOUS
<1>2. t \in Seq(S) /\ DOMAIN t = 1..(n - 1) /\ \A i \in 1..(n - 1) : t[i] = s[i + 1]
  BY <1>1
<1>3. Head(s) = s[1] /\ s[1] \in S /\ 1 \in 1..n
  BY <1>1
<1> HIDE DEF t
<1>4. Once(t)
  <2> SUFFICES ASSUME NEW i \in 1..(n - 1), NEW j \in 1..(n - 1), t[i] = t[j]
               PROVE  i = j
    BY <1>2 DEF Once
  <2>1. i + 1 \in 1..n /\ j + 1 \in 1..n
    BY <1>1
  <2>2. s[i + 1] = s[j + 1]
    BY <1>2
  <2>3. i + 1 = j + 1
    BY <1>1, <2>1, <2>2 DEF Once
  <2> QED
    BY <2>3
<1>5. Among(t) = Among(s) \ {s[1]}
  <2>1. ASSUME NEW i \in 1..(n - 1) PROVE t[i] \in Among(s) \ {s[1]}
    <3>1. i + 1 \in 1..n /\ i + 1 # 1
      BY <1>1
    <3>2. s[i + 1] # s[1]
      BY <1>1, <1>3, <3>1 DEF Once
    <3> QED
      BY <1>1, <1>2, <3>1, <3>2 DEF Among
  <2>2. ASSUME NEW i \in 1..n, s[i] # s[1] PROVE s[i] \in Among(t)
    <3>1. i - 1 \in 1..(n - 1) /\ (i - 1) + 1 = i
      BY <1>1, <2>2
    <3>2. t[i - 1] = s[i]
      BY <1>2, <3>1
    <3> QED
      BY <1>2, <3>1, <3>2 DEF Among
  <2> QED
    BY <1>1, <1>2, <2>1, <2>2 DEF Among
<1> QED
  BY <1>1, <1>2, <1>3, <1>4, <1>5 DEF t, Among

\* The server has an end of every connection that it serves or that waits, each
\* of these once; and no other, unless it could forget one.
Sockets ==
  /\ Once(backlog)
  /\ cur \notin Waiting
  /\ \A c \in Clients :
       /\ c = cur \/ c \in Waiting => sOpen[c]
       /\ cli[c] = "off" => ~sOpen[c]
       /\ ~Faults /\ sOpen[c] => c = cur \/ c \in Waiting

LEMMA WaitingIs == Waiting = Among(backlog)
BY DEF Waiting, Among

LEMMA WaitingType == TypeOK => Waiting \subseteq Clients /\ Nobody \notin Waiting
BY ConstantsAssumption DEF TypeOK, Waiting

LEMMA SocketsInit == Init => Sockets
BY ConstantsAssumption DEF Init, Sockets, Once, Waiting

\* Clients neither open a server end nor get into line, but by connecting.
LEMMA SocketsOfClient ==
  ASSUME TypeOK, Sockets, NEW c \in Clients,
         \/ ConnectFails(c) \/ SendFails(c) \/ SendKills(c) \/ Leave(c) \/ Receive(c)
         \/ ReceiveEnds(c) \/ Kill(c) \/ \E k \in Kinds : Send(c, k)
  PROVE  Sockets'
<1>1. UNCHANGED <<sOpen, backlog, cur>>
  BY DEF ConnectFails, SendFails, SendKills, Leave, Receive, ReceiveEnds, Kill, Send, serverVars
<1>2. \A d \in Clients : cli'[d] = "off" => cli[d] = "off"
  <2>1. \E a \in {"failed", "killed", "left", "prompt", "wait"} : cli' = [cli EXCEPT ![c] = a]
    BY Zenon DEF ConnectFails, SendFails, SendKills, Leave, Receive, ReceiveEnds, Kill, Send
  <2> QED
    BY <2>1 DEF TypeOK
<1> QED
  BY <1>1, <1>2 DEF Sockets, Once, Waiting

LEMMA SocketsOfConnect ==
  ASSUME TypeOK, Sockets, NEW c \in Clients, Connect(c)
  PROVE  Sockets'
<1>1. c # cur /\ c \notin Waiting
  BY DEF Connect, Sockets
<1>2. backlog' = Append(backlog, c) /\ cur' = cur
  BY DEF Connect
<1>3. Once(backlog') /\ Waiting' = Waiting \cup {c}
  <2>1. Waiting' = Among(backlog')
    BY DEF Waiting, Among
  <2> QED
    BY <1>1, <1>2, <2>1, OnceAppend, WaitingIs DEF Sockets, TypeOK
<1>4. \A d \in Clients : /\ sOpen'[d] = (d = c \/ sOpen[d])
                         /\ cli'[d] = IF d = c THEN "prompt" ELSE cli[d]
  BY DEF Connect, TypeOK
<1>5. Once(backlog)'
  BY <1>3 DEF Once
<1> QED
  BY <1>1, <1>2, <1>3, <1>4, <1>5 DEF Sockets

LEMMA SocketsOfAccept ==
  ASSUME TypeOK, Sockets, Accept \/ AcceptNoMemory
  PROVE  Sockets'
<1> DEFINE h == Head(backlog)
<1>1. UNCHANGED <<cli, sOpen>> /\ backlog' = Tail(backlog) /\ backlog # <<>> /\ spc = "accept"
  BY DEF Accept, AcceptNoMemory, clientVars
<1>2. /\ h \in Waiting /\ h \in Clients /\ Once(backlog') /\ Waiting' = Waiting \ {h}
  <2>1. Waiting' = Among(backlog')
    BY DEF Waiting, Among
  <2> QED
    BY <1>1, <2>1, OnceTail, WaitingIs DEF Sockets, TypeOK
<1>3. Once(backlog)'
  BY <1>2 DEF Once
<1>4. cur = Nobody /\ cur \notin Clients
  BY <1>1, ConstantsAssumption DEF TypeOK
<1>5. CASE Accept
  BY <1>1, <1>2, <1>3, <1>4, <1>5 DEF Accept, Sockets
<1>6. CASE AcceptNoMemory
  <2>1. Faults /\ cur' = cur
    BY <1>6 DEF AcceptNoMemory
  <2> QED
    BY <1>1, <1>2, <1>3, <1>4, <2>1 DEF Sockets
<1> QED
  BY <1>5, <1>6

\* The connection that was served is closed, or all of them.
LEMMA SocketsOfClose ==
  ASSUME TypeOK, Sockets,
         Shutdown \/ ReplyKills \/ NamelessKills \/ CloseLast \/ ClientGone \/ ForkFails
  PROVE  Sockets'
<1>1. CASE CloseLast \/ ClientGone \/ ForkFails
  <2>1. UNCHANGED <<cli, backlog>> /\ cur' = Nobody /\ ServerCloses({cur})
    BY <1>1 DEF CloseLast, ClientGone, ForkFails
  <2>2. \A c \in Clients : sOpen'[c] = (sOpen[c] /\ c # cur)
    BY <2>1 DEF ServerCloses
  <2>3. Waiting' = Waiting
    BY <2>1 DEF Waiting
  <2> QED
    BY <2>1, <2>2, <2>3, WaitingType, ConstantsAssumption DEF Sockets, Once
<1>2. CASE Shutdown \/ ReplyKills \/ NamelessKills
  <2>1. cli' = cli /\ backlog' = <<>> /\ ServerCloses(Clients)
    BY <1>2 DEF Shutdown, ReplyKills, NamelessKills, ServerDies
  <2>2. cur' = Nobody
    BY <1>2 DEF Shutdown, ReplyKills, NamelessKills, ServerDies, TypeOK
  <2>3. \A c \in Clients : sOpen'[c] = FALSE
    BY <2>1 DEF ServerCloses
  <2>4. Waiting' = {} /\ Once(backlog)'
    BY <2>1 DEF Waiting, Once
  <2> QED
    BY <2>1, <2>2, <2>3, <2>4, ConstantsAssumption DEF Sockets
<1> QED
  BY <1>1, <1>2

LEMMA SocketsStep == TypeOK /\ Sockets /\ [Next]_vars => Sockets'
<1> SUFFICES ASSUME TypeOK, Sockets, [Next]_vars PROVE Sockets'
  OBVIOUS
<1>1. ASSUME NEW c \in Clients, ClientLoop(c) \/ User(c) \/ Kill(c) PROVE Sockets'
  BY <1>1, SocketsOfClient, SocketsOfConnect DEF ClientLoop, User
<1>2. ASSUME Boot \/ AcceptFails \/ RequestReceived \/ Fork \/ Reply \/ ReplyFails
             \/ Program \/ UNCHANGED vars
      PROVE  Sockets'
  <2>1. UNCHANGED <<cli, sOpen, backlog, cur>>
    BY <1>2 DEF Boot, AcceptFails, RequestReceived, Fork, Reply, ReplyFails, Program, Write,
                ReadStdin, PipelineEnds, vars, clientVars, serverVars
  <2> QED
    BY <2>1 DEF Sockets, Once, Waiting
<1> QED
  BY <1>1, <1>2, SocketsOfAccept, SocketsOfClose DEF Next, Server

\* If its calls succeed, the server forgets no connection: it has an end open of
\* the one it serves and of those in line, and closes it on every other way.
THEOREM NoSocketForgotten == ~Faults => (Spec => []NoForgottenSocket)
<1> SUFFICES ASSUME ~Faults PROVE Spec => []NoForgottenSocket
  OBVIOUS
<1>1. Init => TypeOK /\ Sockets
  BY TypeInit, SocketsInit
<1>2. TypeOK /\ Sockets /\ [Next]_vars => TypeOK' /\ Sockets'
  BY TypeStep, SocketsStep
<1>3. TypeOK /\ Sockets => NoForgottenSocket
  <2> SUFFICES ASSUME TypeOK, Sockets PROVE NoForgottenSocket
    OBVIOUS
  <2>1. ASSUME NEW c \in Clients, sOpen[c] PROVE (c = cur) # (c \in Waiting)
    BY <2>1 DEF Sockets
  <2> QED
    BY <2>1 DEF Sockets, Once, NoForgottenSocket
<1> QED
  BY <1>1, <1>2, <1>3, PTL DEF Spec

-----------------------------------------------------------------------------
(* Client and server in step.                                              *)

\* Whole sends, and no program prints the end mark.
Whole == ~Split /\ "eot" \notin Texts

\* An answer to request n, up to its end mark; and one that is not yet ended.
Ended(s, n) ==
  /\ s # <<>> /\ s[Len(s)] = Byte("eot", n)
  /\ \A i \in 1..(Len(s) - 1) : s[i].txt # "eot"

Pending(s) == \A i \in DOMAIN s : s[i].txt # "eot"

\* Client c has not left of its own accord.
Stays(c) == cli[c] = "wait" \/ (c \in Mortal /\ cli[c] = "killed")

\* The request of client c that is on its way is its last, it is nowhere else,
\* and what has come back of an answer belongs to it.
Sync(c) ==
  /\ cOpen[c] <=> cli[c] \in {"prompt", "wait"}
  /\ cOpen[c] \/ cli[c] = "off" => sFault[c] = "ok"
  /\ cli[c] = "off" =>
       nsent[c] = 0 /\ seen[c] = 0 /\ ran[c] = <<>> /\ down[c] = <<>> /\ up[c] = <<>>
  /\ up[c] # <<>> => nsent[c] > 0 /\ \E k \in Kinds : up[c] = Request(nsent[c], k)
  /\ up[c] # <<>> \/ Working(c) => sOpen[c] /\ Stays(c)
  /\ Working(c) => up[c] = <<>> /\ job.id = nsent[c] /\ Ended(reply, nsent[c])
  /\ Connected(c) =>
       /\ cli[c] = "prompt" => down[c] = <<>> /\ seen[c] = nsent[c]
       /\ cli[c] = "wait" =>
            \/ up[c] # <<>> /\ down[c] = <<>>
            \/ Working(c) /\ Pending(down[c])
            \/ up[c] = <<>> /\ ~Working(c) /\ Ended(down[c], nsent[c])
       /\ ran[c] = [i \in 1..(IF up[c] = <<>> THEN nsent[c] ELSE nsent[c] - 1) |-> i]

InLockstep == \A c \in Clients : Sync(c)

\* What the invariant says of an answer.
LEMMA EndedParts ==
  ASSUME NEW s \in DownStream, NEW n, Ended(s, n)
  PROVE  /\ Head(s).txt = "eot" <=> Tail(s) = <<>>
         /\ Tail(s) = <<>> => Head(s) = Byte("eot", n)
         /\ Tail(s) # <<>> => Ended(Tail(s), n)
<1>1. PICK m \in Nat : m = Len(s) /\ DOMAIN s = 1..m /\ m > 0
  BY DEF Ended, DownStream
<1>2. s[m] = Byte("eot", n) /\ \A i \in 1..(m - 1) : s[i].txt # "eot"
  BY <1>1 DEF Ended
<1>3. Byte("eot", n).txt = "eot"
  BY DEF Byte
<1>4. Head(s) = s[1] /\ (Tail(s) = <<>> <=> m = 1)
  <2>1. s # <<>> /\ Head(s) = s[1]
    BY <1>1 DEF DownStream
  <2>2. PICK u \in Seq(DownToken) : u = Tail(s) /\ Len(u) = m - 1
    <3>1. s \in Seq(DownToken)
      BY DEF DownStream
    <3>2. Tail(s) \in Seq(DownToken) /\ Len(Tail(s)) = Len(s) - 1
      BY <2>1, <3>1
    <3> QED
      BY <1>1, <3>2
  <2>3. u = <<>> <=> Len(u) = 0
    OBVIOUS
  <2>4. Len(u) = 0 <=> m = 1
    BY <2>2
  <2> QED
    BY <2>1, <2>2, <2>3, <2>4
<1>5. CASE m = 1
  BY <1>2, <1>3, <1>4, <1>5
<1>6. CASE m > 1
  <2>1. Head(s).txt # "eot"
    BY <1>2, <1>4, <1>6
  <2>2. Len(Tail(s)) = m - 1 /\ \A i \in 1..(m - 1) : Tail(s)[i] = s[i + 1]
    BY <1>1 DEF DownStream
  <2>3. Ended(Tail(s), n)
    <3>1. Tail(s)[m - 1] = Byte("eot", n)
      BY <1>2, <1>6, <2>2
    <3>2. ASSUME NEW i \in 1..(m - 2) PROVE Tail(s)[i].txt # "eot"
      <4>1. i \in 1..(m - 1) /\ i + 1 \in 1..(m - 1)
        BY <1>6
      <4> QED
        BY <1>2, <2>2, <4>1
    <3> QED
      BY <1>4, <1>6, <2>2, <3>1, <3>2 DEF Ended
  <2> QED
    BY <1>4, <1>6, <2>1, <2>3
<1> QED
  BY <1>1, <1>5, <1>6

LEMMA PendingAppend ==
  ASSUME NEW s \in DownStream, NEW b \in DownToken, Pending(s)
  PROVE  /\ b.txt # "eot" => Pending(Append(s, b))
         /\ \A n : b = Byte("eot", n) => Ended(Append(s, b), n)
<1>1. PICK m \in Nat : m = Len(s) /\ DOMAIN s = 1..m
  BY DEF DownStream
<1> DEFINE t == Append(s, b)
<1>2. /\ DOMAIN t = 1..(m + 1) /\ Len(t) = m + 1 /\ t # <<>> /\ t[m + 1] = b
      /\ \A i \in 1..m : t[i] = s[i]
  BY <1>1 DEF DownStream
<1> HIDE DEF t
<1>3. \A i \in 1..m : t[i].txt # "eot"
  BY <1>1, <1>2 DEF Pending
<1>4. b.txt # "eot" => Pending(t)
  BY <1>1, <1>2, <1>3 DEF Pending
<1>5. \A n : b = Byte("eot", n) => Ended(t, n)
  <2>1. (m + 1) - 1 = m
    BY <1>1
  <2> QED
    BY <1>2, <1>3, <2>1 DEF Ended
<1> QED
  BY <1>4, <1>5 DEF t

\* What a recv() of the client makes of it.
LEMMA PendingRest ==
  ASSUME NEW s \in DownStream, NEW n \in 1..Len(s), Pending(s)
  PROVE  Pending(Rest(s, n)) /\ ~EndsWithEot(Front(s, n)) /\ ~IsExitMessage(Front(s, n))
<1>1. s \in Seq(DownToken)
  BY DEF DownStream
<1>2. Front(s, n)[n].txt # "eot" /\ Len(Front(s, n)) = n
  BY <1>1, FrontIsPrefix DEF Pending
<1>3. Pending(Rest(s, n))
  <2>1. DOMAIN Rest(s, n) = 1..(Len(s) - n) /\ \A i \in 1..(Len(s) - n) : Rest(s, n)[i] = s[n + i]
    BY <1>1, RestIsSuffix
  <2>2. \A i \in 1..(Len(s) - n) : n + i \in DOMAIN s
    BY <1>1
  <2> QED
    BY <2>1, <2>2 DEF Pending
<1> QED
  BY <1>2, <1>3 DEF EndsWithEot, IsExitMessage

LEMMA EndedRest ==
  ASSUME NEW s \in DownStream, NEW n \in 1..Len(s), NEW r, Ended(s, r)
  PROVE  /\ EndsWithEot(Front(s, n)) <=> n = Len(s)
         /\ n = Len(s) => Rest(s, n) = <<>> /\ Front(s, n)[n].req = r
         /\ n # Len(s) => Ended(Rest(s, n), r) /\ ~IsExitMessage(Front(s, n))
<1>1. PICK m \in Nat : m = Len(s) /\ s \in Seq(DownToken)
  BY DEF DownStream
<1>2. Front(s, n)[n] = s[n] /\ Len(Front(s, n)) = n
  BY <1>1, FrontIsPrefix
<1>3. s[m] = Byte("eot", r) /\ \A i \in 1..(m - 1) : s[i].txt # "eot"
  BY <1>1 DEF Ended
<1>4. Byte("eot", r).txt = "eot" /\ Byte("eot", r).req = r
  BY DEF Byte
<1>5. CASE n = m
  <2>1. Rest(s, n) = <<>>
    BY <1>1, <1>5 DEF Rest
  <2> QED
    BY <1>1, <1>2, <1>3, <1>4, <1>5, <2>1 DEF EndsWithEot
<1>6. CASE n # m
  <2>1. n \in 1..(m - 1)
    BY <1>1, <1>6
  <2>2. s[n].txt # "eot"
    BY <1>3, <2>1
  <2>3. /\ Len(Rest(s, n)) = m - n
        /\ \A i \in 1..(m - n) : Rest(s, n)[i] = s[n + i]
    BY <1>1, RestIsSuffix
  <2>4. Ended(Rest(s, n), r)
    <3>1. m - n \in 1..m /\ n + (m - n) = m
      BY <2>1
    <3>2. Rest(s, n)[m - n] = Byte("eot", r)
      BY <1>3, <2>3, <3>1
    <3>3. ASSUME NEW i \in 1..(m - n - 1) PROVE Rest(s, n)[i].txt # "eot"
      <4>1. i \in 1..(m - n) /\ n + i \in 1..(m - 1)
        BY <2>1
      <4> QED
        BY <1>3, <2>3, <4>1
    <3>4. Rest(s, n) # <<>>
      BY <2>3, <3>1
    <3> QED
      BY <2>3, <3>2, <3>3, <3>4 DEF Ended
  <2> QED
    BY <1>1, <1>2, <1>6, <2>2, <2>4 DEF EndsWithEot, IsExitMessage
<1> QED
  BY <1>1, <1>5, <1>6

\* The answer that the server prepares.
LEMMA ReplyEnds ==
  ASSUME NEW k, NEW n
  PROVE  Ended(ReplyTo(k, n), n)
<1>1. ReplyTo(k, n) = <<Byte("exit", n), Byte("eot", n)>> \/ ReplyTo(k, n) = <<Byte("eot", n)>>
  BY DEF ReplyTo
<1>2. Ended(<<Byte("eot", n)>>, n)
  BY DEF Ended
<1>3. Ended(<<Byte("exit", n), Byte("eot", n)>>, n)
  <2> DEFINE s == <<Byte("exit", n), Byte("eot", n)>>
  <2>1. Len(s) = 2 /\ s[1] = Byte("exit", n) /\ s[2] = Byte("eot", n) /\ s # <<>>
    OBVIOUS
  <2>2. \A i \in 1..(2 - 1) : i = 1
    OBVIOUS
  <2> HIDE DEF s
  <2>3. Ended(s, n)
    BY <2>1, <2>2 DEF Ended, Byte
  <2> QED
    BY <2>3 DEF s
<1> QED
  BY <1>1, <1>2, <1>3

\* The only request under way is read whole.
LEMMA WholeRequest ==
  ASSUME ~Split, NEW i \in Nat, NEW k \in AllKinds, NEW n \in UpCuts(Request(i, k))
  PROVE  LET chunk == Front(Request(i, k), n) IN
         /\ Rest(Request(i, k), n) = <<>> /\ EndsWithNul(chunk)
         /\ chunk[1].part = "head" /\ chunk[1].id = i /\ Parsed(chunk) = {k}
<1>0. PICK r \in Seq(UpToken) : r = Request(i, k)
  BY RequestIs DEF UpStream
<1>1. /\ Len(r) = 4
      /\ r[1] = Half(i, k, "head") /\ r[2] = Half(i, k, "tail")
      /\ r[3] = Nul(i, FALSE) /\ r[4] = Nul(i, TRUE)
  BY <1>0 DEF Request
<1>2. ~r[1].push /\ ~r[2].push /\ ~r[3].push
  BY <1>1 DEF Half, Nul
<1>3. n \in 1..Len(r) /\ n \in 1..4 /\ r[n].push
  BY <1>0, <1>1 DEF UpCuts
<1>4. n = 4
  BY <1>2, <1>3
<1>5. Front(r, n)[1] = r[1] /\ Front(r, n)[n] = r[n] /\ Len(Front(r, n)) = n
  <2>1. n \in 1..Len(r)
    BY <1>3
  <2> QED
    BY <2>1, FrontIsPrefix
<1>6. Rest(r, n) = <<>>
  <2>1. n \in 1..Len(r) /\ n = Len(r)
    BY <1>1, <1>3, <1>4
  <2>2. Rest(r, n) \in Seq(UpToken) /\ Len(Rest(r, n)) = 0
    BY <2>1, RestIsSuffix
  <2> QED
    BY <2>2
<1>7. Parsed(Front(r, n)) = {k}
  BY <1>1, <1>5 DEF Parsed, Half
<1>8. EndsWithNul(Front(r, n))
  <2>1. r[4].part = "nul"
    BY <1>1 DEF Nul
  <2> QED
    BY <1>4, <1>5, <2>1, Zenon DEF EndsWithNul
<1>9. Front(r, n)[1].part = "head" /\ Front(r, n)[1].id = i
  BY <1>1, <1>5 DEF Half
<1> QED
  BY <1>0, <1>6, <1>7, <1>8, <1>9

LEMMA Counting ==
  /\ [i \in 1..0 |-> i] = <<>>
  /\ \A n \in Nat : Append([i \in 1..n |-> i], n + 1) = [i \in 1..(n + 1) |-> i]
<1>1. [i \in 1..0 |-> i] = <<>>
  OBVIOUS
<1>2. ASSUME NEW n \in Nat
      PROVE  Append([i \in 1..n |-> i], n + 1) = [i \in 1..(n + 1) |-> i]
  <2> DEFINE s == [i \in 1..n |-> i]
             t == Append(s, n + 1)
             u == [i \in 1..(n + 1) |-> i]
  <2>1. s \in Seq(Nat) /\ Len(s) = n /\ \A i \in 1..n : s[i] = i
    OBVIOUS
  <2> HIDE DEF s
  <2>2. t \in Seq(Nat) /\ Len(t) = n + 1 /\ \A i \in 1..(n + 1) : t[i] = i
    BY <2>1
  <2>3. u \in Seq(Nat) /\ Len(u) = n + 1 /\ \A i \in 1..(n + 1) : u[i] = i
    OBVIOUS
  <2> HIDE DEF t, u
  <2>4. t = u
    BY <2>2, <2>3
  <2> QED
    BY <2>4 DEF s, t, u
<1> QED
  BY <1>1, <1>2

\* A step that concerns neither the connection of client d nor its request ...
LEMMA Untouched ==
  ASSUME NEW d \in Clients, Sync(d),
         cli'[d] = cli[d], cOpen'[d] = cOpen[d], sOpen'[d] = sOpen[d], sFault'[d] = sFault[d],
         nsent'[d] = nsent[d], seen'[d] = seen[d], ran'[d] = ran[d],
         up'[d] = up[d], down'[d] = down[d],
         Working(d)' <=> Working(d), Working(d) => job'.id = job.id /\ reply' = reply
  PROVE  Sync(d)'
<1>1. up'[d] # <<>> => nsent'[d] > 0 /\ \E k \in Kinds : up'[d] = Request(nsent'[d], k)
  BY DEF Sync
<1>2. Working(d)' => up'[d] = <<>> /\ job'.id = nsent'[d] /\ Ended(reply', nsent'[d])
  BY DEF Sync
<1>3. up'[d] # <<>> \/ Working(d)' => sOpen'[d] /\ Stays(d)'
  BY DEF Sync, Stays
<1>4. Connected(d)' = Connected(d)
  BY DEF Connected
<1>5. Connected(d) =>
       /\ cli'[d] = "prompt" => down'[d] = <<>> /\ seen'[d] = nsent'[d]
       /\ cli'[d] = "wait" =>
            \/ up'[d] # <<>> /\ down'[d] = <<>>
            \/ Working(d)' /\ Pending(down'[d])
            \/ up'[d] = <<>> /\ ~Working(d)' /\ Ended(down'[d], nsent'[d])
       /\ ran'[d] = [i \in 1..(IF up'[d] = <<>> THEN nsent'[d] ELSE nsent'[d] - 1) |-> i]
  BY DEF Sync
<1>6. /\ cOpen'[d] <=> cli'[d] \in {"prompt", "wait"}
      /\ cOpen'[d] \/ cli'[d] = "off" => sFault'[d] = "ok"
      /\ cli'[d] = "off" =>
           nsent'[d] = 0 /\ seen'[d] = 0 /\ ran'[d] = <<>> /\ down'[d] = <<>> /\ up'[d] = <<>>
  BY DEF Sync
<1> QED
  BY <1>1, <1>2, <1>3, <1>4, <1>5, <1>6 DEF Sync, Ended, Pending, Request

\* ... and one that closes the server's end of it.
LEMMA Severed ==
  ASSUME NEW d \in Clients, Sync(d),
         cli'[d] = cli[d], cOpen'[d] = cOpen[d], sFault'[d] = sFault[d],
         nsent'[d] = nsent[d], seen'[d] = seen[d], ran'[d] = ran[d], down'[d] = down[d],
         sOpen'[d] = FALSE, up'[d] = <<>>, ~Working(d)'
  PROVE  Sync(d)'
BY DEF Sync, Connected

\* The client's end is closed, of its own accord or because it is killed.
LEMMA Departed ==
  ASSUME NEW d \in Clients, Sync(d), cli[d] \in {"prompt", "wait"},
         cli'[d] \notin {"off", "prompt", "wait"}, cOpen'[d] = FALSE, sOpen'[d] = sOpen[d],
         nsent'[d] = nsent[d], ran'[d] = ran[d], up'[d] = up[d],
         Working(d)' = Working(d), job' = job, reply' = reply,
         up[d] # <<>> \/ Working(d) => d \in Mortal /\ cli'[d] = "killed"
  PROVE  Sync(d)'
<1>1. up'[d] # <<>> => nsent'[d] > 0 /\ \E k \in Kinds : up'[d] = Request(nsent'[d], k)
  BY DEF Sync
<1>2. Working(d)' => up'[d] = <<>> /\ job'.id = nsent'[d] /\ Ended(reply', nsent'[d])
  BY DEF Sync
<1>3. up'[d] # <<>> \/ Working(d)' => sOpen'[d] /\ Stays(d)'
  BY DEF Sync, Stays
<1> QED
  BY <1>1, <1>2, <1>3 DEF Sync, Connected, Ended, Request

LEMMA SyncInit == Init => InLockstep
BY ConstantsAssumption DEF Init, InLockstep, Sync, Connected, Working

LEMMA SyncConnect ==
  ASSUME TypeOK, NEW c \in Clients, Connect(c), NEW d \in Clients, Sync(d)
  PROVE  Sync(d)'
<1>1. Working(d)' = Working(d) /\ UNCHANGED <<nsent, seen, ran, up, down, sFault, job, reply>>
  BY DEF Connect, Working
<1>2. CASE d # c
  BY <1>1, <1>2, Untouched DEF Connect, TypeOK
<1>3. CASE d = c
  <2>1. cli'[d] = "prompt" /\ cOpen'[d] = TRUE /\ sOpen'[d] = TRUE /\ cli[d] = "off"
    BY <1>3 DEF Connect, TypeOK
  <2>2. /\ nsent[d] = 0 /\ seen[d] = 0 /\ ran[d] = <<>> /\ down[d] = <<>> /\ up[d] = <<>>
        /\ sFault[d] = "ok" /\ ~Working(d)
    BY <2>1 DEF Sync, Stays
  <2> QED
    BY <1>1, <2>1, <2>2, Counting DEF Sync, Connected
<1> QED
  BY <1>2, <1>3

LEMMA SyncSend ==
  ASSUME TypeOK, NEW c \in Clients, NEW k \in Kinds, Send(c, k), NEW d \in Clients, Sync(d)
  PROVE  Sync(d)'
<1>1. /\ Working(d)' = Working(d)
      /\ UNCHANGED <<cOpen, seen, ran, down, sOpen, sFault, job, reply>>
  BY DEF Send, Working, serverVars
<1>2. CASE d # c
  <2>1. cli'[d] = cli[d] /\ nsent'[d] = nsent[d] /\ up'[d] = up[d]
    BY <1>2 DEF Send, TypeOK
  <2> QED
    BY <1>1, <2>1, Untouched
<1>3. CASE d = c
  <2>1. cli[d] = "prompt" /\ cli'[d] = "wait" /\ nsent'[d] = nsent[d] + 1 /\ nsent[d] \in Nat
    BY <1>3 DEF Send, TypeOK
  <2>2. up[d] = <<>> /\ ~Working(d) /\ cOpen[d] /\ sFault[d] = "ok"
    BY <2>1 DEF Sync, Stays
  <2>3. CASE sOpen[d]
    <3>1. up'[d] = Request(nsent'[d], k)
      <4>1. up'[d] = <<>> \o Request(nsent[d] + 1, k)
        BY <1>3, <2>2, <2>3 DEF Send, TypeOK
      <4> QED
        BY <2>1, <4>1 DEF Request
    <3>2. up'[d] # <<>> /\ Connected(d) /\ Connected(d)' = Connected(d)
      BY <1>1, <2>2, <2>3, <3>1 DEF Request, Connected
    <3>3. down[d] = <<>> /\ ran[d] = [i \in 1..nsent[d] |-> i]
      BY <2>1, <2>2, <3>2 DEF Sync
    <3>4. nsent'[d] - 1 = nsent[d] /\ nsent'[d] > 0
      BY <2>1
    <3> QED
      BY <1>1, <2>1, <2>2, <2>3, <3>1, <3>2, <3>3, <3>4 DEF Sync, Stays
  <2>4. CASE ~sOpen[d]
    <3>1. up' = up
      BY <1>3, <2>4 DEF Send
    <3> QED
      BY <1>1, <2>1, <2>2, <2>4, <3>1 DEF Sync, Connected
  <2> QED
    BY <2>3, <2>4
<1> QED
  BY <1>2, <1>3

\* Who is at the prompt has no request that is still to be answered.
LEMMA SyncLeaves ==
  ASSUME TypeOK, NEW c \in Clients, SendFails(c) \/ SendKills(c) \/ Leave(c) \/ Kill(c),
         NEW d \in Clients, Sync(d)
  PROVE  Sync(d)'
<1>1. /\ Working(d)' = Working(d)
      /\ UNCHANGED <<nsent, seen, ran, up, sOpen, job, reply>> /\ ClientCloses(c)
  BY DEF SendFails, SendKills, Leave, Kill, Working, serverVars
<1>2. CASE d # c
  <2>1. cli'[d] = cli[d]
    BY <1>2 DEF SendFails, SendKills, Leave, Kill, TypeOK
  <2>2. cOpen'[d] = cOpen[d] /\ down'[d] = down[d] /\ sFault'[d] = sFault[d]
    BY <1>1, <1>2 DEF ClientCloses, TypeOK
  <2> QED
    BY <1>1, <2>1, <2>2, Untouched
<1>3. CASE d = c
  <2>1. cOpen'[d] = FALSE
    BY <1>1, <1>3 DEF ClientCloses, TypeOK
  <2>2. CASE Kill(c)
    <3>1. cli'[d] = "killed" /\ d \in Mortal /\ cli[d] \in {"prompt", "wait"}
      BY <1>3, <2>2 DEF Kill, TypeOK, Sync
    <3> QED
      BY <1>1, <2>1, <3>1, Departed
  <2>3. CASE SendFails(c) \/ SendKills(c) \/ Leave(c)
    <3>1. cli'[d] \in {"failed", "killed", "left"} /\ cli[d] = "prompt"
      BY <1>3, <2>3 DEF SendFails, SendKills, Leave, TypeOK
    <3>2. up[d] = <<>> /\ ~Working(d)
      BY <3>1 DEF Sync, Stays
    <3> QED
      BY <1>1, <2>1, <3>1, <3>2, Departed
  <2> QED
    BY <2>2, <2>3
<1> QED
  BY <1>2, <1>3

LEMMA SyncConnectFails ==
  ASSUME TypeOK, NEW c \in Clients, ConnectFails(c), NEW d \in Clients, Sync(d)
  PROVE  Sync(d)'
<1>1. /\ Working(d)' = Working(d)
      /\ UNCHANGED <<cOpen, nsent, seen, ran, up, down, sOpen, sFault, job, reply>>
  BY DEF ConnectFails, Working, serverVars
<1>2. CASE d # c
  BY <1>1, <1>2, Untouched DEF ConnectFails, TypeOK
<1>3. CASE d = c
  <2>1. cli[d] = "off" /\ cli'[d] = "failed"
    BY <1>3 DEF ConnectFails, TypeOK
  <2> QED
    BY <1>1, <2>1 DEF Sync, Connected, Stays
<1> QED
  BY <1>2, <1>3

LEMMA SyncReceiveEnds ==
  ASSUME TypeOK, NEW c \in Clients, ReceiveEnds(c), NEW d \in Clients, Sync(d)
  PROVE  Sync(d)'
<1>1. /\ Working(d)' = Working(d)
      /\ UNCHANGED <<cOpen, nsent, seen, ran, up, down, sOpen, sFault, job, reply>>
  BY DEF ReceiveEnds, Working, serverVars
<1>2. CASE d # c
  BY <1>1, <1>2, Untouched DEF ReceiveEnds, TypeOK
<1>3. CASE d = c
  <2>1. cli[d] = "wait" /\ cli'[d] = "prompt" /\ ~sOpen[d]
    BY <1>3 DEF ReceiveEnds, TypeOK
  <2> QED
    BY <1>1, <2>1 DEF Sync, Connected, Stays
<1> QED
  BY <1>2, <1>3

\* The client takes the end of the answer for the end of it, and nothing else.
LEMMA SyncReceive ==
  ASSUME TypeOK, NEW c \in Clients, Receive(c), NEW d \in Clients, Sync(d)
  PROVE  Sync(d)'
<1>1. /\ Working(d)' = Working(d)
      /\ UNCHANGED <<nsent, ran, up, sOpen, job, reply>>
  BY DEF Receive, Working, serverVars
<1>2. PICK n \in DownCuts(down[c]) :
        LET chunk == Front(down[c], n) IN
        /\ seen' = IF EndsWithEot(chunk) THEN [seen EXCEPT ![c] = chunk[n].req] ELSE seen
        /\ \/ /\ IsExitMessage(chunk)
              /\ cli' = [cli EXCEPT ![c] = "left"]
              /\ cOpen' = [cOpen EXCEPT ![c] = FALSE]
              /\ down' = [down EXCEPT ![c] = <<>>]
              /\ sFault' = [sFault EXCEPT ![c] =
                              IF sOpen[c] /\ Rest(down[c], n) # <<>> THEN "err" ELSE @]
           \/ /\ ~IsExitMessage(chunk)
              /\ cli' = [cli EXCEPT ![c] = IF EndsWithEot(chunk) THEN "prompt" ELSE "wait"]
              /\ down' = [down EXCEPT ![c] = Rest(@, n)]
              /\ UNCHANGED <<cOpen, sFault>>
  BY DEF Receive
<1> DEFINE chunk == Front(down[c], n)
           s == down[c]
<1>3. s \in DownStream /\ n \in 1..Len(s)
  BY DEF TypeOK, DownCuts
<1>4. /\ seen' = IF EndsWithEot(chunk) THEN [seen EXCEPT ![c] = chunk[n].req] ELSE seen
      /\ \/ /\ IsExitMessage(chunk) /\ cli' = [cli EXCEPT ![c] = "left"]
            /\ cOpen' = [cOpen EXCEPT ![c] = FALSE]
         \/ /\ ~IsExitMessage(chunk)
            /\ cli' = [cli EXCEPT ![c] = IF EndsWithEot(chunk) THEN "prompt" ELSE "wait"]
            /\ down' = [down EXCEPT ![c] = Rest(s, n)]
            /\ UNCHANGED <<cOpen, sFault>>
  BY <1>2
<1>5. CASE d # c
  <2>1. cli'[d] = cli[d] /\ seen'[d] = seen[d]
    BY <1>4, <1>5 DEF TypeOK
  <2>2. cOpen'[d] = cOpen[d] /\ down'[d] = down[d] /\ sFault'[d] = sFault[d]
    BY <1>2, <1>5 DEF TypeOK
  <2> QED
    BY <1>1, <2>1, <2>2, Untouched
<1> HIDE DEF chunk, s
<1>6. CASE d = c
  <2>1. cli[d] = "wait" /\ cOpen[d] /\ sFault[d] = "ok"
    BY <1>6 DEF Receive, Sync
  <2>2. CASE IsExitMessage(chunk)
    <3>1. cli'[d] = "left" /\ cOpen'[d] = FALSE
      BY <1>4, <1>6, <2>2 DEF TypeOK
    <3>2. ~(up[d] # <<>> \/ Working(d))
      <4> SUFFICES ASSUME up[d] # <<>> \/ Working(d) PROVE FALSE
        OBVIOUS
      <4>1. Connected(d) /\ s = down[d]
        BY <1>6, <2>1 DEF Sync, Connected, s
      <4>2. s # <<>>
        BY <1>3 DEF DownStream
      <4>3. Working(d) /\ Pending(s)
        BY <2>1, <4>1, <4>2 DEF Sync
      <4> QED
        BY <1>3, <2>2, <4>3, PendingRest DEF chunk, s
    <3> QED
      BY <1>1, <2>1, <3>1, <3>2, Departed
  <2>3. CASE ~IsExitMessage(chunk)
    <3>1. /\ cli'[d] = IF EndsWithEot(chunk) THEN "prompt" ELSE "wait"
          /\ down'[d] = Rest(s, n) /\ UNCHANGED <<cOpen, sFault>>
          /\ EndsWithEot(chunk) => seen'[d] = chunk[n].req
          /\ s = down[d]
      BY <1>4, <1>6, <2>3 DEF TypeOK, s
    <3>2. CASE ~sOpen[d]
      BY <1>1, <2>1, <3>1, <3>2 DEF Sync, Connected
    <3>3. CASE sOpen[d] /\ Working(d)
      <4>1. Pending(s) /\ Connected(d)
        BY <1>6, <2>1, <3>1, <3>3 DEF Sync, Connected
      <4>2. cli'[d] = "wait" /\ Pending(down'[d])
        BY <1>3, <3>1, <4>1, PendingRest DEF chunk, s
      <4>3. Connected(d)' /\ up[d] = <<>> /\ Stays(d)'
        BY <1>1, <2>1, <3>1, <3>3, <4>2 DEF Connected, Sync, Stays
      <4> QED
        BY <1>1, <2>1, <3>1, <3>3, <4>1, <4>2, <4>3 DEF Sync, Pending
    <3>4. CASE sOpen[d] /\ ~Working(d)
      <4>1. s # <<>>
        BY <1>3 DEF DownStream
      <4>2. Ended(s, nsent[d]) /\ Connected(d) /\ up[d] = <<>>
        BY <2>1, <3>1, <3>4, <4>1 DEF Sync, Connected
      <4>3. CASE n = Len(s)
        <5>1. cli'[d] = "prompt" /\ down'[d] = <<>> /\ seen'[d] = nsent[d]
          BY <1>3, <3>1, <4>2, <4>3, EndedRest DEF chunk, s
        <5> QED
          BY <1>1, <2>1, <3>1, <3>4, <4>2, <5>1 DEF Sync, Connected
      <4>4. CASE n # Len(s)
        <5>1. cli'[d] = "wait" /\ Ended(down'[d], nsent[d])
          BY <1>3, <3>1, <4>2, <4>4, EndedRest DEF chunk, s
        <5>2. Ended(down'[d], nsent'[d])
          BY <1>1, <5>1
        <5> QED
          BY <1>1, <2>1, <3>1, <3>4, <4>2, <5>1, <5>2 DEF Sync, Connected, Ended
      <4> QED
        BY <4>3, <4>4
    <3> QED
      BY <3>2, <3>3, <3>4
  <2> QED
    BY <2>2, <2>3
<1> QED
  BY <1>5, <1>6

\* The server closes its end of the connection it serves, or all ends.
LEMMA SyncCloses ==
  ASSUME TypeOK, Shutdown \/ ReplyKills \/ NamelessKills \/ CloseLast \/ ClientGone \/ ForkFails,
         NEW d \in Clients, Sync(d)
  PROVE  Sync(d)'
<1>1. UNCHANGED <<cli, cOpen, nsent, seen, down, sFault, ran, job>> /\ cur' = Nobody
  BY DEF Shutdown, ReplyKills, NamelessKills, ServerDies, CloseLast, ClientGone, ForkFails, TypeOK
<1>2. ~Working(d)'
  BY <1>1, ConstantsAssumption DEF Working
<1>3. PICK S \in {Clients, {cur}} : ServerCloses(S) /\ (S = Clients \/ cur \in S)
  BY DEF Shutdown, ReplyKills, NamelessKills, ServerDies, CloseLast, ClientGone, ForkFails
<1>4. CASE d \in S
  <2>1. sOpen'[d] = FALSE /\ up'[d] = <<>>
    BY <1>3, <1>4 DEF ServerCloses
  <2> QED
    BY <1>1, <1>2, <2>1, Severed
<1>5. CASE d \notin S
  <2>1. up'[d] = up[d] /\ sOpen'[d] = sOpen[d]
    BY <1>3, <1>5 DEF ServerCloses, TypeOK
  <2>2. ~Working(d)
    BY <1>3, <1>5 DEF Working
  <2> QED
    BY <1>1, <1>2, <2>1, <2>2, Untouched
<1> QED
  BY <1>4, <1>5

\* The server's steps between requests, and those of the programs that neither
\* read nor write.
LEMMA SyncElsewhere ==
  ASSUME TypeOK, NEW d \in Clients, Sync(d),
         \/ Boot \/ Accept \/ AcceptNoMemory \/ AcceptFails \/ Fork \/ PipelineEnds
         \/ UNCHANGED vars
  PROVE  Sync(d)'
<1>1. UNCHANGED <<cli, cOpen, nsent, seen, up, down, sOpen, sFault, ran, job, reply>>
  BY DEF Boot, Accept, AcceptNoMemory, AcceptFails, Fork, PipelineEnds, vars, clientVars,
         serverVars
<1>2. Working(d)' = Working(d)
  <2>1. CASE Fork \/ PipelineEnds
    BY <2>1 DEF Fork, PipelineEnds, Working
  <2>2. CASE Boot \/ Accept \/ AcceptNoMemory \/ AcceptFails
    BY <2>2 DEF Boot, Accept, AcceptNoMemory, AcceptFails, Working
  <2>3. CASE UNCHANGED vars
    BY <2>3 DEF vars, serverVars, Working
  <2> QED
    BY <2>1, <2>2, <2>3
<1> QED
  BY <1>1, <1>2, Untouched

\* A request is read whole, whatever it is, and becomes the one that is executed.
LEMMA SyncRequest ==
  ASSUME TypeOK, Whole, RequestReceived, NEW d \in Clients, Sync(d)
  PROVE  Sync(d)'
<1>1. cur \in Clients /\ UNCHANGED <<cli, cOpen, nsent, seen, down, sOpen, sFault, cur>>
  BY DEF TypeOK, RequestReceived, clientVars
<1>2. spc = "recv" /\ ~Working(d)
  BY DEF RequestReceived, Working
<1>3. CASE d # cur
  <2>1. up'[d] = up[d] /\ ran'[d] = ran[d]
    <3>1. \E n : up' = [up EXCEPT ![cur] = Rest(up[cur], n)]
      BY DEF RequestReceived
    <3>2. ran' = ran \/ \E v : ran' = [ran EXCEPT ![cur] = v]
      BY Zenon DEF RequestReceived
    <3> QED
      BY <1>3, <3>1, <3>2 DEF TypeOK
  <2>2. ~Working(d)'
    BY <1>1, <1>3 DEF Working
  <2> QED
    BY <1>1, <1>2, <2>1, <2>2, Untouched
<1>4. CASE d = cur
  <2>1. PICK n \in UpCuts(up[d]) :
          LET chunk == Front(up[d], n) IN
          /\ up' = [up EXCEPT ![d] = Rest(up[d], n)]
          /\ \/ /\ ~EndsWithNul(chunk)
                /\ UNCHANGED <<spc, job, reply, nout, ran>>
             \/ /\ EndsWithNul(chunk)
                /\ \E k \in Parsed(chunk) :
                     /\ job' = [kind |-> k, id |-> chunk[1].id, who |-> d]
                     /\ reply' = ReplyTo(k, chunk[1].id)
                     /\ spc' = IF k \in {"pipeline", "reader", "pipes"} THEN "fork" ELSE "reply"
                /\ ran' = [ran EXCEPT ![d] =
                             IF chunk[1].part = "nul" THEN ran[d] ELSE Append(ran[d], chunk[1].id)]
    BY <1>4 DEF RequestReceived
  <2>2. n \in 1..Len(up[d]) /\ up[d] \in UpStream
    BY DEF UpCuts, TypeOK
  <2>3. up[d] # <<>>
    BY <2>2 DEF UpStream
  <2>4. PICK k \in Kinds : up[d] = Request(nsent[d], k)
    BY <2>3 DEF Sync
  <2>5. nsent[d] \in Nat /\ k \in AllKinds /\ ~Split
    BY ConstantsAssumption DEF TypeOK, Whole
  <2>6. LET chunk == Front(up[d], n) IN
        /\ Rest(up[d], n) = <<>> /\ EndsWithNul(chunk)
        /\ chunk[1].part = "head" /\ chunk[1].id = nsent[d] /\ Parsed(chunk) = {k}
    BY <2>4, <2>5, WholeRequest
  <2>7. /\ up' = [up EXCEPT ![d] = <<>>]
        /\ job' = [kind |-> k, id |-> nsent[d], who |-> d]
        /\ reply' = ReplyTo(k, nsent[d])
        /\ spc' = IF k \in {"pipeline", "reader", "pipes"} THEN "fork" ELSE "reply"
        /\ ran' = [ran EXCEPT ![d] = Append(ran[d], nsent[d])]
    BY <2>1, <2>6
  <2>8. /\ up'[d] = <<>> /\ job'.id = nsent'[d] /\ ran'[d] = Append(ran[d], nsent[d])
        /\ Working(d)' /\ Ended(reply', nsent'[d])
    BY <1>1, <1>4, <2>7, ReplyEnds DEF TypeOK, Working
  <2>9. sOpen[d] /\ Stays(d) /\ Stays(d)' = Stays(d)
    BY <1>1, <2>3 DEF Sync, Stays
  <2>10. Connected(d) => /\ cli[d] = "wait" /\ down[d] = <<>>
                         /\ ran'[d] = [i \in 1..nsent[d] |-> i]
    <3> SUFFICES ASSUME Connected(d)
                 PROVE  cli[d] = "wait" /\ down[d] = <<>> /\ ran'[d] = [i \in 1..nsent[d] |-> i]
      OBVIOUS
    <3>1. cli[d] = "wait"
      BY <2>9 DEF Connected, Stays, Sync
    <3>2. down[d] = <<>> /\ ran[d] = [i \in 1..(nsent[d] - 1) |-> i]
      BY <1>2, <2>3, <3>1 DEF Sync
    <3>3. nsent[d] - 1 \in Nat /\ (nsent[d] - 1) + 1 = nsent[d]
      BY <2>3, <2>5 DEF Sync
    <3> QED
      BY <2>8, <3>1, <3>2, <3>3, Counting
  <2>11. Pending(<<>>)
    BY DEF Pending
  <2>12. Connected(d)' = Connected(d)
    BY <1>1 DEF Connected
  <2>13. /\ cOpen'[d] <=> cli'[d] \in {"prompt", "wait"}
         /\ cOpen'[d] \/ cli'[d] = "off" => sFault'[d] = "ok"
         /\ cli'[d] # "off"
    BY <1>1, <2>9 DEF Sync, Stays
  <2> QED
    BY <1>1, <2>8, <2>9, <2>10, <2>11, <2>12, <2>13 DEF Sync
<1> QED
  BY <1>3, <1>4

\* What a program prints does not end the answer.
LEMMA SyncWrite ==
  ASSUME TypeOK, Whole, NEW t \in Texts, Write(t), NEW d \in Clients, Sync(d)
  PROVE  Sync(d)'
<1>1. /\ UNCHANGED <<cli, cOpen, nsent, seen, up, sOpen, spc, cur, job, reply, ran>>
      /\ spc = "run" /\ cur \in Clients
  BY DEF Write, clientVars, TypeOK
<1>2. Working(d)' = Working(d)
  BY <1>1 DEF Working
<1>3. CASE d # cur
  <2>1. (\E s : down' = [down EXCEPT ![cur] = s]) \/ down' = down
    BY DEF Write
  <2>2. sFault' = sFault \/ \E f : sFault' = [sFault EXCEPT ![cur] = f]
    BY DEF Write
  <2>3. down'[d] = down[d] /\ sFault'[d] = sFault[d]
    BY <1>3, <2>1, <2>2 DEF TypeOK
  <2> QED
    BY <1>1, <1>2, <2>3, Untouched
<1>4. CASE d = cur
  <2>1. Working(d) /\ up[d] = <<>> /\ sOpen[d] /\ Stays(d) /\ cli[d] # "off"
    BY <1>1, <1>4 DEF Working, Sync, Stays
  <2>2. CASE cOpen[d]
    <3>1. down'[d] = Append(down[d], Byte(t, job.id)) /\ sFault' = sFault
      BY <1>4, <2>2 DEF Write, TypeOK
    <3>2. Byte(t, job.id) \in DownToken /\ Byte(t, job.id).txt # "eot"
      BY ConstantsAssumption DEF Byte, DownToken, TypeOK, Whole
    <3>3. cli[d] = "wait" /\ Connected(d)
      BY <2>1, <2>2 DEF Sync, Stays, Connected
    <3>4. Pending(down[d]) /\ down[d] \in DownStream
      BY <2>1, <3>3 DEF Sync, TypeOK
    <3>5. Pending(down'[d])
      BY <3>1, <3>2, <3>4, PendingAppend
    <3>6. Pending(down[d])'
      BY <3>5 DEF Pending
    <3> QED
      BY <1>1, <1>2, <2>1, <2>2, <3>1, <3>3, <3>6 DEF Sync, Connected, Stays
  <2>3. CASE ~cOpen[d]
    BY <1>1, <1>2, <2>1, <2>3 DEF Sync, Connected, Stays
  <2> QED
    BY <2>2, <2>3
<1> QED
  BY <1>3, <1>4

\* There is nothing for a program to read from the socket.
LEMMA NothingToRead ==
  ASSUME TypeOK, InLockstep
  PROVE  ~ReadStdin
<1> SUFFICES ASSUME ReadStdin PROVE FALSE
  OBVIOUS
<1>1. cur \in Clients /\ Working(cur)
  BY DEF ReadStdin, TypeOK, Working
<1>2. up[cur] = <<>>
  BY <1>1 DEF InLockstep, Sync
<1> QED
  BY <1>2 DEF ReadStdin, UpCuts

LEMMA SyncReply ==
  ASSUME TypeOK, Reply, NEW d \in Clients, Sync(d)
  PROVE  Sync(d)'
<1>1. /\ UNCHANGED <<cli, cOpen, nsent, seen, up, sOpen, cur, job, ran>>
      /\ spc = "reply" /\ cur \in Clients
  BY DEF Reply, clientVars, TypeOK
<1>2. CASE d # cur
  <2>1. ~Working(d) /\ ~Working(d)'
    BY <1>1, <1>2 DEF Working
  <2>2. (\E s : down' = [down EXCEPT ![cur] = s]) \/ down' = down
    BY DEF Reply
  <2>3. sFault' = sFault \/ \E f : sFault' = [sFault EXCEPT ![cur] = f]
    BY DEF Reply
  <2>4. down'[d] = down[d] /\ sFault'[d] = sFault[d]
    BY <1>2, <2>2, <2>3 DEF TypeOK
  <2> QED
    BY <1>1, <2>1, <2>4, Untouched
<1>3. CASE d = cur
  <2>1. /\ Working(d) /\ up[d] = <<>> /\ sOpen[d] /\ Stays(d) /\ cli[d] # "off"
        /\ Ended(reply, nsent[d]) /\ reply \in DownStream /\ job.id = nsent[d]
    BY <1>1, <1>3 DEF Working, Sync, Stays, TypeOK
  <2>2. /\ Head(reply).txt = "eot" <=> Tail(reply) = <<>>
        /\ Tail(reply) = <<>> => Head(reply) = Byte("eot", nsent[d])
        /\ Tail(reply) # <<>> => Ended(Tail(reply), nsent[d])
    BY <2>1, EndedParts
  <2>3. reply' = Tail(reply) /\ spc' = NextAfter(Tail(reply))
    BY DEF Reply
  <2>4. Working(d)' <=> Tail(reply) # <<>>
    BY <1>1, <1>3, <2>3 DEF Working, NextAfter
  <2>5. Working(d)' => Ended(reply', nsent'[d])
    BY <1>1, <2>2, <2>3, <2>4
  <2>6. Stays(d)'
    BY <1>1, <2>1 DEF Stays
  <2>7. CASE cOpen[d]
    <3>1. down'[d] = Append(down[d], Head(reply)) /\ sFault' = sFault
      BY <1>3, <2>7 DEF Reply, TypeOK
    <3>2. cli[d] = "wait" /\ Connected(d)
      BY <2>1, <2>7 DEF Sync, Stays, Connected
    <3>3. Pending(down[d]) /\ down[d] \in DownStream
      BY <2>1, <3>2 DEF Sync, TypeOK
    <3>4. Head(reply) \in DownToken
      BY <2>1, DownStreams DEF Ended
    <3>5. /\ Tail(reply) # <<>> => Pending(down'[d])
          /\ Tail(reply) = <<>> => Ended(down'[d], nsent'[d])
      BY <1>1, <2>2, <3>1, <3>3, <3>4, PendingAppend
    <3> QED
      BY <1>1, <2>1, <2>4, <2>5, <2>6, <2>7, <3>1, <3>2, <3>5 DEF Sync, Connected
  <2>8. CASE ~cOpen[d]
    BY <1>1, <2>1, <2>4, <2>5, <2>6, <2>8 DEF Sync, Connected
  <2> QED
    BY <2>7, <2>8
<1> QED
  BY <1>2, <1>3

LEMMA SyncReplyFails ==
  ASSUME TypeOK, ReplyFails, NEW d \in Clients, Sync(d)
  PROVE  Sync(d)'
<1>1. /\ UNCHANGED <<cli, cOpen, nsent, seen, up, down, sOpen, cur, job, ran>>
      /\ spc = "reply" /\ cur \in Clients /\ sFault[cur] = "err" /\ reply' = <<>>
      /\ sFault' = [sFault EXCEPT ![cur] = "reset"]
  BY DEF ReplyFails, clientVars, TypeOK
<1>2. ~Working(d)'
  BY <1>1 DEF ReplyFails, Working, NextAfter
<1>3. CASE d # cur
  <2>1. ~Working(d) /\ sFault'[d] = sFault[d]
    BY <1>1, <1>3 DEF Working, TypeOK
  <2> QED
    BY <1>1, <1>2, <2>1, Untouched
<1>4. CASE d = cur
  <2>1. ~cOpen[d] /\ cli[d] # "off"
    BY <1>1, <1>4 DEF Sync
  <2> QED
    BY <1>1, <1>2, <2>1 DEF Sync, Connected, Stays
<1> QED
  BY <1>3, <1>4

LEMMA SyncStep == Whole /\ TypeOK /\ InLockstep /\ [Next]_vars => InLockstep'
<1> SUFFICES ASSUME Whole, TypeOK, InLockstep, [Next]_vars, NEW d \in Clients
             PROVE  Sync(d)'
  BY DEF InLockstep
<1>1. Sync(d)
  BY DEF InLockstep
<1>2. ASSUME NEW c \in Clients, ClientLoop(c) \/ User(c) \/ Kill(c)
      PROVE  Sync(d)'
  BY <1>1, <1>2, SyncReceive, SyncReceiveEnds, SyncConnect, SyncConnectFails, SyncSend,
     SyncLeaves DEF ClientLoop, User
<1>3. CASE Program
  BY <1>1, <1>3, SyncWrite, NothingToRead, SyncElsewhere DEF Program
<1>4. CASE Server
  BY <1>1, <1>4, SyncElsewhere, SyncCloses, SyncRequest, SyncReply, SyncReplyFails DEF Server
<1>5. CASE UNCHANGED vars
  BY <1>1, <1>5, SyncElsewhere
<1> QED
  BY <1>2, <1>3, <1>4, <1>5 DEF Next

\* The two ways to die: of SIGPIPE, which takes a client that was killed while its
\* answer was not complete, and of a line without a name.
LEMMA DeathStep ==
  ASSUME TypeOK, InLockstep, Next, spc # "killed", spc' = "killed"
  PROVE  IF spc = "reply" THEN cur \in Mortal /\ cli[cur] = "killed" ELSE job.kind = "pipes"
<1>1. ReplyKills \/ NamelessKills
  <2>1. ASSUME NEW c \in Clients, ClientLoop(c) \/ User(c) \/ Kill(c)
        PROVE  spc' = spc
    BY <2>1 DEF ClientLoop, User, Receive, ReceiveEnds, Connect, ConnectFails, Leave,
                SendFails, SendKills, Send, Kill, serverVars
  <2>2. CASE Server \/ Program
    BY <2>2 DEF Server, Program, Boot, Accept, AcceptNoMemory, AcceptFails, Shutdown,
                RequestReceived, ClientGone, Fork, ForkFails, Reply, ReplyFails,
                CloseLast, Write, ReadStdin, PipelineEnds, NextAfter
  <2> QED
    BY <2>1, <2>2 DEF Next
<1>2. ASSUME ReplyKills PROVE spc = "reply" /\ cur \in Mortal /\ cli[cur] = "killed"
  <2>1. cur \in Clients /\ sFault[cur] = "reset" /\ Working(cur)
    BY <1>2 DEF ReplyKills, TypeOK, Working
  <2>2. ~cOpen[cur] /\ Stays(cur)
    BY <2>1 DEF InLockstep, Sync
  <2> QED
    BY <1>2, <2>1, <2>2 DEF InLockstep, Sync, Stays, ReplyKills
<1>3. ASSUME NamelessKills PROVE spc = "fork" /\ job.kind = "pipes"
  BY <1>3 DEF NamelessKills
<1> QED
  BY <1>1, <1>2, <1>3

LEMMA LockstepInit == Init => TypeOK /\ InLockstep
BY TypeInit, SyncInit

LEMMA LockstepStep == Whole /\ TypeOK /\ InLockstep /\ [Next]_vars => TypeOK' /\ InLockstep'
BY TypeStep, SyncStep

\* If the network delivers whole sends and no program prints the end mark, then
\* nothing of an earlier exchange is left when a client prompts, and a request for
\* which it waits is under way, or executed, or answered: exactly one of these,
\* for any number of clients, requests and writes, whichever clients are killed
\* and whichever calls of the server fail.
THEOREM StaysInStep == Whole => (Spec => []InStep)
<1> SUFFICES ASSUME Whole PROVE Spec => []InStep
  OBVIOUS
<1>1. TypeOK /\ InLockstep => InStep
  <2> SUFFICES ASSUME TypeOK, InLockstep, NEW c \in Clients, Connected(c)
               PROVE  /\ cli[c] = "prompt" => up[c] = <<>> /\ down[c] = <<>> /\ ~Working(c)
                      /\ cli[c] = "wait" =>
                           /\ InFlight(c) \/ Working(c) \/ Answered(c)
                           /\ ~(InFlight(c) /\ Working(c))
                           /\ ~(InFlight(c) /\ Answered(c))
                           /\ ~(Working(c) /\ Answered(c))
    BY DEF InStep
  <2>1. Sync(c)
    BY DEF InLockstep
  <2>2. down[c] \in DownStream
    BY DEF TypeOK
  <2>3. \A n : Ended(down[c], n) => Answered(c)
    <3>1. down[c] # <<>> => Len(down[c]) \in DOMAIN down[c]
      BY <2>2 DEF DownStream
    <3> QED
      BY <3>1 DEF Ended, Answered, Byte
  <2>4. Pending(down[c]) => ~Answered(c)
    BY DEF Pending, Answered
  <2>5. down[c] = <<>> => ~Answered(c)
    BY DEF Answered
  <2>6. CASE cli[c] = "prompt"
    BY <2>1, <2>6 DEF Sync, Stays
  <2>7. CASE cli[c] = "wait"
    BY <2>1, <2>3, <2>4, <2>5, <2>7 DEF Sync, InFlight
  <2> QED
    BY <2>6, <2>7
<1> QED
  BY <1>1, LockstepInit, LockstepStep, PTL DEF Spec

\* Under the same assumptions a client at its prompt has read the end of the answer
\* to its last request, and the server has executed each of its requests once.
THEOREM AnswersBelong == Whole => (Spec => []AnswersMatch)
<1> SUFFICES ASSUME Whole PROVE Spec => []AnswersMatch
  OBVIOUS
<1>1. TypeOK /\ InLockstep => AnswersMatch
  <2> SUFFICES ASSUME TypeOK, InLockstep, NEW c \in Clients, Connected(c), cli[c] = "prompt"
               PROVE  seen[c] = nsent[c] /\ ran[c] = [i \in 1..nsent[c] |-> i]
    BY DEF AnswersMatch
  <2>1. Sync(c)
    BY DEF InLockstep
  <2>2. up[c] = <<>>
    BY <2>1 DEF Sync, Stays
  <2> QED
    BY <2>1, <2>2 DEF Sync
<1> QED
  BY <1>1, LockstepInit, LockstepStep, PTL DEF Spec

\* ... and the server dies only in the middle of sending an answer to a client that
\* was killed before the end of it, or over a line without a name.
THEOREM DiesOfItsOwnRequest == Whole => (Spec => DiesForAReason)
<1> SUFFICES ASSUME Whole PROVE Spec => DiesForAReason
  OBVIOUS
<1>1. TypeOK /\ InLockstep /\ [Next]_vars
        => [spc # "killed" /\ spc' = "killed" =>
              IF spc = "reply" THEN cur \in Mortal /\ cli[cur] = "killed"
                               ELSE job.kind = "pipes"]_vars
  BY DeathStep
<1> QED
  BY <1>1, LockstepInit, LockstepStep, PTL DEF Spec, DiesForAReason

-----------------------------------------------------------------------------
(* The service that the users see.                                         *)

\* The line of the service: who is served comes first, then those that await
\* accept(); and who stands in it.
LEMMA LineIs ==
  ASSUME TypeOK
  PROVE  /\ Serving /\ cur \in Clients =>
              /\ LineBar # <<>> /\ Head(LineBar) = cur /\ Tail(LineBar) = backlog
              /\ Len(LineBar) = Len(backlog) + 1
         /\ Serving /\ cur \notin Clients => LineBar = backlog
         /\ ~Serving => LineBar = <<>>
         /\ \A c \in Clients : Service!InLine(c) <=> Serving /\ (c = cur \/ c \in Waiting)
<1>1. CASE ~Serving
  <2>1. LineBar = <<>>
    BY <1>1 DEF LineBar
  <2> QED
    BY <1>1, <2>1 DEF Service!InLine
<1>2. CASE Serving /\ cur \notin Clients
  <2>1. LineBar = backlog
    BY <1>2 DEF LineBar, TypeOK
  <2>2. \A c \in Clients : Service!InLine(c) <=> c \in Waiting
    BY <2>1 DEF Service!InLine, Waiting
  <2>3. \A c \in Clients : c # cur
    BY <1>2
  <2> QED
    BY <1>2, <2>1, <2>2, <2>3
<1>3. CASE Serving /\ cur \in Clients
  <2>1. PICK w : w = <<cur>> \o backlog
    OBVIOUS
  <2>2. LineBar = w
    BY <1>3, <2>1, ConstantsAssumption DEF LineBar
  <2>3. <<cur>> \in Seq(Clients) /\ Len(<<cur>>) = 1 /\ <<cur>>[1] = cur
    BY <1>3
  <2>4. PICK n \in Nat : n = Len(backlog) /\ backlog \in Seq(Clients)
    BY DEF TypeOK
  <2>5. /\ DOMAIN w = 1..(1 + n)
        /\ w[1] = cur
        /\ \A i \in 1..n : w[1 + i] = backlog[i]
    BY <2>1, <2>3, <2>4, Joined
  <2>6. w \in Seq(Clients) /\ Len(w) = n + 1
    BY <2>1, <2>3, <2>4
  <2>7. w # <<>> /\ Head(w) = cur
    BY <2>5, <2>6
  <2>8. Tail(w) = backlog
    <3>1. Tail(w) \in Seq(Clients) /\ Len(Tail(w)) = n
      BY <2>6, <2>7
    <3>2. \A i \in 1..n : Tail(w)[i] = w[i + 1]
      BY <2>4, <2>6, <2>7
    <3>3. \A i \in 1..n : Tail(w)[i] = backlog[i]
      BY <2>4, <2>5, <3>2
    <3> QED
      BY <2>4, <3>1, <3>3
  <2>9. \A c \in Clients : (\E i \in DOMAIN w : w[i] = c) <=> c = cur \/ c \in Waiting
    <3>1. DOMAIN backlog = 1..n
      BY <2>4
    <3>2. ASSUME NEW i \in 1..(1 + n) PROVE w[i] = cur \/ w[i] \in Waiting
      <4>1. CASE i = 1
        BY <2>5, <4>1
      <4>2. CASE i # 1
        <5>1. i - 1 \in 1..n /\ 1 + (i - 1) = i
          BY <2>4, <4>2
        <5> QED
          BY <2>5, <3>1, <5>1 DEF Waiting
      <4> QED
        BY <4>1, <4>2
    <3>3. 1 \in 1..(1 + n) /\ \A i \in 1..n : 1 + i \in 1..(1 + n)
      BY <2>4
    <3> QED
      BY <2>5, <3>1, <3>2, <3>3 DEF Waiting
  <2> QED
    BY <1>3, <2>2, <2>4, <2>6, <2>7, <2>8, <2>9 DEF Service!InLine
<1> QED
  BY <1>1, <1>2, <1>3

\* What leaves the variables of a mapped state alone leaves the mapped state alone.
LEMMA BarsStay ==
  /\ UNCHANGED <<spc, cur, backlog>> => UNCHANGED <<SrvBar, LineBar>>
  /\ UNCHANGED <<spc, job>> => UNCHANGED DoingBar
  /\ UNCHANGED <<spc, cur, backlog, up>> => UNCHANGED DueBar
  /\ UNCHANGED cli => UNCHANGED UserBar
BY DEF SrvBar, LineBar, Serving, DoingBar, DueBar, DueOf, Waiting, UserBar

\* One client goes somewhere else.
LEMMA UserMoves ==
  ASSUME TypeOK, NEW c \in Clients, NEW a, cli' = [cli EXCEPT ![c] = a]
  PROVE  /\ UserBar' = [UserBar EXCEPT ![c] = UserOf(a)]
         /\ UserBar[c] = UserOf(cli[c])
BY DEF TypeOK, UserBar

LEMMA UserIs ==
  /\ UserOf("off") = "off" /\ UserOf("prompt") = "free" /\ UserOf("wait") = "calls"
  /\ UserOf("left") = "gone" /\ UserOf("failed") = "gone" /\ UserOf("killed") = "gone"
BY DEF UserOf

\* When the server leaves its loop nobody is in line and nothing is due.
LEMMA Closing ==
  ASSUME ~Serving', spc' # "boot"
  PROVE  Service!Closes
<1>1. spc' \notin {"accept", "recv", "fork", "run", "reply"}
  BY DEF Serving
<1>2. SrvBar' = "closed" /\ LineBar' = <<>> /\ DoingBar' = "none"
  BY <1>1 DEF SrvBar, LineBar, DoingBar, Serving
<1>3. DueBar' = [c \in Clients |-> "none"]
  BY <1>1 DEF DueBar, DueOf, Serving
<1> QED
  BY <1>2, <1>3 DEF Service!Closes

LEMMA ServiceInit == Init => Service!Init
BY ConstantsAssumption
   DEF Init, Service!Init, SrvBar, LineBar, Serving, UserBar, UserOf, DueBar, DueOf, DoingBar

\* The actions of a client that only it and its user notice.
LEMMA ServiceOfUser ==
  ASSUME TypeOK, InLockstep, NEW c \in Clients,
         ConnectFails(c) \/ SendFails(c) \/ SendKills(c) \/ Leave(c) \/ Kill(c)
  PROVE  Service!Next
<1>1. UNCHANGED <<SrvBar, LineBar, DueBar, DoingBar>>
  <2>1. UNCHANGED <<spc, cur, backlog, job, up>>
    BY DEF ConnectFails, SendFails, SendKills, Leave, Kill, serverVars
  <2> QED
    BY <2>1, BarsStay
<1>2. UserBar' = [UserBar EXCEPT ![c] = "gone"] /\ UserBar[c] = UserOf(cli[c])
  BY UserMoves, UserIs DEF ConnectFails, SendFails, SendKills, Leave, Kill
<1>3. CASE ConnectFails(c)
  <2>1. UserBar[c] = "off"
    BY <1>2, <1>3, UserIs DEF ConnectFails
  <2>2. SrvBar # "open"
    BY <1>3 DEF ConnectFails, Listening, SrvBar, Serving
  <2>3. Service!Refused(c)
    BY <1>1, <1>2, <2>1, <2>2 DEF Service!Refused
  <2> QED
    BY <2>3 DEF Service!Next
<1>4. CASE SendFails(c) \/ SendKills(c) \/ Leave(c)
  <2>1. UserBar[c] = "free"
    BY <1>2, <1>4, UserIs DEF SendFails, SendKills, Leave
  <2>2. Service!Quit(c)
    BY <1>1, <1>2, <2>1 DEF Service!Quit
  <2> QED
    BY <2>2 DEF Service!Next
<1>5. CASE Kill(c)
  <2>1. cli[c] \in {"prompt", "wait"} /\ c \in Mortal
    BY <1>5 DEF Kill, InLockstep, Sync
  <2>2. UserBar[c] \in {"free", "calls"}
    BY <1>2, <2>1, UserIs
  <2>3. Service!Kill(c)
    BY <1>1, <1>2, <2>1, <2>2 DEF Service!Kill
  <2> QED
    BY <2>3 DEF Service!Next
<1> QED
  BY <1>3, <1>4, <1>5

\* A client that connects is the last in line.
LEMMA ServiceOfConnect ==
  ASSUME TypeOK, Sockets, InLockstep, NEW c \in Clients, Connect(c)
  PROVE  Service!Next
<1>1. /\ cli[c] = "off" /\ cli' = [cli EXCEPT ![c] = "prompt"] /\ Len(backlog) < Backlog
      /\ backlog' = Append(backlog, c) /\ spc # "boot"
      /\ UNCHANGED <<spc, cur, job, up>>
  BY DEF Connect, Listening
<1>2. UserBar' = [UserBar EXCEPT ![c] = "free"] /\ UserBar[c] = "off"
  BY <1>1, UserMoves, UserIs
<1>3. UNCHANGED <<SrvBar, DoingBar>>
  BY <1>1 DEF SrvBar, DoingBar, Serving
<1>4. UNCHANGED DueBar
  <2>1. up[c] = <<>>
    BY <1>1 DEF InLockstep, Sync
  <2>2. Waiting' = Waiting \cup {c}
    <3>1. PICK n \in Nat : n = Len(backlog) /\ DOMAIN backlog = 1..n
      BY DEF TypeOK
    <3>2. PICK b : b = backlog'
      OBVIOUS
    <3>3. DOMAIN b = 1..(n + 1) /\ b[n + 1] = c /\ \A i \in 1..n : b[i] = backlog[i]
      BY <1>1, <3>1, <3>2 DEF TypeOK
    <3>4. \A i \in 1..(n + 1) : i \in 1..n \/ i = n + 1
      BY <3>1
    <3>5. n + 1 \in 1..(n + 1) /\ \A i \in 1..n : i \in 1..(n + 1)
      BY <3>1
    <3> QED
      BY <3>1, <3>2, <3>3, <3>4, <3>5 DEF Waiting
  <2>3. \A d \in Clients : DueOf(d)' = DueOf(d)
    BY <1>1, <2>1, <2>2 DEF DueOf, Serving
  <2> QED
    BY <2>3 DEF DueBar
<1>5. LineBar' = IF SrvBar = "open" THEN Append(LineBar, c) ELSE LineBar
  <2>1. CASE ~Serving
    <3>1. LineBar' = <<>> /\ LineBar = <<>> /\ SrvBar # "open"
      BY <1>1, <2>1 DEF LineBar, Serving, SrvBar
    <3> QED
      BY <3>1
  <2>2. CASE Serving /\ cur = Nobody
    <3>1. LineBar' = backlog' /\ LineBar = backlog /\ SrvBar = "open"
      BY <1>1, <2>2 DEF LineBar, Serving, SrvBar
    <3> QED
      BY <1>1, <3>1
  <2>3. CASE Serving /\ cur # Nobody
    <3>1. LineBar' = <<cur>> \o backlog' /\ LineBar = <<cur>> \o backlog /\ SrvBar = "open"
      BY <1>1, <2>3 DEF LineBar, Serving, SrvBar
    <3>2. <<cur>> \o Append(backlog, c) = Append(<<cur>> \o backlog, c)
      <4>1. backlog \in Seq(Clients) /\ cur \in Clients
        BY <2>3 DEF TypeOK
      <4> QED
        BY <4>1
    <3> QED
      BY <1>1, <3>1, <3>2
  <2> QED
    BY <2>1, <2>2, <2>3
<1>6. Len(LineBar) <= Backlog
  <2>1. Len(backlog) \in Nat /\ Backlog \in Nat
    BY ConstantsAssumption DEF TypeOK
  <2>2. Len(LineBar) = 0 \/ Len(LineBar) = Len(backlog) \/ Len(LineBar) = Len(backlog) + 1
    <3>1. CASE ~Serving
      <4>1. LineBar = <<>>
        BY <3>1, LineIs
      <4> QED
        BY <4>1
    <3>2. CASE Serving
      BY <3>2, LineIs
    <3> QED
      BY <3>1, <3>2
  <2>3. PICK n \in Nat : n = Len(backlog)
    BY <2>1
  <2>4. n < Backlog
    BY <1>1, <2>3
  <2>5. Len(LineBar) \in {0, n, n + 1}
    BY <2>2, <2>3
  <2> QED
    BY <2>1, <2>3, <2>4, <2>5
<1>7. SrvBar # "new"
  BY <1>1 DEF SrvBar
<1>8. Service!Join(c)
  BY <1>2, <1>3, <1>4, <1>5, <1>6, <1>7 DEF Service!Join
<1> QED
  BY <1>8 DEF Service!Next

\* A request becomes a call that is due, if the server will read it.
LEMMA ServiceOfSend ==
  ASSUME TypeOK, Sockets, InLockstep, NEW c \in Clients, NEW k \in Kinds, Send(c, k)
  PROVE  Service!Next
<1>1. /\ cli[c] = "prompt" /\ cli' = [cli EXCEPT ![c] = "wait"]
      /\ UNCHANGED <<spc, cur, job, backlog>>
  BY DEF Send, serverVars
<1>2. UserBar' = [UserBar EXCEPT ![c] = "calls"] /\ UserBar[c] = "free"
  BY <1>1, UserMoves, UserIs
<1>3. UNCHANGED <<SrvBar, LineBar, DoingBar>>
  BY <1>1, BarsStay
<1>4. Service!InLine(c) <=> Serving /\ (c = cur \/ c \in Waiting)
  BY LineIs
<1>5. DueBar' = IF Service!InLine(c) THEN [DueBar EXCEPT ![c] = k] ELSE DueBar
  <2>1. Serving' = Serving /\ Waiting' = Waiting /\ cur' = cur
    BY <1>1 DEF Serving, Waiting
  <2>2. CASE sOpen[c]
    <3>1. up[c] = <<>>
      BY <1>1, <2>2 DEF InLockstep, Sync, Stays
    <3>2. up' = [up EXCEPT ![c] = <<>> \o Request(nsent[c] + 1, k)]
      BY <2>2, <3>1 DEF Send
    <3>3. <<>> \o Request(nsent[c] + 1, k) = Request(nsent[c] + 1, k)
      <4>1. nsent[c] + 1 \in Nat /\ k \in AllKinds
        BY ConstantsAssumption DEF TypeOK
      <4>2. Request(nsent[c] + 1, k) \in UpStream
        BY <4>1, RequestIs
      <4> QED
        BY <4>2 DEF UpStream
    <3>4. PICK r : r = Request(nsent[c] + 1, k)
      OBVIOUS
    <3>5. r # <<>> /\ r[1].kind = k
      BY <3>4 DEF Request, Half
    <3>6. \A d \in Clients : up'[d] = IF d = c THEN r ELSE up[d]
      BY <3>2, <3>3, <3>4 DEF TypeOK
    <3>7. "none" \notin Kinds
      BY ConstantsAssumption DEF AllKinds
    <3>8. \A d \in Clients :
            DueOf(d)' = IF d = c /\ Service!InLine(c) THEN k ELSE DueOf(d)
      BY <1>4, <2>1, <3>1, <3>5, <3>6 DEF DueOf
    <3> QED
      BY <3>8 DEF DueBar
  <2>3. CASE ~sOpen[c]
    <3>1. up' = up /\ ~Service!InLine(c)
      BY <1>4, <2>3 DEF Send, Sockets
    <3> QED
      BY <1>1, <3>1, BarsStay
  <2> QED
    BY <2>2, <2>3
<1>6. Service!Call(c, k)
  BY <1>2, <1>3, <1>5 DEF Service!Call
<1> QED
  BY <1>6 DEF Service!Next

\* A client that is back at its prompt, or that leaves, has had its answer, or
\* has lost the server.
LEMMA ServiceOfReturn ==
  ASSUME TypeOK, Sockets, InLockstep, NEW c \in Clients, Receive(c) \/ ReceiveEnds(c)
  PROVE  Service!Next \/ UNCHANGED Service!vars
<1>1. UNCHANGED <<spc, cur, backlog, job, up>> /\ cli[c] = "wait"
  BY DEF Receive, ReceiveEnds, serverVars
<1>2. UNCHANGED <<SrvBar, LineBar, DueBar, DoingBar>>
  BY <1>1, BarsStay
<1>3. UserBar[c] = "calls"
  BY <1>1, UserIs DEF UserBar
<1>4. PICK a \in {"left", "prompt", "wait"} :
        cli' = [cli EXCEPT ![c] = a] /\ (a = "wait" \/ ~sOpen[c] \/ (up[c] = <<>> /\ ~Working(c)))
  <2>1. CASE ReceiveEnds(c)
    BY <2>1 DEF ReceiveEnds
  <2>2. CASE Receive(c)
    <3>1. PICK n \in DownCuts(down[c]), a \in {"left", "prompt", "wait"} :
            /\ cli' = [cli EXCEPT ![c] = a]
            /\ a # "wait" => EndsWithEot(Front(down[c], n))
      <4>1. PICK n \in DownCuts(down[c]) :
              LET chunk == Front(down[c], n) IN
              \/ IsExitMessage(chunk) /\ cli' = [cli EXCEPT ![c] = "left"]
              \/ cli' = [cli EXCEPT ![c] = IF EndsWithEot(chunk) THEN "prompt" ELSE "wait"]
        BY <2>2 DEF Receive
      <4>2. \A chunk : IsExitMessage(chunk) => EndsWithEot(chunk)
        BY DEF IsExitMessage, EndsWithEot
      <4> QED
        BY <4>1, <4>2
    <3>2. n \in 1..Len(down[c]) /\ down[c] \in DownStream
      BY DEF DownCuts, TypeOK
    <3>3. CASE a # "wait" /\ sOpen[c]
      <4>1. down[c] # <<>>
        BY <3>2 DEF DownStream
      <4>2. ~Pending(down[c])
        BY <3>1, <3>2, <3>3, PendingRest
      <4>3. Connected(c)
        BY <1>1, <3>3 DEF Connected, InLockstep, Sync
      <4> QED
        BY <1>1, <3>1, <4>1, <4>2, <4>3 DEF InLockstep, Sync
    <3> QED
      BY <3>1, <3>3
  <2> QED
    BY <2>1, <2>2
<1>5. UserBar' = [UserBar EXCEPT ![c] = UserOf(a)]
  BY <1>4, UserMoves
<1>6. CASE a = "wait"
  <2>1. UserBar' = UserBar
    BY <1>3, <1>5, <1>6, UserIs DEF UserBar
  <2> QED
    BY <1>2, <2>1 DEF Service!vars
<1>7. CASE a # "wait"
  <2>1. UserOf(a) \in {"free", "gone"}
    BY <1>7, UserIs
  <2>2. ASSUME Service!InLine(c) PROVE DueBar[c] = "none" /\ (c = Head(LineBar) => DoingBar = "none")
    <3>1. Serving /\ (c = cur \/ c \in Waiting) /\ sOpen[c]
      BY <2>2, LineIs DEF Sockets
    <3>2. up[c] = <<>> /\ ~Working(c)
      BY <1>4, <1>7, <3>1
    <3>3. DueBar[c] = "none"
      BY <3>2 DEF DueBar, DueOf
    <3>4. ASSUME c = Head(LineBar) PROVE DoingBar = "none"
      <4>1. CASE cur \in Clients
        <5>1. c = cur
          BY <3>1, <3>4, <4>1, LineIs
        <5> QED
          BY <3>2, <5>1 DEF Working, DoingBar
      <4>2. CASE cur \notin Clients
        BY <4>2 DEF DoingBar, TypeOK
      <4> QED
        BY <4>1, <4>2
    <3> QED
      BY <3>3, <3>4
  <2>3. Service!Return(c)
    BY <1>2, <1>3, <1>5, <2>1, <2>2 DEF Service!Return, Service!Served
  <2> QED
    BY <2>3 DEF Service!Next
<1> QED
  BY <1>6, <1>7

\* Nobody connects before the server listens.
NoEarlyBird == spc = "boot" => backlog = <<>>

LEMMA EarlyBirdStep == NoEarlyBird /\ [Next]_vars => NoEarlyBird'
<1> SUFFICES ASSUME NoEarlyBird, [Next]_vars, spc' = "boot" PROVE backlog' = <<>>
  BY DEF NoEarlyBird
<1>1. ASSUME NEW c \in Clients, ClientLoop(c) \/ User(c) \/ Kill(c)
      PROVE  spc = "boot" /\ backlog' = backlog
  BY <1>1 DEF ClientLoop, User, Receive, ReceiveEnds, Connect, ConnectFails, Leave,
              SendFails, SendKills, Send, Kill, serverVars, Listening
<1>2. ~Server
  BY DEF Server, Boot, Accept, AcceptNoMemory, AcceptFails, Shutdown, RequestReceived,
         ClientGone, Fork, ForkFails, Reply, ReplyFails, ReplyKills, NamelessKills, ServerDies,
         CloseLast, NextAfter
<1>3. ~Program
  BY DEF Program, Write, ReadStdin, PipelineEnds
<1>4. CASE UNCHANGED vars
  BY <1>4 DEF vars, serverVars, NoEarlyBird
<1> QED
  BY <1>1, <1>2, <1>3, <1>4 DEF Next, NoEarlyBird

LEMMA ServiceOfBoot ==
  ASSUME TypeOK, NoEarlyBird, Boot
  PROVE  Service!Next
<1>1. /\ UNCHANGED <<cli, backlog, cur, up, job>>
      /\ spc = "boot" /\ backlog = <<>> /\ cur \notin Clients
      /\ spc' = "accept" \/ (Faults /\ spc' = "stopped")
  BY DEF Boot, clientVars, NoEarlyBird, TypeOK
<1>2. /\ UserBar' = UserBar
      /\ SrvBar = "new" /\ LineBar = <<>> /\ DoingBar = "none"
  BY <1>1, BarsStay DEF SrvBar, Serving, LineBar, DoingBar
<1>3. CASE spc' = "accept"
  <2>1. SrvBar' = "open" /\ DoingBar' = "none" /\ LineBar' = <<>>
    BY <1>1, <1>3 DEF SrvBar, Serving, DoingBar, LineBar, TypeOK
  <2>2. \A c \in Clients : c # cur /\ c \notin Waiting /\ c # cur' /\ c \notin Waiting'
    BY <1>1 DEF Waiting
  <2>3. DueBar' = DueBar
    BY <2>2 DEF DueBar, DueOf
  <2>4. Service!Start
    BY <1>2, <2>1, <2>3 DEF Service!Start
  <2> QED
    BY <2>4 DEF Service!Next
<1>4. CASE Faults /\ spc' = "stopped"
  <2>1. Service!Closes
    BY <1>4, Closing DEF Serving
  <2>2. Service!Fail
    BY <1>2, <1>4, <2>1 DEF Service!Fail
  <2> QED
    BY <2>2 DEF Service!Next
<1> QED
  BY <1>1, <1>3, <1>4

\* What the users do not notice: accept() of the first in line, fork(), the
\* output of programs and their end, and the way out of the server.
LEMMA ServiceRests ==
  ASSUME TypeOK, Accept \/ Fork \/ PipelineEnds \/ Shutdown \/ CloseLast \/ UNCHANGED vars
                   \/ \E t \in Texts : Write(t)
  PROVE  UNCHANGED Service!vars
<1>1. CASE Accept
  <2>1. /\ UNCHANGED <<cli, up, job>> /\ spc = "accept" /\ spc' = "recv" /\ cur = Nobody
        /\ backlog # <<>> /\ cur' = Head(backlog) /\ backlog' = Tail(backlog)
    BY <1>1 DEF Accept, clientVars, TypeOK
  <2>2. UNCHANGED <<UserBar, SrvBar, DoingBar>>
    BY <2>1, BarsStay DEF SrvBar, Serving, DoingBar
  <2>3. backlog \in Seq(Clients) /\ Head(backlog) \in Clients
    BY <2>1 DEF TypeOK
  <2>4. LineBar = backlog /\ LineBar' = <<Head(backlog)>> \o Tail(backlog)
    BY <2>1, <2>3, ConstantsAssumption DEF LineBar, Serving
  <2>5. <<Head(backlog)>> \o Tail(backlog) = backlog
    BY <2>1, <2>3
  <2>6. \A c \in Clients : c = cur' \/ c \in Waiting' <=> c = cur \/ c \in Waiting
    <3>1. \A c \in Clients : c = cur' \/ c \in Waiting' <=> c \in Waiting
      <4>1. PICK n \in Nat : n = Len(backlog) /\ DOMAIN backlog = 1..n /\ n > 0
        BY <2>1, <2>3
      <4>2. PICK t : t = Tail(backlog)
        OBVIOUS
      <4>3. /\ DOMAIN t = 1..(n - 1) /\ \A i \in 1..(n - 1) : t[i] = backlog[i + 1]
            /\ Head(backlog) = backlog[1]
        BY <2>1, <2>3, <4>1, <4>2
      <4>4. Waiting' = {t[i] : i \in 1..(n - 1)}
        BY <2>1, <4>2, <4>3 DEF Waiting
      <4>5. \A i \in 1..(n - 1) : i + 1 \in 1..n
        BY <4>1
      <4>6. \A i \in 1..n : i = 1 \/ (i - 1 \in 1..(n - 1) /\ (i - 1) + 1 = i)
        BY <4>1
      <4>7. ASSUME NEW i \in 1..n, i # 1 PROVE backlog[i] \in Waiting'
        <5>1. i - 1 \in 1..(n - 1) /\ t[i - 1] = backlog[i]
          BY <4>3, <4>6, <4>7
        <5> QED
          BY <4>4, <5>1
      <4>8. 1 \in 1..n
        BY <4>1
      <4>9. Waiting = {backlog[i] : i \in 1..n}
        BY <4>1 DEF Waiting
      <4>10. cur' = backlog[1]
        BY <2>1, <4>3
      <4>11. ASSUME NEW c \in Waiting PROVE c = cur' \/ c \in Waiting'
        BY <4>7, <4>9, <4>10, <4>11
      <4>12. ASSUME NEW c \in Waiting' PROVE c \in Waiting
        BY <4>3, <4>4, <4>5, <4>9, <4>12
      <4>13. cur' \in Waiting
        BY <4>8, <4>9, <4>10
      <4> QED
        BY <4>11, <4>12, <4>13
    <3>2. \A c \in Clients : c # cur
      BY <2>1, ConstantsAssumption
    <3> QED
      BY <3>1, <3>2
  <2>7. UNCHANGED DueBar
    <3>1. \A c \in Clients : DueOf(c)' = DueOf(c)
      BY <2>1, <2>6 DEF DueOf, Serving
    <3> QED
      BY <3>1 DEF DueBar
  <2> QED
    BY <2>2, <2>4, <2>5, <2>7 DEF Service!vars
<1>2. CASE Fork \/ PipelineEnds \/ \E t \in Texts : Write(t)
  <2>1. /\ UNCHANGED <<cli, up, job, cur, backlog>>
        /\ spc \in {"fork", "run"} /\ spc' \in {"run", "reply"}
    BY <1>2 DEF Fork, PipelineEnds, Write, clientVars
  <2>2. UNCHANGED <<UserBar, SrvBar, DoingBar, LineBar>>
    BY <2>1, BarsStay DEF SrvBar, Serving, DoingBar, LineBar
  <2>3. UNCHANGED DueBar
    BY <2>1 DEF DueBar, DueOf, Serving, Waiting
  <2> QED
    BY <2>2, <2>3 DEF Service!vars
<1>3. CASE Shutdown \/ CloseLast
  <2>1. UNCHANGED cli /\ spc \in {"shutdown", "close"} /\ spc' \in {"stopped", "shutdown"}
    BY <1>3 DEF Shutdown, CloseLast
  <2>2. UNCHANGED <<UserBar, SrvBar, DoingBar, LineBar>>
    BY <2>1, BarsStay DEF SrvBar, Serving, DoingBar, LineBar
  <2>3. UNCHANGED DueBar
    BY <2>1 DEF DueBar, DueOf, Serving
  <2> QED
    BY <2>2, <2>3 DEF Service!vars
<1>4. CASE UNCHANGED vars
  <2>1. UNCHANGED <<spc, cur, backlog, up, job, cli>>
    BY <1>4 DEF vars, clientVars, serverVars
  <2> QED
    BY <2>1, BarsStay DEF Service!vars
<1> QED
  BY <1>1, <1>2, <1>3, <1>4

\* The server leaves its loop because a call of it fails, or dies with a client
\* that was killed or of a line without a name.
LEMMA ServiceFails ==
  ASSUME TypeOK, InLockstep, AcceptFails \/ ForkFails \/ ReplyKills \/ NamelessKills
  PROVE  Service!Next
<1>1. UserBar' = UserBar
  BY BarsStay DEF AcceptFails, ForkFails, ReplyKills, NamelessKills, ServerDies, clientVars
<1>2. Service!Closes
  BY Closing DEF AcceptFails, ForkFails, ReplyKills, NamelessKills, ServerDies, Serving
<1>3. CASE AcceptFails \/ ForkFails
  <2>1. Faults /\ SrvBar # "closed"
    BY <1>3 DEF AcceptFails, ForkFails, SrvBar, Serving
  <2>2. Service!Fail
    BY <1>1, <1>2, <2>1 DEF Service!Fail
  <2> QED
    BY <2>2 DEF Service!Next
<1>4. CASE ReplyKills
  <2>1. spc = "reply" /\ cur \in Clients /\ sFault[cur] = "reset"
    BY <1>4 DEF ReplyKills, TypeOK
  <2>2. cur \in Mortal /\ cli[cur] = "killed"
    BY <2>1 DEF InLockstep, Sync, Working, Stays
  <2>3. UserBar[cur] = "gone"
    BY <2>1, <2>2, UserIs DEF UserBar
  <2>4. Head(LineBar) = cur
    BY <2>1, LineIs DEF Serving
  <2>5. DoingBar # "none"
    <3>1. job.kind \in AllKinds
      BY DEF TypeOK
    <3> QED
      BY <2>1, <3>1 DEF DoingBar, AllKinds
  <2>6. Service!Die
    BY <1>1, <1>2, <2>2, <2>3, <2>4, <2>5 DEF Service!Die, Service!Served
  <2> QED
    BY <2>6 DEF Service!Next
<1>5. CASE NamelessKills
  <2>1. DoingBar = "pipes"
    BY <1>5 DEF NamelessKills, DoingBar
  <2>2. Service!Crash
    BY <1>1, <1>2, <2>1 DEF Service!Crash
  <2> QED
    BY <2>2 DEF Service!Next
<1> QED
  BY <1>3, <1>4, <1>5

\* The server takes up the call that is due for the client it serves.
LEMMA ServiceBegins ==
  ASSUME TypeOK, Sockets, Whole, InLockstep, RequestReceived
  PROVE  Service!Next
<1>1. /\ spc = "recv" /\ cur \in Clients
      /\ UNCHANGED <<cli, cur, backlog>>
  BY DEF RequestReceived, TypeOK, clientVars
<1>2. PICK n \in UpCuts(up[cur]) :
        LET chunk == Front(up[cur], n) IN
        /\ up' = [up EXCEPT ![cur] = Rest(up[cur], n)]
        /\ \/ ~EndsWithNul(chunk)
           \/ \E k \in Parsed(chunk) :
                /\ job' = [kind |-> k, id |-> chunk[1].id, who |-> cur]
                /\ spc' = IF k \in {"pipeline", "reader", "pipes"} THEN "fork" ELSE "reply"
  BY DEF RequestReceived
<1>3. n \in 1..Len(up[cur]) /\ up[cur] \in UpStream
  BY <1>1 DEF UpCuts, TypeOK
<1>4. up[cur] # <<>>
  BY <1>3 DEF UpStream
<1>5. PICK k \in Kinds : up[cur] = Request(nsent[cur], k)
  BY <1>1, <1>4 DEF InLockstep, Sync
<1>6. nsent[cur] \in Nat /\ k \in AllKinds /\ ~Split
  BY <1>1, ConstantsAssumption DEF TypeOK, Whole
<1>7. LET chunk == Front(up[cur], n) IN
      Rest(up[cur], n) = <<>> /\ EndsWithNul(chunk) /\ Parsed(chunk) = {k}
  BY <1>5, <1>6, WholeRequest
<1>8. /\ up' = [up EXCEPT ![cur] = <<>>] /\ job'.kind = k /\ spc' \in {"fork", "reply"}
  BY <1>2, <1>7
<1>9. UNCHANGED <<UserBar, SrvBar, LineBar>>
  BY <1>1, <1>8, BarsStay DEF SrvBar, Serving, LineBar
<1>10. LineBar # <<>> /\ Head(LineBar) = cur
  BY <1>1, LineIs DEF Serving
<1>11. DoingBar = "none" /\ DoingBar' = k
  BY <1>1, <1>8 DEF DoingBar
<1>12. DueBar[cur] = k
  <2>1. up[cur][1].kind = k
    BY <1>5 DEF Request, Half
  <2> QED
    BY <1>1, <1>4, <2>1 DEF DueBar, DueOf, Serving
<1>13. k # "none"
  BY <1>6 DEF AllKinds
<1>14. DueBar' = [DueBar EXCEPT ![cur] = "none"]
  <2>1. \A d \in Clients : up'[d] = IF d = cur THEN <<>> ELSE up[d]
    BY <1>8 DEF TypeOK
  <2>2. Serving /\ Serving' /\ Waiting' = Waiting
    BY <1>1, <1>8 DEF Serving, Waiting
  <2>3. \A d \in Clients : DueOf(d)' = IF d = cur THEN "none" ELSE DueOf(d)
    BY <1>1, <2>1, <2>2 DEF DueOf
  <2> QED
    BY <2>3 DEF DueBar
<1>15. Service!Begin
  BY <1>9, <1>10, <1>11, <1>12, <1>13, <1>14 DEF Service!Begin, Service!Idle, Service!Served
<1> QED
  BY <1>15 DEF Service!Next

\* The last send of an answer, or one that fails, ends the call.
LEMMA ServiceEnds ==
  ASSUME TypeOK, Reply \/ ReplyFails
  PROVE  Service!Next \/ UNCHANGED Service!vars
<1>1. /\ UNCHANGED <<cli, cur, backlog, up, job>> /\ spc = "reply"
      /\ spc' = NextAfter(reply')
  BY DEF Reply, ReplyFails, clientVars
<1>2. UserBar' = UserBar
  BY <1>1, BarsStay
<1>3. DoingBar = job.kind /\ job.kind # "none"
  <2>1. job.kind \in AllKinds
    BY DEF TypeOK
  <2> QED
    BY <1>1, <2>1 DEF DoingBar, AllKinds
<1>4. CASE reply' # <<>>
  <2>1. spc' = spc
    BY <1>1, <1>4 DEF NextAfter
  <2> QED
    BY <1>1, <2>1, BarsStay DEF Service!vars
<1>5. CASE reply' = <<>> /\ job.kind = "stop"
  <2>1. spc' = "close"
    BY <1>1, <1>5 DEF NextAfter
  <2>2. Service!Closes
    BY <2>1, Closing DEF Serving
  <2>3. Service!Stop
    BY <1>2, <1>3, <1>5, <2>2 DEF Service!Stop
  <2> QED
    BY <2>3 DEF Service!Next
<1>6. CASE reply' = <<>> /\ job.kind # "stop"
  <2>1. spc' = "recv"
    BY <1>1, <1>6 DEF NextAfter
  <2>2. UNCHANGED <<SrvBar, LineBar, DueBar>> /\ DoingBar' = "none"
    <3>1. Serving' /\ Serving
      BY <1>1, <2>1 DEF Serving
    <3> QED
      BY <1>1, <2>1, <3>1 DEF SrvBar, LineBar, DueBar, DueOf, Waiting, DoingBar
  <2>3. Service!End
    BY <1>2, <1>3, <1>6, <2>2 DEF Service!End
  <2> QED
    BY <2>3 DEF Service!Next
<1> QED
  BY <1>4, <1>5, <1>6

\* The connection that was served, or for which there is no memory, is the first
\* in line, and those behind it move up.
LEMMA ServiceGoesOn ==
  ASSUME TypeOK, Sockets, InLockstep, ClientGone \/ AcceptNoMemory
  PROVE  Service!Next
<1>1. UNCHANGED cli /\ Serving /\ Serving' /\ DoingBar = "none" /\ DoingBar' = "none"
      /\ UNCHANGED SrvBar
  BY DEF ClientGone, AcceptNoMemory, clientVars, Serving, DoingBar, SrvBar
<1>2. UserBar' = UserBar
  BY <1>1, BarsStay
<1>3. CASE ClientGone
  <2>1. /\ cur \in Clients /\ up[cur] = <<>> /\ ~cOpen[cur] /\ cur' = Nobody /\ backlog' = backlog
        /\ ServerCloses({cur})
    BY <1>3 DEF ClientGone, TypeOK
  <2>2. LineBar # <<>> /\ Head(LineBar) = cur /\ LineBar' = Tail(LineBar)
    BY <1>1, <2>1, LineIs DEF LineBar
  <2>3. UserBar[cur] = "gone"
    <3>1. sOpen[cur] /\ cli[cur] # "off"
      BY <2>1 DEF Sockets
    <3>2. cli[cur] \in {"left", "failed", "killed"}
      BY <2>1, <3>1 DEF InLockstep, Sync, TypeOK
    <3> QED
      BY <2>1, <3>2, UserIs DEF UserBar
  <2>4. \A d \in Clients : up'[d] = up[d]
    BY <2>1 DEF ServerCloses
  <2>5. Waiting' = Waiting /\ \A d \in Clients : d # Nobody
    BY <2>1, ConstantsAssumption DEF Waiting
  <2>6. \A d \in Clients : DueOf(d)' = DueOf(d)
    BY <1>1, <2>1, <2>4, <2>5 DEF DueOf
  <2>7. DueBar' = DueBar /\ DueBar[cur] = "none"
    BY <2>1, <2>6 DEF DueBar, DueOf
  <2>8. Service!Part
    BY <1>1, <1>2, <2>2, <2>3, <2>7 DEF Service!Part, Service!Idle, Service!Served
  <2> QED
    BY <2>8 DEF Service!Next
<1>4. CASE AcceptNoMemory
  <2>1. /\ Faults /\ cur = Nobody /\ cur' = Nobody /\ backlog # <<>> /\ backlog' = Tail(backlog)
        /\ up' = up /\ Nobody \notin Clients
    BY <1>4, ConstantsAssumption DEF AcceptNoMemory, TypeOK
  <2>2. LineBar = backlog /\ LineBar' = Tail(backlog)
    BY <1>1, <2>1 DEF LineBar
  <2>3. Waiting' = Waiting \ {Head(backlog)}
    <3>1. Waiting' = Among(backlog')
      BY DEF Waiting, Among
    <3> QED
      BY <2>1, <3>1, OnceTail, WaitingIs DEF Sockets, TypeOK
  <2>4. \A d \in Clients : DueOf(d)' = IF d = Head(backlog) THEN "none" ELSE DueOf(d)
    BY <1>1, <2>1, <2>3 DEF DueOf
  <2>5. DueBar' = [DueBar EXCEPT ![Head(backlog)] = "none"]
    BY <2>4 DEF DueBar
  <2>6. Service!Forget
    BY <1>1, <1>2, <2>1, <2>2, <2>5 DEF Service!Forget, Service!Idle, Service!Served
  <2> QED
    BY <2>6 DEF Service!Next
<1> QED
  BY <1>3, <1>4

LEMMA ServiceStep ==
  ASSUME Whole, TypeOK, Sockets, InLockstep, NoEarlyBird, [Next]_vars
  PROVE  Service!Next \/ UNCHANGED Service!vars
<1>1. ASSUME NEW c \in Clients, ClientLoop(c) \/ User(c) \/ Kill(c)
      PROVE  Service!Next \/ UNCHANGED Service!vars
  BY <1>1, ServiceOfUser, ServiceOfConnect, ServiceOfSend, ServiceOfReturn DEF ClientLoop, User
<1>2. CASE Program
  BY <1>2, ServiceRests, NothingToRead DEF Program
<1>3. CASE Server
  BY <1>3, ServiceOfBoot, ServiceRests, ServiceFails, ServiceBegins, ServiceEnds, ServiceGoesOn
     DEF Server
<1>4. CASE UNCHANGED vars
  BY <1>4, ServiceRests
<1> QED
  BY <1>1, <1>2, <1>3, <1>4 DEF Next

\* If the network delivers whole sends and no program prints the end mark, the
\* client and server programs implement the service: every step of theirs is a
\* step of it or nothing that a user sees, for any number of clients and calls,
\* whichever clients are killed and whichever calls of the server fail.
THEOREM ImplementsService == Whole => (Spec => ServiceSpec)
<1> SUFFICES ASSUME Whole PROVE Spec => ServiceSpec
  OBVIOUS
<1>1. Init => /\ TypeOK /\ Sockets /\ InLockstep /\ NoEarlyBird
              /\ Service!Init
  BY TypeInit, SocketsInit, SyncInit, ServiceInit DEF NoEarlyBird, Init
<1>2. TypeOK /\ Sockets /\ InLockstep /\ NoEarlyBird /\ [Next]_vars
        => TypeOK' /\ Sockets' /\ InLockstep' /\ NoEarlyBird'
  BY TypeStep, SocketsStep, SyncStep, EarlyBirdStep
<1>3. TypeOK /\ Sockets /\ InLockstep /\ NoEarlyBird /\ [Next]_vars
        => [Service!Next]_Service!vars
  BY ServiceStep
<1> QED
  BY <1>1, <1>2, <1>3, PTL DEF Spec, ServiceSpec, Service!Spec
=============================================================================
