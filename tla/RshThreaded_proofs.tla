------------------------ MODULE RshThreaded_proofs ------------------------
(***************************************************************************)
(* Theorems about RshThreaded, for any number of clients, lines and        *)
(* requests.  That every thread serves the connection it was made for,     *)
(* that each request has one answer, and that nobody closes another's      *)
(* session, needs that no connection is accepted before the last thread    *)
(* has read the variable (~Burst); the types, and whose lines a thread     *)
(* executes, need no such assumption.                                      *)
(***************************************************************************)
EXTENDS RshThreaded, FiniteSetTheorems, SequenceTheorems, TLAPS

\* As much of TypeOK as the argument needs.
Shapes ==
  /\ DOMAIN cli = Clients
  /\ backlog \in Seq(Clients)
  /\ acc \in Seq(Clients)
  /\ cfd \in Nat
  /\ fdt \in [Fds -> Clients \cup {Nobody}]
  /\ tpc \in [Threads -> {"none", "born", "recv", "first", "load", "store",
                           "run", "reply", "gone", "lost"}]
  /\ tfd \in [Threads -> Nat]

\* A client connects once, so that no connection is there twice.
Once ==
  /\ \A i, j \in 1..Len(acc) : acc[i] = acc[j] => i = j
  /\ \A i, j \in 1..Len(backlog) : backlog[i] = backlog[j] => i = j
  /\ \A i \in 1..Len(acc), j \in 1..Len(backlog) : acc[i] # backlog[j]
  /\ \A i \in 1..Len(acc) : cli[acc[i]] # "off"
  /\ \A j \in 1..Len(backlog) : cli[backlog[j]] # "off"

\* Who stands for which connection: the variable from accept() until the
\* thread has read it, and then the thread's copy of it.
Creating ==
  mpc = "create" =>
    /\ Len(acc) > 0
    /\ cfd \in Fds /\ fdt[cfd] = acc[Len(acc)]
    /\ \A t \in Threads : tpc[t] # "none" => t < Len(acc) /\ tpc[t] # "born"

Unread ==
  \A t \in Threads :
    tpc[t] = "born" => t = Len(acc) /\ cfd \in Fds /\ fdt[cfd] = acc[t]

Made == \A t \in Threads : tpc[t] # "none" => t \in 1..Len(acc)

Own == \A t \in Threads : tpc[t] \in Serving => tfd[t] \in Fds /\ fdt[tfd[t]] = acc[t]

Inv == Shapes /\ Once /\ Creating /\ Unread /\ Made /\ Own

-----------------------------------------------------------------------------
LEMMA InitInv == Init => Inv
BY ConstantsAssumption DEF Init, Inv, Shapes, Once, Creating, Unread, Made, Own, Serving

\* A step that changes neither connections, descriptors nor threads, and lets no
\* client fall back to "off".
LEMMA ClientSteps ==
  ASSUME Inv,
         NEW c \in Clients, NEW to \in {"prompt", "wait", "left", "failed", "killed"},
         cli' = [cli EXCEPT ![c] = to],
         UNCHANGED <<mainVars, fdt, tpc, tfd>>
  PROVE  Inv'
BY DEF Inv, Shapes, Once, Creating, Unread, Made, Own, Serving, mainVars

\* A thread goes from one of its serving states to another.
LEMMA ServingSteps ==
  ASSUME Inv,
         NEW t \in Threads, NEW to \in Serving,
         tpc[t] \in Serving,
         tpc' = [tpc EXCEPT ![t] = to],
         UNCHANGED <<cli, mainVars, fdt, tfd>>
  PROVE  Inv'
BY DEF Inv, Shapes, Once, Creating, Unread, Made, Own, Serving, mainVars

LEMMA ConnectStep ==
  ASSUME Inv, NEW c \in Clients, Connect(c)
  PROVE  Inv'
<1>1. /\ Len(backlog') = Len(backlog) + 1
      /\ \A j \in 1..Len(backlog) : backlog'[j] = backlog[j]
      /\ backlog'[Len(backlog) + 1] = c
      /\ backlog' \in Seq(Clients)
  BY DEF Connect, Inv, Shapes
<1>2. \A i \in 1..Len(acc) : acc[i] \in Clients
  BY DEF Inv, Shapes
<1>3. \A j \in 1..Len(backlog) : backlog[j] \in Clients
  BY DEF Inv, Shapes
<1>4. Once'
  BY <1>1, <1>2, <1>3 DEF Connect, Inv, Shapes, Once
<1> QED
  BY <1>1, <1>4 DEF Connect, Inv, Shapes, Creating, Unread, Made, Own, Serving, threadVars

LEMMA EndStep ==
  ASSUME Inv, ServerEnds
  PROVE  Inv'
BY DEF ServerEnds, Inv, Shapes, Once, Creating, Unread, Made, Own, Serving, clientVars

LEMMA AcceptStep ==
  ASSUME ~Burst, Inv, Accept
  PROVE  Inv'
<1>1. PICK f \in Fds : fdt[f] = Nobody /\ cfd' = f /\ fdt' = [fdt EXCEPT ![f] = Head(backlog)]
  BY DEF Accept
<1>2. /\ Len(backlog) > 0
      /\ Head(backlog) = backlog[1]
      /\ backlog[1] \in Clients
      /\ Len(backlog') = Len(backlog) - 1
      /\ \A j \in 1..(Len(backlog) - 1) : backlog'[j] = backlog[j + 1]
      /\ backlog' \in Seq(Clients)
  BY DEF Accept, Inv, Shapes
<1>3. /\ Len(acc') = Len(acc) + 1
      /\ \A i \in 1..Len(acc) : acc'[i] = acc[i]
      /\ acc'[Len(acc) + 1] = backlog[1]
      /\ acc' \in Seq(Clients)
      /\ Len(acc) \in Nat
  BY <1>2 DEF Accept, Inv, Shapes
<1>4. UNCHANGED <<cli, tpc, tfd>> /\ mpc' = "create" /\ \A t \in Threads : tpc[t] # "born"
  BY DEF Accept, clientVars, threadVars
<1>5. Shapes'
  BY <1>1, <1>2, <1>3, <1>4 DEF Inv, Shapes, Fds
<1>6. Once'
  <2>1. \A i, j \in 1..Len(acc') : acc'[i] = acc'[j] => i = j
    BY <1>2, <1>3 DEF Inv, Once
  <2>2. \A i, j \in 1..Len(backlog') : backlog'[i] = backlog'[j] => i = j
    BY <1>2 DEF Inv, Once
  <2>3. \A i \in 1..Len(acc'), j \in 1..Len(backlog') : acc'[i] # backlog'[j]
    <3>1. SUFFICES ASSUME NEW i \in 1..Len(acc'), NEW j \in 1..Len(backlog')
                   PROVE  acc'[i] # backlog'[j]
      OBVIOUS
    <3>2. j + 1 \in 1..Len(backlog) /\ j + 1 # 1 /\ 1 \in 1..Len(backlog) /\ backlog'[j] = backlog[j + 1]
      BY <1>2
    <3>3. CASE i \in 1..Len(acc)
      BY <1>3, <3>2, <3>3 DEF Inv, Once
    <3>4. CASE i = Len(acc) + 1
      BY <1>3, <3>2, <3>4 DEF Inv, Once
    <3> QED
      BY <1>3, <3>3, <3>4
  <2>4. \A i \in 1..Len(acc') : cli'[acc'[i]] # "off"
    BY <1>2, <1>3, <1>4 DEF Inv, Once
  <2>5. \A j \in 1..Len(backlog') : cli'[backlog'[j]] # "off"
    BY <1>2, <1>4 DEF Inv, Once
  <2> QED
    BY <2>1, <2>2, <2>3, <2>4, <2>5 DEF Once
<1>7. Creating'
  BY <1>1, <1>2, <1>3, <1>4 DEF Inv, Shapes, Creating, Made, Threads
<1>8. Unread' /\ Made'
  BY <1>3, <1>4 DEF Inv, Unread, Made, Threads
<1>9. Own'
  <2>1. SUFFICES ASSUME NEW t \in Threads, tpc[t] \in Serving
                 PROVE  tfd[t] \in Fds /\ fdt'[tfd[t]] = acc'[t]
    BY <1>4 DEF Own
  <2>2. t \in 1..Len(acc) /\ tfd[t] \in Fds /\ fdt[tfd[t]] = acc[t] /\ acc[t] \in Clients
    BY <2>1 DEF Inv, Made, Own, Serving, Shapes
  <2>3. tfd[t] # f
    BY <1>1, <2>2, ConstantsAssumption
  <2> QED
    BY <1>1, <1>3, <2>2, <2>3 DEF Inv, Shapes
<1> QED
  BY <1>5, <1>6, <1>7, <1>8, <1>9 DEF Inv

\* pthread_create() made the thread of the last connection, or did not.
LEMMA CreateSteps ==
  ASSUME Inv, mpc = "create", mpc' = "accept",
         NEW to \in {"born", "lost"},
         tpc' = [tpc EXCEPT ![Len(acc)] = to],
         UNCHANGED <<cli, backlog, cfd, acc, fdt, tfd>>
  PROVE  Inv'
<1>1. /\ Len(acc) \in Nat /\ Len(acc) > 0
      /\ cfd \in Fds /\ fdt[cfd] = acc[Len(acc)]
      /\ \A t \in Threads : tpc[t] # "none" => t < Len(acc) /\ tpc[t] # "born"
  BY DEF Inv, Creating, Shapes
<1>2. Shapes' /\ Once' /\ Creating'
  BY DEF Inv, Shapes, Once, Creating
<1>3. \A t \in Threads : tpc'[t] = IF t = Len(acc) THEN to ELSE tpc[t]
  BY DEF Inv, Shapes
<1>4. Unread'
  BY <1>1, <1>3 DEF Unread
<1>5. Made'
  BY <1>1, <1>3 DEF Inv, Made
<1>6. Own'
  BY <1>1, <1>3 DEF Inv, Own, Serving
<1> QED
  BY <1>2, <1>4, <1>5, <1>6 DEF Inv

LEMMA StartStep ==
  ASSUME Inv, NEW t \in Threads, Start(t)
  PROVE  Inv'
BY DEF Start, Inv, Shapes, Once, Creating, Unread, Made, Own, Serving, clientVars, mainVars

LEMMA NoMemoryStep ==
  ASSUME Inv, NEW t \in Threads, NoMemory(t)
  PROVE  Inv'
BY DEF NoMemory, Inv, Shapes, Once, Creating, Unread, Made, Own, Serving, clientVars, mainVars

\* Closing the descriptor of one thread takes none from another, nor from the
\* connection whose thread has not yet read the variable.
LEMMA HangUpStep ==
  ASSUME Inv, NEW t \in Threads, tpc[t] \in Serving, HangUp(t)
  PROVE  Inv'
<1>1. /\ UNCHANGED <<cli, backlog, mpc, cfd, acc, tfd>>
      /\ tpc' = [tpc EXCEPT ![t] = "gone"]
      /\ fdt' = [fdt EXCEPT ![tfd[t]] = Nobody]
  BY DEF HangUp, clientVars, mainVars
<1>2. t \in 1..Len(acc) /\ tfd[t] \in Fds /\ fdt[tfd[t]] = acc[t]
  BY DEF Inv, Made, Own, Serving
<1>3. Shapes' /\ Once' /\ Made'
  BY <1>1, <1>2 DEF Inv, Shapes, Once, Made
<1>4. Creating'
  <2>1. SUFFICES ASSUME mpc = "create"
                 PROVE  /\ Len(acc) > 0
                        /\ cfd \in Fds /\ fdt'[cfd] = acc[Len(acc)]
                        /\ \A u \in Threads : tpc'[u] # "none" => u < Len(acc) /\ tpc'[u] # "born"
    BY <1>1 DEF Creating
  <2>2. /\ Len(acc) > 0 /\ t < Len(acc)
        /\ cfd \in Fds /\ fdt[cfd] = acc[Len(acc)]
        /\ \A u \in Threads : tpc[u] # "none" => u < Len(acc) /\ tpc[u] # "born"
    BY <2>1 DEF Inv, Creating, Serving
  <2>3. acc[t] # acc[Len(acc)]
    BY <1>2, <2>2 DEF Inv, Once, Shapes
  <2>4. cfd # tfd[t]
    BY <1>2, <2>2, <2>3
  <2> QED
    BY <1>1, <2>2, <2>4 DEF Inv, Shapes
<1>5. Unread'
  <2>1. SUFFICES ASSUME NEW u \in Threads, tpc'[u] = "born"
                 PROVE  u = Len(acc) /\ cfd \in Fds /\ fdt'[cfd] = acc[u]
    BY <1>1 DEF Unread
  <2>2. u # t /\ tpc[u] = "born"
    BY <1>1, <2>1 DEF Inv, Shapes
  <2>3. u = Len(acc) /\ cfd \in Fds /\ fdt[cfd] = acc[u] /\ u \in 1..Len(acc)
    BY <2>2 DEF Inv, Unread, Made
  <2>4. cfd # tfd[t]
    BY <1>2, <2>2, <2>3 DEF Inv, Once
  <2> QED
    BY <1>1, <2>3, <2>4 DEF Inv, Shapes
<1>6. Own'
  <2>1. SUFFICES ASSUME NEW u \in Threads, tpc'[u] \in Serving
                 PROVE  tfd[u] \in Fds /\ fdt'[tfd[u]] = acc[u]
    BY <1>1 DEF Own
  <2>2. u # t /\ tpc[u] \in Serving
    BY <1>1, <2>1 DEF Inv, Shapes, Serving
  <2>3. tfd[u] \in Fds /\ fdt[tfd[u]] = acc[u] /\ u \in 1..Len(acc)
    BY <2>2 DEF Inv, Own, Made, Serving
  <2>4. tfd[u] # tfd[t]
    BY <1>2, <2>2, <2>3 DEF Inv, Once
  <2> QED
    BY <1>1, <2>3, <2>4 DEF Inv, Shapes
<1> QED
  BY <1>3, <1>4, <1>5, <1>6 DEF Inv

-----------------------------------------------------------------------------
LEMMA ClientStepInv ==
  ASSUME Inv, NEW c \in Clients, ClientStep(c)
  PROVE  Inv'
<1>1. CASE Connect(c)
  BY <1>1, ConnectStep
<1>2. CASE \E l \in Lines : Send(c, l)
  BY <1>2, ClientSteps DEF Send, threadVars
<1>3. CASE Receive(c)
  <2>1. PICK to \in {"prompt", "wait", "left"} : cli' = [cli EXCEPT ![c] = to]
    BY <1>3 DEF Receive
  <2> QED
    BY <1>3, <2>1, ClientSteps DEF Receive, threadVars
<1>4. CASE SendFails(c)
  BY <1>4, ClientSteps DEF SendFails, threadVars
<1>5. CASE ReceiveEnds(c)
  BY <1>5, ClientSteps DEF ReceiveEnds, threadVars
<1>6. CASE Leave(c)
  BY <1>6, ClientSteps DEF Leave, threadVars
<1>7. CASE Kill(c)
  BY <1>7, ClientSteps DEF Kill, threadVars
<1> QED
  BY <1>1, <1>2, <1>3, <1>4, <1>5, <1>6, <1>7 DEF ClientStep

\* Nothing that the argument is about changes.
LEMMA Unchanged ==
  ASSUME Inv, UNCHANGED <<cli, mainVars, fdt, tpc, tfd>>
  PROVE  Inv'
BY DEF Inv, Shapes, Once, Creating, Unread, Made, Own, Serving, mainVars

-----------------------------------------------------------------------------
(* A call of strtok(), the first of a line or a later one.                 *)

\* A command is added, junk is refused, or there is no token.
TokenEnds(t, p, k, b) ==
  \/ k # NoToken /\ b \in Behind(p) /\ Adds(t, k, b)
  \/ k # NoToken /\ k = "junk" /\ b \in Behind(p) /\ Ends(t, k, b)
  \/ k = NoToken /\ b = <<p, {}>> /\ Ends(t, k, b)

LEMMA TokenCases ==
  ASSUME NEW t \in Threads, NEW p, Token(t, p)
  PROVE  \E k \in TokenAt(t, p) : \E b : TokenEnds(t, p, k, b)
BY DEF Token, TokenEnds

\* What it does to the thread, and to whom it owes.
TokenMoves(t) ==
  \/ tpc' = [tpc EXCEPT ![t] = "load"] /\ reply' = reply
  \/ \E to \in {"run", "reply"}, r \in {<<"eot">>, <<"exit", "eot">>} :
       tpc' = [tpc EXCEPT ![t] = to] /\ reply' = [reply EXCEPT ![t] = r]

LEMMA TokenLeaves ==
  ASSUME NEW t \in Threads, NEW p, Token(t, p)
  PROVE  /\ UNCHANGED <<cli, nsent, up, down, broken, backlog, mpc, cfd, acc, fdt, tfd, line>>
         /\ TokenMoves(t)
<1>1. PICK k \in TokenAt(t, p) : \E b : TokenEnds(t, p, k, b)
  BY TokenCases
<1>2. PICK b : TokenEnds(t, p, k, b)
  BY <1>1
<1>3. ASSUME Adds(t, k, b) PROVE TokenMoves(t)
  <2>1. tpc' = [tpc EXCEPT ![t] = "load"] /\ reply' = reply
    BY <1>3 DEF Adds
  <2> QED
    BY <2>1 DEF TokenMoves
<1>4. ASSUME Ends(t, k, b) PROVE TokenMoves(t)
  <2> DEFINE ok == k = NoToken
             mine == list[t] \in {<<"inline">>, <<"exit">>, <<"stop">>}
             to == IF ok /\ ~mine THEN "run" ELSE "reply"
             r == IF ok /\ list[t] \in {<<"exit">>, <<"stop">>} THEN <<"exit", "eot">> ELSE <<"eot">>
  <2>1. tpc' = [tpc EXCEPT ![t] = to] /\ reply' = [reply EXCEPT ![t] = r]
    BY <1>4 DEF Ends, EndOfList
  <2>2. to \in {"run", "reply"} /\ r \in {<<"eot">>, <<"exit", "eot">>}
    OBVIOUS
  <2> HIDE DEF to, r
  <2> QED
    BY <2>1, <2>2 DEF TokenMoves
<1>5. TokenMoves(t)
  BY <1>2, <1>3, <1>4 DEF TokenEnds
<1> QED
  BY <1>5 DEF Token, clientVars, mainVars

LEMMA TokenStep ==
  ASSUME Inv, NEW t \in Threads, NEW p, tpc[t] \in {"first", "store"}, Token(t, p)
  PROVE  Inv'
<1>1. tpc[t] \in Serving /\ UNCHANGED <<cli, mainVars, fdt, tfd>>
  BY TokenLeaves DEF Serving, mainVars
<1>2. PICK to \in {"run", "reply", "load"} : tpc' = [tpc EXCEPT ![t] = to]
  BY TokenLeaves DEF TokenMoves
<1>3. to \in Serving
  BY DEF Serving
<1> QED
  BY <1>1, <1>2, <1>3, ServingSteps

LEMMA ThreadStepInv ==
  ASSUME Inv, NEW t \in Threads, ThreadStep(t)
  PROVE  Inv'
<1>1. CASE Start(t)
  BY <1>1, StartStep
<1>2. CASE NoMemory(t)
  BY <1>2, NoMemoryStep
<1>3. CASE Recv(t)
  BY <1>3, ServingSteps DEF Recv, Serving, clientVars
<1>4. CASE PeerGone(t)
  BY <1>4, HangUpStep DEF PeerGone, Serving
<1>5. CASE TokFirst(t)
  BY <1>5, TokenStep DEF TokFirst
<1>6. CASE TokLoad(t)
  BY <1>6, ServingSteps DEF TokLoad, Serving, clientVars
<1>7. CASE TokStore(t)
  BY <1>7, TokenStep DEF TokStore
<1>8. CASE RunEnds(t)
  BY <1>8, ServingSteps DEF RunEnds, Serving, clientVars
<1>9. CASE Reply(t)
  BY <1>9, Unchanged DEF Reply, clientVars
<1>10. CASE Answered(t)
  <2>1. CASE HangUp(t)
    BY <1>10, <2>1, HangUpStep DEF Answered, Serving
  <2>2. CASE ~HangUp(t)
    BY <1>10, <2>2, ServingSteps DEF Answered, Serving, clientVars
  <2> QED
    BY <2>1, <2>2
<1> QED
  BY <1>1, <1>2, <1>3, <1>4, <1>5, <1>6, <1>7, <1>8, <1>9, <1>10 DEF ThreadStep

LEMMA NextInv ==
  ASSUME ~Burst, Inv, [Next]_vars
  PROVE  Inv'
<1>1. ASSUME NEW c \in Clients, ClientStep(c) PROVE Inv'
  BY <1>1, ClientStepInv
<1>2. CASE MainStep
  BY <1>2, AcceptStep, CreateSteps DEF MainStep, Create, CreateFails, clientVars
<1>3. ASSUME NEW t \in Threads, ThreadStep(t) PROVE Inv'
  BY <1>3, ThreadStepInv
<1>4. CASE Failure
  BY <1>4, EndStep DEF Failure, AcceptFails, ForkFails, ReplyKills
<1>5. CASE UNCHANGED vars
  BY <1>5, Unchanged DEF vars, clientVars, threadVars
<1> QED
  BY <1>1, <1>2, <1>3, <1>4, <1>5 DEF Next

LEMMA InvServed == Inv => ServedByOne
BY DEF Inv, Own, ServedByOne, Peer

\* A thread that serves has the descriptor of its own connection, open: no
\* descriptor that is closed and handed out again, by whichever thread, reaches a
\* thread it was not made for, as long as connections do not come at the same
\* moment.
THEOREM OneThreadEach ==
  ASSUME ~Burst
  PROVE  Spec => []ServedByOne
<1>1. Inv /\ [Next]_vars => Inv'
  BY NextInv
<1> QED
  BY InitInv, <1>1, InvServed, PTL DEF Spec

-----------------------------------------------------------------------------
(***************************************************************************)
(* Types.  A thread that is about to parse has a line, which recv() gave   *)
(* it; a position that is not lost is in a buffer that is being parsed,    *)
(* and not behind its line, so that there is a command where strtok()      *)
(* finds a token.  The thread of a new connection has never run.           *)
(***************************************************************************)
HasLine == \A t \in Threads : tpc[t] = "first" => line[t] # <<>>

NotYet == \A t \in Threads : tpc[t] # "none" => t <= Len(acc) /\ (mpc = "create" => t < Len(acc))

Placed(p) == p = Lost \/ (p[1] \in Parsing /\ p[2] <= Len(line[p[1]]))

InPlace ==
  /\ Placed(save)
  /\ \A t \in Threads : Placed(tok[t])
  /\ \A x \in cut : x[1] \in Parsing

Located == HasLine /\ NotYet /\ InPlace

Typed == TypeOK /\ Located

\* A line has a first command, and no more than CMD_MAX.
LEMMA LineFacts ==
  ASSUME NEW l \in Lines
  PROVE  l \in Seq(Commands) /\ Len(l) \in 1..CmdMax /\ l # <<>> /\ l[1] \in Commands
BY ConstantsAssumption

LEMMA LostTyped ==
  ASSUME Threads # {}
  PROVE  Lost \in Threads \X Nat
<1>1. Cardinality(Clients) \in Nat
  BY ConstantsAssumption, FS_CardinalityType
<1>2. 1 \in Threads
  BY <1>1 DEF Threads
<1> QED
  BY <1>2 DEF Lost, CmdMax

LEMMA InitTyped ==
  ASSUME Clients # {}
  PROVE  Init => Typed
<1>1. Cardinality(Clients) \in Nat /\ Cardinality(Clients) # 0
  BY ConstantsAssumption, FS_CardinalityType, FS_EmptySet
<1>2. 1 \in Fds /\ 1 \in Threads
  BY <1>1 DEF Fds, Threads
<1>3. Lost \in Threads \X Nat
  BY <1>2, LostTyped
<1>4. Init => TypeOK
  BY <1>2, <1>3, ConstantsAssumption DEF Init, TypeOK, Lists
<1>5. Init => Located
  BY DEF Init, Located, HasLine, NotYet, InPlace, Placed
<1> QED
  BY <1>4, <1>5 DEF Typed

\* Nothing moves in a buffer that is being parsed.
LEMMA PlacesKept ==
  ASSUME InPlace, UNCHANGED <<cut, save>>,
         \A t \in Threads : tok'[t] = tok[t] \/ tok'[t] = save,
         \A u \in Parsing : u \in Parsing' /\ line'[u] = line[u]
  PROVE  InPlace'
BY DEF InPlace, Placed

\* A step of thread t that neither starts a parse without a line nor leaves one.
LEMMA LocatedKept ==
  ASSUME Typed, NEW t \in Threads,
         NEW to \in {"none", "born", "recv", "first", "load", "store", "run", "reply", "gone", "lost"},
         tpc[t] # "none", tpc' = [tpc EXCEPT ![t] = to],
         t \in Parsing => to \in {"load", "store"} /\ line'[t] = line[t],
         to = "first" => line'[t] # <<>>,
         UNCHANGED <<acc, mpc, cut, save>>,
         \A u \in Threads : tok'[u] = tok[u] \/ tok'[u] = save,
         \A u \in Threads : u # t => line'[u] = line[u]
  PROVE  Located'
<1>1. /\ tpc \in [Threads -> {"none", "born", "recv", "first", "load", "store",
                               "run", "reply", "gone", "lost"}]
      /\ HasLine /\ NotYet /\ InPlace
  BY DEF Typed, TypeOK, Located
<1>2. tpc'[t] = to /\ \A u \in Threads : u # t => tpc'[u] = tpc[u]
  BY <1>1
<1>3. HasLine'
  BY <1>1, <1>2 DEF HasLine
<1>4. NotYet'
  BY <1>1, <1>2 DEF NotYet
<1>5. \A u \in Parsing : u \in Parsing' /\ line'[u] = line[u]
  BY <1>2 DEF Parsing
<1>6. InPlace'
  BY <1>1, <1>5, PlacesKept
<1> QED
  BY <1>3, <1>4, <1>6 DEF Located

\* The clients.
LEMMA ClientTyped ==
  ASSUME Typed, NEW c \in Clients, ClientStep(c)
  PROVE  TypeOK'
<1> USE DEF Typed, TypeOK, mainVars, threadVars, parseVars
<1>1. CASE Connect(c)
  BY <1>1 DEF Connect
<1>2. ASSUME NEW l \in Lines, Send(c, l) PROVE TypeOK'
  <2>1. nsent' \in 0..MaxReq
    BY <1>2, ConstantsAssumption DEF Send
  <2>2. up' \in [Clients -> Seq(Lines)]
    BY <1>2 DEF Send
  <2> QED
    BY <1>2, <2>1, <2>2 DEF Send
<1>3. CASE SendFails(c)
  BY <1>3 DEF SendFails
<1>4. CASE Receive(c)
  <2>1. PICK n \in 1..Len(down[c]) :
          LET chunk == SubSeq(down[c], 1, n) IN
          /\ cli' = [cli EXCEPT ![c] =
               IF chunk = <<"exit", "eot">> THEN "left" ELSE IF chunk[n] = "eot" THEN "prompt" ELSE "wait"]
          /\ down' = [down EXCEPT ![c] = SubSeq(@, n + 1, Len(@))]
    BY <1>4 DEF Receive
  <2>2. cli' \in [Clients -> {"off", "prompt", "wait", "left", "failed", "killed"}]
    BY <2>1
  <2>3. SubSeq(down[c], n + 1, Len(down[c])) \in Seq({"out", "exit", "eot"})
    OBVIOUS
  <2>4. down' \in [Clients -> Seq({"out", "exit", "eot"})]
    BY <2>1, <2>3
  <2> QED
    BY <1>4, <2>2, <2>4 DEF Receive
<1>5. CASE ReceiveEnds(c)
  BY <1>5 DEF ReceiveEnds
<1>6. CASE Leave(c)
  BY <1>6 DEF Leave
<1>7. CASE Kill(c)
  BY <1>7 DEF Kill
<1> QED
  BY <1>1, <1>2, <1>3, <1>4, <1>5, <1>6, <1>7 DEF ClientStep

LEMMA EndTyped ==
  ASSUME Typed, ServerEnds
  PROVE  Typed'
<1>1. Lost \in Threads \X Nat
  <2>1. cfd \in Fds /\ Fds = Threads
    BY DEF Typed, TypeOK, Fds, Threads
  <2> QED
    BY <2>1, LostTyped
<1>2. TypeOK'
  BY <1>1 DEF ServerEnds, Typed, TypeOK, clientVars, Lists
<1>3. Located'
  BY DEF ServerEnds, Typed, Located, HasLine, NotYet, InPlace, Placed
<1> QED
  BY <1>2, <1>3 DEF Typed

LEMMA MainTyped ==
  ASSUME Typed, MainStep
  PROVE  TypeOK'
<1> USE DEF Typed, TypeOK, clientVars, threadVars, parseVars
<1>1. CASE Accept
  <2>1. PICK f \in Fds : cfd' = f /\ fdt' = [fdt EXCEPT ![f] = Head(backlog)]
    BY <1>1 DEF Accept
  <2>2. Head(backlog) \in Clients /\ Tail(backlog) \in Seq(Clients)
    BY <1>1 DEF Accept
  <2>3. acc' \in Seq(Clients) /\ backlog' \in Seq(Clients)
    BY <1>1, <2>2 DEF Accept
  <2>4. cfd' \in Fds /\ fdt' \in [Fds -> Clients \cup {Nobody}]
    BY <2>1, <2>2
  <2> QED
    BY <1>1, <2>3, <2>4 DEF Accept
<1>2. CASE Create
  BY <1>2 DEF Create
<1>3. CASE CreateFails
  BY <1>3 DEF CreateFails
<1> QED
  BY <1>1, <1>2, <1>3 DEF MainStep

\* The threads that parse are not the one that is made.
LEMMA MainLocated ==
  ASSUME Typed, MainStep
  PROVE  Located'
<1>1. /\ tpc \in [Threads -> {"none", "born", "recv", "first", "load", "store",
                               "run", "reply", "gone", "lost"}]
      /\ HasLine /\ NotYet /\ InPlace /\ acc \in Seq(Clients)
  BY DEF Typed, TypeOK, Located
<1>2. UNCHANGED parseVars
  BY DEF MainStep, Accept, Create, CreateFails
<1>3. CASE Accept
  <2>1. tpc' = tpc /\ Len(acc') = Len(acc) + 1 /\ Len(acc) \in Nat
    BY <1>1, <1>3 DEF Accept, threadVars
  <2>2. HasLine' /\ NotYet'
    BY <1>1, <1>2, <2>1 DEF HasLine, NotYet, parseVars, Threads
  <2>3. InPlace'
    BY <1>1, <1>2, <2>1 DEF InPlace, Placed, Parsing, parseVars
  <2> QED
    BY <2>2, <2>3 DEF Located
<1>4. CASE Create \/ CreateFails
  <2>1. /\ acc' = acc /\ mpc = "create" /\ mpc' = "accept" /\ Len(acc) \in Nat
        /\ \E to \in {"born", "lost"} : tpc' = [tpc EXCEPT ![Len(acc)] = to]
    BY <1>1, <1>4 DEF Create, CreateFails
  <2>2. \A u \in Threads : u = Len(acc) => tpc[u] = "none"
    BY <1>1, <2>1 DEF NotYet, Threads
  <2>3. \A u \in Threads : tpc'[u] = tpc[u] \/ (u = Len(acc) /\ tpc'[u] \in {"born", "lost"})
    <3>1. PICK to \in {"born", "lost"} : tpc' = [tpc EXCEPT ![Len(acc)] = to]
      BY <2>1
    <3> QED
      BY <1>1, <3>1
  <2>4. HasLine'
    BY <1>1, <1>2, <2>3 DEF HasLine, parseVars
  <2>5. NotYet'
    BY <1>1, <2>1, <2>3 DEF NotYet, Threads
  <2>6. \A u \in Parsing : u \in Parsing'
    BY <2>2, <2>3 DEF Parsing
  <2>7. InPlace'
    BY <1>1, <1>2, <2>6, PlacesKept DEF parseVars
  <2> QED
    BY <2>4, <2>5, <2>7 DEF Located
<1> QED
  BY <1>3, <1>4 DEF MainStep

LEMMA HangUpTyped ==
  ASSUME Typed, NEW t \in Threads, tpc[t] \in {"recv", "reply"}, HangUp(t), UNCHANGED up
  PROVE  Typed'
<1>1. list' \in [Threads -> Lists] /\ mixed' \in [Threads -> BOOLEAN]
  BY DEF HangUp, FreeList, Typed, TypeOK, Lists
<1>2. TypeOK'
  BY <1>1 DEF HangUp, Typed, TypeOK, clientVars, mainVars
<1>3. Located'
  <2>1. t \notin Parsing
    BY DEF Parsing
  <2>2. /\ tpc' = [tpc EXCEPT ![t] = "gone"] /\ line' = [line EXCEPT ![t] = <<>>]
        /\ UNCHANGED <<acc, mpc, cut, save, tok>>
    BY DEF HangUp, mainVars
  <2>3. \A u \in Threads : u # t => line'[u] = line[u]
    BY <2>2 DEF Typed, TypeOK
  <2> QED
    BY <2>1, <2>2, <2>3, LocatedKept
<1> QED
  BY <1>2, <1>3 DEF Typed

\* strtok() finds commands, nothing, or junk.
LEMMA TokenTyped ==
  ASSUME Typed, NEW t \in Threads, NEW p \in Threads \X Nat, Placed(p), NEW k \in TokenAt(t, p)
  PROVE  /\ k \in Commands \cup {"junk", NoToken}
         /\ k # NoToken /\ p # Lost => p[2] < Len(line[p[1]])
<1>1. p[1] \in Threads /\ p[2] \in Nat
  OBVIOUS
<1>2. line[p[1]] \in Seq(Commands)
  <2>1. line[p[1]] \in Lines \cup {<<>>}
    BY <1>1 DEF Typed, TypeOK
  <2>2. <<>> \in Seq(Commands)
    OBVIOUS
  <2> QED
    BY <2>1, <2>2, LineFacts
<1>3. Len(line[p[1]]) \in Nat
  BY <1>2
<1>4. CASE p = Lost
  BY <1>4 DEF TokenAt
<1>5. CASE p # Lost
  <2>1. p[2] <= Len(line[p[1]])
    BY <1>5 DEF Placed
  <2>2. CASE p[2] = Len(line[p[1]])
    BY <1>5, <2>2 DEF TokenAt
  <2>3. CASE p[2] # Len(line[p[1]])
    <3>1. p[2] < Len(line[p[1]])
      <4>1. PICK a \in Nat, m \in Nat : a = p[2] /\ m = Len(line[p[1]])
        BY <1>1, <1>3
      <4>2. a <= m /\ a # m
        BY <2>1, <2>3, <4>1
      <4>3. a < m
        BY <4>2
      <4> QED
        BY <4>1, <4>3
    <3>2. line[p[1]][p[2] + 1] \in Commands
      <4>1. p[2] + 1 \in 1..Len(line[p[1]])
        BY <1>1, <1>3, <3>1
      <4> QED
        BY <1>2, <4>1
    <3>3. k \in {"junk", line[p[1]][p[2] + 1]}
      BY <1>5, <2>3 DEF TokenAt
    <3> QED
      BY <3>1, <3>2, <3>3
  <2> QED
    BY <2>2, <2>3
<1> QED
  BY <1>4, <1>5

\* Where it leaves the position, and what it writes, is in buffers that are parsed.
LEMMA BehindTyped ==
  ASSUME Typed, NEW p \in Threads \X Nat, Placed(p), p # Lost => p[2] < Len(line[p[1]]),
         NEW b \in Behind(p)
  PROVE  /\ b[1] \in Threads \X Nat /\ Placed(b[1])
         /\ b[2] \subseteq Threads \X (1..(2 * CmdMax))
         /\ \A x \in b[2] : x[1] \in Parsing
<1>1. CASE p = Lost
  <2>1. \/ b = <<Lost, {}>>
        \/ \E x \in {<<v, k>> : v \in Parsing, k \in 1..(2 * CmdMax)} : b = <<Lost, {x}>>
    BY <1>1 DEF Behind
  <2>2. b[1] = Lost /\ (b[2] = {} \/ \E v \in Parsing, k \in 1..(2 * CmdMax) : b[2] = {<<v, k>>})
    BY <2>1
  <2>3. Parsing \subseteq Threads
    BY DEF Parsing
  <2> QED
    BY <1>1, <2>2, <2>3 DEF Placed
<1>2. CASE p # Lost
  <2> DEFINE u == p[1]
             i == p[2] + 1
             n == Len(line[u])
  <2>1. u \in Parsing /\ u \in Threads /\ p[2] \in Nat /\ p[2] < n
    BY <1>2 DEF Placed
  <2>2. n \in 1..CmdMax
    <3>1. line[u] \in Lines \cup {<<>>}
      BY <2>1 DEF Typed, TypeOK
    <3>2. line[u] # <<>>
      BY <2>1
    <3> QED
      BY <3>1, <3>2, LineFacts
  <2>3. b = <<<<u, n>>, {}>> \/ (i < n /\ b = <<<<u, i>>, {<<u, 2 * i>>}>>)
    BY <1>2 DEF Behind
  <2>4. CASE b = <<<<u, n>>, {}>>
    <3>1. b[1] = <<u, n>> /\ b[2] = {} /\ n \in Nat /\ n <= Len(line[u])
      BY <2>2, <2>4 DEF CmdMax
    <3> HIDE DEF u, n
    <3>2. b[1] \in Threads \X Nat /\ b[1][1] = u /\ b[1][2] = n
      BY <2>1, <3>1
    <3>3. Placed(b[1])
      BY <2>1, <3>1, <3>2 DEF Placed
    <3> QED
      BY <3>1, <3>2, <3>3
  <2>5. CASE i < n /\ b = <<<<u, i>>, {<<u, 2 * i>>}>>
    <3>1. i \in Nat /\ i <= n /\ 2 * i \in 1..(2 * CmdMax)
      <4>1. PICK m \in 1..8 : m = n
        BY <2>2 DEF CmdMax
      <4>2. i \in Nat /\ 1 <= i /\ i < m
        <5>1. i < m
          BY <2>5, <4>1
        <5>2. i \in Nat /\ 1 <= i
          BY <2>1
        <5> QED
          BY <5>1, <5>2
      <4>3. i <= m /\ 2 * i \in 1..16
        <5>1. PICK j \in Nat : j = i
          BY <4>2
        <5>2. 1 <= j /\ j < m
          BY <4>2, <5>1
        <5>3. j <= m /\ 2 * j \in 1..16
          BY <5>2
        <5> QED
          BY <5>1, <5>3
      <4> QED
        BY <4>1, <4>2, <4>3 DEF CmdMax
    <3>2. b[1] = <<u, i>> /\ b[2] = {<<u, 2 * i>>}
      BY <2>5
    <3> HIDE DEF u, i, n
    <3>3. b[1] \in Threads \X Nat /\ b[1][1] = u /\ b[1][2] = i
      BY <2>1, <3>1, <3>2
    <3>4. Placed(b[1])
      BY <2>1, <3>1, <3>3 DEF Placed, n
    <3> QED
      BY <2>1, <3>1, <3>2, <3>3, <3>4
  <2> QED
    BY <2>3, <2>4, <2>5
<1> QED
  BY <1>1, <1>2

\* What TokenEnds() knows of the position that is left.
LEMMA EndsTyped ==
  ASSUME Typed, NEW t \in Threads, NEW p \in Threads \X Nat, Placed(p),
         NEW k \in TokenAt(t, p), NEW b, TokenEnds(t, p, k, b)
  PROVE  /\ b[1] \in Threads \X Nat /\ Placed(b[1])
         /\ b[2] \subseteq Threads \X (1..(2 * CmdMax))
         /\ \A x \in b[2] : x[1] \in Parsing
<1>1. CASE k = NoToken
  <2>1. b[1] = p /\ b[2] = {}
    BY <1>1 DEF TokenEnds
  <2> QED
    BY <2>1
<1>2. CASE k # NoToken
  BY <1>2, TokenTyped, BehindTyped DEF TokenEnds
<1> QED
  BY <1>1, <1>2

LEMMA AfterFacts ==
  ASSUME Threads # {}, NEW t \in Threads, NEW p \in Threads \X Nat
  PROVE  /\ After(p, t) \in Threads \X Nat
         /\ After(p, t) = Lost \/ (After(p, t) = p /\ p[1] # t)
BY LostTyped DEF After

LEMMA TokenStepTyped ==
  ASSUME Typed, NEW t \in Threads, NEW p \in Threads \X Nat, Placed(p), Token(t, p)
  PROVE  TypeOK'
<1>1. PICK k \in TokenAt(t, p) : \E b : TokenEnds(t, p, k, b)
  BY TokenCases
<1>2. PICK b : TokenEnds(t, p, k, b)
  BY <1>1
<1>3. b[1] \in Threads \X Nat /\ b[2] \subseteq Threads \X (1..(2 * CmdMax))
  BY <1>2, EndsTyped
<1>4. /\ UNCHANGED <<cli, nsent, up, down, broken, backlog, mpc, cfd, acc, fdt, tfd, line>>
      /\ TokenMoves(t)
  BY TokenLeaves
<1>5. mixed' \in [Threads -> BOOLEAN]
  BY DEF Token, Disturbed, Typed, TypeOK
<1>6. Lost \in Threads \X Nat /\ Threads # {}
  BY LostTyped
<1>7. save' \in Threads \X Nat
  <2>1. save' = b[1] \/ save' = After(b[1], t)
    BY <1>2 DEF TokenEnds, Adds, Ends
  <2> QED
    BY <1>3, <1>6, <2>1, AfterFacts
<1>8. cut' \subseteq Threads \X (1..(2 * CmdMax))
  <2>1. cut' \subseteq cut \cup b[2]
    BY <1>2 DEF TokenEnds, Adds, Ends
  <2> QED
    BY <1>3, <2>1 DEF Typed, TypeOK
<1>9. tok' \in [Threads -> Threads \X Nat]
  <2>1. tok \in [Threads -> Threads \X Nat]
    BY DEF Typed, TypeOK
  <2>2. tok' = [tok EXCEPT ![t] = Lost] \/ tok' = [u \in Threads |-> IF u = t THEN Lost ELSE After(tok[u], t)]
    BY <1>2 DEF TokenEnds, Adds, Ends
  <2>3. \A u \in Threads : After(tok[u], t) \in Threads \X Nat
    BY <1>6, <2>1, AfterFacts
  <2> QED
    BY <1>6, <2>1, <2>2, <2>3
<1>10. list' \in [Threads -> Lists]
  <2>1. list \in [Threads -> Lists] /\ list[t] \in Lists /\ <<>> \in Lists
    BY DEF Typed, TypeOK, Lists
  <2>2. k # NoToken => Append(list[t], k) \in Lists
    BY <2>1, TokenTyped DEF Lists
  <2>3. \/ list' = list
        \/ k # NoToken /\ list' = [list EXCEPT ![t] = Append(@, k)]
        \/ list' = [list EXCEPT ![t] = <<>>]
    BY <1>2 DEF TokenEnds, Adds, Ends
  <2> QED
    BY <2>1, <2>2, <2>3
<1>11. reply' \in [Threads -> Seq({"exit", "eot"})]
  <2>1. <<"eot">> \in Seq({"exit", "eot"}) /\ <<"exit", "eot">> \in Seq({"exit", "eot"})
    OBVIOUS
  <2>2. reply \in [Threads -> Seq({"exit", "eot"})]
    BY DEF Typed, TypeOK
  <2>3. reply' = reply \/ \E r \in {<<"eot">>, <<"exit", "eot">>} : reply' = [reply EXCEPT ![t] = r]
    BY <1>4 DEF TokenMoves
  <2>4. \A r \in {<<"eot">>, <<"exit", "eot">>} : r \in Seq({"exit", "eot"})
    BY <2>1
  <2> QED
    BY <2>2, <2>3, <2>4
<1>12. tpc' \in [Threads -> {"none", "born", "recv", "first", "load", "store",
                             "run", "reply", "gone", "lost"}]
  BY <1>4 DEF TokenMoves, Typed, TypeOK
<1> QED
  BY <1>4, <1>5, <1>7, <1>8, <1>9, <1>10, <1>11, <1>12 DEF Typed, TypeOK

\* At the end of the parse every position in the buffer is lost.
LEMMA TokenLocated ==
  ASSUME Typed, NEW t \in Threads, tpc[t] \in {"first", "store"},
         NEW p \in Threads \X Nat, Placed(p), Token(t, p)
  PROVE  Located'
<1>1. PICK k \in TokenAt(t, p) : \E b : TokenEnds(t, p, k, b)
  BY TokenCases
<1>2. PICK b : TokenEnds(t, p, k, b)
  BY <1>1
<1>3. b[1] \in Threads \X Nat /\ Placed(b[1]) /\ \A x \in b[2] : x[1] \in Parsing
  BY <1>2, EndsTyped
<1>4. acc' = acc /\ mpc' = mpc /\ line' = line /\ TokenMoves(t)
  BY TokenLeaves
<1>5. /\ tpc \in [Threads -> {"none", "born", "recv", "first", "load", "store",
                               "run", "reply", "gone", "lost"}]
      /\ tok \in [Threads -> Threads \X Nat]
      /\ HasLine /\ NotYet /\ InPlace
  BY DEF Typed, TypeOK, Located
<1>6. \A u \in Threads : u # t => tpc'[u] = tpc[u]
  BY <1>4, <1>5 DEF TokenMoves
<1>7. tpc'[t] \in {"load", "run", "reply"} /\ t \in Parsing
  BY <1>4, <1>5 DEF TokenMoves, Parsing
<1>8. HasLine'
  BY <1>4, <1>5, <1>6, <1>7 DEF HasLine
<1>9. NotYet'
  BY <1>4, <1>5, <1>6, <1>7 DEF NotYet
<1>10. \A u \in Parsing : u # t => u \in Parsing'
  BY <1>6 DEF Parsing
<1>11. \A q : Placed(q) /\ (q[1] # t \/ t \in Parsing') => Placed(q)'
  BY <1>4, <1>10 DEF Placed
<1>12. Placed(Lost)'
  BY DEF Placed
<1>13. CASE Adds(t, k, b)
  <2>1. t \in Parsing'
    BY <1>5, <1>7, <1>13 DEF Adds, Parsing
  <2>2. save' = b[1] /\ cut' = cut \cup b[2] /\ \A u \in Threads : tok'[u] = Lost \/ tok'[u] = tok[u]
    BY <1>5, <1>13 DEF Adds
  <2>3. Placed(save)'
    <3>1. Placed(b[1])'
      BY <1>3, <1>11, <2>1
    <3> QED
      BY <2>2, <3>1 DEF Placed
  <2>4. \A u \in Threads : Placed(tok[u])'
    <3> SUFFICES ASSUME NEW u \in Threads PROVE Placed(tok[u])'
      OBVIOUS
    <3>1. PICK q : q = tok[u]
      OBVIOUS
    <3>2. Placed(q)
      BY <1>5, <3>1 DEF InPlace
    <3>3. Placed(q)'
      BY <1>11, <2>1, <3>2
    <3> QED
      BY <1>12, <2>2, <3>1, <3>3 DEF Placed
  <2>5. \A x \in cut' : x[1] \in Parsing'
    BY <1>3, <1>5, <1>10, <2>1, <2>2 DEF InPlace
  <2> QED
    BY <1>8, <1>9, <2>3, <2>4, <2>5 DEF Located, InPlace
<1>14. CASE Ends(t, k, b)
  <2>1. /\ save' = After(b[1], t) /\ cut' = {x \in cut \cup b[2] : x[1] # t}
        /\ tok' = [u \in Threads |-> IF u = t THEN Lost ELSE After(tok[u], t)]
    BY <1>14 DEF Ends
  <2>2. \A q \in Threads \X Nat : Placed(q) => Placed(After(q, t))'
    <3> SUFFICES ASSUME NEW q \in Threads \X Nat, Placed(q) PROVE Placed(After(q, t))'
      OBVIOUS
    <3>1. PICK r : r = After(q, t)
      OBVIOUS
    <3>2. r = Lost \/ (r = q /\ q[1] # t)
      BY <3>1, AfterFacts
    <3>3. Placed(r)'
      BY <1>11, <1>12, <3>2
    <3> QED
      BY <3>1, <3>3 DEF After
  <2>3. Placed(save)'
    <3>1. Placed(After(b[1], t))'
      BY <1>3, <2>2
    <3> QED
      BY <2>1, <3>1 DEF Placed, After
  <2>4. \A u \in Threads : Placed(tok[u])'
    <3> SUFFICES ASSUME NEW u \in Threads PROVE Placed(tok[u])'
      OBVIOUS
    <3>1. PICK q \in Threads \X Nat : q = tok[u]
      BY <1>5
    <3>2. Placed(q)
      BY <1>5, <3>1 DEF InPlace
    <3>3. PICK r : r = After(q, t)
      OBVIOUS
    <3>4. r = Lost \/ (r = q /\ q[1] # t)
      BY <3>3, AfterFacts
    <3>5. tok'[u] = Lost \/ tok'[u] = r
      BY <2>1, <3>1, <3>3
    <3>6. Placed(r)'
      BY <1>11, <1>12, <3>2, <3>4
    <3> QED
      BY <1>12, <3>5, <3>6 DEF Placed
  <2>5. \A x \in cut' : x[1] \in Parsing'
    BY <1>3, <1>5, <1>10, <2>1 DEF InPlace
  <2> QED
    BY <1>8, <1>9, <2>3, <2>4, <2>5 DEF Located, InPlace
<1> QED
  BY <1>2, <1>13, <1>14 DEF TokenEnds

\* The first call starts at the beginning of the thread's own line.
LEMMA FirstPlaced ==
  ASSUME Typed, NEW t \in Threads, tpc[t] = "first"
  PROVE  <<t, 0>> \in Threads \X Nat /\ Placed(<<t, 0>>)
<1>1. t \in Parsing
  BY DEF Parsing
<1>2. line[t] \in Seq(Commands)
  <2>1. line[t] \in Lines
    BY DEF Typed, TypeOK, Located, HasLine
  <2> QED
    BY <2>1, LineFacts
<1>3. 0 <= Len(line[t])
  BY <1>2
<1> QED
  BY <1>1, <1>3 DEF Placed

LEMMA TokenStepsTyped ==
  ASSUME Typed, NEW t \in Threads, TokFirst(t) \/ TokStore(t)
  PROVE  Typed'
<1>1. tok[t] \in Threads \X Nat /\ Placed(tok[t])
  BY DEF Typed, TypeOK, Located, InPlace
<1>2. CASE TokFirst(t)
  BY <1>2, FirstPlaced, TokenStepTyped, TokenLocated DEF TokFirst, Typed
<1>3. CASE TokStore(t)
  BY <1>1, <1>3, TokenStepTyped, TokenLocated DEF TokStore, Typed
<1> QED
  BY <1>2, <1>3

LEMMA ThreadTyped ==
  ASSUME Typed, NEW t \in Threads, ThreadStep(t)
  PROVE  Typed'
<1>1. CASE Start(t)
  <2>1. TypeOK'
    BY <1>1 DEF Start, Typed, TypeOK, clientVars, mainVars, parseVars
  <2>2. Located'
    BY <1>1, LocatedKept DEF Start, Parsing, mainVars, parseVars
  <2> QED
    BY <2>1, <2>2 DEF Typed
<1>2. CASE NoMemory(t)
  <2>1. TypeOK'
    BY <1>2 DEF NoMemory, Typed, TypeOK, clientVars, mainVars, parseVars
  <2>2. Located'
    BY <1>2, LocatedKept DEF NoMemory, Parsing, mainVars, parseVars
  <2> QED
    BY <2>1, <2>2 DEF Typed
<1>3. CASE Recv(t)
  <2>1. Peer(t) \in Clients /\ up[Peer(t)] \in Seq(Lines) /\ up[Peer(t)] # <<>>
    BY <1>3 DEF Recv, Peer, Typed, TypeOK
  <2>2. Head(up[Peer(t)]) \in Lines /\ Tail(up[Peer(t)]) \in Seq(Lines)
    BY <2>1
  <2>3. Head(up[Peer(t)]) # <<>>
    BY <2>2, LineFacts
  <2>4. TypeOK'
    BY <1>3, <2>1, <2>2 DEF Recv, Typed, TypeOK, clientVars, mainVars
  <2>5. t \notin Parsing /\ line'[t] # <<>> /\ \A u \in Threads : u # t => line'[u] = line[u]
    BY <1>3, <2>3 DEF Recv, Parsing, Typed, TypeOK
  <2>6. Located'
    BY <1>3, <2>5, LocatedKept DEF Recv, mainVars
  <2> QED
    BY <2>4, <2>6 DEF Typed
<1>4. CASE PeerGone(t)
  BY <1>4, HangUpTyped DEF PeerGone
<1>5. CASE TokFirst(t) \/ TokStore(t)
  BY <1>5, TokenStepsTyped
<1>6. CASE TokLoad(t)
  <2>1. TypeOK'
    BY <1>6 DEF TokLoad, Typed, TypeOK, clientVars, mainVars
  <2>2. \A u \in Threads : tok'[u] = tok[u] \/ tok'[u] = save
    BY <1>6 DEF TokLoad, Typed, TypeOK
  <2>3. Located'
    BY <1>6, <2>2, LocatedKept DEF TokLoad, mainVars
  <2> QED
    BY <2>1, <2>3 DEF Typed
<1>7. CASE RunEnds(t)
  <2>1. Peer(t) \in Clients \cup {Nobody}
    BY DEF Peer, Typed, TypeOK
  <2>2. down' \in [Clients -> Seq({"out", "exit", "eot"})] /\ broken' \subseteq Clients
    <3>1. Deliver(Peer(t), "out") \in [Clients -> Seq({"out", "exit", "eot"})]
      BY <2>1 DEF Deliver, Typed, TypeOK
    <3>2. Breaks(Peer(t)) \subseteq Clients
      BY <2>1 DEF Breaks, Typed, TypeOK
    <3> QED
      BY <1>7, <3>1, <3>2 DEF RunEnds, Typed, TypeOK
  <2>3. TypeOK'
    BY <1>7, <2>2 DEF RunEnds, Typed, TypeOK, clientVars, mainVars, parseVars
  <2>4. Located'
    BY <1>7, LocatedKept DEF RunEnds, Parsing, mainVars, parseVars
  <2> QED
    BY <2>3, <2>4 DEF Typed
<1>8. CASE Reply(t)
  <2>1. Peer(t) \in Clients \cup {Nobody}
    BY DEF Peer, Typed, TypeOK
  <2>2. reply[t] \in Seq({"exit", "eot"}) /\ reply[t] # <<>>
    BY <1>8 DEF Reply, Typed, TypeOK
  <2>3. Head(reply[t]) \in {"exit", "eot"} /\ Tail(reply[t]) \in Seq({"exit", "eot"})
    BY <2>2
  <2>4. down' \in [Clients -> Seq({"out", "exit", "eot"})] /\ broken' \subseteq Clients
    BY <1>8, <2>1, <2>3 DEF Reply, Deliver, Breaks, Typed, TypeOK
  <2>5. TypeOK'
    BY <1>8, <2>3, <2>4 DEF Reply, Typed, TypeOK, clientVars, mainVars, parseVars
  <2>6. Located'
    BY <1>8 DEF Reply, Typed, Located, HasLine, NotYet, InPlace, Placed, Parsing, mainVars, parseVars
  <2> QED
    BY <2>5, <2>6 DEF Typed
<1>9. CASE Answered(t)
  <2>1. CASE HangUp(t) /\ UNCHANGED up
    BY <1>9, <2>1, HangUpTyped DEF Answered
  <2>2. CASE ~(HangUp(t) /\ UNCHANGED up)
    <3>1. /\ tpc' = [tpc EXCEPT ![t] = "recv"]
          /\ FreeList(t)
          /\ UNCHANGED <<clientVars, up, down, broken, mainVars, fdt, tfd, reply, line, cut, tok, save>>
      BY <1>9, <2>2 DEF Answered
    <3>2. list' \in [Threads -> Lists] /\ mixed' \in [Threads -> BOOLEAN]
      BY <3>1 DEF FreeList, Typed, TypeOK, Lists
    <3>3. TypeOK'
      BY <3>1, <3>2 DEF Typed, TypeOK, clientVars, mainVars
    <3>4. tpc[t] = "reply" /\ t \notin Parsing
      BY <1>9 DEF Answered, Parsing
    <3>5. Located'
      BY <3>1, <3>4, LocatedKept DEF mainVars
    <3> QED
      BY <3>3, <3>5 DEF Typed
  <2> QED
    BY <2>1, <2>2
<1> QED
  BY <1>1, <1>2, <1>3, <1>4, <1>5, <1>6, <1>7, <1>8, <1>9 DEF ThreadStep

LEMMA NextTyped ==
  ASSUME Typed, [Next]_vars
  PROVE  Typed'
<1>1. ASSUME UNCHANGED <<acc, mpc, tpc, line, cut, tok, save>> PROVE Located'
  BY <1>1 DEF Typed, Located, HasLine, NotYet, InPlace, Placed, Parsing
<1>2. ASSUME NEW c \in Clients, ClientStep(c) PROVE Typed'
  <2>1. UNCHANGED <<acc, mpc, tpc, line, cut, tok, save>>
    BY <1>2 DEF ClientStep, Connect, Send, SendFails, Receive, ReceiveEnds, Leave, Kill,
         mainVars, threadVars, parseVars
  <2> QED
    BY <1>1, <1>2, <2>1, ClientTyped DEF Typed
<1>3. CASE MainStep
  BY <1>3, MainTyped, MainLocated DEF Typed
<1>4. ASSUME NEW t \in Threads, ThreadStep(t) PROVE Typed'
  BY <1>4, ThreadTyped
<1>5. CASE Failure
  BY <1>5, EndTyped DEF Failure, AcceptFails, ForkFails, ReplyKills
<1>6. CASE UNCHANGED vars
  <2>1. UNCHANGED <<acc, mpc, tpc, line, cut, tok, save>>
    BY <1>6 DEF vars, mainVars, threadVars, parseVars
  <2>2. TypeOK'
    BY <1>6 DEF vars, clientVars, mainVars, threadVars, parseVars, Typed, TypeOK
  <2> QED
    BY <1>1, <2>1, <2>2 DEF Typed
<1> QED
  BY <1>2, <1>3, <1>4, <1>5, <1>6 DEF Next

\* Every variable has its type, for any number of clients and any lines: also
\* when connections come at the same moment and threads share a descriptor.
THEOREM ThreadedTypes ==
  ASSUME Clients # {}
  PROVE  Spec => []TypeOK
<1>1. Typed /\ [Next]_vars => Typed'
  BY NextTyped
<1>2. Typed => TypeOK
  BY DEF Typed
<1> QED
  BY InitTyped, <1>1, <1>2, PTL DEF Spec

-----------------------------------------------------------------------------
(***************************************************************************)
(* Whose lines the threads execute.  As long as no other thread was inside *)
(* build_cmd_list(), the common position of strtok() is where this thread  *)
(* left it, its list is the beginning of its line, and the rest of the     *)
(* line is not cut.  The first command of a list is its line's, or junk,   *)
(* even if others were there: the first strtok() is given the line.        *)
(***************************************************************************)
Prefix(u) ==
  /\ Len(list[u]) \in 0..Len(line[u])
  /\ \A i \in 1..Len(list[u]) : list[u][i] = line[u][i]

\* Position p is where thread u goes on, in a line whose rest is whole.
GoesOn(u, p) ==
  /\ Prefix(u)
  /\ p = <<u, Len(list[u])>>
  /\ \A x \in cut : x[1] = u => x[2] <= 2 * Len(list[u])

ReadsOn(u) ==
  ~mixed[u] =>
    /\ tpc[u] = "first" => GoesOn(u, <<u, 0>>)
    /\ tpc[u] \in {"load", "store"} => GoesOn(u, save)
    /\ tpc[u] = "store" => tok[u] = save
    /\ tpc[u] = "run" => list[u] = line[u]

Named(u) ==
  /\ tpc[u] \in {"none", "born", "recv", "first"} => list[u] = <<>>
  /\ tpc[u] \in {"load", "store"} => list[u] # <<>>
  /\ tpc[u] \in {"load", "store", "run", "reply"} /\ list[u] # <<>> =>
       list[u][1] \in {line[u][1], "junk"}

Reading == \A u \in Threads : ReadsOn(u) /\ Named(u)

LEMMA InitReading == Init => Reading
BY DEF Init, Reading, ReadsOn, Named

\* Nothing that is parsed changes, and the thread was never in build_cmd_list() or
\* is to be there no more.
LEMMA ReadingKept ==
  ASSUME Reading,
         NEW t, NEW to \in {"born", "recv", "gone", "lost"},
         to \in {"born", "recv"} /\ t \in Threads => tpc[t] \in {"none", "born"},
         tpc \in [Threads -> {"none", "born", "recv", "first", "load", "store",
                               "run", "reply", "gone", "lost"}],
         tpc' = tpc \/ tpc' = [tpc EXCEPT ![t] = to],
         UNCHANGED parseVars
  PROVE  Reading'
<1>1. ASSUME NEW u \in Threads PROVE ReadsOn(u)' /\ Named(u)'
  <2>1. ReadsOn(u) /\ Named(u)
    BY DEF Reading
  <2>2. tpc'[u] = tpc[u] \/ (u = t /\ tpc'[u] = to)
    OBVIOUS
  <2> QED
    BY <2>1, <2>2 DEF ReadsOn, Named, GoesOn, Prefix, parseVars
<1> QED
  BY <1>1 DEF Reading

\* What happens to thread t leaves no trace in another's parse.
LEMMA Elsewhere ==
  ASSUME Reading, NEW u \in Threads, UNCHANGED <<cut, tok, save>>,
         tpc'[u] = tpc[u], line'[u] = line[u], list'[u] = list[u], mixed'[u] = mixed[u]
  PROVE  ReadsOn(u)' /\ Named(u)'
BY DEF Reading, ReadsOn, Named, GoesOn, Prefix

LEMMA HangUpReading ==
  ASSUME Typed, Reading, NEW t \in Threads, HangUp(t)
  PROVE  Reading'
<1>1. ASSUME NEW u \in Threads, u # t PROVE ReadsOn(u)' /\ Named(u)'
  BY <1>1, Elsewhere DEF HangUp, FreeList, Typed, TypeOK
<1>2. ReadsOn(t)' /\ Named(t)'
  BY DEF HangUp, ReadsOn, Named, Typed, TypeOK
<1> QED
  BY <1>1, <1>2 DEF Reading

LEMMA RecvReading ==
  ASSUME Typed, Reading, NEW t \in Threads, Recv(t)
  PROVE  Reading'
<1>1. ASSUME NEW u \in Threads, u # t PROVE ReadsOn(u)' /\ Named(u)'
  BY <1>1, Elsewhere DEF Recv, Typed, TypeOK
<1>2. tpc'[t] = "first" /\ tpc[t] = "recv" /\ list' = list /\ cut' = cut
  BY DEF Recv, Typed, TypeOK
<1>3. list[t] = <<>>
  BY <1>2 DEF Reading, Named
<1>4. line'[t] \in Seq(Commands)
  <2>1. line'[t] \in Lines
    BY DEF Recv, Peer, Typed, TypeOK
  <2> QED
    BY <2>1, LineFacts
<1>5. GoesOn(t, <<t, 0>>)'
  <2>1. \A x \in cut : x[1] # t
    BY <1>2 DEF Typed, Located, InPlace, Parsing
  <2>2. Len(list'[t]) = 0
    BY <1>2, <1>3
  <2>3. Prefix(t)'
    <3>1. 0 \in 0..Len(line'[t])
      BY <1>4
    <3> QED
      BY <2>2, <3>1 DEF Prefix
  <2> QED
    BY <1>2, <2>1, <2>2, <2>3 DEF GoesOn
<1>6. ReadsOn(t)' /\ Named(t)'
  BY <1>2, <1>3, <1>5 DEF ReadsOn, Named
<1> QED
  BY <1>1, <1>6 DEF Reading

\* What a call of strtok() does to the parse of its own thread.
LEMMA TokenNames ==
  ASSUME Typed, Reading, NEW t \in Threads, NEW p \in Threads \X Nat, Placed(p),
         \/ tpc[t] = "first" /\ p = <<t, 0>>
         \/ tpc[t] = "store",
         NEW k \in TokenAt(t, p), NEW b, TokenEnds(t, p, k, b)
  PROVE  /\ \/ /\ k # NoToken /\ b \in Behind(p) /\ Adds(t, k, b)
               /\ list'[t] = Append(list[t], k) /\ tpc'[t] = "load"
            \/ k = "junk" /\ list'[t] = <<>> /\ tpc'[t] = "reply"
            \/ k = NoToken /\ list'[t] = list[t] /\ tpc'[t] \in {"run", "reply"}
         /\ line' = line => Named(t)'
<1>1. \/ /\ k # NoToken /\ b \in Behind(p) /\ Adds(t, k, b)
         /\ list'[t] = Append(list[t], k) /\ tpc'[t] = "load"
      \/ k = "junk" /\ list'[t] = <<>> /\ tpc'[t] = "reply"
      \/ k = NoToken /\ list'[t] = list[t] /\ tpc'[t] \in {"run", "reply"}
  BY DEF TokenEnds, Adds, Ends, EndOfList, Typed, TypeOK
<1>2. list[t] \in Seq(Commands \cup {"junk"}) /\ k \in Commands \cup {"junk", NoToken}
  BY TokenTyped DEF Typed, TypeOK, Lists
<1>3. Named(t)
  BY DEF Reading
<1>4. CASE tpc[t] = "first" /\ p = <<t, 0>>
  <2>1. list[t] = <<>>
    BY <1>3, <1>4 DEF Named
  <2>2. k \in {"junk", line[t][1]}
    <3>1. line[t] \in Seq(Commands) /\ Len(line[t]) # 0
      <4>1. line[t] \in Lines
        BY <1>4 DEF Typed, TypeOK, Located, HasLine
      <4> QED
        BY <4>1, LineFacts
    <3>2. p # Lost /\ p[1] = t /\ p[2] = 0
      BY <1>4 DEF Lost, CmdMax
    <3> QED
      BY <3>1, <3>2 DEF TokenAt
  <2>3. k # NoToken
    <3>1. line[t][1] \in Commands
      BY <1>4, LineFacts DEF Typed, TypeOK, Located, HasLine
    <3> QED
      BY <2>2, <3>1 DEF Commands, NoToken
  <2>4. Append(list[t], k) # <<>> /\ Append(list[t], k)[1] = k
    BY <2>1
  <2> QED
    BY <1>1, <2>2, <2>3, <2>4 DEF Named
<1>5. CASE tpc[t] = "store"
  <2>1. list[t] # <<>> /\ list[t][1] \in {line[t][1], "junk"}
    BY <1>3, <1>5 DEF Named
  <2>2. k # NoToken => Append(list[t], k) # <<>> /\ Append(list[t], k)[1] = list[t][1]
    BY <1>2, <2>1
  <2> QED
    BY <1>1, <2>1, <2>2 DEF Named
<1> QED
  BY <1>1, <1>4, <1>5

\* In an undisturbed parse it finds the next command and stops behind it, or there
\* is none.
LEMMA TokenFinds ==
  ASSUME Typed, NEW t \in Threads, NEW p, GoesOn(t, p), line[t] # <<>>,
         NEW n, n = Len(list[t]), NEW k \in TokenAt(t, p)
  PROVE  /\ n \in Nat /\ Len(line[t]) \in Nat /\ n <= Len(line[t])
         /\ line[t] \in Seq(Commands)
         /\ n < Len(line[t]) => k = line[t][n + 1] /\ k # "junk" /\ k # NoToken
         /\ n = Len(line[t]) => k = NoToken
         /\ n < Len(line[t]) =>
              \A b \in Behind(p) : b[1] = <<t, n + 1>> /\ b[2] \subseteq {<<t, 2 * (n + 1)>>}
<1>1. line[t] \in Seq(Commands) /\ Len(line[t]) \in 1..CmdMax
  <2>1. line[t] \in Lines
    BY DEF Typed, TypeOK
  <2> QED
    BY <2>1, LineFacts
<1>2. n \in 0..Len(line[t]) /\ p = <<t, n>>
  BY DEF GoesOn, Prefix
<1>3. n \in Nat /\ Len(line[t]) \in Nat /\ n <= Len(line[t]) /\ n <= CmdMax
  <2>1. PICK m \in 1..8 : m = Len(line[t])
    BY <1>1 DEF CmdMax
  <2>2. n \in 0..m
    BY <1>2, <2>1
  <2>3. n \in Nat /\ m \in Nat /\ n <= m /\ n <= 8
    BY <2>2
  <2> QED
    BY <2>1, <2>3 DEF CmdMax
<1>4. p[1] = t /\ p[2] = n
  BY <1>2
<1>5. p # Lost
  BY <1>3, <1>4 DEF Lost, CmdMax
<1>6. <<t, 2 * n + 1>> \notin cut /\ <<t, 2 * (n + 1)>> \notin cut
  <2>1. \A x \in cut : x[1] = t => x[2] <= 2 * n
    BY DEF GoesOn
  <2>2. ~(2 * n + 1 <= 2 * n) /\ ~(2 * (n + 1) <= 2 * n)
    BY <1>3
  <2>3. \A m : <<t, m>> \in cut => m <= 2 * n
    BY <2>1
  <2> QED
    BY <2>2, <2>3
<1>7. ASSUME n < Len(line[t]) PROVE k = line[t][n + 1] /\ k # "junk" /\ k # NoToken
  <2>1. k = line[t][n + 1]
    BY <1>3, <1>4, <1>5, <1>6, <1>7 DEF TokenAt
  <2>2. line[t][n + 1] \in Commands
    <3>1. n + 1 \in 1..Len(line[t])
      BY <1>3, <1>7
    <3> QED
      BY <1>1, <3>1
  <2> QED
    BY <2>1, <2>2 DEF Commands, NoToken
<1>8. n = Len(line[t]) => k = NoToken
  BY <1>4, <1>5 DEF TokenAt
<1>9. ASSUME n < Len(line[t]), NEW b \in Behind(p)
      PROVE  b[1] = <<t, n + 1>> /\ b[2] \subseteq {<<t, 2 * (n + 1)>>}
  <2>1. {<<t, 2 * (n + 1) - 1>>, <<t, 2 * (n + 1)>>} \cap cut = {}
    <3>1. 2 * (n + 1) - 1 = 2 * n + 1
      BY <1>3
    <3> QED
      BY <1>6, <3>1
  <2>2. \/ n + 1 = Len(line[t]) /\ b = <<<<t, Len(line[t])>>, {}>>
        \/ b = <<<<t, n + 1>>, {<<t, 2 * (n + 1)>>}>>
    BY <1>4, <1>5, <1>9, <2>1 DEF Behind
  <2>3. CASE n + 1 = Len(line[t]) /\ b = <<<<t, Len(line[t])>>, {}>>
    BY <2>3
  <2>4. CASE b = <<<<t, n + 1>>, {<<t, 2 * (n + 1)>>}>>
    BY <2>4
  <2> QED
    BY <2>2, <2>3, <2>4
<1> QED
  BY <1>1, <1>3, <1>7, <1>8, <1>9

\* The list grows by the command that was found.
LEMMA ListGrows ==
  ASSUME Typed, NEW t \in Threads, NEW p, GoesOn(t, p), line[t] # <<>>,
         NEW k \in TokenAt(t, p), NEW b \in Behind(p),
         k # NoToken, Adds(t, k, b), line' = line
  PROVE  GoesOn(t, save)'
<1>1. PICK n : n = Len(list[t])
  OBVIOUS
<1>2. /\ n \in Nat /\ Len(line[t]) \in Nat /\ n < Len(line[t])
      /\ k = line[t][n + 1]
      /\ b[1] = <<t, n + 1>> /\ b[2] \subseteq {<<t, 2 * (n + 1)>>}
  <2>1. /\ n \in Nat /\ Len(line[t]) \in Nat /\ n <= Len(line[t])
        /\ n < Len(line[t]) => k = line[t][n + 1]
        /\ n = Len(line[t]) => k = NoToken
        /\ n < Len(line[t]) =>
             \A c \in Behind(p) : c[1] = <<t, n + 1>> /\ c[2] \subseteq {<<t, 2 * (n + 1)>>}
    BY <1>1, TokenFinds
  <2>2. n < Len(line[t])
    <3>1. PICK m \in Nat : m = Len(line[t])
      BY <2>1
    <3>2. n # m /\ n <= m /\ n \in Nat
      BY <2>1, <3>1
    <3>3. n < m
      BY <3>2
    <3> QED
      BY <3>1, <3>3
  <2> QED
    BY <2>1, <2>2
<1>3. list[t] \in Seq(Commands \cup {"junk"})
  BY DEF Typed, TypeOK, Lists
<1>4. list'[t] = Append(list[t], k) /\ save' = b[1] /\ cut' = cut \cup b[2]
  BY DEF Adds, Typed, TypeOK
<1>5. Len(list'[t]) = n + 1
  BY <1>1, <1>3, <1>4
<1>6. (\A i \in 1..n : list'[t][i] = list[t][i]) /\ list'[t][n + 1] = k
  BY <1>1, <1>3, <1>4
<1>7. Prefix(t)'
  <2>1. Len(list'[t]) \in 0..Len(line'[t])
    BY <1>2, <1>5
  <2>2. \A i \in 1..n : list[t][i] = line[t][i]
    BY <1>1 DEF GoesOn, Prefix
  <2>3. \A i \in 1..(n + 1) : i \in 1..n \/ i = n + 1
    BY <1>2
  <2>4. \A i \in 1..(n + 1) : list'[t][i] = line'[t][i]
    BY <1>2, <1>6, <2>2, <2>3
  <2> QED
    BY <1>5, <2>1, <2>4 DEF Prefix
<1>8. \A x \in cut' : x[1] = t => x[2] <= 2 * (n + 1)
  <2> SUFFICES ASSUME NEW x \in cut', x[1] = t PROVE x[2] <= 2 * (n + 1)
    OBVIOUS
  <2>1. CASE x \in cut
    <3>1. x[2] <= 2 * n /\ x[2] \in Nat
      BY <1>1, <2>1 DEF GoesOn, Typed, TypeOK
    <3> QED
      BY <1>2, <3>1
  <2>2. CASE x = <<t, 2 * (n + 1)>>
    BY <1>2, <2>2
  <2> QED
    BY <1>2, <1>4, <2>1, <2>2
<1> QED
  BY <1>2, <1>4, <1>5, <1>7, <1>8 DEF GoesOn

LEMMA TokenReading ==
  ASSUME Typed, Reading, NEW t \in Threads, NEW p \in Threads \X Nat, Placed(p),
         \/ tpc[t] = "first" /\ p = <<t, 0>>
         \/ tpc[t] = "store" /\ p = tok[t],
         Token(t, p)
  PROVE  Reading'
<1>1. PICK k \in TokenAt(t, p) : \E b : TokenEnds(t, p, k, b)
  BY TokenCases
<1>2. PICK b : TokenEnds(t, p, k, b)
  BY <1>1
<1>3. line' = line /\ TokenMoves(t)
  BY TokenLeaves
<1>4. \A u \in Threads :
        mixed'[u] <=> mixed[u] \/ (u # t /\ u \in Parsing) \/ (u = t /\ Parsing # {t})
  BY DEF Token, Disturbed, Typed, TypeOK
<1>5. ASSUME NEW u \in Threads, u # t PROVE ReadsOn(u)' /\ Named(u)'
  <2>1. tpc'[u] = tpc[u] /\ line'[u] = line[u] /\ list'[u] = list[u]
    <3>1. tpc'[u] = tpc[u]
      BY <1>3, <1>5 DEF TokenMoves, Typed, TypeOK
    <3>2. list'[u] = list[u]
      BY <1>2, <1>5 DEF TokenEnds, Adds, Ends, Typed, TypeOK
    <3> QED
      BY <1>3, <3>1, <3>2
  <2>2. tpc[u] \in {"first", "load", "store"} => mixed'[u]
    BY <1>4, <1>5 DEF Parsing
  <2>3. ReadsOn(u) /\ Named(u) /\ (mixed[u] => mixed'[u])
    BY <1>4 DEF Reading
  <2> QED
    BY <2>1, <2>2, <2>3 DEF ReadsOn, Named
<1>6. /\ Named(t)'
      /\ \/ /\ k # NoToken /\ b \in Behind(p) /\ Adds(t, k, b)
            /\ list'[t] = Append(list[t], k) /\ tpc'[t] = "load"
         \/ k = "junk" /\ list'[t] = <<>> /\ tpc'[t] = "reply"
         \/ k = NoToken /\ list'[t] = list[t] /\ tpc'[t] \in {"run", "reply"}
  BY <1>2, <1>3, TokenNames
<1>7. ASSUME ~mixed'[t] PROVE ReadsOn(t)'
  <2>1. ~mixed[t]
    BY <1>4, <1>7
  <2>2. GoesOn(t, p)
    BY <2>1 DEF Reading, ReadsOn
  <2>3. line[t] # <<>>
    <3>1. CASE tpc[t] = "first"
      BY <3>1 DEF Typed, Located, HasLine
    <3>2. CASE tpc[t] = "store"
      <4>1. list[t] # <<>> /\ list[t] \in Seq(Commands \cup {"junk"})
        BY <3>2 DEF Reading, Named, Typed, TypeOK, Lists
      <4>2. Len(list[t]) # 0
        BY <4>1
      <4>3. Len(list[t]) \in 0..Len(line[t])
        BY <2>2 DEF GoesOn, Prefix
      <4>4. Len(line[t]) # 0
        BY <4>2, <4>3
      <4> QED
        BY <4>4
    <3> QED
      BY <3>1, <3>2
  <2>4. PICK n : n = Len(list[t])
    OBVIOUS
  <2>5. /\ n \in Nat /\ Len(line[t]) \in Nat /\ n <= Len(line[t])
        /\ line[t] \in Seq(Commands)
        /\ n < Len(line[t]) => k # "junk" /\ k # NoToken
        /\ n = Len(line[t]) => k = NoToken
    BY <2>2, <2>3, <2>4, TokenFinds
  <2>6. CASE n < Len(line[t])
    <3>1. k # NoToken /\ b \in Behind(p) /\ Adds(t, k, b) /\ tpc'[t] = "load"
      BY <1>6, <2>5, <2>6
    <3>2. GoesOn(t, save)'
      BY <1>3, <2>2, <2>3, <3>1, ListGrows
    <3> QED
      BY <3>1, <3>2 DEF ReadsOn
  <2>7. CASE n = Len(line[t])
    <3>1. list'[t] = list[t] /\ tpc'[t] \in {"run", "reply"}
      BY <1>6, <2>5, <2>7 DEF NoToken
    <3>2. list[t] = line[t]
      <4>1. list[t] \in Seq(Commands \cup {"junk"}) /\ line[t] \in Seq(Commands \cup {"junk"})
        BY <2>5 DEF Typed, TypeOK, Lists
      <4>2. \A i \in 1..Len(list[t]) : list[t][i] = line[t][i]
        BY <2>2 DEF GoesOn, Prefix
      <4> QED
        BY <2>4, <2>7, <4>1, <4>2, SeqEqual
    <3> QED
      BY <1>3, <3>1, <3>2 DEF ReadsOn
  <2> QED
    BY <2>5, <2>6, <2>7
<1>8. ReadsOn(t)'
  BY <1>7 DEF ReadsOn
<1> QED
  BY <1>5, <1>6, <1>8 DEF Reading

LEMMA TokenStepsReading ==
  ASSUME Typed, Reading, NEW t \in Threads, TokFirst(t) \/ TokStore(t)
  PROVE  Reading'
<1>1. tok[t] \in Threads \X Nat /\ Placed(tok[t])
  BY DEF Typed, TypeOK, Located, InPlace
<1>2. TokFirst(t) => Placed(<<t, 0>>) /\ <<t, 0>> \in Threads \X Nat
  BY FirstPlaced DEF TokFirst
<1> QED
  BY <1>1, <1>2, TokenReading DEF TokFirst, TokStore

LEMMA EndReading ==
  ASSUME Typed, ServerEnds
  PROVE  Reading'
BY DEF ServerEnds, Typed, TypeOK, Reading, ReadsOn, Named

LEMMA ThreadReading ==
  ASSUME Typed, Reading, NEW t \in Threads, ThreadStep(t)
  PROVE  Reading'
<1>1. tpc \in [Threads -> {"none", "born", "recv", "first", "load", "store",
                            "run", "reply", "gone", "lost"}]
  BY DEF Typed, TypeOK
<1>2. CASE Start(t)
  BY <1>1, <1>2, ReadingKept DEF Start
<1>3. CASE NoMemory(t)
  BY <1>1, <1>3, ReadingKept DEF NoMemory
<1>4. CASE Recv(t)
  BY <1>4, RecvReading
<1>5. CASE PeerGone(t)
  BY <1>5, HangUpReading DEF PeerGone
<1>6. CASE TokFirst(t) \/ TokStore(t)
  BY <1>6, TokenStepsReading
<1>7. CASE TokLoad(t)
  <2>1. ASSUME NEW u \in Threads, u # t PROVE ReadsOn(u)' /\ Named(u)'
    <3>1. ReadsOn(u) /\ Named(u)
      BY DEF Reading
    <3>2. /\ tpc'[u] = tpc[u] /\ tok'[u] = tok[u]
          /\ UNCHANGED <<line, cut, list, mixed, save>>
      BY <1>7, <2>1 DEF TokLoad, Typed, TypeOK
    <3> QED
      BY <3>1, <3>2 DEF ReadsOn, Named, GoesOn, Prefix
  <2>2. ReadsOn(t)' /\ Named(t)'
    <3>1. ReadsOn(t) /\ Named(t)
      BY DEF Reading
    <3>2. /\ tpc[t] = "load" /\ tpc'[t] = "store" /\ tok'[t] = save
          /\ UNCHANGED <<line, cut, list, mixed, save>>
      BY <1>7 DEF TokLoad, Typed, TypeOK
    <3> QED
      BY <3>1, <3>2 DEF ReadsOn, Named, GoesOn, Prefix
  <2> QED
    BY <2>1, <2>2 DEF Reading
<1>8. CASE RunEnds(t)
  BY <1>1, <1>8 DEF RunEnds, Reading, ReadsOn, Named, GoesOn, Prefix, parseVars
<1>9. CASE Reply(t)
  BY <1>1, <1>9 DEF Reply, Reading, ReadsOn, Named, GoesOn, Prefix, parseVars
<1>10. CASE Answered(t)
  <2>1. CASE HangUp(t)
    BY <2>1, HangUpReading
  <2>2. CASE ~HangUp(t)
    <3>1. /\ tpc' = [tpc EXCEPT ![t] = "recv"]
          /\ list' = [list EXCEPT ![t] = <<>>] /\ mixed' = [mixed EXCEPT ![t] = FALSE]
          /\ UNCHANGED <<line, cut, tok, save>>
      BY <1>10, <2>2 DEF Answered, FreeList
    <3>2. ASSUME NEW u \in Threads, u # t PROVE ReadsOn(u)' /\ Named(u)'
      BY <3>1, <3>2, Elsewhere DEF Typed, TypeOK
    <3>3. tpc'[t] = "recv" /\ list'[t] = <<>>
      BY <3>1 DEF Typed, TypeOK
    <3>4. ReadsOn(t)' /\ Named(t)'
      BY <3>3 DEF ReadsOn, Named
    <3> QED
      BY <3>2, <3>4 DEF Reading
  <2> QED
    BY <2>1, <2>2
<1> QED
  BY <1>2, <1>3, <1>4, <1>5, <1>6, <1>7, <1>8, <1>9, <1>10 DEF ThreadStep

LEMMA NextReading ==
  ASSUME Typed, Reading, [Next]_vars
  PROVE  Reading'
<1>1. tpc \in [Threads -> {"none", "born", "recv", "first", "load", "store",
                            "run", "reply", "gone", "lost"}]
  BY DEF Typed, TypeOK
<1>2. CASE tpc' = tpc /\ UNCHANGED parseVars
  BY <1>2 DEF Reading, ReadsOn, Named, GoesOn, Prefix, parseVars
<1>3. ASSUME NEW c \in Clients, ClientStep(c) PROVE tpc' = tpc /\ UNCHANGED parseVars
  BY <1>3 DEF ClientStep, Connect, Send, SendFails, Receive, ReceiveEnds, Leave, Kill, threadVars
<1>4. CASE MainStep
  <2>1. CASE Accept
    BY <1>2, <2>1 DEF Accept, threadVars
  <2>2. CASE Create \/ CreateFails
    <3>1. /\ mpc = "create" /\ UNCHANGED parseVars
          /\ \E to \in {"born", "lost"} : tpc' = [tpc EXCEPT ![Len(acc)] = to]
      BY <2>2 DEF Create, CreateFails
    <3>2. Len(acc) \in Threads => tpc[Len(acc)] = "none"
      BY <3>1 DEF Typed, TypeOK, Located, NotYet, Threads
    <3> QED
      BY <1>1, <3>1, <3>2, ReadingKept
  <2> QED
    BY <1>4, <2>1, <2>2 DEF MainStep
<1>5. ASSUME NEW t \in Threads, ThreadStep(t) PROVE Reading'
  BY <1>5, ThreadReading
<1>6. CASE Failure
  BY <1>6, EndReading DEF Failure, AcceptFails, ForkFails, ReplyKills
<1>7. CASE UNCHANGED vars
  BY <1>2, <1>7 DEF vars, threadVars, parseVars
<1> QED
  BY <1>2, <1>3, <1>4, <1>5, <1>6, <1>7 DEF Next

\* A thread executes the line it received, unless another thread was inside
\* build_cmd_list() while it was: for any number of threads, also if they share a
\* descriptor, and whatever is freed or received meanwhile.
THEOREM LineOfOnesOwn ==
  ASSUME Clients # {}
  PROVE  Spec => []OwnLine
<1>1. Typed /\ Reading /\ [Next]_vars => (Typed /\ Reading)'
  BY NextTyped, NextReading
<1>2. Reading => OwnLine
  BY DEF Reading, ReadsOn, OwnLine
<1> QED
  BY InitTyped, InitReading, <1>1, <1>2, PTL DEF Spec

-----------------------------------------------------------------------------
(***************************************************************************)
(* Whom the threads answer.  A client that waits is in one of three        *)
(* situations: its request is under way, its thread owes it an answer, or  *)
(* the end mark is the last of what is under way to it.                    *)
(***************************************************************************)
Working == Serving \ {"recv"}

\* Thread t has a request whose last send is still to come.
Owes(t) == tpc[t] \in Working /\ ~(tpc[t] = "reply" /\ reply[t] = <<>>)

Busy(c) == \E t \in Threads : acc[t] = c /\ Owes(t)

Marked(c) == \E i \in 1..Len(down[c]) : down[c][i] = "eot"

EndsMarked(c) ==
  Len(down[c]) > 0 /\ \A i \in 1..Len(down[c]) : down[c][i] = "eot" <=> i = Len(down[c])

Sync(c) ==
  Connected(c) /\ ~Gone(c) =>
    \/ cli[c] = "prompt" /\ up[c] = <<>> /\ ~Busy(c) /\ ~Marked(c)
    \/ cli[c] = "wait" /\ Len(up[c]) = 1 /\ ~Busy(c) /\ ~Marked(c)
    \/ cli[c] = "wait" /\ up[c] = <<>> /\ Busy(c) /\ ~Marked(c)
    \/ cli[c] = "wait" /\ up[c] = <<>> /\ ~Busy(c) /\ EndsMarked(c)

Fresh == \A c \in Clients : cli[c] = "off" => up[c] = <<>> /\ down[c] = <<>>

Answering == \A t \in Threads : Owes(t) /\ tpc[t] \in {"run", "reply"} =>
                                  reply[t] \in {<<"eot">>, <<"exit", "eot">>}

Steps == Fresh /\ Answering /\ \A c \in Clients : Sync(c)

AllInv == Typed /\ Reading /\ Inv /\ Steps

LEMMA InitSteps == Init => Steps
<1> SUFFICES ASSUME Init PROVE Steps
  OBVIOUS
<1>1. \A c \in Clients : ~Connected(c)
  BY ConstantsAssumption DEF Init, Connected, Waiting
<1> QED
  BY <1>1 DEF Init, Steps, Fresh, Answering, Sync, Owes, Working, Serving

\* Two threads that serve do not serve the same connection.
LEMMA Unique ==
  ASSUME Inv, NEW t \in Threads, NEW u \in Threads,
         tpc[t] \in Serving, tpc[u] \in Serving, acc[t] = acc[u]
  PROVE  t = u
BY DEF Inv, Made, Once, Serving

\* Thread t speaks with a client that is not "off", over its own connection.
LEMMA OwnPeer ==
  ASSUME Inv, NEW t \in Threads, tpc[t] \in Serving
  PROVE  /\ Peer(t) = acc[t] /\ acc[t] \in Clients /\ acc[t] # Nobody
         /\ Connected(acc[t]) /\ cli[acc[t]] # "off"
<1>1. t \in 1..Len(acc) /\ tfd[t] \in Fds /\ fdt[tfd[t]] = acc[t]
  BY DEF Inv, Made, Own, Serving
<1>2. acc[t] \in Clients /\ cli[acc[t]] # "off"
  BY <1>1 DEF Inv, Shapes, Once
<1> QED
  BY <1>1, <1>2, ConstantsAssumption DEF Peer, Connected

\* What a step of thread t does to who is owed an answer.
LEMMA Turn ==
  ASSUME Inv, NEW t \in Threads, tpc[t] \in Serving, acc' = acc,
         \A u \in Threads : u # t => tpc'[u] = tpc[u] /\ reply'[u] = reply[u]
  PROVE  /\ \A d : d # acc[t] => (Busy(d)' <=> Busy(d))
         /\ Busy(acc[t]) <=> Owes(t)
         /\ Busy(acc[t])' <=> Owes(t)'
<1>1. \A u \in Threads : u # t => (Owes(u)' <=> Owes(u))
  BY DEF Owes
<1>2. \A u \in Threads : Owes(u) /\ acc[u] = acc[t] => u = t
  BY Unique DEF Owes, Working
<1> QED
  BY <1>1, <1>2 DEF Busy

LEMMA SyncKept ==
  ASSUME NEW c, Sync(c), Connected(c)' => Connected(c),
         cli'[c] = cli[c], up'[c] = up[c], down'[c] = down[c], Busy(c)' <=> Busy(c)
  PROVE  Sync(c)'
BY DEF Sync, Gone, Marked, EndsMarked

-----------------------------------------------------------------------------
(* The clients.                                                            *)

\* A step of client c that leaves alone what the others send and receive.
LEMMA Others ==
  ASSUME Steps, NEW c \in Clients,
         \A d \in Clients : d # c => cli'[d] = cli[d] /\ up'[d] = up[d] /\ down'[d] = down[d],
         backlog' = backlog \/ backlog' = Append(backlog, c),
         backlog \in Seq(Clients),
         UNCHANGED <<acc, fdt, tpc, reply>>
  PROVE  /\ \A d \in Clients : d # c => Sync(d)'
         /\ Answering'
         /\ Busy(c)' <=> Busy(c)
         /\ backlog' = backlog => (Connected(c)' <=> Connected(c))
<1>1. \A t \in Threads : Owes(t)' <=> Owes(t)
  BY DEF Owes
<1>2. \A d : Busy(d)' <=> Busy(d)
  BY <1>1 DEF Busy
<1>3. \A d : d # c /\ Connected(d)' => Connected(d)
  BY DEF Connected, Waiting
<1>4. ASSUME NEW d \in Clients, d # c PROVE Sync(d)'
  <2>1. Sync(d) /\ (Busy(d)' <=> Busy(d)) /\ (Connected(d)' => Connected(d))
    BY <1>2, <1>3, <1>4 DEF Steps
  <2> QED
    BY <1>4, <2>1, SyncKept
<1>5. Answering'
  BY <1>1 DEF Steps, Answering
<1>6. backlog' = backlog => (Connected(c)' <=> Connected(c))
  BY DEF Connected, Waiting
<1> QED
  BY <1>2, <1>4, <1>5, <1>6

LEMMA ConnectSteps ==
  ASSUME AllInv, NEW c \in Clients, Connect(c)
  PROVE  Steps'
<1>1. backlog \in Seq(Clients) /\ Steps /\ Inv /\ cli \in [Clients -> {"off", "prompt", "wait", "left", "failed", "killed"}]
  BY DEF AllInv, Typed, TypeOK
<1>2. /\ cli' = [cli EXCEPT ![c] = "prompt"] /\ cli[c] = "off"
      /\ backlog' = Append(backlog, c)
      /\ UNCHANGED <<up, down, acc, fdt, tpc, reply>>
  BY DEF Connect, threadVars
<1>3. (\A d \in Clients : d # c => Sync(d)') /\ Answering' /\ (Busy(c)' <=> Busy(c))
  <2>1. \A d \in Clients : d # c => cli'[d] = cli[d] /\ up'[d] = up[d] /\ down'[d] = down[d]
    BY <1>1, <1>2
  <2> QED
    BY <1>1, <1>2, <2>1, Others
<1>4. up[c] = <<>> /\ down[c] = <<>>
  BY <1>1, <1>2 DEF Steps, Fresh
<1>5. ~Busy(c)
  <2>1. ASSUME NEW t \in Threads, acc[t] = c, Owes(t) PROVE FALSE
    BY <1>1, <1>2, <2>1, OwnPeer DEF Owes, Working
  <2> QED
    BY <2>1 DEF Busy
<1>6. Sync(c)'
  BY <1>1, <1>2, <1>3, <1>4, <1>5 DEF Sync, Marked
<1>7. Fresh'
  BY <1>1, <1>2 DEF Steps, Fresh
<1> QED
  BY <1>3, <1>6, <1>7 DEF Steps

\* A client that is not there any more, or whose connection is not, is in step.
LEMMA LeavingSteps ==
  ASSUME AllInv, NEW c \in Clients,
         NEW to \in {"prompt", "left", "failed", "killed"},
         to = "prompt" => ~Connected(c),
         cli' = [cli EXCEPT ![c] = to],
         down' = down \/ down' = [down EXCEPT ![c] = <<>>],
         UNCHANGED <<up, backlog, acc, fdt, tpc, reply>>
  PROVE  Steps'
<1>1. backlog \in Seq(Clients) /\ Steps /\ cli \in [Clients -> {"off", "prompt", "wait", "left", "failed", "killed"}]
      /\ down \in [Clients -> Seq({"out", "exit", "eot"})]
  BY DEF AllInv, Typed, TypeOK
<1>2. /\ \A d \in Clients : d # c => Sync(d)'
      /\ Answering'
      /\ Connected(c)' <=> Connected(c)
  <2>1. \A d \in Clients : d # c => cli'[d] = cli[d] /\ up'[d] = up[d] /\ down'[d] = down[d]
    BY <1>1
  <2> QED
    BY <1>1, <2>1, Others
<1>3. Sync(c)'
  BY <1>1, <1>2 DEF Sync, Gone
<1>4. Fresh'
  BY <1>1 DEF Steps, Fresh
<1> QED
  BY <1>2, <1>3, <1>4 DEF Steps

LEMMA SendSteps ==
  ASSUME AllInv, NEW c \in Clients, NEW l \in Lines, Send(c, l)
  PROVE  Steps'
<1>1. backlog \in Seq(Clients) /\ Steps /\ cli \in [Clients -> {"off", "prompt", "wait", "left", "failed", "killed"}]
      /\ up \in [Clients -> Seq(Lines)]
  BY DEF AllInv, Typed, TypeOK
<1>2. /\ cli' = [cli EXCEPT ![c] = "wait"] /\ cli[c] = "prompt"
      /\ up' = IF Connected(c) THEN [up EXCEPT ![c] = Append(@, l)] ELSE up
      /\ UNCHANGED <<backlog, down, acc, fdt, tpc, reply>>
  BY DEF Send, threadVars, mainVars
<1>3. /\ \A d \in Clients : d # c => Sync(d)'
      /\ Answering'
      /\ Busy(c)' <=> Busy(c)
      /\ Connected(c)' <=> Connected(c)
  <2>1. \A d \in Clients : d # c => cli'[d] = cli[d] /\ up'[d] = up[d] /\ down'[d] = down[d]
    BY <1>1, <1>2
  <2> QED
    BY <1>1, <1>2, <2>1, Others
<1>4. Sync(c)'
  <2>1. CASE Connected(c)
    <3>1. up[c] = <<>> /\ ~Busy(c) /\ ~Marked(c)
      BY <1>1, <1>2, <2>1 DEF Steps, Sync, Gone
    <3>2. up'[c] = Append(<<>>, l) /\ Len(up'[c]) = 1
      BY <1>1, <1>2, <2>1, <3>1
    <3> QED
      BY <1>1, <1>2, <1>3, <3>1, <3>2 DEF Sync, Marked
  <2>2. CASE ~Connected(c)
    BY <1>3, <2>2 DEF Sync
  <2> QED
    BY <2>1, <2>2
<1>5. Fresh'
  BY <1>1, <1>2 DEF Steps, Fresh
<1> QED
  BY <1>3, <1>4, <1>5 DEF Steps

\* What recv() takes from the sends that have arrived, and what it leaves.
LEMMA PrefixFacts ==
  ASSUME NEW S, NEW s \in Seq(S), NEW n \in 1..Len(s)
  PROVE  /\ SubSeq(s, 1, n) \in Seq(S)
         /\ Len(SubSeq(s, 1, n)) = n
         /\ \A i \in 1..n : SubSeq(s, 1, n)[i] = s[i]
OBVIOUS

LEMMA SuffixFacts ==
  ASSUME NEW S, NEW s \in Seq(S), NEW n \in 1..Len(s)
  PROVE  /\ SubSeq(s, n + 1, Len(s)) \in Seq(S)
         /\ Len(SubSeq(s, n + 1, Len(s))) = Len(s) - n
         /\ \A i \in 1..(Len(s) - n) : SubSeq(s, n + 1, Len(s))[i] = s[n + i]
OBVIOUS

LEMMA ReceiveSteps ==
  ASSUME AllInv, NEW c \in Clients, Receive(c)
  PROVE  Steps'
<1>1. backlog \in Seq(Clients) /\ Steps /\ cli \in [Clients -> {"off", "prompt", "wait", "left", "failed", "killed"}]
      /\ down \in [Clients -> Seq({"out", "exit", "eot"})]
  BY DEF AllInv, Typed, TypeOK
<1>2. cli[c] = "wait" /\ UNCHANGED <<up, backlog, acc, fdt, tpc, reply>>
  BY DEF Receive, threadVars, mainVars
<1>3. PICK n \in 1..Len(down[c]) :
        LET chunk == SubSeq(down[c], 1, n) IN
        /\ cli' = [cli EXCEPT ![c] =
             IF chunk = <<"exit", "eot">> THEN "left" ELSE IF chunk[n] = "eot" THEN "prompt" ELSE "wait"]
        /\ down' = [down EXCEPT ![c] = SubSeq(@, n + 1, Len(@))]
  BY DEF Receive
<1>4. PICK s \in Seq({"out", "exit", "eot"}) : s = down[c]
  BY <1>1
<1>5. PICK len \in Nat : len = Len(s)
  OBVIOUS
<1>6. n \in 1..Len(s) /\ n \in 1..len
  BY <1>3, <1>4, <1>5
<1>7. PICK rest \in Seq({"out", "exit", "eot"}) :
        /\ rest = SubSeq(s, n + 1, Len(s))
        /\ Len(rest) = Len(s) - n
        /\ \A i \in 1..(Len(s) - n) : rest[i] = s[n + i]
  <2>1. n \in 1..Len(s)
    BY <1>6
  <2>2. /\ SubSeq(s, n + 1, Len(s)) \in Seq({"out", "exit", "eot"})
        /\ Len(SubSeq(s, n + 1, Len(s))) = Len(s) - n
        /\ \A i \in 1..(Len(s) - n) : SubSeq(s, n + 1, Len(s))[i] = s[n + i]
    BY <2>1, SuffixFacts
  <2> QED
    BY <2>2
<1>8. PICK chunk \in Seq({"out", "exit", "eot"}) :
        /\ chunk = SubSeq(s, 1, n)
        /\ Len(chunk) = n
        /\ \A i \in 1..n : chunk[i] = s[i]
  BY <1>6, PrefixFacts
<1>9. Len(rest) = len - n /\ \A i \in 1..(len - n) : n + i \in 1..len /\ rest[i] = s[n + i]
  BY <1>5, <1>6, <1>7
<1>10. down'[c] = rest /\ \A d \in Clients : d # c => cli'[d] = cli[d] /\ up'[d] = up[d] /\ down'[d] = down[d]
  BY <1>1, <1>2, <1>3, <1>4, <1>7
<1>11. cli'[c] = IF chunk = <<"exit", "eot">> THEN "left" ELSE IF chunk[n] = "eot" THEN "prompt" ELSE "wait"
  BY <1>1, <1>3, <1>4, <1>8
<1>12. /\ \A d \in Clients : d # c => Sync(d)'
       /\ Answering'
       /\ Busy(c)' <=> Busy(c)
       /\ Connected(c)' <=> Connected(c)
  BY <1>1, <1>2, <1>10, Others
<1>13. chunk[n] = s[n] /\ (chunk = <<"exit", "eot">> => chunk[n] = "eot")
  <2>1. chunk[n] = s[n]
    BY <1>6, <1>8
  <2>2. ASSUME chunk = <<"exit", "eot">> PROVE chunk[n] = "eot"
    <3>1. Len(<<"exit", "eot">>) = 2 /\ <<"exit", "eot">>[2] = "eot"
      OBVIOUS
    <3> QED
      BY <1>8, <2>2, <3>1
  <2> QED
    BY <2>1, <2>2
<1>14. Sync(c)'
  <2>1. SUFFICES ASSUME Connected(c)', ~Gone(c)' PROVE Sync(c)'
    BY DEF Sync
  <2>2. Connected(c) /\ ~Gone(c) /\ Sync(c)
    BY <1>1, <1>2, <1>12, <2>1 DEF Gone, Steps
  <2>3. CASE ~Marked(c)
    <3>1. s[n] # "eot"
      BY <1>4, <1>5, <1>6, <2>3 DEF Marked
    <3>2. cli'[c] = "wait"
      BY <1>11, <1>13, <3>1
    <3>3. ~Marked(c)'
      <4>1. \A i \in 1..len : s[i] # "eot"
        BY <1>4, <1>5, <2>3 DEF Marked
      <4>2. \A i \in 1..Len(rest) : rest[i] # "eot"
        BY <1>9, <4>1
      <4> QED
        BY <1>10, <4>2 DEF Marked
    <3>4. EndsMarked(c) => Marked(c)
      <4>1. EndsMarked(c) => len > 0 /\ (s[len] = "eot" <=> len = len)
        BY <1>4, <1>5 DEF EndsMarked
      <4> QED
        BY <1>4, <1>5, <4>1 DEF Marked
    <3> QED
      BY <1>2, <1>12, <2>2, <2>3, <3>2, <3>3, <3>4 DEF Sync
  <2>4. CASE Marked(c)
    <3>1. up[c] = <<>> /\ ~Busy(c) /\ \A i \in 1..len : s[i] = "eot" <=> i = len
      BY <1>2, <1>4, <1>5, <2>2, <2>4 DEF Sync, EndsMarked
    <3>2. CASE n < len
      <4>1. cli'[c] = "wait"
        BY <1>6, <1>11, <1>13, <3>1, <3>2
      <4>2. \A i \in 1..(len - n) : rest[i] = "eot" <=> i = len - n
        <5>1. \A i \in 1..(len - n) : n + i = len <=> i = len - n
          BY <1>6
        <5> QED
          BY <1>9, <3>1, <5>1
      <4>3. len - n > 0
        BY <1>6, <3>2
      <4>4. EndsMarked(c)'
        BY <1>10, <1>9, <4>2, <4>3 DEF EndsMarked
      <4> QED
        BY <1>2, <1>12, <3>1, <4>1, <4>4 DEF Sync
    <3>3. CASE ~(n < len)
      <4>1. n = len /\ chunk[n] = "eot"
        BY <1>6, <1>13, <3>1, <3>3
      <4>2. cli'[c] = "prompt"
        BY <1>11, <2>1, <4>1 DEF Gone
      <4>3. ~Marked(c)'
        BY <1>6, <1>10, <1>9, <4>1 DEF Marked
      <4> QED
        BY <1>2, <1>12, <3>1, <4>2, <4>3 DEF Sync
    <3> QED
      BY <3>2, <3>3
  <2> QED
    BY <2>3, <2>4
<1>15. Fresh'
  BY <1>1, <1>2, <1>10, <1>11 DEF Steps, Fresh
<1> QED
  BY <1>12, <1>14, <1>15 DEF Steps

LEMMA ClientSteps2 ==
  ASSUME AllInv, NEW c \in Clients, ClientStep(c)
  PROVE  Steps'
<1>1. CASE Connect(c)
  BY <1>1, ConnectSteps
<1>2. ASSUME NEW l \in Lines, Send(c, l) PROVE Steps'
  BY <1>2, SendSteps
<1>3. CASE Receive(c)
  BY <1>3, ReceiveSteps
<1>4. CASE SendFails(c)
  BY <1>4, LeavingSteps DEF SendFails, threadVars, mainVars
<1>5. CASE ReceiveEnds(c)
  BY <1>5, LeavingSteps DEF ReceiveEnds, threadVars, mainVars
<1>6. CASE Leave(c)
  BY <1>6, LeavingSteps DEF Leave, threadVars, mainVars
<1>7. CASE Kill(c)
  BY <1>7, LeavingSteps DEF Kill, threadVars, mainVars
<1> QED
  BY <1>1, <1>2, <1>3, <1>4, <1>5, <1>6, <1>7 DEF ClientStep

-----------------------------------------------------------------------------
(* The main thread, and the end of the process.                            *)

LEMMA EndSteps ==
  ASSUME AllInv, ServerEnds
  PROVE  Steps'
<1>1. backlog' = <<>> /\ fdt' = [f \in Fds |-> Nobody] /\ cli' = cli /\ down' = down
      /\ up' = [c \in Clients |-> <<>>]
  BY DEF ServerEnds, clientVars
<1>2. \A c \in Clients : ~Connected(c)'
  BY <1>1, ConstantsAssumption DEF Connected, Waiting
<1>3. \A t \in Threads : ~Owes(t)'
  BY DEF ServerEnds, Owes, Working, Serving
<1>4. Fresh'
  BY <1>1 DEF AllInv, Steps, Fresh
<1> QED
  BY <1>2, <1>3, <1>4 DEF Steps, Sync, Answering

LEMMA MainSteps ==
  ASSUME AllInv, MainStep
  PROVE  Steps'
<1>1. /\ Steps /\ Inv
      /\ backlog \in Seq(Clients) /\ acc \in Seq(Clients)
      /\ fdt \in [Fds -> Clients \cup {Nobody}]
      /\ tpc \in [Threads -> {"none", "born", "recv", "first", "load", "store",
                               "run", "reply", "gone", "lost"}]
  BY DEF AllInv, Typed, TypeOK
<1>2. UNCHANGED <<cli, up, down, reply>>
  BY DEF MainStep, Accept, Create, CreateFails, clientVars, threadVars
<1>3. \A c \in Clients : Connected(c)' => Connected(c)
  <2>1. CASE Accept
    <3>1. PICK f \in Fds : fdt' = [fdt EXCEPT ![f] = Head(backlog)]
      BY <2>1 DEF Accept
    <3>2. backlog # <<>> /\ backlog' = Tail(backlog)
      BY <2>1 DEF Accept
    <3>3. Head(backlog) = backlog[1] /\ 1 \in DOMAIN backlog
      BY <1>1, <3>2
    <3>4. \A j \in DOMAIN backlog' : j + 1 \in DOMAIN backlog /\ backlog'[j] = backlog[j + 1]
      BY <1>1, <3>2
    <3>5. Waiting' \subseteq Waiting /\ Head(backlog) \in Waiting
      BY <3>3, <3>4 DEF Waiting
    <3>6. \A g \in Fds : fdt'[g] = fdt[g] \/ fdt'[g] = Head(backlog)
      BY <1>1, <3>1
    <3> QED
      BY <3>5, <3>6 DEF Connected
  <2>2. CASE Create \/ CreateFails
    BY <2>2 DEF Create, CreateFails, Connected, Waiting
  <2> QED
    BY <2>1, <2>2 DEF MainStep
<1>4. \A t \in Threads : (Owes(t)' <=> Owes(t)) /\ (Owes(t) => tpc'[t] = tpc[t] /\ acc'[t] = acc[t])
  <2>1. CASE Accept
    <3>1. tpc' = tpc /\ acc' = Append(acc, Head(backlog))
      BY <2>1 DEF Accept, threadVars
    <3>2. Head(backlog) \in Clients
      BY <1>1, <2>1 DEF Accept
    <3>3. \A i \in 1..Len(acc) : acc'[i] = acc[i]
      BY <1>1, <3>1, <3>2
    <3>4. \A t \in Threads : Owes(t) => t \in 1..Len(acc)
      BY <1>1 DEF Owes, Working, Serving, Inv, Made
    <3> QED
      BY <1>2, <3>1, <3>3, <3>4 DEF Owes
  <2>2. CASE Create \/ CreateFails
    <3>1. acc' = acc /\ \E to \in {"born", "lost"} : tpc' = [tpc EXCEPT ![Len(acc)] = to]
      BY <2>2 DEF Create, CreateFails
    <3>2. \A t \in Threads : t = Len(acc) => tpc[t] = "none"
      BY <1>1, <2>2 DEF Create, CreateFails, Inv, Creating
    <3>3. \A t \in Threads : t # Len(acc) => tpc'[t] = tpc[t]
      BY <1>1, <3>1
    <3>4. \A t \in Threads : t = Len(acc) => tpc'[t] \in {"born", "lost"}
      BY <1>1, <3>1
    <3>5. \A t \in Threads : t = Len(acc) => ~Owes(t) /\ ~Owes(t)'
      BY <3>2, <3>4 DEF Owes, Working, Serving
    <3>6. \A t \in Threads : t # Len(acc) => (Owes(t)' <=> Owes(t))
      BY <1>2, <3>3 DEF Owes
    <3> QED
      BY <3>1, <3>3, <3>5, <3>6
  <2> QED
    BY <2>1, <2>2 DEF MainStep
<1>5. \A c : Busy(c)' <=> Busy(c)
  BY <1>4 DEF Busy
<1>6. \A c \in Clients : Sync(c)'
  <2> SUFFICES ASSUME NEW c \in Clients PROVE Sync(c)'
    OBVIOUS
  <2>1. Sync(c) /\ (Busy(c)' <=> Busy(c)) /\ (Connected(c)' => Connected(c))
    BY <1>1, <1>3, <1>5 DEF Steps
  <2> QED
    BY <1>2, <2>1, SyncKept
<1>7. Fresh' /\ Answering'
  BY <1>1, <1>2, <1>4 DEF Steps, Fresh, Answering
<1> QED
  BY <1>6, <1>7 DEF Steps

-----------------------------------------------------------------------------
(* The threads.                                                            *)

\* Nothing that counts for being in step changes.
LEMMA StillInStep ==
  ASSUME Steps,
         UNCHANGED <<cli, up, down, backlog, acc>>,
         \A f \in Fds : fdt'[f] = fdt[f] \/ fdt'[f] = Nobody,
         \A t \in Threads : Owes(t)' <=> Owes(t),
         \A t \in Threads : Owes(t)' /\ tpc'[t] \in {"run", "reply"} =>
                              reply'[t] \in {<<"eot">>, <<"exit", "eot">>}
  PROVE  Steps'
<1>1. \A c : Busy(c)' <=> Busy(c)
  BY DEF Busy
<1>2. \A c \in Clients : Connected(c)' => Connected(c)
  BY ConstantsAssumption DEF Connected, Waiting
<1>3. \A c \in Clients : Sync(c)'
  <2> SUFFICES ASSUME NEW c \in Clients PROVE Sync(c)'
    OBVIOUS
  <2>1. Sync(c) /\ (Busy(c)' <=> Busy(c)) /\ (Connected(c)' => Connected(c))
    BY <1>1, <1>2 DEF Steps
  <2> QED
    BY <2>1, SyncKept
<1>4. Fresh' /\ Answering'
  BY DEF Steps, Fresh, Answering
<1> QED
  BY <1>3, <1>4 DEF Steps

\* The thread ends, having answered all it received.
LEMMA HangUpSteps ==
  ASSUME AllInv, NEW t \in Threads, ~Owes(t), HangUp(t), UNCHANGED up
  PROVE  Steps'
<1>1. /\ tpc \in [Threads -> {"none", "born", "recv", "first", "load", "store",
                               "run", "reply", "gone", "lost"}]
      /\ fdt \in [Fds -> Clients \cup {Nobody}]
      /\ Steps
  BY DEF AllInv, Typed, TypeOK
<1>2. /\ UNCHANGED <<cli, up, down, backlog, acc, reply>>
      /\ tpc' = [tpc EXCEPT ![t] = "gone"]
      /\ fdt' = [fdt EXCEPT ![tfd[t]] = Nobody]
  BY DEF HangUp, clientVars, mainVars
<1>3. \A f \in Fds : fdt'[f] = fdt[f] \/ fdt'[f] = Nobody
  BY <1>1, <1>2
<1>4. ~Owes(t)' /\ \A u \in Threads : u # t => tpc'[u] = tpc[u] /\ (Owes(u)' <=> Owes(u))
  BY <1>1, <1>2 DEF Owes, Working, Serving
<1>5. \A u \in Threads : Owes(u)' /\ tpc'[u] \in {"run", "reply"} =>
                           reply'[u] \in {<<"eot">>, <<"exit", "eot">>}
  BY <1>1, <1>2, <1>4 DEF Steps, Answering
<1> QED
  BY <1>1, <1>2, <1>3, <1>4, <1>5, StillInStep

\* Thread t goes from one place to another, and its reply may be set; it owes as
\* much as before.
LEMMA QuietSteps ==
  ASSUME AllInv, NEW t \in Threads,
         UNCHANGED <<cli, up, down, backlog, acc, fdt>>,
         \A u \in Threads : u # t => tpc'[u] = tpc[u] /\ reply'[u] = reply[u],
         Owes(t)' <=> Owes(t),
         Owes(t)' /\ tpc'[t] \in {"run", "reply"} => reply'[t] \in {<<"eot">>, <<"exit", "eot">>}
  PROVE  Steps'
<1>1. Steps
  BY DEF AllInv
<1>2. \A u \in Threads : u # t => (Owes(u)' <=> Owes(u))
  BY DEF Owes
<1>3. \A u \in Threads : Owes(u)' /\ tpc'[u] \in {"run", "reply"} =>
                           reply'[u] \in {<<"eot">>, <<"exit", "eot">>}
  BY <1>1, <1>2 DEF Steps, Answering
<1> QED
  BY <1>1, <1>2, <1>3, StillInStep

LEMMA RecvSteps ==
  ASSUME AllInv, NEW t \in Threads, Recv(t)
  PROVE  Steps'
<1>1. /\ Steps /\ Inv
      /\ tpc \in [Threads -> {"none", "born", "recv", "first", "load", "store",
                               "run", "reply", "gone", "lost"}]
      /\ up \in [Clients -> Seq(Lines)]
  BY DEF AllInv, Typed, TypeOK
<1>2. /\ tpc[t] = "recv" /\ tpc' = [tpc EXCEPT ![t] = "first"]
      /\ up[Peer(t)] # <<>> /\ up' = [up EXCEPT ![Peer(t)] = Tail(@)]
      /\ UNCHANGED <<cli, down, backlog, acc, fdt, reply>>
  BY DEF Recv, clientVars, mainVars
<1>3. PICK c \in Clients : c = acc[t] /\ c = Peer(t) /\ cli[c] # "off" /\ tpc[t] \in Serving
  BY <1>1, <1>2, OwnPeer DEF Serving
<1>4. \A u \in Threads : u # t => tpc'[u] = tpc[u] /\ reply'[u] = reply[u]
  BY <1>1, <1>2
<1>5. tpc'[t] = "first" /\ ~Owes(t) /\ Owes(t)'
  BY <1>1, <1>2 DEF Owes, Working, Serving
<1>6. /\ \A d : d # c => (Busy(d)' <=> Busy(d))
      /\ ~Busy(c) /\ Busy(c)'
  BY <1>1, <1>2, <1>3, <1>4, <1>5, Turn
<1>7. \A d : Connected(d)' <=> Connected(d)
  BY <1>2 DEF Connected, Waiting
<1>8. ASSUME NEW d \in Clients, d # c PROVE Sync(d)'
  <2>1. Sync(d) /\ up'[d] = up[d]
    BY <1>1, <1>2, <1>3, <1>8 DEF Steps
  <2> QED
    BY <1>2, <1>6, <1>7, <1>8, <2>1, SyncKept
<1>9. Sync(c)'
  <2>1. SUFFICES ASSUME Connected(c), ~Gone(c) PROVE Sync(c)'
    BY <1>2, <1>7 DEF Sync, Gone
  <2>2. cli[c] = "wait" /\ Len(up[c]) = 1 /\ ~Marked(c)
    BY <1>1, <1>2, <1>3, <2>1 DEF Steps, Sync
  <2>3. up'[c] = <<>>
    <3>1. up[c] \in Seq(Lines) /\ up'[c] = Tail(up[c])
      BY <1>1, <1>2, <1>3
    <3>2. up[c] # <<>>
      BY <1>2, <1>3
    <3>3. Tail(up[c]) \in Seq(Lines) /\ Len(Tail(up[c])) = Len(up[c]) - 1
      BY <3>1, <3>2, HeadTailProperties
    <3>4. Len(Tail(up[c])) = 0
      BY <2>2, <3>3
    <3> QED
      BY <3>1, <3>3, <3>4, EmptySeq
  <2> QED
    BY <1>2, <1>6, <2>2, <2>3 DEF Sync, Marked
<1>10. Fresh'
  BY <1>1, <1>2, <1>3 DEF Steps, Fresh
<1>11. Answering'
  BY <1>1, <1>2, <1>4, <1>5 DEF Steps, Answering, Owes
<1>12. \A d \in Clients : Sync(d)'
  BY <1>8, <1>9
<1> QED
  BY <1>10, <1>11, <1>12 DEF Steps

\* A send to the client of thread t, which owed it an answer: of the end mark, or
\* of anything else.
LEMMA SentSteps ==
  ASSUME AllInv, NEW t \in Threads, NEW s \in {"out", "exit", "eot"},
         Owes(t), tpc[t] \in {"run", "reply"},
         down' = Deliver(Peer(t), s),
         UNCHANGED <<cli, up, backlog, acc, fdt>>,
         \A u \in Threads : u # t => tpc'[u] = tpc[u] /\ reply'[u] = reply[u],
         Owes(t)' <=> s # "eot",
         Owes(t)' /\ tpc'[t] \in {"run", "reply"} => reply'[t] \in {<<"eot">>, <<"exit", "eot">>}
  PROVE  Steps'
<1>1. Steps /\ Inv /\ down \in [Clients -> Seq({"out", "exit", "eot"})]
  BY DEF AllInv, Typed, TypeOK
<1>2. tpc[t] \in Serving
  BY DEF Serving
<1>3. PICK c \in Clients : /\ c = acc[t] /\ c = Peer(t) /\ c # Nobody
                          /\ Connected(c) /\ cli[c] # "off"
  BY <1>1, <1>2, OwnPeer
<1>4. /\ \A d : d # c => (Busy(d)' <=> Busy(d))
      /\ Busy(c)
      /\ Busy(c)' <=> s # "eot"
  BY <1>1, <1>2, <1>3, Turn
<1>5. \A d : Connected(d)' <=> Connected(d)
  BY DEF Connected, Waiting
<1>6. down' = IF Gone(c) THEN down ELSE [down EXCEPT ![c] = Append(@, s)]
  BY <1>3 DEF Deliver
<1>7. ASSUME NEW d \in Clients, d # c PROVE Sync(d)'
  <2>1. Sync(d) /\ down'[d] = down[d]
    BY <1>1, <1>6, <1>7 DEF Steps
  <2> QED
    BY <1>4, <1>5, <1>7, <2>1, SyncKept
<1>8. Sync(c)'
  <2>1. SUFFICES ASSUME ~Gone(c) PROVE Sync(c)'
    BY DEF Sync, Gone
  <2>2. cli[c] = "wait" /\ up[c] = <<>> /\ ~Marked(c)
    BY <1>1, <1>3, <1>4, <2>1 DEF Steps, Sync
  <2>3. PICK n \in Nat : n = Len(down[c])
    BY <1>1, <1>3
  <2>4. /\ Len(down'[c]) = n + 1 /\ down'[c][n + 1] = s
        /\ \A i \in 1..n : down'[c][i] = down[c][i]
    BY <1>1, <1>3, <1>6, <2>1, <2>3
  <2>5. \A i \in 1..n : down'[c][i] # "eot"
    BY <2>2, <2>3, <2>4 DEF Marked
  <2>6. \A i \in 1..(n + 1) : i \in 1..n \/ i = n + 1
    BY <2>3
  <2>7. CASE s = "eot"
    <3>1. EndsMarked(c)'
      BY <2>3, <2>4, <2>5, <2>6, <2>7 DEF EndsMarked
    <3> QED
      BY <1>4, <2>2, <2>7, <3>1 DEF Sync
  <2>8. CASE s # "eot"
    <3>1. ~Marked(c)'
      BY <2>3, <2>4, <2>5, <2>6, <2>8 DEF Marked
    <3> QED
      BY <1>4, <2>2, <2>8, <3>1 DEF Sync
  <2> QED
    BY <2>7, <2>8
<1>9. Fresh'
  BY <1>1, <1>3, <1>6 DEF Steps, Fresh
<1>10. Answering'
  <2>1. \A u \in Threads : u # t => (Owes(u)' <=> Owes(u))
    BY DEF Owes
  <2> QED
    BY <1>1, <2>1 DEF Steps, Answering
<1> QED
  BY <1>7, <1>8, <1>9, <1>10 DEF Steps

\* A thread that parses owes an answer, and still does after each call of strtok().
LEMMA TokenSteps ==
  ASSUME AllInv, NEW t \in Threads, NEW p, tpc[t] \in {"first", "store"}, Token(t, p)
  PROVE  Steps'
<1>1. /\ tpc \in [Threads -> {"none", "born", "recv", "first", "load", "store",
                               "run", "reply", "gone", "lost"}]
      /\ reply \in [Threads -> Seq({"exit", "eot"})]
  BY DEF AllInv, Typed, TypeOK
<1>2. UNCHANGED <<cli, up, down, backlog, acc, fdt>> /\ TokenMoves(t)
  BY TokenLeaves
<1>3. /\ \/ tpc'[t] = "load"
         \/ tpc'[t] \in {"run", "reply"} /\ reply'[t] \in {<<"eot">>, <<"exit", "eot">>}
      /\ \A u \in Threads : u # t => tpc'[u] = tpc[u] /\ reply'[u] = reply[u]
  BY <1>1, <1>2 DEF TokenMoves
<1>4. <<"eot">> # <<>> /\ <<"exit", "eot">> # <<>>
  OBVIOUS
<1>5. Owes(t) /\ Owes(t)'
  BY <1>3, <1>4 DEF Owes, Working, Serving
<1> QED
  BY <1>2, <1>3, <1>5, QuietSteps

LEMMA ThreadSteps ==
  ASSUME AllInv, NEW t \in Threads, ThreadStep(t)
  PROVE  Steps'
<1>1. /\ Steps /\ Inv
      /\ tpc \in [Threads -> {"none", "born", "recv", "first", "load", "store",
                               "run", "reply", "gone", "lost"}]
      /\ reply \in [Threads -> Seq({"exit", "eot"})]
  BY DEF AllInv, Typed, TypeOK
<1>2. CASE Start(t)
  BY <1>1, <1>2, QuietSteps DEF Start, Owes, Working, Serving, clientVars, mainVars
<1>3. CASE NoMemory(t)
  BY <1>1, <1>3, QuietSteps DEF NoMemory, Owes, Working, Serving, clientVars, mainVars
<1>4. CASE Recv(t)
  BY <1>4, RecvSteps
<1>5. CASE PeerGone(t)
  <2>1. ~Owes(t)
    BY <1>5 DEF PeerGone, Owes, Working
  <2> QED
    BY <1>5, <2>1, HangUpSteps DEF PeerGone
<1>6. CASE TokFirst(t)
  BY <1>6, TokenSteps DEF TokFirst
<1>7. CASE TokLoad(t)
  BY <1>1, <1>7, QuietSteps DEF TokLoad, Owes, Working, Serving, clientVars, mainVars
<1>8. CASE TokStore(t)
  BY <1>8, TokenSteps DEF TokStore
<1>9. CASE RunEnds(t)
  <2>1. /\ tpc[t] = "run" /\ tpc' = [tpc EXCEPT ![t] = "reply"]
        /\ UNCHANGED <<cli, up, backlog, acc, fdt, reply>>
        /\ down' = down \/ down' = Deliver(Peer(t), "out")
    BY <1>9 DEF RunEnds, clientVars, mainVars
  <2>2. Owes(t) /\ reply[t] \in {<<"eot">>, <<"exit", "eot">>}
    BY <1>1, <2>1 DEF Steps, Answering, Owes, Working, Serving
  <2>3. reply[t] # <<>>
    BY <2>2
  <2>4. Owes(t)' /\ reply'[t] \in {<<"eot">>, <<"exit", "eot">>}
    BY <1>1, <2>1, <2>2, <2>3 DEF Owes, Working, Serving
  <2>5. \A u \in Threads : u # t => tpc'[u] = tpc[u] /\ reply'[u] = reply[u]
    BY <1>1, <2>1
  <2>6. CASE down' = down
    BY <2>1, <2>2, <2>4, <2>5, <2>6, QuietSteps
  <2>7. CASE down' = Deliver(Peer(t), "out")
    BY <2>1, <2>2, <2>4, <2>5, <2>7, SentSteps
  <2> QED
    BY <2>1, <2>6, <2>7
<1>10. CASE Reply(t)
  <2>1. /\ tpc[t] = "reply" /\ reply[t] # <<>>
        /\ down' = Deliver(Peer(t), Head(reply[t]))
        /\ reply' = [reply EXCEPT ![t] = Tail(@)]
        /\ UNCHANGED <<cli, up, backlog, acc, fdt, tpc>>
    BY <1>10 DEF Reply, clientVars, mainVars
  <2>2. Owes(t) /\ reply[t] \in {<<"eot">>, <<"exit", "eot">>}
    BY <1>1, <2>1 DEF Steps, Answering, Owes, Working, Serving
  <2>3. reply'[t] = Tail(reply[t]) /\ \A u \in Threads : u # t => tpc'[u] = tpc[u] /\ reply'[u] = reply[u]
    BY <1>1, <2>1
  <2>4. CASE reply[t] = <<"eot">>
    <3>1. Head(reply[t]) = "eot" /\ reply'[t] = <<>>
      BY <2>3, <2>4
    <3>2. ~Owes(t)'
      BY <2>1, <3>1 DEF Owes
    <3> QED
      BY <2>1, <2>2, <2>3, <3>1, <3>2, SentSteps
  <2>5. CASE reply[t] = <<"exit", "eot">>
    <3>1. Head(reply[t]) = "exit" /\ reply'[t] = <<"eot">> /\ reply'[t] # <<>>
      BY <2>3, <2>5
    <3>2. Owes(t)'
      BY <2>1, <3>1 DEF Owes, Working, Serving
    <3> QED
      BY <2>1, <2>2, <2>3, <3>1, <3>2, SentSteps
  <2> QED
    BY <2>2, <2>4, <2>5
<1>11. CASE Answered(t)
  <2>1. ~Owes(t)
    BY <1>11 DEF Answered, Owes
  <2>2. CASE HangUp(t) /\ UNCHANGED up
    BY <2>1, <2>2, HangUpSteps
  <2>3. CASE ~(HangUp(t) /\ UNCHANGED up)
    <3>1. /\ tpc' = [tpc EXCEPT ![t] = "recv"]
          /\ UNCHANGED <<cli, up, down, backlog, acc, fdt, reply>>
      BY <1>11, <2>3 DEF Answered, clientVars, mainVars
    <3>2. ~Owes(t)' /\ \A u \in Threads : u # t => tpc'[u] = tpc[u] /\ reply'[u] = reply[u]
      BY <1>1, <3>1 DEF Owes, Working
    <3> QED
      BY <2>1, <3>1, <3>2, QuietSteps
  <2> QED
    BY <2>2, <2>3
<1> QED
  BY <1>2, <1>3, <1>4, <1>5, <1>6, <1>7, <1>8, <1>9, <1>10, <1>11 DEF ThreadStep

LEMMA NextSteps ==
  ASSUME AllInv, [Next]_vars
  PROVE  Steps'
<1>1. ASSUME NEW c \in Clients, ClientStep(c) PROVE Steps'
  BY <1>1, ClientSteps2
<1>2. CASE MainStep
  BY <1>2, MainSteps
<1>3. ASSUME NEW t \in Threads, ThreadStep(t) PROVE Steps'
  BY <1>3, ThreadSteps
<1>4. CASE Failure
  BY <1>4, EndSteps DEF Failure, AcceptFails, ForkFails, ReplyKills
<1>5. CASE UNCHANGED vars
  <2>1. UNCHANGED <<cli, up, down, backlog, acc, fdt, tpc, reply>>
    BY <1>5 DEF vars, clientVars, mainVars, threadVars
  <2>2. Steps
    BY DEF AllInv
  <2>3. \A t \in Threads : Owes(t)' <=> Owes(t)
    BY <2>1 DEF Owes
  <2> QED
    BY <2>1, <2>2, <2>3, StillInStep DEF Steps, Answering
<1> QED
  BY <1>1, <1>2, <1>3, <1>4, <1>5 DEF Next

LEMMA NextAllInv ==
  ASSUME ~Burst, AllInv, [Next]_vars
  PROVE  AllInv'
BY NextTyped, NextReading, NextInv, NextSteps DEF AllInv

-----------------------------------------------------------------------------
(* The theorems.                                                           *)

\* No more connections are accepted than there are clients.
LEMMA AcceptedAreThreads ==
  ASSUME Inv
  PROVE  DOMAIN acc \subseteq Threads
<1>1. acc \in Seq(Clients) /\ Len(acc) \in Nat /\ DOMAIN acc = 1..Len(acc)
  BY DEF Inv, Shapes
<1>2. acc \in [1..Len(acc) -> Clients] /\ \A i, j \in 1..Len(acc) : acc[i] = acc[j] => i = j
  BY <1>1 DEF Inv, Once
<1>3. acc \in Injection(1..Len(acc), Clients)
  BY <1>2 DEF Injection, IsInjective
<1>4. Cardinality(1..Len(acc)) <= Cardinality(Clients)
  BY <1>3, FS_Injection, ConstantsAssumption
<1>5. Cardinality(1..Len(acc)) = Len(acc)
  BY <1>1, FS_Interval
<1>6. Cardinality(Clients) \in Nat
  BY FS_CardinalityType, ConstantsAssumption
<1> QED
  BY <1>1, <1>4, <1>5, <1>6 DEF Threads

LEMMA StepsInStep == AllInv => InStep
<1> SUFFICES ASSUME AllInv, NEW c \in Clients, Connected(c), ~Gone(c)
             PROVE  Places(c) = IF cli[c] = "wait" THEN 1 ELSE 0
  BY DEF InStep
<1>1. Sync(c) /\ Inv /\ down[c] \in Seq({"out", "exit", "eot"}) /\ up[c] \in Seq(Lines)
  BY DEF AllInv, Steps, Typed, TypeOK
<1> DEFINE mine == {t \in DOMAIN acc : acc[t] = c /\ tpc[t] \in Serving \ {"recv"}}
           marks == {i \in DOMAIN down[c] : down[c][i] = "eot"}
           done == {t \in mine : tpc[t] = "reply" /\ reply[t] = <<>>}
<1>2. Places(c) = Len(up[c]) + Cardinality(mine \ done) + Cardinality(marks)
  BY DEF Places
<1>3. DOMAIN down[c] = 1..Len(down[c]) /\ Len(down[c]) \in Nat
  BY <1>1
<1>4. ~Marked(c) => Cardinality(marks) = 0
  <2>1. ~Marked(c) => marks = {}
    BY <1>3 DEF Marked
  <2> QED
    BY <2>1, FS_EmptySet
<1>5. EndsMarked(c) => Cardinality(marks) = 1
  <2>1. EndsMarked(c) => marks = {Len(down[c])}
    BY <1>3 DEF EndsMarked
  <2> QED
    BY <2>1, FS_Singleton
<1>6. mine \ done = {t \in Threads : acc[t] = c /\ Owes(t)}
  <2>1. DOMAIN acc \subseteq Threads
    BY <1>1, AcceptedAreThreads
  <2>2. \A t \in Threads : Owes(t) => t \in DOMAIN acc
    <3>1. \A t \in Threads : Owes(t) => tpc[t] # "none"
      BY DEF Owes, Working, Serving
    <3>2. DOMAIN acc = 1..Len(acc)
      BY <1>1 DEF Inv, Shapes
    <3> QED
      BY <1>1, <3>1, <3>2 DEF Inv, Made
  <2> QED
    BY <2>1, <2>2 DEF Owes, Working
<1>7. ~Busy(c) => Cardinality(mine \ done) = 0
  <2>1. ~Busy(c) => mine \ done = {}
    BY <1>6 DEF Busy
  <2> QED
    BY <2>1, FS_EmptySet
<1>8. Busy(c) => Cardinality(mine \ done) = 1
  <2>1. SUFFICES ASSUME Busy(c) PROVE Cardinality(mine \ done) = 1
    OBVIOUS
  <2>2. PICK t \in Threads : acc[t] = c /\ Owes(t)
    BY <2>1 DEF Busy
  <2>3. \A u \in Threads : acc[u] = c /\ Owes(u) => u = t
    BY <1>1, <2>2, Unique DEF Owes, Working
  <2>4. mine \ done = {t}
    BY <1>6, <2>2, <2>3
  <2> QED
    BY <2>4, FS_Singleton
<1>9. up[c] = <<>> => Len(up[c]) = 0
  OBVIOUS
<1> HIDE DEF mine, marks, done
<1>10. CASE cli[c] = "prompt" /\ up[c] = <<>> /\ ~Busy(c) /\ ~Marked(c)
  BY <1>2, <1>4, <1>7, <1>9, <1>10
<1>11. CASE cli[c] = "wait" /\ Len(up[c]) = 1 /\ ~Busy(c) /\ ~Marked(c)
  BY <1>2, <1>4, <1>7, <1>11
<1>12. CASE cli[c] = "wait" /\ up[c] = <<>> /\ Busy(c) /\ ~Marked(c)
  BY <1>2, <1>4, <1>8, <1>9, <1>12
<1>13. CASE cli[c] = "wait" /\ up[c] = <<>> /\ ~Busy(c) /\ EndsMarked(c)
  BY <1>2, <1>5, <1>7, <1>9, <1>13
<1> QED
  BY <1>1, <1>10, <1>11, <1>12, <1>13 DEF Sync

\* A client whose connection is open has an answer to come, or a request under
\* way, exactly if it waits for one, and never two: whatever strtok() made of the
\* lines of several threads, whatever failed, and whoever was killed.
THEOREM OneAnswerEach ==
  ASSUME ~Burst, Clients # {}
  PROVE  Spec => []InStep
<1>1. Init => AllInv
  BY InitTyped, InitReading, InitInv, InitSteps DEF AllInv
<1>2. AllInv /\ [Next]_vars => AllInv'
  BY NextAllInv
<1> QED
  BY <1>1, <1>2, StepsInStep, PTL DEF Spec

\* Only the thread that was made for a connection closes it.
LEMMA HangUpCloses ==
  ASSUME AllInv, NEW t \in Threads, tpc[t] \in Serving, HangUp(t),
         NEW c \in Clients, Connected(c), ~Connected(c)'
  PROVE  t \in DOMAIN acc /\ acc[t] = c /\ Peer(t) = c
<1>1. Inv /\ fdt \in [Fds -> Clients \cup {Nobody}]
  BY DEF AllInv, Typed, TypeOK
<1>2. fdt' = [fdt EXCEPT ![tfd[t]] = Nobody] /\ backlog' = backlog
  BY DEF HangUp, mainVars
<1>3. t \in DOMAIN acc /\ Peer(t) = acc[t]
  BY <1>1, OwnPeer DEF Inv, Made, Serving, Shapes
<1>4. c \notin Waiting
  BY <1>2 DEF Connected, Waiting
<1>5. PICK f \in Fds : fdt[f] = c
  BY <1>4 DEF Connected
<1>6. f = tfd[t]
  BY <1>1, <1>2, <1>5 DEF Connected
<1> QED
  BY <1>3, <1>5, <1>6 DEF Peer

LEMMA NextCloses ==
  ASSUME AllInv, Next, NEW c \in Clients, Connected(c), ~Connected(c)', mpc' # "down"
  PROVE  Gone(c) \/ \E t \in DOMAIN acc : acc[t] = c /\ line[t][1] = "stop"
<1>1. CASE UNCHANGED <<backlog, fdt>>
  BY <1>1 DEF Connected, Waiting
<1>2. ASSUME NEW d \in Clients, ClientStep(d) PROVE FALSE
  <2>1. CASE Connect(d)
    <3>1. backlog' = Append(backlog, d) /\ fdt' = fdt /\ backlog \in Seq(Clients)
      BY <2>1 DEF Connect, AllInv, Typed, TypeOK
    <3>2. \A i \in DOMAIN backlog : i \in DOMAIN backlog' /\ backlog'[i] = backlog[i]
      BY <3>1
    <3> QED
      BY <3>1, <3>2 DEF Connected, Waiting
  <2>2. CASE ~Connect(d)
    <3>1. UNCHANGED <<backlog, fdt>>
      BY <1>2, <2>2 DEF ClientStep, Send, SendFails, Receive, ReceiveEnds, Leave, Kill, mainVars
    <3> QED
      BY <3>1 DEF Connected, Waiting
  <2> QED
    BY <2>1, <2>2
<1>3. ASSUME Accept PROVE FALSE
  <2>1. PICK f \in Fds : fdt[f] = Nobody /\ fdt' = [fdt EXCEPT ![f] = Head(backlog)]
    BY <1>3 DEF Accept
  <2>2. backlog \in Seq(Clients) /\ backlog # <<>> /\ backlog' = Tail(backlog)
        /\ fdt \in [Fds -> Clients \cup {Nobody}]
    BY <1>3 DEF Accept, AllInv, Typed, TypeOK
  <2>3. ASSUME NEW i \in DOMAIN backlog, i # 1
        PROVE  i - 1 \in DOMAIN backlog' /\ backlog'[i - 1] = backlog[i]
    BY <2>2, <2>3
  <2>4. Waiting \subseteq Waiting' \cup {Head(backlog)}
    <3>1. Head(backlog) = backlog[1]
      BY <2>2
    <3> QED
      BY <2>3, <3>1 DEF Waiting
  <2>5. fdt'[f] = Head(backlog) /\ \A g \in Fds : g # f => fdt'[g] = fdt[g]
    BY <2>1, <2>2
  <2> QED
    BY <2>1, <2>4, <2>5, ConstantsAssumption DEF Connected
<1>4. CASE Create \/ CreateFails
  BY <1>1, <1>4 DEF Create, CreateFails
<1>5. ASSUME NEW t \in Threads, ThreadStep(t)
      PROVE  Gone(c) \/ \E u \in DOMAIN acc : acc[u] = c /\ line[u][1] = "stop"
  <2>1. CASE PeerGone(t)
    <3>1. Peer(t) = c
      BY <2>1, HangUpCloses DEF PeerGone, Serving
    <3> QED
      BY <2>1, <3>1, ConstantsAssumption DEF PeerGone
  <2>2. CASE Answered(t) /\ HangUp(t) /\ list[t] = <<"stop">>
    <3>1. t \in DOMAIN acc /\ acc[t] = c
      BY <2>2, HangUpCloses DEF Answered, Serving
    <3>2. line[t][1] = "stop"
      <4>1. tpc[t] = "reply" /\ list[t] # <<>> /\ list[t][1] = "stop"
        BY <2>2 DEF Answered
      <4> QED
        BY <4>1 DEF AllInv, Reading, Named
    <3> QED
      BY <3>1, <3>2
  <2>3. CASE ~PeerGone(t) /\ ~(Answered(t) /\ HangUp(t) /\ list[t] = <<"stop">>)
    <3>1. TokFirst(t) \/ TokStore(t) => UNCHANGED <<backlog, fdt>>
      BY TokenLeaves DEF TokFirst, TokStore
    <3>2. UNCHANGED <<backlog, fdt>>
      BY <1>5, <2>3, <3>1 DEF ThreadStep, Start, NoMemory, Recv, TokLoad, RunEnds, Reply, Answered,
           mainVars
    <3> QED
      BY <1>1, <3>2
  <2> QED
    BY <2>1, <2>2, <2>3
<1>6. ASSUME Failure PROVE FALSE
  BY <1>6 DEF Failure, AcceptFails, ForkFails, ReplyKills, ServerEnds
<1> QED
  BY <1>2, <1>3, <1>4, <1>5, <1>6 DEF Next, MainStep

\* As long as the process runs it closes a connection only after its client has
\* gone or has typed stop-server: the threads share descriptors' numbers and the
\* state of strtok(), but none ends another's session.
THEOREM NobodyElseCloses ==
  ASSUME ~Burst, Clients # {}
  PROVE  Spec => ClosedForAReason
<1>1. Init => AllInv
  BY InitTyped, InitReading, InitInv, InitSteps DEF AllInv
<1>2. AllInv /\ [Next]_vars => AllInv'
  BY NextAllInv
<1>3. AllInv /\ [Next]_vars =>
        [\A c \in Clients :
           Connected(c) /\ ~Connected(c)' /\ mpc' # "down" =>
             \/ Gone(c)
             \/ \E t \in DOMAIN acc : acc[t] = c /\ line[t][1] = "stop"]_vars
  BY NextCloses
<1> QED
  BY <1>1, <1>2, <1>3, PTL DEF Spec, ClosedForAReason
=============================================================================
