---------------------------- MODULE RshThreaded ----------------------------
(***************************************************************************)
(* The multi-threaded server: process_cli_requests_threaded() accepts a    *)
(* connection, keeps its descriptor in one local variable and gives the    *)
(* address of that variable to a new thread, handle_client(), which runs   *)
(* exec_client_requests() of its own.  The threads share the variable, the *)
(* table of descriptors, and the position that strtok() keeps in static    *)
(* memory while build_cmd_list() walks over a line.                        *)
(*                                                                         *)
(* Requests and single sends travel whole (RshSession has the bytes), a    *)
(* line is a sequence of commands (at least one: the line of pipes only is *)
(* in RshSession), and programs end.  Thread t is the one made for the     *)
(* t-th connection.  A position of strtok() is a pair <<t, i>>, behind the *)
(* i-th command in the buffer of thread t; a place in a buffer where it    *)
(* may write its NUL is 2 * i - 1, inside the i-th command, or 2 * i, the  *)
(* "|" behind it.                                                          *)
(***************************************************************************)
EXTENDS Naturals, Sequences, FiniteSets

CONSTANTS
  Clients,  \* the dsh processes; each connects once
  Nobody,   \* "no connection"
  Lines,    \* the lines that users type, as sequences of commands
  MaxReq,   \* bound: requests of all clients
  Mortal,   \* the clients that may be killed
  Burst,    \* may a connection be accepted before the last thread has read
            \* the variable?
  Faults    \* may accept(), pthread_create(), malloc() and fork() fail?

\* "prog": anything that is forked; "inline": cd, dragon, rc; "exit" and "stop":
\* exit and stop-server.  "junk": what strtok() may find where a line was, and what
\* is left of a command that a NUL has cut (it is not the name of a built-in).
Commands == {"prog", "inline", "exit", "stop"}

\* No line has more commands than CMD_MAX.
CmdMax == 8

ASSUME ConstantsAssumption ==
  /\ Nobody \notin Clients
  /\ IsFiniteSet(Clients)
  /\ Lines \subseteq {l \in Seq(Commands) : Len(l) \in 1..CmdMax}
  /\ MaxReq \in Nat
  /\ Mortal \subseteq Clients
  /\ Burst \in BOOLEAN /\ Faults \in BOOLEAN

Threads == 1..Cardinality(Clients)
Fds == 1..Cardinality(Clients)

\* strtok(NULL, ...) found no token.
NoToken == "null"

\* A position in a buffer whose line has been parsed, which may be freed or hold
\* another line by now; and no position at all.
Lost == <<1, CmdMax + 1>>

VARIABLES
  cli,      \* where each client is
  nsent,    \* how many requests they have sent
  up,       \* requests under way to the server
  down,     \* sends under way to each client: output, "exit", the end mark "eot"
  broken,   \* the connections on which something was sent to a client that is gone
  backlog,  \* connections that await accept()
  mpc,      \* where the main thread is, or "down" if the process has ended
  cfd,      \* client_socket_fd of process_cli_requests_threaded()
  acc,      \* history: the connections accepted, in order
  fdt,      \* the descriptors of the process: whose connection each is
  tpc,      \* where each thread is
  tfd,      \* its client_socket
  line,     \* the request that its last recv() put into its receive buffer
  cut,      \* the NULs that strtok() has written into lines that are being parsed:
            \* pairs of a thread and a place in its buffer
  list,     \* the commands that build_cmd_list() has found so far
  tok,      \* its position in strtok(): the pointer it has read
  mixed,    \* history: has another thread been in build_cmd_list() since the recv()?
  reply,    \* the sends it has still to do
  save      \* the static pointer of strtok(): a place in a thread's buffer

clientVars == <<cli, nsent>>
mainVars == <<backlog, mpc, cfd, acc>>
parseVars == <<line, cut, list, tok, mixed, save>>
threadVars == <<tpc, tfd, reply>>
vars == <<clientVars, up, down, broken, mainVars, fdt, threadVars, parseVars>>

Waiting == {backlog[i] : i \in DOMAIN backlog}
Connected(c) == c \in Waiting \/ \E f \in Fds : fdt[f] = c

\* The connection that thread t's descriptor stands for at this moment.
Peer(t) == fdt[tfd[t]]
Gone(c) == cli[c] \in {"left", "failed", "killed"}

Parsing == {t \in Threads : tpc[t] \in {"first", "load", "store"}}

Init ==
  /\ cli = [c \in Clients |-> "off"]
  /\ nsent = 0
  /\ up = [c \in Clients |-> <<>>]
  /\ down = [c \in Clients |-> <<>>]
  /\ broken = {}
  /\ backlog = <<>>
  /\ mpc = "accept"
  /\ cfd = 1
  /\ acc = <<>>
  /\ fdt = [f \in Fds |-> Nobody]
  /\ tpc = [t \in Threads |-> "none"]
  /\ tfd = [t \in Threads |-> 1]
  /\ line = [t \in Threads |-> <<>>]
  /\ cut = {}
  /\ list = [t \in Threads |-> <<>>]
  /\ tok = [t \in Threads |-> Lost]
  /\ mixed = [t \in Threads |-> FALSE]
  /\ reply = [t \in Threads |-> <<>>]
  /\ save = Lost

-----------------------------------------------------------------------------
(* The clients, as RshSession models them, without their byte streams.     *)

Connect(c) ==
  /\ cli[c] = "off"
  /\ mpc # "down"
  /\ cli' = [cli EXCEPT ![c] = "prompt"]
  /\ backlog' = Append(backlog, c)
  /\ UNCHANGED <<nsent, up, down, broken, mpc, cfd, acc, fdt, threadVars, parseVars>>

\* What is sent on a connection that the server has closed goes nowhere.
Send(c, l) ==
  /\ cli[c] = "prompt"
  /\ nsent < MaxReq
  /\ cli' = [cli EXCEPT ![c] = "wait"]
  /\ nsent' = nsent + 1
  /\ up' = IF Connected(c) THEN [up EXCEPT ![c] = Append(@, l)] ELSE up
  /\ UNCHANGED <<down, broken, mainVars, fdt, threadVars, parseVars>>

\* send() returns -1, or raises SIGPIPE: the client ends.
SendFails(c) ==
  /\ cli[c] = "prompt"
  /\ ~Connected(c)
  /\ cli' = [cli EXCEPT ![c] = "failed"]
  /\ UNCHANGED <<nsent, up, down, broken, mainVars, fdt, threadVars, parseVars>>

\* recv() returns some of the sends that have arrived.
Receive(c) ==
  /\ cli[c] = "wait"
  /\ \E n \in 1..Len(down[c]) :
       LET chunk == SubSeq(down[c], 1, n) IN
       /\ cli' = [cli EXCEPT ![c] =
            IF chunk = <<"exit", "eot">> THEN "left" ELSE IF chunk[n] = "eot" THEN "prompt" ELSE "wait"]
       /\ down' = [down EXCEPT ![c] = SubSeq(@, n + 1, Len(@))]
  /\ UNCHANGED <<nsent, up, broken, mainVars, fdt, threadVars, parseVars>>

\* recv() returns 0 or -1, for which only the body of its own loop has tests:
\* the client prompts again.
ReceiveEnds(c) ==
  /\ cli[c] = "wait"
  /\ ~Connected(c)
  /\ down[c] = <<>>
  /\ cli' = [cli EXCEPT ![c] = "prompt"]
  /\ UNCHANGED <<nsent, up, down, broken, mainVars, fdt, threadVars, parseVars>>

Leave(c) ==
  /\ cli[c] = "prompt"
  /\ cli' = [cli EXCEPT ![c] = "left"]
  /\ down' = [down EXCEPT ![c] = <<>>]
  /\ UNCHANGED <<nsent, up, broken, mainVars, fdt, threadVars, parseVars>>

Kill(c) ==
  /\ c \in Mortal
  /\ cli[c] \in {"prompt", "wait"}
  /\ cli' = [cli EXCEPT ![c] = "killed"]
  /\ down' = [down EXCEPT ![c] = <<>>]
  /\ UNCHANGED <<nsent, up, broken, mainVars, fdt, threadVars, parseVars>>

-----------------------------------------------------------------------------
(* The end of the server process, whichever thread causes it.              *)

ServerEnds ==
  /\ mpc' = "down"
  /\ backlog' = <<>>
  /\ fdt' = [f \in Fds |-> Nobody]
  /\ up' = [c \in Clients |-> <<>>]
  /\ tpc' = [t \in Threads |-> IF tpc[t] = "none" THEN "none" ELSE "gone"]
  /\ reply' = [t \in Threads |-> <<>>]
  /\ line' = [t \in Threads |-> <<>>]
  /\ cut' = {}
  /\ list' = [t \in Threads |-> <<>>]
  /\ tok' = [t \in Threads |-> Lost]
  /\ mixed' = [t \in Threads |-> FALSE]
  /\ save' = Lost
  /\ UNCHANGED <<clientVars, down, broken, cfd, acc, tfd>>

-----------------------------------------------------------------------------
(* The main thread: process_cli_requests_threaded().                       *)

\* Mutants: the number of the descriptor is off by one, and the main thread
\* waits for the end of the threads before it accepts again (a pthread_join()).
AcceptOffByOne ==
  /\ mpc = "accept"
  /\ backlog # <<>>
  /\ ~Burst => \A t \in Threads : tpc[t] # "born"
  /\ \E f \in Fds :
       /\ fdt[f] = Nobody
       /\ \A g \in Fds : g < f => fdt[g] # Nobody
       /\ cfd' = f + 1
       /\ fdt' = [fdt EXCEPT ![f] = Head(backlog)]
  /\ acc' = Append(acc, Head(backlog))
  /\ backlog' = Tail(backlog)
  /\ mpc' = "create"
  /\ UNCHANGED <<clientVars, up, down, broken, threadVars, parseVars>>

AcceptAfterJoin ==
  /\ mpc = "accept"
  /\ backlog # <<>>
  /\ \A t \in Threads : tpc[t] \in {"none", "gone", "lost"}
  /\ ~Burst => \A t \in Threads : tpc[t] # "born"
  /\ \E f \in Fds :
       /\ fdt[f] = Nobody
       /\ \A g \in Fds : g < f => fdt[g] # Nobody
       /\ cfd' = f
       /\ fdt' = [fdt EXCEPT ![f] = Head(backlog)]
  /\ acc' = Append(acc, Head(backlog))
  /\ backlog' = Tail(backlog)
  /\ mpc' = "create"
  /\ UNCHANGED <<clientVars, up, down, broken, threadVars, parseVars>>

\* accept() returns the lowest descriptor that is free.
Accept ==
  /\ mpc = "accept"
  /\ backlog # <<>>
  /\ ~Burst => \A t \in Threads : tpc[t] # "born"
  /\ \E f \in Fds :
       /\ fdt[f] = Nobody
       /\ \A g \in Fds : g < f => fdt[g] # Nobody
       /\ cfd' = f
       /\ fdt' = [fdt EXCEPT ![f] = Head(backlog)]
  /\ acc' = Append(acc, Head(backlog))
  /\ backlog' = Tail(backlog)
  /\ mpc' = "create"
  /\ UNCHANGED <<clientVars, up, down, broken, threadVars, parseVars>>

\* accept() returns -1: start_server() closes the socket and main() returns,
\* whatever the threads are doing.
AcceptFails == Faults /\ mpc = "accept" /\ ServerEnds

Create ==
  /\ mpc = "create"
  /\ tpc' = [tpc EXCEPT ![Len(acc)] = "born"]
  /\ mpc' = "accept"
  /\ UNCHANGED <<clientVars, up, down, broken, backlog, cfd, acc, fdt, tfd, reply, parseVars>>

\* pthread_create() reports errors by positive numbers, and the code tests for
\* negative ones: the connection stays open and has no thread.
CreateFails ==
  /\ Faults
  /\ mpc = "create"
  /\ tpc' = [tpc EXCEPT ![Len(acc)] = "lost"]
  /\ mpc' = "accept"
  /\ UNCHANGED <<clientVars, up, down, broken, backlog, cfd, acc, fdt, tfd, reply, parseVars>>

-----------------------------------------------------------------------------
(* Thread t: handle_client() and exec_client_requests().                   *)

\* It reads the variable whose address it was given.
Start(t) ==
  /\ tpc[t] = "born"
  /\ tfd' = [tfd EXCEPT ![t] = cfd]
  /\ tpc' = [tpc EXCEPT ![t] = "recv"]
  /\ UNCHANGED <<clientVars, up, down, broken, mainVars, fdt, reply, parseVars>>

\* exec_client_requests() returns ERR_MEMORY, for which handle_client() has no
\* branch: the connection stays open.
NoMemory(t) ==
  /\ Faults
  /\ tpc[t] = "born"
  /\ tpc' = [tpc EXCEPT ![t] = "lost"]
  /\ UNCHANGED <<clientVars, up, down, broken, mainVars, fdt, tfd, reply, parseVars>>

\* recv() fills the buffer with the next request.
Recv(t) ==
  /\ tpc[t] = "recv"
  /\ Peer(t) # Nobody
  /\ up[Peer(t)] # <<>>
  /\ line' = [line EXCEPT ![t] = Head(up[Peer(t)])]
  /\ up' = [up EXCEPT ![Peer(t)] = Tail(@)]
  /\ tpc' = [tpc EXCEPT ![t] = "first"]
  /\ UNCHANGED <<clientVars, down, broken, mainVars, fdt, tfd, reply, cut, list, tok, mixed, save>>

\* free_cmd_list()
FreeList(t) ==
  /\ list' = [list EXCEPT ![t] = <<>>]
  /\ mixed' = [mixed EXCEPT ![t] = FALSE]

\* Mutants: the thread closes what the shared variable names by now, and
\* nothing at all.
HangUpShared(t) ==
  /\ tpc' = [tpc EXCEPT ![t] = "gone"]
  /\ fdt' = [fdt EXCEPT ![cfd] = Nobody]
  /\ line' = [line EXCEPT ![t] = <<>>]
  /\ FreeList(t)
  /\ UNCHANGED <<clientVars, down, broken, mainVars, tfd, reply, cut, tok, save>>

HangUpOpen(t) ==
  /\ tpc' = [tpc EXCEPT ![t] = "gone"]
  /\ line' = [line EXCEPT ![t] = <<>>]
  /\ FreeList(t)
  /\ UNCHANGED <<clientVars, down, broken, mainVars, fdt, tfd, reply, cut, tok, save>>

\* The thread frees its buffer, closes its descriptor and ends.
HangUp(t) ==
  /\ tpc' = [tpc EXCEPT ![t] = "gone"]
  /\ fdt' = [fdt EXCEPT ![tfd[t]] = Nobody]
  /\ line' = [line EXCEPT ![t] = <<>>]
  /\ FreeList(t)
  /\ UNCHANGED <<clientVars, down, broken, mainVars, tfd, reply, cut, tok, save>>

\* recv() returns 0, or -1 if another thread has closed the descriptor.
PeerGone(t) ==
  /\ tpc[t] = "recv"
  /\ Peer(t) = Nobody \/ (up[Peer(t)] = <<>> /\ Gone(Peer(t)))
  /\ HangUp(t)
  /\ UNCHANGED up

-----------------------------------------------------------------------------
(* build_cmd_list(): one strtok() per command.                             *)

\* The threads whose parse is disturbed if t moves the common position.
Disturbed(t) == [u \in Threads |-> mixed[u] \/ (u # t /\ u \in Parsing)]

\* What thread t may find at position p (bound: lost junk only once per line).
TokenAt(t, p) ==
  IF p = Lost THEN {NoToken} \cup ({"junk"} \ {list[t][i] : i \in DOMAIN list[t]})
  ELSE IF p[2] = Len(line[p[1]]) THEN {NoToken}
  ELSE IF <<p[1], 2 * p[2] + 1>> \in cut THEN {"junk"} ELSE {line[p[1]][p[2] + 1]}

\* Where a call that finds a token at position p leaves the position, and the NUL
\* that it writes: over the "|" that ends the token, unless a NUL of another thread
\* has come in time to end it.  A lost position may be in anybody's buffer.
Behind(p) ==
  LET u == p[1]
      i == p[2] + 1
      n == Len(line[u])
      here == {<<u, 2 * i - 1>>, <<u, 2 * i>>}
      lost == {<<v, k>> : v \in Parsing, k \in 1..(2 * CmdMax)}
  IN  IF p = Lost THEN {<<Lost, {}>>} \cup {<<Lost, {x}>> : x \in {y \in lost : y[2] < 2 * Len(line[y[1]])}}
      ELSE (IF i = n \/ here \cap cut # {} THEN {<<<<u, n>>, {}>>} ELSE {})
             \cup (IF i < n THEN {<<<<u, i>>, {<<u, 2 * i>>}>>} ELSE {})

\* Mutant: a line that does not parse is not answered.
EndOfListSilent(t, ok) ==
  LET mine == list[t] \in {<<"inline">>, <<"exit">>, <<"stop">>} IN
  /\ tpc' = [tpc EXCEPT ![t] = IF ~ok THEN "recv" ELSE IF ~mine THEN "run" ELSE "reply"]
  /\ reply' = [reply EXCEPT ![t] =
       IF ~ok THEN <<>>
       ELSE IF list[t] \in {<<"exit">>, <<"stop">>} THEN <<"exit", "eot">> ELSE <<"eot">>]

\* A built-in alone, or a line that did not parse, is answered at once; all
\* the rest is forked, and answered later.
EndOfList(t, ok) ==
  LET mine == list[t] \in {<<"inline">>, <<"exit">>, <<"stop">>} IN
  /\ tpc' = [tpc EXCEPT ![t] = IF ok /\ ~mine THEN "run" ELSE "reply"]
  /\ reply' = [reply EXCEPT ![t] =
       IF ok /\ list[t] \in {<<"exit">>, <<"stop">>} THEN <<"exit", "eot">> ELSE <<"eot">>]

\* What becomes of position p when the line of thread u is parsed.
After(p, u) == IF p[1] = u THEN Lost ELSE p

\* build_cmd_buff() makes a command of token k, and strtok() leaves b behind ...
Adds(t, k, b) ==
  /\ list' = [list EXCEPT ![t] = Append(@, k)]
  /\ save' = b[1]
  /\ cut' = cut \cup b[2]
  /\ tok' = [tok EXCEPT ![t] = Lost]
  /\ tpc' = [tpc EXCEPT ![t] = "load"]
  /\ UNCHANGED reply

\* ... or the parse ends: there is no token, or it is refused.
Ends(t, k, b) ==
  /\ EndOfList(t, k = NoToken)
  /\ list' = IF k = NoToken THEN list ELSE [list EXCEPT ![t] = <<>>]
  /\ save' = After(b[1], t)
  /\ cut' = {x \in cut \cup b[2] : x[1] # t}
  /\ tok' = [u \in Threads |-> IF u = t THEN Lost ELSE After(tok[u], t)]

\* A call of strtok() from position p.  Only junk is refused.
Token(t, p) ==
  /\ \E k \in TokenAt(t, p) : \E b \in IF k = NoToken THEN {<<p, {}>>} ELSE Behind(p) :
       \/ k # NoToken /\ Adds(t, k, b)
       \/ k \in {NoToken, "junk"} /\ Ends(t, k, b)
  /\ mixed' = [Disturbed(t) EXCEPT ![t] = @ \/ Parsing # {t}]
  /\ UNCHANGED <<clientVars, up, down, broken, mainVars, fdt, tfd, line>>

\* Mutant: the first call, too, continues where the last one has stopped.
TokFirstContinues(t) == tpc[t] = "first" /\ Token(t, save)

\* The first strtok() starts at the beginning of the thread's own buffer.
TokFirst(t) == tpc[t] = "first" /\ Token(t, <<t, 0>>)

\* The next one reads the common position ...
TokLoad(t) ==
  /\ tpc[t] = "load"
  /\ tok' = [tok EXCEPT ![t] = save]
  /\ tpc' = [tpc EXCEPT ![t] = "store"]
  /\ UNCHANGED <<clientVars, up, down, broken, mainVars, fdt, tfd, reply, line, cut, list, mixed,
                 save>>

\* ... and moves it behind the token that it finds there.
TokStore(t) == tpc[t] = "store" /\ Token(t, tok[t])

-----------------------------------------------------------------------------
(* The execution of the list and the answer.                               *)

\* fork() returns -1: exit(errno) in the thread is the end of the server.
ForkFails(t) == Faults /\ tpc[t] = "run" /\ ServerEnds

\* What a send of s does if it is not the server's last.
Deliver(c, s) ==
  IF c = Nobody \/ Gone(c) THEN down ELSE [down EXCEPT ![c] = Append(@, s)]
Breaks(c) == broken \cup (IF c # Nobody /\ Gone(c) THEN {c} ELSE {})

\* waitpid() returns; the programs may have printed to the connection.
RunEnds(t) ==
  /\ tpc[t] = "run"
  /\ tpc' = [tpc EXCEPT ![t] = "reply"]
  /\ \/ UNCHANGED <<down, broken>>
     \/ down' = Deliver(Peer(t), "out") /\ broken' = Breaks(Peer(t))
  /\ UNCHANGED <<clientVars, up, mainVars, fdt, tfd, reply, parseVars>>

\* One send(); its result is ignored.
Reply(t) ==
  /\ tpc[t] = "reply"
  /\ reply[t] # <<>>
  /\ down' = Deliver(Peer(t), Head(reply[t]))
  /\ broken' = Breaks(Peer(t))
  /\ reply' = [reply EXCEPT ![t] = Tail(@)]
  /\ UNCHANGED <<clientVars, up, mainVars, fdt, tpc, tfd, parseVars>>

\* The second send on a broken connection may raise SIGPIPE.
ReplyKills(t) ==
  /\ tpc[t] = "reply"
  /\ reply[t] # <<>>
  /\ Peer(t) \in broken
  /\ ServerEnds

\* Mutant: the test of the built-in is missing, every answer ends the thread.
AnsweredAndClosed(t) ==
  /\ tpc[t] = "reply"
  /\ reply[t] = <<>>
  /\ HangUp(t)
  /\ UNCHANGED up

\* Only "stop-server" ends the loop, and it ends this thread, not the server.
Answered(t) ==
  /\ tpc[t] = "reply"
  /\ reply[t] = <<>>
  /\ \/ /\ list[t] = <<"stop">>
        /\ HangUp(t)
        /\ UNCHANGED up
     \/ /\ list[t] # <<"stop">>
        /\ tpc' = [tpc EXCEPT ![t] = "recv"]
        /\ FreeList(t)
        /\ UNCHANGED <<clientVars, up, down, broken, mainVars, fdt, tfd, reply, line, cut, tok, save>>

-----------------------------------------------------------------------------
ClientStep(c) ==
  \/ Connect(c) \/ (\E l \in Lines : Send(c, l)) \/ SendFails(c)
  \/ Receive(c) \/ ReceiveEnds(c) \/ Leave(c) \/ Kill(c)

MainStep == Accept \/ Create \/ CreateFails

ThreadStep(t) ==
  \/ Start(t) \/ NoMemory(t) \/ Recv(t) \/ PeerGone(t)
  \/ TokFirst(t) \/ TokLoad(t) \/ TokStore(t)
  \/ RunEnds(t) \/ Reply(t) \/ Answered(t)

Failure == AcceptFails \/ \E t \in Threads : ForkFails(t) \/ ReplyKills(t)

Next ==
  \/ \E c \in Clients : ClientStep(c)
  \/ MainStep
  \/ \E t \in Threads : ThreadStep(t)
  \/ Failure

\* The scheduler runs every thread and every client whose recv() may return.
\* Users may stop typing, and no failure must happen.
Fairness ==
  /\ WF_vars(MainStep)
  /\ \A t \in Threads : WF_vars(ThreadStep(t))
  /\ \A c \in Clients : WF_vars(Receive(c) \/ ReceiveEnds(c))

Spec == Init /\ [][Next]_vars
FairSpec == Spec /\ Fairness

-----------------------------------------------------------------------------
(* Properties.                                                             *)

Lists == Seq(Commands \cup {"junk"})

\* Every variable has its type.
TypeOK ==
  /\ cli \in [Clients -> {"off", "prompt", "wait", "left", "failed", "killed"}]
  /\ nsent \in 0..MaxReq
  /\ up \in [Clients -> Seq(Lines)]
  /\ down \in [Clients -> Seq({"out", "exit", "eot"})]
  /\ broken \subseteq Clients
  /\ backlog \in Seq(Clients)
  /\ mpc \in {"accept", "create", "down"}
  /\ cfd \in Fds
  /\ acc \in Seq(Clients)
  /\ fdt \in [Fds -> Clients \cup {Nobody}]
  /\ tpc \in [Threads -> {"none", "born", "recv", "first", "load", "store",
                           "run", "reply", "gone", "lost"}]
  /\ tfd \in [Threads -> Fds]
  /\ line \in [Threads -> Lines \cup {<<>>}]
  /\ cut \subseteq Threads \X (1..(2 * CmdMax))
  /\ list \in [Threads -> Lists]
  /\ tok \in [Threads -> Threads \X Nat]
  /\ mixed \in [Threads -> BOOLEAN]
  /\ reply \in [Threads -> Seq({"exit", "eot"})]
  /\ save \in Threads \X Nat

Serving == {"recv", "first", "load", "store", "run", "reply"}

\* Every thread that serves has the descriptor of the connection it was made
\* for, and that descriptor is still open (the variable of line 171 is shared
\* and numbers of closed descriptors come back from accept()).
ServedByOne ==
  \A t \in Threads : tpc[t] \in Serving => Peer(t) = acc[t]

\* Nobody answers twice or in another's place: the request of a client that
\* waits is under way, at the thread of its connection, or answered, and in one
\* of these places only, whatever strtok() made of the lines.
Places(c) ==
  LET mine == {t \in DOMAIN acc : acc[t] = c /\ tpc[t] \in Serving \ {"recv"}}
      marks == {i \in DOMAIN down[c] : down[c][i] = "eot"}
      done == {t \in mine : tpc[t] = "reply" /\ reply[t] = <<>>}
  IN  Len(up[c]) + Cardinality(mine \ done) + Cardinality(marks)

InStep ==
  \A c \in Clients :
    Connected(c) /\ ~Gone(c) => Places(c) = IF cli[c] = "wait" THEN 1 ELSE 0

\* The list that a thread executes is the line it received unless another
\* thread was inside build_cmd_list() between the recv() and the end of the parse.
OwnLine ==
  \A t \in Threads :
    tpc[t] = "run" /\ ~mixed[t] => list[t] = line[t]

\* While the server runs it closes a connection only after its client has gone
\* or has typed stop-server: no other client can end a session.
ClosedForAReason ==
  [][\A c \in Clients :
       Connected(c) /\ ~Connected(c)' /\ mpc' # "down" =>
         \/ Gone(c)
         \/ \E t \in DOMAIN acc : acc[t] = c /\ line[t][1] = "stop"]_vars

\* Every connection is accepted, whatever the other clients do or leave undone.
EveryoneServed == \A c \in Clients : c \in Waiting ~> c \notin Waiting

\* The connection is open and its thread never ran.
Forgotten(c) == \E t \in DOMAIN acc : acc[t] = c /\ tpc[t] = "lost"

\* A client that waits for an answer gets one or learns that the connection is
\* closed, unless no thread could be had for it.
Answers == \A c \in Clients : cli[c] = "wait" ~> cli[c] # "wait" \/ Forgotten(c)
=============================================================================
