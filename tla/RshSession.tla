----------------------------- MODULE RshSession -----------------------------
(***************************************************************************)
(* The remote shell of 6-ShellP4 with its single-threaded server: the      *)
(* client loop exec_remote_cmd_loop() of rsh_cli.c, and start_server(),    *)
(* process_cli_requests() and exec_client_requests() of rsh_server.c, over *)
(* one TCP connection per client.                                          *)
(*                                                                         *)
(* A request travels as the two halves of its line and two NUL bytes (the  *)
(* client turns the newline into a NUL and sends strlen + 1 bytes); an     *)
(* answer is what the programs print followed by the byte 0x04.  A recv()  *)
(* returns a nonempty prefix of what has arrived.  The byte that ends a    *)
(* send() carries "push": when Split is FALSE a recv() returns whole sends *)
(* (several may arrive together), when it is TRUE it may stop anywhere.    *)
(***************************************************************************)
EXTENDS Naturals, Sequences, FiniteSets

CONSTANTS
  Clients,  \* the dsh processes that connect to the server
  Nobody,   \* "no connection is being served"
  Kinds,    \* the kinds of command lines that users type
  Texts,    \* what programs may print
  MaxReq,   \* bound: requests per client
  MaxOut,   \* bound: writes of one pipeline to the socket
  Backlog,  \* RDSH_SVR_BACKLOG_MAX: connections that await accept()
  Split,    \* may the network cut a send() in pieces?
  Mortal,   \* the clients that may be killed at any time
  Faults    \* may malloc(), accept(), bind(), listen() and fork() fail at the server?

\* "pipeline": programs that leave their standard input alone; "reader": the
\* first one reads it; "inline": answered by the server alone (cd, dragon, rc,
\* an empty or malformed line); "exit" and "stop": the built-ins exit (typed
\* with a blank, or the client acts on it itself) and stop-server; "pipes": a
\* line of pipes only, fewer than CMD_MAX, of which build_cmd_list() makes a list
\* without a command.
AllKinds == {"pipeline", "reader", "pipes", "inline", "exit", "stop"}

\* Ordinary output, the four bytes "exit", and the byte 0x04.
AllTexts == {"text", "exit", "eot"}

ASSUME ConstantsAssumption ==
  /\ Nobody \notin Clients
  /\ Kinds \subseteq AllKinds
  /\ Texts \subseteq AllTexts
  /\ MaxReq \in Nat /\ MaxOut \in Nat /\ Backlog \in Nat
  /\ Split \in BOOLEAN /\ Faults \in BOOLEAN
  /\ Mortal \subseteq Clients

VARIABLES
  cli,      \* where each client is in exec_remote_cmd_loop()
  cOpen,    \* is the client's end of the connection open?
  cFault,   \* error pending on the client's end ("err"), or reset for good
  nsent,    \* how many requests each client has sent
  up,       \* bytes on their way from each client to the server
  down,     \* bytes on their way from the server to each client
  sOpen,    \* is the server's end open (from the handshake on)?
  sFault,   \* like cFault, for the server's end
  backlog,  \* connections that await accept(), oldest first
  spc,      \* where the server process is
  cur,      \* the client whose connection the server serves
  job,      \* the request it executes: its kind, number and sender
  reply,    \* sends that remain to be done for that request
  nout,     \* writes made by the pipeline so far
  ran,      \* history: numbers of the requests the server executed
  seen      \* history: number of the request whose end mark came last

clientVars == <<cli, cOpen, cFault, nsent, seen>>
serverVars == <<backlog, spc, cur, job, reply, nout, ran>>
vars == <<clientVars, up, down, sOpen, sFault, serverVars>>

-----------------------------------------------------------------------------
(* The two byte streams.                                                   *)

Half(n, k, p) == [id |-> n, kind |-> k, part |-> p, push |-> FALSE]
Nul(n, p) == [id |-> n, kind |-> "inline", part |-> "nul", push |-> p]

\* What one send() of the client puts on the wire (rsh_cli.c:119-126).
Request(n, k) ==
  <<Half(n, k, "head"), Half(n, k, "tail"), Nul(n, FALSE), Nul(n, TRUE)>>

\* Every send() of the server and of the programs is one token.
Byte(t, n) == [txt |-> t, req |-> n]

UpToken == [id : Nat, kind : AllKinds, part : {"head", "tail", "nul"}, push : BOOLEAN]
DownToken == [txt : AllTexts, req : Nat]
UpStream == Seq(UpToken)
DownStream == Seq(DownToken)

\* How many tokens a recv() may return.
UpCuts(s) == {n \in 1..Len(s) : Split \/ s[n].push}
DownCuts(s) == 1..Len(s)

Front(s, n) == SubSeq(s, 1, n)
Rest(s, n) == SubSeq(s, n + 1, Len(s))

\* Mutants: the test of the wrong byte, and no test at all.
StartsWithNul(chunk) == chunk[1].part = "nul"
AnyChunk(chunk) == TRUE

\* BUFFER_END_IS_CHAR(receive_buffer, bytes_read, NULL_BYTE) at the server
EndsWithNul(chunk) == chunk[Len(chunk)].part = "nul"

\* The kinds of command that build_cmd_list() may find in the buffer, which it
\* reads up to the first NUL: the line itself, nothing, or a line that has
\* lost its beginning, which may be anything ("echo stop-server" cut in two).
Parsed(chunk) ==
  CASE chunk[1].part = "head" -> {chunk[1].kind}
    [] chunk[1].part = "nul"  -> {"inline"}
    [] OTHER                  -> Kinds

\* Mutant: every recv() is taken for the end of the answer.
AnyAnswer(chunk) == TRUE

\* BUFFER_END_IS_CHAR(receive_buffer, bytes_read, RDSH_EOF_CHAR) at the client
EndsWithEot(chunk) == chunk[Len(chunk)].txt = "eot"

\* The buffer holds "exit" once its last byte is overwritten (rsh_cli.c:148-150).
IsExitMessage(chunk) == Len(chunk) = 2 /\ chunk[1].txt = "exit" /\ chunk[2].txt = "eot"

-----------------------------------------------------------------------------
(* Closing an end.  Closing it with unread bytes resets the connection, as *)
(* does closing the listening socket for those that still wait in line.    *)

Waiting == {backlog[i] : i \in DOMAIN backlog}
Listening == spc \notin {"boot", "stopped", "killed"}
ServerGone == spc \in {"stopped", "killed"}

ClientCloses(c) ==
  /\ cOpen' = [cOpen EXCEPT ![c] = FALSE]
  /\ down' = [down EXCEPT ![c] = <<>>]
  /\ sFault' = [sFault EXCEPT ![c] = IF sOpen[c] /\ down[c] # <<>> THEN "err" ELSE @]

ServerCloses(S) ==
  /\ sOpen' = [c \in Clients |-> sOpen[c] /\ c \notin S]
  /\ up' = [c \in Clients |-> IF c \in S THEN <<>> ELSE up[c]]
  /\ cFault' = [c \in Clients |->
       IF c \in S /\ sOpen[c] /\ cOpen[c] /\ (up[c] # <<>> \/ c \in Waiting)
         THEN "err" ELSE cFault[c]]

-----------------------------------------------------------------------------
Init ==
  /\ cli = [c \in Clients |-> "off"]
  /\ cOpen = [c \in Clients |-> FALSE]
  /\ cFault = [c \in Clients |-> "ok"]
  /\ nsent = [c \in Clients |-> 0]
  /\ up = [c \in Clients |-> <<>>]
  /\ down = [c \in Clients |-> <<>>]
  /\ sOpen = [c \in Clients |-> FALSE]
  /\ sFault = [c \in Clients |-> "ok"]
  /\ backlog = <<>>
  /\ spc = "boot"
  /\ cur = Nobody
  /\ job = [kind |-> "inline", id |-> 0, who |-> Nobody]
  /\ reply = <<>>
  /\ nout = 0
  /\ ran = [c \in Clients |-> <<>>]
  /\ seen = [c \in Clients |-> 0]

-----------------------------------------------------------------------------
(* The client: exec_remote_cmd_loop().                                     *)

\* start_client(): the handshake is the kernel's, the server need not accept.
Connect(c) ==
  /\ cli[c] = "off"
  /\ Listening
  /\ Len(backlog) < Backlog
  /\ cli' = [cli EXCEPT ![c] = "prompt"]
  /\ cOpen' = [cOpen EXCEPT ![c] = TRUE]
  /\ sOpen' = [sOpen EXCEPT ![c] = TRUE]
  /\ backlog' = Append(backlog, c)
  /\ UNCHANGED <<cFault, nsent, seen, up, down, sFault, spc, cur, job, reply, nout, ran>>

\* connect() is refused: client_cleanup() with ERR_RDSH_CLIENT.
ConnectFails(c) ==
  /\ cli[c] = "off"
  /\ ~Listening
  /\ cli' = [cli EXCEPT ![c] = "failed"]
  /\ UNCHANGED <<cOpen, cFault, nsent, seen, up, down, sOpen, sFault, serverVars>>

\* The user types a line and send() takes it.  If the server has closed its
\* end the bytes go nowhere and a reset comes back, sooner or later.
Send(c, k) ==
  /\ cli[c] = "prompt"
  /\ nsent[c] < MaxReq
  /\ cFault[c] = "ok"
  /\ cli' = [cli EXCEPT ![c] = "wait"]
  /\ nsent' = [nsent EXCEPT ![c] = @ + 1]
  /\ \/ /\ sOpen[c]
        /\ up' = [up EXCEPT ![c] = @ \o Request(nsent[c] + 1, k)]
        /\ UNCHANGED cFault
     \/ /\ ~sOpen[c]
        /\ cFault' \in {[cFault EXCEPT ![c] = f] : f \in {"ok", "reset"}}
        /\ UNCHANGED up
  /\ UNCHANGED <<cOpen, seen, down, sOpen, sFault, serverVars>>

\* send() returns -1: client_cleanup() with ERR_RDSH_COMMUNICATION.
SendFails(c) ==
  /\ cli[c] = "prompt"
  /\ cFault[c] = "err"
  /\ cli' = [cli EXCEPT ![c] = "failed"]
  /\ ClientCloses(c)
  /\ UNCHANGED <<cFault, nsent, seen, up, sOpen, serverVars>>

\* A send() on a connection that was reset raises SIGPIPE, which nothing
\* catches.
SendKills(c) ==
  /\ cli[c] = "prompt"
  /\ cFault[c] = "reset"
  /\ cli' = [cli EXCEPT ![c] = "killed"]
  /\ ClientCloses(c)
  /\ UNCHANGED <<cFault, nsent, seen, up, sOpen, serverVars>>

\* The line is "exit": the client leaves without telling the server.
Leave(c) ==
  /\ cli[c] = "prompt"
  /\ cli' = [cli EXCEPT ![c] = "left"]
  /\ ClientCloses(c)
  /\ UNCHANGED <<cFault, nsent, seen, up, sOpen, serverVars>>

\* One round of the recv() loop that returned bytes.
Receive(c) ==
  /\ cli[c] = "wait"
  /\ \E n \in DownCuts(down[c]) :
       LET chunk == Front(down[c], n) IN
       /\ seen' = IF EndsWithEot(chunk) THEN [seen EXCEPT ![c] = chunk[n].req] ELSE seen
       /\ \/ /\ IsExitMessage(chunk)
             /\ cli' = [cli EXCEPT ![c] = "left"]
             /\ cOpen' = [cOpen EXCEPT ![c] = FALSE]
             /\ down' = [down EXCEPT ![c] = <<>>]
             /\ sFault' = [sFault EXCEPT ![c] =
                             IF sOpen[c] /\ Rest(down[c], n) # <<>> THEN "err" ELSE @]
          \/ /\ ~IsExitMessage(chunk)
             /\ cli' = [cli EXCEPT ![c] = IF EndsWithEot(chunk) THEN "prompt" ELSE "wait"]
             /\ down' = [down EXCEPT ![c] = Rest(@, n)]
             /\ UNCHANGED <<cOpen, sFault>>
  /\ UNCHANGED <<cFault, nsent, up, sOpen, serverVars>>

\* recv() returns 0 or -1: the loop "while (... > 0)" ends before the tests
\* for these results in its body, and the client prompts again.
ReceiveEnds(c) ==
  /\ cli[c] = "wait"
  /\ down[c] = <<>>
  /\ ~sOpen[c]
  /\ cli' = [cli EXCEPT ![c] = "prompt"]
  /\ cFault' = [cFault EXCEPT ![c] = IF @ = "err" THEN "reset" ELSE @]
  /\ UNCHANGED <<cOpen, nsent, seen, up, down, sOpen, sFault, serverVars>>

\* The client process is killed (not code: the environment).
Kill(c) ==
  /\ c \in Mortal
  /\ cOpen[c]
  /\ cli' = [cli EXCEPT ![c] = "killed"]
  /\ ClientCloses(c)
  /\ UNCHANGED <<cFault, nsent, seen, up, sOpen, serverVars>>

-----------------------------------------------------------------------------
(* The server: start_server() and process_cli_requests().                  *)

Boot ==
  /\ spc = "boot"
  /\ spc' \in {"accept"} \cup (IF Faults THEN {"stopped"} ELSE {})
  /\ UNCHANGED <<clientVars, up, down, sOpen, sFault, backlog, cur, job, reply, nout, ran>>

\* Mutant: the last connection in line is left there.
AcceptNotLast ==
  /\ spc = "accept"
  /\ Len(backlog) > 1
  /\ cur' = Head(backlog)
  /\ backlog' = Tail(backlog)
  /\ spc' = "recv"
  /\ UNCHANGED <<clientVars, up, down, sOpen, sFault, job, reply, nout, ran>>

\* Mutant: the connection that came last is served first.
AcceptLatest ==
  /\ spc = "accept"
  /\ backlog # <<>>
  /\ cur' = backlog[Len(backlog)]
  /\ backlog' = Front(backlog, Len(backlog) - 1)
  /\ spc' = "recv"
  /\ UNCHANGED <<clientVars, up, down, sOpen, sFault, job, reply, nout, ran>>

Accept ==
  /\ spc = "accept"
  /\ backlog # <<>>
  /\ cur' = Head(backlog)
  /\ backlog' = Tail(backlog)
  /\ spc' = "recv"
  /\ UNCHANGED <<clientVars, up, down, sOpen, sFault, job, reply, nout, ran>>

\* exec_client_requests() returns ERR_MEMORY, for which process_cli_requests()
\* has no branch: it accepts the next client and keeps this socket open.
AcceptNoMemory ==
  /\ Faults
  /\ spc = "accept"
  /\ backlog # <<>>
  /\ backlog' = Tail(backlog)
  /\ UNCHANGED <<clientVars, up, down, sOpen, sFault, spc, cur, job, reply, nout, ran>>

\* accept() returns -1: start_server() goes on to stop_server().
AcceptFails ==
  /\ Faults
  /\ spc = "accept"
  /\ spc' = "shutdown"
  /\ UNCHANGED <<clientVars, up, down, sOpen, sFault, backlog, cur, job, reply, nout, ran>>

\* stop_server() closes the listening socket and main() returns, which closes
\* every other descriptor.
Shutdown ==
  /\ spc = "shutdown"
  /\ spc' = "stopped"
  /\ backlog' = <<>>
  /\ ServerCloses(Clients)
  /\ UNCHANGED <<cli, cOpen, nsent, seen, down, sFault, cur, job, reply, nout, ran>>

-----------------------------------------------------------------------------
(* exec_client_requests() on the connection of cur.                        *)

\* Mutant: a case of the switch without its break sends a second end mark.
ReplyFallsThrough(k, n) ==
  CASE k \in {"exit", "stop"} -> <<Byte("exit", n), Byte("eot", n)>>
    [] k = "inline"           -> <<Byte("eot", n), Byte("eot", n)>>
    [] OTHER                  -> <<Byte("eot", n)>>

\* What the switch on the built-in, or the pipeline, leaves to be sent.
ReplyTo(k, n) ==
  CASE k \in {"exit", "stop"} -> <<Byte("exit", n), Byte("eot", n)>>
    [] OTHER                  -> <<Byte("eot", n)>>

RequestReceived ==
  /\ spc = "recv"
  /\ \E n \in UpCuts(up[cur]) :
       LET chunk == Front(up[cur], n) IN
       /\ up' = [up EXCEPT ![cur] = Rest(@, n)]
       /\ \/ /\ ~EndsWithNul(chunk)
             /\ UNCHANGED <<spc, job, reply, nout, ran>>
          \/ /\ EndsWithNul(chunk)
             /\ \E k \in Parsed(chunk) :
                  /\ job' = [kind |-> k, id |-> chunk[1].id, who |-> cur]
                  /\ reply' = ReplyTo(k, chunk[1].id)
                  /\ spc' = IF k \in {"pipeline", "reader", "pipes"} THEN "fork" ELSE "reply"
             /\ nout' = 0
             /\ ran' = [ran EXCEPT ![cur] =
                          IF chunk[1].part = "nul" THEN @ ELSE Append(@, chunk[1].id)]
  /\ UNCHANGED <<clientVars, down, sOpen, sFault, backlog, cur>>

\* The server process ends at once, and the kernel closes all it had open.
ServerDies ==
  /\ spc' = "killed"
  /\ reply' = <<>>
  /\ cur' = Nobody
  /\ backlog' = <<>>
  /\ ServerCloses(Clients)
  /\ UNCHANGED <<cli, cOpen, nsent, seen, down, sFault, job, nout, ran>>

\* A list without a command has no first name either: rsh_match_command() gets a
\* pointer of an earlier line, to memory that was freed, or one that was never
\* written, and its strcmp() may end the process.
NamelessKills ==
  /\ spc = "fork"
  /\ job.kind = "pipes"
  /\ ServerDies

\* Mutant: the socket is not closed.
ClientGoneKeepsSocket ==
  /\ spc = "recv"
  /\ up[cur] = <<>>
  /\ ~cOpen[cur]
  /\ spc' = "accept"
  /\ cur' = Nobody
  /\ UNCHANGED <<clientVars, up, down, sOpen, sFault, backlog, job, reply, nout, ran>>

\* recv() returns 0 or -1: OK is returned, the socket closed, the next client
\* accepted.
ClientGone ==
  /\ spc = "recv"
  /\ up[cur] = <<>>
  /\ ~cOpen[cur]
  /\ spc' = "accept"
  /\ cur' = Nobody
  /\ ServerCloses({cur})
  /\ UNCHANGED <<cli, cOpen, nsent, seen, down, sFault, backlog, job, reply, nout, ran>>

\* rsh_start_supervisor_and_execute_pipeline() forks the supervisor, or ends
\* the server with exit(errno) when fork() fails.  A list without a command goes
\* this way, too: whatever its first name is, num is not 1.
Fork ==
  /\ spc = "fork"
  /\ spc' = "run"
  /\ UNCHANGED <<clientVars, up, down, sOpen, sFault, backlog, cur, job, reply, nout, ran>>

ForkFails ==
  /\ Faults
  /\ spc = "fork"
  /\ spc' = "shutdown"
  /\ cur' = Nobody
  /\ reply' = <<>>
  /\ ServerCloses({cur})
  /\ UNCHANGED <<cli, cOpen, nsent, seen, down, sFault, backlog, job, nout, ran>>

\* A program of the pipeline writes to the socket, which is the standard
\* output and error of the last one.
Write(t) ==
  /\ spc = "run"
  /\ job.kind # "pipes"
  /\ nout < MaxOut
  /\ nout' = nout + 1
  /\ \/ /\ cOpen[cur]
        /\ down' = [down EXCEPT ![cur] = Append(@, Byte(t, job.id))]
        /\ UNCHANGED sFault
     \/ /\ ~cOpen[cur]
        /\ sFault' \in {[sFault EXCEPT ![cur] = f] :
                          f \in IF sFault[cur] = "ok" THEN {"ok", "reset"} ELSE {"reset"}}
        /\ UNCHANGED down
  /\ UNCHANGED <<clientVars, up, sOpen, backlog, spc, cur, job, reply, ran>>

\* The first program reads its standard input, which is the socket too: it
\* takes bytes meant for the server.  It may be content with them or go on.
ReadStdin ==
  /\ spc = "run"
  /\ job.kind = "reader"
  /\ \E n \in UpCuts(up[cur]) : up' = [up EXCEPT ![cur] = Rest(@, n)]
  /\ job' \in {job, [job EXCEPT !.kind = "pipeline"]}
  /\ UNCHANGED <<clientVars, down, sOpen, sFault, backlog, spc, cur, reply, nout, ran>>

\* The programs end, and waitpid() on the supervisor returns; one that reads
\* its standard input ends when there is no more to come.
PipelineEnds ==
  /\ spc = "run"
  /\ job.kind = "reader" => up[cur] = <<>> /\ ~cOpen[cur]
  /\ spc' = "reply"
  /\ UNCHANGED <<clientVars, up, down, sOpen, sFault, backlog, cur, job, reply, nout, ran>>

\* Mutants: the loop is left although the client may send more, or is not
\* left for stop-server.
NextClientAfter(r) == IF r # <<>> THEN "reply" ELSE IF job.kind = "stop" THEN "close" ELSE "accept"
NeverCloseAfter(r) == IF r # <<>> THEN "reply" ELSE "recv"

\* After the last send: the next recv(), or OK_EXIT for stop-server.
NextAfter(r) == IF r # <<>> THEN "reply" ELSE IF job.kind = "stop" THEN "close" ELSE "recv"

Reply ==
  /\ spc = "reply"
  /\ sFault[cur] = "ok"
  /\ \/ /\ cOpen[cur]
        /\ down' = [down EXCEPT ![cur] = Append(@, Head(reply))]
        /\ UNCHANGED sFault
     \/ /\ ~cOpen[cur]
        /\ sFault' \in {[sFault EXCEPT ![cur] = f] : f \in {"ok", "reset"}}
        /\ UNCHANGED down
  /\ reply' = Tail(reply)
  /\ spc' = NextAfter(reply')
  /\ UNCHANGED <<clientVars, up, sOpen, backlog, cur, job, nout, ran>>

\* send() returns -1: send_message_string() gives up, its callers do not look.
ReplyFails ==
  /\ spc = "reply"
  /\ sFault[cur] = "err"
  /\ sFault' = [sFault EXCEPT ![cur] = "reset"]
  /\ reply' = <<>>
  /\ spc' = NextAfter(reply')
  /\ UNCHANGED <<clientVars, up, down, sOpen, backlog, cur, job, nout, ran>>

\* send() on a connection that was reset: SIGPIPE ends the server process.
ReplyKills ==
  /\ spc = "reply"
  /\ sFault[cur] = "reset"
  /\ ServerDies

\* stop-server: process_cli_requests() closes the connection and leaves its loop.
CloseLast ==
  /\ spc = "close"
  /\ spc' = "shutdown"
  /\ cur' = Nobody
  /\ ServerCloses({cur})
  /\ UNCHANGED <<cli, cOpen, nsent, seen, down, sFault, backlog, job, reply, nout, ran>>

-----------------------------------------------------------------------------
ClientLoop(c) == Receive(c) \/ ReceiveEnds(c)

User(c) ==
  \/ Connect(c) \/ ConnectFails(c) \/ Leave(c) \/ SendFails(c) \/ SendKills(c)
  \/ \E k \in Kinds : Send(c, k)

Program == (\E t \in Texts : Write(t)) \/ ReadStdin \/ PipelineEnds

Server ==
  \/ Boot \/ Accept \/ AcceptNoMemory \/ AcceptFails \/ Shutdown
  \/ RequestReceived \/ NamelessKills \/ ClientGone \/ Fork \/ ForkFails \/ Reply \/ ReplyFails \/ ReplyKills \/ CloseLast

Next ==
  \/ Server
  \/ Program
  \/ \E c \in Clients : ClientLoop(c) \/ User(c) \/ Kill(c)

\* The server process and each client's recv() loop are scheduled, and
\* programs that do not wait for input end.  Users need never do anything.
Fairness ==
  /\ WF_vars(Server)
  /\ WF_vars(Program)
  /\ \A c \in Clients : WF_vars(ClientLoop(c))

Spec == Init /\ [][Next]_vars

FairSpec == Spec /\ Fairness

-----------------------------------------------------------------------------
(* Properties.                                                             *)

\* The server holds a connection exactly while it serves one, and has sends to
\* do exactly while it executes a request (the control of process_cli_requests()
\* and exec_client_requests()), besides the types of all variables.
TypeOK ==
  /\ cli \in [Clients -> {"off", "prompt", "wait", "left", "failed", "killed"}]
  /\ cOpen \in [Clients -> BOOLEAN]
  /\ sOpen \in [Clients -> BOOLEAN]
  /\ cFault \in [Clients -> {"ok", "err", "reset"}]
  /\ sFault \in [Clients -> {"ok", "err", "reset"}]
  /\ nsent \in [Clients -> Nat]
  /\ seen \in [Clients -> Nat]
  /\ up \in [Clients -> UpStream]
  /\ down \in [Clients -> DownStream]
  /\ ran \in [Clients -> Seq(Nat)]
  /\ backlog \in Seq(Clients)
  /\ spc \in {"boot", "accept", "recv", "fork", "run", "reply", "close", "shutdown",
               "stopped", "killed"}
  /\ cur \in Clients \cup {Nobody}
  /\ job \in [kind : AllKinds, id : Nat, who : Clients \cup {Nobody}]
  /\ reply \in DownStream
  /\ nout \in Nat
  /\ cur \in Clients <=> spc \in {"recv", "fork", "run", "reply", "close"}
  /\ reply # <<>> <=> spc \in {"fork", "run", "reply"}

Connected(c) == cOpen[c] /\ sOpen[c]

\* Where the request of a waiting client is, or its answer.
InFlight(c) == up[c] # <<>>
Working(c) == cur = c /\ spc \in {"fork", "run", "reply"}
Answered(c) == \E i \in DOMAIN down[c] : down[c][i].txt = "eot"

\* Client and server stay in step: while a client prompts, nothing of an
\* earlier exchange is left in the connection or at the server, and while it
\* waits its request is in exactly one place: under way, being executed, or
\* answered (the recv() loops of rsh_cli.c:132 and rsh_server.c:312).
InStep ==
  \A c \in Clients : Connected(c) =>
    /\ cli[c] = "prompt" => up[c] = <<>> /\ down[c] = <<>> /\ ~Working(c)
    /\ cli[c] = "wait" =>
         /\ InFlight(c) \/ Working(c) \/ Answered(c)
         /\ ~(InFlight(c) /\ Working(c))
         /\ ~(InFlight(c) /\ Answered(c))
         /\ ~(Working(c) /\ Answered(c))

\* A client back at its prompt has had its last request executed and has read
\* the end of the answer to that request, not to an earlier one.
AnswersMatch ==
  \A c \in Clients : Connected(c) /\ cli[c] = "prompt" =>
    seen[c] = nsent[c] /\ ran[c] = [i \in 1..nsent[c] |-> i]

\* The executed requests r are in the order of sending, none twice, and all
\* of the n sent.
InOrder(r, n) ==
  /\ \A i, j \in DOMAIN r : i < j => r[i] < r[j]
  /\ \A i \in DOMAIN r : r[i] \in 1..n

\* However the network cuts and joins the requests, and whatever programs
\* read from the socket, the server executes the lines of a client in the order
\* they were sent, each at most once, and none that was not sent.
AtMostOnce == \A c \in Clients : InOrder(ran[c], nsent[c])

\* Unread bytes s of n requests of which r were executed.
Unread(s, n, r) ==
  \A j \in DOMAIN s :
    /\ s[j].id \in 1..n
    /\ \A i \in 1..(j - 1) :
         /\ s[i].id <= s[j].id
         /\ s[i].part = "nul" /\ s[j].part # "nul" => s[i].id < s[j].id
    /\ s[j].part # "nul" => \A k \in DOMAIN r : r[k] < s[j].id

\* What the server has still to read of a client is in the order of sending, the
\* line of a request before its NULs, and every piece of a line that remains is
\* of a later request than those executed: why a cut request (rsh_server.c:319)
\* can be lost or lose its beginning, but is never executed twice.
UnreadIsNewer == \A c \in Clients : Unread(up[c], nsent[c], ran[c])

\* What kills the server is its own request: a client killed while the server
\* sends the answer to it (the others, and one that leaves by itself, have read
\* their answers to the end: rsh_server.c:386), or a line without a name that it
\* has just received (rsh_server.c:334-335).
DiesForAReason ==
  [][spc # "killed" /\ spc' = "killed" =>
       IF spc = "reply" THEN cur \in Mortal /\ cli[cur] = "killed" ELSE job.kind = "pipes"]_vars

\* Every open server end belongs to the connection that is served or to one
\* that still awaits accept(), each of these once: process_cli_requests() closes
\* the connection on every way out of exec_client_requests() but ERR_MEMORY
\* (AcceptNoMemory forgets the socket: the property is for Faults = FALSE).
NoForgottenSocket ==
  /\ \A c \in Clients : sOpen[c] => (c = cur) # (c \in Waiting)
  /\ \A i, j \in DOMAIN backlog : backlog[i] = backlog[j] => i = j

\* start_server(): "Processing client requests until the client requests the
\* server to stop by running the `stop-server` command" (rsh_server.c:43-45).
StopsOnRequest == ServerGone => job.kind = "stop"

-----------------------------------------------------------------------------
(* The abstract specification: what of this the users see.                 *)

Serving == spc \in {"accept", "recv", "fork", "run", "reply"}

SrvBar == IF Serving THEN "open" ELSE IF spc = "boot" THEN "new" ELSE "closed"

\* The client that is served, if there is one, and those that await accept().
LineBar ==
  IF ~Serving THEN <<>> ELSE IF cur = Nobody THEN backlog ELSE <<cur>> \o backlog

UserOf(place) ==
  CASE place = "off"    -> "off"
    [] place = "prompt" -> "free"
    [] place = "wait"   -> "calls"
    [] OTHER            -> "gone"

UserBar == [c \in Clients |-> UserOf(cli[c])]

\* A call is due while its request is on its way to a server that will read it.
DueOf(c) ==
  IF Serving /\ (c = cur \/ c \in Waiting) /\ up[c] # <<>> THEN up[c][1].kind ELSE "none"

DueBar == [c \in Clients |-> DueOf(c)]

\* A call is executed from the recv() of its request to the last send() of its
\* answer.
DoingBar == IF spc \in {"fork", "run", "reply"} THEN job.kind ELSE "none"

Service ==
  INSTANCE RshService WITH srv <- SrvBar, line <- LineBar, user <- UserBar,
                           due <- DueBar, doing <- DoingBar

\* The client and server programs, on a network that delivers whole sends, look
\* to their users like one service that executes calls: in the order of the
\* connections, one at a time, each once, before it returns.
ServiceSpec == Service!Spec

\* A client that is served gets out of its recv() loop, unless the program it
\* runs reads from the socket on which the client itself waits.
ServedIsAnswered ==
  \A c \in Clients :
    (cli[c] = "wait" /\ cur = c) ~> (cli[c] # "wait" \/ (spc = "run" /\ job.kind = "reader"))

\* If the server keeps coming back to accept(), every connection is accepted.
EveryoneAccepted ==
  \A c \in Clients : []<>(spc = "accept") => ((c \in Waiting) ~> (c \notin Waiting))

\* Once the server has parsed stop-server it stops, whatever its client does.
StopTakesEffect == (job.kind = "stop" /\ spc = "reply") ~> ServerGone
=============================================================================
