----------------------------- MODULE RshService -----------------------------
(***************************************************************************)
(* What the remote shell of 6-ShellP4 promises its users: the clients that *)
(* connect stand in one line, and the first in line is served until it is  *)
(* gone.  Each command line that a client sends is a call, which the       *)
(* server executes once and alone, and which returns when the execution is *)
(* over, or when the server has closed the connection.  There are no       *)
(* messages here: the network, the end marks and the buffers of RshSession *)
(* are what has to make it look like this.                                 *)
(***************************************************************************)
EXTENDS Naturals, Sequences

CONSTANTS
  Clients,  \* the dsh processes that connect to the server
  Kinds,    \* the kinds of command lines, "stop" and "pipes" (no name) among them
  Backlog,  \* how many clients may stand in line behind the one served
  Mortal,   \* the clients that may be killed at any time
  Faults    \* may calls of the operating system fail at the server?

VARIABLES
  srv,      \* the service: "new", "open" or "closed"
  line,     \* the clients that are connected, the one served first
  user,     \* each client: "off", "free" (at its prompt), "calls" or "gone"
  due,      \* the call of each client that is not yet executed, or "none"
  doing     \* the call that is executed for the first in line, or "none"

vars == <<srv, line, user, due, doing>>

Served == Head(line)
InLine(c) == \E i \in DOMAIN line : line[i] = c
Idle == line # <<>> /\ doing = "none"

Init ==
  /\ srv = "new"
  /\ line = <<>>
  /\ user = [c \in Clients |-> "off"]
  /\ due = [c \in Clients |-> "none"]
  /\ doing = "none"

\* The service ends, whoever is in line and whatever is due.
Closes ==
  /\ srv' = "closed"
  /\ line' = <<>>
  /\ due' = [c \in Clients |-> "none"]
  /\ doing' = "none"

Start ==
  /\ srv = "new"
  /\ srv' = "open"
  /\ UNCHANGED <<line, user, due, doing>>

\* A client gets to the end of the line.  One that comes while the server is on
\* its way out is connected too, but to nobody.
Join(c) ==
  /\ user[c] = "off"
  /\ srv # "new"
  /\ Len(line) <= Backlog
  /\ user' = [user EXCEPT ![c] = "free"]
  /\ line' = IF srv = "open" THEN Append(line, c) ELSE line
  /\ UNCHANGED <<srv, due, doing>>

Refused(c) ==
  /\ user[c] = "off"
  /\ srv # "open"
  /\ user' = [user EXCEPT ![c] = "gone"]
  /\ UNCHANGED <<srv, line, due, doing>>

Call(c, k) ==
  /\ user[c] = "free"
  /\ user' = [user EXCEPT ![c] = "calls"]
  /\ due' = IF InLine(c) THEN [due EXCEPT ![c] = k] ELSE due
  /\ UNCHANGED <<srv, line, doing>>

\* The server takes up the call of the first in line: nobody else's, one at a
\* time, and the one that was made.
Begin ==
  /\ Idle
  /\ due[Served] # "none"
  /\ doing' = due[Served]
  /\ due' = [due EXCEPT ![Served] = "none"]
  /\ UNCHANGED <<srv, line, user>>

\* It is done with the call.
End ==
  /\ doing # "none"
  /\ doing # "stop"
  /\ doing' = "none"
  /\ UNCHANGED <<srv, line, user, due>>

\* It is done with a stop-server, the only call at whose end the service ends.
Stop ==
  /\ doing = "stop"
  /\ Closes
  /\ UNCHANGED user

\* A call is over for its client, which may leave upon what it is told.  Unless
\* the server has cut the connection, it has executed the call to the end.
Return(c) ==
  /\ user[c] = "calls"
  /\ InLine(c) => due[c] = "none" /\ (c = Served => doing = "none")
  /\ user' \in {[user EXCEPT ![c] = u] : u \in {"free", "gone"}}
  /\ UNCHANGED <<srv, line, due, doing>>

Quit(c) ==
  /\ user[c] = "free"
  /\ user' = [user EXCEPT ![c] = "gone"]
  /\ UNCHANGED <<srv, line, due, doing>>

Kill(c) ==
  /\ c \in Mortal
  /\ user[c] \in {"free", "calls"}
  /\ user' = [user EXCEPT ![c] = "gone"]
  /\ UNCHANGED <<srv, line, due, doing>>

\* The next client's turn comes when the first has gone, and not before ...
Part ==
  /\ Idle
  /\ user[Served] = "gone"
  /\ due[Served] = "none"
  /\ line' = Tail(line)
  /\ UNCHANGED <<srv, user, due, doing>>

\* ... or when the server has no memory for the first.
Forget ==
  /\ Faults
  /\ Idle
  /\ line' = Tail(line)
  /\ due' = [due EXCEPT ![Served] = "none"]
  /\ UNCHANGED <<srv, user, doing>>

\* The service may end in the middle of a call whose client was killed.
Die ==
  /\ doing # "none"
  /\ Served \in Mortal
  /\ user[Served] = "gone"
  /\ Closes
  /\ UNCHANGED user

\* A line of pipes only, which names nothing to execute, may end it as well.
Crash ==
  /\ doing = "pipes"
  /\ Closes
  /\ UNCHANGED user

Fail ==
  /\ Faults
  /\ srv # "closed"
  /\ Closes
  /\ UNCHANGED user

Next ==
  \/ Start \/ Begin \/ End \/ Stop \/ Part \/ Forget \/ Die \/ Crash \/ Fail
  \/ \E c \in Clients :
       \/ Join(c) \/ Refused(c) \/ Return(c) \/ Quit(c) \/ Kill(c)
       \/ \E k \in Kinds : Call(c, k)

Spec == Init /\ [][Next]_vars
=============================================================================
