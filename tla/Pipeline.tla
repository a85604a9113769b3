------------------------------ MODULE Pipeline ------------------------------
(***************************************************************************)
(* One pipeline of N commands: execute_pipeline() of 5-ShellP3 and         *)
(* 6-ShellP4 and rsh_execute_pipeline() of the server, which differ only   *)
(* in what the first and the last program have for a terminal, and         *)
(* start_supervisor_and_execute_pipeline() around them.                    *)
(*                                                                         *)
(* Process 0 is the supervisor, process i in 1..N runs command i, and pipe *)
(* j in 1..N-1 leads from program j to program j+1.  What counts is who    *)
(* has which pipe end open: fork() copies them, a reader sees the end of   *)
(* its input only when no process has the write end, a writer gets SIGPIPE *)
(* when no process has the read end.  A redirection never replaces a pipe: *)
(* the code does dup2() for the pipe after it.  Files and the terminal (or *)
(* the socket) are not modelled: a program without an input pipe may end   *)
(* its input, one without an output pipe may write, at any time.  SIGKILL  *)
(* acts at once, and the shell itself is not killed.                       *)
(***************************************************************************)
EXTENDS Naturals, FiniteSets

CONSTANTS
  N,         \* commands in the pipeline: at least 1, see CmdList
  Cap,       \* chunks that fit in a pipe
  MaxWrites, \* bound: chunks that a program writes
  Faults     \* may pipe(), fork() and the open() of a redirection fail?

ASSUME ConstantsAssumption ==
  /\ N \in Nat \ {0}
  /\ Cap \in Nat \ {0}
  /\ MaxWrites \in Nat
  /\ Faults \in BOOLEAN

Cmds == 1..N
Pipes == 1..(N - 1)
Procs == 0..N

\* A pipe end: pipes[j][0] or pipes[j][1].
R(j) == <<j, "read">>
W(j) == <<j, "write">>
AllEnds == {R(j) : j \in Pipes} \cup {W(j) : j \in Pipes}

\* The exit codes and wait statuses that are told apart: WEXITSTATUS of a
\* program that ends well or badly, or cannot open a file; the raw status
\* of one that a signal kills; errno of a failed pipe() or fork().
Good == 0
Bad == 1
NoEntry == 2
KilledStatus == 9
Again == 11
PipeStatus == 13
Statuses == {Good, Bad, NoEntry, KilledStatus, Again, PipeStatus}
Pending == 99

\* No status at all: the shell has ended itself.
NoShell == 98

VARIABLES
  sup,    \* where the supervisor is
  k,      \* its loop variable: the next command to fork or to wait for
  prc,    \* its pipeline_rc
  rc,     \* what the shell gets back, Pending until then, NoShell if it has ended
  st,     \* the state of each program's process
  asked,  \* has it called prctl(PR_SET_PDEATHSIG, SIGKILL)?
  code,   \* its wait status, once it has ended
  left,   \* chunks it will still write
  ends,   \* the pipe ends that each process has open
  buf     \* chunks in each pipe

supVars == <<sup, k, prc, rc>>
progVars == <<st, asked, code, left>>
vars == <<supVars, progVars, ends, buf>>

Writers(j) == {p \in Procs : W(j) \in ends[p]}
Readers(j) == {p \in Procs : R(j) \in ends[p]}

Alive(i) == st[i] \in {"born", "setup", "run"}
Over(i) == st[i] \in {"done", "dead"}

Init ==
  /\ sup = "none"
  /\ k = 1
  /\ prc = Good
  /\ rc = Pending
  /\ st = [i \in Cmds |-> "none"]
  /\ asked = [i \in Cmds |-> FALSE]
  /\ code = [i \in Cmds |-> Pending]
  /\ left = [i \in Cmds |-> 0]
  /\ ends = [p \in Procs |-> {}]
  /\ buf = [j \in Pipes |-> 0]

-----------------------------------------------------------------------------
(* The shell starts the supervisor.                                        *)

StartSupervisor ==
  /\ sup = "none"
  /\ rc = Pending
  /\ sup' = "pipes"
  /\ UNCHANGED <<k, prc, rc, progVars, ends, buf>>

\* fork() of the supervisor returns -1: exit(errno) ends the shell.
StartFails ==
  /\ Faults
  /\ sup = "none"
  /\ rc = Pending
  /\ rc' = NoShell
  /\ UNCHANGED <<sup, k, prc, progVars, ends, buf>>

-----------------------------------------------------------------------------
(* The supervisor.                                                         *)

CreatePipes ==
  /\ sup = "pipes"
  /\ sup' = "fork"
  /\ ends' = [ends EXCEPT ![0] = AllEnds]
  /\ UNCHANGED <<k, prc, rc, progVars, buf>>

\* exit() of the supervisor with status s: its descriptors are closed, and the
\* programs that have asked for it are killed.
SupervisorExits(s) ==
  /\ sup' = "exited"
  /\ prc' = s
  /\ st' = [i \in Cmds |-> IF Alive(i) /\ asked[i] THEN "dead" ELSE st[i]]
  /\ code' = [i \in Cmds |-> IF Alive(i) /\ asked[i] THEN KilledStatus ELSE code[i]]
  /\ ends' = [p \in Procs |->
       IF p = 0 \/ (p \in Cmds /\ Alive(p) /\ asked[p]) THEN {} ELSE ends[p]]

\* pipe() or fork() returns -1: exit(errno).
SupervisorFails ==
  /\ Faults
  /\ sup \in {"pipes", "fork"}
  /\ SupervisorExits(Again)
  /\ UNCHANGED <<k, rc, asked, left, buf>>

Fork ==
  /\ sup = "fork"
  /\ st' = [st EXCEPT ![k] = "born"]
  /\ ends' = [ends EXCEPT ![k] = ends[0]]
  /\ k' = k + 1
  /\ sup' = IF k = N THEN "close" ELSE "fork"
  /\ UNCHANGED <<prc, rc, asked, code, left, buf>>

\* Mutant: only the last command is waited for.
LastOnly == N

\* The command at which the waitpid() loop begins.
FirstWaited == 1

\* Mutant: the supervisor keeps the pipes open.
KeepPipes ==
  /\ sup = "close"
  /\ sup' = "wait"
  /\ k' = FirstWaited
  /\ UNCHANGED <<prc, rc, progVars, ends, buf>>

ClosePipes ==
  /\ sup = "close"
  /\ sup' = "wait"
  /\ k' = FirstWaited
  /\ ends' = [ends EXCEPT ![0] = {}]
  /\ UNCHANGED <<prc, rc, progVars, buf>>

\* Mutant: a program that ends well does not count.
ReapFailure ==
  /\ sup = "wait"
  /\ k \in Cmds
  /\ Over(k)
  /\ prc' = IF code[k] = Good THEN prc ELSE code[k]
  /\ k' = k + 1
  /\ UNCHANGED <<sup, rc, progVars, ends, buf>>

\* waitpid(): WEXITSTATUS() if the program exited, or else the raw status.
Reap ==
  /\ sup = "wait"
  /\ k \in Cmds
  /\ Over(k)
  /\ prc' = code[k]
  /\ k' = k + 1
  /\ UNCHANGED <<sup, rc, progVars, ends, buf>>

\* exit(pipeline_rc) after the loop.
Exit ==
  /\ sup = "wait"
  /\ k > N
  /\ SupervisorExits(prc)
  /\ UNCHANGED <<k, rc, asked, left, buf>>

\* The shell's waitpid() on the supervisor.
ShellGoesOn ==
  /\ sup = "exited"
  /\ rc = Pending
  /\ rc' = prc
  /\ UNCHANGED <<sup, k, prc, progVars, ends, buf>>

-----------------------------------------------------------------------------
(* The process of command i.                                               *)

\* Mutant: prctl() is not called.
AskForNothing(i) ==
  /\ st[i] = "born"
  /\ st' = [st EXCEPT ![i] = "setup"]
  /\ UNCHANGED <<supVars, asked, code, left, ends, buf>>

\* prctl(); the signal does not come any more if the supervisor has ended.
AskForSignal(i) ==
  /\ st[i] = "born"
  /\ st' = [st EXCEPT ![i] = "setup"]
  /\ asked' = [asked EXCEPT ![i] = sup # "exited"]
  /\ UNCHANGED <<supVars, code, left, ends, buf>>

\* Mutant: the loop that closes the pipes is missing.
KeptAll(i) == AllEnds

\* The ends that dup2() makes the standard input and output of command i.
Kept(i) == {R(i - 1), W(i)}

\* dup2(), close() and execvp(): the program runs.
SetUp(i) ==
  /\ st[i] = "setup"
  /\ st' = [st EXCEPT ![i] = "run"]
  /\ ends' = [ends EXCEPT ![i] = @ \cap Kept(i)]
  /\ \E n \in 0..MaxWrites : left' = [left EXCEPT ![i] = n]
  /\ UNCHANGED <<supVars, asked, code, buf>>

\* The process of command i ends; s is "done" if its program is content.
Ends(i, s, c) ==
  /\ st' = [st EXCEPT ![i] = s]
  /\ code' = [code EXCEPT ![i] = c]
  /\ ends' = [ends EXCEPT ![i] = {}]
  /\ UNCHANGED <<supVars, asked, left, buf>>

\* open() of a redirection fails: exit(errno).
RedirectFails(i) == Faults /\ st[i] = "setup" /\ Ends(i, "dead", NoEntry)

Read(i) ==
  /\ st[i] = "run"
  /\ i - 1 \in Pipes
  /\ buf[i - 1] > 0
  /\ buf' = [buf EXCEPT ![i - 1] = @ - 1]
  /\ UNCHANGED <<supVars, progVars, ends>>

Write(i) ==
  /\ st[i] = "run"
  /\ left[i] > 0
  /\ i \in Pipes => Readers(i) # {} /\ buf[i] < Cap
  /\ left' = [left EXCEPT ![i] = @ - 1]
  /\ buf' = IF i \in Pipes THEN [buf EXCEPT ![i] = @ + 1] ELSE buf
  /\ UNCHANGED <<supVars, st, asked, code, ends>>

\* A write() into a pipe that nobody can read.
BrokenPipe(i) ==
  /\ st[i] = "run"
  /\ i \in Pipes
  /\ left[i] > 0
  /\ Readers(i) = {}
  /\ Ends(i, "dead", PipeStatus)

\* A program that has written what it had to ends when its input does.
Finish(i) ==
  /\ st[i] = "run"
  /\ left[i] = 0
  /\ i - 1 \in Pipes => buf[i - 1] = 0 /\ Writers(i - 1) = {}
  /\ Ends(i, "done", Good)

\* Or earlier: it needs no more input, fails, is a built-in command, or cannot
\* be executed.
Quit(i) ==
  /\ st[i] = "run"
  /\ \E c \in {Good, Bad, NoEntry} : Ends(i, "dead", c)

-----------------------------------------------------------------------------
Supervisor ==
  \/ StartSupervisor \/ StartFails
  \/ CreatePipes \/ SupervisorFails \/ Fork \/ ClosePipes \/ Reap \/ Exit \/ ShellGoesOn

Program(i) == AskForSignal(i) \/ SetUp(i) \/ Read(i) \/ Write(i) \/ BrokenPipe(i) \/ Finish(i)

Next == Supervisor \/ \E i \in Cmds : Program(i) \/ RedirectFails(i) \/ Quit(i)

\* All processes are scheduled; a program reads and writes while it can, and
\* ends after its input has.  None needs to quit earlier.
Fairness ==
  /\ WF_vars(Supervisor)
  /\ \A i \in Cmds :
       /\ WF_vars(Read(i))
       /\ WF_vars(AskForSignal(i) \/ SetUp(i) \/ Write(i) \/ BrokenPipe(i) \/ Finish(i))

Spec == Init /\ [][Next]_vars

FairSpec == Spec /\ Fairness

-----------------------------------------------------------------------------
(* Properties.                                                             *)

\* Besides types: programs exist from the first to the one last forked, a
\* process that has ended has a status and nothing open, and the supervisor has
\* nothing open when it waits.
TypeOK ==
  /\ sup \in {"none", "pipes", "fork", "close", "wait", "exited"}
  /\ k \in 1..(N + 1)
  /\ prc \in Statuses
  /\ rc \in Statuses \cup {Pending, NoShell}
  /\ st \in [Cmds -> {"none", "born", "setup", "run", "done", "dead"}]
  /\ asked \in [Cmds -> BOOLEAN]
  /\ code \in [Cmds -> Statuses \cup {Pending}]
  /\ left \in [Cmds -> 0..MaxWrites]
  /\ ends \in [Procs -> SUBSET AllEnds]
  /\ buf \in [Pipes -> 0..Cap]
  /\ sup \in {"wait", "exited"} => ends[0] = {}
  /\ sup \in {"none", "pipes", "fork"} => k \in Cmds /\ \A i \in Cmds : st[i] = "none" <=> i >= k
  /\ sup \in {"close", "wait"} => \A i \in Cmds : st[i] # "none"
  /\ \A i \in Cmds : Over(i) <=> code[i] # Pending
  /\ \A i \in Cmds : ~Alive(i) => ends[i] = {}

\* A program that runs has exactly the ends open that it reads and writes, so
\* that no program's end of input waits for the wrong process: whatever the
\* order in which the processes close what they inherited (the loop before
\* execvp() and the supervisor's after the last fork()).
NoStrayEnd == \A i \in Cmds : st[i] = "run" => ends[i] = AllEnds \cap {R(i - 1), W(i)}

\* execute_pipeline(): "Exit code of last child": the shell gets the status of the
\* last command, whichever order the programs end in and however the others
\* end, provided that all could be forked.
LastCode == rc # Pending /\ st[N] # "none" => rc = code[N]

\* When the shell goes on after a pipeline that was forked completely, all its
\* programs have ended: none still writes to the terminal or to the socket, on
\* which the server now sends the end mark (rsh_server.c:359-360).
AllReaped == rc # Pending /\ st[N] # "none" => \A i \in Cmds : Over(i)

\* "Kill child if parent dies" (dshlib.c:201, rsh_server.c:485): no program that
\* executes its command lives on when the supervisor ends, as it does when the fork()
\* of a later one fails.  (One that had not reached its prctl() by then does run on.)
OrphansAreLate ==
  [][sup # "exited" /\ sup' = "exited" => \A i \in Cmds : st[i] = "run" => ~Alive(i)']_vars

\* The shell gets its prompt back (or ends, for want of a supervisor) and every
\* process ends, whatever the sizes of the pipes, the programs that quit and the
\* calls that fail.
EverythingEnds == <>(rc # Pending /\ \A i \in Cmds : ~Alive(i))
=============================================================================
