-------------------------- MODULE Pipeline_proofs --------------------------
(***************************************************************************)
(* Theorems about Pipeline, for every number of commands, size of the      *)
(* pipes and number of writes, with and without failing calls.             *)
(***************************************************************************)
EXTENDS Pipeline, TLAPS

\* The parts of TypeOK.
Typed ==
  /\ sup \in {"none", "pipes", "fork", "close", "wait", "exited"}
  /\ k \in 1..(N + 1)
  /\ prc \in Statuses
  /\ rc \in Statuses \cup {Pending, NoShell}
  /\ st \in [Cmds -> {"none", "born", "setup", "run", "done", "dead"}]
  /\ asked \in [Cmds -> BOOLEAN]
  /\ code \in [Cmds -> Statuses \cup {Pending}]
  /\ left \in [Cmds -> 0..MaxWrites]
  /\ ends \in [Procs -> SUBSET AllEnds]
  /\ buf \in [Pipes -> 0..Cap]

Progress ==
  /\ sup \in {"wait", "exited"} => ends[0] = {}
  /\ sup \in {"none", "pipes", "fork"} => k \in Cmds /\ \A i \in Cmds : st[i] = "none" <=> i >= k
  /\ sup \in {"close", "wait"} => \A i \in Cmds : st[i] # "none"
  /\ \A i \in Cmds : Over(i) <=> code[i] # Pending
  /\ \A i \in Cmds : ~Alive(i) => ends[i] = {}

\* TypeOK is these two.
LEMMA TypeParts == TypeOK <=> Typed /\ Progress
  BY DEF TypeOK, Typed, Progress

USE ConstantsAssumption DEF Cmds, Procs, Pipes

\* The statuses are numbers other than Pending.
LEMMA StatusFacts ==
  /\ Pending \notin Statuses
  /\ {Good, Bad, NoEntry, KilledStatus, Again, PipeStatus} = Statuses
  BY DEF Statuses, Pending, Good, Bad, NoEntry, KilledStatus, Again, PipeStatus

\* A process that ends has a status and has closed everything.
LEMMA EndsTypes ==
  ASSUME TypeOK, NEW i \in Cmds, NEW s \in {"done", "dead"}, NEW c \in Statuses,
         Alive(i), Ends(i, s, c)
  PROVE  TypeOK'
<1>1. Typed /\ Progress
  BY TypeParts
<1>2. i # 0 /\ i \in Procs /\ c # Pending
  BY StatusFacts
<1>3. Typed'
  BY <1>1, <1>2 DEF Typed, Ends, supVars
<1>4. Progress'
  BY <1>1, <1>2 DEF Typed, Progress, Ends, supVars, Alive, Over
<1>. QED
  BY <1>3, <1>4, TypeParts DEF TypeOK, Typed, Progress

\* exit() of the supervisor kills only programs that run.
LEMMA ExitTypes ==
  ASSUME TypeOK, NEW s \in Statuses, SupervisorExits(s), UNCHANGED <<k, rc, asked, left, buf>>
  PROVE  TypeOK'
<1>1. Typed /\ Progress
  BY TypeParts
<1>2. KilledStatus \in Statuses /\ KilledStatus # Pending
  BY StatusFacts
<1>3. Typed'
  <2>1. st' \in [Cmds -> {"none", "born", "setup", "run", "done", "dead"}]
    BY <1>1 DEF Typed, SupervisorExits
  <2>2. code' \in [Cmds -> Statuses \cup {Pending}]
    BY <1>1, <1>2 DEF Typed, SupervisorExits
  <2>3. ends' \in [Procs -> SUBSET AllEnds]
    BY <1>1 DEF Typed, SupervisorExits
  <2>. QED
    BY <1>1, <2>1, <2>2, <2>3 DEF Typed, SupervisorExits
<1>4. Progress'
  BY <1>1, <1>2 DEF Typed, Progress, SupervisorExits, Alive, Over
<1>. QED
  BY <1>3, <1>4 DEF TypeOK, Typed, Progress

\* Each step of the system preserves the types.
LEMMA TypeStep == TypeOK /\ [Next]_vars => TypeOK'
<1>. SUFFICES ASSUME TypeOK, [Next]_vars
     PROVE  TypeOK'
  OBVIOUS
<1>0. Typed /\ Progress
  BY TypeParts
<1>1. CASE CreatePipes
  BY <1>0, <1>1 DEF TypeOK, Typed, Progress, CreatePipes, progVars, Alive, Over
<1>2. CASE SupervisorFails
  <2>1. Again \in Statuses
    BY StatusFacts
  <2>. QED
    BY <1>2, <2>1, ExitTypes DEF SupervisorFails
<1>3. CASE Fork
  <2>1. k \in Cmds /\ st[k] = "none" /\ code[k] = Pending
    <3>1. k \in Cmds /\ k >= k
      BY <1>0, <1>3 DEF Progress, Fork
    <3>2. st[k] = "none"
      BY <1>0, <1>3, <3>1 DEF Progress, Fork
    <3>. QED
      BY <1>0, <3>1, <3>2 DEF Progress, Over
  <2>2. Typed'
    BY <1>0, <1>3, <2>1 DEF Typed, Fork
  <2>3. Progress'
    BY <1>0, <1>3, <2>1 DEF Typed, Progress, Fork, Alive, Over
  <2>. QED
    BY <2>2, <2>3 DEF TypeOK, Typed, Progress
<1>4. CASE ClosePipes
  BY <1>0, <1>4 DEF TypeOK, Typed, Progress, ClosePipes, FirstWaited, progVars, Alive, Over
<1>5. CASE Reap
  <2>1. code[k] \in Statuses
    BY <1>0, <1>5 DEF Typed, Progress, Reap
  <2>. QED
    BY <1>0, <1>5, <2>1 DEF TypeOK, Typed, Progress, Reap, progVars, Alive, Over
<1>6. CASE Exit
  BY <1>0, <1>6, ExitTypes DEF Exit, Typed
<1>7. CASE ShellGoesOn
  BY <1>0, <1>7 DEF TypeOK, Typed, Progress, ShellGoesOn, progVars, Alive, Over
<1>8. ASSUME NEW i \in Cmds, Program(i) \/ RedirectFails(i) \/ Quit(i)
      PROVE  TypeOK'
  <2>1. CASE AskForSignal(i)
    BY <1>0, <2>1 DEF TypeOK, Typed, Progress, AskForSignal, supVars, Alive, Over
  <2>2. CASE SetUp(i)
    <3>1. PICK n \in 0..MaxWrites : left' = [left EXCEPT ![i] = n]
      BY <2>2 DEF SetUp
    <3>2. i \in Procs /\ i # 0 /\ ends[i] \cap Kept(i) \in SUBSET AllEnds
      BY <1>0 DEF Typed
    <3>3. Typed'
      BY <1>0, <2>2, <3>1, <3>2 DEF Typed, SetUp, supVars
    <3>4. Progress'
      BY <1>0, <2>2, <3>2 DEF Typed, Progress, SetUp, supVars, Alive, Over
    <3>. QED
      BY <3>3, <3>4 DEF TypeOK, Typed, Progress
  <2>3. CASE Read(i)
    <3>1. Typed'
      BY <1>0, <2>3 DEF Typed, Read, supVars, progVars
    <3>2. Progress'
      BY <1>0, <2>3 DEF Progress, Read, supVars, progVars, Alive, Over
    <3>. QED
      BY <3>1, <3>2 DEF TypeOK, Typed, Progress
  <2>4. CASE Write(i)
    <3>1. left[i] - 1 \in 0..MaxWrites
      BY <1>0, <2>4 DEF Typed, Write
    <3>2. buf' \in [Pipes -> 0..Cap]
      <4>1. CASE i \in Pipes
        <5>1. buf[i] + 1 \in 0..Cap
          BY <1>0, <2>4, <4>1 DEF Typed, Write
        <5>. QED
          BY <1>0, <2>4, <4>1, <5>1 DEF Typed, Write
      <4>2. CASE i \notin Pipes
        BY <1>0, <2>4, <4>2 DEF Typed, Write
      <4>. QED
        BY <4>1, <4>2
    <3>3. Typed'
      BY <1>0, <2>4, <3>1, <3>2 DEF Typed, Write, supVars
    <3>4. Progress'
      BY <1>0, <2>4 DEF Typed, Progress, Write, supVars, Alive, Over
    <3>. QED
      BY <3>3, <3>4 DEF TypeOK, Typed, Progress
  <2>5. CASE BrokenPipe(i)
    <3>1. "dead" \in {"done", "dead"} /\ PipeStatus \in Statuses
      BY StatusFacts
    <3>2. Alive(i) /\ Ends(i, "dead", PipeStatus)
      BY <2>5 DEF BrokenPipe, Alive
    <3>. QED
      BY <3>1, <3>2, EndsTypes
  <2>6. CASE Finish(i)
    <3>1. "done" \in {"done", "dead"} /\ Good \in Statuses
      BY StatusFacts
    <3>2. Alive(i) /\ Ends(i, "done", Good)
      BY <2>6 DEF Finish, Alive
    <3>. QED
      BY <3>1, <3>2, EndsTypes
  <2>7. CASE RedirectFails(i)
    <3>1. "dead" \in {"done", "dead"} /\ NoEntry \in Statuses
      BY StatusFacts
    <3>2. Alive(i) /\ Ends(i, "dead", NoEntry)
      BY <2>7 DEF RedirectFails, Alive
    <3>. QED
      BY <3>1, <3>2, EndsTypes
  <2>8. CASE Quit(i)
    <3>1. "dead" \in {"done", "dead"} /\ {Good, Bad, NoEntry} \subseteq Statuses
      BY StatusFacts
    <3>2. Alive(i)
      BY <2>8 DEF Quit, Alive
    <3>3. PICK c \in {Good, Bad, NoEntry} : Ends(i, "dead", c)
      BY <2>8 DEF Quit
    <3>4. c \in Statuses
      BY <3>1, <3>3
    <3>. QED
      BY <3>1, <3>2, <3>3, <3>4, EndsTypes
  <2>. QED
    BY <1>8, <2>1, <2>2, <2>3, <2>4, <2>5, <2>6, <2>7, <2>8 DEF Program
<1>9. CASE StartSupervisor \/ StartFails \/ UNCHANGED vars
  BY <1>0, <1>9 DEF TypeOK, Typed, Progress, StartSupervisor, StartFails, vars, supVars,
                    progVars, Alive, Over
<1>. QED
  BY <1>1, <1>2, <1>3, <1>4, <1>5, <1>6, <1>7, <1>8, <1>9 DEF Next, Supervisor

\* The types are correct, and no process that has ended holds a pipe end.
THEOREM TypeCorrect == Spec => []TypeOK
<1>1. Init => TypeOK
  BY DEF Init, TypeOK, Statuses, Good, Pending, Alive, Over
<1>. QED
  BY <1>1, TypeStep, PTL DEF Spec

-----------------------------------------------------------------------------
\* A process between fork() and the loop before execvp() has all pipe ends, and
\* so has the supervisor until it closes them.
Inherited ==
  /\ sup \in {"fork", "close"} => ends[0] = AllEnds
  /\ \A i \in Cmds : st[i] \in {"born", "setup"} => ends[i] = AllEnds

EndsInv == TypeOK /\ Inherited /\ NoStrayEnd

\* Only the ends of one process change when it ends.
LEMMA EndsKeepEnds ==
  ASSUME EndsInv, NEW i \in Cmds, NEW s \in {"done", "dead"}, NEW c \in Statuses, Ends(i, s, c)
  PROVE  (Inherited /\ NoStrayEnd)'
  BY DEF EndsInv, TypeOK, Inherited, NoStrayEnd, Ends, supVars

LEMMA ExitKeepsEnds ==
  ASSUME EndsInv, NEW s \in Statuses, SupervisorExits(s)
  PROVE  (Inherited /\ NoStrayEnd)'
  BY DEF EndsInv, TypeOK, Inherited, NoStrayEnd, SupervisorExits

LEMMA EndsStep == EndsInv /\ [Next]_vars => EndsInv'
<1>. SUFFICES ASSUME EndsInv, [Next]_vars
     PROVE  (Inherited /\ NoStrayEnd)'
  BY TypeStep DEF EndsInv
<1>0. TypeOK /\ Inherited /\ NoStrayEnd
  BY DEF EndsInv
<1>1. CASE CreatePipes
  BY <1>0, <1>1 DEF TypeOK, Inherited, NoStrayEnd, CreatePipes, progVars
<1>2. CASE SupervisorFails
  BY <1>2, ExitKeepsEnds, StatusFacts DEF SupervisorFails
<1>3. CASE Fork
  <2>1. k \in Cmds /\ k # 0 /\ ends[0] = AllEnds
    BY <1>0, <1>3 DEF TypeOK, Inherited, Fork
  <2>. QED
    BY <1>0, <1>3, <2>1 DEF TypeOK, Inherited, NoStrayEnd, Fork
<1>4. CASE ClosePipes
  BY <1>0, <1>4 DEF TypeOK, Inherited, NoStrayEnd, ClosePipes, progVars
<1>5. CASE Reap
  BY <1>0, <1>5 DEF Inherited, NoStrayEnd, Reap, progVars
<1>6. CASE Exit
  BY <1>0, <1>6, ExitKeepsEnds DEF Exit, TypeOK
<1>7. CASE ShellGoesOn
  BY <1>0, <1>7 DEF Inherited, NoStrayEnd, ShellGoesOn, progVars
<1>8. ASSUME NEW i \in Cmds, Program(i) \/ RedirectFails(i) \/ Quit(i)
      PROVE  (Inherited /\ NoStrayEnd)'
  <2>0. i \in Procs /\ i # 0
    OBVIOUS
  <2>1. CASE AskForSignal(i)
    BY <1>0, <2>1 DEF TypeOK, Inherited, NoStrayEnd, AskForSignal, supVars
  <2>2. CASE SetUp(i)
    <3>1. ends[i] \cap Kept(i) = AllEnds \cap {R(i - 1), W(i)}
      BY <1>0, <2>2 DEF Inherited, SetUp, Kept
    <3>. QED
      BY <1>0, <2>0, <2>2, <3>1 DEF TypeOK, Inherited, NoStrayEnd, SetUp, supVars
  <2>3. CASE Read(i)
    BY <1>0, <2>3 DEF Inherited, NoStrayEnd, Read, supVars, progVars
  <2>4. CASE Write(i)
    BY <1>0, <2>4 DEF Inherited, NoStrayEnd, Write, supVars
  <2>5. CASE BrokenPipe(i)
    BY <2>5, EndsKeepEnds, StatusFacts DEF BrokenPipe
  <2>6. CASE Finish(i)
    BY <2>6, EndsKeepEnds, StatusFacts DEF Finish
  <2>7. CASE RedirectFails(i)
    BY <2>7, EndsKeepEnds, StatusFacts DEF RedirectFails
  <2>8. CASE Quit(i)
    BY <2>8, EndsKeepEnds, StatusFacts DEF Quit
  <2>. QED
    BY <1>8, <2>1, <2>2, <2>3, <2>4, <2>5, <2>6, <2>7, <2>8 DEF Program
<1>9. CASE StartSupervisor \/ StartFails \/ UNCHANGED vars
  BY <1>0, <1>9 DEF Inherited, NoStrayEnd, StartSupervisor, StartFails, vars, supVars, progVars
<1>. QED
  BY <1>1, <1>2, <1>3, <1>4, <1>5, <1>6, <1>7, <1>8, <1>9 DEF Next, Supervisor

\* A running program has exactly the pipe ends open that it reads and writes,
\* in pipelines of every length: the loops that close the inherited ends
\* (rsh_server.c:533-536 and 545-548) leave none behind.
THEOREM OnlyItsOwnEnds == Spec => []NoStrayEnd
<1>1. Init => EndsInv
  BY DEF Init, EndsInv, Inherited, NoStrayEnd, TypeOK, Statuses, Good, Pending, Alive, Over
<1>2. EndsInv => NoStrayEnd
  BY DEF EndsInv
<1>. QED
  BY <1>1, <1>2, EndsStep, PTL DEF Spec

-----------------------------------------------------------------------------
\* What the supervisor has waited for has ended, and what it returns is the
\* status of the last command.
Reaped ==
  /\ sup = "wait" => \A i \in Cmds : i < k => Over(i)
  /\ sup = "wait" /\ k > N => prc = code[N]
  /\ sup = "exited" /\ st[N] # "none" => prc = code[N] /\ \A i \in Cmds : Over(i)
  /\ sup \notin {"none", "exited"} => rc = Pending
  /\ sup = "exited" => rc \in {Pending, prc}

WaitInv == TypeOK /\ Reaped

\* A program takes no step of its own once it has ended, and none before its fork().
LEMMA ProgramSteps ==
  ASSUME TypeOK, NEW i \in Cmds, Program(i) \/ RedirectFails(i) \/ Quit(i)
  PROVE  /\ UNCHANGED supVars
         /\ Alive(i)
         /\ \A j \in Cmds \ {i} : st'[j] = st[j] /\ code'[j] = code[j]
<1>1. CASE AskForSignal(i)
  BY <1>1 DEF TypeOK, AskForSignal, Alive
<1>2. CASE SetUp(i)
  BY <1>2 DEF TypeOK, SetUp, Alive
<1>3. CASE Read(i)
  BY <1>3 DEF Read, Alive, progVars
<1>4. CASE Write(i)
  BY <1>4 DEF Write, Alive
<1>5. CASE BrokenPipe(i)
  BY <1>5 DEF TypeOK, BrokenPipe, Ends, Alive
<1>6. CASE Finish(i)
  BY <1>6 DEF TypeOK, Finish, Ends, Alive
<1>7. CASE RedirectFails(i)
  BY <1>7 DEF TypeOK, RedirectFails, Ends, Alive
<1>8. CASE Quit(i)
  BY <1>8 DEF TypeOK, Quit, Ends, Alive
<1>. QED
  BY <1>1, <1>2, <1>3, <1>4, <1>5, <1>6, <1>7, <1>8 DEF Program

LEMMA WaitStep == WaitInv /\ [Next]_vars => WaitInv'
<1>. SUFFICES ASSUME WaitInv, [Next]_vars
     PROVE  Reaped'
  BY TypeStep DEF WaitInv
<1>0. TypeOK /\ Reaped /\ TypeOK'
  BY TypeStep DEF WaitInv
<1>. N \in Cmds
  OBVIOUS
<1>1. CASE CreatePipes
  BY <1>0, <1>1 DEF Reaped, CreatePipes
<1>2. CASE SupervisorFails
  <2>1. st[N] = "none"
    BY <1>0, <1>2 DEF TypeOK, SupervisorFails
  <2>2. st'[N] = "none" /\ sup' = "exited" /\ rc' = rc /\ rc = Pending
    BY <1>0, <1>2, <2>1 DEF TypeOK, Reaped, SupervisorFails, SupervisorExits, Alive
  <2>. QED
    BY <2>2 DEF Reaped
<1>3. CASE Fork
  BY <1>0, <1>3 DEF Reaped, Fork
<1>4. CASE ClosePipes
  BY <1>0, <1>4 DEF TypeOK, Reaped, ClosePipes, FirstWaited
<1>5. CASE Reap
  <2>1. k' = k + 1 /\ k \in Cmds /\ sup' = "wait" /\ rc' = Pending
    BY <1>0, <1>5 DEF Reaped, Reap
  <2>2. \A i \in Cmds : i < k' => Over(i)'
    <3>1. Over(k) /\ \A i \in Cmds : i < k => Over(i)
      BY <1>0, <1>5 DEF Reaped, Reap
    <3>2. \A i \in Cmds : i < k' => i < k \/ i = k
      BY <2>1
    <3>3. st' = st
      BY <1>5 DEF Reap, progVars
    <3>. QED
      BY <3>1, <3>2, <3>3 DEF Over
  <2>3. k' > N => k = N
    BY <2>1
  <2>4. k' > N => prc' = code'[N]
    BY <1>5, <2>3 DEF Reap, progVars
  <2>. QED
    BY <2>1, <2>2, <2>4 DEF Reaped
<1>6. CASE Exit
  <2>1. prc = code[N] /\ \A i \in Cmds : Over(i)
    BY <1>0, <1>6 DEF TypeOK, Reaped, Exit
  <2>2. \A i \in Cmds : ~Alive(i)
    BY <2>1 DEF Over, Alive
  <2>3. \A i \in Cmds : st'[i] = st[i] /\ code'[i] = code[i]
    BY <1>6, <2>2 DEF Exit, SupervisorExits
  <2>. QED
    BY <1>0, <1>6, <2>1, <2>3 DEF Reaped, Exit, SupervisorExits, Over
<1>7. CASE ShellGoesOn
  BY <1>0, <1>7 DEF Reaped, ShellGoesOn, progVars, Over
<1>8. ASSUME NEW i \in Cmds, Program(i) \/ RedirectFails(i) \/ Quit(i)
      PROVE  Reaped'
  <2>1. /\ UNCHANGED supVars
        /\ Alive(i) /\ ~Over(i) /\ code[i] = Pending /\ st[i] # "none"
        /\ \A j \in Cmds \ {i} : st'[j] = st[j] /\ code'[j] = code[j]
    BY <1>0, <1>8, ProgramSteps DEF TypeOK, Alive, Over
  <2>2. \A j \in Cmds : Over(j) => Over(j)' /\ code'[j] = code[j]
    BY <2>1 DEF Over
  <2>3. sup = "wait" => \A j \in Cmds : j < k => Over(j)'
    BY <1>0, <2>2 DEF Reaped
  <2>4. sup = "wait" /\ k > N => prc = code'[N]
    BY <1>0, <2>2 DEF TypeOK, Reaped
  <2>5. sup = "exited" /\ st'[N] # "none" => st[N] # "none"
    BY <2>1
  <2>6. sup = "exited" /\ st'[N] # "none" => prc = code'[N] /\ \A j \in Cmds : Over(j)'
    BY <1>0, <2>2, <2>5 DEF Reaped
  <2>. QED
    BY <1>0, <2>1, <2>3, <2>4, <2>6 DEF Reaped, supVars
<1>9. CASE StartSupervisor \/ StartFails
  BY <1>0, <1>9 DEF Reaped, StartSupervisor, StartFails
<1>10. CASE UNCHANGED vars
  BY <1>0, <1>10 DEF Reaped, vars, supVars, progVars, Over
<1>. QED
  BY <1>1, <1>2, <1>3, <1>4, <1>5, <1>6, <1>7, <1>8, <1>9, <1>10 DEF Next, Supervisor

LEMMA WaitInit == Init => WaitInv
  BY DEF Init, WaitInv, Reaped, TypeOK, Statuses, Good, Pending, Alive, Over

\* The shell gets the status of the last command (rsh_server.c:552-559), whatever
\* the number of commands and the order in which they end.
THEOREM StatusOfLast == Spec => []LastCode
<1>1. WaitInv => LastCode
  BY DEF WaitInv, TypeOK, Reaped, LastCode
<1>. QED
  BY <1>1, WaitInit, WaitStep, PTL DEF Spec

\* The shell prompts, and the server sends the end mark, after all programs of the
\* pipeline have ended.
THEOREM ShellWaitsForAll == Spec => []AllReaped
<1>1. WaitInv => AllReaped
  BY DEF WaitInv, TypeOK, Reaped, AllReaped
<1>. QED
  BY <1>1, WaitInit, WaitStep, PTL DEF Spec

-----------------------------------------------------------------------------
\* While the supervisor lives, whatever has got past its prctl() will be told of
\* its end.
Marked == sup # "exited" => \A i \in Cmds : st[i] \in {"setup", "run"} => asked[i]

LEMMA MarkedStep == TypeOK /\ Marked /\ [Next]_vars => Marked'
<1>. SUFFICES ASSUME TypeOK, Marked, [Next]_vars, sup' # "exited"
     PROVE  \A i \in Cmds : st'[i] \in {"setup", "run"} => asked'[i]
  BY DEF Marked
<1>1. CASE SupervisorFails \/ Exit
  BY <1>1 DEF SupervisorFails, Exit, SupervisorExits
<1>2. CASE Fork
  BY <1>2 DEF TypeOK, Marked, Fork
<1>3. CASE StartSupervisor \/ StartFails \/ CreatePipes \/ ClosePipes \/ Reap \/ ShellGoesOn
           \/ UNCHANGED vars
  <2>1. UNCHANGED <<st, asked>> /\ sup # "exited"
    BY <1>3 DEF StartSupervisor, StartFails, CreatePipes, ClosePipes, Reap, ShellGoesOn,
                vars, supVars, progVars
  <2>. QED
    BY <2>1 DEF Marked
<1>4. ASSUME NEW i \in Cmds, Program(i) \/ RedirectFails(i) \/ Quit(i)
      PROVE  \A j \in Cmds : st'[j] \in {"setup", "run"} => asked'[j]
  <2>1. sup # "exited" /\ \A j \in Cmds \ {i} : st'[j] = st[j]
    BY <1>4, ProgramSteps DEF supVars
  <2>2. CASE AskForSignal(i)
    <3>1. asked' = [asked EXCEPT ![i] = TRUE]
      BY <2>1, <2>2 DEF AskForSignal
    <3>. QED
      BY <2>1, <3>1 DEF TypeOK, Marked
  <2>3. CASE SetUp(i)
    BY <2>1, <2>3 DEF TypeOK, Marked, SetUp
  <2>4. CASE Read(i) \/ Write(i)
    BY <2>1, <2>4 DEF Marked, Read, Write, progVars
  <2>5. CASE BrokenPipe(i) \/ Finish(i) \/ RedirectFails(i) \/ Quit(i)
    BY <2>1, <2>5 DEF TypeOK, Marked, BrokenPipe, Finish, RedirectFails, Quit, Ends
  <2>. QED
    BY <1>4, <2>2, <2>3, <2>4, <2>5 DEF Program
<1>. QED
  BY <1>1, <1>2, <1>3, <1>4 DEF Next, Supervisor

\* Only exit() ends the supervisor, and it takes with it who has asked for that.
LEMMA LastStep ==
  ASSUME TypeOK, Marked, Next, sup # "exited", sup' = "exited", NEW i \in Cmds, st[i] = "run"
  PROVE  ~Alive(i)'
<1>1. asked[i] /\ Alive(i)
  BY DEF Marked, Alive
<1>2. SupervisorFails \/ Exit
  <2>1. \A j \in Cmds : Program(j) \/ RedirectFails(j) \/ Quit(j) => sup' = sup
    BY ProgramSteps DEF supVars
  <2>. QED
    BY <2>1 DEF Next, Supervisor, StartSupervisor, StartFails, CreatePipes, Fork, ClosePipes,
                Reap, ShellGoesOn
<1>3. st'[i] = "dead"
  BY <1>1, <1>2 DEF TypeOK, SupervisorFails, Exit, SupervisorExits
<1>. QED
  BY <1>3 DEF Alive

\* No program that executes its command outlives the supervisor, whatever the number
\* of commands and wherever a fork() fails: each process calls prctl() before
\* anything else (rsh_server.c:485).
THEOREM NoOrphanRuns == Spec => OrphansAreLate
<1>1. Init => TypeOK /\ Marked
  BY WaitInit DEF WaitInv, Init, Marked
<1>2. TypeOK /\ Marked /\ [Next]_vars => TypeOK' /\ Marked'
  BY TypeStep, MarkedStep
<1>3. TypeOK /\ Marked /\ [Next]_vars
        => [sup # "exited" /\ sup' = "exited"
              => \A i \in Cmds : st[i] = "run" => ~Alive(i)']_vars
  BY LastStep
<1>. QED
  BY <1>1, <1>2, <1>3, PTL DEF Spec, OrphansAreLate
=============================================================================
