------------------------------ MODULE ShellP2 ------------------------------
(***************************************************************************)
(* The loop of 4-ShellP2: exec_local_cmd_loop() and what it calls.  One    *)
(* cmd_buff_t is allocated for the session; its strings are overwritten by *)
(* each line and set to zero after it, but not after a line that was       *)
(* refused.                                                                *)
(***************************************************************************)
EXTENDS CmdLine

CONSTANTS
  Lines,     \* the lines that users type: sequences of words
  MaxLines,  \* bound: lines of a session
  Codes,     \* what programs exit with, or errno of fork() and execvp()
  Faults     \* may malloc() fail?

VARIABLES
  pc,      \* "prompt", "run", "clear" or "done"
  nline,   \* lines read so far
  line,    \* the last of them
  argc,    \* cmd.argc
  argv,    \* the strings of cmd.argv, <<>> if set to zero
  rc,      \* return_code_cmd
  cwd,     \* the working directory
  stale    \* history: has a refused line left strings behind?

vars == <<pc, nline, line, argc, argv, rc, cwd, stale>>

Exit == <<"exit">>
Cd == <<"cd">>
Rc == <<"rc">>
Dragon == <<"dragon">>

\* match_command().
BuiltIns == {Exit, Cd, Rc, Dragon}

\* alloc_cmd_buff(); the loop does not start without the memory.
Init ==
  /\ pc \in {"prompt"} \cup IF Faults THEN {"done"} ELSE {}
  /\ nline = 0
  /\ line = <<>>
  /\ argc = 0
  /\ argv = [n \in 1..ArgvMax |-> <<>>]
  /\ rc = "OK"
  /\ cwd = <<"home">>
  /\ stale = FALSE

EndOfInput ==
  /\ pc = "prompt"
  /\ pc' = "done"
  /\ UNCHANGED <<nline, line, argc, argv, rc, cwd, stale>>

NextLine(l) ==
  /\ pc = "prompt"
  /\ nline < MaxLines
  /\ nline' = nline + 1
  /\ line' = l

\* format_cmd_line() fails, because the line is blank or memory is short:
\* the command is as it was.
NotFormatted(l) ==
  /\ NextLine(l)
  /\ \/ l = <<>> /\ rc' = "WARN_NO_CMDS"
     \/ l # <<>> /\ Faults /\ rc' = "ERR_MEMORY"
  /\ UNCHANGED <<pc, argc, argv, cwd, stale>>

\* The strings that the words of l leave, those of earlier lines behind them.
Strings(ws) == [n \in 1..ArgvMax |-> IF n <= Len(ws) THEN ws[n] ELSE argv[n]]

\* build_cmd_buff() copies word by word; a word that does not fit ends it.
Read(l) ==
  /\ NextLine(l)
  /\ l # <<>>
  /\ LET b == FoldLeft(WordP2, EmptyBuff, l) IN
       /\ argc' = Len(b.argv)
       /\ argv' = Strings(b.argv)
       /\ rc' = IF b.rc = "OK" THEN rc ELSE b.rc
       /\ pc' = IF b.rc = "OK" THEN "run" ELSE "prompt"
       /\ stale' = (stale \/ (b.rc # "OK" /\ b.argv # <<>>))
  /\ UNCHANGED cwd

RunExit ==
  /\ pc = "run"
  /\ argv[1] = Exit
  /\ pc' = "done"
  /\ UNCHANGED <<nline, line, argc, argv, rc, cwd, stale>>

\* exec_cd_cmd(argv[1]): it looks at the string, not at argc.
RunCd ==
  /\ pc = "run"
  /\ argv[1] = Cd
  /\ \/ argv[2] = <<>> /\ rc' = "BI_EXECUTED" /\ UNCHANGED cwd
     \/ argv[2] # <<>> /\ rc' = "BI_EXECUTED" /\ cwd' = argv[2]
     \/ argv[2] # <<>> /\ rc' = "ERR_EXEC_CMD" /\ UNCHANGED cwd
  /\ pc' = "clear"
  /\ UNCHANGED <<nline, line, argc, argv, stale>>

\* rc prints the code of the line before, and then has one of its own.
RunOther ==
  /\ pc = "run"
  /\ argv[1] \in {Rc, Dragon}
  /\ rc' = "BI_EXECUTED"
  /\ pc' = "clear"
  /\ UNCHANGED <<nline, line, argc, argv, cwd, stale>>

\* exec_cmd(), with argv[argc] set to NULL for the time of the call.
RunProgram ==
  /\ pc = "run"
  /\ argv[1] \notin BuiltIns
  /\ rc' \in Codes
  /\ pc' = "clear"
  /\ UNCHANGED <<nline, line, argc, argv, cwd, stale>>

\* Mutant: only argc is reset.
ClearCounts ==
  /\ pc = "clear"
  /\ argc' = 0
  /\ pc' = "prompt"
  /\ UNCHANGED <<nline, line, argv, rc, cwd, stale>>

\* clear_cmd_buff().
Clear ==
  /\ pc = "clear"
  /\ argc' = 0
  /\ argv' = [n \in 1..ArgvMax |-> IF n <= argc THEN <<>> ELSE argv[n]]
  /\ pc' = "prompt"
  /\ UNCHANGED <<nline, line, rc, cwd, stale>>

Next ==
  \/ \E l \in Lines : NotFormatted(l) \/ Read(l)
  \/ EndOfInput \/ RunExit \/ RunCd \/ RunOther \/ RunProgram \/ Clear

Spec == Init /\ [][Next]_vars

-----------------------------------------------------------------------------
(* Properties.                                                             *)

Refused(l) == l = <<>> \/ FoldLeft(WordP2, EmptyBuff, l).rc # "OK"

\* The codes that a line alone may give.
CodesOf(l) ==
  CASE l = <<>>                    -> {"WARN_NO_CMDS"}
    [] l # <<>> /\ Refused(l)      -> {FoldLeft(WordP2, EmptyBuff, l).rc, "ERR_MEMORY"}
    [] ~Refused(l) /\ l[1] = Cd    -> {"BI_EXECUTED", "ERR_EXEC_CMD", "ERR_MEMORY"}
    [] ~Refused(l) /\ l[1] \in BuiltIns \ {Cd} -> {"BI_EXECUTED", "ERR_MEMORY"}
    [] OTHER                       -> Codes \cup {"ERR_MEMORY"}

\* What a line does depends on no earlier line, although all of them use the same
\* strings: the code at the next prompt is one that this line may give, and cd
\* goes to the directory that is typed with it.  Except: the words of a refused
\* line are not cleared, and a later cd without a directory finds one of them.
EachLineAlone ==
  [][/\ pc' = "prompt" /\ nline' > 0 => rc' \in CodesOf(line')
     /\ cwd' # cwd => stale \/ (Len(line) > 1 /\ line[1] = Cd /\ cwd' = line[2])]_vars
=============================================================================
