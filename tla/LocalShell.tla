----------------------------- MODULE LocalShell -----------------------------
(***************************************************************************)
(* The loops that run one line after the other in one command_list_t:      *)
(* exec_local_cmd_loop() of 5-ShellP3 and 6-ShellP4, and the body of       *)
(* exec_client_requests() in rsh_server.c.  What lasts from line to line   *)
(* is the list: its length, the words of its commands, and for every       *)
(* pointer in it whether it owns memory.                                   *)
(*                                                                         *)
(* A line is what strtok() makes of it: the number of its pipes and the    *)
(* words of the tokens between them.  CmdLine says how words become        *)
(* commands.  What a pipeline does is Pipeline's subject; here it ends     *)
(* with some code.                                                         *)
(***************************************************************************)
EXTENDS CmdLine

CONSTANTS
  Shells,    \* which of "P3", "P4", "server" run
  Lines,     \* the lines that users type
  MaxLines,  \* bound: lines of a session
  Codes,     \* what programs exit with, and errno after a failed cd
  Faults     \* may malloc() and strdup() fail?

\* A line has no more commands than its pipes separate, and a command has a word
\* at least, be it an empty one: the token is a string.
ASSUME ShellAssumption ==
  /\ Shells \subseteq {"P3", "P4", "server"}
  /\ \A l \in Lines :
       /\ l.pipes \in Nat /\ Len(l.cmds) \in 0..(l.pipes + 1)
       /\ l.cmds \in Seq(Seq(Seq(STRING)) \ {<<>>})
  /\ MaxLines \in Nat
  /\ Faults \in BOOLEAN

VARIABLES
  shell,   \* which loop this is
  pc,      \* "prompt", "run", "clear", "done", or "crashed"
  nline,   \* lines read so far
  line,    \* the last of them
  num,     \* command_list.num
  slots,   \* command_list.commands
  cmdRc,   \* cmd_rc of the local loops
  cwd,     \* the working directory
  lost,    \* history: was memory lost that nothing points to?
  twice,   \* history: was memory freed that was not owned?
  excuse   \* history: was there a line that may leave memory behind?

vars == <<shell, pc, nline, line, num, slots, cmdRc, cwd, lost, twice, excuse>>

Exit == <<"exit">>
Cd == <<"cd">>
Rc == <<"rc">>
Dragon == <<"dragon">>
StopServer == <<"stop-server">>

\* match_command(), and rsh_match_command() of the server.
BuiltIns == {Exit, Cd, Rc, Dragon} \cup IF shell = "server" THEN {StopServer} ELSE {}

\* A command in the list.  A pointer owns memory of malloc(), or it is "null",
\* "dangling" (freed already) or "junk" (never written).
Pointers == {"null", "owned", "dangling", "junk"}
Members == {"strings", "buffer", "input", "output"}

Slot(args, strings, buffer, input, output) ==
  [args |-> args, strings |-> strings, buffer |-> buffer, input |-> input, output |-> output]

Init ==
  /\ shell \in Shells
  /\ pc = "prompt"
  /\ nline = 0
  /\ line = [pipes |-> 0, cmds |-> <<>>]
  /\ num = 0
  /\ slots = [n \in 1..CmdMax |-> Slot(<<>>, "junk", "junk", "junk", "junk")]
  /\ cmdRc = "OK"
  /\ cwd = <<"home">>
  /\ lost = FALSE
  /\ twice = FALSE
  /\ excuse = FALSE

-----------------------------------------------------------------------------
(* build_cmd_buff() into a slot that still holds an earlier command.       *)

Build(ws) ==
  FoldLeft(LAMBDA b, w : IF shell = "P3" THEN WordP3(b, w) ELSE WordP4(b, w), EmptyBuff, ws)

\* The words that become files of these kinds.
Files(ws, kinds) ==
  {n \in DOMAIN ws :
     LET b == Build(SubSeq(ws, 1, n - 1)) IN b.rc = "OK" /\ ~b.done /\ b.flag \in kinds}

OwnedIf(has) == IF has THEN "owned" ELSE "null"

\* The words are in the slot, and more follow or not.  The NULL behind a full
\* argv falls on _cmd_buffer, the next member of the structure.
Filled(ws, more) ==
  LET b == Build(ws)
      over == b.rc = "OK" /\ ~more /\ Len(b.argv) = ArgvMax
  IN  [rc |-> b.rc,
       slot |-> Slot(b.argv, OwnedIf(b.argv # <<>>), OwnedIf(~over),
                     OwnedIf(b.input # NoFile), OwnedIf(b.output # NoFile)),
       writes |-> Members,
       lost |-> \/ over
                \/ Cardinality(Files(ws, {"output", "append"})) > 1
                \/ Cardinality(Files(ws, {"input"})) > 1]

\* strdup() fails for word n: an argument is not counted, a file is NULL.
Interrupted(ws, n) ==
  LET f == Filled(SubSeq(ws, 1, n - 1), TRUE)
      flag == Build(SubSeq(ws, 1, n - 1)).flag
      file == CASE flag = "input" -> {"input"} [] flag = "none" -> {} [] OTHER -> {"output"}
  IN  [f EXCEPT !.rc = "ERR_MEMORY",
                !.slot = [m \in DOMAIN @ |-> IF m \in file THEN "null" ELSE @[m]],
                !.lost = @ \/ \E m \in file : f.slot[m] = "owned"]

\* The words for which memory is needed.
Copied(ws) ==
  {n \in DOMAIN ws :
     LET before == Build(SubSeq(ws, 1, n - 1))
         after == Build(SubSeq(ws, 1, n))
     IN  after.rc = "OK" /\ (after.argv # before.argv \/ n \in Files(ws, {"output", "append", "input"}))}

\* The first malloc() fails: 5-ShellP3 has reset the other members by then,
\* 6-ShellP4 has not.
NoBuffer(s) ==
  LET slot == IF shell = "P3" THEN Slot(<<>>, "null", s.buffer, "null", "null")
              ELSE [s EXCEPT !.buffer = "null"]
  IN  [rc |-> "ERR_MEMORY", slot |-> slot, lost |-> FALSE,
       writes |-> {m \in Members : slot[m] # s[m]}]

\* Mutant: argc is not reset.
OutcomesKeepArgc(s, ws) == {[Filled(ws, FALSE) EXCEPT !.slot.args = s.args \o @]}

\* All that build_cmd_buff() may leave in slot s.
Outcomes(s, ws) ==
  {Filled(ws, FALSE)}
    \cup IF Faults THEN {NoBuffer(s)} \cup {Interrupted(ws, n) : n \in Copied(ws)} ELSE {}

-----------------------------------------------------------------------------
(* One line.                                                               *)

\* Neither empty nor too many pipes.
Takes(l) == (l.pipes > 0 \/ l.cmds # <<>>) /\ l.pipes < CmdMax

\* May memory be left behind, even if every allocation succeeds?
Leaves(ws) == Filled(ws, FALSE).lost \/ Build(ws).rc # "OK"

NextLine(l) ==
  /\ pc = "prompt"
  /\ nline < MaxLines
  /\ nline' = nline + 1
  /\ line' = l

\* build_cmd_list() refuses the line before it looks at a command.
Refuse(l) ==
  /\ NextLine(l)
  /\ ~Takes(l)
  /\ UNCHANGED <<shell, pc, num, slots, cmdRc, cwd, lost, twice, excuse>>

\* It builds the commands up to the first that fails.  num is set only if none
\* does; what the others allocated stays in the list.
Read(l) ==
  /\ NextLine(l)
  /\ Takes(l)
  /\ \E last \in 0..Len(l.cmds) :
       \E outs \in [1..last -> UNION {Outcomes(slots[n], l.cmds[n]) : n \in 1..last}] :
         LET good == \A n \in 1..last : outs[n].rc = "OK" IN
         /\ \A n \in 1..last : outs[n] \in Outcomes(slots[n], l.cmds[n])
         /\ \A n \in 1..(last - 1) : outs[n].rc = "OK"
         /\ last < Len(l.cmds) => ~good
         /\ slots' = [n \in 1..CmdMax |-> IF n <= last THEN outs[n].slot ELSE slots[n]]
         /\ lost' = (lost \/ \E n \in 1..last : \/ outs[n].lost
                                                \/ \E m \in outs[n].writes : slots[n][m] = "owned")
         /\ excuse' = (excuse \/ ~good \/ \E n \in 1..last : Leaves(l.cmds[n]))
         /\ num' = IF good THEN Len(l.cmds) ELSE num
         /\ pc' = IF good THEN "run" ELSE "prompt"
  /\ UNCHANGED <<shell, cmdRc, cwd, twice>>

\* The end of standard input, or of the client's connection.
EndOfInput ==
  /\ pc = "prompt"
  /\ pc' = "done"
  /\ UNCHANGED <<shell, nline, line, num, slots, cmdRc, cwd, lost, twice, excuse>>

First == slots[1].args[1]

\* match_command(argv[0]): there is a name to compare, be it a stale one.
HasName == num > 0 /\ slots[1].args # <<>>

\* argv[0] is NULL, or no line has ever written it, or it was freed.
Crash ==
  /\ pc = "run"
  /\ \/ num > 0 /\ slots[1].args = <<>>
     \/ num = 0 /\ slots[1].strings # "owned"
  /\ pc' = "crashed"
  /\ UNCHANGED <<shell, nline, line, num, slots, cmdRc, cwd, lost, twice, excuse>>

\* Mutant: a built-in is run by the shell itself in a pipeline, too.
AloneOrNot == HasName /\ First \in BuiltIns

\* clist_has_no_pipe_redirection_and_built_in(), which ignores redirections.
Alone == HasName /\ First \in BuiltIns /\ num = 1

-----------------------------------------------------------------------------
(* free_cmd_list() and clear_cmd_buff(): argc and the pointers keep their   *)
(* values, and only num = 0 keeps them from being freed again.             *)

List == [num |-> num, slots |-> slots, twice |-> twice]

Freed(s) == [m \in DOMAIN s |-> IF m \in Members /\ s[m] # "null" THEN "dangling" ELSE s[m]]

Bad(s) == \E m \in Members : s[m] \in {"dangling", "junk"}

\* Mutants: num keeps its value, and the first command is left out.
FreeListKeepsNum(l) ==
  [num |-> l.num,
   slots |-> [n \in DOMAIN l.slots |-> IF n <= l.num THEN Freed(l.slots[n]) ELSE l.slots[n]],
   twice |-> l.twice \/ \E n \in 1..l.num : Bad(l.slots[n])]

FreeListOffByOne(l) ==
  [num |-> 0,
   slots |-> [n \in DOMAIN l.slots |-> IF n < l.num THEN Freed(l.slots[n]) ELSE l.slots[n]],
   twice |-> l.twice \/ \E n \in 1..l.num : Bad(l.slots[n])]

FreeList(l) ==
  [num |-> 0,
   slots |-> [n \in DOMAIN l.slots |-> IF n <= l.num THEN Freed(l.slots[n]) ELSE l.slots[n]],
   twice |-> l.twice \/ \E n \in 1..l.num : Bad(l.slots[n])]

BecomesList(l) == num' = l.num /\ slots' = l.slots /\ twice' = l.twice

-----------------------------------------------------------------------------
(* What the line does.                                                     *)

\* The server keeps no code.
CodeOf(code) == IF shell = "server" THEN cmdRc ELSE code

\* exit frees the list and ends the loop, and so does stop-server at the server.
RunExit ==
  /\ pc = "run"
  /\ Alone
  /\ First = IF shell = "server" THEN StopServer ELSE Exit
  /\ BecomesList(FreeList(List))
  /\ cmdRc' = CodeOf("BI_CMD_EXIT")
  /\ pc' = "done"
  /\ UNCHANGED <<shell, nline, line, cwd, lost, excuse>>

\* At the server exit frees the list, leaves the switch, and frees it again;
\* the loop ends when the client closes the connection.
RunExitAtServer ==
  /\ pc = "run"
  /\ Alone
  /\ First = Exit /\ shell = "server"
  /\ BecomesList(FreeList(FreeList(List)))
  /\ pc' = "prompt"
  /\ UNCHANGED <<shell, nline, line, cmdRc, cwd, lost, excuse>>

\* exec_cd() ignores all but one argument; the server takes the first of them.
RunCd ==
  /\ pc = "run"
  /\ Alone
  /\ First = Cd
  /\ LET args == slots[1].args
         tries == IF shell = "server" THEN Len(args) > 1 ELSE Len(args) = 2
     IN  \/ tries /\ cwd' = args[2] /\ cmdRc' = CodeOf("BI_EXECUTED")
         \/ tries /\ UNCHANGED cwd /\ \E errno \in Codes : cmdRc' = CodeOf(errno)
         \/ ~tries /\ UNCHANGED cwd /\ cmdRc' = CodeOf("BI_EXECUTED")
  /\ pc' = "clear"
  /\ UNCHANGED <<shell, nline, line, num, slots, lost, twice, excuse>>

\* rc and dragon print something, though not at the server.
RunOther ==
  /\ pc = "run"
  /\ Alone
  /\ First \in {Rc, Dragon}
  /\ cmdRc' = CodeOf("BI_EXECUTED")
  /\ pc' = "clear"
  /\ UNCHANGED <<shell, nline, line, num, slots, cwd, lost, twice, excuse>>

\* Everything else is a pipeline, also a list of no command at all, whose first
\* name is the stale one of an earlier line.
RunPipeline ==
  /\ pc = "run"
  /\ num = 0 \/ (HasName /\ ~Alone)
  /\ \E code \in Codes : cmdRc' = CodeOf(code)
  /\ pc' = "clear"
  /\ UNCHANGED <<shell, nline, line, num, slots, cwd, lost, twice, excuse>>

Clear ==
  /\ pc = "clear"
  /\ BecomesList(FreeList(List))
  /\ pc' = "prompt"
  /\ UNCHANGED <<shell, nline, line, cmdRc, cwd, lost, excuse>>

Next ==
  \/ \E l \in Lines : Refuse(l) \/ Read(l)
  \/ EndOfInput \/ Crash \/ RunExit \/ RunExitAtServer \/ RunCd \/ RunOther \/ RunPipeline \/ Clear

Spec == Init /\ [][Next]_vars

-----------------------------------------------------------------------------
(* Properties.                                                             *)

\* free() never sees a pointer that is not owned, although the pointers of a
\* freed command stay in the list, the server frees twice after exit, and a line
\* that fails half-way leaves a mixture of its own and an earlier line's
\* pointers: only num tells which of them count.
FreedOnce == ~twice

\* No memory stays allocated from one line to the next, and none is lost, unless
\* a line was refused half-way, filled argv, or named two files of one kind.
NothingLeft ==
  /\ lost => excuse
  /\ pc \in {"prompt", "done"} /\ ~excuse =>
       \A n \in 1..CmdMax, m \in Members : slots[n][m] # "owned"

\* What runs is the line that was read last, not what an earlier one left behind.
RunsTheLine ==
  pc = "run" =>
    /\ num = Len(line.cmds)
    /\ \A n \in 1..num :
         /\ slots[n].strings # "dangling"
         /\ \A k \in DOMAIN slots[n].args : \E i \in DOMAIN line.cmds[n] : line.cmds[n][i] = slots[n].args[k]

\* A shell dies only of a line without a name: pipes only, or in 5-ShellP3 also
\* a redirection in the first place.
CrashesForAReason ==
  pc = "crashed" =>
    \/ line.cmds = <<>>
    \/ shell = "P3" /\ Operator(line.cmds[1][1]) # "none"

\* The directory changes only by a cd that is not part of a pipeline, and only to
\* the directory it names.
CdAlone ==
  [][cwd' # cwd =>
       /\ Len(line.cmds) = 1 /\ line.pipes < CmdMax
       /\ Len(line.cmds[1]) > 1 /\ line.cmds[1][1] = Cd
       /\ \E i \in 2..Len(line.cmds[1]) : line.cmds[1][i] = cwd']_vars
=============================================================================
