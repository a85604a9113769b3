------------------------------ MODULE CmdLine ------------------------------
(***************************************************************************)
(* How the four shells take a command line apart: build_cmd_list(),        *)
(* build_cmd_buff(), format_cmd_line() and their helpers in the dshlib.c   *)
(* of 3-ShellP1, 4-ShellP2, 5-ShellP3 and 6-ShellP4.                       *)
(*                                                                         *)
(* A line is a sequence of characters.  Pure operators only: each returns  *)
(* what the C function leaves in its arguments together with its result.   *)
(***************************************************************************)
EXTENDS Naturals, FiniteSets, SequencesExt

CONSTANTS
  ExeMax,   \* EXE_MAX: size of a program's name
  ArgMax,   \* ARG_MAX: size of an argument
  ArgvMax,  \* CMD_ARGV_MAX: elements of argv
  CmdMax    \* CMD_MAX: commands in a list

ASSUME BoundsAssumption == {ExeMax, ArgMax, ArgvMax, CmdMax} \subseteq Nat \ {0}

\* The characters that the code tells apart; "nul" is the delimiter that
\* format_cmd_line() writes, "a" and "dot" stand for all others, and the names
\* "exit" and "dragon" are one character each.
Spaces == {"sp", "tab"}
Characters == Spaces \cup {"quote", "pipe", "lt", "gt", "a", "dot", "exit", "dragon"}

-----------------------------------------------------------------------------
(* Splitting.                                                              *)

\* Both ends without their blanks.
Trim(s) ==
  LET solid == {i \in DOMAIN s : s[i] \notin Spaces} IN
  IF solid = {} THEN <<>>
  ELSE SubSeq(s, CHOOSE i \in solid : \A j \in solid : i <= j,
                 CHOOSE i \in solid : \A j \in solid : i >= j)

\* The pieces of s between the characters sep, the empty ones too.
Split(s, sep) ==
  FoldLeft(LAMBDA ps, ch :
             IF ch = sep THEN Append(ps, <<>>)
             ELSE [ps EXCEPT ![Len(ps)] = Append(@, ch)],
           << <<>> >>, s)

\* strtok(s, "|"): the pieces that are not empty.
Tokens(s) ==
  FoldLeft(LAMBDA ts, p : IF p = <<>> THEN ts ELSE Append(ts, p),
           <<>>, Split(s, "pipe"))

-----------------------------------------------------------------------------
(* format_cmd_line(): quotes disappear, a run of blanks outside of them     *)
(* becomes one NUL.                                                        *)

Formatting == [out |-> <<>>, quoted |-> FALSE, space |-> FALSE]

\* One character.  resets: does a quote end a run of blanks?
FormatChar(f, ch, resets) ==
  CASE ch = "quote" ->
         [f EXCEPT !.quoted = ~@, !.space = @ /\ ~resets]
    [] ch \in Spaces /\ f.quoted ->
         [f EXCEPT !.out = Append(@, ch), !.space = @ /\ resets]
    [] ch \in Spaces /\ ~f.quoted ->
         IF f.space THEN f ELSE [f EXCEPT !.out = Append(@, "nul"), !.space = TRUE]
    [] OTHER ->
         [f EXCEPT !.out = Append(@, ch), !.space = FALSE]

\* Mutants: quotes are only dropped, and the quote does not end a run.
FormatP4NoQuotes(s) ==
  FoldLeft(LAMBDA f, ch : IF ch = "quote" THEN f ELSE FormatChar(f, ch, TRUE),
           Formatting, Trim(s)).out

FormatP4NoReset(s) == FoldLeft(LAMBDA f, ch : FormatChar(f, ch, FALSE), Formatting, Trim(s)).out

\* In 5-ShellP3 and 6-ShellP4 a quote ends a run of blanks; in 4-ShellP2 it does not.
FormatP4(s) == FoldLeft(LAMBDA f, ch : FormatChar(f, ch, TRUE), Formatting, Trim(s)).out

FormatP3(s) == FoldLeft(LAMBDA f, ch : FormatChar(f, ch, TRUE), Formatting, Trim(s)).out

FormatP2(s) == FoldLeft(LAMBDA f, ch : FormatChar(f, ch, FALSE), Formatting, Trim(s)).out

-----------------------------------------------------------------------------
(* build_cmd_buff(): one command.                                          *)

Operator(w) ==
  CASE w = <<"gt", "gt">> -> "append"
    [] w = <<"gt">>       -> "output"
    [] w = <<"lt">>       -> "input"
    [] OTHER              -> "none"

\* No word has this character.
NoFile == <<"nul">>

EmptyBuff ==
  [rc |-> "OK", argv |-> <<>>, input |-> NoFile, output |-> NoFile,
   append |-> FALSE, flag |-> "none", done |-> FALSE]

\* can_insert_cmd_buff_argv() of 5-ShellP3 and 6-ShellP4, and of 4-ShellP2,
\* where the sizes themselves are allowed.
CanInsert(argv, len) ==
  IF argv = <<>> THEN IF len < ExeMax THEN "OK" ELSE "ERR_CMD_OR_ARGS_TOO_BIG"
  ELSE IF Len(argv) + 1 <= ArgvMax /\ len < ArgMax THEN "OK" ELSE "ERR_CMD_ARGS_BAD"

CanInsertP2(argv, len) ==
  IF argv = <<>> THEN IF len <= ExeMax THEN "OK" ELSE "ERR_CMD_OR_ARGS_TOO_BIG"
  ELSE IF Len(argv) + 1 <= ArgvMax /\ len <= ArgMax THEN "OK" ELSE "ERR_CMD_ARGS_BAD"

Insert(b, w, can) ==
  [b EXCEPT !.rc = can, !.argv = IF can = "OK" THEN Append(@, w) ELSE @]

\* set_input_output_file_cmd_buff(): the last file wins, append_mode stays set.
SetFile(b, w) ==
  CASE b.flag = "append" -> [b EXCEPT !.output = w, !.append = TRUE]
    [] b.flag = "output" -> [b EXCEPT !.output = w]
    [] b.flag = "input"  -> [b EXCEPT !.input = w]

\* Mutant: the flag stays set behind the file.
WordP4FlagStays(b, w) ==
  IF b.rc # "OK" THEN b
  ELSE IF b.flag # "none" THEN SetFile(b, w)
  ELSE IF Operator(w) # "none"
    THEN IF b.argv = <<>> THEN [b EXCEPT !.rc = "WARN_NO_CMDS", !.flag = Operator(w)]
         ELSE [b EXCEPT !.flag = Operator(w)]
  ELSE Insert(b, w, CanInsert(b.argv, Len(w)))

\* Mutant: a command may begin with a redirection.
WordP4NoNameCheck(b, w) ==
  IF b.rc # "OK" THEN b
  ELSE IF b.flag # "none" THEN [SetFile(b, w) EXCEPT !.flag = "none"]
  ELSE IF Operator(w) # "none" THEN [b EXCEPT !.flag = Operator(w)]
  ELSE Insert(b, w, CanInsert(b.argv, Len(w)))

\* One word, as 6-ShellP4 takes it.  A redirection that no word follows is
\* forgotten.
WordP4(b, w) ==
  IF b.rc # "OK" THEN b
  ELSE IF b.flag # "none" THEN [SetFile(b, w) EXCEPT !.flag = "none"]
  ELSE IF Operator(w) # "none"
    THEN IF b.argv = <<>> THEN [b EXCEPT !.rc = "WARN_NO_CMDS", !.flag = Operator(w)]
         ELSE [b EXCEPT !.flag = Operator(w)]
  ELSE Insert(b, w, CanInsert(b.argv, Len(w)))

\* Mutant: the file is an argument, too, and does not end the walk.
WordP3NoBreak(b, w) ==
  IF b.rc # "OK" \/ b.done THEN b
  ELSE IF b.flag # "none" THEN Insert([SetFile(b, w) EXCEPT !.flag = "none"], w, CanInsert(b.argv, Len(w)))
  ELSE IF Operator(w) # "none" THEN [b EXCEPT !.flag = Operator(w)]
  ELSE Insert(b, w, CanInsert(b.argv, Len(w)))

\* As 5-ShellP3 takes it: the first file ends the walk over the line, and a
\* redirection may come first.
WordP3(b, w) ==
  IF b.rc # "OK" \/ b.done THEN b
  ELSE IF b.flag # "none" THEN [SetFile(b, w) EXCEPT !.done = TRUE]
  ELSE IF Operator(w) # "none" THEN [b EXCEPT !.flag = Operator(w)]
  ELSE Insert(b, w, CanInsert(b.argv, Len(w)))

\* As 4-ShellP2 takes it: no redirection.
WordP2(b, w) ==
  IF b.rc # "OK" THEN b ELSE Insert(b, w, CanInsertP2(b.argv, Len(w)))

BuildP4(s) == FoldLeft(WordP4, EmptyBuff, Split(FormatP4(s), "nul"))

BuildP3(s) == FoldLeft(WordP3, EmptyBuff, Split(FormatP3(s), "nul"))

\* Unlike the other two it refuses a line of blanks.
BuildP2(s) ==
  IF Trim(s) = <<>> THEN [EmptyBuff EXCEPT !.rc = "WARN_NO_CMDS"]
  ELSE FoldLeft(WordP2, EmptyBuff, Split(FormatP2(s), "nul"))

-----------------------------------------------------------------------------
(* build_cmd_list(): all commands of a line.                               *)

\* Build(_) for each token in turn, up to the first that fails.
AddCommand(l, b) ==
  IF l.rc # "OK" THEN l
  ELSE IF b.rc # "OK" THEN [l EXCEPT !.rc = b.rc]
  ELSE [l EXCEPT !.cmds = Append(@, b)]

EmptyList == [rc |-> "OK", cmds |-> <<>>]
Pipes(s) == Cardinality({i \in DOMAIN s : s[i] = "pipe"})

\* Mutant: one pipe more than the list has room for.
ListP4OnePipeMore(s) ==
  IF s = <<>> THEN [EmptyList EXCEPT !.rc = "WARN_NO_CMDS"]
  ELSE IF Pipes(s) > CmdMax THEN [EmptyList EXCEPT !.rc = "ERR_TOO_MANY_COMMANDS"]
  ELSE FoldLeft(LAMBDA l, t : AddCommand(l, BuildP4(t)), EmptyList, Tokens(s))

\* A line of pipes only gives OK and no command.
ListP4(s) ==
  IF s = <<>> THEN [EmptyList EXCEPT !.rc = "WARN_NO_CMDS"]
  ELSE IF Pipes(s) >= CmdMax THEN [EmptyList EXCEPT !.rc = "ERR_TOO_MANY_COMMANDS"]
  ELSE FoldLeft(LAMBDA l, t : AddCommand(l, BuildP4(t)), EmptyList, Tokens(s))

ListP3(s) ==
  IF s = <<>> THEN [EmptyList EXCEPT !.rc = "WARN_NO_CMDS"]
  ELSE IF Pipes(s) >= CmdMax THEN [EmptyList EXCEPT !.rc = "ERR_TOO_MANY_COMMANDS"]
  ELSE FoldLeft(LAMBDA l, t : AddCommand(l, BuildP3(t)), EmptyList, Tokens(s))

\* Mutant: runs of blanks stay as they are.
StripP1KeepsRuns(s) == Trim(s)

\* strip_token() of 3-ShellP1 keeps the first blank of a run as it is.
StripP1(s) ==
  LET t == Trim(s) IN
  FoldLeftDomain(LAMBDA out, i :
      IF t[i] \in Spaces /\ i > 1 /\ t[i - 1] \in Spaces THEN out ELSE Append(out, t[i]),
    <<>>, t)

\* The name ends at the first space, and the rest is one string of arguments.
CommandP1(s) ==
  LET t == StripP1(s)
      blanks == {i \in DOMAIN t : t[i] = "sp"}
      cut == IF blanks = {} THEN Len(t) + 1 ELSE CHOOSE i \in blanks : \A j \in blanks : i <= j
      exe == SubSeq(t, 1, cut - 1)
      args == SubSeq(t, cut + 1, Len(t))
  IN  [rc |-> IF Len(exe) > ExeMax \/ Len(args) > ArgMax
                THEN "ERR_CMD_OR_ARGS_TOO_BIG" ELSE "OK",
       exe |-> exe, args |-> args]

\* build_cmd_list() of 3-ShellP1 counts the commands, not the pipes.
ListP1(s) ==
  FoldLeft(LAMBDA l, t :
      IF l.rc = "OK" /\ Len(l.cmds) >= CmdMax THEN [l EXCEPT !.rc = "ERR_TOO_MANY_COMMANDS"]
      ELSE AddCommand(l, CommandP1(t)),
    EmptyList, Tokens(s))

\* print_cmd_list() copies each command: a name as long as its array runs into the
\* arguments, and arguments as long as theirs into what lies behind the copy.
PastCopy == "past the copy"

PrintedP1(l) ==
  LET args(b) == b.args \o IF Len(b.args) = ArgMax THEN <<PastCopy>> ELSE <<>>
      name(b) == b.exe \o IF Len(b.exe) = ExeMax THEN args(b) ELSE <<>>
  IN  [n \in DOMAIN l.cmds |-> [exe |-> name(l.cmds[n]), args |-> args(l.cmds[n])]]

\* What main() of 3-ShellP1 does with a line.
LineP1(s) ==
  CASE s = <<>>                            -> [does |-> "warn", shown |-> <<>>]
    [] s # <<>> /\ Pipes(s) >= CmdMax      -> [does |-> "limit", shown |-> <<>>]
    [] s # <<>> /\ Trim(s) = <<"dragon">>  -> [does |-> "dragon", shown |-> <<>>]
    [] s # <<>> /\ Trim(s) = <<"exit">>    -> [does |-> "exit", shown |-> <<>>]
    [] OTHER ->
         IF ListP1(s).rc = "OK" THEN [does |-> "list", shown |-> PrintedP1(ListP1(s))]
         ELSE [does |-> "nothing", shown |-> <<>>]
=============================================================================
