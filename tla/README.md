# Verification of the CS-283 systems programs

This directory holds TLA+ models of the programs in this repository, the TLC
runs that check them on small instances, and theorems about them that TLAPS
proves for every instance. Paths below are relative to the repository root
(`src/`).

## 1. The system and its parts

| part | code | state it keeps | operations | what is hard |
|---|---|---|---|---|
| remote shell, session | `6-ShellP4/starter/rsh_cli.c`, `rsh_server.c`, `rsh_shared.c`, `rshlib.h` | client: place in its loop, socket, receive buffer; server: listening socket, one client socket, the request in hand; the network: two byte streams per connection, the accept backlog, pending errors | connect, send a line, receive an answer, leave; boot, accept, receive, execute, answer, stop | TCP keeps no message boundaries; clients die; calls fail; SIGPIPE; programs share the socket |
| remote shell, threads | `rsh_server.c:151-187` | one detached thread per client, one shared `client_socket_fd`, the static state of `strtok()`, one working directory | accept, start a thread, serve | data races, descriptor reuse, inheritance of descriptors |
| pipeline execution | `rsh_server.c:463-586`, `6-ShellP4/starter/dshlib.c:150-270`, `5-ShellP3/dshlib.c:146-266` | processes, pipes, who has which end open | fork, dup2, redirect, close, exec, wait | a pipe end left open, a failing fork or redirection, exit codes |
| command-line parser | `dshlib.c` of `5-ShellP3` and `6-ShellP4` (`build_cmd_list()` and below) | none of its own | split, unquote, redirect | limits, quotes, redirections |
| loops over a command list | `exec_local_cmd_loop()` of `5-ShellP3` and `6-ShellP4`, the switch of `exec_client_requests()` | a `command_list_t` that is reused from line to line, its pointers, the working directory, the last code | build, run a built-in or a pipeline, free | what a failed build leaves behind, stale pointers |
| single-command shell | `4-ShellP2/dshlib.c` | one command buffer, the last return code | parse, built-ins, fork/exec/wait | the return code across commands |
| parse-only shell | `3-ShellP1` | none from line to line | split and print | limits |
| student database | `2-StudentDB/sdbsc.c` | the file `student.db`, the file `.tmp_student.db`, the descriptors of a process | add, delete, find, count, print, compress, zero | kills and failing calls between system calls, offsets, processes at the same time |
| string utilities | `1-C-Refresher/stringfun.c` | one 50-byte buffer | count, reverse, print, replace words | boundaries |
| `dsh` options, dragon art, `Practice/` | `dsh_cli.c`, `dragon.c`, `Practice/*` | none | - | - |

How they interact: `dsh -c` runs the client loop, `dsh -s` the server; they meet
only in a TCP connection. The server calls the parser on its receive buffer, then
either a built-in or the pipeline, whose programs write to the client's socket
without the server's help and may read from it too. The local shells call the
same parser and pipeline without a network. The student database stands alone; its
processes meet in the file system.

What makes each correct:

- *session*: each request is executed at most once, in order; a client that
  prompts has read the answer to its own last request; sockets are closed;
  everyone is served in the end; `stop-server` stops the server.
- *threads*: each accepted connection is served by exactly one thread and each
  line is parsed as its client sent it.
- *pipeline*: every program's input ends when its writers have ended, the
  supervisor returns the last program's exit code, nothing is left running.
- *parser*: a list holds exactly the words that were typed and quoted, within its
  limits, and the redirections that were asked for.
- *loops*: what runs is the line that was typed and nothing of an earlier one; each
  allocation is freed once and none is left.
- *string utilities*: what is printed is what was typed, up to the end of the buffer.
- *database*: each command acts on a map from ids to records, at one instant or
  not at all, whenever its process is killed.

`PROJECT.json` lists the hazards one by one, each at its line with the
properties that cover it, or with the reason why none does yet.

## 2. Modules

| module | what it is |
|---|---|
| `RshService` | abstract: what the remote shell promises its users |
| `RshSession` | the remote shell: clients, network and single-threaded server, with their properties; shown to implement `RshService` |
| `RshThreaded` | the multi-threaded server and its clients |
| `Pipeline` | one pipeline of any length: supervisor, programs, pipe ends, waits |
| `CmdLine` | how the four shells take a line apart, as functions |
| `StringFun` | `stringfun.c`, as functions |
| `Text` | all short texts, `CmdLine` and `StringFun` against reference definitions |
| `LocalShell` | the loops over one `command_list_t`; extends `CmdLine` |
| `ShellP2` | the loop of `4-ShellP2`; extends `CmdLine` |
| `Shells` | both, side by side (an instance of `ShellP2` beside `LocalShell`) |
| `StudentMap` | abstract: what the student database promises |
| `StudentDb` | `sdbsc.c` call by call, shown to implement `StudentMap` |
| `MC*` | instances for TLC |
| `RshSession_proofs`, `RshThreaded_proofs`, `Pipeline_proofs`, `StudentDb_proofs` | theorems about these modules |
| `CmdLine_proofs` | lemmas: what the folds of `CmdLine` do with lines of any length |
| `Shells_proofs`, `Text_proofs` | theorems about `LocalShell`, `Shells` and `Text`; both use `CmdLine_proofs` |
| `StringFun_proofs` | theorems about `Text` that concern `StringFun`; uses the lemmas of `Text_proofs` |

### RshSession and RshService

State and code: `cli[c]` is where client c is in `exec_remote_cmd_loop()`
(prompting, in its `recv()` loop, gone and how); `spc` is where the server is
(`accept()`, `recv()`, `fork()`, running a pipeline, sending, closing, stopped);
`cur` is `client_socket_fd`; `job` and `reply` are the parsed request and the
sends that the switch or the pipeline branch of `exec_client_requests()` still
owes; `up[c]` and `down[c]` are the bytes under way, `cOpen`/`sOpen` the two ends
of the connection, `cFault`/`sFault` the socket error that is pending: "err" makes
the next `send()` return -1, "reset" makes it raise SIGPIPE. A `recv()` returns a
nonempty prefix of the stream. `ran` and `seen` are history: what was executed, and
to which request the last end mark belonged.

Abstractions. A line is the two halves of a request and two NUL bytes (the client
sends `strlen + 1` bytes after turning the newline into a NUL): enough for each
way in which a receive can cut or join lines. What a line says is one of six
*kinds*; a line that lost its beginning may be of any kind. A line of `|` only ("pipes") makes
a list without a command, whose first name the server looks at all the same
(`rsh_server.c:334-335`): a pointer of an earlier line, to freed memory, or one never written. Its
`strcmp()` may end the process (`NamelessKills`, the like of `LocalShell`'s crash); if not, an empty
pipeline is forked and answered. What the pointer names cannot be run as a built-in, since
`clist_has_no_pipe_redirection_and_built_in()` asks for a list of one. Output is ordinary
text, the four bytes `exit`, or the byte 0x04. The programs of a pipeline are an
environment that writes up to `MaxOut` times, may read the socket if the kind is
"reader", and ends. Failures of `malloc()`, `accept()`, `bind()`, `listen()`,
`fork()` are choices under `Faults`. A line longer than the 64 KB buffers, a
partial `send()` and a client's failing `malloc()` are left out.

`RshService` knows no messages. Clients stand in one `line`; a client makes a call (`due`), the server takes up the
call of the first in line (`doing`), ends it, and the call returns. What is promised is in the guards: `Begin` (the first in
line, one call at a time, the one that was made), `Return` (not before the call was executed to its end, unless the
connection is lost), `Part` (the next one's turn comes when the first has gone), `Stop`, `Die`, `Crash` and `Fail` (nothing ends
the service but stop-server, a call whose client was killed, a line of pipes only, or a failing call of the system). `RshSession!ServiceSpec` instantiates it: the line is `cur`
followed by `backlog`, a call is due while its request is in `up[c]` of a client in line, and it is executed from the
`recv()` of its request to the last `send()` of its answer. `accept()`, `fork()`, what programs print, and all of
the way out after stop-server are stutters.

### Pipeline

The local shells and the server have three copies of the same code, which differ in what
the first and last programs use as a terminal; the module models what they share.
`sup` is where the supervisor is (not yet forked, creating pipes, forking, closing, waiting, exited),
`k` its loop variable, `prc` its `pipeline_rc`, `rc` what
`start_supervisor_and_execute_pipeline()` returns, or `NoShell` if that function could not fork the supervisor and has ended
the shell (`StartFails`). `st[i]`, `asked[i]`, `code[i]` are the
process of command i: born by `fork()`, past `prctl()`, running its program, ended
content ("done") or otherwise ("dead"); whether it is to be killed with the supervisor; its
wait status. `ends[p]` is what `dup2()` and `close()` are about: the pipe ends that
process p (0 is the supervisor) has open, `buf[j]` how full pipe j is.

Everything between `prctl()` and the program is one step (`SetUp`), or fails at a
redirection (`RedirectFails`), since nobody sees the places in between except through the
ends the process holds, which only shrink. What a program does is the environment's: it reads,
writes up to `MaxWrites` chunks, ends when its input ends, is killed by SIGPIPE, or
quits at any time. Statuses are kept apart by what they mean, not by number. SIGKILL
acts at once; somebody killing the shell or the supervisor is left out.

`RshSession` composes with this module through its result only: there a pipeline is an
environment that writes to the connection and ends (`PipelineEnds`), and that no
program writes after it has ended is what `Pipeline!AllReaped` establishes for
pipelines that were forked completely.

### RshThreaded

`mpc`, `cfd` and `acc` are the main thread: between `accept()` and
`pthread_create()`, the variable `client_socket_fd` whose address every thread gets, and
(history) the connections accepted. `fdt` is the process's table of descriptors; `accept()`
takes the lowest free one, so a closed number comes back. `tpc[t]`, `tfd[t]`, `line[t]`,
`list[t]`, `reply[t]` are thread t: its place in `handle_client()` and
`exec_client_requests()`, its copy of the variable, its receive buffer, the commands found so
far, the sends it still owes. `save` is the static pointer inside `strtok()`, as a place in
some thread's buffer; a `strtok(NULL, ...)` is two steps, `TokLoad` and `TokStore`, and each
thread's `tok[t]` is the pointer it has read in between. Every call that finds a token also writes a NUL
behind it, into whichever buffer the pointer is in: `cut` has these NULs, as places in the lines that are
being parsed. A call that comes upon one ends its token there, and the next may begin in the middle of a command;
what is left of a command that was cut is "junk", which parses or does not (and is not the name of a built-in). A position
in a buffer whose line has been parsed, which may be freed or refilled, is `Lost`: from there the code
may find nothing or anything, and may write its NUL anywhere into a line that is being parsed, or into none.
`mixed[t]` is history: it is set if another thread is in `build_cmd_list()` at any time from the
`recv()` of a line to the end of its parse. That a lost place may be in any line being parsed is more than a
build can produce, and errs on the safe side.

Abstractions: requests and sends are whole (`RshSession` has the bytes), a line is a sequence of at least one
command (a line of pipes only is in `RshSession`) of which only the kind is told apart, one call of `TokFirst` is the first `strtok()`
as a whole, the programs of a pipeline end and may have printed once. Any thread that fails to
fork, a failing `accept()` and SIGPIPE end the process with all its threads (`ServerEnds`).
`pthread_create()` reports failure by a positive number, which line 180 does not notice: the
connection stays and its thread never runs (`CreateFails`); so it is when `malloc()` fails
(`NoMemory`).

`ServedByOne` depends on one assumption about the world: that no second connection is accepted
before the last thread has copied the variable (`Burst = FALSE`). The code does nothing to
bring this about, and without it the property is false (`ThreadsShared`). The other properties of the
run are checked under it as well.

### CmdLine, StringFun and Text

`CmdLine` has one operator for each function of the parsers, in the three versions in which they
exist: `ListP1` (name and arguments as two strings), `BuildP2` (one command, no redirection),
`ListP3` (one redirection, at the end), `ListP4` (any number behind the program). A
character is one of ten classes; `format_cmd_line()` is a fold with the flags of its loop. The
differences between the versions are kept: whether a quote ends a run of blanks, `<` or `<=` at the
limits, which of them refuse a line of blanks, whether a redirection may come first.
`PrintedP1` prints from the copy that `print_cmd_list()` makes of each command: a name as long as its array runs into
the arguments, and arguments as long as theirs into whatever lies behind the copy. `StringFun` has one operator per function of `stringfun.c`;
`replace_word` works on the buffer and as much memory behind it, which it reads and writes.

`Text` types texts piece by piece, so that TLC meets every one up to the bound, and compares what
the code makes of each with definitions that look at positions instead of walking: a
word is what lies between two gaps, a gap is a blank with an even number of quotes before it, an
occurrence to be replaced starts where no earlier one reaches.

### LocalShell, ShellP2 and Shells

`num` and `slots` are the `command_list_t` that lasts from line to line. For each command `slots`
has its words and for each of its pointers whether it owns memory, is null, dangles, or was never
written. `Read` is `build_cmd_list()` on one line: each command ends in one of its
`Outcomes` (built; `malloc()` failed at the start; `strdup()` failed at word n; a word did not
fit), which overwrites part of the old slot; commands after the first failure are not touched, and
`num` keeps its value. `FreeList` is `free_cmd_list()`, which leaves the pointers where they are
and relies on `num`. Lines are given as what `strtok()` makes of them. `shell` says which of the
three loops runs: they differ in the parser, in `exit`, in `cd` and in the codes they keep.

In the structure `_cmd_buffer` follows `argv`, so the NULL behind a full `argv` overwrites it: that
memory is lost (`Filled`). `lost`, `twice` and `excuse` are history, for the properties.

`ShellP2` is the older loop, whose one command buffer is allocated once. Its strings outlast a line
that was refused, and `cd` looks at a string rather than at `argc`; `stale` is the history of it.

### StudentDb and StudentMap

A step is one system call on a file. `dir` maps the names `student.db` ("db") and
`.tmp_student.db` ("tmp") to files, so `rename()` is a change of `dir` and other
processes keep the old file open. `files[f]` is the sequence of 64-byte slots; 0 is
the empty record. `pc`, `cmd`, `fd`, `tfd`, `idx`, `buf`, `out` are the process: the
next call, the command line, the two descriptors, the loop variable, the record
buffer or counter, the outcome to print. Offsets are 32-bit products with the wrap
of the default build (`gcc -Wall -Wextra -g`, no optimisation), `Wrap` slots apart.
Names and points of a student are one value of `Vals`; a write is whole or not
at all; crashes of the machine are left out (the program never syncs).

`StudentMap` says what the seven options promise: `Result` gives the outcome of a
command on the current records, `After` the new records, and a command may report a
failure if it changes nothing. `StudentDb!MapSpec` instantiates it with the records
read through the name `student.db`: the call that decides the outcome (a `write()`, an
`O_TRUNC`, the last `read()`, the second `open()` of a compression) is the abstract
step, every other call is a stutter.

## 3. Runs

| run | question | bounds |
|---|---|---|
| `RshInStep` | do client and server stay in step when sends arrive whole? | 2 clients, 3 requests each, 2 writes per pipeline, backlog 2, both may be killed |
| `RshAnyBoundary` | what survives any network, any output and failing calls? | 1 client, 3 requests, 2 writes, all kinds and texts |
| `RshThreads` | is every connection served by its own thread, answered, and closed for a reason? | 2 clients, 3 requests, one client may be killed, failing calls, lines of 1 and 2 commands |
| `PipelineThree` | does every reader see the end of its input, does the shell get the right status, does everyone end? | 3 commands, pipes of 1 chunk, 2 writes per program, failing calls |
| `Text` | do the text functions do what is asked, for every short text? | texts of 5 pieces, of 10 kinds for the shells and 5 for `stringfun`; limits 2 and 3, buffer 4 |
| `Shells` | is each line run by itself, and its memory freed once? | 3 lines of 17 kinds for each of three loops, 4 of 12 for `4-ShellP2`; lists of 2, argv of 3 |
| `DbExclusive` | is the file a map, whatever is killed and fails? | 1 process at a time, ids -1 to 4 with MaxId 3, two contents |
| `RshSplitRequest` | are cut requests handled? (no) | 1 client, 2 requests |
| `RshKilledClient` | does only stop-server end the server? (no) | 1 client, 2 requests |
| `ThreadsShared` | is each connection served by its own thread if two come at once? (no) | 2 clients |
| `DbWrap` | does a delete touch only the id it names? (no) | ids 1, 2 and one that wraps onto 1 |
| `DbConcurrent` | is an added student in the database? (not if another process compresses) | 2 processes, 2 ids |

Why the bounds are enough. Three requests are what it takes for an answer to be
attributed to the request before, and for a cut request to swallow part of the
next while a third is still sent; two clients are what it takes for one to wait in the
backlog while another is served, stops the server, or is killed. Three ids let a
record be copied before, and one after, the record a compression is killed at; the
ids 0, -1 and 4 are the ones just outside the range. Three commands give a
pipeline a first, a middle and a last one, and two writes into a pipe of one chunk make a
writer wait; the theorems do away with the bound on the length. Two threads are what it takes for
one to move the other's position in `strtok()` and to close a number that the other is then
given, three requests what it takes to do it again. Five pieces type two words with a quoted blank, or a
command with two redirections, and with a list of two commands and two or three arguments every
limit is met and exceeded; a buffer of four characters is filled, and a replacement shorter, longer, and
running over its end. Three lines are one to fill the list, one to fail in it, one to be run
after that. No bound is hit silently:
`MaxReq` only stops users from typing, `MaxOut` only programs from writing.

`RshInStep` assumes whole sends and ordinary output because the properties it
checks are false without (`RshSplitRequest` shows it for cut sends; output that ends
in 0x04 ends an answer by definition of the protocol). `RshAnyBoundary` drops both
assumptions and checks what remains true. Deadlock is not checked for the remote
shell: it may stop, when all users have left or a program waits for input that its
user cannot give.

Fairness (`RshSession!Fairness`): the server process takes steps while it can
(`WF` of its system calls, which the scheduler runs), each client's `recv()` loop
does, and a program that does not wait for input ends. Users are not fair: they
need not type, leave or connect. `EveryoneAccepted` is conditional on the
server coming back to `accept()` for ever, since one silent client may keep it.

Fairness (`RshThreaded!Fairness`): the scheduler runs the main thread and every thread whose call
can return, and a client reads what has arrived or notices the end of its connection. Users may stop typing and
no failure has to happen. `ForkFails`, `AcceptFails` and SIGPIPE are outside of the fair
steps. Deadlock is not checked: users stop.

`Text` and `Shells` have no liveness: they end when the bound on the input is reached.

Fairness (`Pipeline!Fairness`): the supervisor and every process is scheduled; a program
keeps reading what there is (`WF` of `Read` by itself, else a program could write for
ever and never drain), writes what it has, and ends once its input has ended. `Quit` is
not fair: that a program gives up is never what makes the pipeline end. Deadlock is not
checked because a pipeline ends.

What the passing runs show: client and server agree on which request is being
answered (`InStep`, `AnswersMatch`), the server dies only in a send to a client that was killed while
it waited for this very answer, or of a line of pipes only that it has just received (`DiesForAReason`), connections are closed (`NoForgottenSocket`), clients
leave their receive loop (`ServedIsAnswered`) unless their own program waits for
them, the backlog drains (`EveryoneAccepted`), `stop-server` works even if its
client has gone (`StopTakesEffect`); to its users all of it looks like one service that executes their calls one by
one (`ServiceSpec`). Under any network, requests are executed in
order and at most once (`AtMostOnce`). A pipeline gives its last command's status (`LastCode`), after all its programs have
ended (`AllReaped`); if a fork fails and the supervisor gives up, no running program lives
on, since each has asked to die with it before (`OrphansAreLate`); no process has a pipe end that is not its own (`NoStrayEnd`),
and so everything ends (`EverythingEnds`). The database
implements its map (`MapSpec`), compression and kills included.

In the threaded server, too, a request is answered exactly once, whatever `strtok()` has made of it in the
meantime (`InStep`), and a client that waits is answered or sees its connection closed unless no thread could
be had for it (`Answers`); a thread runs what it received unless another one was parsing at the same time
(`OwnLine`; the exception is the race on `strtok()`, under which a line is cut, in the middle of a command if it comes so, or goes
on with another client's commands); no session is ended by another client (`ClosedForAReason`); nobody waits in the backlog for
ever (`EveryoneServed`).

The parsers keep words as quoted (`WordsKept`), redirections as typed, where a `>>` makes the command append also if a later `>` names the file
(`RedirectsAsTyped`), the older one agrees with the newer where both apply (`ShellsAgree`), pipelines
come out command by command (`PipelineAsTyped`), nothing is stored behind an array of the list
(`ListsFit`), and the first shell prints what was typed (`NameAndArguments`). Four limits of this are
stated in the properties: a quoted pipe is cut by `strtok()`; `4-ShellP2` drops an empty quoted word behind a
blank; a name or argument string of exactly the size of its array runs into what follows; `append_mode` is never reset.
`stringfun` prints and counts the words that fit its buffer (`PrintedAsTyped`) and replaces from the left without
looking at what it put in (`ReplacedAsAsked`). Of the end of the buffer it promises nothing: a target that straddles it after a
longer replacement may be found in part, and after a shorter one what lay behind the buffer is read into it.

No loop frees what it does not own (`FreedOnce`) or leaves memory behind, unless a line failed half-way, filled
`argv`, or named two files of one kind (`NothingLeft`); what runs is the line last read (`RunsTheLine`), a shell
crashes only of a line that names no program (`CrashesForAReason`: pipes only, or a redirection first in `5-ShellP3`),
the directory changes only by a `cd` alone (`CdAlone`). In `4-ShellP2` a line's code and directory depend on
no other line, except that `cd` may take a word of a line refused before (`SingleLineAlone`).

What the violated runs show is in `PROJECT.json` under "findings", each with the
line of the code's own documentation it contradicts. More consequences of the code that the models contain and no
run singles out: `stop-server` is acknowledged by two sends, and a client that receives them apart
prompts again although the server has stopped; the branches for a `recv()` of 0 or -1 (`rsh_cli.c:134` and `:140`) are
never reached, so a client whose server has gone prompts again; a program that has not yet called
`prctl()` when its supervisor exits outlives it (`rsh_server.c:481-486`); `stop-server` does not stop the threaded server, whose loop
(`rsh_server.c:174`) has no way out, although the comment of `start_server()` (`:43-45`) says so of both; and `replace_word()` writes and reads behind
its buffer (`stringfun.c:268`, `:262`), although a comment calls the test of line 233 a bounds
check and the answer at `:422-424` says that passing the length keeps memory outside of the bounds from being accessed.

## 4. Proofs

All theorems hold for every value of the constants that the modules' assumptions allow; a further
hypothesis is part of the theorem and named below. What each of them says is in
`PROJECT.json`. In this section: which invariant makes it inductive, and why it is needed.

| module | theorems | further hypothesis |
|---|---|---|
| `RshSession_proofs` | `TypeCorrect`, `ExecutedAtMostOnce` (`AtMostOnce`), `UnreadStaysNewer` (`UnreadIsNewer`) | - |
| | `NoSocketForgotten` (`NoForgottenSocket`) | `~Faults` |
| | `StaysInStep` (`InStep`), `AnswersBelong` (`AnswersMatch`), `DiesOfItsOwnRequest` (`DiesForAReason`), `ImplementsService` (`ServiceSpec`) | `Whole`: sends arrive whole, no program prints 0x04 |
| `RshThreaded_proofs` | `ThreadedTypes` (`TypeOK`), `LineOfOnesOwn` (`OwnLine`) | there is a client |
| | `OneThreadEach` (`ServedByOne`) | `~Burst` |
| | `OneAnswerEach` (`InStep`), `NobodyElseCloses` (`ClosedForAReason`) | `~Burst`, there is a client |
| `Pipeline_proofs` | `TypeCorrect`, `OnlyItsOwnEnds` (`NoStrayEnd`), `StatusOfLast` (`LastCode`), `ShellWaitsForAll` (`AllReaped`), `NoOrphanRuns` (`OrphansAreLate`) | - |
| `StudentDb_proofs` | `TypeCorrect` | - |
| | `Implements` (`MapSpec`), `OnlyNamedAreDeleted` (`DeletedIsNamed`), `ReportedIsAdded` (`AddedIsThere`) | `Serial`, `Unwrapped` |
| `Shells_proofs` | `NothingFreedTwice` (`FreedOnce`), `LeavesNothing` (`NothingLeft`), `LastLineRuns` (`RunsTheLine`), `NamelessLinesKill` (`CrashesForAReason`), `OnlyCdMoves` (`CdAlone`) | - |
| | `SingleLinesAlone` (`SingleLineAlone`) | `ArgvMax > 1` |
| `Text_proofs` | `NothingOverflows` (`ListsFit`), `WordsSurvive` (`WordsKept`), `RedirectsSurvive` (`RedirectsAsTyped`), `PipelineSurvives` (`PipelineAsTyped`), `ShellsSame` (`ShellsAgree`), `NamesSurvive` (`NameAndArguments`) | - |
| `StringFun_proofs` | `PrintsWhatWasTyped` (`PrintedAsTyped`), `ReplacesAsAsked` (`ReplacedAsAsked`) | - |

The hypotheses are not there for the prover. Without `Whole`, `Burst = FALSE` and `Unwrapped` the runs
`RshSplitRequest`, `ThreadsShared` and `DbWrap` show the properties, or ones like them, violated; two processes at once
(`~Serial`) do not implement the map (`DbConcurrent`); a failing `malloc()`
for a request (`Faults`) makes the server skip the `close()`. In the code `CMD_ARGV_MAX` is 9, so that `ArgvMax > 1`: with one
element the program's name alone fills `argv`, and `cd` has nowhere to look for its word.

**RshSession.** `AtMostOnce` is not inductive: a state in which an executed line is still unread
satisfies it, and the next `RequestReceived` does not. The inductive invariant is
`Inv == TypeOK /\ AtMostOnce /\ UnreadIsNewer`: the unread bytes are in the order of
sending, a line's NULs after the line, and every piece of a line that is unread
belongs to a request newer than all executed ones. The lemmas `UnreadRest`,
`UnreadRun` and their like say that taking any prefix of such a stream, executing a
prefix that ends in NUL, and appending a new request preserve this; then there is one
proof step per group of actions.

The rest of `RshSession_proofs` builds on these. `Sockets` says that the backlog names nobody twice and that the server's
end of a connection is open exactly while the client is being served or in line. `InLockstep` is the
invariant of the protocol: for each client (`Sync`) the unread bytes of a stream are one whole request or
nothing; if the server works for it, what is unread of the answer (`down`) has no end mark and what the server still owes
(`reply`) ends in one; if not, what is unread ends in the mark of the last request (`Ended`). `InStep`,
`AnswersMatch` and `DiesForAReason` are each read off one part of it, but none can be proved without all of them:
that an answer is the last request's needs that no earlier mark is left unread, which needs that the client
prompted only after the mark, which needs that nothing else carries one.

`ImplementsService` is the refinement, action by action, under the conjunction of all these (`ServiceStep`). What each step
needs is a part of them: `Begin`, that what a `recv()` returns is one whole request (`WholeRequest`), so that the call that is executed is
the one that was due; `Return`, that an end mark is read only when the server owes nothing more; `Part`, that a closed
connection belongs to a client that has gone; `Forget`, that the backlog names nobody twice; `Die`, that only a
client killed while it waits has a connection whose reset can hit the server in a `send()`; `Crash`, that the request at hand is the call
that was made. One invariant is new: nobody is in
line before the server listens (`NoEarlyBird`).

**RshThreaded.** The invariant of `OneThreadEach` follows a connection from `accept()` to
its thread: while it is being created and until its thread has copied the variable, the variable names it
(`Creating`, `Unread`); afterwards the copy does (`Own`). That closing a descriptor takes it from nobody else
(`HangUpStep`) needs that no client is accepted twice (`Once`): two threads with the same number would
serve the same client. The assumption `~Burst` is used in one place, `AcceptStep`, where the variable changes.
`ThreadedTypes` needs that a thread that parses has a line (`HasLine`) and that a line has no more than `CMD_MAX`
commands, so that every position in it is one that `strtok()` can return. That a NUL is only in a line being parsed, and that every position is `Lost` or in such a line, is part of the types (`InPlace`).
`LineOfOnesOwn` rests on `Reading`: what
a thread has found is a beginning of its line, `strtok()`'s position is behind it and no NUL lies ahead of it (`GoesOn`), unless another thread has
been inside `build_cmd_list()` since the `recv()`; and whatever the others do, its first command is its own or junk (`Named`), so
that nobody else's `stop-server` ends its session. `OneAnswerEach` puts all of this together (`AllInv`): a client's request is in
exactly one of four places (`Sync`), and two threads never owe the same client an answer.

**Pipeline.** `TypeOK` is inductive: it includes the order of forks and
that a process that has ended holds nothing. For `NoStrayEnd` the strengthening (`Inherited`) says that the
supervisor has all ends while it forks and a process has all until its program runs. `LastCode` and `AllReaped` follow
from `Reaped`: what precedes the supervisor's loop variable has ended, and its
`pipeline_rc` is the last status once the loop is over; the lemma `ProgramSteps` says
that no program changes after its end. `OrphansAreLate` needs that
while the supervisor lives, whatever has come past its `prctl()` is to be told of its end (`Marked`).

**StudentDb.** `TypeOK` with `Located` says where each process is with which files open. The refinement goes
step by step: `AsMap` says that no file holds a record at a slot of no student (`Clean`), that what a process has
read is still so when it writes (`Checked`), what a count has counted (`Counted`), and that a compression has copied exactly the records before its
position (`Copied`); under it a call that decides is the abstract step of its command and every other call is a
stutter (`MapStep`). A temporary file that a killed compression left may hold anything.
`OnlyNamedAreDeleted` and `ReportedIsAdded` follow from the steps of the map, not from the code again.

**Loops over a command list.** At the prompt `num` is 0, and what `num` counts while a line runs was built without
an error, so that it owns what it names (`BuiltIsOwned`): this gives `FreedOnce`. `Tidy` describes each pointer of the whole array,
used or not, until the first line that breaks the rules; it gives `NothingLeft`. `TheLine` says that while a line is run the
first `num` slots hold its words; it needs what the parser makes of the words of a command, of whatever length, and
so do `CrashesForAReason` and `CdAlone`. `Single` is its like for `4-ShellP2`, whose one buffer must also be empty
behind the words of the line (`argv[1]` is where `cd` looks).

**Texts.** What the parsers compute is a fold over a line, so a fact about it is an induction over data. The library's
induction theorems take an operator as parameter and cannot be used; `CmdLine_proofs` states the induction for a *set* of
numbers instead (`LeastNatural`, from well-foundedness of `<`; `UpTo`). On it rests that the recursive function
inside `FoldLeft` exists and passes through one value per position (`FoldExists`, `FoldPrefixes`), and on this
one lemma per fold: `WalkP2`, `WalkP3`, `WalkP4` (words of a command), `FormatWalkP2` to `P4` (characters), `SplitWalk`,
`TokenWalk` (pieces), `ListWalkP1`, `P3`, `P4` (commands of a line). From these follow that `Split` gives one piece more
than there are separators (`SplitCount`), `strtok()` at most that (`TokensFew`), and that a list has at
most as many commands as pieces (`OneByOne`): this is `NothingOverflows`, which needs no bound on the text.
In `4-ShellP2` an accepted command has exactly the words of its line (`WholeP2`), which `SingleLinesAlone` uses.

`WordsSurvive` compares a walk with a definition that looks at the whole text (`Words`). What joins the two is
`Partial`: the words of the first i characters, all complete but the last one. A gap completes the last word
(`PartialGap`), the character behind it opens the next (`PartialStart`), any other goes into it
(`PartialMore`), and at the end these are `Words(s)` (`PartialEnd`). `Agrees` says that what `format_cmd_line()` has written is these
words with a NUL between them, and one more behind them at a gap; `StepAgrees` is the step. In `4-ShellP2`, where a
quote does not end a run of blanks, it holds only until an empty word is lost, so that `Agrees` is a disjunction there. Blanks at both ends,
which the code removes first, add no word (`StartAgrees`, `WordsAtEnd`). Folds are written with `FoldLeft` and not with `SelectSeq` in all
modules that proofs use: the provers have no meaning for the latter.

`RedirectsSurvive` goes on from the words: `Understood` says of the first k words what `Meaning(s)` says of all of them (the
arguments are the words that are neither an operator nor its file, a file is the word behind the last operator used), and
`UnderstoodNext` that one more accepted word keeps it. Two walks meet here, too: the definition finds the redirections by a
recursive function, and `FlagsAlternate` shows that the parser's flag satisfies the equation of that function.
An accepted command was accepted at every word (`EachAccepted`, from the last word down). The lemma `AcceptedMeans` has this for one
command: whatever the order of `>` and `>>`, it appends if and only if some `>>` was followed by a file. `PipelineSurvives` applies it to every piece, of which an accepted list has exactly one
command each, in order (`OneForEach`). `ShellsSame` walks with both parsers at once: they are in the same state
(`SameSoFar`) up to the file of the redirection, which by hypothesis is the last word.

`NamesSurvive` goes through everything `3-ShellP1` does with a line. Without quotes a gap is a blank (`NoneInside`), so
`Words` and the second `strtok()` see the same words (`WordsP1`); the arguments are put together with a blank in front of each, and `Trim()`
takes the first one away (`StripWalk`, `SpacedWalk`, `StripKeeps`). What is printed of one command depends on no other (`PrintedAlone`), and a
string shorter than its array is printed as it is. That `exit` alone ends the shell needs the reverse direction, too: what the code compares
with is the trimmed line, and no line of other words trims to it (`SplitExit`, `ExitOfWords`, `WordsOfExit`).

**String utility.** `PrintsWhatWasTyped` walks over the text and over the buffer at once (`WalksAgree`): after each character
of the text, `print_words()` and `count_words()` have, at the last character kept, exactly the words that began so far
(`PrintedTo`), the last of them still open or ended by a blank (`GoesOnTo`, `EndsBefore`). A blank that was not kept follows one
that was, which is why it can do nothing.
`ReplacesAsAsked` compares a loop that moves the text with one that does not. The invariant (`Reached`) relates the place y in the
memory to the place x of the original text: before y lies what the pieces up to x give, from y on the original text from x on, and, where the
text does not become longer, `Junk` behind the buffer (`Done`, `Ahead`, `Beyond`). A target is then found in the memory exactly if it was
found in the buffer (`MatchIffFound`); that needs that no target contains `Junk`, and that a place is found exactly if
the target is there and clear of those found before (`FoundFacts`). Where the text becomes longer, the loop stops before the end of
the buffer and the theorem says nothing of the rest; where it does not, the loop can be thought to go on, since
nothing is found any more (`ReachedEnd`).

Only model-checked: liveness (`ServedIsAnswered`, `EveryoneAccepted`, `StopTakesEffect`, `EverythingEnds`, `Answers`,
`EveryoneServed`), since the prover does not handle fairness. Every safety property of every passing run is a theorem.

## 5. Plan

Done: all components but those of section 6, and every safety property of the runs as a theorem. What would
add most: the receive buffer's bytes in `RshThreaded`, which only `RshSession` has now.

## 6. Not modelled, and why

- The working directory that clients of one server share, and connections that programs inherit from
  other threads (`rsh_server.c:350`, `:490`): they decide what programs find and when a client notices the end
  of its connection, nothing that the server's control depends on.
- Lines longer than the buffers of `fgets()`, partial sends, a client's failing `malloc()`.
- What a thread finds in memory that was freed or refilled, and what is left of a command cut by another thread, is
  no more than "junk" in `RshThreaded`: never the name of a built-in.
- Stack and heap beyond the objects named: where C leaves undefined what a write behind an array hits, the models
  take the layout of the structures, or of the memory directly behind the buffer.
- `print_dragon_cmp()` and `print_dragon()` (constant output), the `getopt()` loops of the three `dsh_cli.c`, and
  the `Practice` programs: no behaviour worth a model.
- Wording and layout of output, and the contents of names.
