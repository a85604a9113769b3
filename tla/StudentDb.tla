------------------------------ MODULE StudentDb ------------------------------
(***************************************************************************)
(* The student database of 2-StudentDB/sdbsc.c: processes that each run    *)
(* one command of main() on the file student.db.  A step is one system     *)
(* call on the file (lseek() and the read() or write() after it are one:   *)
(* the offset is the process's own).  A file is the sequence of its record *)
(* slots, 0 an empty record; a write beyond the end leaves a hole of empty *)
(* ones.  Names are kept apart from files, since compress_db() renames a   *)
(* new file over the old one, which another process may hold open.  A      *)
(* process may be killed between any two steps, and a call may fail.       *)
(***************************************************************************)
EXTENDS Integers, Sequences, FiniteSets

CONSTANTS
  Procs,    \* shells, each running one sdbsc command at a time
  MaxId,    \* MAX_STD_ID
  Vals,     \* contents of student records
  Commands, \* the commands that may be run: records with op, id and val
  Wrap,     \* slots that a 32-bit offset tells apart: 2^32 / 64 in the code
  Inodes,   \* the files there may be
  NoFile,   \* "no such file", "not open"
  Faults,   \* may system calls fail?
  Deadly    \* may processes be killed?

Ids == 1..MaxId
Ops == {"add", "del", "find", "scan", "compress", "zero"}

ASSUME ConstantsAssumption ==
  /\ MaxId \in Nat \ {0}
  /\ Vals \subseteq Nat \ {0}
  /\ Commands \subseteq [op : Ops, id : Int, val : Vals \cup {0}]
  /\ Wrap \in Nat /\ Wrap > 2 * MaxId + 1
  /\ NoFile \notin Inodes
  /\ Faults \in BOOLEAN /\ Deadly \in BOOLEAN

VARIABLES
  dir,      \* the directory: which files "db" and "tmp" name
  files,    \* the contents of the files
  pc,       \* the next call of each process
  cmd,      \* its command line
  fd, tfd,  \* the files it has open: fd and tmp_fd
  idx,      \* its position: the next slot of a scan, the next id of a copy
  buf,      \* the record it has read, or the number of records counted
  out       \* what it is about to print, once that is decided

vars == <<dir, files, pc, cmd, fd, tfd, idx, buf, out>>

Nothing == [op |-> "none", id |-> 0, val |-> 0]
Unknown == [tag |-> "none", id |-> 0, val |-> 0]
Outcome(t, i, v) == [tag |-> t, id |-> i, val |-> v]

-----------------------------------------------------------------------------
(* Files.                                                                  *)

\* "off_t offset = id * STUDENT_RECORD_SIZE" is a 32-bit product: the slot at
\* that offset, negative if lseek() refuses it.
Slot(id) == ((id + Wrap \div 2) % Wrap) - Wrap \div 2

\* What a read() at slot s finds; at the end the zeroed buffer stays as it is.
Stored(f, s) == IF s < Len(files[f]) THEN files[f][s + 1] ELSE 0

\* The contents f after a write() of v at slot s.
Written(f, s, v) ==
  [i \in 1..(IF s < Len(f) THEN Len(f) ELSE s + 1) |->
     IF i = s + 1 THEN v ELSE IF i <= Len(f) THEN f[i] ELSE 0]

Opened == {fd[p] : p \in Procs} \cup {tfd[p] : p \in Procs}
Unused == Inodes \ (Opened \cup {dir["db"], dir["tmp"]})

\* Mutant: the flag is forgotten.
NeverEmptied(old, should_truncate) == old

\* What a file that exists holds after open(), with O_TRUNC or without.
Kept(old, should_truncate) == IF should_truncate THEN <<>> ELSE old

\* open() of name n with O_CREAT: a new, empty file f if there is none.
OpenFile(n, f, should_truncate) ==
  /\ f \in IF dir[n] = NoFile THEN Unused ELSE {dir[n]}
  /\ dir' = [dir EXCEPT ![n] = f]
  /\ files' = [files EXCEPT ![f] =
       IF dir[n] = NoFile THEN <<>> ELSE Kept(@, should_truncate)]

-----------------------------------------------------------------------------
Init ==
  /\ dir = [n \in {"db", "tmp"} |-> NoFile]
  /\ files = [i \in Inodes |-> <<>>]
  /\ pc = [p \in Procs |-> "idle"]
  /\ cmd = [p \in Procs |-> Nothing]
  /\ fd = [p \in Procs |-> NoFile]
  /\ tfd = [p \in Procs |-> NoFile]
  /\ idx = [p \in Procs |-> 0]
  /\ buf = [p \in Procs |-> 0]
  /\ out = [p \in Procs |-> Unknown]

Goto(p, l) == pc' = [pc EXCEPT ![p] = l]

\* The outcome is decided; main() prints it, closes fd and exits.
Finish(p, o) == Goto(p, "exit") /\ out' = [out EXCEPT ![p] = o]

\* validate_range() for the id; the gpa is part of the record's contents.
Valid(id) == id \in Ids

\* The switch of main() on the option.
First(c) ==
  CASE c.op = "add"      -> "add_read"
    [] c.op = "del"      -> "del_read"
    [] c.op = "find"     -> "find"
    [] c.op = "scan"     -> "scan"
    [] c.op = "compress" -> "tmp"
    [] c.op = "zero"     -> "truncate"

\* A shell runs sdbsc.
Start(p, c) ==
  /\ pc[p] = "idle"
  /\ cmd' = [cmd EXCEPT ![p] = c]
  /\ Goto(p, "open")
  /\ UNCHANGED <<dir, files, fd, tfd, idx, buf, out>>

\* open_db(DB_FILE, false), and validate_range() if a student is to be added.
Open(p) ==
  /\ pc[p] = "open"
  /\ \E f \in Inodes : OpenFile("db", f, FALSE) /\ fd' = [fd EXCEPT ![p] = f]
  /\ idx' = [idx EXCEPT ![p] = 0]
  /\ buf' = [buf EXCEPT ![p] = 0]
  /\ IF cmd[p].op = "add" /\ ~Valid(cmd[p].id)
       THEN Finish(p, Outcome("badargs", cmd[p].id, 0))
       ELSE Goto(p, First(cmd[p])) /\ UNCHANGED out
  /\ UNCHANGED <<cmd, tfd>>

\* A call returns -1, which ends every command with a message and EXIT_FAIL_DB.
Failing(p) ==
  /\ pc[p] \notin {"idle", "exit"}
  /\ Faults
  /\ Finish(p, Outcome("failed", cmd[p].id, 0))
  /\ UNCHANGED <<dir, files, cmd, fd, tfd, idx, buf>>

\* lseek() refuses an offset before the beginning of the file (EINVAL).
BadOffset(p) ==
  /\ pc[p] \in {"add_read", "del_read", "find"}
  /\ Slot(cmd[p].id) < 0
  /\ Finish(p, Outcome("failed", cmd[p].id, 0))
  /\ UNCHANGED <<dir, files, cmd, fd, tfd, idx, buf>>

-----------------------------------------------------------------------------
(* add_student(), del_student() and get_student().                         *)

\* The read() of add_student() at the slot of its id.
AddRead(p) ==
  LET s == Slot(cmd[p].id) IN
  /\ pc[p] = "add_read"
  /\ s >= 0
  /\ IF Stored(fd[p], s) = 0
       THEN Goto(p, "add_write") /\ UNCHANGED out
       ELSE Finish(p, Outcome("dup", cmd[p].id, 0))
  /\ UNCHANGED <<dir, files, cmd, fd, tfd, idx, buf>>

AddWrite(p) ==
  /\ pc[p] = "add_write"
  /\ files' = [files EXCEPT ![fd[p]] = Written(@, Slot(cmd[p].id), cmd[p].val)]
  /\ Finish(p, Outcome("added", cmd[p].id, cmd[p].val))
  /\ UNCHANGED <<dir, cmd, fd, tfd, idx, buf>>

\* The get_student() of del_student(): no range check on the id.
DelRead(p) ==
  LET s == Slot(cmd[p].id) IN
  /\ pc[p] = "del_read"
  /\ s >= 0
  /\ IF Stored(fd[p], s) = 0
       THEN Finish(p, Outcome("missing", cmd[p].id, 0))
       ELSE Goto(p, "del_write") /\ UNCHANGED out
  /\ UNCHANGED <<dir, files, cmd, fd, tfd, idx, buf>>

DelWrite(p) ==
  /\ pc[p] = "del_write"
  /\ files' = [files EXCEPT ![fd[p]] = Written(@, Slot(cmd[p].id), 0)]
  /\ Finish(p, Outcome("deleted", cmd[p].id, 0))
  /\ UNCHANGED <<dir, cmd, fd, tfd, idx, buf>>

\* -f: get_student() and print_student().
Find(p) ==
  LET s == Slot(cmd[p].id) IN
  /\ pc[p] = "find"
  /\ s >= 0
  /\ Finish(p, IF Stored(fd[p], s) = 0 THEN Outcome("missing", cmd[p].id, 0)
               ELSE Outcome("found", cmd[p].id, Stored(fd[p], s)))
  /\ UNCHANGED <<dir, files, cmd, fd, tfd, idx, buf>>

-----------------------------------------------------------------------------
(* count_db_records() and print_db() (whose lines are counted), zero.      *)

Scan(p) ==
  /\ pc[p] = "scan"
  /\ idx[p] < Len(files[fd[p]])
  /\ buf' = [buf EXCEPT ![p] = IF Stored(fd[p], idx[p]) = 0 THEN @ ELSE @ + 1]
  /\ idx' = [idx EXCEPT ![p] = @ + 1]
  /\ UNCHANGED <<dir, files, pc, cmd, fd, tfd, out>>

\* read() returns 0 at the end of the file.
ScanEnds(p) ==
  /\ pc[p] = "scan"
  /\ idx[p] >= Len(files[fd[p]])
  /\ Finish(p, Outcome("count", cmd[p].id, buf[p]))
  /\ UNCHANGED <<dir, files, cmd, fd, tfd, idx, buf>>

\* -z: main() closes fd and opens the file again with O_TRUNC.
Truncate(p) ==
  /\ pc[p] = "truncate"
  /\ \E f \in Inodes : OpenFile("db", f, TRUE) /\ fd' = [fd EXCEPT ![p] = f]
  /\ Finish(p, Outcome("zeroed", cmd[p].id, 0))
  /\ UNCHANGED <<cmd, tfd, idx, buf>>

-----------------------------------------------------------------------------
(* compress_db().                                                          *)

OpenTmp(p) ==
  /\ pc[p] = "tmp"
  /\ \E f \in Inodes : OpenFile("tmp", f, TRUE) /\ tfd' = [tfd EXCEPT ![p] = f]
  /\ idx' = [idx EXCEPT ![p] = 1]
  /\ Goto(p, "copy_read")
  /\ UNCHANGED <<cmd, fd, buf, out>>

\* The copy loop "i <= MAX_STD_ID" is over.
CopyDone(i) == i > MaxId

\* get_student(): an id that has no record is skipped.
CopyRead(p) ==
  LET v == Stored(fd[p], Slot(idx[p])) IN
  /\ pc[p] = "copy_read"
  /\ ~CopyDone(idx[p])
  /\ IF v = 0 THEN idx' = [idx EXCEPT ![p] = @ + 1] /\ UNCHANGED <<pc, buf>>
              ELSE buf' = [buf EXCEPT ![p] = v] /\ Goto(p, "copy_write") /\ UNCHANGED idx
  /\ UNCHANGED <<dir, files, cmd, fd, tfd, out>>

CopyWrite(p) ==
  /\ pc[p] = "copy_write"
  /\ files' = [files EXCEPT ![tfd[p]] = Written(@, Slot(idx[p]), buf[p])]
  /\ idx' = [idx EXCEPT ![p] = @ + 1]
  /\ Goto(p, "copy_read")
  /\ UNCHANGED <<dir, cmd, fd, tfd, buf, out>>

\* Mutant: tmp_fd is not closed.
CloseDb(p) ==
  /\ fd' = [fd EXCEPT ![p] = NoFile]
  /\ UNCHANGED tfd

Close(p) ==
  /\ fd' = [fd EXCEPT ![p] = NoFile]
  /\ tfd' = [tfd EXCEPT ![p] = NoFile]

CopyEnds(p) ==
  /\ pc[p] = "copy_read"
  /\ CopyDone(idx[p])
  /\ Close(p)
  /\ Goto(p, "rename")
  /\ UNCHANGED <<dir, files, cmd, idx, buf, out>>

\* rename() replaces the database at once, or fails for want of the file.
Rename(p) ==
  /\ pc[p] = "rename"
  /\ IF dir["tmp"] = NoFile
       THEN Finish(p, Outcome("failed", cmd[p].id, 0)) /\ UNCHANGED dir
       ELSE /\ dir' = [dir EXCEPT !["db"] = dir["tmp"], !["tmp"] = NoFile]
            /\ Goto(p, "reopen") /\ UNCHANGED out
  /\ UNCHANGED <<files, cmd, fd, tfd, idx, buf>>

Reopen(p) ==
  /\ pc[p] = "reopen"
  /\ \E f \in Inodes : OpenFile("db", f, FALSE) /\ fd' = [fd EXCEPT ![p] = f]
  /\ Finish(p, Outcome("compressed", cmd[p].id, 0))
  /\ UNCHANGED <<cmd, tfd, idx, buf>>

-----------------------------------------------------------------------------
(* The end of the process, which closes what it has open.                  *)

Ends(p) ==
  /\ Close(p)
  /\ Goto(p, "idle")
  /\ cmd' = [cmd EXCEPT ![p] = Nothing]
  /\ out' = [out EXCEPT ![p] = Unknown]
  /\ idx' = [idx EXCEPT ![p] = 0]
  /\ buf' = [buf EXCEPT ![p] = 0]
  /\ UNCHANGED <<dir, files>>

Exit(p) == pc[p] = "exit" /\ Ends(p)

\* The process is killed (not code: the environment).
Die(p) == Deadly /\ pc[p] # "idle" /\ Ends(p)

Compress(p) ==
  OpenTmp(p) \/ CopyRead(p) \/ CopyWrite(p) \/ CopyEnds(p) \/ Rename(p) \/ Reopen(p)

Call(p) ==
  \/ Open(p) \/ Failing(p) \/ BadOffset(p)
  \/ AddRead(p) \/ AddWrite(p) \/ DelRead(p) \/ DelWrite(p) \/ Find(p)
  \/ Scan(p) \/ ScanEnds(p) \/ Truncate(p) \/ Compress(p)

Next == \E p \in Procs : Call(p) \/ Exit(p) \/ Die(p) \/ \E c \in Commands : Start(p, c)

Spec == Init /\ [][Next]_vars

-----------------------------------------------------------------------------
(* Properties.                                                             *)

\* Besides types: an outcome is decided exactly when the process is to exit,
\* the two names never name one file, a process has closed both files when it
\* renames, and no process that runs a command has a descriptor of its own
\* missing when it reads or writes (main() and compress_db()).
TypeOK ==
  /\ dir \in [{"db", "tmp"} -> Inodes \cup {NoFile}]
  /\ files \in [Inodes -> Seq(Vals \cup {0})]
  /\ pc \in [Procs -> {"idle", "open", "add_read", "add_write", "del_read", "del_write",
                       "find", "scan", "truncate", "tmp", "copy_read", "copy_write",
                       "rename", "reopen", "exit"}]
  /\ cmd \in [Procs -> Commands \cup {Nothing}]
  /\ fd \in [Procs -> Inodes \cup {NoFile}]
  /\ tfd \in [Procs -> Inodes \cup {NoFile}]
  /\ idx \in [Procs -> Nat]
  /\ buf \in [Procs -> Nat]
  /\ dir["db"] = dir["tmp"] => dir["db"] = NoFile
  /\ \A p \in Procs :
       /\ pc[p] = "idle" <=> cmd[p] = Nothing
       /\ pc[p] = "exit" <=> out[p] # Unknown
       /\ fd[p] = NoFile => pc[p] \in {"idle", "open", "rename", "reopen", "exit"}
       /\ tfd[p] = NoFile => pc[p] \notin {"copy_read", "copy_write"}
       /\ pc[p] \in {"idle", "rename", "reopen"} => fd[p] = NoFile /\ tfd[p] = NoFile

\* The record that the database holds for an id.
Record(i) == IF dir["db"] = NoFile THEN 0 ELSE Stored(dir["db"], i)

Map == INSTANCE StudentMap WITH
  recs <- [i \in Ids |-> Record(i)], asked <- cmd, out <- out

\* Commands that run one after the other, any of them killed between any two
\* calls or stopped by a failing call, and ids of any size that the offset can
\* tell apart: each command acts on the map of records at one instant or not
\* at all.  In particular compress_db() never loses a record, and never brings
\* back one that was deleted after an earlier compression was cut short.
MapSpec == Map!Spec

\* sdbsc.c:163-169: del_student() "Removes a student": the record of an id goes
\* only when that id is named, or with all the others.
DeletedIsNamed ==
  [][\A i \in Ids : Record(i) # 0 /\ Record(i)' = 0 =>
       \E p \in Procs : cmd[p].op = "zero" \/ (cmd[p].op = "del" /\ cmd[p].id = i)]_vars

\* sdbsc.c:156: when add_student() reports success, "student was successfully
\* added to db".
AddedIsThere ==
  [][\A p \in Procs, i \in Ids :
       out[p] = Unknown /\ out'[p].tag = "added" /\ out'[p].id = i =>
         Record(i)' = out'[p].val]_vars
=============================================================================
