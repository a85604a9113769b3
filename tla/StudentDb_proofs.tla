-------------------------- MODULE StudentDb_proofs --------------------------
(***************************************************************************)
(* Theorems about StudentDb, for every size of the database, every file    *)
(* system and every call that fails or process that is killed: the type    *)
(* invariant for any number of processes, and, if processes run one after  *)
(* the other and no id wraps around, that the program implements           *)
(* StudentMap.                                                             *)
(***************************************************************************)
EXTENDS StudentDb, FiniteSetTheorems, TLAPS

-----------------------------------------------------------------------------
(* Offsets and files.                                                      *)

\* No offset of id i wraps around.
Straight(i) == i \in Int /\ -(Wrap \div 2) <= i /\ i < Wrap - Wrap \div 2

LEMMA SmallModulo ==
  ASSUME NEW x \in Int, 0 <= x, x < Wrap
  PROVE  x % Wrap = x
BY ConstantsAssumption

LEMMA SlotIsId ==
  ASSUME NEW i, Straight(i)
  PROVE  Slot(i) = i
BY SmallModulo, ConstantsAssumption DEF Slot, Straight

\* The ids of students do not.
LEMMA IdsAreStraight == \A i \in Ids : Straight(i)
<1>1. 2 * (Wrap \div 2) <= Wrap /\ Wrap \div 2 \in Nat
  BY ConstantsAssumption
<1> QED
  BY <1>1, ConstantsAssumption DEF Straight, Ids

LEMMA SlotType == \A i \in Int : Slot(i) \in Int
BY ConstantsAssumption DEF Slot

Contents == Seq(Vals \cup {0})

\* What is in slot i of the contents f.
At(f, i) == IF i < Len(f) THEN f[i + 1] ELSE 0

LEMMA AtType ==
  ASSUME NEW f \in Contents, NEW i \in Nat
  PROVE  At(f, i) \in Vals \cup {0}
BY DEF At, Contents

\* A write changes its slot and no other, wherever it is.
LEMMA WrittenIs ==
  ASSUME NEW f \in Contents, NEW s \in Nat, NEW v \in Vals \cup {0}
  PROVE  /\ Written(f, s, v) \in Contents
         /\ \A i \in Nat : At(Written(f, s, v), i) = IF i = s THEN v ELSE At(f, i)
<1> DEFINE n == IF s < Len(f) THEN Len(f) ELSE s + 1
           w == [i \in 1..n |-> IF i = s + 1 THEN v ELSE IF i <= Len(f) THEN f[i] ELSE 0]
<1>1. Written(f, s, v) = w /\ n \in Nat
  BY DEF Written, Contents
<1>2. \A i \in 1..n : w[i] \in Vals \cup {0}
  BY DEF Contents
<1>3. w \in Contents /\ Len(w) = n
  BY <1>1, <1>2 DEF Contents
<1>4. \A i \in Nat : At(w, i) = IF i = s THEN v ELSE At(f, i)
  BY <1>1, <1>3 DEF At, Contents
<1> QED
  BY <1>1, <1>3, <1>4

-----------------------------------------------------------------------------
(* Type correctness.                                                       *)

\* Besides TypeOK: where writes go (an offset may be negative), and that every
\* process has an outcome.
Located ==
  /\ out = [p \in Procs |-> out[p]]
  /\ \A p \in Procs :
       /\ pc[p] \in {"add_write", "del_write"} => Slot(cmd[p].id) >= 0
       /\ pc[p] = "copy_read" => idx[p] # 0
       /\ pc[p] = "copy_write" => idx[p] \in Ids /\ buf[p] \in Vals

Typed == TypeOK /\ Located

Places == {"idle", "open", "add_read", "add_write", "del_read", "del_write", "find", "scan",
           "truncate", "tmp", "copy_read", "copy_write", "rename", "reopen", "exit"}

\* What Typed says of one process that is at place a with command c, open files
\* f and t, position i, buffer b and outcome o.
OneTyped(a, c, f, t, i, b, o) ==
  /\ a \in Places /\ c \in Commands \cup {Nothing}
  /\ f \in Inodes \cup {NoFile} /\ t \in Inodes \cup {NoFile}
  /\ i \in Nat /\ b \in Nat
  /\ a = "idle" <=> c = Nothing
  /\ a = "exit" <=> o # Unknown
  /\ f = NoFile => a \in {"idle", "open", "rename", "reopen", "exit"}
  /\ t = NoFile => a \notin {"copy_read", "copy_write"}
  /\ a \in {"idle", "rename", "reopen"} => f = NoFile /\ t = NoFile
  /\ a \in {"add_write", "del_write"} => Slot(c.id) >= 0
  /\ a = "copy_read" => i # 0
  /\ a = "copy_write" => i \in Ids /\ b \in Vals

\* ... and of the directory and the files.
FilesTyped(d, fs) ==
  /\ d \in [{"db", "tmp"} -> Inodes \cup {NoFile}]
  /\ fs \in [Inodes -> Contents]
  /\ d["db"] = d["tmp"] => d["db"] = NoFile

LEMMA TypedParts ==
  /\ Typed => /\ FilesTyped(dir, files)
              /\ \A p \in Procs : OneTyped(pc[p], cmd[p], fd[p], tfd[p], idx[p], buf[p], out[p])
BY DEF Typed, TypeOK, Located, OneTyped, FilesTyped, Contents, Places

\* Process p alone has moved.
Alone(p) ==
  /\ pc' = [pc EXCEPT ![p] = pc'[p]] /\ cmd' = [cmd EXCEPT ![p] = cmd'[p]]
  /\ fd' = [fd EXCEPT ![p] = fd'[p]] /\ tfd' = [tfd EXCEPT ![p] = tfd'[p]]
  /\ idx' = [idx EXCEPT ![p] = idx'[p]] /\ buf' = [buf EXCEPT ![p] = buf'[p]]
  /\ out' = [out EXCEPT ![p] = out'[p]]

LEMMA OneStep ==
  ASSUME Typed, NEW p \in Procs, Alone(p),
         OneTyped(pc'[p], cmd'[p], fd'[p], tfd'[p], idx'[p], buf'[p], out'[p]),
         FilesTyped(dir', files')
  PROVE  Typed'
<1>1. /\ pc \in [Procs -> Places] /\ cmd \in [Procs -> Commands \cup {Nothing}]
      /\ fd \in [Procs -> Inodes \cup {NoFile}] /\ tfd \in [Procs -> Inodes \cup {NoFile}]
      /\ idx \in [Procs -> Nat] /\ buf \in [Procs -> Nat]
  BY DEF Typed, TypeOK, Places
<1>2. /\ pc' \in [Procs -> Places] /\ cmd' \in [Procs -> Commands \cup {Nothing}]
      /\ fd' \in [Procs -> Inodes \cup {NoFile}] /\ tfd' \in [Procs -> Inodes \cup {NoFile}]
      /\ idx' \in [Procs -> Nat] /\ buf' \in [Procs -> Nat] 
      /\ out' = [q \in Procs |-> out'[q]]
  BY <1>1 DEF OneTyped, Alone, Typed, Located
<1>3. ASSUME NEW q \in Procs
      PROVE  OneTyped(pc'[q], cmd'[q], fd'[q], tfd'[q], idx'[q], buf'[q], out'[q])
  <2>1. CASE q = p
    BY <2>1
  <2>2. CASE q # p
    <3>1. /\ pc'[q] = pc[q] /\ cmd'[q] = cmd[q] /\ fd'[q] = fd[q] /\ tfd'[q] = tfd[q]
          /\ idx'[q] = idx[q] /\ buf'[q] = buf[q] /\ out'[q] = out[q]
      BY <1>1, <2>2 DEF Alone, Typed, Located
    <3> QED
      BY <3>1, TypedParts
  <2> QED
    BY <2>1, <2>2
<1>4. TypeOK'
  BY <1>2, <1>3 DEF TypeOK, OneTyped, FilesTyped, Contents, Places
<1>5. Located'
  BY <1>2, <1>3 DEF Located, OneTyped
<1> QED
  BY <1>4, <1>5 DEF Typed

LEMMA CommandFields ==
  /\ Nothing \notin Commands
  /\ \A c \in Commands \cup {Nothing} : c.id \in Int /\ c.val \in Vals \cup {0}
  /\ \A c \in Commands : c.op \in Ops
BY ConstantsAssumption DEF Nothing, Ops

LEMMA OutcomesDiffer ==
  \A t, i, v : t # "none" => Outcome(t, i, v) # Unknown
BY DEF Outcome, Unknown

\* What open() with O_CREAT does to the directory and the files.
LEMMA OpenTypes ==
  ASSUME TypeOK, NEW n \in {"db", "tmp"}, NEW f \in Inodes, NEW b \in BOOLEAN,
         OpenFile(n, f, b)
  PROVE  /\ dir' \in [{"db", "tmp"} -> Inodes \cup {NoFile}]
         /\ files' \in [Inodes -> Contents]
         /\ dir'["db"] = dir'["tmp"] => dir'["db"] = NoFile
         /\ f # NoFile /\ dir'[n] = f
         /\ \A m \in {"db", "tmp"} : m # n => dir'[m] = dir[m]
         /\ \A g \in Inodes : g # f => files'[g] = files[g]
         /\ files'[f] = IF dir[n] = NoFile \/ b THEN <<>> ELSE files[f]
<1>1. f # NoFile
  BY ConstantsAssumption
<1>2. /\ dir' = [dir EXCEPT ![n] = f]
      /\ files' = [files EXCEPT ![f] = IF dir[n] = NoFile \/ b THEN <<>> ELSE @]
      /\ f \in IF dir[n] = NoFile THEN Inodes \ {dir["db"], dir["tmp"]} ELSE {dir[n]}
  BY DEF OpenFile, Kept, Unused
<1>3. <<>> \in Contents /\ files \in [Inodes -> Contents]
  BY DEF Contents, TypeOK
<1>4. files' \in [Inodes -> Contents]
  BY <1>2, <1>3
<1> QED
  BY <1>1, <1>2, <1>3, <1>4 DEF TypeOK

LEMMA TypeInit == Init => Typed
<1> SUFFICES ASSUME Init PROVE Typed
  OBVIOUS
<1>1. <<>> \in Contents
  BY DEF Contents
<1> QED
  BY <1>1 DEF Init, Typed, TypeOK, Located, Contents


LEMMA Same ==
  ASSUME Typed, NEW p \in Procs
  PROVE  /\ pc = [pc EXCEPT ![p] = pc[p]] /\ cmd = [cmd EXCEPT ![p] = cmd[p]]
         /\ fd = [fd EXCEPT ![p] = fd[p]] /\ tfd = [tfd EXCEPT ![p] = tfd[p]]
         /\ idx = [idx EXCEPT ![p] = idx[p]] /\ buf = [buf EXCEPT ![p] = buf[p]]
         /\ out = [out EXCEPT ![p] = out[p]]
BY DEF Typed, TypeOK, Located

\* The outcome is decided while nothing but the files may change.
LEMMA FinishTypes ==
  ASSUME Typed, NEW p \in Procs, NEW t, NEW i, NEW v, t # "none",
         pc[p] \notin {"idle", "exit"},
         Finish(p, Outcome(t, i, v)),
         FilesTyped(dir', files'),
         UNCHANGED <<cmd, fd, tfd, idx, buf>>
  PROVE  Typed'
<1>1. pc'[p] = "exit" /\ out'[p] = Outcome(t, i, v) /\ Alone(p)
  BY Same DEF Finish, Goto, Alone, Typed, TypeOK, Located
<1>2. OneTyped("exit", cmd[p], fd[p], tfd[p], idx[p], buf[p], Outcome(t, i, v))
  BY OutcomesDiffer, TypedParts DEF OneTyped, Places
<1> QED
  BY <1>1, <1>2, OneStep

\* Files are changed by open(), by writes and by rename().
LEMMA Opening ==
  ASSUME Typed, NEW n \in {"db", "tmp"}, NEW f \in Inodes, NEW b \in BOOLEAN,
         OpenFile(n, f, b)
  PROVE  FilesTyped(dir', files') /\ f # NoFile
BY OpenTypes DEF Typed, FilesTyped

LEMMA Writing ==
  ASSUME Typed, NEW f \in Inodes, NEW s \in Nat, NEW v \in Vals \cup {0},
         files' = [files EXCEPT ![f] = Written(@, s, v)], UNCHANGED dir
  PROVE  FilesTyped(dir', files')
<1>1. FilesTyped(dir, files)
  BY TypedParts
<1>2. Written(files[f], s, v) \in Contents
  BY <1>1, WrittenIs DEF FilesTyped
<1> QED
  BY <1>1, <1>2 DEF FilesTyped

LEMMA TypeStart ==
  ASSUME Typed, NEW p \in Procs, NEW c \in Commands, Start(p, c)
  PROVE  Typed'
<1>1. Alone(p) /\ pc'[p] = "open" /\ cmd'[p] = c
  BY Same DEF Start, Goto, Alone, Typed, TypeOK
<1>2. OneTyped("open", c, fd[p], tfd[p], idx[p], buf[p], out[p])
  BY TypedParts, CommandFields DEF OneTyped, Places, Start
<1>3. FilesTyped(dir', files')
  BY TypedParts DEF Start
<1> QED
  BY <1>1, <1>2, <1>3, OneStep DEF Start

LEMMA TypeOpen ==
  ASSUME Typed, NEW p \in Procs, Open(p)
  PROVE  Typed'
<1>1. PICK f \in Inodes : OpenFile("db", f, FALSE) /\ fd' = [fd EXCEPT ![p] = f]
  BY DEF Open
<1>2. FilesTyped(dir', files') /\ f # NoFile
  BY <1>1, Opening
<1>3. fd'[p] = f /\ idx'[p] = 0 /\ buf'[p] = 0
  BY <1>1 DEF Open, Typed, TypeOK
<1>4. CASE cmd[p].op = "add" /\ ~Valid(cmd[p].id)
  <2>1. Finish(p, Outcome("badargs", cmd[p].id, 0))
    BY <1>4 DEF Open
  <2>2. Alone(p) /\ pc'[p] = "exit" /\ out'[p] = Outcome("badargs", cmd[p].id, 0)
    <3>1. pc'[p] = "exit" /\ out'[p] = Outcome("badargs", cmd[p].id, 0)
      BY <2>1 DEF Finish, Goto, Typed, TypeOK, Located
    <3>2. /\ idx' = [idx EXCEPT ![p] = 0] /\ buf' = [buf EXCEPT ![p] = 0]
          /\ cmd' = cmd /\ tfd' = tfd
      BY DEF Open
    <3> QED
      BY <1>1, <1>3, <2>1, <3>1, <3>2, Same DEF Finish, Goto, Alone
  <2>3. OneTyped("exit", cmd[p], f, tfd[p], 0, 0, Outcome("badargs", cmd[p].id, 0))
    BY <1>2, TypedParts, OutcomesDiffer DEF OneTyped, Places, Open
  <2> QED
    BY <1>2, <1>3, <2>2, <2>3, OneStep DEF Open
<1>5. CASE ~(cmd[p].op = "add" /\ ~Valid(cmd[p].id))
  <2>1. Alone(p) /\ pc'[p] = First(cmd[p])
    BY <1>1, <1>3, <1>5, Same DEF Open, Goto, Alone, Typed, TypeOK
  <2>2. cmd[p] \in Commands
    BY TypedParts DEF OneTyped, Open
  <2>3. First(cmd[p]) \in {"add_read", "del_read", "find", "scan", "tmp", "truncate"}
    BY <2>2, CommandFields DEF First, Ops
  <2>4. OneTyped(First(cmd[p]), cmd[p], f, tfd[p], 0, 0, out[p])
    BY <1>2, <2>2, <2>3, TypedParts, CommandFields DEF OneTyped, Places, Open
  <2> QED
    BY <1>2, <1>3, <1>5, <2>1, <2>4, OneStep DEF Open
<1> QED
  BY <1>4, <1>5

\* The steps that read one record and may decide the outcome.
LEMMA TypeReads ==
  ASSUME Typed, NEW p \in Procs,
         \/ Failing(p) \/ BadOffset(p) \/ AddRead(p) \/ DelRead(p) \/ Find(p) \/ ScanEnds(p)
  PROVE  Typed'
<1> DEFINE same == UNCHANGED <<dir, files, cmd, fd, tfd, idx, buf>>
<1>1. ASSUME NEW t, NEW i, NEW v, t # "none", pc[p] \notin {"idle", "exit"},
             Finish(p, Outcome(t, i, v)), same
      PROVE  Typed'
  BY <1>1, FinishTypes, TypedParts
<1>2. ASSUME NEW a \in {"add_write", "del_write"}, Goto(p, a), UNCHANGED out, same,
             pc[p] \in {"add_read", "del_read"}, Slot(cmd[p].id) >= 0
      PROVE  Typed'
  <2>1. Alone(p) /\ pc'[p] = a
    BY <1>2, Same DEF Goto, Alone, Typed, TypeOK
  <2>2. OneTyped(a, cmd[p], fd[p], tfd[p], idx[p], buf[p], out[p])
    BY <1>2, TypedParts DEF OneTyped, Places
  <2> QED
    BY <1>2, <2>1, <2>2, OneStep, TypedParts
<1>3. CASE Failing(p)
  BY <1>1, <1>3 DEF Failing
<1>4. CASE BadOffset(p)
  BY <1>1, <1>4 DEF BadOffset
<1>5. CASE AddRead(p)
  BY <1>1, <1>2, <1>5 DEF AddRead
<1>6. CASE DelRead(p)
  BY <1>1, <1>2, <1>6 DEF DelRead
<1>7. CASE Find(p)
  BY <1>1, <1>7 DEF Find
<1>8. CASE ScanEnds(p)
  BY <1>1, <1>8 DEF ScanEnds
<1> QED
  BY <1>3, <1>4, <1>5, <1>6, <1>7, <1>8

LEMMA TypeWrites ==
  ASSUME Typed, NEW p \in Procs, AddWrite(p) \/ DelWrite(p)
  PROVE  Typed'
<1>1. cmd[p].val \in Vals \cup {0} /\ fd[p] \in Inodes /\ Slot(cmd[p].id) \in Nat
  BY TypedParts, CommandFields, SlotType DEF OneTyped, AddWrite, DelWrite
<1>2. FilesTyped(dir', files')
  BY <1>1, Writing DEF AddWrite, DelWrite
<1>3. CASE AddWrite(p)
  BY <1>2, <1>3, FinishTypes DEF AddWrite
<1>4. CASE DelWrite(p)
  BY <1>2, <1>4, FinishTypes DEF DelWrite
<1> QED
  BY <1>3, <1>4

LEMMA TypeScan ==
  ASSUME Typed, NEW p \in Procs, Scan(p)
  PROVE  Typed'
<1>1. Alone(p) /\ idx'[p] = idx[p] + 1 /\ buf'[p] \in {buf[p], buf[p] + 1}
  BY Same DEF Scan, Alone, Typed, TypeOK
<1>2. OneTyped(pc[p], cmd[p], fd[p], tfd[p], idx'[p], buf'[p], out[p])
  BY <1>1, TypedParts DEF OneTyped, Scan
<1> QED
  BY <1>1, <1>2, OneStep, TypedParts DEF Scan

LEMMA TypeTruncate ==
  ASSUME Typed, NEW p \in Procs, Truncate(p)
  PROVE  Typed'
<1>1. PICK f \in Inodes : OpenFile("db", f, TRUE) /\ fd' = [fd EXCEPT ![p] = f]
  BY DEF Truncate
<1>2. FilesTyped(dir', files') /\ f # NoFile
  BY <1>1, Opening
<1>3. /\ Alone(p) /\ fd'[p] = f /\ pc'[p] = "exit"
      /\ out'[p] = Outcome("zeroed", cmd[p].id, 0)
  BY <1>1, Same DEF Truncate, Finish, Goto, Alone, Typed, TypeOK, Located
<1>4. OneTyped("exit", cmd[p], f, tfd[p], idx[p], buf[p], Outcome("zeroed", cmd[p].id, 0))
  BY <1>2, TypedParts, OutcomesDiffer DEF OneTyped, Places, Truncate
<1> QED
  BY <1>2, <1>3, <1>4, OneStep DEF Truncate

LEMMA TypeOpenTmp ==
  ASSUME Typed, NEW p \in Procs, OpenTmp(p)
  PROVE  Typed'
<1>1. PICK f \in Inodes : OpenFile("tmp", f, TRUE) /\ tfd' = [tfd EXCEPT ![p] = f]
  BY DEF OpenTmp
<1>2. FilesTyped(dir', files') /\ f # NoFile
  BY <1>1, Opening
<1>3. Alone(p) /\ tfd'[p] = f /\ pc'[p] = "copy_read" /\ idx'[p] = 1
  BY <1>1, Same DEF OpenTmp, Goto, Alone, Typed, TypeOK
<1>4. OneTyped("copy_read", cmd[p], fd[p], f, 1, buf[p], out[p])
  BY <1>2, TypedParts DEF OneTyped, Places, OpenTmp
<1> QED
  BY <1>2, <1>3, <1>4, OneStep DEF OpenTmp

LEMMA TypeCopyRead ==
  ASSUME Typed, NEW p \in Procs, CopyRead(p)
  PROVE  Typed'
<1>1. idx[p] \in Ids /\ fd[p] \in Inodes /\ files \in [Inodes -> Contents]
  <2>1. idx[p] \in Nat \ {0} /\ idx[p] <= MaxId
    BY TypedParts, ConstantsAssumption DEF OneTyped, CopyRead, CopyDone
  <2> QED
    BY <2>1, TypedParts, ConstantsAssumption DEF OneTyped, FilesTyped, CopyRead, Ids
<1> DEFINE v == Stored(fd[p], Slot(idx[p]))
<1>2. CASE v = 0
  <2>1. Alone(p) /\ idx'[p] = idx[p] + 1
    BY <1>2, Same DEF CopyRead, Alone, Typed, TypeOK
  <2>2. OneTyped(pc[p], cmd[p], fd[p], tfd[p], idx[p] + 1, buf[p], out[p])
    BY <1>1, TypedParts DEF OneTyped, CopyRead, Ids
  <2> QED
    BY <1>2, <2>1, <2>2, OneStep, TypedParts DEF CopyRead
<1>3. CASE v # 0
  <2>1. Alone(p) /\ pc'[p] = "copy_write" /\ buf'[p] = v
    BY <1>3, Same DEF CopyRead, Goto, Alone, Typed, TypeOK
  <2>2. v \in Vals
    <3>1. v = At(files[fd[p]], idx[p])
      BY <1>1, SlotIsId, IdsAreStraight DEF Stored, At
    <3> QED
      BY <1>1, <1>3, <3>1, AtType DEF Ids
  <2>3. OneTyped("copy_write", cmd[p], fd[p], tfd[p], idx[p], v, out[p])
    BY <1>1, <2>2, TypedParts, ConstantsAssumption DEF OneTyped, Places, CopyRead
  <2> QED
    BY <1>3, <2>1, <2>3, OneStep, TypedParts DEF CopyRead
<1> QED
  BY <1>2, <1>3

LEMMA TypeCopyWrite ==
  ASSUME Typed, NEW p \in Procs, CopyWrite(p)
  PROVE  Typed'
<1>1. idx[p] \in Ids /\ buf[p] \in Vals /\ tfd[p] \in Inodes
  BY TypedParts DEF OneTyped, CopyWrite
<1>2. Slot(idx[p]) = idx[p] /\ idx[p] \in Nat
  BY <1>1, SlotIsId, IdsAreStraight DEF Ids
<1>3. FilesTyped(dir', files')
  BY <1>1, <1>2, Writing DEF CopyWrite
<1>4. Alone(p) /\ pc'[p] = "copy_read" /\ idx'[p] = idx[p] + 1
  BY Same DEF CopyWrite, Goto, Alone, Typed, TypeOK
<1>5. OneTyped("copy_read", cmd[p], fd[p], tfd[p], idx[p] + 1, buf[p], out[p])
  BY <1>2, TypedParts DEF OneTyped, Places, CopyWrite
<1> QED
  BY <1>3, <1>4, <1>5, OneStep DEF CopyWrite

LEMMA TypeCopyEnds ==
  ASSUME Typed, NEW p \in Procs, CopyEnds(p)
  PROVE  Typed'
<1>1. Alone(p) /\ pc'[p] = "rename" /\ fd'[p] = NoFile /\ tfd'[p] = NoFile
  BY Same DEF CopyEnds, Close, Goto, Alone, Typed, TypeOK
<1>2. OneTyped("rename", cmd[p], NoFile, NoFile, idx[p], buf[p], out[p])
  BY TypedParts DEF OneTyped, Places, CopyEnds
<1> QED
  BY <1>1, <1>2, OneStep, TypedParts DEF CopyEnds

LEMMA TypeRename ==
  ASSUME Typed, NEW p \in Procs, Rename(p)
  PROVE  Typed'
<1>1. CASE dir["tmp"] = NoFile
  BY <1>1, FinishTypes, TypedParts DEF Rename
<1>2. CASE dir["tmp"] # NoFile
  <2>1. FilesTyped(dir', files')
    BY <1>2, TypedParts DEF Rename, FilesTyped
  <2>2. Alone(p) /\ pc'[p] = "reopen"
    BY <1>2, Same DEF Rename, Goto, Alone, Typed, TypeOK
  <2>3. OneTyped("reopen", cmd[p], fd[p], tfd[p], idx[p], buf[p], out[p])
    BY TypedParts DEF OneTyped, Places, Rename
  <2> QED
    BY <1>2, <2>1, <2>2, <2>3, OneStep DEF Rename
<1> QED
  BY <1>1, <1>2

LEMMA TypeReopen ==
  ASSUME Typed, NEW p \in Procs, Reopen(p)
  PROVE  Typed'
<1>1. PICK f \in Inodes : OpenFile("db", f, FALSE) /\ fd' = [fd EXCEPT ![p] = f]
  BY DEF Reopen
<1>2. FilesTyped(dir', files') /\ f # NoFile
  BY <1>1, Opening
<1>3. /\ Alone(p) /\ fd'[p] = f /\ pc'[p] = "exit"
      /\ out'[p] = Outcome("compressed", cmd[p].id, 0)
  BY <1>1, Same DEF Reopen, Finish, Goto, Alone, Typed, TypeOK, Located
<1>4. OneTyped("exit", cmd[p], f, tfd[p], idx[p], buf[p], Outcome("compressed", cmd[p].id, 0))
  BY <1>2, TypedParts, OutcomesDiffer DEF OneTyped, Places, Reopen
<1> QED
  BY <1>2, <1>3, <1>4, OneStep DEF Reopen

LEMMA TypeEnds ==
  ASSUME Typed, NEW p \in Procs, Ends(p)
  PROVE  Typed'
<1>1. /\ Alone(p) /\ pc'[p] = "idle" /\ cmd'[p] = Nothing /\ out'[p] = Unknown
      /\ fd'[p] = NoFile /\ tfd'[p] = NoFile /\ idx'[p] = 0 /\ buf'[p] = 0
  BY Same DEF Ends, Close, Goto, Alone, Typed, TypeOK, Located
<1>2. OneTyped("idle", Nothing, NoFile, NoFile, 0, 0, Unknown)
  BY DEF OneTyped, Places
<1> QED
  BY <1>1, <1>2, OneStep, TypedParts DEF Ends

LEMMA TypeStep == Typed /\ [Next]_vars => Typed'
<1> SUFFICES ASSUME Typed, [Next]_vars PROVE Typed'
  OBVIOUS
<1>1. ASSUME NEW p \in Procs, NEW c \in Commands, Start(p, c) PROVE Typed'
  BY <1>1, TypeStart
<1>2. ASSUME NEW p \in Procs, Call(p) PROVE Typed'
  BY <1>2, TypeOpen, TypeReads, TypeWrites, TypeScan, TypeTruncate, TypeOpenTmp, TypeCopyRead,
     TypeCopyWrite, TypeCopyEnds, TypeRename, TypeReopen DEF Call, Compress
<1>3. ASSUME NEW p \in Procs, Exit(p) \/ Die(p) PROVE Typed'
  BY <1>3, TypeEnds DEF Exit, Die
<1>4. CASE UNCHANGED vars
  BY <1>4 DEF vars, Typed, TypeOK, Located
<1> QED
  BY <1>1, <1>2, <1>3, <1>4 DEF Next

\* The two names never name one file, a process has its files open when it reads
\* or writes them, has closed them when it renames, and has decided its outcome
\* exactly when it is to exit, for any number of processes at the same time.
THEOREM TypeCorrect == Spec => []TypeOK
<1>1. Typed => TypeOK
  BY DEF Typed
<1> QED
  BY <1>1, TypeInit, TypeStep, PTL DEF Spec

-----------------------------------------------------------------------------
(* The program implements StudentMap, if processes run one after the other *)
(* and the offset of no id wraps around.                                   *)

\* One process at a time.
Serial == \A p, q \in Procs : p = q

Unwrapped == \A c \in Commands : Straight(c.id)

OpOf(l) ==
  CASE l \in {"add_read", "add_write"} -> "add"
    [] l \in {"del_read", "del_write"} -> "del"
    [] l = "find" -> "find"
    [] l = "scan" -> "scan"
    [] l = "truncate" -> "zero"
    [] OTHER -> "compress"

\* No file ever holds a record at a slot that belongs to no student.
Clean == \A f \in Inodes, i \in Nat : At(files[f], i) # 0 => i \in Ids

\* Process p is in the function that its command calls for, with the file open
\* that the name of the database still stands for.
Dispatched(p) ==
  pc[p] \notin {"idle", "open", "exit"} =>
    /\ cmd[p].op = OpOf(pc[p])
    /\ cmd[p].op = "add" => cmd[p].id \in Ids
    /\ dir["db"] # NoFile
    /\ pc[p] \notin {"rename", "reopen"} => fd[p] = dir["db"]

\* What it has read is still so when it writes.
Checked(p) ==
  /\ pc[p] = "add_write" => Record(cmd[p].id) = 0
  /\ pc[p] = "del_write" => cmd[p].id \in Ids /\ Record(cmd[p].id) # 0

\* The records before i.
Before(i) == {j \in Ids : j < i /\ Record(j) # 0}

Counted(p) == pc[p] = "scan" => buf[p] = Cardinality(Before(idx[p]))

\* The new file holds the records of the ids that have been copied, and nothing
\* else: nothing of a compression that was cut short.
Copied(p) ==
  /\ pc[p] \in {"copy_read", "copy_write"} =>
       /\ tfd[p] = dir["tmp"]
       /\ idx[p] \in 1..(MaxId + 1)
       /\ \A i \in Ids : At(files[tfd[p]], i) = IF i < idx[p] THEN Record(i) ELSE 0
  /\ pc[p] = "copy_write" => buf[p] = Record(idx[p])
  /\ pc[p] = "rename" =>
       /\ dir["tmp"] # NoFile
       /\ \A i \in Ids : At(files[dir["tmp"]], i) = Record(i)

AsMap == Clean /\ \A p \in Procs : Dispatched(p) /\ Checked(p) /\ Counted(p) /\ Copied(p)

Records == [i \in Ids |-> Record(i)]

LEMMA RecordIs ==
  /\ \A f, i : Stored(f, i) = At(files[f], i)
  /\ \A i : Record(i) = IF dir["db"] = NoFile THEN 0 ELSE At(files[dir["db"]], i)
BY DEF Stored, At, Record

LEMMA RecordType ==
  ASSUME Typed
  PROVE  \A i \in Nat : Record(i) \in Vals \cup {0}
<1>1. dir["db"] # NoFile => files[dir["db"]] \in Contents
  BY TypedParts DEF FilesTyped
<1> QED
  BY <1>1, AtType, RecordIs

\* Steps of the program that are no step of the map, and those at which its
\* command acts.
LEMMA Stutters ==
  UNCHANGED <<Records, cmd, out>> => UNCHANGED Map!vars
BY DEF Map!vars, Records

LEMMA Acts ==
  ASSUME Typed, NEW p \in Procs, pc[p] \notin {"idle", "exit"}, UNCHANGED cmd,
         NEW o \in {Map!Result(cmd[p], Records), Map!Failed(cmd[p])},
         Finish(p, o), Records' = Map!After(o, Records)
  PROVE  Map!Next
<1>1. cmd[p] # Map!Nothing /\ out[p] = Map!Unknown
  BY TypedParts DEF OneTyped, Nothing, Unknown, Map!Nothing, Map!Unknown
<1>2. out' = [out EXCEPT ![p] = o]
  BY DEF Finish
<1>3. Map!Act(p)
  BY <1>1, <1>2 DEF Map!Act, Records
<1> QED
  BY <1>3 DEF Map!Next

LEMMA SameRecords ==
  UNCHANGED <<dir, files>> =>
    Records' = Records /\ (\A i : Record(i)' = Record(i)) /\ (\A i : Before(i)' = Before(i))
BY DEF Records, Record, Stored, Before

\* A process that is about to exit, or is idle, has no obligations.
LEMMA Rests ==
  ASSUME Serial, NEW p \in Procs, pc'[p] \in {"idle", "open", "exit"}, Clean'
  PROVE  AsMap'
<1>1. \A q \in Procs : q = p
  BY DEF Serial
<1> QED
  BY <1>1 DEF AsMap, Dispatched, Checked, Counted, Copied

\* The command acts, and the files and their names stay as they are.
LEMMA ActsOnly ==
  ASSUME Serial, Typed, AsMap, NEW p \in Procs, pc[p] \notin {"idle", "exit"},
         UNCHANGED <<dir, files, cmd>>,
         NEW o \in {Map!Result(cmd[p], Records), Map!Failed(cmd[p])},
         o.tag \notin {"added", "deleted", "zeroed"},
         Finish(p, o)
  PROVE  AsMap' /\ Map!Next
<1>1. Records' = Map!After(o, Records)
  BY SameRecords DEF Map!After
<1>2. Map!Next
  BY <1>1, Acts
<1>3. pc'[p] = "exit"
  BY DEF Finish, Goto, Typed, TypeOK
<1>4. Clean'
  BY DEF AsMap, Clean, At
<1> QED
  BY <1>2, <1>3, <1>4, Rests

LEMMA MapInit ==
  ASSUME Init
  PROVE  AsMap /\ Map!Init
<1>1. \A i : Record(i) = 0
  BY RecordIs DEF Init
<1>2. Map!Init
  BY <1>1 DEF Init, Map!Init, Map!Nothing, Map!Unknown, Nothing, Unknown, Map!Ids, Ids
<1>3. Clean
  BY DEF Init, Clean, At
<1> QED
  BY <1>2, <1>3 DEF Init, AsMap, Dispatched, Checked, Counted, Copied

LEMMA MapStart ==
  ASSUME Serial, Typed, AsMap, NEW p \in Procs, NEW c \in Commands, Start(p, c)
  PROVE  AsMap' /\ Map!Next
<1>1. pc'[p] = "open" /\ cmd[p] = Nothing
  BY DEF Start, Goto, Typed, TypeOK
<1>2. Clean'
  BY DEF Start, AsMap, Clean, At
<1>3. Records' = Records
  BY SameRecords DEF Start
<1>4. Map!Ask(p, c)
  BY <1>1, <1>3 DEF Map!Ask, Start, Nothing, Map!Nothing, Records
<1> QED
  BY <1>1, <1>2, <1>4, Rests DEF Map!Next

LEMMA MapEnds ==
  ASSUME Serial, Typed, AsMap, NEW p \in Procs, pc[p] # "idle", Ends(p)
  PROVE  AsMap' /\ Map!Next
<1>1. pc'[p] = "idle" /\ cmd[p] # Nothing
  BY DEF Ends, Goto, Typed, TypeOK
<1>2. Clean'
  BY DEF Ends, AsMap, Clean, At
<1>3. Records' = Records
  BY SameRecords DEF Ends
<1>4. Map!End(p)
  BY <1>1, <1>3 DEF Map!End, Ends, Nothing, Map!Nothing, Unknown, Map!Unknown, Records
<1> QED
  BY <1>1, <1>2, <1>4, Rests DEF Map!Next

\* What a call that fails changes is nothing.
LEMMA MapFails ==
  ASSUME Serial, Typed, AsMap, NEW p \in Procs, Failing(p) \/ BadOffset(p)
  PROVE  AsMap' /\ Map!Next
<1>1. Finish(p, Map!Failed(cmd[p])) /\ UNCHANGED <<dir, files, cmd>>
  BY DEF Failing, BadOffset, Outcome, Map!Failed, Map!Outcome
<1>2. Map!Failed(cmd[p]).tag = "failed" /\ pc[p] \notin {"idle", "exit"}
  BY DEF Failing, BadOffset, Map!Failed, Map!Outcome
<1> QED
  BY <1>1, <1>2, ActsOnly

\* open() gives the process the file of the name, and creates an empty one if
\* there is none: an empty file is as good as none.
LEMMA OpenDb ==
  ASSUME Typed, AsMap, NEW f \in Inodes, OpenFile("db", f, FALSE)
  PROVE  /\ Clean' /\ dir'["db"] = f /\ f # NoFile
         /\ Records' = Records /\ \A i \in Nat : Record(i)' = Record(i)
<1>1. /\ f # NoFile /\ dir'["db"] = f
      /\ \A g \in Inodes : g # f => files'[g] = files[g]
      /\ files'[f] = IF dir["db"] = NoFile THEN <<>> ELSE files[f]
  BY OpenTypes DEF Typed
<1>2. dir["db"] # NoFile => f = dir["db"]
  BY DEF OpenFile
<1>3. \A i \in Nat : At(<<>>, i) = 0
  BY DEF At
<1>4. \A i \in Nat : Record(i)' = Record(i)
  <2>1. \A i : Record(i)' = At(files'[f], i)
    BY <1>1 DEF Record, Stored, At
  <2> QED
    BY <1>1, <1>2, <1>3, <2>1, RecordIs
<1>5. Records' = Records
  BY <1>4 DEF Records, Ids
<1>6. Clean'
  <2> SUFFICES ASSUME NEW g \in Inodes, NEW i \in Nat, At(files'[g], i) # 0 PROVE i \in Ids
    BY DEF Clean, At
  <2>1. files'[g] = files[g] \/ files'[g] = <<>>
    BY <1>1
  <2> QED
    BY <1>3, <2>1 DEF AsMap, Clean
<1> QED
  BY <1>1, <1>4, <1>5, <1>6

LEMMA MapOpen ==
  ASSUME Serial, Typed, AsMap, NEW p \in Procs, Open(p)
  PROVE  AsMap' /\ (Map!Next \/ UNCHANGED Map!vars)
<1>1. PICK f \in Inodes : OpenFile("db", f, FALSE) /\ fd' = [fd EXCEPT ![p] = f]
  BY DEF Open
<1>2. /\ Clean' /\ dir'["db"] = f /\ f # NoFile
      /\ Records' = Records /\ \A i \in Nat : Record(i)' = Record(i)
  BY <1>1, OpenDb
<1>3. cmd[p] \in Commands /\ pc[p] = "open" /\ cmd' = cmd
  BY TypedParts DEF OneTyped, Open
<1>4. CASE cmd[p].op = "add" /\ ~Valid(cmd[p].id)
  <2>1. Finish(p, Outcome("badargs", cmd[p].id, 0))
    BY <1>4 DEF Open
  <2>2. Outcome("badargs", cmd[p].id, 0) = Map!Result(cmd[p], Records)
    BY <1>4 DEF Map!Result, Outcome, Map!Outcome, Valid, Ids, Map!Ids
  <2>3. Records' = Map!After(Outcome("badargs", cmd[p].id, 0), Records)
    BY <1>2 DEF Map!After, Outcome
  <2>4. pc'[p] = "exit"
    BY <2>1 DEF Finish, Goto, Typed, TypeOK
  <2> QED
    BY <1>2, <1>3, <2>1, <2>2, <2>3, <2>4, Acts, Rests
<1>5. CASE ~(cmd[p].op = "add" /\ ~Valid(cmd[p].id))
  <2>1. /\ pc'[p] = First(cmd[p]) /\ out' = out /\ fd'[p] = f
        /\ idx'[p] = 0 /\ buf'[p] = 0
    BY <1>1, <1>5 DEF Open, Goto, Typed, TypeOK
  <2>2. /\ First(cmd[p]) \in {"add_read", "del_read", "find", "scan", "tmp", "truncate"}
        /\ cmd[p].op = OpOf(First(cmd[p]))
        /\ cmd[p].op = "add" => cmd[p].id \in Ids
    BY <1>3, <1>5, CommandFields DEF First, OpOf, Valid, Ops
  <2>3. Dispatched(p)' /\ Checked(p)' /\ Copied(p)'
    BY <1>2, <1>3, <2>1, <2>2 DEF Dispatched, Checked, Copied
  <2>4. Counted(p)'
    <3>1. Before(0)' = {}
      BY DEF Before, Ids
    <3> QED
      BY <2>1, <3>1, FS_EmptySet DEF Counted
  <2>5. AsMap'
    BY <1>2, <2>3, <2>4 DEF AsMap, Serial
  <2> QED
    BY <1>2, <1>3, <2>1, <2>5, Stutters
<1> QED
  BY <1>4, <1>5

\* The record in the slot that a command reads.
LEMMA Reading ==
  ASSUME Unwrapped, Typed, AsMap, NEW p \in Procs,
         pc[p] \in {"add_read", "add_write", "del_read", "del_write", "find"}
  PROVE  /\ cmd[p] \in Commands /\ cmd[p].id \in Int
         /\ Slot(cmd[p].id) = cmd[p].id
         /\ fd[p] = dir["db"] /\ dir["db"] \in Inodes
         /\ cmd[p].id >= 0 => Stored(fd[p], cmd[p].id) = Record(cmd[p].id)
         /\ cmd[p].id >= 0 /\ Record(cmd[p].id) # 0 => cmd[p].id \in Ids
<1>1. cmd[p] \in Commands
  BY TypedParts DEF OneTyped
<1>2. cmd[p].id \in Int /\ Slot(cmd[p].id) = cmd[p].id
  BY <1>1, CommandFields, SlotIsId DEF Unwrapped
<1>3. fd[p] = dir["db"] /\ dir["db"] # NoFile
  BY DEF AsMap, Dispatched
<1>4. dir["db"] \in Inodes
  BY <1>3, TypedParts DEF FilesTyped
<1> QED
  BY <1>1, <1>2, <1>3, <1>4, RecordIs DEF AsMap, Clean

LEMMA MapReads ==
  ASSUME Serial, Unwrapped, Typed, AsMap, NEW p \in Procs, AddRead(p) \/ DelRead(p) \/ Find(p)
  PROVE  AsMap' /\ (Map!Next \/ UNCHANGED Map!vars)
<1> DEFINE i == cmd[p].id
<1>1. /\ cmd[p] \in Commands /\ Slot(i) = i /\ i \in Nat
      /\ fd[p] = dir["db"]
      /\ Stored(fd[p], i) = Record(i)
      /\ Record(i) # 0 => i \in Ids
  BY Reading DEF AddRead, DelRead, Find
<1>2. UNCHANGED <<dir, files, cmd, fd, tfd, idx, buf>> /\ pc[p] \notin {"idle", "exit"}
  BY DEF AddRead, DelRead, Find
<1>3. cmd[p].op = OpOf(pc[p]) /\ (cmd[p].op = "add" => i \in Ids)
  BY <1>2 DEF AsMap, Dispatched, AddRead, DelRead, Find
<1>4. \A o : /\ Finish(p, o) /\ o \in {Map!Result(cmd[p], Records), Map!Failed(cmd[p])}
             /\ o.tag \notin {"added", "deleted", "zeroed"}
             => AsMap' /\ Map!Next
  BY <1>2, ActsOnly
<1>5. ASSUME NEW a \in {"add_write", "del_write"}, Goto(p, a), out' = out,
             a = "add_write" => pc[p] = "add_read" /\ Record(i) = 0,
             a = "del_write" => pc[p] = "del_read" /\ i \in Ids /\ Record(i) # 0
      PROVE  AsMap' /\ UNCHANGED Map!vars
  <2>1. pc'[p] = a
    BY <1>5 DEF Goto, Typed, TypeOK
  <2>2. Clean' /\ Records' = Records /\ Record(i)' = Record(i)
    BY <1>2, SameRecords DEF AsMap, Clean, At
  <2>3. dir["db"] # NoFile
    BY <1>2, <1>5 DEF AsMap, Dispatched
  <2>4. OpOf(a) = OpOf(pc[p])
    BY <1>5 DEF OpOf
  <2>5. Dispatched(p)'
    BY <1>1, <1>2, <1>3, <2>1, <2>3, <2>4 DEF Dispatched
  <2>6. Checked(p)'
    BY <1>2, <1>5, <2>1, <2>2 DEF Checked
  <2>7. Counted(p)' /\ Copied(p)'
    BY <1>5, <2>1 DEF Counted, Copied
  <2> QED
    BY <1>2, <1>5, <2>2, <2>5, <2>6, <2>7, Stutters DEF AsMap, Serial
<1>6. CASE AddRead(p)
  <2>1. pc[p] = "add_read" /\ cmd[p].op = "add" /\ i \in Ids
    BY <1>3, <1>6 DEF AddRead, OpOf
  <2>2. CASE Record(i) = 0
    BY <1>1, <1>5, <1>6, <2>1, <2>2 DEF AddRead
  <2>3. CASE Record(i) # 0
    <3>1. Finish(p, Outcome("dup", i, 0))
      BY <1>1, <1>6, <2>3 DEF AddRead
    <3>2. Outcome("dup", i, 0) = Map!Result(cmd[p], Records)
      BY <2>1, <2>3 DEF Map!Result, Outcome, Map!Outcome, Ids, Map!Ids, Records
    <3> QED
      BY <1>4, <3>1, <3>2 DEF Outcome
  <2> QED
    BY <2>2, <2>3
<1>7. CASE DelRead(p)
  <2>1. pc[p] = "del_read" /\ cmd[p].op = "del"
    BY <1>3, <1>7 DEF DelRead, OpOf
  <2>2. CASE Record(i) # 0
    BY <1>1, <1>5, <1>7, <2>1, <2>2 DEF DelRead
  <2>3. CASE Record(i) = 0
    <3>1. Finish(p, Outcome("missing", i, 0))
      BY <1>1, <1>7, <2>3 DEF DelRead
    <3>2. Outcome("missing", i, 0) = Map!Result(cmd[p], Records)
      BY <2>1, <2>3 DEF Map!Result, Outcome, Map!Outcome, Ids, Map!Ids, Records
    <3> QED
      BY <1>4, <3>1, <3>2 DEF Outcome
  <2> QED
    BY <2>2, <2>3
<1>8. CASE Find(p)
  <2>1. cmd[p].op = "find"
    BY <1>3, <1>8 DEF Find, OpOf
  <2>2. CASE Record(i) # 0
    <3>1. Finish(p, Outcome("found", i, Record(i)))
      BY <1>1, <1>8, <2>2 DEF Find
    <3>2. Outcome("found", i, Record(i)) = Map!Result(cmd[p], Records)
      BY <1>1, <2>1, <2>2 DEF Map!Result, Outcome, Map!Outcome, Ids, Map!Ids, Records
    <3> QED
      BY <1>4, <3>1, <3>2 DEF Outcome
  <2>3. CASE Record(i) = 0
    <3>1. Finish(p, Outcome("missing", i, 0))
      BY <1>1, <1>8, <2>3 DEF Find
    <3>2. Outcome("missing", i, 0) = Map!Result(cmd[p], Records)
      BY <2>1, <2>3 DEF Map!Result, Outcome, Map!Outcome, Ids, Map!Ids, Records
    <3> QED
      BY <1>4, <3>1, <3>2 DEF Outcome
  <2> QED
    BY <2>2, <2>3
<1> QED
  BY <1>6, <1>7, <1>8

\* A write to the file of the database changes the record of one id.
LEMMA WriteDb ==
  ASSUME Typed, AsMap, dir["db"] \in Inodes, dir' = dir,
         NEW i \in Ids, NEW v \in Vals \cup {0},
         files' = [files EXCEPT ![dir["db"]] = Written(@, i, v)]
  PROVE  Clean' /\ Records' = [Records EXCEPT ![i] = v]
<1> DEFINE f == dir["db"]
<1>1. i \in Nat /\ files \in [Inodes -> Contents] /\ f # NoFile
  BY TypedParts, ConstantsAssumption DEF Ids, FilesTyped
<1>2. \A j \in Nat : At(files'[f], j) = IF j = i THEN v ELSE At(files[f], j)
  BY <1>1, WrittenIs
<1>3. \A g \in Inodes : g # f => files'[g] = files[g]
  BY <1>1
<1>4. Clean'
  <2> SUFFICES ASSUME NEW g \in Inodes, NEW j \in Nat, At(files'[g], j) # 0 PROVE j \in Ids
    BY DEF Clean, At
  <2> QED
    BY <1>2, <1>3 DEF AsMap, Clean
<1>5. \A j \in Nat : Record(j)' = IF j = i THEN v ELSE Record(j)
  <2>1. \A j : Record(j)' = At(files'[f], j)
    BY <1>1 DEF Record, Stored, At
  <2> QED
    BY <1>1, <1>2, <2>1, RecordIs
<1>6. \A j \in Ids : Record(j)' = IF j = i THEN v ELSE Record(j)
  BY <1>5, ConstantsAssumption DEF Ids
<1>7. Records' = [j \in Ids |-> IF j = i THEN v ELSE Record(j)]
  BY <1>6 DEF Records
<1> QED
  BY <1>4, <1>7 DEF Records

LEMMA MapWrites ==
  ASSUME Serial, Unwrapped, Typed, AsMap, NEW p \in Procs, AddWrite(p) \/ DelWrite(p)
  PROVE  AsMap' /\ Map!Next
<1> DEFINE i == cmd[p].id
<1>1. /\ cmd[p] \in Commands /\ Slot(i) = i /\ fd[p] = dir["db"] /\ dir["db"] \in Inodes
      /\ cmd[p].val \in Vals \cup {0}
  BY Reading, CommandFields DEF AddWrite, DelWrite
<1>2. UNCHANGED <<dir, cmd>> /\ pc[p] \notin {"idle", "exit"}
  BY DEF AddWrite, DelWrite
<1>3. cmd[p].op = OpOf(pc[p]) /\ (cmd[p].op = "add" => i \in Ids)
  BY <1>2 DEF AsMap, Dispatched, AddWrite, DelWrite
<1>4. pc'[p] = "exit"
  BY DEF AddWrite, DelWrite, Finish, Goto, Typed, TypeOK
<1>5. CASE AddWrite(p)
  <2>1. cmd[p].op = "add" /\ i \in Ids /\ Record(i) = 0
    BY <1>3, <1>5 DEF AddWrite, OpOf, AsMap, Checked
  <2>2. Clean' /\ Records' = [Records EXCEPT ![i] = cmd[p].val]
    BY <1>1, <1>2, <1>5, <2>1, WriteDb DEF AddWrite
  <2>3. Outcome("added", i, cmd[p].val) = Map!Result(cmd[p], Records)
    BY <2>1 DEF Map!Result, Outcome, Map!Outcome, Ids, Map!Ids, Records
  <2>4. Records' = Map!After(Outcome("added", i, cmd[p].val), Records)
    BY <2>2 DEF Map!After, Outcome
  <2> QED
    BY <1>2, <1>4, <1>5, <2>2, <2>3, <2>4, Acts, Rests DEF AddWrite
<1>6. CASE DelWrite(p)
  <2>1. cmd[p].op = "del" /\ i \in Ids /\ Record(i) # 0
    BY <1>3, <1>6 DEF DelWrite, OpOf, AsMap, Checked
  <2>2. Clean' /\ Records' = [Records EXCEPT ![i] = 0]
    BY <1>1, <1>2, <1>6, <2>1, WriteDb DEF DelWrite
  <2>3. Outcome("deleted", i, 0) = Map!Result(cmd[p], Records)
    BY <2>1 DEF Map!Result, Outcome, Map!Outcome, Ids, Map!Ids, Records
  <2>4. Records' = Map!After(Outcome("deleted", i, 0), Records)
    BY <2>2 DEF Map!After, Outcome
  <2> QED
    BY <1>2, <1>4, <1>6, <2>2, <2>3, <2>4, Acts, Rests DEF DelWrite
<1> QED
  BY <1>5, <1>6

LEMMA BeforeFinite == \A i : IsFiniteSet(Before(i))
<1>1. IsFiniteSet(Ids)
  BY FS_Interval, ConstantsAssumption DEF Ids
<1> QED
  BY <1>1, FS_Subset DEF Before

\* A scan counts each record once.
LEMMA MapScan ==
  ASSUME Serial, Typed, AsMap, NEW p \in Procs, Scan(p)
  PROVE  AsMap' /\ UNCHANGED Map!vars
<1> DEFINE i == idx[p]
<1>1. pc[p] = "scan" /\ i \in Nat /\ buf[p] \in Nat /\ fd[p] = dir["db"] /\ dir["db"] # NoFile
  BY TypedParts DEF OneTyped, Scan, AsMap, Dispatched
<1>2. Stored(fd[p], i) = Record(i) /\ (Record(i) # 0 => i \in Ids)
  BY <1>1, RecordIs, TypedParts DEF FilesTyped, AsMap, Clean
<1>3. /\ UNCHANGED <<dir, files, pc, cmd, fd, tfd, out>> /\ idx'[p] = i + 1
      /\ buf'[p] = IF Record(i) = 0 THEN buf[p] ELSE buf[p] + 1
  BY <1>2 DEF Scan, Typed, TypeOK
<1>4. Clean' /\ Records' = Records /\ \A j : Before(j)' = Before(j)
  BY <1>3, SameRecords DEF AsMap, Clean, At
<1>5. Counted(p)'
  <2>1. Before(i + 1) = Before(i) \cup (IF Record(i) = 0 THEN {} ELSE {i})
    BY <1>1, <1>2, ConstantsAssumption DEF Before, Ids
  <2>2. i \notin Before(i)
    BY <1>1 DEF Before
  <2>3. Cardinality(Before(i + 1)) = buf'[p]
    <3>1. CASE Record(i) = 0
      <4>1. Before(i + 1) = Before(i)
        BY <2>1, <3>1
      <4> QED
        BY <1>1, <1>3, <3>1, <4>1 DEF AsMap, Counted
    <3>2. CASE Record(i) # 0
      <4>1. Before(i + 1) = Before(i) \cup {i}
        BY <2>1, <3>2
      <4>2. Cardinality(Before(i) \cup {i}) = Cardinality(Before(i)) + 1
        BY <2>2, BeforeFinite, FS_AddElement
      <4> QED
        BY <1>1, <1>3, <3>2, <4>1, <4>2 DEF AsMap, Counted
    <3> QED
      BY <3>1, <3>2
  <2> QED
    BY <1>3, <1>4, <2>3 DEF Counted
<1>6. Dispatched(p)' /\ Checked(p)' /\ Copied(p)'
  BY <1>1, <1>3 DEF AsMap, Dispatched, Checked, Copied
<1> QED
  BY <1>3, <1>4, <1>5, <1>6, Stutters DEF AsMap, Serial

LEMMA MapScanEnds ==
  ASSUME Serial, Typed, AsMap, NEW p \in Procs, ScanEnds(p)
  PROVE  AsMap' /\ Map!Next
<1> DEFINE i == idx[p]
<1>1. /\ pc[p] = "scan" /\ i \in Nat /\ fd[p] = dir["db"] /\ dir["db"] # NoFile
      /\ cmd[p].op = OpOf("scan")
  BY TypedParts DEF OneTyped, ScanEnds, AsMap, Dispatched
<1>2. cmd[p].op = "scan" /\ buf[p] = Cardinality(Before(i))
  BY <1>1 DEF OpOf, AsMap, Counted
<1>3. Before(i) = {j \in Ids : Record(j) # 0}
  <2>1. ASSUME NEW j \in Ids, Record(j) # 0 PROVE j < i
    <3>1. files[dir["db"]] \in Contents
      BY <1>1, TypedParts DEF FilesTyped
    <3>2. At(files[dir["db"]], j) # 0
      BY <1>1, <2>1, RecordIs
    <3>3. j < Len(files[dir["db"]]) /\ Len(files[dir["db"]]) \in Nat
      BY <3>1, <3>2 DEF At, Contents
    <3>4. i >= Len(files[dir["db"]])
      BY <1>1 DEF ScanEnds
    <3>5. j \in Int
      BY ConstantsAssumption DEF Ids
    <3> QED
      BY <1>1, <3>3, <3>4, <3>5
  <2> QED
    BY <2>1 DEF Before
<1>4. Outcome("count", cmd[p].id, buf[p]) = Map!Result(cmd[p], Records)
  <2>1. Map!Count(Records) = Cardinality({j \in Ids : Record(j) # 0})
    <3>1. {j \in Ids : Records[j] # 0} = {j \in Ids : Record(j) # 0}
      BY DEF Records
    <3>2. Map!Ids = Ids
      BY DEF Map!Ids, Ids
    <3>3. Map!Count(Records) = Cardinality({j \in Map!Ids : Records[j] # 0})
      BY DEF Map!Count, Map!Cardinality, Cardinality
    <3> QED
      BY <3>1, <3>2, <3>3
  <2> QED
    BY <1>2, <1>3, <2>1 DEF Map!Result, Outcome, Map!Outcome
<1>5. Outcome("count", cmd[p].id, buf[p]).tag = "count"
  BY DEF Outcome
<1> QED
  BY <1>1, <1>4, <1>5, ActsOnly DEF ScanEnds

LEMMA MapTruncate ==
  ASSUME Serial, Typed, AsMap, NEW p \in Procs, Truncate(p)
  PROVE  AsMap' /\ Map!Next
<1>1. PICK f \in Inodes : OpenFile("db", f, TRUE)
  BY DEF Truncate
<1>2. /\ f # NoFile /\ dir'["db"] = f /\ files'[f] = <<>>
      /\ \A g \in Inodes : g # f => files'[g] = files[g]
  BY <1>1, OpenTypes DEF Typed
<1>3. \A i \in Nat : At(<<>>, i) = 0
  BY DEF At
<1>4. Clean'
  <2> SUFFICES ASSUME NEW g \in Inodes, NEW i \in Nat, At(files'[g], i) # 0 PROVE i \in Ids
    BY DEF Clean, At
  <2>1. files'[g] = files[g] \/ files'[g] = <<>>
    BY <1>2
  <2> QED
    BY <1>3, <2>1 DEF AsMap, Clean
<1>5. Records' = [i \in Ids |-> 0]
  <2>1. \A i : Record(i)' = At(files'[f], i)
    BY <1>2 DEF Record, Stored, At
  <2>2. \A i \in Ids : Record(i)' = 0
    BY <1>2, <1>3, <2>1 DEF Ids
  <2> QED
    BY <2>2 DEF Records
<1>6. cmd[p].op = "zero" /\ pc[p] = "truncate" /\ pc'[p] = "exit" /\ cmd' = cmd
  BY DEF Truncate, AsMap, Dispatched, OpOf, Finish, Goto, Typed, TypeOK
<1>7. Outcome("zeroed", cmd[p].id, 0) = Map!Result(cmd[p], Records)
  BY <1>6 DEF Map!Result, Outcome, Map!Outcome
<1>8. Records' = Map!After(Outcome("zeroed", cmd[p].id, 0), Records)
  BY <1>5 DEF Map!After, Outcome, Map!Ids, Ids
<1> QED
  BY <1>4, <1>6, <1>7, <1>8, Acts, Rests DEF Truncate

\* compress_db() begins with an empty file of its own, whatever an earlier one
\* has left under that name.
LEMMA MapOpenTmp ==
  ASSUME Serial, Typed, AsMap, NEW p \in Procs, OpenTmp(p)
  PROVE  AsMap' /\ UNCHANGED Map!vars
<1>1. PICK f \in Inodes : OpenFile("tmp", f, TRUE) /\ tfd' = [tfd EXCEPT ![p] = f]
  BY DEF OpenTmp
<1>2. /\ f # NoFile /\ dir'["tmp"] = f /\ files'[f] = <<>> /\ dir'["db"] = dir["db"]
      /\ \A g \in Inodes : g # f => files'[g] = files[g]
      /\ dir'["db"] = dir'["tmp"] => dir'["db"] = NoFile
  BY <1>1, OpenTypes DEF Typed
<1>3. /\ pc[p] = "tmp" /\ cmd[p].op = "compress" /\ dir["db"] # NoFile /\ fd[p] = dir["db"]
      /\ dir["db"] \in Inodes
  BY TypedParts DEF OpenTmp, AsMap, Dispatched, OpOf, FilesTyped
<1>4. \A i \in Nat : At(<<>>, i) = 0
  BY DEF At
<1>5. Clean'
  <2> SUFFICES ASSUME NEW g \in Inodes, NEW i \in Nat, At(files'[g], i) # 0 PROVE i \in Ids
    BY DEF Clean, At
  <2>1. files'[g] = files[g] \/ files'[g] = <<>>
    BY <1>2
  <2> QED
    BY <1>4, <2>1 DEF AsMap, Clean
<1>6. \A i : Record(i)' = Record(i)
  BY <1>2, <1>3 DEF Record, Stored
<1>7. /\ pc'[p] = "copy_read" /\ tfd'[p] = f /\ idx'[p] = 1 /\ cmd' = cmd /\ fd' = fd
      /\ out' = out
  BY <1>1 DEF OpenTmp, Goto, Typed, TypeOK
<1>8. Dispatched(p)' /\ Checked(p)' /\ Counted(p)'
  BY <1>2, <1>3, <1>7 DEF Dispatched, Checked, Counted, OpOf
<1>9. Copied(p)'
  <2>1. \A i \in Ids : At(files'[f], i) = 0 /\ ~(i < 1)
    BY <1>2, <1>4 DEF Ids
  <2>2. \A i \in Ids : At(files'[tfd'[p]], i) = IF i < idx'[p] THEN Record(i)' ELSE 0
    BY <1>7, <2>1
  <2>3. (\A i \in Ids : At(files[tfd[p]], i) = IF i < idx[p] THEN Record(i) ELSE 0)'
    BY <2>2 DEF At
  <2> QED
    BY <1>2, <1>7, <2>3, ConstantsAssumption DEF Copied
<1> QED
  BY <1>5, <1>6, <1>7, <1>8, <1>9, Stutters DEF AsMap, Serial, Records

LEMMA MapCopyRead ==
  ASSUME Serial, Typed, AsMap, NEW p \in Procs, CopyRead(p)
  PROVE  AsMap' /\ UNCHANGED Map!vars
<1> DEFINE i == idx[p]
<1>1. /\ pc[p] = "copy_read" /\ dir["db"] # NoFile /\ fd[p] = dir["db"]
      /\ cmd[p].op = "compress"
  BY DEF CopyRead, AsMap, Dispatched, OpOf
<1>2. i \in Ids /\ i \in Nat
  <2>1. i \in 1..(MaxId + 1) /\ i <= MaxId
    BY <1>1, ConstantsAssumption DEF CopyRead, CopyDone, AsMap, Copied
  <2> QED
    BY <2>1, ConstantsAssumption DEF Ids
<1>3. Stored(fd[p], Slot(i)) = Record(i)
  BY <1>1, <1>2, RecordIs, SlotIsId, IdsAreStraight
<1>4. Clean' /\ Records' = Records /\ \A j : Record(j)' = Record(j)
  BY SameRecords DEF CopyRead, AsMap, Clean, At
<1>5. UNCHANGED <<dir, files, cmd, fd, tfd, out>>
  BY DEF CopyRead
<1>6. \A j \in Ids : At(files[tfd[p]], j) = IF j < i THEN Record(j) ELSE 0
  BY <1>1 DEF AsMap, Copied
<1>7. CASE Record(i) = 0
  <2>1. pc' = pc /\ idx'[p] = i + 1
    BY <1>3, <1>7 DEF CopyRead, Typed, TypeOK
  <2>2. \A j \in Ids : At(files[tfd[p]], j) = IF j < i + 1 THEN Record(j) ELSE 0
    BY <1>2, <1>6, <1>7 DEF Ids
  <2>3. \A j \in Ids : At(files'[tfd'[p]], j) = IF j < idx'[p] THEN Record(j)' ELSE 0
    BY <1>4, <1>5, <2>1, <2>2
  <2>4. (\A j \in Ids : At(files[tfd[p]], j) = IF j < idx[p] THEN Record(j) ELSE 0)'
    BY <2>3 DEF At
  <2>5. i + 1 \in 1..(MaxId + 1)
    BY <1>2, ConstantsAssumption DEF Ids
  <2>6. Copied(p)'
    BY <1>1, <1>5, <2>1, <2>4, <2>5 DEF Copied, AsMap
  <2>7. Dispatched(p)' /\ Checked(p)' /\ Counted(p)'
    BY <1>1, <1>5, <2>1 DEF Dispatched, Checked, Counted, OpOf
  <2> QED
    BY <1>4, <1>5, <2>6, <2>7, Stutters DEF AsMap, Serial
<1>8. CASE Record(i) # 0
  <2>1. pc'[p] = "copy_write" /\ idx' = idx /\ buf'[p] = Record(i)
    BY <1>3, <1>8 DEF CopyRead, Goto, Typed, TypeOK
  <2>2. \A j \in Ids : At(files'[tfd'[p]], j) = IF j < idx'[p] THEN Record(j)' ELSE 0
    BY <1>4, <1>5, <1>6, <2>1
  <2>3. (\A j \in Ids : At(files[tfd[p]], j) = IF j < idx[p] THEN Record(j) ELSE 0)'
    BY <2>2 DEF At
  <2>4. buf'[p] = Record(idx[p])'
    BY <1>4, <2>1
  <2>5. Copied(p)'
    BY <1>1, <1>5, <2>1, <2>3, <2>4 DEF Copied, AsMap
  <2>6. Dispatched(p)' /\ Checked(p)' /\ Counted(p)'
    BY <1>1, <1>5, <2>1 DEF Dispatched, Checked, Counted, OpOf
  <2> QED
    BY <1>4, <1>5, <2>5, <2>6, Stutters DEF AsMap, Serial
<1> QED
  BY <1>7, <1>8

LEMMA MapCopyWrite ==
  ASSUME Serial, Typed, AsMap, NEW p \in Procs, CopyWrite(p)
  PROVE  AsMap' /\ UNCHANGED Map!vars
<1> DEFINE i == idx[p]
           f == tfd[p]
<1>1. /\ pc[p] = "copy_write" /\ dir["db"] # NoFile /\ fd[p] = dir["db"]
      /\ cmd[p].op = "compress" /\ f = dir["tmp"]
      /\ buf[p] = Record(i) /\ i \in Ids /\ buf[p] \in Vals
  BY TypedParts DEF OneTyped, CopyWrite, AsMap, Dispatched, OpOf, Copied
<1>2. /\ f \in Inodes /\ f # dir["db"] /\ i \in Nat /\ files \in [Inodes -> Contents]
      /\ Slot(i) = i
  BY <1>1, TypedParts, SlotIsId, IdsAreStraight, ConstantsAssumption
     DEF OneTyped, FilesTyped, Ids
<1>3. \A j \in Nat : At(files'[f], j) = IF j = i THEN Record(i) ELSE At(files[f], j)
  <2>1. files'[f] = Written(files[f], i, Record(i))
    BY <1>1, <1>2 DEF CopyWrite
  <2> QED
    BY <1>1, <1>2, <2>1, WrittenIs
<1>4. \A g \in Inodes : g # f => files'[g] = files[g]
  BY <1>2 DEF CopyWrite
<1>5. /\ UNCHANGED <<dir, cmd, fd, tfd, buf, out>> /\ idx'[p] = i + 1
      /\ pc'[p] = "copy_read"
  BY DEF CopyWrite, Goto, Typed, TypeOK
<1>6. Clean'
  <2> SUFFICES ASSUME NEW g \in Inodes, NEW j \in Nat, At(files'[g], j) # 0 PROVE j \in Ids
    BY DEF Clean, At
  <2> QED
    BY <1>1, <1>3, <1>4 DEF AsMap, Clean
<1>7. (\A j : Record(j)' = Record(j)) /\ Records' = Records
  <2>1. dir["db"] \in Inodes
    BY <1>1, TypedParts DEF FilesTyped
  <2> QED
    BY <1>2, <1>4, <1>5, <2>1 DEF Record, Stored, Records
<1>8. Copied(p)'
  <2>1. \A j \in Ids : At(files[f], j) = IF j < i THEN Record(j) ELSE 0
    BY <1>1 DEF AsMap, Copied
  <2>2. \A j \in Ids : At(files'[f], j) = IF j < i + 1 THEN Record(j) ELSE 0
    BY <1>2, <1>3, <2>1, ConstantsAssumption DEF Ids
  <2>3. \A j \in Ids : At(files'[tfd'[p]], j) = IF j < idx'[p] THEN Record(j)' ELSE 0
    BY <1>5, <1>7, <2>2
  <2>4. (\A j \in Ids : At(files[tfd[p]], j) = IF j < idx[p] THEN Record(j) ELSE 0)'
    BY <2>3 DEF At
  <2>5. i + 1 \in 1..(MaxId + 1)
    BY <1>1, ConstantsAssumption DEF Ids
  <2> QED
    BY <1>1, <1>5, <2>4, <2>5 DEF Copied
<1>9. Dispatched(p)' /\ Checked(p)' /\ Counted(p)'
  BY <1>1, <1>5 DEF Dispatched, Checked, Counted, OpOf
<1> QED
  BY <1>5, <1>6, <1>7, <1>8, <1>9, Stutters DEF AsMap, Serial

LEMMA MapCopyEnds ==
  ASSUME Serial, Typed, AsMap, NEW p \in Procs, CopyEnds(p)
  PROVE  AsMap' /\ UNCHANGED Map!vars
<1>1. /\ pc[p] = "copy_read" /\ dir["db"] # NoFile /\ cmd[p].op = "compress"
      /\ tfd[p] = dir["tmp"] /\ tfd[p] # NoFile
  BY TypedParts DEF OneTyped, CopyEnds, AsMap, Dispatched, OpOf, Copied
<1>2. \A j \in Ids : At(files[dir["tmp"]], j) = Record(j)
  <2>1. \A j \in Ids : At(files[dir["tmp"]], j) = IF j < idx[p] THEN Record(j) ELSE 0
    BY <1>1 DEF AsMap, Copied
  <2>2. idx[p] \in Nat /\ idx[p] > MaxId
    BY TypedParts DEF OneTyped, CopyEnds, CopyDone
  <2> QED
    BY <2>1, <2>2, ConstantsAssumption DEF Ids
<1>3. UNCHANGED <<dir, files, cmd, out>> /\ pc'[p] = "rename"
  BY DEF CopyEnds, Goto, Typed, TypeOK
<1>4. Clean' /\ Records' = Records /\ \A j : Record(j)' = Record(j)
  BY <1>3, SameRecords DEF AsMap, Clean, At
<1>5. (\A j \in Ids : At(files[dir["tmp"]], j) = Record(j))'
  BY <1>2, <1>3, <1>4 DEF At
<1>6. Copied(p)'
  BY <1>1, <1>3, <1>5 DEF Copied
<1>7. Dispatched(p)' /\ Checked(p)' /\ Counted(p)'
  BY <1>1, <1>3 DEF Dispatched, Checked, Counted, OpOf
<1> QED
  BY <1>3, <1>4, <1>6, <1>7, Stutters DEF AsMap, Serial

\* The new file that takes the name of the old one holds the same records.
LEMMA MapRename ==
  ASSUME Serial, Typed, AsMap, NEW p \in Procs, Rename(p)
  PROVE  AsMap' /\ UNCHANGED Map!vars
<1>1. /\ pc[p] = "rename" /\ cmd[p].op = "compress" /\ dir["tmp"] # NoFile
      /\ \A j \in Ids : At(files[dir["tmp"]], j) = Record(j)
  BY DEF Rename, AsMap, Dispatched, OpOf, Copied
<1>2. /\ UNCHANGED <<files, cmd, fd, tfd, out>>
      /\ dir' = [dir EXCEPT !["db"] = dir["tmp"], !["tmp"] = NoFile]
      /\ pc'[p] = "reopen"
  BY <1>1 DEF Rename, Goto, Typed, TypeOK
<1>3. dir'["db"] = dir["tmp"]
  BY <1>2, TypedParts DEF FilesTyped
<1>4. \A j \in Ids : Record(j)' = Record(j)
  <2>1. \A j : Record(j)' = At(files'[dir'["db"]], j)
    BY <1>1, <1>3 DEF Record, Stored, At
  <2> QED
    BY <1>1, <1>2, <1>3, <2>1
<1>5. Clean' /\ Records' = Records
  BY <1>2, <1>4 DEF AsMap, Clean, At, Records
<1>6. Dispatched(p)' /\ Checked(p)' /\ Counted(p)' /\ Copied(p)'
  BY <1>1, <1>2, <1>3 DEF Dispatched, Checked, Counted, Copied, OpOf
<1> QED
  BY <1>2, <1>5, <1>6, Stutters DEF AsMap, Serial

LEMMA MapReopen ==
  ASSUME Serial, Typed, AsMap, NEW p \in Procs, Reopen(p)
  PROVE  AsMap' /\ Map!Next
<1>1. PICK f \in Inodes : OpenFile("db", f, FALSE)
  BY DEF Reopen
<1>2. Clean' /\ Records' = Records
  BY <1>1, OpenDb
<1>3. pc[p] = "reopen" /\ cmd[p].op = "compress" /\ pc'[p] = "exit" /\ cmd' = cmd
  BY DEF Reopen, AsMap, Dispatched, OpOf, Finish, Goto, Typed, TypeOK
<1>4. Outcome("compressed", cmd[p].id, 0) = Map!Result(cmd[p], Records)
  BY <1>3 DEF Map!Result, Outcome, Map!Outcome
<1>5. Records' = Map!After(Outcome("compressed", cmd[p].id, 0), Records)
  BY <1>2 DEF Map!After, Outcome
<1> QED
  BY <1>2, <1>3, <1>4, <1>5, Acts, Rests DEF Reopen

LEMMA MapStep ==
  ASSUME Serial, Unwrapped, Typed, AsMap, [Next]_vars
  PROVE  AsMap' /\ [Map!Next]_(Map!vars)
<1>1. ASSUME NEW p \in Procs, NEW c \in Commands, Start(p, c)
      PROVE  AsMap' /\ Map!Next
  BY <1>1, MapStart
<1>2. ASSUME NEW p \in Procs, Call(p)
      PROVE  AsMap' /\ (Map!Next \/ UNCHANGED Map!vars)
  BY <1>2, MapOpen, MapFails, MapReads, MapWrites, MapScan, MapScanEnds, MapTruncate,
     MapOpenTmp, MapCopyRead, MapCopyWrite, MapCopyEnds, MapRename, MapReopen
     DEF Call, Compress
<1>3. ASSUME NEW p \in Procs, Exit(p) \/ Die(p)
      PROVE  AsMap' /\ Map!Next
  BY <1>3, MapEnds DEF Exit, Die
<1>4. CASE UNCHANGED vars
  <2>1. UNCHANGED <<dir, files, pc, cmd, fd, tfd, idx, buf, out>>
    BY <1>4 DEF vars
  <2>2. Records' = Records /\ (\A i : Record(i)' = Record(i)) /\ (\A i : Before(i)' = Before(i))
    BY <2>1, SameRecords
  <2>3. Clean'
    BY <2>1 DEF AsMap, Clean, At
  <2>4. ASSUME NEW p \in Procs
        PROVE  Dispatched(p)' /\ Checked(p)' /\ Counted(p)' /\ Copied(p)'
    BY <2>1, <2>2 DEF AsMap, Dispatched, Checked, Counted, Copied, At
  <2> QED
    BY <2>1, <2>2, <2>3, <2>4, Stutters DEF AsMap
<1> QED
  BY <1>1, <1>2, <1>3, <1>4 DEF Next

\* Processes that run one after the other, each of them killed between any two
\* calls or stopped by any call that fails, act on the map of records at one
\* instant or not at all, for every size of the database, all commands whose
\* offsets do not wrap around, and any files that earlier compressions left.
THEOREM Implements == Serial /\ Unwrapped => (Spec => MapSpec)
<1> SUFFICES ASSUME Serial, Unwrapped PROVE Spec => MapSpec
  OBVIOUS
<1>1. Init => Typed /\ AsMap /\ Map!Init
  BY TypeInit, MapInit
<1>2. Typed /\ AsMap /\ [Next]_vars => Typed' /\ AsMap' /\ [Map!Next]_(Map!vars)
  BY TypeStep, MapStep
<1> QED
  BY <1>1, <1>2, PTL DEF Spec, MapSpec, Map!Spec

\* What a step of the map says of the records.
LEMMA StepOfMap ==
  ASSUME Typed, [Map!Next]_(Map!vars)
  PROVE  /\ \A i \in Ids : Record(i) # 0 /\ Record(i)' = 0 =>
              \E p \in Procs : cmd[p].op = "zero" \/ (cmd[p].op = "del" /\ cmd[p].id = i)
         /\ \A p \in Procs, i \in Ids :
              out[p] = Unknown /\ out'[p].tag = "added" /\ out'[p].id = i =>
                Record(i)' = out'[p].val
<1>1. \A i \in Ids : Records[i] = Record(i) /\ Records'[i] = Record(i)'
  BY DEF Records
<1>2. Unknown.tag = "none"
  BY DEF Unknown
<1>3. CASE UNCHANGED <<Records, out>>
  BY <1>1, <1>2, <1>3
<1>4. ASSUME NEW p \in Procs, Map!Act(p)
      PROVE  /\ \A i \in Ids : Record(i) # 0 /\ Record(i)' = 0 =>
                  cmd[p].op = "zero" \/ (cmd[p].op = "del" /\ cmd[p].id = i)
             /\ \A q \in Procs, i \in Ids :
                  out[q] = Unknown /\ out'[q].tag = "added" /\ out'[q].id = i =>
                    Record(i)' = out'[q].val
  <2>1. PICK o \in {Map!Result(cmd[p], Records), Map!Failed(cmd[p])} :
          out' = [out EXCEPT ![p] = o] /\ Records' = Map!After(o, Records)
    BY <1>4 DEF Map!Act, Records
  <2>2. cmd[p] \in Commands
    BY <1>4, TypedParts DEF OneTyped, Map!Act, Map!Nothing, Nothing
  <2>3. cmd[p].op \in Ops
    BY <2>2, CommandFields
  <2>4. /\ o.tag = "deleted" => cmd[p].op = "del" /\ o.id = cmd[p].id
        /\ o.tag = "zeroed" => cmd[p].op = "zero"
        /\ o.tag = "added" => o.id \in Ids /\ o.val = cmd[p].val
        /\ o.tag = "added" => cmd[p].op = "add" /\ Records[o.id] = 0
    BY <2>1, <2>3 DEF Map!Result, Map!Failed, Map!Outcome, Map!Ids, Ids, Ops
  <2>5. /\ o.tag = "added" => Records' = [Records EXCEPT ![o.id] = o.val]
        /\ o.tag = "deleted" => Records' = [Records EXCEPT ![o.id] = 0]
        /\ o.tag \notin {"added", "deleted", "zeroed"} => Records' = Records
    BY <2>1 DEF Map!After
  <2>6. \A i \in Ids : Record(i) # 0 /\ Record(i)' = 0 =>
          cmd[p].op = "zero" \/ (cmd[p].op = "del" /\ cmd[p].id = i)
    BY <1>1, <2>4, <2>5 DEF Records
  <2>7. ASSUME NEW q \in Procs, NEW i \in Ids,
               out[q] = Unknown, out'[q].tag = "added", out'[q].id = i
        PROVE  Record(i)' = out'[q].val
    <3>1. q = p /\ out'[q] = o
      BY <1>2, <2>1, <2>7 DEF Typed, Located
    <3> QED
      BY <1>1, <2>4, <2>5, <2>7, <3>1 DEF Records
  <2> QED
    BY <2>6, <2>7
<1>5. ASSUME NEW p \in Procs, Map!End(p)
      PROVE  Records' = Records /\ \A q \in Procs : out[q] = Unknown => out'[q] = Unknown
  BY <1>5 DEF Map!End, Map!Unknown, Unknown, Records, Typed, Located
<1>6. ASSUME NEW p \in Procs, NEW c \in Commands, Map!Ask(p, c)
      PROVE  UNCHANGED <<Records, out>>
  BY <1>6 DEF Map!Ask, Records
<1>7. CASE UNCHANGED Map!vars
  BY <1>3, <1>7 DEF Map!vars, Records
<1> QED
  BY <1>1, <1>2, <1>3, <1>4, <1>5, <1>6, <1>7 DEF Map!Next

\* Under the same assumptions, a record goes only when its id is named or with
\* all the others (sdbsc.c:163-169) ...
THEOREM OnlyNamedAreDeleted == Serial /\ Unwrapped => (Spec => DeletedIsNamed)
<1> SUFFICES ASSUME Serial, Unwrapped PROVE Spec => DeletedIsNamed
  OBVIOUS
<1>1. Init => Typed /\ AsMap
  BY TypeInit, MapInit
<1>2. Typed /\ AsMap /\ [Next]_vars => Typed' /\ AsMap'
  BY TypeStep, MapStep
<1>3. Typed /\ AsMap /\ [Next]_vars =>
        [\A i \in Ids : Record(i) # 0 /\ Record(i)' = 0 =>
           \E p \in Procs : cmd[p].op = "zero" \/ (cmd[p].op = "del" /\ cmd[p].id = i)]_vars
  BY MapStep, StepOfMap
<1> QED
  BY <1>1, <1>2, <1>3, PTL DEF Spec, DeletedIsNamed

\* ... and a student whose addition is reported is there (sdbsc.c:156).
THEOREM ReportedIsAdded == Serial /\ Unwrapped => (Spec => AddedIsThere)
<1> SUFFICES ASSUME Serial, Unwrapped PROVE Spec => AddedIsThere
  OBVIOUS
<1>1. Init => Typed /\ AsMap
  BY TypeInit, MapInit
<1>2. Typed /\ AsMap /\ [Next]_vars => Typed' /\ AsMap'
  BY TypeStep, MapStep
<1>3. Typed /\ AsMap /\ [Next]_vars =>
        [\A p \in Procs, i \in Ids :
           out[p] = Unknown /\ out'[p].tag = "added" /\ out'[p].id = i =>
             Record(i)' = out'[p].val]_vars
  BY MapStep, StepOfMap
<1> QED
  BY <1>1, <1>2, <1>3, PTL DEF Spec, AddedIsThere
=============================================================================
