----------------------------- MODULE MCStudentDb -----------------------------
(***************************************************************************)
(* Instances of StudentDb for TLC: which commands the shells run.          *)
(***************************************************************************)
EXTENDS StudentDb

CONSTANTS
  AskedIds, \* the ids that commands name
  AskedOps  \* the operations they ask for

Cmd(o, i, v) == [op |-> o, id |-> i, val |-> v]

\* The value of Commands: every operation with every argument it takes.
AskedCommands ==
  {Cmd("add", i, v) : i \in AskedIds, v \in Vals}
    \cup {Cmd(o, i, 0) : o \in {"del", "find"}, i \in AskedIds}
    \cup {Cmd(o, 0, 0) : o \in {"scan", "compress", "zero"}}

MCCommands == {c \in AskedCommands : c.op \in AskedOps}

\* Ids around the valid range, and one that shares the offset of id 1.
NearIds == {-1, 0, 1, 2, 3, 4}
ValidIds == {1, 2}
WrappedIds == {1, 2, 17}
=============================================================================
