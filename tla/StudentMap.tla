----------------------------- MODULE StudentMap -----------------------------
(***************************************************************************)
(* What the student database of 2-StudentDB promises the shells that run   *)
(* sdbsc: each command acts at one instant on a map from ids to records.   *)
(* A command that is killed may have acted or not, and tells nothing; one  *)
(* that reports a failure of the file has changed nothing.                 *)
(***************************************************************************)
EXTENDS Integers, FiniteSets

CONSTANTS
  Procs,    \* shells, each running one sdbsc command at a time
  MaxId,    \* MAX_STD_ID
  Vals,     \* contents of student records (0 is EMPTY_STUDENT_RECORD)
  Commands  \* the commands that may be run: records with op, id and val

Ids == 1..MaxId

VARIABLES
  recs,     \* the record of each id, 0 if there is none
  asked,    \* the command a shell runs
  out       \* the outcome of its command, once that has acted

vars == <<recs, asked, out>>

Nothing == [op |-> "none", id |-> 0, val |-> 0]
Unknown == [tag |-> "none", id |-> 0, val |-> 0]
Outcome(t, i, v) == [tag |-> t, id |-> i, val |-> v]

Failed(c) == Outcome("failed", c.id, 0)
Count(r) == Cardinality({i \in Ids : r[i] # 0})

\* The outcome of command c on the records r, when the file obeys.
Result(c, r) ==
  CASE c.op = "add" /\ c.id \notin Ids -> Outcome("badargs", c.id, 0)
    [] c.op = "add" /\ c.id \in Ids ->
         IF r[c.id] = 0 THEN Outcome("added", c.id, c.val) ELSE Outcome("dup", c.id, 0)
    [] c.op = "del" ->
         IF c.id \in Ids /\ r[c.id] # 0 THEN Outcome("deleted", c.id, 0)
         ELSE Outcome("missing", c.id, 0)
    [] c.op = "find" ->
         IF c.id \in Ids /\ r[c.id] # 0 THEN Outcome("found", c.id, r[c.id])
         ELSE Outcome("missing", c.id, 0)
    [] c.op = "scan" -> Outcome("count", c.id, Count(r))
    [] c.op = "compress" -> Outcome("compressed", c.id, 0)
    [] c.op = "zero" -> Outcome("zeroed", c.id, 0)

\* The records once the command has acted with outcome o.
After(o, r) ==
  CASE o.tag = "added" -> [r EXCEPT ![o.id] = o.val]
    [] o.tag = "deleted" -> [r EXCEPT ![o.id] = 0]
    [] o.tag = "zeroed" -> [i \in Ids |-> 0]
    [] OTHER -> r

Init ==
  /\ recs = [i \in Ids |-> 0]
  /\ asked = [p \in Procs |-> Nothing]
  /\ out = [p \in Procs |-> Unknown]

Ask(p, c) ==
  /\ asked[p] = Nothing
  /\ asked' = [asked EXCEPT ![p] = c]
  /\ UNCHANGED <<recs, out>>

Act(p) ==
  /\ asked[p] # Nothing /\ out[p] = Unknown
  /\ \E o \in {Result(asked[p], recs), Failed(asked[p])} :
       out' = [out EXCEPT ![p] = o] /\ recs' = After(o, recs)
  /\ UNCHANGED asked

\* The command ends and prints its outcome, or it is killed and prints nothing.
End(p) ==
  /\ asked[p] # Nothing
  /\ out' = [out EXCEPT ![p] = Unknown]
  /\ asked' = [asked EXCEPT ![p] = Nothing]
  /\ UNCHANGED recs

Next == \E p \in Procs : Act(p) \/ End(p) \/ \E c \in Commands : Ask(p, c)

Spec == Init /\ [][Next]_vars
=============================================================================
