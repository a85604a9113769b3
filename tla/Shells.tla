------------------------------- MODULE Shells -------------------------------
(***************************************************************************)
(* The shells that run one line after the other, side by side: the loops   *)
(* over a command list (LocalShell) and the loop over a single command     *)
(* (ShellP2).  They share no state; "which" says who is used.              *)
(***************************************************************************)
EXTENDS LocalShell

CONSTANTS Lines2, MaxLines2  \* of ShellP2

\* A line is what words there are in it, and a word the characters of a string.
ASSUME ShellsAssumption ==
  /\ Lines2 \subseteq Seq(Seq(STRING))
  /\ MaxLines2 \in Nat

VARIABLES which, pc2, nline2, line2, argc2, argv2, rc2, cwd2, stale2

vars2 == <<pc2, nline2, line2, argc2, argv2, rc2, cwd2, stale2>>

P2 == INSTANCE ShellP2 WITH
        Lines <- Lines2, MaxLines <- MaxLines2,
        pc <- pc2, nline <- nline2, line <- line2, argc <- argc2, argv <- argv2,
        rc <- rc2, cwd <- cwd2, stale <- stale2

InitBoth ==
  /\ Init /\ P2!Init
  /\ \/ which = "list" /\ pc2 = "prompt"
     \/ which = "single" /\ shell = CHOOSE s \in Shells : TRUE

NextBoth ==
  \/ which = "list" /\ Next /\ UNCHANGED <<which, vars2>>
  \/ which = "single" /\ P2!Next /\ UNCHANGED <<which, vars>>

SpecBoth == InitBoth /\ [][NextBoth]_<<which, vars, vars2>>

\* A line of 4-ShellP2 does not depend on the earlier ones (EachLineAlone of
\* ShellP2).
SingleLineAlone == P2!EachLineAlone
=============================================================================
