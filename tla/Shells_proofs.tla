------------------------- MODULE Shells_proofs -------------------------
(***************************************************************************)
(* Theorems about the loops of the local shells and of the server          *)
(* (LocalShell) and about 4-ShellP2 beside them (SpecBoth), for any lines, *)
(* limits and failing allocations: memory is freed once and none is left,  *)
(* what runs is the line read last, a shell dies only of a line without a  *)
(* name, only cd moves, and in 4-ShellP2 no line meets an earlier one.     *)
(***************************************************************************)
EXTENDS Shells, CmdLine_proofs

\* The list is empty at the prompt, and what it counts while a line is run is
\* owned or null.
Counted ==
  /\ pc = "prompt" => num = 0
  /\ pc \in {"run", "clear"} =>
       /\ num \in 0..CmdMax
       /\ \A n \in 1..num : ~Bad(slots[n])

Inv == DOMAIN slots = 1..CmdMax /\ ~twice /\ Counted

LEMMA InitInv == Init => Inv
BY DEF Init, Inv, Counted

\* Only a command whose words were all copied is built without an error, and
\* what its pointers name it owns.
LEMMA OnlyFilled ==
  ASSUME NEW s, NEW ws, NEW out \in Outcomes(s, ws), out.rc = "OK"
  PROVE  out = Filled(ws, FALSE)
<1>1. NoBuffer(s).rc # "OK"
  BY DEF NoBuffer
<1>2. ASSUME NEW n PROVE Interrupted(ws, n).rc # "OK"
  <2> DEFINE f == Filled(SubSeq(ws, 1, n - 1), TRUE)
  <2>1. DOMAIN f = {"rc", "slot", "writes", "lost"}
    BY DEF Filled
  <2> QED
    BY <2>1 DEF Interrupted, Filled
<1> QED
  BY <1>1, <1>2 DEF Outcomes

LEMMA BuiltIsOwned ==
  ASSUME NEW s, NEW ws, NEW out \in Outcomes(s, ws), out.rc = "OK"
  PROVE  ~Bad(out.slot)
<1>1. out = Filled(ws, FALSE)
  BY OnlyFilled
<1>2. \A m \in Members : Filled(ws, FALSE).slot[m] \in {"owned", "null"}
  BY DEF Filled, Slot, OwnedIf, Members
<1> QED
  BY <1>1, <1>2 DEF Bad

LEMMA ReadStep ==
  ASSUME Inv, NEW l \in Lines, Read(l)
  PROVE  Inv'
<1>1. PICK last \in 0..Len(l.cmds) :
        \E outs \in [1..last -> UNION {Outcomes(slots[n], l.cmds[n]) : n \in 1..last}] :
          LET good == \A n \in 1..last : outs[n].rc = "OK" IN
          /\ \A n \in 1..last : outs[n] \in Outcomes(slots[n], l.cmds[n])
          /\ last < Len(l.cmds) => ~good
          /\ slots' = [n \in 1..CmdMax |-> IF n <= last THEN outs[n].slot ELSE slots[n]]
          /\ num' = IF good THEN Len(l.cmds) ELSE num
          /\ pc' = IF good THEN "run" ELSE "prompt"
  BY DEF Read
<1>2. PICK outs :
        LET good == \A n \in 1..last : outs[n].rc = "OK" IN
        /\ \A n \in 1..last : outs[n] \in Outcomes(slots[n], l.cmds[n])
        /\ last < Len(l.cmds) => ~good
        /\ slots' = [n \in 1..CmdMax |-> IF n <= last THEN outs[n].slot ELSE slots[n]]
        /\ num' = IF good THEN Len(l.cmds) ELSE num
        /\ pc' = IF good THEN "run" ELSE "prompt"
  BY <1>1
<1>3. twice' = twice /\ num = 0
  BY DEF Read, NextLine, Inv, Counted
<1>4. CmdMax \in Nat /\ Len(l.cmds) \in 0..CmdMax
  <2>1. CmdMax \in Nat
    BY BoundsAssumption
  <2>2. l.pipes \in Nat /\ Len(l.cmds) \in 0..(l.pipes + 1) /\ l.pipes < CmdMax
    BY ShellAssumption DEF Read, Takes
  <2> QED
    BY <2>1, <2>2
<1>5. CASE \A n \in 1..last : outs[n].rc = "OK"
  <2>1. last = Len(l.cmds) /\ num' = Len(l.cmds) /\ pc' = "run"
    BY <1>2, <1>4, <1>5
  <2>2. ASSUME NEW n \in 1..last PROVE ~Bad(slots'[n])
    <3>1. slots'[n] = outs[n].slot
      BY <1>2, <1>4, <2>1
    <3>2. outs[n] \in Outcomes(slots[n], l.cmds[n]) /\ outs[n].rc = "OK"
      BY <1>2, <1>5
    <3> QED
      BY <3>1, <3>2, BuiltIsOwned
  <2> QED
    BY <1>2, <1>3, <1>4, <2>1, <2>2 DEF Inv, Counted
<1>6. CASE ~\A n \in 1..last : outs[n].rc = "OK"
  BY <1>2, <1>3, <1>6 DEF Inv, Counted
<1> QED
  BY <1>5, <1>6

\* What free_cmd_list() does with the list as it is while a line is run, and
\* what it does with the empty list of its own making.
LEMMA Freeing ==
  ASSUME Inv, pc \in {"run", "clear"}
  PROVE  LET once == FreeList(List) again == FreeList(once) IN
         /\ once.num = 0 /\ ~once.twice /\ DOMAIN once.slots = 1..CmdMax
         /\ again.num = 0 /\ ~again.twice /\ DOMAIN again.slots = 1..CmdMax
<1> DEFINE once == FreeList(List)
<1>1. once.num = 0 /\ ~once.twice /\ DOMAIN once.slots = 1..CmdMax
  BY DEF FreeList, List, Inv, Counted
<1> HIDE DEF once
<1>2. FreeList(once).num = 0 /\ ~FreeList(once).twice /\ DOMAIN FreeList(once).slots = 1..CmdMax
  <2>1. 1..once.num = {}
    BY <1>1
  <2>2. DOMAIN FreeList(once).slots = DOMAIN once.slots /\ FreeList(once).num = 0
    BY DEF FreeList
  <2>3. FreeList(once).twice = (once.twice \/ \E n \in 1..once.num : Bad(once.slots[n]))
    BY DEF FreeList
  <2> QED
    BY <1>1, <2>1, <2>2, <2>3
<1> QED
  BY <1>1, <1>2 DEF once

LEMMA NextInv ==
  ASSUME Inv, [Next]_vars
  PROVE  Inv'
<1>1. ASSUME NEW l \in Lines, Refuse(l) PROVE Inv'
  BY <1>1 DEF Refuse, NextLine, Inv, Counted
<1>2. ASSUME NEW l \in Lines, Read(l) PROVE Inv'
  BY <1>2, ReadStep
<1>3. CASE EndOfInput
  BY <1>3 DEF EndOfInput, Inv, Counted
<1>4. CASE Crash
  BY <1>4 DEF Crash, Inv, Counted
<1>5. CASE RunExit
  BY <1>5, Freeing DEF RunExit, BecomesList, Inv, Counted
<1>6. CASE RunExitAtServer
  BY <1>6, Freeing DEF RunExitAtServer, BecomesList, Inv, Counted
<1>7. CASE RunCd
  BY <1>7 DEF RunCd, Inv, Counted
<1>8. CASE RunOther
  BY <1>8 DEF RunOther, Inv, Counted
<1>9. CASE RunPipeline
  BY <1>9 DEF RunPipeline, Inv, Counted
<1>10. CASE Clear
  BY <1>10, Freeing DEF Clear, BecomesList, Inv, Counted
<1>11. CASE UNCHANGED vars
  BY <1>11 DEF vars, Inv, Counted
<1> QED
  BY <1>1, <1>2, <1>3, <1>4, <1>5, <1>6, <1>7, <1>8, <1>9, <1>10, <1>11 DEF Next

\* No pointer is freed that is not owned: not those that a freed command leaves in
\* the list, not by the two calls after exit at the server, and not after a line
\* that failed half-way, whose mixture of pointers is never counted.
THEOREM NothingFreedTwice == Spec => []FreedOnce
<1>1. Inv => FreedOnce
  BY DEF Inv, FreedOnce
<1>2. Inv /\ [Next]_vars => Inv'
  BY NextInv
<1> QED
  BY InitInv, <1>1, <1>2, PTL DEF Spec

-----------------------------------------------------------------------------
(* Nothing is left behind.  An excuse, once given, stays; until then every *)
(* line was built without an error, so that a pointer owns memory only in  *)
(* what num counts, and only while the line is run.                        *)

\* A slot has the members of a cmd_buff_t, and a slot at rest owns nothing.
Shaped(s) == DOMAIN s = {"args"} \cup Members
AtRest(s) == Shaped(s) /\ \A m \in Members : s[m] # "owned"

Tidy ==
  ~excuse =>
    /\ ~lost
    /\ \A n \in 1..CmdMax : Shaped(slots[n])
    /\ pc \in {"prompt", "done"} => \A n \in 1..CmdMax : AtRest(slots[n])
    /\ pc \in {"run", "clear"} => \A n \in 1..CmdMax : n > num => AtRest(slots[n])

LEMMA InitTidy == Init => Tidy
<1> SUFFICES ASSUME Init PROVE Tidy
  OBVIOUS
<1>1. AtRest(Slot(<<>>, "junk", "junk", "junk", "junk"))
  BY DEF AtRest, Shaped, Slot, Members
<1> QED
  BY <1>1 DEF Init, Tidy, AtRest

LEMMA ReadTidy ==
  ASSUME Inv, Tidy, NEW l \in Lines, Read(l)
  PROVE  Tidy'
<1> SUFFICES ASSUME ~excuse' PROVE Tidy'
  BY DEF Tidy
<1>1. PICK last \in 0..Len(l.cmds) :
        \E outs \in [1..last -> UNION {Outcomes(slots[n], l.cmds[n]) : n \in 1..last}] :
          LET good == \A n \in 1..last : outs[n].rc = "OK" IN
          /\ \A n \in 1..last : outs[n] \in Outcomes(slots[n], l.cmds[n])
          /\ last < Len(l.cmds) => ~good
          /\ slots' = [n \in 1..CmdMax |-> IF n <= last THEN outs[n].slot ELSE slots[n]]
          /\ lost' = (lost \/ \E n \in 1..last : \/ outs[n].lost
                                                 \/ \E m \in outs[n].writes : slots[n][m] = "owned")
          /\ excuse' = (excuse \/ ~good \/ \E n \in 1..last : Leaves(l.cmds[n]))
          /\ num' = IF good THEN Len(l.cmds) ELSE num
          /\ pc' = IF good THEN "run" ELSE "prompt"
  BY DEF Read
<1>2. PICK outs :
        LET good == \A n \in 1..last : outs[n].rc = "OK" IN
        /\ \A n \in 1..last : outs[n] \in Outcomes(slots[n], l.cmds[n])
        /\ last < Len(l.cmds) => ~good
        /\ slots' = [n \in 1..CmdMax |-> IF n <= last THEN outs[n].slot ELSE slots[n]]
        /\ lost' = (lost \/ \E n \in 1..last : \/ outs[n].lost
                                               \/ \E m \in outs[n].writes : slots[n][m] = "owned")
        /\ excuse' = (excuse \/ ~good \/ \E n \in 1..last : Leaves(l.cmds[n]))
        /\ num' = IF good THEN Len(l.cmds) ELSE num
        /\ pc' = IF good THEN "run" ELSE "prompt"
  BY <1>1
<1>3. CmdMax \in Nat /\ Len(l.cmds) \in 0..CmdMax
  <2>1. CmdMax \in Nat
    BY BoundsAssumption
  <2>2. l.pipes \in Nat /\ Len(l.cmds) \in 0..(l.pipes + 1) /\ l.pipes < CmdMax
    BY ShellAssumption DEF Read, Takes
  <2> QED
    BY <2>1, <2>2
<1>4. ~excuse /\ \A n \in 1..last : outs[n].rc = "OK" /\ ~Leaves(l.cmds[n])
  BY <1>2
<1>5. last = Len(l.cmds) /\ num' = last /\ pc' = "run"
  BY <1>2, <1>3, <1>4
<1>6. ~lost /\ \A n \in 1..CmdMax : AtRest(slots[n])
  BY <1>4 DEF Tidy, Read, NextLine
<1>7. ASSUME NEW n \in 1..last
      PROVE  Shaped(outs[n].slot) /\ ~outs[n].lost /\ outs[n].writes = Members
  <2>1. outs[n] = Filled(l.cmds[n], FALSE)
    BY <1>2, <1>4, OnlyFilled
  <2>2. ~Filled(l.cmds[n], FALSE).lost
    BY <1>4 DEF Leaves
  <2>3. Shaped(Filled(l.cmds[n], FALSE).slot) /\ Filled(l.cmds[n], FALSE).writes = Members
    BY DEF Filled, Shaped, Slot, Members
  <2> QED
    BY <2>1, <2>2, <2>3
<1>8. ~lost'
  <2>1. lost' <=> \/ lost
                  \/ \E n \in 1..last : \/ outs[n].lost
                                        \/ \E m \in outs[n].writes : slots[n][m] = "owned"
    BY <1>2, Zenon
  <2>2. ASSUME NEW n \in 1..last, NEW m \in outs[n].writes PROVE slots[n][m] # "owned"
    <3>1. n \in 1..CmdMax
      BY <1>3, <1>5
    <3> QED
      BY <1>6, <1>7, <3>1 DEF AtRest
  <2> QED
    BY <1>6, <1>7, <2>1, <2>2, Zenon
<1>9. ASSUME NEW n \in 1..CmdMax
      PROVE  Shaped(slots'[n]) /\ (n > num' => AtRest(slots'[n]))
  <2>1. slots'[n] = IF n <= last THEN outs[n].slot ELSE slots[n]
    BY <1>2
  <2>2. CASE n <= last
    <3>1. n \in 1..last
      BY <1>3, <1>5, <2>2
    <3> QED
      BY <1>3, <1>5, <1>7, <2>1, <2>2, <3>1
  <2>3. CASE ~(n <= last)
    BY <1>6, <2>1, <2>3 DEF AtRest
  <2> QED
    BY <2>2, <2>3
<1> QED
  BY <1>5, <1>8, <1>9 DEF Tidy

\* Freeing what num counts leaves every slot at rest.
LEMMA FreeingTidies ==
  ASSUME Inv, pc \in {"run", "clear"}, ~excuse, Tidy
  PROVE  LET once == FreeList(List) again == FreeList(once) IN
         \A n \in 1..CmdMax : AtRest(once.slots[n]) /\ AtRest(again.slots[n])
<1> DEFINE once == FreeList(List)
<1>1. ASSUME NEW s, Shaped(s) PROVE AtRest(Freed(s))
  BY <1>1 DEF AtRest, Shaped, Freed, Members
<1>2. ASSUME NEW n \in 1..CmdMax PROVE AtRest(once.slots[n])
  <2>1. Shaped(slots[n]) /\ (n > num => AtRest(slots[n]))
    BY DEF Tidy
  <2>2. once.slots[n] = IF n <= num THEN Freed(slots[n]) ELSE slots[n]
    BY DEF FreeList, List, Inv
  <2>3. num \in Nat /\ n \in Nat
    BY BoundsAssumption DEF Inv, Counted
  <2> QED
    BY <1>1, <2>1, <2>2, <2>3
<1>3. once.num = 0 /\ DOMAIN once.slots = 1..CmdMax
  BY Freeing
<1> HIDE DEF once
<1>4. ASSUME NEW n \in 1..CmdMax PROVE AtRest(FreeList(once).slots[n])
  <2>1. FreeList(once).slots[n] = IF n <= once.num THEN Freed(once.slots[n]) ELSE once.slots[n]
    BY <1>3 DEF FreeList
  <2>2. ~(n <= 0)
    OBVIOUS
  <2> QED
    BY <1>2, <1>3, <2>1, <2>2
<1> QED
  BY <1>2, <1>4 DEF once

LEMMA NextTidy ==
  ASSUME Inv, Tidy, [Next]_vars
  PROVE  Tidy'
<1>1. ASSUME NEW l \in Lines, Refuse(l) PROVE Tidy'
  BY <1>1 DEF Refuse, NextLine, Tidy
<1>2. ASSUME NEW l \in Lines, Read(l) PROVE Tidy'
  BY <1>2, ReadTidy
<1>3. CASE EndOfInput
  BY <1>3 DEF EndOfInput, Tidy
<1>4. CASE Crash
  BY <1>4 DEF Crash, Tidy
<1>5. CASE RunExit
  BY <1>5, FreeingTidies DEF RunExit, BecomesList, Tidy, AtRest
<1>6. CASE RunExitAtServer
  BY <1>6, FreeingTidies DEF RunExitAtServer, BecomesList, Tidy, AtRest
<1>7. CASE RunCd
  BY <1>7 DEF RunCd, Tidy
<1>8. CASE RunOther
  BY <1>8 DEF RunOther, Tidy
<1>9. CASE RunPipeline
  BY <1>9 DEF RunPipeline, Tidy
<1>10. CASE Clear
  BY <1>10, FreeingTidies DEF Clear, BecomesList, Tidy, AtRest
<1>11. CASE UNCHANGED vars
  BY <1>11 DEF vars, Tidy
<1> QED
  BY <1>1, <1>2, <1>3, <1>4, <1>5, <1>6, <1>7, <1>8, <1>9, <1>10, <1>11 DEF Next

\* No memory stays allocated from one line to the next, and none is lost, before
\* a line is refused half-way, fills argv, or names two files of one kind: for
\* any lines and limits, and also if allocations may fail.
THEOREM LeavesNothing == Spec => []NothingLeft
<1>1. Inv /\ Tidy => NothingLeft
  BY DEF Tidy, AtRest, NothingLeft
<1>2. Init => Inv /\ Tidy
  BY InitInv, InitTidy
<1>3. Inv /\ Tidy /\ [Next]_vars => (Inv /\ Tidy)'
  BY NextInv, NextTidy
<1> QED
  BY <1>1, <1>2, <1>3, PTL DEF Spec

-----------------------------------------------------------------------------
(* What runs is the line that was read.  A line is as long as the user       *)
(* likes: that its commands are made of its words is shown word by word.     *)

TakeWord(b, w) == IF shell = "P3" THEN WordP3(b, w) ELSE WordP4(b, w)

LEMMA TakeWordType ==
  ASSUME NEW W, NEW b \in Buffs(W), NEW w \in W
  PROVE  TakeWord(b, w) \in Buffs(W)
BY WordType DEF TakeWord

\* build_cmd_buff() takes one word after the other.
LEMMA BuildSteps ==
  ASSUME NEW W, NoFile \in W, NEW ws \in Seq(W)
  PROVE  \E b \in [0..Len(ws) -> Buffs(W)] :
           /\ b[0] = EmptyBuff
           /\ b[Len(ws)] = Build(ws)
           /\ \A k \in 1..Len(ws) : b[k] = TakeWord(b[k - 1], ws[k])
<1>1. Len(ws) \in Nat /\ DOMAIN ws = 1..Len(ws) /\ \A i \in 1..Len(ws) : ws[i] \in W
  OBVIOUS
<1>2. PICK step : step = [p \in Buffs(W) \X (1..Len(ws)) |-> TakeWord(p[1], ws[p[2]])]
  OBVIOUS
<1>3. /\ step \in [Buffs(W) \X (1..Len(ws)) -> Buffs(W)]
      /\ \A c \in Buffs(W), i \in 1..Len(ws) : step[<<c, i>>] = TakeWord(c, ws[i])
  BY <1>1, <1>2, TakeWordType
<1>4. PICK n \in Nat : n = Len(ws)
  BY <1>1
<1>5. PICK base \in Buffs(W) : base = EmptyBuff
  BY EmptyBuffType
<1>6. step \in [Buffs(W) \X (1..n) -> Buffs(W)]
  BY <1>3, <1>4
<1>7. PICK g : Folds(g, n, Buffs(W), base, step)
  BY <1>6, FoldExists
<1>8. g = [s \in SUBSET (1..n) |->
             IF s = {} THEN EmptyBuff ELSE TakeWord(g[s \ {Max(s)}], ws[Max(s)])]
  <2>1. ASSUME NEW s \in SUBSET (1..n), s # {}
        PROVE  g[s] = TakeWord(g[s \ {Max(s)}], ws[Max(s)])
    <3>1. Max(s) \in s
      BY <2>1, MaxFacts
    <3>2. g[s \ {Max(s)}] \in Buffs(W) /\ Max(s) \in 1..Len(ws)
      BY <1>4, <1>7, <3>1 DEF Folds
    <3> QED
      BY <1>3, <1>7, <2>1, <3>2 DEF Folds
  <2> QED
    BY <1>5, <1>7, <2>1 DEF Folds
<1>9. PICK it :
        /\ it = [s \in SUBSET (1..n) |->
                   IF s = {} THEN EmptyBuff ELSE TakeWord(it[s \ {Max(s)}], ws[Max(s)])]
        /\ Build(ws) = it[1..n]
  BY <1>1, <1>4, <1>8 DEF Build, FoldLeft, MapThenFoldSet, TakeWord
<1>10. StepsIn(it, n, Buffs(W), base, step)
  <2>1. it[{}] = base
    BY <1>5, <1>9
  <2>2. ASSUME NEW s \in SUBSET (1..n), s # {}, it[s \ {Max(s)}] \in Buffs(W)
        PROVE  it[s] = step[<<it[s \ {Max(s)}], Max(s)>>]
    <3>1. Max(s) \in s
      BY <2>2, MaxFacts
    <3> QED
      BY <1>3, <1>4, <1>9, <2>2, <3>1
  <2> QED
    BY <2>1, <2>2 DEF StepsIn
<1>11. PICK b : Walks(b, n, Buffs(W), base, step, it)
  BY <1>6, <1>10, FoldPrefixes
<1>12. ASSUME NEW k \in 1..n PROVE b[k] = TakeWord(b[k - 1], ws[k])
  <2>1. b[k - 1] \in Buffs(W) /\ b[k] = step[<<b[k - 1], k>>]
    BY <1>11 DEF Walks
  <2> QED
    BY <1>3, <1>4, <2>1
<1> QED
  BY <1>4, <1>5, <1>9, <1>11, <1>12 DEF Walks

\* One word: argv stays as it is, or the word joins it.
LEMMA TakeWordArgv ==
  ASSUME NEW W, NEW c \in Buffs(W), NEW w \in W
  PROVE  LET d == TakeWord(c, w) IN
         \/ /\ d.argv = c.argv
            /\ d.rc = "OK" =>
                 /\ c.rc = "OK"
                 /\ \/ c.argv # <<>> \/ c.flag # "none"
                    \/ shell = "P3" /\ (c.done \/ Operator(w) # "none")
                 /\ shell = "P3" => c.argv # <<>> \/ d.done \/ d.flag # "none"
         \/ /\ d.argv = Append(c.argv, w)
            /\ c.rc = "OK" /\ c.flag = "none" /\ ~(shell = "P3" /\ c.done)
            /\ Operator(w) = "none"
<1> DEFINE d == TakeWord(c, w)
           can == CanInsert(c.argv, Len(w))
           stays == /\ d.argv = c.argv
                    /\ d.rc = "OK" =>
                         /\ c.rc = "OK"
                         /\ \/ c.argv # <<>> \/ c.flag # "none"
                            \/ shell = "P3" /\ (c.done \/ Operator(w) # "none")
                         /\ shell = "P3" => c.argv # <<>> \/ d.done \/ d.flag # "none"
           grows == /\ d.argv = Append(c.argv, w)
                    /\ c.rc = "OK" /\ c.flag = "none" /\ ~(shell = "P3" /\ c.done)
                    /\ Operator(w) = "none"
<1> SUFFICES stays \/ grows
  OBVIOUS
<1>1. ASSUME d = Insert(c, w, can)
      PROVE  (d.argv = c.argv /\ d.rc # "OK") \/ d.argv = Append(c.argv, w)
  BY <1>1 DEF Insert, Buffs
<1>2. CASE shell = "P3"
  <2>1. CASE c.rc # "OK" \/ c.done
    BY <1>2, <2>1 DEF TakeWord, WordP3
  <2>2. CASE ~(c.rc # "OK" \/ c.done) /\ c.flag # "none"
    BY <1>2, <2>2 DEF TakeWord, WordP3, SetFile, Buffs
  <2>3. CASE ~(c.rc # "OK" \/ c.done) /\ c.flag = "none" /\ Operator(w) # "none"
    BY <1>2, <2>3 DEF TakeWord, WordP3, Buffs
  <2>4. CASE ~(c.rc # "OK" \/ c.done) /\ c.flag = "none" /\ Operator(w) = "none"
    <3>1. (d.argv = c.argv /\ d.rc # "OK") \/ d.argv = Append(c.argv, w)
      BY <1>1, <1>2, <2>4 DEF TakeWord, WordP3
    <3> QED
      BY <1>2, <2>4, <3>1
  <2> QED
    BY <2>1, <2>2, <2>3, <2>4
<1>3. CASE shell # "P3"
  <2>1. CASE c.rc # "OK"
    BY <1>3, <2>1 DEF TakeWord, WordP4
  <2>2. CASE c.rc = "OK" /\ c.flag # "none"
    BY <1>3, <2>2 DEF TakeWord, WordP4, SetFile, Buffs
  <2>3. CASE c.rc = "OK" /\ c.flag = "none" /\ Operator(w) # "none"
    BY <1>3, <2>3 DEF TakeWord, WordP4, Buffs
  <2>4. CASE c.rc = "OK" /\ c.flag = "none" /\ Operator(w) = "none"
    <3>1. (d.argv = c.argv /\ d.rc # "OK") \/ d.argv = Append(c.argv, w)
      BY <1>1, <1>3, <2>4 DEF TakeWord, WordP4
    <3> QED
      BY <1>3, <2>4, <3>1
  <2> QED
    BY <2>1, <2>2, <2>3, <2>4
<1> QED
  BY <1>2, <1>3

\* The name is the first word, an argument a later one, and a command without a
\* name is one of 5-ShellP3 that begins with a redirection.
Taken(c, ws, k) ==
  /\ c.argv # <<>> => k > 0 /\ c.argv[1] = ws[1]
  /\ \A j \in 2..Len(c.argv) : \E i \in 2..k : ws[i] = c.argv[j]
  /\ k = 0 => c.argv = <<>> /\ c.flag = "none" /\ ~c.done
  /\ k > 0 /\ c.rc = "OK" /\ c.argv = <<>> =>
       /\ shell = "P3" /\ Operator(ws[1]) # "none"
       /\ c.done \/ c.flag # "none"

LEMMA TakenStep ==
  ASSUME NEW W, NEW ws \in Seq(W), NEW k \in 1..Len(ws), NEW c \in Buffs(W), Taken(c, ws, k - 1)
  PROVE  Taken(TakeWord(c, ws[k]), ws, k)
<1>1. ws[k] \in W /\ k \in Nat /\ k > 0
  OBVIOUS
<1>2. PICK d \in Buffs(W) : d = TakeWord(c, ws[k])
  BY <1>1, TakeWordType
<1>3. c.argv \in Seq(W)
  BY DEF Buffs
<1>4. \/ /\ d.argv = c.argv
         /\ d.rc = "OK" =>
              /\ c.rc = "OK"
              /\ \/ c.argv # <<>> \/ c.flag # "none"
                 \/ shell = "P3" /\ (c.done \/ Operator(ws[k]) # "none")
              /\ shell = "P3" => c.argv # <<>> \/ d.done \/ d.flag # "none"
      \/ /\ d.argv = Append(c.argv, ws[k])
         /\ c.rc = "OK" /\ c.flag = "none" /\ ~(shell = "P3" /\ c.done)
         /\ Operator(ws[k]) = "none"
  BY <1>1, <1>2, TakeWordArgv
<1>5. CASE d.argv = c.argv
  <2>1. d.argv # <<>> => d.argv[1] = ws[1]
    BY <1>5 DEF Taken
  <2>2. ASSUME NEW j \in 2..Len(d.argv) PROVE \E i \in 2..k : ws[i] = d.argv[j]
    BY <1>1, <1>5 DEF Taken
  <2>3. ASSUME d.rc = "OK", d.argv = <<>>
        PROVE  shell = "P3" /\ Operator(ws[1]) # "none" /\ (d.done \/ d.flag # "none")
    <3>1. c.rc = "OK" /\ c.argv = <<>>
      BY <1>3, <1>4, <1>5, <2>3
    <3> QED
      BY <1>1, <1>3, <1>4, <1>5, <2>3, <3>1 DEF Taken
  <2> QED
    BY <1>1, <1>2, <2>1, <2>2, <2>3 DEF Taken
<1>6. CASE d.argv # c.argv
  <2>1. /\ d.argv = Append(c.argv, ws[k])
        /\ c.rc = "OK" /\ c.flag = "none" /\ ~(shell = "P3" /\ c.done)
    BY <1>4, <1>6
  <2>2. /\ Len(d.argv) = Len(c.argv) + 1 /\ d.argv[Len(c.argv) + 1] = ws[k]
        /\ \A j \in 1..Len(c.argv) : d.argv[j] = c.argv[j]
        /\ Len(c.argv) \in Nat /\ d.argv # <<>>
    <3>1. PICK s \in Seq(W) : s = c.argv
      BY <1>3
    <3>2. PICK t : t = d.argv
      OBVIOUS
    <3>3. t = Append(s, ws[k])
      BY <2>1, <3>1, <3>2
    <3>4. /\ Len(t) = Len(s) + 1 /\ t[Len(s) + 1] = ws[k]
          /\ \A j \in 1..Len(s) : t[j] = s[j]
          /\ Len(s) \in Nat /\ t # <<>>
      BY <1>1, <3>3
    <3> QED
      BY <3>1, <3>2, <3>4
  <2>3. CASE c.argv = <<>>
    <3>1. k = 1
      BY <1>1, <2>1, <2>3 DEF Taken
    <3> QED
      BY <1>1, <1>2, <2>2, <2>3, <3>1 DEF Taken
  <2>4. CASE c.argv # <<>>
    <3>1. k > 1 /\ d.argv[1] = ws[1] /\ Len(c.argv) >= 1
      BY <1>1, <1>3, <2>2, <2>4 DEF Taken
    <3>2. ASSUME NEW j \in 2..Len(d.argv) PROVE \E i \in 2..k : ws[i] = d.argv[j]
      <4>1. CASE j = Len(c.argv) + 1
        BY <1>1, <2>2, <3>1, <4>1
      <4>2. CASE j # Len(c.argv) + 1
        <5>1. j \in 2..Len(c.argv) /\ d.argv[j] = c.argv[j]
          BY <2>2, <4>2
        <5>2. PICK i \in 2..(k - 1) : ws[i] = c.argv[j]
          BY <5>1 DEF Taken
        <5> QED
          BY <1>1, <5>1, <5>2
      <4> QED
        BY <4>1, <4>2
    <3> QED
      BY <1>1, <1>2, <2>2, <3>1, <3>2 DEF Taken
  <2> QED
    BY <2>3, <2>4
<1> QED
  BY <1>5, <1>6

LEMMA BuildTakes ==
  ASSUME NEW W, NoFile \in W, NEW ws \in Seq(W)
  PROVE  Build(ws) \in Buffs(W) /\ Taken(Build(ws), ws, Len(ws))
<1>1. PICK b \in [0..Len(ws) -> Buffs(W)] :
        /\ b[0] = EmptyBuff
        /\ b[Len(ws)] = Build(ws)
        /\ \A k \in 1..Len(ws) : b[k] = TakeWord(b[k - 1], ws[k])
  BY BuildSteps
<1>2. Len(ws) \in Nat
  OBVIOUS
<1>3. Taken(b[0], ws, 0)
  BY <1>1 DEF Taken, EmptyBuff
<1>4. ASSUME NEW k \in 1..Len(ws), Taken(b[k - 1], ws, k - 1) PROVE Taken(b[k], ws, k)
  <2>1. b[k - 1] \in Buffs(W) /\ b[k] = TakeWord(b[k - 1], ws[k])
    BY <1>1, <1>2
  <2> QED
    BY <1>4, <2>1, TakenStep
<1>5. PICK P : P = {k \in 0..Len(ws) : Taken(b[k], ws, k)}
  OBVIOUS
<1>6. \A k \in 0..Len(ws) : k \in P
  <2>1. PICK n \in Nat : n = Len(ws)
    BY <1>2
  <2>2. 0 \in P
    BY <1>2, <1>3, <1>5
  <2>3. \A k \in 1..n : k - 1 \in P => k \in P
    <3>1. ASSUME NEW k \in 1..n, k - 1 \in P PROVE k \in P
      <4>1. k \in 1..Len(ws) /\ k \in 0..Len(ws) /\ Taken(b[k - 1], ws, k - 1)
        BY <1>5, <2>1, <3>1
      <4> QED
        BY <1>4, <1>5, <4>1
    <3> QED
      BY <3>1
  <2>4. \A k \in 0..n : k \in P
    BY <2>2, <2>3, UpTo
  <2> QED
    BY <2>1, <2>4
<1>7. Taken(b[Len(ws)], ws, Len(ws)) /\ b[Len(ws)] \in Buffs(W)
  BY <1>1, <1>2, <1>5, <1>6
<1> QED
  BY <1>1, <1>7

\* A slot holds the words of a command and nothing else.
IsCommand(slot, ws) ==
  /\ slot.args \in Seq(Seq(STRING) \cup {NoFile})
  /\ slot.strings # "dangling"
  /\ \A k \in DOMAIN slot.args : \E i \in DOMAIN ws : (k = 1 <=> i = 1) /\ ws[i] = slot.args[k]
  /\ slot.args = <<>> => shell = "P3" /\ Operator(ws[1]) # "none"

LEMMA FilledIsCommand ==
  ASSUME NEW ws \in Seq(Seq(STRING)) \ {<<>>}, Filled(ws, FALSE).rc = "OK"
  PROVE  IsCommand(Filled(ws, FALSE).slot, ws)
<1>1. PICK W : W = Seq(STRING) \cup {NoFile}
  OBVIOUS
<1>2. NoFile \in W /\ ws \in Seq(W) /\ Len(ws) \in Nat /\ Len(ws) > 0 /\ DOMAIN ws = 1..Len(ws)
  BY <1>1
<1>3. PICK b : b = Build(ws)
  OBVIOUS
<1>4. b \in Buffs(W) /\ Taken(b, ws, Len(ws))
  BY <1>2, <1>3, BuildTakes
<1>5. b.argv \in Seq(W)
  BY <1>4 DEF Buffs
<1>6. PICK out : out = Filled(ws, FALSE)
  OBVIOUS
<1>7. out.rc = b.rc /\ out.slot.args = b.argv /\ out.slot.strings \in {"owned", "null"}
  BY <1>3, <1>6 DEF Filled, Slot, OwnedIf
<1>8. ASSUME NEW k \in DOMAIN b.argv
      PROVE  \E i \in DOMAIN ws : (k = 1 <=> i = 1) /\ ws[i] = b.argv[k]
  <2>1. k \in 1..Len(b.argv) /\ b.argv # <<>>
    BY <1>5
  <2>2. CASE k = 1
    BY <1>2, <1>4, <2>1, <2>2 DEF Taken
  <2>3. CASE k # 1
    <3>1. k \in 2..Len(b.argv)
      BY <1>5, <2>1, <2>3
    <3>2. PICK i \in 2..Len(ws) : ws[i] = b.argv[k]
      BY <1>4, <3>1 DEF Taken
    <3> QED
      BY <1>2, <2>3, <3>2
  <2> QED
    BY <2>2, <2>3
<1>9. b.argv = <<>> => shell = "P3" /\ Operator(ws[1]) # "none"
  BY <1>2, <1>4, <1>6, <1>7 DEF Taken
<1> QED
  BY <1>1, <1>5, <1>6, <1>7, <1>8, <1>9 DEF IsCommand

TheLine ==
  pc \in {"run", "crashed"} =>
    /\ line \in Lines /\ line.pipes < CmdMax
    /\ num = Len(line.cmds)
    /\ \A n \in 1..num : IsCommand(slots[n], line.cmds[n])
    /\ pc = "crashed" => num = 0 \/ slots[1].args = <<>>

LEMMA ReadTheLine ==
  ASSUME NEW l \in Lines, Read(l)
  PROVE  TheLine'
<1> SUFFICES ASSUME pc' \in {"run", "crashed"} PROVE TheLine'
  BY DEF TheLine
<1>1. PICK last \in 0..Len(l.cmds) :
        \E outs \in [1..last -> UNION {Outcomes(slots[n], l.cmds[n]) : n \in 1..last}] :
          LET good == \A n \in 1..last : outs[n].rc = "OK" IN
          /\ \A n \in 1..last : outs[n] \in Outcomes(slots[n], l.cmds[n])
          /\ last < Len(l.cmds) => ~good
          /\ slots' = [n \in 1..CmdMax |-> IF n <= last THEN outs[n].slot ELSE slots[n]]
          /\ num' = IF good THEN Len(l.cmds) ELSE num
          /\ pc' = IF good THEN "run" ELSE "prompt"
  BY DEF Read
<1>2. PICK outs :
        LET good == \A n \in 1..last : outs[n].rc = "OK" IN
        /\ \A n \in 1..last : outs[n] \in Outcomes(slots[n], l.cmds[n])
        /\ last < Len(l.cmds) => ~good
        /\ slots' = [n \in 1..CmdMax |-> IF n <= last THEN outs[n].slot ELSE slots[n]]
        /\ num' = IF good THEN Len(l.cmds) ELSE num
        /\ pc' = IF good THEN "run" ELSE "prompt"
  BY <1>1
<1>3. line' = l /\ shell' = shell /\ l.pipes < CmdMax
  BY DEF Read, NextLine, Takes
<1>4. /\ CmdMax \in Nat /\ Len(l.cmds) \in 0..CmdMax
      /\ l.cmds \in Seq(Seq(Seq(STRING)) \ {<<>>})
  <2>1. CmdMax \in Nat
    BY BoundsAssumption
  <2>2. /\ l.pipes \in Nat /\ Len(l.cmds) \in 0..(l.pipes + 1)
        /\ l.cmds \in Seq(Seq(Seq(STRING)) \ {<<>>})
    BY ShellAssumption
  <2> QED
    BY <1>3, <2>1, <2>2
<1>5. \A n \in 1..last : outs[n].rc = "OK"
  BY <1>2
<1>6. last = Len(l.cmds) /\ num' = last /\ pc' = "run"
  BY <1>2, <1>4, <1>5
<1>7. ASSUME NEW n \in 1..last
      PROVE  IsCommand(slots[n], l.cmds[n])'
  <2>1. PICK ws : ws = l.cmds[n]
    OBVIOUS
  <2>2. ws \in Seq(Seq(STRING)) \ {<<>>}
    BY <1>4, <1>6, <2>1
  <2>3. outs[n] = Filled(ws, FALSE) /\ outs[n].rc = "OK"
    BY <1>2, <1>5, <2>1, OnlyFilled
  <2>4. IsCommand(outs[n].slot, ws)
    BY <2>2, <2>3, FilledIsCommand
  <2>5. slots'[n] = outs[n].slot
    BY <1>2, <1>4, <1>6
  <2> QED
    BY <1>3, <2>1, <2>4, <2>5 DEF IsCommand
<1> QED
  BY <1>3, <1>6, <1>7 DEF TheLine

LEMMA NextTheLine ==
  ASSUME TheLine, [Next]_vars
  PROVE  TheLine'
<1>1. ASSUME NEW l \in Lines, Refuse(l) PROVE TheLine'
  BY <1>1 DEF Refuse, NextLine, TheLine
<1>2. ASSUME NEW l \in Lines, Read(l) PROVE TheLine'
  BY <1>2, ReadTheLine
<1>3. CASE Crash
  BY <1>3 DEF Crash, TheLine, IsCommand
<1>4. CASE EndOfInput \/ RunExit \/ RunExitAtServer \/ RunCd \/ RunOther \/ RunPipeline \/ Clear
  <2>1. pc' \notin {"run", "crashed"}
    BY <1>4 DEF EndOfInput, RunExit, RunExitAtServer, RunCd, RunOther, RunPipeline, Clear
  <2> QED
    BY <2>1 DEF TheLine
<1>5. CASE UNCHANGED vars
  BY <1>5 DEF vars, TheLine, IsCommand
<1> QED
  BY <1>1, <1>2, <1>3, <1>4, <1>5 DEF Next

\* The lines' shape, where it is needed.
LEMMA LineShape ==
  ASSUME TheLine, pc \in {"run", "crashed"}
  PROVE  /\ num \in Nat /\ num = Len(line.cmds)
         /\ num = 0 <=> line.cmds = <<>>
         /\ \A n \in 1..num : line.cmds[n] \in Seq(Seq(STRING)) \ {<<>>}
<1>1. line.cmds \in Seq(Seq(Seq(STRING)) \ {<<>>}) /\ num = Len(line.cmds)
  BY ShellAssumption DEF TheLine
<1> QED
  BY <1>1

\* What runs is the line that was read last, every word of it: nothing that an
\* earlier line left in the list, be the lines as they will.
THEOREM LastLineRuns == Spec => []RunsTheLine
<1>1. TheLine => RunsTheLine
  BY DEF TheLine, IsCommand, RunsTheLine
<1>2. Init => TheLine
  BY DEF Init, TheLine
<1>3. TheLine /\ [Next]_vars => TheLine'
  BY NextTheLine
<1> QED
  BY <1>1, <1>2, <1>3, PTL DEF Spec

\* A shell that dies of a line was given one without a name.
THEOREM NamelessLinesKill == Spec => []CrashesForAReason
<1>1. TheLine => CrashesForAReason
  <2> SUFFICES ASSUME TheLine, pc = "crashed", line.cmds # <<>>
               PROVE  shell = "P3" /\ Operator(line.cmds[1][1]) # "none"
    BY DEF CrashesForAReason
  <2>1. num \in Nat /\ num # 0
    BY LineShape
  <2>2. 1 \in 1..num
    BY <2>1
  <2>3. slots[1].args = <<>>
    BY <2>1 DEF TheLine
  <2>4. IsCommand(slots[1], line.cmds[1])
    BY <2>2 DEF TheLine
  <2> QED
    BY <2>3, <2>4 DEF IsCommand
<1>2. Init => TheLine
  BY DEF Init, TheLine
<1>3. TheLine /\ [Next]_vars => TheLine'
  BY NextTheLine
<1> QED
  BY <1>1, <1>2, <1>3, PTL DEF Spec

\* Only cd alone on a line changes the directory, to a word of its line.
THEOREM OnlyCdMoves == Spec => CdAlone
<1>1. ASSUME TheLine, [Next]_vars
      PROVE  [cwd' # cwd =>
               /\ Len(line.cmds) = 1 /\ line.pipes < CmdMax
               /\ Len(line.cmds[1]) > 1 /\ line.cmds[1][1] = Cd
               /\ \E i \in 2..Len(line.cmds[1]) : line.cmds[1][i] = cwd']_vars
  <2> SUFFICES ASSUME cwd' # cwd
               PROVE  /\ Len(line.cmds) = 1 /\ line.pipes < CmdMax
                      /\ Len(line.cmds[1]) > 1 /\ line.cmds[1][1] = Cd
                      /\ \E i \in 2..Len(line.cmds[1]) : line.cmds[1][i] = cwd'
    OBVIOUS
  <2>1. RunCd
    BY <1>1 DEF Next, vars, Refuse, Read, EndOfInput, Crash, RunExit, RunExitAtServer, RunOther,
                RunPipeline, Clear
  <2>2. pc = "run" /\ num = 1 /\ slots[1].args # <<>> /\ slots[1].args[1] = Cd
    BY <2>1 DEF RunCd, Alone, HasName, First
  <2>3. Len(slots[1].args) \in {2} \/ Len(slots[1].args) > 1
    BY <2>1 DEF RunCd
  <2>4. cwd' = slots[1].args[2]
    BY <2>1 DEF RunCd
  <2>5. 1 \in 1..num
    BY <2>2
  <2>6. IsCommand(slots[1], line.cmds[1]) /\ line.pipes < CmdMax
    BY <1>1, <2>2, <2>5 DEF TheLine
  <2>7. line.cmds[1] \in Seq(Seq(STRING)) \ {<<>>} /\ Len(line.cmds) = 1
    BY <1>1, <2>2, <2>5, LineShape
  <2>8. PICK args \in Seq(Seq(STRING) \cup {NoFile}) : args = slots[1].args
    BY <2>6 DEF IsCommand
  <2>9. 1 \in DOMAIN args /\ 2 \in DOMAIN args
    BY <2>2, <2>3, <2>8
  <2>10. PICK ws \in Seq(Seq(STRING)) \ {<<>>} : ws = line.cmds[1]
    BY <2>7
  <2>11. PICK i \in DOMAIN ws : i = 1 /\ ws[i] = args[1]
    BY <2>6, <2>8, <2>9, <2>10 DEF IsCommand
  <2>12. PICK j \in DOMAIN ws : j # 1 /\ ws[j] = args[2]
    BY <2>6, <2>8, <2>9, <2>10 DEF IsCommand
  <2>13. j \in 2..Len(ws) /\ Len(ws) > 1
    BY <2>12
  <2> QED
    BY <2>2, <2>4, <2>6, <2>7, <2>8, <2>10, <2>11, <2>12, <2>13
<1>2. Init => TheLine
  BY DEF Init, TheLine
<1>3. TheLine /\ [Next]_vars => TheLine'
  BY NextTheLine
<1> QED
  BY <1>1, <1>2, <1>3, PTL DEF Spec, CdAlone

-----------------------------------------------------------------------------
(* The loop over a single command.  Its strings are zero from one line to    *)
(* the next until a line is refused half-way, and what runs is the line.     *)

\* ShellP2 reads the words of a line as CmdLine has it.
LEMMA SameWalk ==
  ASSUME NEW l
  PROVE  P2!FoldLeft(P2!WordP2, P2!EmptyBuff, l) = FoldLeft(WordP2, EmptyBuff, l)
BY DEF P2!FoldLeft, P2!MapThenFoldSet, P2!Max, P2!WordP2, P2!EmptyBuff, P2!Insert,
       P2!CanInsertP2, P2!NoFile,
       FoldLeft, MapThenFoldSet, Max, WordP2, EmptyBuff, Insert, CanInsertP2, NoFile

\* What is accepted fits and is copied as a whole.
LEMMA Accepted ==
  ASSUME NEW l \in Lines2
  PROVE  LET b == P2!FoldLeft(P2!WordP2, P2!EmptyBuff, l) IN
         /\ l \in Seq(Seq(STRING))
         /\ b.argv \in Seq(Seq(STRING) \cup {NoFile})
         /\ b.rc = "OK" => b.argv = l /\ Len(l) <= ArgvMax
<1>1. l \in Seq(Seq(STRING))
  BY ShellsAssumption
<1>2. PICK W : W = Seq(STRING) \cup {NoFile}
  OBVIOUS
<1>3. l \in Seq(W) /\ NoFile \in W
  BY <1>1, <1>2
<1>4. PICK b : b = FoldLeft(WordP2, EmptyBuff, l)
  OBVIOUS
<1>5. b \in Buffs(W) /\ (b.rc = "OK" => b.argv = l)
  BY <1>3, <1>4, WholeP2
<1>6. b.argv \in Seq(W) /\ Len(b.argv) <= ArgvMax
  BY <1>5 DEF Buffs
<1> QED
  BY <1>1, <1>2, <1>4, <1>5, <1>6, SameWalk

Single ==
  /\ DOMAIN argv2 = 1..ArgvMax
  /\ pc2 \in {"run", "clear"} =>
       /\ line2 \in Lines2 /\ line2 # <<>> /\ ~P2!Refused(line2)
       /\ argc2 = Len(line2) /\ argc2 <= ArgvMax
       /\ \A n \in 1..argc2 : argv2[n] = line2[n]
  /\ pc2 = "clear" => rc2 \in P2!CodesOf(line2)
  /\ ~stale2 =>
       \A n \in 1..ArgvMax :
         pc2 = "prompt" \/ (pc2 \in {"run", "clear"} /\ n > argc2) => argv2[n] = <<>>

LEMMA ReadSingle ==
  ASSUME Single, NEW l \in Lines2, P2!Read(l)
  PROVE  Single'
<1>1. PICK b : b = P2!FoldLeft(P2!WordP2, P2!EmptyBuff, l)
  OBVIOUS
<1>2. /\ pc2 = "prompt" /\ l # <<>> /\ line2' = l
      /\ argc2' = Len(b.argv)
      /\ argv2' = [n \in 1..ArgvMax |-> IF n <= Len(b.argv) THEN b.argv[n] ELSE argv2[n]]
      /\ pc2' = IF b.rc = "OK" THEN "run" ELSE "prompt"
      /\ stale2' <=> stale2 \/ (b.rc # "OK" /\ b.argv # <<>>)
  BY <1>1 DEF P2!Read, P2!NextLine, P2!Strings
<1>3. /\ l \in Seq(Seq(STRING)) /\ b.argv \in Seq(Seq(STRING) \cup {NoFile})
      /\ b.rc = "OK" => b.argv = l /\ Len(l) <= ArgvMax
  BY <1>1, Accepted
<1>4. ArgvMax \in Nat
  BY BoundsAssumption
<1>5. DOMAIN argv2' = 1..ArgvMax
  BY <1>2
<1>6. ASSUME pc2' \in {"run", "clear"}
      PROVE  /\ line2' \in Lines2 /\ line2' # <<>> /\ ~P2!Refused(line2)'
             /\ argc2' = Len(line2') /\ argc2' <= ArgvMax
             /\ \A n \in 1..argc2' : argv2'[n] = line2'[n]
  <2>1. b.rc = "OK" /\ b.argv = l /\ Len(l) <= ArgvMax /\ Len(l) \in Nat
    BY <1>2, <1>3, <1>6
  <2>2. ~P2!Refused(line2)'
    BY <1>1, <1>2, <2>1 DEF P2!Refused
  <2>3. ASSUME NEW n \in 1..argc2' PROVE argv2'[n] = line2'[n]
    BY <1>2, <1>4, <2>1
  <2> QED
    BY <1>2, <2>1, <2>2, <2>3
<1>7. pc2' # "clear"
  BY <1>2
<1>8. ASSUME ~stale2', NEW n \in 1..ArgvMax,
             pc2' = "prompt" \/ (pc2' \in {"run", "clear"} /\ n > argc2')
      PROVE  argv2'[n] = <<>>
  <2>1. argv2[n] = <<>>
    BY <1>2, <1>8 DEF Single
  <2>2. argv2'[n] = IF n <= Len(b.argv) THEN b.argv[n] ELSE argv2[n]
    BY <1>2
  <2>3. ~(n <= Len(b.argv))
    <3>1. CASE pc2' = "prompt"
      <4>1. b.argv = <<>>
        BY <1>2, <1>8, <3>1
      <4> QED
        BY <1>4, <4>1
    <3>2. CASE n > argc2'
      BY <1>2, <1>3, <1>4, <3>2
    <3> QED
      BY <1>8, <3>1, <3>2
  <2> QED
    BY <2>1, <2>2, <2>3
<1> QED
  BY <1>5, <1>6, <1>7, <1>8 DEF Single

\* What runs is a line, and its code is one that such a line may give.
LEMMA RunSingle ==
  ASSUME Single, P2!RunCd \/ P2!RunOther \/ P2!RunProgram
  PROVE  Single'
<1>1. /\ pc2 = "run" /\ pc2' = "clear"
      /\ UNCHANGED <<line2, argc2, argv2, stale2>>
  BY DEF P2!RunCd, P2!RunOther, P2!RunProgram
<1>2. /\ line2 \in Lines2 /\ line2 # <<>> /\ ~P2!Refused(line2)
      /\ argc2 = Len(line2) /\ \A n \in 1..argc2 : argv2[n] = line2[n]
  BY <1>1 DEF Single
<1>3. line2 \in Seq(Seq(STRING))
  BY <1>2, ShellsAssumption
<1>4. argv2[1] = line2[1]
  <2>1. 1 \in 1..argc2
    BY <1>2, <1>3
  <2> QED
    BY <1>2, <2>1
<1>5. rc2' \in P2!CodesOf(line2)
  <2>1. CASE P2!RunCd
    <3>1. line2[1] = P2!Cd /\ rc2' \in {"BI_EXECUTED", "ERR_EXEC_CMD"}
      BY <1>4, <2>1 DEF P2!RunCd
    <3> QED
      BY <1>2, <3>1 DEF P2!CodesOf
  <2>2. CASE P2!RunOther
    <3>1. line2[1] \in P2!BuiltIns \ {P2!Cd} /\ rc2' = "BI_EXECUTED"
      BY <1>4, <2>2 DEF P2!RunOther, P2!BuiltIns, P2!Rc, P2!Dragon, P2!Cd
    <3> QED
      BY <1>2, <3>1 DEF P2!CodesOf
  <2>3. CASE P2!RunProgram
    <3>1. line2[1] \notin P2!BuiltIns /\ line2[1] # P2!Cd /\ rc2' \in Codes
      BY <1>4, <2>3 DEF P2!RunProgram, P2!BuiltIns
    <3> QED
      BY <1>2, <3>1 DEF P2!CodesOf
  <2> QED
    BY <2>1, <2>2, <2>3
<1>6. P2!Refused(line2)' <=> P2!Refused(line2)
  BY <1>1 DEF P2!Refused
<1>7. P2!CodesOf(line2)' = P2!CodesOf(line2)
  BY <1>1 DEF P2!CodesOf, P2!Refused
<1> QED
  BY <1>1, <1>5, <1>6, <1>7 DEF Single

LEMMA NextSingle ==
  ASSUME Single, [NextBoth]_<<which, vars, vars2>>
  PROVE  Single'
<1>1. ASSUME UNCHANGED vars2 PROVE Single'
  <2>1. UNCHANGED <<pc2, line2, argc2, argv2, rc2, stale2>>
    BY <1>1 DEF vars2
  <2>2. (P2!Refused(line2)' <=> P2!Refused(line2)) /\ P2!CodesOf(line2)' = P2!CodesOf(line2)
    BY <2>1 DEF P2!CodesOf, P2!Refused
  <2> QED
    BY <2>1, <2>2 DEF Single
<1>2. ASSUME NEW l \in Lines2, P2!NotFormatted(l) PROVE Single'
  BY <1>2 DEF P2!NotFormatted, P2!NextLine, Single
<1>3. ASSUME NEW l \in Lines2, P2!Read(l) PROVE Single'
  BY <1>3, ReadSingle
<1>4. CASE P2!EndOfInput \/ P2!RunExit
  BY <1>4 DEF P2!EndOfInput, P2!RunExit, Single
<1>5. CASE P2!RunCd \/ P2!RunOther \/ P2!RunProgram
  BY <1>5, RunSingle
<1>6. CASE P2!Clear
  <2>1. /\ pc2 = "clear" /\ pc2' = "prompt" /\ UNCHANGED stale2
        /\ argv2' = [n \in 1..ArgvMax |-> IF n <= argc2 THEN <<>> ELSE argv2[n]]
    BY <1>6 DEF P2!Clear
  <2>2. argc2 \in Nat /\ ArgvMax \in Nat
    <3>1. line2 \in Seq(Seq(STRING)) /\ argc2 = Len(line2)
      BY <2>1, ShellsAssumption DEF Single
    <3> QED
      BY <3>1, BoundsAssumption
  <2>3. ASSUME ~stale2', NEW n \in 1..ArgvMax PROVE argv2'[n] = <<>>
    BY <2>1, <2>2, <2>3 DEF Single
  <2> QED
    BY <2>1, <2>3 DEF Single
<1> QED
  BY <1>1, <1>2, <1>3, <1>4, <1>5, <1>6 DEF NextBoth, P2!Next

\* In 4-ShellP2 a line gives a code of its own, and cd goes where it is told, until
\* a line is refused half-way: nothing of an accepted line is seen by a later one.
THEOREM SingleLinesAlone ==
  ASSUME ArgvMax > 1
  PROVE  SpecBoth => SingleLineAlone
<1>1. Single /\ [NextBoth]_<<which, vars, vars2>> =>
        [/\ pc2' = "prompt" /\ nline2' > 0 => rc2' \in P2!CodesOf(line2')
         /\ cwd2' # cwd2 => stale2 \/ (Len(line2) > 1 /\ line2[1] = P2!Cd /\ cwd2' = line2[2])]_(P2!vars)
  <2> SUFFICES ASSUME Single, [NextBoth]_<<which, vars, vars2>>, ~UNCHANGED P2!vars
               PROVE  /\ pc2' = "prompt" /\ nline2' > 0 => rc2' \in P2!CodesOf(line2')
                      /\ cwd2' # cwd2 => stale2 \/ (Len(line2) > 1 /\ line2[1] = P2!Cd /\ cwd2' = line2[2])
    OBVIOUS
  <2>1. P2!Next
    BY DEF NextBoth, P2!vars, vars2
  <2>2. ASSUME NEW l \in Lines2, P2!NotFormatted(l)
        PROVE  rc2' \in P2!CodesOf(line2') /\ cwd2' = cwd2
    <3>1. /\ line2' = l /\ cwd2' = cwd2
          /\ \/ l = <<>> /\ rc2' = "WARN_NO_CMDS"
             \/ l # <<>> /\ rc2' = "ERR_MEMORY"
      BY <2>2 DEF P2!NotFormatted, P2!NextLine
    <3>2. CASE l = <<>>
      BY <3>1, <3>2 DEF P2!CodesOf, P2!Refused
    <3>3. CASE l # <<>>
      BY <3>1, <3>3 DEF P2!CodesOf
    <3> QED
      BY <3>1, <3>2, <3>3
  <2>3. ASSUME NEW l \in Lines2, P2!Read(l)
        PROVE  (pc2' = "prompt" => rc2' \in P2!CodesOf(line2')) /\ cwd2' = cwd2
    <3>1. PICK b : b = P2!FoldLeft(P2!WordP2, P2!EmptyBuff, l)
      OBVIOUS
    <3>2. /\ line2' = l /\ l # <<>> /\ cwd2' = cwd2
          /\ pc2' = "prompt" => b.rc # "OK" /\ rc2' = b.rc
      BY <2>3, <3>1 DEF P2!Read, P2!NextLine
    <3> QED
      BY <3>1, <3>2 DEF P2!CodesOf, P2!Refused
  <2>4. CASE P2!EndOfInput \/ P2!RunExit \/ P2!RunOther \/ P2!RunProgram
    BY <2>4 DEF P2!EndOfInput, P2!RunExit, P2!RunOther, P2!RunProgram
  <2>5. CASE P2!RunCd
    <3>1. pc2 = "run" /\ pc2' = "clear" /\ argv2[1] = P2!Cd
      BY <2>5 DEF P2!RunCd
    <3>2. ASSUME cwd2' # cwd2, ~stale2
          PROVE  Len(line2) > 1 /\ line2[1] = P2!Cd /\ cwd2' = line2[2]
      <4>1. argv2[2] # <<>> /\ cwd2' = argv2[2]
        BY <2>5, <3>2 DEF P2!RunCd
      <4>2. 1 \in 1..ArgvMax /\ 2 \in 1..ArgvMax
        BY BoundsAssumption
      <4>3. line2 \in Seq(Seq(STRING)) /\ argc2 = Len(line2)
        BY <3>1, ShellsAssumption DEF Single
      <4>4. ~(2 > argc2)
        BY <3>1, <3>2, <4>1, <4>2 DEF Single
      <4>5. 1 \in 1..argc2 /\ 2 \in 1..argc2 /\ Len(line2) > 1
        BY <4>3, <4>4
      <4>6. argv2[1] = line2[1] /\ argv2[2] = line2[2]
        BY <3>1, <4>5 DEF Single
      <4> QED
        BY <3>1, <4>1, <4>5, <4>6
    <3> QED
      BY <3>1, <3>2
  <2>6. CASE P2!Clear
    <3>1. /\ pc2 = "clear" /\ rc2' = rc2 /\ line2' = line2 /\ cwd2' = cwd2
      BY <2>6 DEF P2!Clear
    <3>2. rc2 \in P2!CodesOf(line2)
      BY <3>1 DEF Single
    <3>3. P2!CodesOf(line2') = P2!CodesOf(line2)
      BY <3>1 DEF P2!CodesOf, P2!Refused
    <3> QED
      BY <3>1, <3>2, <3>3
  <2> QED
    BY <2>1, <2>2, <2>3, <2>4, <2>5, <2>6 DEF P2!Next
<1>2. InitBoth => Single
  BY DEF InitBoth, P2!Init, Single
<1>3. Single /\ [NextBoth]_<<which, vars, vars2>> => Single'
  BY NextSingle
<1> QED
  BY <1>1, <1>2, <1>3, PTL DEF SpecBoth, SingleLineAlone, P2!EachLineAlone
=============================================================================
