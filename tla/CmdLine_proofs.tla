--------------------------- MODULE CmdLine_proofs ---------------------------
(***************************************************************************)
(* Facts about CmdLine that hold for lines of any length.  The operators   *)
(* walk over a line with FoldLeft, which is a recursive function on sets   *)
(* of positions: here it is shown, once for all, to be what one expects,   *)
(* the results for the beginnings of the line one after the other.         *)
(***************************************************************************)
EXTENDS CmdLine, FiniteSetTheorems, SequenceTheorems, WellFoundedInduction, TLAPS

\* Induction without an operator as parameter: a set of counterexamples would
\* have a least element.
LEMMA LeastNatural ==
  ASSUME NEW T \in SUBSET Nat, T # {}
  PROVE  \E n \in T : \A m \in T : n <= m
<1>1. PICK n \in T : \A m \in T : <<m, n>> \notin OpToRel(<, Nat)
  BY NatLessThanWellFounded, WFMin
<1>2. \A m \in T : ~(m < n)
  BY <1>1 DEF OpToRel
<1> QED
  BY <1>2

\* The same, for what is to hold of all numbers up to n.
LEMMA UpTo ==
  ASSUME NEW n \in Nat, NEW P, 0 \in P, \A k \in 1..n : k - 1 \in P => k \in P
  PROVE  \A k \in 0..n : k \in P
<1> DEFINE T == (0..n) \ P
<1>1. SUFFICES ASSUME T # {} PROVE FALSE
  OBVIOUS
<1>2. T \in SUBSET Nat
  OBVIOUS
<1>3. PICK k \in T : \A m \in T : k <= m
  BY <1>1, <1>2, LeastNatural
<1>4. k \in 1..n /\ k - 1 \in 0..n /\ ~(k <= k - 1)
  BY <1>3
<1> QED
  BY <1>3, <1>4

\* The greatest of some positions, and what is left without it.
LEMMA MaxFacts ==
  ASSUME NEW n \in Nat, NEW s \in SUBSET (1..n), s # {}
  PROVE  /\ Max(s) \in s
         /\ s \ {Max(s)} \in SUBSET (1..(Max(s) - 1))
<1> DEFINE T == {k \in 0..n : \A x \in s : x <= k}
<1>1. T \in SUBSET Nat /\ n \in T
  OBVIOUS
<1>2. PICK k \in T : \A m \in T : k <= m
  BY <1>1, LeastNatural
<1>3. k \in s
  <2>1. SUFFICES ASSUME k \notin s PROVE FALSE
    OBVIOUS
  <2>2. \A x \in s : x <= k /\ x # k /\ x \in Nat /\ x >= 1
    BY <1>2, <2>1
  <2>3. k \in 0..n
    OBVIOUS
  <2>4. k # 0
    <3>1. PICK x \in s : TRUE
      OBVIOUS
    <3> QED
      BY <2>2, <2>3, <3>1
  <2>5. k - 1 \in 0..n
    BY <2>3, <2>4
  <2>6. \A x \in s : x <= k - 1
    BY <2>2, <2>3
  <2>7. k - 1 \in T
    BY <2>5, <2>6
  <2> HIDE DEF T
  <2> QED
    BY <1>2, <2>3, <2>7
<1>4. k \in s /\ \A y \in s : k >= y
  BY <1>2, <1>3
<1>5. Max(s) \in s /\ \A y \in s : Max(s) >= y
  BY <1>4 DEF Max
<1>6. ASSUME NEW x \in s, NEW y \in s, x # y, y >= x PROVE x \in 1..(y - 1)
  BY <1>6
<1> QED
  BY <1>5, <1>6

LEMMA MaxOfPrefix ==
  ASSUME NEW k \in Nat \ {0}
  PROVE  /\ 1..k # {} /\ Max(1..k) = k
         /\ (1..k) \ {Max(1..k)} = 1..(k - 1)
<1>1. k \in 1..k /\ 1..k \in SUBSET (1..k) /\ 1..k # {}
  OBVIOUS
<1>2. Max(1..k) \in 1..k /\ (1..k) \ {Max(1..k)} \in SUBSET (1..(Max(1..k) - 1))
  BY <1>1, MaxFacts
<1>3. Max(1..k) = k
  <2>1. SUFFICES ASSUME Max(1..k) # k PROVE FALSE
    OBVIOUS
  <2>2. k \in 1..(Max(1..k) - 1)
    BY <1>1, <1>2, <2>1
  <2> QED
    BY <1>2, <2>2
<1> QED
  BY <1>1, <1>3

\* What FoldLeft chooses: for every set of positions the result of the steps at
\* these positions, one after the other.
Folds(it, n, Y, base, step) ==
  /\ it \in [SUBSET (1..n) -> Y]
  /\ \A s \in SUBSET (1..n) :
       it[s] = IF s = {} THEN base ELSE step[<<it[s \ {Max(s)}], Max(s)>>]

\* There is one, whatever the steps, as long as they stay in a set Y.
LEMMA FoldExists ==
  ASSUME NEW n \in Nat, NEW Y, NEW base \in Y, NEW step \in [Y \X (1..n) -> Y]
  PROVE  \E it : Folds(it, n, Y, base, step)
<1> DEFINE Good(m) ==
             \E it \in [SUBSET (1..m) -> Y] :
               \A s \in SUBSET (1..m) :
                 it[s] = IF s = {} THEN base ELSE step[<<it[s \ {Max(s)}], Max(s)>>]
<1>1. Good(0)
  <2> DEFINE it == [s \in SUBSET (1..0) |-> base]
  <2>1. \A s \in SUBSET (1..0) : s = {}
    OBVIOUS
  <2>2. it \in [SUBSET (1..0) -> Y]
    OBVIOUS
  <2> QED
    BY <2>1, <2>2
<1>2. ASSUME NEW m \in 1..n, Good(m - 1) PROVE Good(m)
  <2>1. PICK g \in [SUBSET (1..(m - 1)) -> Y] :
          \A s \in SUBSET (1..(m - 1)) :
            g[s] = IF s = {} THEN base ELSE step[<<g[s \ {Max(s)}], Max(s)>>]
    BY <1>2
  <2> DEFINE it == [s \in SUBSET (1..m) |->
                      IF s = {} THEN base ELSE step[<<g[s \ {Max(s)}], Max(s)>>]]
  <2>2. ASSUME NEW s \in SUBSET (1..m), s # {}
        PROVE  Max(s) \in 1..n /\ s \ {Max(s)} \in SUBSET (1..(m - 1)) /\ s \ {Max(s)} \in SUBSET (1..m)
    <3> m \in Nat
      OBVIOUS
    <3>1. Max(s) \in s /\ s \ {Max(s)} \in SUBSET (1..(Max(s) - 1))
      BY <2>2, MaxFacts
    <3>2. Max(s) \in 1..m
      BY <3>1
    <3> QED
      BY <3>1, <3>2
  <2>3. \A s \in SUBSET (1..(m - 1)) : s \in SUBSET (1..m) /\ it[s] = g[s]
    BY <2>1
  <2>4. it \in [SUBSET (1..m) -> Y]
    <3>1. ASSUME NEW s \in SUBSET (1..m), s # {}
          PROVE  step[<<g[s \ {Max(s)}], Max(s)>>] \in Y
      <4>1. g[s \ {Max(s)}] \in Y /\ Max(s) \in 1..n
        BY <2>1, <2>2, <3>1
      <4> QED
        BY <4>1
    <3> QED
      BY <3>1
  <2>5. \A s \in SUBSET (1..m) : it[s] = IF s = {} THEN base ELSE step[<<it[s \ {Max(s)}], Max(s)>>]
    BY <2>2, <2>3
  <2> HIDE DEF it
  <2> QED
    BY <2>4, <2>5
<1>3. PICK P : P = {m \in 0..n : Good(m)}
  OBVIOUS
<1> HIDE DEF Good
<1>4. \A m \in 0..n : m \in P
  BY <1>1, <1>2, <1>3, UpTo
<1>5. Good(n)
  BY <1>3, <1>4
<1> QED
  BY <1>5 DEF Folds, Good

\* b[k] is the result of the first k steps, and b[n] what it says.
Walks(b, n, Y, base, step, it) ==
  /\ b \in [0..n -> Y]
  /\ b[0] = base /\ b[n] = it[1..n]
  /\ \A k \in 1..n : b[k] = step[<<b[k - 1], k>>]

\* As long as it is in Y, the recursive function it takes the steps.
StepsIn(it, n, Y, base, step) ==
  /\ it[{}] = base
  /\ \A s \in SUBSET (1..n) :
       s # {} /\ it[s \ {Max(s)}] \in Y => it[s] = step[<<it[s \ {Max(s)}], Max(s)>>]

\* Then it takes all of them, from the first position to the last.
LEMMA FoldPrefixes ==
  ASSUME NEW n \in Nat, NEW Y, NEW base \in Y, NEW step \in [Y \X (1..n) -> Y], NEW it,
         StepsIn(it, n, Y, base, step)
  PROVE  \E b : Walks(b, n, Y, base, step, it)
<1>1. ASSUME NEW k \in 1..n, it[1..(k - 1)] \in Y
      PROVE  it[1..k] = step[<<it[1..(k - 1)], k>>] /\ it[1..k] \in Y
  <2> k \in Nat \ {0}
    OBVIOUS
  <2>1. 1..k # {} /\ Max(1..k) = k /\ (1..k) \ {Max(1..k)} = 1..(k - 1)
    BY MaxOfPrefix
  <2>2. 1..k \in SUBSET (1..n)
    OBVIOUS
  <2>3. it[1..k] = step[<<it[1..(k - 1)], k>>]
    BY <1>1, <2>1, <2>2 DEF StepsIn
  <2> QED
    BY <1>1, <2>3
<1>2. PICK P : P = {k \in 0..n : it[1..k] \in Y}
  OBVIOUS
<1>3. \A k \in 0..n : it[1..k] \in Y
  <2>1. 0 \in P
    <3>1. 1..0 = {}
      OBVIOUS
    <3> QED
      BY <1>2, <3>1 DEF StepsIn
  <2>2. \A k \in 1..n : k - 1 \in P => k \in P
    <3>1. ASSUME NEW k \in 1..n, k - 1 \in P PROVE k \in P
      <4>1. k \in 0..n /\ it[1..(k - 1)] \in Y
        BY <1>2, <3>1
      <4> QED
        BY <1>1, <1>2, <4>1
    <3> QED
      BY <3>1
  <2>3. \A k \in 0..n : k \in P
    BY <2>1, <2>2, UpTo
  <2> QED
    BY <1>2, <2>3
<1>4. \A k \in 1..n : k - 1 \in 0..n /\ it[1..k] = step[<<it[1..(k - 1)], k>>]
  BY <1>1, <1>3
<1> DEFINE b == [k \in 0..n |-> it[1..k]]
<1>5. b \in [0..n -> Y]
  BY <1>3
<1>6. b[0] = base /\ b[n] = it[1..n]
  <2>1. 1..0 = {} /\ 0 \in 0..n /\ n \in 0..n
    OBVIOUS
  <2> QED
    BY <2>1 DEF StepsIn
<1>7. \A k \in 1..n : b[k] = step[<<b[k - 1], k>>]
  <2>1. \A k \in 1..n : k \in 0..n
    OBVIOUS
  <2> QED
    BY <1>4, <2>1
<1> HIDE DEF b
<1>8. Walks(b, n, Y, base, step, it)
  BY <1>5, <1>6, <1>7 DEF Walks
<1> QED
  BY <1>8

LEMMA WalkExists ==
  ASSUME NEW n \in Nat, NEW Y, NEW base \in Y, NEW step \in [Y \X (1..n) -> Y]
  PROVE  \E b : \E it : Walks(b, n, Y, base, step, it)
<1>1. PICK it : Folds(it, n, Y, base, step)
  BY FoldExists
<1>2. StepsIn(it, n, Y, base, step)
  BY <1>1 DEF Folds, StepsIn
<1>3. \E b : Walks(b, n, Y, base, step, it)
  BY <1>2, FoldPrefixes
<1> QED
  BY <1>3

-----------------------------------------------------------------------------
(* build_cmd_buff() takes one word after the other, and whatever the words   *)
(* are it stays within argv.                                                 *)

BuffCodes == {"OK", "ERR_CMD_OR_ARGS_TOO_BIG", "ERR_CMD_ARGS_BAD", "WARN_NO_CMDS"}

\* A cmd_buff_t with words of W.
Buffs(W) ==
  [rc : BuffCodes, argv : {a \in Seq(W) : Len(a) <= ArgvMax}, input : W, output : W,
   append : BOOLEAN, flag : {"none", "append", "output", "input"}, done : BOOLEAN]

LEMMA EmptyBuffType ==
  ASSUME NEW W, NoFile \in W
  PROVE  EmptyBuff \in Buffs(W)
<1>1. <<>> \in {a \in Seq(W) : Len(a) <= ArgvMax}
  BY BoundsAssumption
<1> QED
  BY <1>1 DEF EmptyBuff, Buffs, BuffCodes

\* A word that can be inserted has room.
LEMMA InsertType ==
  ASSUME NEW W, NEW b \in Buffs(W), NEW w \in W
  PROVE  /\ Insert(b, w, CanInsert(b.argv, Len(w))) \in Buffs(W)
         /\ Insert(b, w, CanInsertP2(b.argv, Len(w))) \in Buffs(W)
<1>1. b.argv \in Seq(W) /\ ArgvMax \in Nat /\ ArgvMax >= 1
  BY BoundsAssumption DEF Buffs
<1>2. ASSUME NEW can \in BuffCodes,
             can = "OK" => b.argv = <<>> \/ Len(b.argv) + 1 <= ArgvMax
      PROVE  Insert(b, w, can) \in Buffs(W)
  <2>1. CASE can = "OK"
    <3>1. Append(b.argv, w) \in Seq(W) /\ Len(Append(b.argv, w)) = Len(b.argv) + 1
      BY <1>1
    <3>2. Append(b.argv, w) \in {a \in Seq(W) : Len(a) <= ArgvMax}
      BY <1>1, <1>2, <2>1, <3>1
    <3> QED
      BY <2>1, <3>2 DEF Insert, Buffs, BuffCodes
  <2>2. CASE can # "OK"
    BY <1>2, <2>2 DEF Insert, Buffs
  <2> QED
    BY <2>1, <2>2
<1>3. /\ CanInsert(b.argv, Len(w)) \in BuffCodes
      /\ CanInsert(b.argv, Len(w)) = "OK" => b.argv = <<>> \/ Len(b.argv) + 1 <= ArgvMax
  BY DEF CanInsert, BuffCodes
<1>4. /\ CanInsertP2(b.argv, Len(w)) \in BuffCodes
      /\ CanInsertP2(b.argv, Len(w)) = "OK" => b.argv = <<>> \/ Len(b.argv) + 1 <= ArgvMax
  BY DEF CanInsertP2, BuffCodes
<1> QED
  BY <1>2, <1>3, <1>4

LEMMA WordType ==
  ASSUME NEW W, NEW b \in Buffs(W), NEW w \in W
  PROVE  WordP2(b, w) \in Buffs(W) /\ WordP3(b, w) \in Buffs(W) /\ WordP4(b, w) \in Buffs(W)
<1>1. Operator(w) \in {"none", "append", "output", "input"}
  BY DEF Operator
<1>2. b.flag # "none" => SetFile(b, w) \in Buffs(W)
  BY DEF SetFile, Buffs
<1>3. ASSUME NEW c \in Buffs(W)
      PROVE  /\ [c EXCEPT !.flag = "none"] \in Buffs(W) /\ [c EXCEPT !.done = TRUE] \in Buffs(W)
             /\ [c EXCEPT !.flag = Operator(w)] \in Buffs(W)
             /\ [c EXCEPT !.rc = "WARN_NO_CMDS", !.flag = Operator(w)] \in Buffs(W)
  BY <1>1 DEF Buffs, BuffCodes
<1>4. WordP2(b, w) \in Buffs(W)
  BY InsertType DEF WordP2
<1>5. WordP3(b, w) \in Buffs(W)
  BY <1>2, <1>3, InsertType DEF WordP3
<1>6. WordP4(b, w) \in Buffs(W)
  BY <1>2, <1>3, InsertType DEF WordP4
<1> QED
  BY <1>4, <1>5, <1>6

\* The walk over the words: b[k] is what the first k of them leave.
LEMMA WalkP2 ==
  ASSUME NEW W, NoFile \in W, NEW ws \in Seq(W)
  PROVE  \E b \in [0..Len(ws) -> Buffs(W)] :
           /\ b[0] = EmptyBuff
           /\ b[Len(ws)] = FoldLeft(WordP2, EmptyBuff, ws)
           /\ \A k \in 1..Len(ws) : b[k] = WordP2(b[k - 1], ws[k])
<1>1. Len(ws) \in Nat /\ DOMAIN ws = 1..Len(ws) /\ \A i \in 1..Len(ws) : ws[i] \in W
  OBVIOUS
<1>2. PICK step : step = [p \in Buffs(W) \X (1..Len(ws)) |-> WordP2(p[1], ws[p[2]])]
  OBVIOUS
<1>3. /\ step \in [Buffs(W) \X (1..Len(ws)) -> Buffs(W)]
      /\ \A c \in Buffs(W), i \in 1..Len(ws) : step[<<c, i>>] = WordP2(c, ws[i])
  BY <1>1, <1>2, WordType
<1>4. PICK n \in Nat : n = Len(ws)
  BY <1>1
<1>5. PICK base \in Buffs(W) : base = EmptyBuff
  BY EmptyBuffType
<1>6. step \in [Buffs(W) \X (1..n) -> Buffs(W)]
  BY <1>3, <1>4
<1>7. PICK g : Folds(g, n, Buffs(W), base, step)
  BY <1>6, FoldExists
<1>8. g = [s \in SUBSET (1..n) |->
             IF s = {} THEN EmptyBuff ELSE WordP2(g[s \ {Max(s)}], ws[Max(s)])]
  <2>1. ASSUME NEW s \in SUBSET (1..n), s # {}
        PROVE  g[s] = WordP2(g[s \ {Max(s)}], ws[Max(s)])
    <3>1. Max(s) \in s
      BY <2>1, MaxFacts
    <3>2. g[s \ {Max(s)}] \in Buffs(W) /\ Max(s) \in 1..Len(ws)
      BY <1>4, <1>7, <3>1 DEF Folds
    <3> QED
      BY <1>3, <1>7, <2>1, <3>2 DEF Folds
  <2> QED
    BY <1>5, <1>7, <2>1 DEF Folds
<1>9. PICK it :
        /\ it = [s \in SUBSET (1..n) |->
                   IF s = {} THEN EmptyBuff ELSE WordP2(it[s \ {Max(s)}], ws[Max(s)])]
        /\ FoldLeft(WordP2, EmptyBuff, ws) = it[1..n]
  BY <1>1, <1>4, <1>8 DEF FoldLeft, MapThenFoldSet
<1>10. StepsIn(it, n, Buffs(W), base, step)
  <2>1. it[{}] = base
    BY <1>5, <1>9
  <2>2. ASSUME NEW s \in SUBSET (1..n), s # {}, it[s \ {Max(s)}] \in Buffs(W)
        PROVE  it[s] = step[<<it[s \ {Max(s)}], Max(s)>>]
    <3>1. Max(s) \in s
      BY <2>2, MaxFacts
    <3> QED
      BY <1>3, <1>4, <1>9, <2>2, <3>1
  <2> QED
    BY <2>1, <2>2 DEF StepsIn
<1>11. PICK b : Walks(b, n, Buffs(W), base, step, it)
  BY <1>6, <1>10, FoldPrefixes
<1>12. ASSUME NEW k \in 1..n PROVE b[k] = WordP2(b[k - 1], ws[k])
  <2>1. b[k - 1] \in Buffs(W) /\ b[k] = step[<<b[k - 1], k>>]
    BY <1>11 DEF Walks
  <2> QED
    BY <1>3, <1>4, <2>1
<1> QED
  BY <1>4, <1>5, <1>9, <1>11, <1>12 DEF Walks

LEMMA WalkP3 ==
  ASSUME NEW W, NoFile \in W, NEW ws \in Seq(W)
  PROVE  \E b \in [0..Len(ws) -> Buffs(W)] :
           /\ b[0] = EmptyBuff
           /\ b[Len(ws)] = FoldLeft(WordP3, EmptyBuff, ws)
           /\ \A k \in 1..Len(ws) : b[k] = WordP3(b[k - 1], ws[k])
<1>1. Len(ws) \in Nat /\ DOMAIN ws = 1..Len(ws) /\ \A i \in 1..Len(ws) : ws[i] \in W
  OBVIOUS
<1>2. PICK step : step = [p \in Buffs(W) \X (1..Len(ws)) |-> WordP3(p[1], ws[p[2]])]
  OBVIOUS
<1>3. /\ step \in [Buffs(W) \X (1..Len(ws)) -> Buffs(W)]
      /\ \A c \in Buffs(W), i \in 1..Len(ws) : step[<<c, i>>] = WordP3(c, ws[i])
  BY <1>1, <1>2, WordType
<1>4. PICK n \in Nat : n = Len(ws)
  BY <1>1
<1>5. PICK base \in Buffs(W) : base = EmptyBuff
  BY EmptyBuffType
<1>6. step \in [Buffs(W) \X (1..n) -> Buffs(W)]
  BY <1>3, <1>4
<1>7. PICK g : Folds(g, n, Buffs(W), base, step)
  BY <1>6, FoldExists
<1>8. g = [s \in SUBSET (1..n) |->
             IF s = {} THEN EmptyBuff ELSE WordP3(g[s \ {Max(s)}], ws[Max(s)])]
  <2>1. ASSUME NEW s \in SUBSET (1..n), s # {}
        PROVE  g[s] = WordP3(g[s \ {Max(s)}], ws[Max(s)])
    <3>1. Max(s) \in s
      BY <2>1, MaxFacts
    <3>2. g[s \ {Max(s)}] \in Buffs(W) /\ Max(s) \in 1..Len(ws)
      BY <1>4, <1>7, <3>1 DEF Folds
    <3> QED
      BY <1>3, <1>7, <2>1, <3>2 DEF Folds
  <2> QED
    BY <1>5, <1>7, <2>1 DEF Folds
<1>9. PICK it :
        /\ it = [s \in SUBSET (1..n) |->
                   IF s = {} THEN EmptyBuff ELSE WordP3(it[s \ {Max(s)}], ws[Max(s)])]
        /\ FoldLeft(WordP3, EmptyBuff, ws) = it[1..n]
  BY <1>1, <1>4, <1>8 DEF FoldLeft, MapThenFoldSet
<1>10. StepsIn(it, n, Buffs(W), base, step)
  <2>1. it[{}] = base
    BY <1>5, <1>9
  <2>2. ASSUME NEW s \in SUBSET (1..n), s # {}, it[s \ {Max(s)}] \in Buffs(W)
        PROVE  it[s] = step[<<it[s \ {Max(s)}], Max(s)>>]
    <3>1. Max(s) \in s
      BY <2>2, MaxFacts
    <3> QED
      BY <1>3, <1>4, <1>9, <2>2, <3>1
  <2> QED
    BY <2>1, <2>2 DEF StepsIn
<1>11. PICK b : Walks(b, n, Buffs(W), base, step, it)
  BY <1>6, <1>10, FoldPrefixes
<1>12. ASSUME NEW k \in 1..n PROVE b[k] = WordP3(b[k - 1], ws[k])
  <2>1. b[k - 1] \in Buffs(W) /\ b[k] = step[<<b[k - 1], k>>]
    BY <1>11 DEF Walks
  <2> QED
    BY <1>3, <1>4, <2>1
<1> QED
  BY <1>4, <1>5, <1>9, <1>11, <1>12 DEF Walks

LEMMA WalkP4 ==
  ASSUME NEW W, NoFile \in W, NEW ws \in Seq(W)
  PROVE  \E b \in [0..Len(ws) -> Buffs(W)] :
           /\ b[0] = EmptyBuff
           /\ b[Len(ws)] = FoldLeft(WordP4, EmptyBuff, ws)
           /\ \A k \in 1..Len(ws) : b[k] = WordP4(b[k - 1], ws[k])
<1>1. Len(ws) \in Nat /\ DOMAIN ws = 1..Len(ws) /\ \A i \in 1..Len(ws) : ws[i] \in W
  OBVIOUS
<1>2. PICK step : step = [p \in Buffs(W) \X (1..Len(ws)) |-> WordP4(p[1], ws[p[2]])]
  OBVIOUS
<1>3. /\ step \in [Buffs(W) \X (1..Len(ws)) -> Buffs(W)]
      /\ \A c \in Buffs(W), i \in 1..Len(ws) : step[<<c, i>>] = WordP4(c, ws[i])
  BY <1>1, <1>2, WordType
<1>4. PICK n \in Nat : n = Len(ws)
  BY <1>1
<1>5. PICK base \in Buffs(W) : base = EmptyBuff
  BY EmptyBuffType
<1>6. step \in [Buffs(W) \X (1..n) -> Buffs(W)]
  BY <1>3, <1>4
<1>7. PICK g : Folds(g, n, Buffs(W), base, step)
  BY <1>6, FoldExists
<1>8. g = [s \in SUBSET (1..n) |->
             IF s = {} THEN EmptyBuff ELSE WordP4(g[s \ {Max(s)}], ws[Max(s)])]
  <2>1. ASSUME NEW s \in SUBSET (1..n), s # {}
        PROVE  g[s] = WordP4(g[s \ {Max(s)}], ws[Max(s)])
    <3>1. Max(s) \in s
      BY <2>1, MaxFacts
    <3>2. g[s \ {Max(s)}] \in Buffs(W) /\ Max(s) \in 1..Len(ws)
      BY <1>4, <1>7, <3>1 DEF Folds
    <3> QED
      BY <1>3, <1>7, <2>1, <3>2 DEF Folds
  <2> QED
    BY <1>5, <1>7, <2>1 DEF Folds
<1>9. PICK it :
        /\ it = [s \in SUBSET (1..n) |->
                   IF s = {} THEN EmptyBuff ELSE WordP4(it[s \ {Max(s)}], ws[Max(s)])]
        /\ FoldLeft(WordP4, EmptyBuff, ws) = it[1..n]
  BY <1>1, <1>4, <1>8 DEF FoldLeft, MapThenFoldSet
<1>10. StepsIn(it, n, Buffs(W), base, step)
  <2>1. it[{}] = base
    BY <1>5, <1>9
  <2>2. ASSUME NEW s \in SUBSET (1..n), s # {}, it[s \ {Max(s)}] \in Buffs(W)
        PROVE  it[s] = step[<<it[s \ {Max(s)}], Max(s)>>]
    <3>1. Max(s) \in s
      BY <2>2, MaxFacts
    <3> QED
      BY <1>3, <1>4, <1>9, <2>2, <3>1
  <2> QED
    BY <2>1, <2>2 DEF StepsIn
<1>11. PICK b : Walks(b, n, Buffs(W), base, step, it)
  BY <1>6, <1>10, FoldPrefixes
<1>12. ASSUME NEW k \in 1..n PROVE b[k] = WordP4(b[k - 1], ws[k])
  <2>1. b[k - 1] \in Buffs(W) /\ b[k] = step[<<b[k - 1], k>>]
    BY <1>11 DEF Walks
  <2> QED
    BY <1>3, <1>4, <2>1
<1> QED
  BY <1>4, <1>5, <1>9, <1>11, <1>12 DEF Walks


\* What 4-ShellP2 accepts it takes as it is: argv holds all words of the line.
LEMMA WholeP2 ==
  ASSUME NEW W, NoFile \in W, NEW ws \in Seq(W)
  PROVE  LET b == FoldLeft(WordP2, EmptyBuff, ws) IN
         b \in Buffs(W) /\ (b.rc = "OK" => b.argv = ws)
<1>1. PICK b \in [0..Len(ws) -> Buffs(W)] :
        /\ b[0] = EmptyBuff
        /\ b[Len(ws)] = FoldLeft(WordP2, EmptyBuff, ws)
        /\ \A k \in 1..Len(ws) : b[k] = WordP2(b[k - 1], ws[k])
  BY WalkP2
<1>2. Len(ws) \in Nat
  OBVIOUS
<1> DEFINE Whole(k) == b[k].rc = "OK" =>
                         /\ Len(b[k].argv) = k
                         /\ \A j \in 1..k : b[k].argv[j] = ws[j]
<1>3. Whole(0)
  BY <1>1 DEF EmptyBuff
<1>4. ASSUME NEW k \in 1..Len(ws), Whole(k - 1) PROVE Whole(k)
  <2>1. SUFFICES ASSUME b[k].rc = "OK"
                 PROVE  Len(b[k].argv) = k /\ \A j \in 1..k : b[k].argv[j] = ws[j]
    OBVIOUS
  <2>2. PICK c \in Buffs(W) : c = b[k - 1] /\ b[k] = WordP2(c, ws[k])
    BY <1>1, <1>2
  <2>3. PICK can \in BuffCodes : can = CanInsertP2(c.argv, Len(ws[k]))
    BY DEF CanInsertP2, BuffCodes
  <2>4. PICK argv \in Seq(W) : argv = c.argv
    BY DEF Buffs
  <2>5. c.rc = "OK" /\ b[k].argv = Append(argv, ws[k])
    BY <2>1, <2>2, <2>3, <2>4 DEF WordP2, Insert, Buffs, BuffCodes
  <2>6. Len(argv) = k - 1 /\ \A j \in 1..(k - 1) : argv[j] = ws[j]
    BY <1>4, <2>2, <2>4, <2>5
  <2>7. ws[k] \in W /\ k \in Nat
    OBVIOUS
  <2>8. Len(Append(argv, ws[k])) = k /\ \A j \in 1..k : Append(argv, ws[k])[j] = ws[j]
    BY <2>6, <2>7
  <2> QED
    BY <2>5, <2>8
<1>5. PICK P : P = {k \in 0..Len(ws) : Whole(k)}
  OBVIOUS
<1> HIDE DEF Whole
<1>6. \A k \in 0..Len(ws) : k \in P
  <2>1. PICK n \in Nat : n = Len(ws)
    BY <1>2
  <2>2. 0 \in P
    BY <1>2, <1>3, <1>5
  <2>3. \A k \in 1..n : k - 1 \in P => k \in P
    <3>1. ASSUME NEW k \in 1..n, k - 1 \in P PROVE k \in P
      <4>1. k \in 1..Len(ws) /\ k \in 0..Len(ws) /\ Whole(k - 1)
        BY <1>5, <2>1, <3>1
      <4> QED
        BY <1>4, <1>5, <4>1
    <3> QED
      BY <3>1
  <2>4. \A k \in 0..n : k \in P
    BY <2>2, <2>3, UpTo
  <2> QED
    BY <2>1, <2>4
<1>7. Whole(Len(ws))
  BY <1>2, <1>5, <1>6
<1>8. PICK c \in Buffs(W) : c = b[Len(ws)]
  BY <1>2
<1>9. c.rc = "OK" => c.argv = ws
  <2>1. PICK argv \in Seq(W) : argv = c.argv
    BY DEF Buffs
  <2>2. c.rc = "OK" => Len(argv) = Len(ws) /\ \A j \in 1..Len(ws) : argv[j] = ws[j]
    BY <1>7, <1>8, <2>1 DEF Whole
  <2> QED
    BY <2>1, <2>2
<1> QED
  BY <1>1, <1>8, <1>9

-----------------------------------------------------------------------------
(* Splitting and formatting: what comes out are sequences of characters and  *)
(* as many pieces as there are separators, and one.                          *)

LEMMA TrimType ==
  ASSUME NEW S, NEW s \in Seq(S)
  PROVE  Trim(s) \in Seq(S)
<1>1. PICK solid : solid = {i \in DOMAIN s : s[i] \notin Spaces}
  OBVIOUS
<1>2. Len(s) \in Nat /\ DOMAIN s = 1..Len(s)
  OBVIOUS
<1>3. CASE solid = {}
  BY <1>1, <1>3 DEF Trim
<1>4. CASE solid # {}
  <2>1. solid \in SUBSET Nat /\ solid \in SUBSET (1..Len(s))
    BY <1>1, <1>2
  <2>2. \E i \in solid : \A j \in solid : i <= j
    BY <1>4, <2>1, LeastNatural
  <2>3. PICK i \in solid : i = CHOOSE k \in solid : \A m \in solid : k <= m
    BY <2>2
  <2>4. PICK n \in Nat : n = Len(s)
    BY <1>2
  <2>5. Max(solid) \in solid
    BY <1>4, <2>1, <2>4, MaxFacts
  <2>6. PICK j \in solid : j = CHOOSE k \in solid : \A m \in solid : k >= m
    BY <2>5 DEF Max
  <2>7. Trim(s) = SubSeq(s, i, j)
    BY <1>1, <1>4, <2>3, <2>6 DEF Trim
  <2>8. i \in 1..Len(s) /\ j \in 1..Len(s)
    BY <2>1
  <2> QED
    BY <2>7, <2>8
<1> QED
  BY <1>3, <1>4

\* What format_cmd_line() holds while it copies characters of S.
Formats(S) == [out : Seq(S \cup {"nul"}), quoted : BOOLEAN, space : BOOLEAN]

LEMMA FormattingType ==
  ASSUME NEW S
  PROVE  Formatting \in Formats(S)
BY DEF Formatting, Formats

LEMMA FormatCharType ==
  ASSUME NEW S, NEW f \in Formats(S), NEW ch \in S, NEW resets \in BOOLEAN
  PROVE  FormatChar(f, ch, resets) \in Formats(S)
<1>1. PICK out \in Seq(S \cup {"nul"}), q \in BOOLEAN, sp \in BOOLEAN :
        f = [out |-> out, quoted |-> q, space |-> sp]
  BY DEF Formats
<1>2. Append(out, ch) \in Seq(S \cup {"nul"}) /\ Append(out, "nul") \in Seq(S \cup {"nul"})
  OBVIOUS
<1> QED
  BY <1>1, <1>2 DEF FormatChar, Formats, Spaces

LEMMA FormatWalkP4 ==
  ASSUME NEW S, NEW s \in Seq(S)
  PROVE  \E b \in [0..Len(Trim(s)) -> Formats(S)] :
           /\ b[0] = Formatting
           /\ b[Len(Trim(s))].out = FormatP4(s)
           /\ \A k \in 1..Len(Trim(s)) : b[k] = FormatChar(b[k - 1], Trim(s)[k], TRUE)
<1>1. Len(Trim(s)) \in Nat /\ DOMAIN Trim(s) = 1..Len(Trim(s)) /\ \A i \in 1..Len(Trim(s)) : Trim(s)[i] \in S
  BY TrimType
<1>2. PICK step : step = [p \in Formats(S) \X (1..Len(Trim(s))) |-> FormatChar(p[1], Trim(s)[p[2]], TRUE)]
  OBVIOUS
<1>3. /\ step \in [Formats(S) \X (1..Len(Trim(s))) -> Formats(S)]
      /\ \A c \in Formats(S), i \in 1..Len(Trim(s)) : step[<<c, i>>] = FormatChar(c, Trim(s)[i], TRUE)
  BY <1>1, <1>2, FormatCharType
<1>4. PICK n \in Nat : n = Len(Trim(s))
  BY <1>1
<1>5. PICK base \in Formats(S) : base = Formatting
  BY FormattingType
<1>6. step \in [Formats(S) \X (1..n) -> Formats(S)]
  BY <1>3, <1>4
<1>7. PICK g : Folds(g, n, Formats(S), base, step)
  BY <1>6, FoldExists
<1>8. g = [ps \in SUBSET (1..n) |->
             IF ps = {} THEN Formatting ELSE FormatChar(g[ps \ {Max(ps)}], Trim(s)[Max(ps)], TRUE)]
  <2>1. ASSUME NEW ps \in SUBSET (1..n), ps # {}
        PROVE  g[ps] = FormatChar(g[ps \ {Max(ps)}], Trim(s)[Max(ps)], TRUE)
    <3>1. Max(ps) \in ps
      BY <2>1, MaxFacts
    <3>2. g[ps \ {Max(ps)}] \in Formats(S) /\ Max(ps) \in 1..Len(Trim(s))
      BY <1>4, <1>7, <3>1 DEF Folds
    <3> QED
      BY <1>3, <1>7, <2>1, <3>2 DEF Folds
  <2> QED
    BY <1>5, <1>7, <2>1 DEF Folds
<1>9. PICK it :
        /\ it = [ps \in SUBSET (1..n) |->
                   IF ps = {} THEN Formatting ELSE FormatChar(it[ps \ {Max(ps)}], Trim(s)[Max(ps)], TRUE)]
        /\ FormatP4(s) = it[1..n].out
  BY <1>1, <1>4, <1>8 DEF FormatP4, FoldLeft, MapThenFoldSet
<1>10. StepsIn(it, n, Formats(S), base, step)
  <2>1. it[{}] = base
    BY <1>5, <1>9
  <2>2. ASSUME NEW ps \in SUBSET (1..n), ps # {}, it[ps \ {Max(ps)}] \in Formats(S)
        PROVE  it[ps] = step[<<it[ps \ {Max(ps)}], Max(ps)>>]
    <3>1. Max(ps) \in ps
      BY <2>2, MaxFacts
    <3> QED
      BY <1>3, <1>4, <1>9, <2>2, <3>1
  <2> QED
    BY <2>1, <2>2 DEF StepsIn
<1>11. PICK b : Walks(b, n, Formats(S), base, step, it)
  BY <1>6, <1>10, FoldPrefixes
<1>12. ASSUME NEW k \in 1..n PROVE b[k] = FormatChar(b[k - 1], Trim(s)[k], TRUE)
  <2>1. b[k - 1] \in Formats(S) /\ b[k] = step[<<b[k - 1], k>>]
    BY <1>11 DEF Walks
  <2> QED
    BY <1>3, <1>4, <2>1
<1> QED
  BY <1>4, <1>5, <1>9, <1>11, <1>12 DEF Walks

LEMMA FormatWalkP3 ==
  ASSUME NEW S, NEW s \in Seq(S)
  PROVE  \E b \in [0..Len(Trim(s)) -> Formats(S)] :
           /\ b[0] = Formatting
           /\ b[Len(Trim(s))].out = FormatP3(s)
           /\ \A k \in 1..Len(Trim(s)) : b[k] = FormatChar(b[k - 1], Trim(s)[k], TRUE)
<1>1. Len(Trim(s)) \in Nat /\ DOMAIN Trim(s) = 1..Len(Trim(s)) /\ \A i \in 1..Len(Trim(s)) : Trim(s)[i] \in S
  BY TrimType
<1>2. PICK step : step = [p \in Formats(S) \X (1..Len(Trim(s))) |-> FormatChar(p[1], Trim(s)[p[2]], TRUE)]
  OBVIOUS
<1>3. /\ step \in [Formats(S) \X (1..Len(Trim(s))) -> Formats(S)]
      /\ \A c \in Formats(S), i \in 1..Len(Trim(s)) : step[<<c, i>>] = FormatChar(c, Trim(s)[i], TRUE)
  BY <1>1, <1>2, FormatCharType
<1>4. PICK n \in Nat : n = Len(Trim(s))
  BY <1>1
<1>5. PICK base \in Formats(S) : base = Formatting
  BY FormattingType
<1>6. step \in [Formats(S) \X (1..n) -> Formats(S)]
  BY <1>3, <1>4
<1>7. PICK g : Folds(g, n, Formats(S), base, step)
  BY <1>6, FoldExists
<1>8. g = [ps \in SUBSET (1..n) |->
             IF ps = {} THEN Formatting ELSE FormatChar(g[ps \ {Max(ps)}], Trim(s)[Max(ps)], TRUE)]
  <2>1. ASSUME NEW ps \in SUBSET (1..n), ps # {}
        PROVE  g[ps] = FormatChar(g[ps \ {Max(ps)}], Trim(s)[Max(ps)], TRUE)
    <3>1. Max(ps) \in ps
      BY <2>1, MaxFacts
    <3>2. g[ps \ {Max(ps)}] \in Formats(S) /\ Max(ps) \in 1..Len(Trim(s))
      BY <1>4, <1>7, <3>1 DEF Folds
    <3> QED
      BY <1>3, <1>7, <2>1, <3>2 DEF Folds
  <2> QED
    BY <1>5, <1>7, <2>1 DEF Folds
<1>9. PICK it :
        /\ it = [ps \in SUBSET (1..n) |->
                   IF ps = {} THEN Formatting ELSE FormatChar(it[ps \ {Max(ps)}], Trim(s)[Max(ps)], TRUE)]
        /\ FormatP3(s) = it[1..n].out
  BY <1>1, <1>4, <1>8 DEF FormatP3, FoldLeft, MapThenFoldSet
<1>10. StepsIn(it, n, Formats(S), base, step)
  <2>1. it[{}] = base
    BY <1>5, <1>9
  <2>2. ASSUME NEW ps \in SUBSET (1..n), ps # {}, it[ps \ {Max(ps)}] \in Formats(S)
        PROVE  it[ps] = step[<<it[ps \ {Max(ps)}], Max(ps)>>]
    <3>1. Max(ps) \in ps
      BY <2>2, MaxFacts
    <3> QED
      BY <1>3, <1>4, <1>9, <2>2, <3>1
  <2> QED
    BY <2>1, <2>2 DEF StepsIn
<1>11. PICK b : Walks(b, n, Formats(S), base, step, it)
  BY <1>6, <1>10, FoldPrefixes
<1>12. ASSUME NEW k \in 1..n PROVE b[k] = FormatChar(b[k - 1], Trim(s)[k], TRUE)
  <2>1. b[k - 1] \in Formats(S) /\ b[k] = step[<<b[k - 1], k>>]
    BY <1>11 DEF Walks
  <2> QED
    BY <1>3, <1>4, <2>1
<1> QED
  BY <1>4, <1>5, <1>9, <1>11, <1>12 DEF Walks

LEMMA FormatWalkP2 ==
  ASSUME NEW S, NEW s \in Seq(S)
  PROVE  \E b \in [0..Len(Trim(s)) -> Formats(S)] :
           /\ b[0] = Formatting
           /\ b[Len(Trim(s))].out = FormatP2(s)
           /\ \A k \in 1..Len(Trim(s)) : b[k] = FormatChar(b[k - 1], Trim(s)[k], FALSE)
<1>1. Len(Trim(s)) \in Nat /\ DOMAIN Trim(s) = 1..Len(Trim(s)) /\ \A i \in 1..Len(Trim(s)) : Trim(s)[i] \in S
  BY TrimType
<1>2. PICK step : step = [p \in Formats(S) \X (1..Len(Trim(s))) |-> FormatChar(p[1], Trim(s)[p[2]], FALSE)]
  OBVIOUS
<1>3. /\ step \in [Formats(S) \X (1..Len(Trim(s))) -> Formats(S)]
      /\ \A c \in Formats(S), i \in 1..Len(Trim(s)) : step[<<c, i>>] = FormatChar(c, Trim(s)[i], FALSE)
  BY <1>1, <1>2, FormatCharType
<1>4. PICK n \in Nat : n = Len(Trim(s))
  BY <1>1
<1>5. PICK base \in Formats(S) : base = Formatting
  BY FormattingType
<1>6. step \in [Formats(S) \X (1..n) -> Formats(S)]
  BY <1>3, <1>4
<1>7. PICK g : Folds(g, n, Formats(S), base, step)
  BY <1>6, FoldExists
<1>8. g = [ps \in SUBSET (1..n) |->
             IF ps = {} THEN Formatting ELSE FormatChar(g[ps \ {Max(ps)}], Trim(s)[Max(ps)], FALSE)]
  <2>1. ASSUME NEW ps \in SUBSET (1..n), ps # {}
        PROVE  g[ps] = FormatChar(g[ps \ {Max(ps)}], Trim(s)[Max(ps)], FALSE)
    <3>1. Max(ps) \in ps
      BY <2>1, MaxFacts
    <3>2. g[ps \ {Max(ps)}] \in Formats(S) /\ Max(ps) \in 1..Len(Trim(s))
      BY <1>4, <1>7, <3>1 DEF Folds
    <3> QED
      BY <1>3, <1>7, <2>1, <3>2 DEF Folds
  <2> QED
    BY <1>5, <1>7, <2>1 DEF Folds
<1>9. PICK it :
        /\ it = [ps \in SUBSET (1..n) |->
                   IF ps = {} THEN Formatting ELSE FormatChar(it[ps \ {Max(ps)}], Trim(s)[Max(ps)], FALSE)]
        /\ FormatP2(s) = it[1..n].out
  BY <1>1, <1>4, <1>8 DEF FormatP2, FoldLeft, MapThenFoldSet
<1>10. StepsIn(it, n, Formats(S), base, step)
  <2>1. it[{}] = base
    BY <1>5, <1>9
  <2>2. ASSUME NEW ps \in SUBSET (1..n), ps # {}, it[ps \ {Max(ps)}] \in Formats(S)
        PROVE  it[ps] = step[<<it[ps \ {Max(ps)}], Max(ps)>>]
    <3>1. Max(ps) \in ps
      BY <2>2, MaxFacts
    <3> QED
      BY <1>3, <1>4, <1>9, <2>2, <3>1
  <2> QED
    BY <2>1, <2>2 DEF StepsIn
<1>11. PICK b : Walks(b, n, Formats(S), base, step, it)
  BY <1>6, <1>10, FoldPrefixes
<1>12. ASSUME NEW k \in 1..n PROVE b[k] = FormatChar(b[k - 1], Trim(s)[k], FALSE)
  <2>1. b[k - 1] \in Formats(S) /\ b[k] = step[<<b[k - 1], k>>]
    BY <1>11 DEF Walks
  <2> QED
    BY <1>3, <1>4, <2>1
<1> QED
  BY <1>4, <1>5, <1>9, <1>11, <1>12 DEF Walks

LEMMA FormatType ==
  ASSUME NEW S, NEW s \in Seq(S)
  PROVE  /\ FormatP2(s) \in Seq(S \cup {"nul"})
         /\ FormatP3(s) \in Seq(S \cup {"nul"})
         /\ FormatP4(s) \in Seq(S \cup {"nul"})
<1>1. Len(Trim(s)) \in 0..Len(Trim(s))
  BY TrimType
<1>2. FormatP2(s) \in Seq(S \cup {"nul"})
  <2>1. PICK b \in [0..Len(Trim(s)) -> Formats(S)] :
          /\ b[0] = Formatting
          /\ b[Len(Trim(s))].out = FormatP2(s)
          /\ \A k \in 1..Len(Trim(s)) : b[k] = FormatChar(b[k - 1], Trim(s)[k], FALSE)
    BY FormatWalkP2
  <2> QED
    BY <1>1, <2>1 DEF Formats
<1>3. FormatP3(s) \in Seq(S \cup {"nul"})
  <2>1. PICK b \in [0..Len(Trim(s)) -> Formats(S)] :
          /\ b[0] = Formatting
          /\ b[Len(Trim(s))].out = FormatP3(s)
          /\ \A k \in 1..Len(Trim(s)) : b[k] = FormatChar(b[k - 1], Trim(s)[k], TRUE)
    BY FormatWalkP3
  <2> QED
    BY <1>1, <2>1 DEF Formats
<1>4. FormatP4(s) \in Seq(S \cup {"nul"})
  <2>1. PICK b \in [0..Len(Trim(s)) -> Formats(S)] :
          /\ b[0] = Formatting
          /\ b[Len(Trim(s))].out = FormatP4(s)
          /\ \A k \in 1..Len(Trim(s)) : b[k] = FormatChar(b[k - 1], Trim(s)[k], TRUE)
    BY FormatWalkP4
  <2> QED
    BY <1>1, <2>1 DEF Formats
<1> QED
  BY <1>2, <1>3, <1>4

\* One character of Split().
Splits(S) == Seq(Seq(S)) \ {<<>>}

SplitChar(ps, ch, sep) ==
  IF ch = sep THEN Append(ps, <<>>) ELSE [ps EXCEPT ![Len(ps)] = Append(@, ch)]

LEMMA SplitCharType ==
  ASSUME NEW S, NEW ps \in Splits(S), NEW ch \in S, NEW sep
  PROVE  /\ SplitChar(ps, ch, sep) \in Splits(S)
         /\ Len(SplitChar(ps, ch, sep)) = IF ch = sep THEN Len(ps) + 1 ELSE Len(ps)
<1>1. /\ <<>> \in Seq(S) /\ Len(ps) \in Nat /\ Len(ps) > 0 /\ DOMAIN ps = 1..Len(ps)
      /\ ps \in Seq(Seq(S)) /\ ps[Len(ps)] \in Seq(S)
  BY DEF Splits
<1>2. CASE ch = sep
  <2>1. PICK e \in Seq(S) : e = <<>>
    BY <1>1
  <2>2. Append(ps, e) \in Seq(Seq(S)) /\ Len(Append(ps, e)) = Len(ps) + 1 /\ Append(ps, e) # <<>>
    BY <1>1
  <2> QED
    BY <1>2, <2>1, <2>2 DEF SplitChar, Splits
<1>3. CASE ch # sep
  <2>1. PICK w \in Seq(S) : w = Append(ps[Len(ps)], ch)
    <3>1. PICK p \in Seq(S) : p = ps[Len(ps)]
      BY <1>1
    <3>2. Append(p, ch) \in Seq(S)
      OBVIOUS
    <3> QED
      BY <3>1, <3>2
  <2>2. [ps EXCEPT ![Len(ps)] = w] \in Seq(Seq(S)) /\ Len([ps EXCEPT ![Len(ps)] = w]) = Len(ps)
    BY <1>1
  <2>3. [ps EXCEPT ![Len(ps)] = w] # <<>>
    BY <1>1, <2>2
  <2> QED
    BY <1>3, <2>1, <2>2, <2>3 DEF SplitChar, Splits
<1> QED
  BY <1>2, <1>3

LEMMA NoPieces ==
  ASSUME NEW S
  PROVE  << <<>> >> \in Splits(S)
<1>1. <<>> \in Seq(S)
  OBVIOUS
<1>2. PICK e \in Seq(S) : e = <<>>
  BY <1>1
<1>3. <<e>> \in Seq(Seq(S)) \ {<<>>}
  OBVIOUS
<1> QED
  BY <1>2, <1>3 DEF Splits

\* The walk over the characters: b[k] is what the first k of them leave.
SplitSteps(b, S, s, sep) ==
  /\ b \in [0..Len(s) -> Splits(S)]
  /\ b[0] = << <<>> >>
  /\ b[Len(s)] = Split(s, sep)
  /\ \A k \in 1..Len(s) : b[k] = SplitChar(b[k - 1], s[k], sep)

LEMMA SplitWalk ==
  ASSUME NEW S, NEW s \in Seq(S), NEW sep
  PROVE  \E b : SplitSteps(b, S, s, sep)
<1>1. Len(s) \in Nat /\ DOMAIN s = 1..Len(s) /\ \A i \in 1..Len(s) : s[i] \in S
  OBVIOUS
<1>2. PICK step : step = [p \in Splits(S) \X (1..Len(s)) |-> SplitChar(p[1], s[p[2]], sep)]
  OBVIOUS
<1>3. /\ step \in [Splits(S) \X (1..Len(s)) -> Splits(S)]
      /\ \A c \in Splits(S), i \in 1..Len(s) : step[<<c, i>>] = SplitChar(c, s[i], sep)
  BY <1>1, <1>2, SplitCharType
<1>4. PICK n \in Nat : n = Len(s)
  BY <1>1
<1>5. PICK base \in Splits(S) : base = << <<>> >>
  BY NoPieces
<1>6. step \in [Splits(S) \X (1..n) -> Splits(S)]
  BY <1>3, <1>4
<1>7. PICK g : Folds(g, n, Splits(S), base, step)
  BY <1>6, FoldExists
<1>8. g = [ps \in SUBSET (1..n) |->
             IF ps = {} THEN << <<>> >> ELSE SplitChar(g[ps \ {Max(ps)}], s[Max(ps)], sep)]
  <2>1. ASSUME NEW ps \in SUBSET (1..n), ps # {}
        PROVE  g[ps] = SplitChar(g[ps \ {Max(ps)}], s[Max(ps)], sep)
    <3>1. Max(ps) \in ps
      BY <2>1, MaxFacts
    <3>2. g[ps \ {Max(ps)}] \in Splits(S) /\ Max(ps) \in 1..Len(s)
      BY <1>4, <1>7, <3>1 DEF Folds
    <3> QED
      BY <1>3, <1>7, <2>1, <3>2 DEF Folds
  <2> QED
    BY <1>5, <1>7, <2>1 DEF Folds
<1>9. PICK it :
        /\ it = [ps \in SUBSET (1..n) |->
                   IF ps = {} THEN << <<>> >> ELSE SplitChar(it[ps \ {Max(ps)}], s[Max(ps)], sep)]
        /\ Split(s, sep) = it[1..n]
  <2>1. DOMAIN s = 1..n
    BY <1>1, <1>4
  <2>2. g = [ps \in SUBSET (DOMAIN s) |->
               IF ps = {} THEN << <<>> >> ELSE SplitChar(g[ps \ {Max(ps)}], s[Max(ps)], sep)]
    BY <1>8, <2>1
  <2>3. \E it :
          /\ it = [ps \in SUBSET (DOMAIN s) |->
                     IF ps = {} THEN << <<>> >> ELSE SplitChar(it[ps \ {Max(ps)}], s[Max(ps)], sep)]
          /\ Split(s, sep) = it[DOMAIN s]
    BY <2>2, ZenonT(30) DEF Split, SplitChar, FoldLeft, MapThenFoldSet
  <2> QED
    BY <2>1, <2>3
<1>10. StepsIn(it, n, Splits(S), base, step)
  <2>1. it[{}] = base
    BY <1>5, <1>9
  <2>2. ASSUME NEW ps \in SUBSET (1..n), ps # {}, it[ps \ {Max(ps)}] \in Splits(S)
        PROVE  it[ps] = step[<<it[ps \ {Max(ps)}], Max(ps)>>]
    <3>1. Max(ps) \in ps
      BY <2>2, MaxFacts
    <3> QED
      BY <1>3, <1>4, <1>9, <2>2, <3>1
  <2> QED
    BY <2>1, <2>2 DEF StepsIn
<1>11. PICK b : Walks(b, n, Splits(S), base, step, it)
  BY <1>6, <1>10, FoldPrefixes
<1>12. ASSUME NEW k \in 1..n PROVE b[k] = SplitChar(b[k - 1], s[k], sep)
  <2>1. b[k - 1] \in Splits(S) /\ b[k] = step[<<b[k - 1], k>>]
    BY <1>11 DEF Walks
  <2> QED
    BY <1>3, <1>4, <2>1
<1> QED
  BY <1>4, <1>5, <1>9, <1>11, <1>12 DEF Walks, SplitSteps

\* A text has one piece more than separators.
LEMMA SplitCount ==
  ASSUME NEW S, NEW s \in Seq(S), NEW sep
  PROVE  /\ Split(s, sep) \in Seq(Seq(S)) /\ Split(s, sep) # <<>>
         /\ Len(Split(s, sep)) = 1 + Cardinality({i \in DOMAIN s : s[i] = sep})
         /\ Cardinality({i \in DOMAIN s : s[i] = sep}) \in Nat
<1>1. PICK b :
        /\ b \in [0..Len(s) -> Splits(S)]
        /\ b[0] = << <<>> >>
        /\ b[Len(s)] = Split(s, sep)
        /\ \A k \in 1..Len(s) : b[k] = SplitChar(b[k - 1], s[k], sep)
  <2>1. \E b : SplitSteps(b, S, s, sep)
    BY SplitWalk
  <2> QED
    BY <2>1 DEF SplitSteps
<1>2. Len(s) \in Nat /\ DOMAIN s = 1..Len(s) /\ \A i \in 1..Len(s) : s[i] \in S
  OBVIOUS
<1> DEFINE At(k) == {i \in 1..k : s[i] = sep}
           Counted(k) == Len(b[k]) = 1 + Cardinality(At(k)) /\ Cardinality(At(k)) \in Nat /\ IsFiniteSet(At(k))
<1>3. Counted(0)
  <2>1. At(0) = {}
    OBVIOUS
  <2>2. Len(b[0]) = 1
    BY <1>1
  <2> QED
    BY <2>1, <2>2, FS_EmptySet
<1>4. ASSUME NEW k \in 1..Len(s), Counted(k - 1) PROVE Counted(k)
  <2>1. b[k - 1] \in Splits(S) /\ s[k] \in S /\ b[k] = SplitChar(b[k - 1], s[k], sep)
    BY <1>1, <1>2
  <2>2. Len(b[k]) = IF s[k] = sep THEN Len(b[k - 1]) + 1 ELSE Len(b[k - 1])
    <3>1. PICK c \in Splits(S) : c = b[k - 1]
      BY <2>1
    <3>2. PICK ch \in S : ch = s[k]
      BY <2>1
    <3>3. Len(SplitChar(c, ch, sep)) = IF ch = sep THEN Len(c) + 1 ELSE Len(c)
      BY SplitCharType
    <3> QED
      BY <2>1, <3>1, <3>2, <3>3
  <2>3. k \notin At(k - 1) /\ k \in Nat
    OBVIOUS
  <2>4. CASE s[k] = sep
    <3>1. At(k) = At(k - 1) \cup {k}
      BY <2>3, <2>4
    <3> HIDE DEF At
    <3>2. IsFiniteSet(At(k)) /\ Cardinality(At(k)) = Cardinality(At(k - 1)) + 1
      BY <1>4, <2>3, <3>1, FS_AddElement
    <3> QED
      BY <1>4, <2>2, <2>4, <3>2
  <2>5. CASE s[k] # sep
    <3>1. At(k) = At(k - 1)
      BY <2>3, <2>5
    <3> HIDE DEF At
    <3> QED
      BY <1>4, <2>2, <2>5, <3>1
  <2> QED
    BY <2>4, <2>5
<1>5. PICK P : P = {k \in 0..Len(s) : Counted(k)}
  OBVIOUS
<1> HIDE DEF Counted
<1>6. PICK n \in Nat : n = Len(s)
  BY <1>2
<1>7. 0 \in P
  BY <1>3, <1>5, <1>6
<1>8. ASSUME NEW k \in 1..n, k - 1 \in P PROVE k \in P
  <2>1. k \in 1..Len(s) /\ k \in 0..Len(s) /\ Counted(k - 1)
    BY <1>5, <1>6, <1>8
  <2> QED
    BY <1>4, <1>5, <2>1
<1>9. \A k \in 0..n : k \in P
  BY <1>7, <1>8, UpTo
<1>10. Counted(n)
  BY <1>5, <1>9
<1>11. At(n) = {i \in DOMAIN s : s[i] = sep}
  BY <1>2, <1>6
<1>12. b[n] \in Splits(S) /\ b[n] = Split(s, sep)
  BY <1>1, <1>6
<1>13. Split(s, sep) \in Splits(S)
  BY <1>12
<1> HIDE DEF At
<1>14. Len(Split(s, sep)) = 1 + Cardinality(At(n)) /\ Cardinality(At(n)) \in Nat
  BY <1>10, <1>12 DEF Counted
<1> QED
  BY <1>11, <1>13, <1>14 DEF Splits

\* One piece of Tokens().
Token(ts, p) == IF p = <<>> THEN ts ELSE Append(ts, p)

\* What strtok() has given: texts that are not empty.
Texts(S) == Seq(Seq(S) \ {<<>>})

LEMMA TokenType ==
  ASSUME NEW S, NEW ts \in Texts(S), NEW p \in Seq(S)
  PROVE  Token(ts, p) \in Texts(S) /\ Len(Token(ts, p)) <= Len(ts) + 1
<1>1. Len(ts) \in Nat
  BY DEF Texts
<1>2. CASE p = <<>>
  BY <1>1, <1>2 DEF Token
<1>3. CASE p # <<>>
  <2>1. PICK e \in Seq(S) \ {<<>>} : e = p
    BY <1>3
  <2>2. Append(ts, e) \in Texts(S) /\ Len(Append(ts, e)) = Len(ts) + 1
    BY DEF Texts
  <2> QED
    BY <1>1, <1>3, <2>1, <2>2 DEF Token
<1> QED
  BY <1>2, <1>3

\* The walk over the pieces: b[k] is what the first k of them leave.
TokenSteps(b, S, s, ps, n) ==
  /\ b \in [0..n -> Texts(S)]
  /\ b[0] = <<>>
  /\ b[n] = Tokens(s)
  /\ \A k \in 1..n : b[k] = Token(b[k - 1], ps[k])

LEMMA TokenWalk ==
  ASSUME NEW S, NEW s, NEW n \in Nat, NEW ps \in [1..n -> Seq(S)], ps = Split(s, "pipe")
  PROVE  \E b : TokenSteps(b, S, s, ps, n)
<1>1. DOMAIN ps = 1..n /\ \A i \in 1..n : ps[i] \in Seq(S)
  OBVIOUS
<1>2. PICK step : step = [p \in Texts(S) \X (1..n) |-> Token(p[1], ps[p[2]])]
  OBVIOUS
<1>3. /\ step \in [Texts(S) \X (1..n) -> Texts(S)]
      /\ \A c \in Texts(S), i \in 1..n : step[<<c, i>>] = Token(c, ps[i])
  BY <1>1, <1>2, TokenType
<1>4. PICK base \in Texts(S) : base = <<>>
  <2>1. <<>> \in Texts(S)
    BY DEF Texts
  <2> QED
    BY <2>1
<1>5. PICK g : Folds(g, n, Texts(S), base, step)
  BY <1>3, FoldExists
<1>6. g = [qs \in SUBSET (1..n) |->
             IF qs = {} THEN <<>> ELSE Token(g[qs \ {Max(qs)}], ps[Max(qs)])]
  <2>1. ASSUME NEW qs \in SUBSET (1..n), qs # {}
        PROVE  g[qs] = Token(g[qs \ {Max(qs)}], ps[Max(qs)])
    <3>1. Max(qs) \in qs
      BY <2>1, MaxFacts
    <3>2. g[qs \ {Max(qs)}] \in Texts(S) /\ Max(qs) \in 1..n
      BY <1>5, <3>1 DEF Folds
    <3> QED
      BY <1>3, <1>5, <2>1, <3>2 DEF Folds
  <2> QED
    BY <1>4, <1>5, <2>1 DEF Folds
<1>7. PICK it :
        /\ it = [qs \in SUBSET (1..n) |->
                   IF qs = {} THEN <<>> ELSE Token(it[qs \ {Max(qs)}], ps[Max(qs)])]
        /\ Tokens(s) = it[1..n]
  <2>1. ps = Split(s, "pipe") /\ DOMAIN Split(s, "pipe") = 1..n
    BY <1>1
  <2>2. g = [qs \in SUBSET (DOMAIN Split(s, "pipe")) |->
               IF qs = {} THEN <<>> ELSE Token(g[qs \ {Max(qs)}], Split(s, "pipe")[Max(qs)])]
    BY <1>6, <2>1
  <2>3. \E it :
          /\ it = [qs \in SUBSET (DOMAIN Split(s, "pipe")) |->
                     IF qs = {} THEN <<>>
                     ELSE Token(it[qs \ {Max(qs)}], Split(s, "pipe")[Max(qs)])]
          /\ Tokens(s) = it[DOMAIN Split(s, "pipe")]
    BY <2>2, ZenonT(30) DEF Tokens, Token, FoldLeft, MapThenFoldSet
  <2> QED
    BY <2>1, <2>3
<1>8. StepsIn(it, n, Texts(S), base, step)
  <2>1. it[{}] = base
    BY <1>4, <1>7
  <2>2. ASSUME NEW qs \in SUBSET (1..n), qs # {}, it[qs \ {Max(qs)}] \in Texts(S)
        PROVE  it[qs] = step[<<it[qs \ {Max(qs)}], Max(qs)>>]
    <3>1. Max(qs) \in qs
      BY <2>2, MaxFacts
    <3> QED
      BY <1>3, <1>7, <2>2, <3>1
  <2> QED
    BY <2>1, <2>2 DEF StepsIn
<1>9. PICK b : Walks(b, n, Texts(S), base, step, it)
  BY <1>3, <1>8, FoldPrefixes
<1>10. ASSUME NEW k \in 1..n PROVE b[k] = Token(b[k - 1], ps[k])
  <2>1. b[k - 1] \in Texts(S) /\ b[k] = step[<<b[k - 1], k>>]
    BY <1>9 DEF Walks
  <2> QED
    BY <1>3, <2>1
<1>11. TokenSteps(b, S, s, ps, n)
  BY <1>4, <1>7, <1>9, <1>10 DEF Walks, TokenSteps
<1> QED
  BY <1>11

\* Of the pieces strtok() gives those that are not empty.
LEMMA TokensFew ==
  ASSUME NEW S, NEW s \in Seq(S)
  PROVE  /\ Tokens(s) \in Seq(Seq(S) \ {<<>>})
         /\ Len(Tokens(s)) <= 1 + Pipes(s)
         /\ Pipes(s) \in Nat
<1>1. PICK ps : ps = Split(s, "pipe")
  OBVIOUS
<1>2. ps \in Seq(Seq(S)) /\ Len(ps) = 1 + Pipes(s) /\ Pipes(s) \in Nat
  BY <1>1, SplitCount DEF Pipes
<1>3. PICK n \in Nat : n = Len(ps) /\ DOMAIN ps = 1..n
  BY <1>2
<1>4. PICK b : TokenSteps(b, S, s, ps, n)
  <2>1. ps \in [1..n -> Seq(S)]
    BY <1>2, <1>3
  <2> QED
    BY <1>1, <2>1, TokenWalk
<1>5. /\ b \in [0..n -> Texts(S)] /\ b[0] = <<>> /\ b[n] = Tokens(s)
      /\ \A k \in 1..n : b[k] = Token(b[k - 1], ps[k])
  BY <1>4 DEF TokenSteps
<1>6. PICK P : P = {k \in 0..n : Len(b[k]) <= k}
  OBVIOUS
<1>7. 0 \in P
  <2>1. Len(b[0]) = 0
    BY <1>5
  <2> QED
    BY <1>6, <2>1
<1>8. ASSUME NEW k \in 1..n, k - 1 \in P PROVE k \in P
  <2>1. PICK c \in Texts(S) : c = b[k - 1]
    BY <1>5
  <2>2. ps[k] \in Seq(S)
    BY <1>2, <1>3
  <2>3. b[k] \in Texts(S) /\ b[k] = Token(c, ps[k])
    BY <1>5, <2>1
  <2>4. Len(c) \in Nat /\ Len(c) <= k - 1
    BY <1>6, <1>8, <2>1 DEF Texts
  <2>5. PICK d \in Texts(S) : d = b[k] /\ Len(d) <= Len(c) + 1
    BY <2>2, <2>3, TokenType
  <2>6. Len(d) \in Nat /\ Len(d) <= k
    BY <2>4, <2>5 DEF Texts
  <2> QED
    BY <1>6, <2>5, <2>6
<1>9. \A k \in 0..n : k \in P
  BY <1>7, <1>8, UpTo
<1>10. n \in P /\ b[n] \in Texts(S)
  BY <1>5, <1>9
<1>11. Tokens(s) \in Texts(S) /\ Len(Tokens(s)) <= n
  BY <1>5, <1>6, <1>10
<1> QED
  BY <1>2, <1>3, <1>11 DEF Texts

-----------------------------------------------------------------------------
(* Whole lines.                                                            *)

\* What is built from a text of the characters S.
Built(S) == Buffs(Seq(S \cup {"nul"}))

LEMMA BuildType ==
  ASSUME NEW S, NEW s \in Seq(S)
  PROVE  BuildP2(s) \in Built(S) /\ BuildP3(s) \in Built(S) /\ BuildP4(s) \in Built(S)
<1>1. PICK W : W = Seq(S \cup {"nul"})
  OBVIOUS
<1>2. NoFile \in W
  BY <1>1 DEF NoFile
<1>3. PICK f \in Seq(S \cup {"nul"}) : f = FormatP2(s)
  BY FormatType
<1>4. PICK g \in Seq(S \cup {"nul"}) : g = FormatP3(s)
  BY FormatType
<1>5. PICK h \in Seq(S \cup {"nul"}) : h = FormatP4(s)
  BY FormatType
<1>6. PICK us \in Seq(W) : us = Split(f, "nul")
  BY <1>1, SplitCount
<1>7. PICK vs \in Seq(W) : vs = Split(g, "nul")
  BY <1>1, SplitCount
<1>8. PICK ws \in Seq(W) : ws = Split(h, "nul")
  BY <1>1, SplitCount
<1>9. FoldLeft(WordP2, EmptyBuff, us) \in Buffs(W)
  BY <1>2, WholeP2
<1>10. FoldLeft(WordP3, EmptyBuff, vs) \in Buffs(W)
  <2>1. PICK b \in [0..Len(vs) -> Buffs(W)] : b[Len(vs)] = FoldLeft(WordP3, EmptyBuff, vs)
    BY <1>2, WalkP3
  <2>2. Len(vs) \in 0..Len(vs)
    OBVIOUS
  <2> QED
    BY <2>1, <2>2
<1>11. FoldLeft(WordP4, EmptyBuff, ws) \in Buffs(W)
  <2>1. PICK b \in [0..Len(ws) -> Buffs(W)] : b[Len(ws)] = FoldLeft(WordP4, EmptyBuff, ws)
    BY <1>2, WalkP4
  <2>2. Len(ws) \in 0..Len(ws)
    OBVIOUS
  <2> QED
    BY <2>1, <2>2
<1>12. [EmptyBuff EXCEPT !.rc = "WARN_NO_CMDS"] \in Buffs(W)
  <2>1. EmptyBuff \in Buffs(W)
    BY <1>2, EmptyBuffType
  <2> QED
    BY <2>1 DEF Buffs, BuffCodes
<1>13. BuildP3(s) \in Buffs(W) /\ BuildP4(s) \in Buffs(W)
  BY <1>4, <1>5, <1>7, <1>8, <1>10, <1>11 DEF BuildP3, BuildP4
<1>14. BuildP2(s) \in Buffs(W)
  BY <1>3, <1>6, <1>9, <1>12 DEF BuildP2
<1> QED
  BY <1>1, <1>13, <1>14 DEF Built

\* A list of commands B, and the words of a line.
Lists(B) == [rc : BuffCodes \cup {"ERR_TOO_MANY_COMMANDS"}, cmds : Seq(B)]
Parts(S) == Seq(S) \ {<<>>}

LEMMA EmptyListType ==
  ASSUME NEW B
  PROVE  EmptyList \in Lists(B) /\ Len(EmptyList.cmds) = 0
BY DEF EmptyList, Lists, BuffCodes

LEMMA AddType ==
  ASSUME NEW B, NEW l \in Lists(B), NEW b, b.rc \in BuffCodes, b.rc = "OK" => b \in B
  PROVE  /\ AddCommand(l, b) \in Lists(B)
         /\ Len(l.cmds) \in Nat /\ Len(AddCommand(l, b).cmds) <= Len(l.cmds) + 1
<1>1. PICK cs \in Seq(B) : cs = l.cmds
  BY DEF Lists
<1>2. CASE l.rc = "OK" /\ b.rc = "OK"
  <2>1. AddCommand(l, b) = [l EXCEPT !.cmds = Append(cs, b)]
    BY <1>1, <1>2 DEF AddCommand
  <2>2. Append(cs, b) \in Seq(B) /\ Len(Append(cs, b)) = Len(cs) + 1 /\ Len(cs) \in Nat
    BY <1>2
  <2> QED
    BY <1>1, <2>1, <2>2 DEF Lists
<1>3. CASE l.rc = "OK" /\ b.rc # "OK"
  <2>1. AddCommand(l, b) = [l EXCEPT !.rc = b.rc]
    BY <1>3 DEF AddCommand
  <2>2. AddCommand(l, b) \in Lists(B) /\ AddCommand(l, b).cmds = cs /\ Len(cs) \in Nat
    BY <1>1, <2>1 DEF Lists
  <2> QED
    BY <1>1, <2>2
<1>4. CASE l.rc # "OK"
  <2>1. AddCommand(l, b) = l
    BY <1>4 DEF AddCommand
  <2>2. Len(cs) \in Nat
    OBVIOUS
  <2> QED
    BY <1>1, <2>1, <2>2
<1> QED
  BY <1>2, <1>3, <1>4

LEMMA AddBuilt ==
  ASSUME NEW S, NEW l \in Lists(Built(S)), NEW t \in Parts(S)
  PROVE  /\ AddCommand(l, BuildP3(t)) \in Lists(Built(S)) /\ AddCommand(l, BuildP4(t)) \in Lists(Built(S))
         /\ Len(l.cmds) \in Nat
         /\ Len(AddCommand(l, BuildP3(t)).cmds) <= Len(l.cmds) + 1
         /\ Len(AddCommand(l, BuildP4(t)).cmds) <= Len(l.cmds) + 1
<1>1. BuildP3(t) \in Built(S) /\ BuildP4(t) \in Built(S)
  BY BuildType DEF Parts
<1>2. PICK b \in Built(S) : b = BuildP3(t)
  BY <1>1
<1>3. PICK c \in Built(S) : c = BuildP4(t)
  BY <1>1
<1>4. b.rc \in BuffCodes /\ c.rc \in BuffCodes
  BY DEF Built, Buffs
<1>5. AddCommand(l, b) \in Lists(Built(S)) /\ Len(l.cmds) \in Nat /\ Len(AddCommand(l, b).cmds) <= Len(l.cmds) + 1
  BY <1>4, AddType
<1>6. AddCommand(l, c) \in Lists(Built(S)) /\ Len(AddCommand(l, c).cmds) <= Len(l.cmds) + 1
  BY <1>4, AddType
<1> QED
  BY <1>2, <1>3, <1>5, <1>6

\* build_cmd_list() of 5-ShellP3 takes one piece after the other.
LEMMA ListWalkP3 ==
  ASSUME NEW S, NEW ts \in Seq(Parts(S))
  PROVE  \E b \in [0..Len(ts) -> Lists(Built(S))] :
           /\ b[0] = EmptyList
           /\ b[Len(ts)] = FoldLeft(LAMBDA l, t : AddCommand(l, BuildP3(t)), EmptyList, ts)
           /\ \A k \in 1..Len(ts) : b[k] = AddCommand(b[k - 1], BuildP3(ts[k]))
<1>1. Len(ts) \in Nat /\ DOMAIN ts = 1..Len(ts) /\ \A i \in 1..Len(ts) : ts[i] \in Parts(S)
  OBVIOUS
<1>2. PICK step : step = [p \in Lists(Built(S)) \X (1..Len(ts)) |-> AddCommand(p[1], BuildP3(ts[p[2]]))]
  OBVIOUS
<1>3. /\ step \in [Lists(Built(S)) \X (1..Len(ts)) -> Lists(Built(S))]
      /\ \A c \in Lists(Built(S)), i \in 1..Len(ts) : step[<<c, i>>] = AddCommand(c, BuildP3(ts[i]))
  BY <1>1, <1>2, AddBuilt
<1>4. PICK n \in Nat : n = Len(ts)
  BY <1>1
<1>5. PICK base \in Lists(Built(S)) : base = EmptyList
  BY EmptyListType
<1>6. step \in [Lists(Built(S)) \X (1..n) -> Lists(Built(S))]
  BY <1>3, <1>4
<1>7. PICK g : Folds(g, n, Lists(Built(S)), base, step)
  BY <1>6, FoldExists
<1>8. g = [ps \in SUBSET (1..n) |->
             IF ps = {} THEN EmptyList ELSE AddCommand(g[ps \ {Max(ps)}], BuildP3(ts[Max(ps)]))]
  <2>1. ASSUME NEW ps \in SUBSET (1..n), ps # {}
        PROVE  g[ps] = AddCommand(g[ps \ {Max(ps)}], BuildP3(ts[Max(ps)]))
    <3>1. Max(ps) \in ps
      BY <2>1, MaxFacts
    <3>2. g[ps \ {Max(ps)}] \in Lists(Built(S)) /\ Max(ps) \in 1..Len(ts)
      BY <1>4, <1>7, <3>1 DEF Folds
    <3> QED
      BY <1>3, <1>7, <2>1, <3>2 DEF Folds
  <2> QED
    BY <1>5, <1>7, <2>1 DEF Folds
<1>9. PICK it :
        /\ it = [ps \in SUBSET (1..n) |->
                   IF ps = {} THEN EmptyList ELSE AddCommand(it[ps \ {Max(ps)}], BuildP3(ts[Max(ps)]))]
        /\ FoldLeft(LAMBDA l, t : AddCommand(l, BuildP3(t)), EmptyList, ts) = it[1..n]
  BY <1>1, <1>4, <1>8 DEF FoldLeft, MapThenFoldSet
<1>10. StepsIn(it, n, Lists(Built(S)), base, step)
  <2>1. it[{}] = base
    BY <1>5, <1>9
  <2>2. ASSUME NEW ps \in SUBSET (1..n), ps # {}, it[ps \ {Max(ps)}] \in Lists(Built(S))
        PROVE  it[ps] = step[<<it[ps \ {Max(ps)}], Max(ps)>>]
    <3>1. Max(ps) \in ps
      BY <2>2, MaxFacts
    <3> QED
      BY <1>3, <1>4, <1>9, <2>2, <3>1
  <2> QED
    BY <2>1, <2>2 DEF StepsIn
<1>11. PICK b : Walks(b, n, Lists(Built(S)), base, step, it)
  BY <1>6, <1>10, FoldPrefixes
<1>12. ASSUME NEW k \in 1..n PROVE b[k] = AddCommand(b[k - 1], BuildP3(ts[k]))
  <2>1. b[k - 1] \in Lists(Built(S)) /\ b[k] = step[<<b[k - 1], k>>]
    BY <1>11 DEF Walks
  <2> QED
    BY <1>3, <1>4, <2>1
<1> QED
  BY <1>4, <1>5, <1>9, <1>11, <1>12 DEF Walks

\* build_cmd_list() of 6-ShellP4 takes one piece after the other.
LEMMA ListWalkP4 ==
  ASSUME NEW S, NEW ts \in Seq(Parts(S))
  PROVE  \E b \in [0..Len(ts) -> Lists(Built(S))] :
           /\ b[0] = EmptyList
           /\ b[Len(ts)] = FoldLeft(LAMBDA l, t : AddCommand(l, BuildP4(t)), EmptyList, ts)
           /\ \A k \in 1..Len(ts) : b[k] = AddCommand(b[k - 1], BuildP4(ts[k]))
<1>1. Len(ts) \in Nat /\ DOMAIN ts = 1..Len(ts) /\ \A i \in 1..Len(ts) : ts[i] \in Parts(S)
  OBVIOUS
<1>2. PICK step : step = [p \in Lists(Built(S)) \X (1..Len(ts)) |-> AddCommand(p[1], BuildP4(ts[p[2]]))]
  OBVIOUS
<1>3. /\ step \in [Lists(Built(S)) \X (1..Len(ts)) -> Lists(Built(S))]
      /\ \A c \in Lists(Built(S)), i \in 1..Len(ts) : step[<<c, i>>] = AddCommand(c, BuildP4(ts[i]))
  BY <1>1, <1>2, AddBuilt
<1>4. PICK n \in Nat : n = Len(ts)
  BY <1>1
<1>5. PICK base \in Lists(Built(S)) : base = EmptyList
  BY EmptyListType
<1>6. step \in [Lists(Built(S)) \X (1..n) -> Lists(Built(S))]
  BY <1>3, <1>4
<1>7. PICK g : Folds(g, n, Lists(Built(S)), base, step)
  BY <1>6, FoldExists
<1>8. g = [ps \in SUBSET (1..n) |->
             IF ps = {} THEN EmptyList ELSE AddCommand(g[ps \ {Max(ps)}], BuildP4(ts[Max(ps)]))]
  <2>1. ASSUME NEW ps \in SUBSET (1..n), ps # {}
        PROVE  g[ps] = AddCommand(g[ps \ {Max(ps)}], BuildP4(ts[Max(ps)]))
    <3>1. Max(ps) \in ps
      BY <2>1, MaxFacts
    <3>2. g[ps \ {Max(ps)}] \in Lists(Built(S)) /\ Max(ps) \in 1..Len(ts)
      BY <1>4, <1>7, <3>1 DEF Folds
    <3> QED
      BY <1>3, <1>7, <2>1, <3>2 DEF Folds
  <2> QED
    BY <1>5, <1>7, <2>1 DEF Folds
<1>9. PICK it :
        /\ it = [ps \in SUBSET (1..n) |->
                   IF ps = {} THEN EmptyList ELSE AddCommand(it[ps \ {Max(ps)}], BuildP4(ts[Max(ps)]))]
        /\ FoldLeft(LAMBDA l, t : AddCommand(l, BuildP4(t)), EmptyList, ts) = it[1..n]
  BY <1>1, <1>4, <1>8 DEF FoldLeft, MapThenFoldSet
<1>10. StepsIn(it, n, Lists(Built(S)), base, step)
  <2>1. it[{}] = base
    BY <1>5, <1>9
  <2>2. ASSUME NEW ps \in SUBSET (1..n), ps # {}, it[ps \ {Max(ps)}] \in Lists(Built(S))
        PROVE  it[ps] = step[<<it[ps \ {Max(ps)}], Max(ps)>>]
    <3>1. Max(ps) \in ps
      BY <2>2, MaxFacts
    <3> QED
      BY <1>3, <1>4, <1>9, <2>2, <3>1
  <2> QED
    BY <2>1, <2>2 DEF StepsIn
<1>11. PICK b : Walks(b, n, Lists(Built(S)), base, step, it)
  BY <1>6, <1>10, FoldPrefixes
<1>12. ASSUME NEW k \in 1..n PROVE b[k] = AddCommand(b[k - 1], BuildP4(ts[k]))
  <2>1. b[k - 1] \in Lists(Built(S)) /\ b[k] = step[<<b[k - 1], k>>]
    BY <1>11 DEF Walks
  <2> QED
    BY <1>3, <1>4, <2>1
<1> QED
  BY <1>4, <1>5, <1>9, <1>11, <1>12 DEF Walks


\* A walk that adds at most one command at a time.
LEMMA OneByOne ==
  ASSUME NEW n \in Nat, NEW B, NEW b \in [0..n -> Lists(B)], Len(b[0].cmds) = 0,
         \A k \in 1..n : Len(b[k].cmds) <= Len(b[k - 1].cmds) + 1
  PROVE  Len(b[n].cmds) <= n
<1>1. PICK P : P = {k \in 0..n : Len(b[k].cmds) <= k}
  OBVIOUS
<1>2. 0 \in P
  BY <1>1
<1>3. ASSUME NEW k \in 1..n, k - 1 \in P PROVE k \in P
  <2>1. b[k - 1] \in Lists(B) /\ b[k] \in Lists(B) /\ k \in 0..n
    OBVIOUS
  <2>2. PICK i \in Nat : i = Len(b[k - 1].cmds)
    BY <2>1 DEF Lists
  <2>3. PICK j \in Nat : j = Len(b[k].cmds)
    BY <2>1 DEF Lists
  <2>4. i <= k - 1 /\ j <= i + 1
    BY <1>1, <1>3, <2>2, <2>3
  <2> QED
    BY <1>1, <2>1, <2>3, <2>4
<1>4. \A k \in 0..n : k \in P
  BY <1>2, <1>3, UpTo
<1> QED
  BY <1>1, <1>4

\* It stays within the list, and each of its commands within argv.
LEMMA ListFitsP3 ==
  ASSUME NEW S, NEW s \in Seq(S)
  PROVE  /\ ListP3(s) \in Lists(Built(S))
         /\ Len(ListP3(s).cmds) <= CmdMax
<1>1. PICK ts \in Seq(Parts(S)) : ts = Tokens(s)
  BY TokensFew DEF Parts
<1>2. PICK n \in Nat : n = Len(ts)
  OBVIOUS
<1>3. n <= 1 + Pipes(s) /\ Pipes(s) \in Nat /\ CmdMax \in Nat
  BY <1>1, <1>2, TokensFew, BoundsAssumption
<1>4. PICK l : l = FoldLeft(LAMBDA k, t : AddCommand(k, BuildP3(t)), EmptyList, ts)
  OBVIOUS
<1>5. l \in Lists(Built(S)) /\ Len(l.cmds) <= n
  <2>1. PICK b \in [0..Len(ts) -> Lists(Built(S))] :
          /\ b[0] = EmptyList
          /\ b[Len(ts)] = FoldLeft(LAMBDA k, t : AddCommand(k, BuildP3(t)), EmptyList, ts)
          /\ \A k \in 1..Len(ts) : b[k] = AddCommand(b[k - 1], BuildP3(ts[k]))
    BY ListWalkP3
  <2>2. b \in [0..n -> Lists(Built(S))] /\ b[n] = l /\ Len(b[0].cmds) = 0
    BY <1>2, <1>4, <2>1, EmptyListType
  <2>3. ASSUME NEW k \in 1..n PROVE Len(b[k].cmds) <= Len(b[k - 1].cmds) + 1
    <3>1. b[k - 1] \in Lists(Built(S)) /\ ts[k] \in Parts(S)
      BY <1>2, <2>2
    <3>2. PICK c \in Lists(Built(S)) : c = b[k - 1]
      BY <3>1
    <3>3. PICK t \in Parts(S) : t = ts[k]
      BY <3>1
    <3>4. b[k] = AddCommand(c, BuildP3(t))
      BY <1>2, <2>1, <3>2, <3>3
    <3> QED
      BY <3>2, <3>4, AddBuilt
  <2>4. Len(b[n].cmds) <= n
    BY <2>2, <2>3, OneByOne
  <2> QED
    BY <2>2, <2>4
<1>6. EmptyList \in Lists(Built(S)) /\ Len(EmptyList.cmds) = 0
  BY EmptyListType
<1>7. CASE s = <<>>
  <2>1. ListP3(s) = [EmptyList EXCEPT !.rc = "WARN_NO_CMDS"]
    BY <1>7 DEF ListP3
  <2> QED
    BY <1>3, <1>6, <2>1 DEF Lists, BuffCodes
<1>8. CASE s # <<>> /\ Pipes(s) >= CmdMax
  <2>1. ListP3(s) = [EmptyList EXCEPT !.rc = "ERR_TOO_MANY_COMMANDS"]
    BY <1>8 DEF ListP3
  <2> QED
    BY <1>3, <1>6, <2>1 DEF Lists, BuffCodes
<1>9. CASE s # <<>> /\ ~(Pipes(s) >= CmdMax)
  <2>1. ListP3(s) = l
    BY <1>1, <1>4, <1>9 DEF ListP3
  <2>2. PICK m \in Nat : m = Len(l.cmds)
    BY <1>5 DEF Lists
  <2>3. m <= CmdMax
    BY <1>2, <1>3, <1>5, <1>9, <2>2
  <2> QED
    BY <1>5, <2>1, <2>2, <2>3
<1> QED
  BY <1>7, <1>8, <1>9

\* It stays within the list, and each of its commands within argv.
LEMMA ListFitsP4 ==
  ASSUME NEW S, NEW s \in Seq(S)
  PROVE  /\ ListP4(s) \in Lists(Built(S))
         /\ Len(ListP4(s).cmds) <= CmdMax
<1>1. PICK ts \in Seq(Parts(S)) : ts = Tokens(s)
  BY TokensFew DEF Parts
<1>2. PICK n \in Nat : n = Len(ts)
  OBVIOUS
<1>3. n <= 1 + Pipes(s) /\ Pipes(s) \in Nat /\ CmdMax \in Nat
  BY <1>1, <1>2, TokensFew, BoundsAssumption
<1>4. PICK l : l = FoldLeft(LAMBDA k, t : AddCommand(k, BuildP4(t)), EmptyList, ts)
  OBVIOUS
<1>5. l \in Lists(Built(S)) /\ Len(l.cmds) <= n
  <2>1. PICK b \in [0..Len(ts) -> Lists(Built(S))] :
          /\ b[0] = EmptyList
          /\ b[Len(ts)] = FoldLeft(LAMBDA k, t : AddCommand(k, BuildP4(t)), EmptyList, ts)
          /\ \A k \in 1..Len(ts) : b[k] = AddCommand(b[k - 1], BuildP4(ts[k]))
    BY ListWalkP4
  <2>2. b \in [0..n -> Lists(Built(S))] /\ b[n] = l /\ Len(b[0].cmds) = 0
    BY <1>2, <1>4, <2>1, EmptyListType
  <2>3. ASSUME NEW k \in 1..n PROVE Len(b[k].cmds) <= Len(b[k - 1].cmds) + 1
    <3>1. b[k - 1] \in Lists(Built(S)) /\ ts[k] \in Parts(S)
      BY <1>2, <2>2
    <3>2. PICK c \in Lists(Built(S)) : c = b[k - 1]
      BY <3>1
    <3>3. PICK t \in Parts(S) : t = ts[k]
      BY <3>1
    <3>4. b[k] = AddCommand(c, BuildP4(t))
      BY <1>2, <2>1, <3>2, <3>3
    <3> QED
      BY <3>2, <3>4, AddBuilt
  <2>4. Len(b[n].cmds) <= n
    BY <2>2, <2>3, OneByOne
  <2> QED
    BY <2>2, <2>4
<1>6. EmptyList \in Lists(Built(S)) /\ Len(EmptyList.cmds) = 0
  BY EmptyListType
<1>7. CASE s = <<>>
  <2>1. ListP4(s) = [EmptyList EXCEPT !.rc = "WARN_NO_CMDS"]
    BY <1>7 DEF ListP4
  <2> QED
    BY <1>3, <1>6, <2>1 DEF Lists, BuffCodes
<1>8. CASE s # <<>> /\ Pipes(s) >= CmdMax
  <2>1. ListP4(s) = [EmptyList EXCEPT !.rc = "ERR_TOO_MANY_COMMANDS"]
    BY <1>8 DEF ListP4
  <2> QED
    BY <1>3, <1>6, <2>1 DEF Lists, BuffCodes
<1>9. CASE s # <<>> /\ ~(Pipes(s) >= CmdMax)
  <2>1. ListP4(s) = l
    BY <1>1, <1>4, <1>9 DEF ListP4
  <2>2. PICK m \in Nat : m = Len(l.cmds)
    BY <1>5 DEF Lists
  <2>3. m <= CmdMax
    BY <1>2, <1>3, <1>5, <1>9, <2>2
  <2> QED
    BY <1>5, <2>1, <2>2, <2>3
<1> QED
  BY <1>7, <1>8, <1>9


\* 3-ShellP1 counts the commands that are in the list already.
AddCommandP1(l, t) ==
  IF l.rc = "OK" /\ Len(l.cmds) >= CmdMax THEN [l EXCEPT !.rc = "ERR_TOO_MANY_COMMANDS"]
  ELSE AddCommand(l, CommandP1(t))

\* Its commands, and the lists of them that have room.
NamedP1(S) == {CommandP1(t) : t \in Parts(S)}
ListsP1(S) == {l \in Lists(NamedP1(S)) : Len(l.cmds) <= CmdMax}

LEMMA EmptyP1 ==
  ASSUME NEW S
  PROVE  EmptyList \in ListsP1(S)
<1>1. 0 <= CmdMax
  BY BoundsAssumption
<1> QED
  BY <1>1, EmptyListType DEF ListsP1

LEMMA AddP1Type ==
  ASSUME NEW S, NEW l \in ListsP1(S), NEW t \in Parts(S)
  PROVE  AddCommandP1(l, t) \in ListsP1(S)
<1>1. l \in Lists(NamedP1(S)) /\ Len(l.cmds) <= CmdMax /\ CmdMax \in Nat
  BY BoundsAssumption DEF ListsP1
<1>2. PICK c \in NamedP1(S) : c = CommandP1(t)
  BY DEF NamedP1
<1>3. c.rc \in BuffCodes
  BY <1>2 DEF CommandP1, BuffCodes
<1>4. AddCommand(l, c) \in Lists(NamedP1(S)) /\ Len(l.cmds) \in Nat /\ Len(AddCommand(l, c).cmds) <= Len(l.cmds) + 1
  BY <1>1, <1>3, AddType
<1>5. PICK cs \in Seq(NamedP1(S)) : cs = l.cmds
  BY <1>1 DEF Lists
<1>6. CASE l.rc = "OK" /\ Len(l.cmds) >= CmdMax
  <2>1. AddCommandP1(l, t) = [l EXCEPT !.rc = "ERR_TOO_MANY_COMMANDS"]
    BY <1>6 DEF AddCommandP1
  <2> QED
    BY <1>1, <2>1 DEF ListsP1, Lists
<1>7. CASE l.rc = "OK" /\ ~(Len(l.cmds) >= CmdMax)
  <2>1. AddCommandP1(l, t) = AddCommand(l, c)
    BY <1>2, <1>7 DEF AddCommandP1
  <2>2. PICK k \in Lists(NamedP1(S)) : k = AddCommand(l, c)
    BY <1>4
  <2>3. PICK m \in Nat : m = Len(k.cmds)
    BY DEF Lists
  <2>4. m <= CmdMax
    BY <1>1, <1>4, <1>7, <2>2, <2>3
  <2> QED
    BY <2>1, <2>2, <2>3, <2>4 DEF ListsP1
<1>8. CASE l.rc # "OK"
  <2>1. AddCommandP1(l, t) = l
    BY <1>8 DEF AddCommandP1, AddCommand
  <2> QED
    BY <2>1
<1> QED
  BY <1>6, <1>7, <1>8

LEMMA ListWalkP1 ==
  ASSUME NEW S, NEW ts \in Seq(Parts(S))
  PROVE  \E b \in [0..Len(ts) -> ListsP1(S)] :
           /\ b[0] = EmptyList
           /\ b[Len(ts)] = FoldLeft(LAMBDA l, t :
                            IF l.rc = "OK" /\ Len(l.cmds) >= CmdMax
                              THEN [l EXCEPT !.rc = "ERR_TOO_MANY_COMMANDS"]
                            ELSE AddCommand(l, CommandP1(t)),
                          EmptyList, ts)
           /\ \A k \in 1..Len(ts) : b[k] = AddCommandP1(b[k - 1], ts[k])
<1>1. Len(ts) \in Nat /\ DOMAIN ts = 1..Len(ts) /\ \A i \in 1..Len(ts) : ts[i] \in Parts(S)
  OBVIOUS
<1>2. PICK step : step = [p \in ListsP1(S) \X (1..Len(ts)) |-> AddCommandP1(p[1], ts[p[2]])]
  OBVIOUS
<1>3. /\ step \in [ListsP1(S) \X (1..Len(ts)) -> ListsP1(S)]
      /\ \A c \in ListsP1(S), i \in 1..Len(ts) : step[<<c, i>>] = AddCommandP1(c, ts[i])
  BY <1>1, <1>2, AddP1Type
<1>4. PICK n \in Nat : n = Len(ts)
  BY <1>1
<1>5. PICK base \in ListsP1(S) : base = EmptyList
  BY EmptyP1
<1>6. step \in [ListsP1(S) \X (1..n) -> ListsP1(S)]
  BY <1>3, <1>4
<1>7. PICK g : Folds(g, n, ListsP1(S), base, step)
  BY <1>6, FoldExists
<1>8. g = [ps \in SUBSET (1..n) |->
             IF ps = {} THEN EmptyList ELSE AddCommandP1(g[ps \ {Max(ps)}], ts[Max(ps)])]
  <2>1. ASSUME NEW ps \in SUBSET (1..n), ps # {}
        PROVE  g[ps] = AddCommandP1(g[ps \ {Max(ps)}], ts[Max(ps)])
    <3>1. Max(ps) \in ps
      BY <2>1, MaxFacts
    <3>2. g[ps \ {Max(ps)}] \in ListsP1(S) /\ Max(ps) \in 1..Len(ts)
      BY <1>4, <1>7, <3>1 DEF Folds
    <3> QED
      BY <1>3, <1>7, <2>1, <3>2 DEF Folds
  <2> QED
    BY <1>5, <1>7, <2>1 DEF Folds
<1>9. PICK it :
        /\ it = [ps \in SUBSET (1..n) |->
                   IF ps = {} THEN EmptyList ELSE AddCommandP1(it[ps \ {Max(ps)}], ts[Max(ps)])]
        /\ FoldLeft(LAMBDA l, t :
                            IF l.rc = "OK" /\ Len(l.cmds) >= CmdMax
                              THEN [l EXCEPT !.rc = "ERR_TOO_MANY_COMMANDS"]
                            ELSE AddCommand(l, CommandP1(t)),
                          EmptyList, ts) = it[1..n]
  <2>1. DOMAIN ts = 1..n
    BY <1>1, <1>4
  <2>2. g = [ps \in SUBSET (DOMAIN ts) |->
               IF ps = {} THEN EmptyList ELSE AddCommandP1(g[ps \ {Max(ps)}], ts[Max(ps)])]
    BY <1>8, <2>1
  <2>3. \E it :
          /\ it = [ps \in SUBSET (DOMAIN ts) |->
                     IF ps = {} THEN EmptyList ELSE AddCommandP1(it[ps \ {Max(ps)}], ts[Max(ps)])]
          /\ FoldLeft(LAMBDA l, t :
                            IF l.rc = "OK" /\ Len(l.cmds) >= CmdMax
                              THEN [l EXCEPT !.rc = "ERR_TOO_MANY_COMMANDS"]
                            ELSE AddCommand(l, CommandP1(t)),
                          EmptyList, ts) = it[DOMAIN ts]
    BY <2>2, ZenonT(30) DEF AddCommandP1, FoldLeft, MapThenFoldSet
  <2> QED
    BY <2>1, <2>3
<1>10. StepsIn(it, n, ListsP1(S), base, step)
  <2>1. it[{}] = base
    BY <1>5, <1>9
  <2>2. ASSUME NEW ps \in SUBSET (1..n), ps # {}, it[ps \ {Max(ps)}] \in ListsP1(S)
        PROVE  it[ps] = step[<<it[ps \ {Max(ps)}], Max(ps)>>]
    <3>1. Max(ps) \in ps
      BY <2>2, MaxFacts
    <3> QED
      BY <1>3, <1>4, <1>9, <2>2, <3>1
  <2> QED
    BY <2>1, <2>2 DEF StepsIn
<1>11. PICK b : Walks(b, n, ListsP1(S), base, step, it)
  BY <1>6, <1>10, FoldPrefixes
<1>12. ASSUME NEW k \in 1..n PROVE b[k] = AddCommandP1(b[k - 1], ts[k])
  <2>1. b[k - 1] \in ListsP1(S) /\ b[k] = step[<<b[k - 1], k>>]
    BY <1>11 DEF Walks
  <2> QED
    BY <1>3, <1>4, <2>1
<1> QED
  BY <1>4, <1>5, <1>9, <1>11, <1>12 DEF Walks

\* It stays within the list.
LEMMA ListFitsP1 ==
  ASSUME NEW S, NEW s \in Seq(S)
  PROVE  Len(ListP1(s).cmds) <= CmdMax
<1>1. PICK ts \in Seq(Parts(S)) : ts = Tokens(s)
  BY TokensFew DEF Parts
<1>2. PICK b \in [0..Len(ts) -> ListsP1(S)] :
        b[Len(ts)] = FoldLeft(LAMBDA l, t :
                            IF l.rc = "OK" /\ Len(l.cmds) >= CmdMax
                              THEN [l EXCEPT !.rc = "ERR_TOO_MANY_COMMANDS"]
                            ELSE AddCommand(l, CommandP1(t)),
                          EmptyList, ts)
  BY ListWalkP1
<1>3. b[Len(ts)] = ListP1(s)
  BY <1>1, <1>2 DEF ListP1
<1>4. Len(ts) \in 0..Len(ts)
  OBVIOUS
<1>5. ListP1(s) \in ListsP1(S)
  BY <1>2, <1>3, <1>4
<1> QED
  BY <1>5 DEF ListsP1

=============================================================================
