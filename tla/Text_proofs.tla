--------------------------- MODULE Text_proofs ------------------------------
(***************************************************************************)
(* Theorems about Text, for texts of any length: the command lists of the  *)
(* four shells have room for whatever is typed, the words that were typed  *)
(* are the words that format_cmd_line() leaves, an accepted command or     *)
(* pipeline has the words and files that were typed, and the first shell   *)
(* prints what was typed.                                                  *)
(***************************************************************************)
EXTENDS Text, CmdLine_proofs

\* A text is made of characters, however many pieces are typed.
TextType == program \in Programs /\ text \in Seq(Characters)

LEMMA TextTypeInvariant == Spec => []TextType
<1>1. Init => TextType
  BY DEF Init, TextType
<1>2. TextType /\ [Next]_vars => TextType'
  <2>1. ASSUME TextType, NEW p \in Pieces[program], Type(p)
        PROVE  TextType'
    <3>1. p \in Seq(Characters)
      BY <2>1, TextAssumption DEF TextType
    <3> QED
      BY <2>1, <3>1 DEF TextType, Type
  <2>2. CASE UNCHANGED vars
    BY <2>2 DEF TextType, vars
  <2> QED
    BY <2>1, <2>2 DEF Next
<1> QED
  BY <1>1, <1>2, PTL DEF Spec

\* Each of the commands of a list is a cmd_buff_t that fits.
LEMMA CommandsFit ==
  ASSUME NEW S, NEW l \in Lists(Built(S))
  PROVE  \A n \in DOMAIN l.cmds : Len(l.cmds[n].argv) <= ArgvMax
<1>1. PICK cs \in Seq(Built(S)) : cs = l.cmds
  BY DEF Lists
<1>2. ASSUME NEW n \in DOMAIN cs PROVE Len(cs[n].argv) <= ArgvMax
  <2>1. cs[n] \in Built(S)
    OBVIOUS
  <2> QED
    BY <2>1 DEF Built, Buffs
<1> QED
  BY <1>1, <1>2

\* No parser stores a command behind the end of its list or an argument behind
\* the end of argv (build_cmd_list() and build_cmd_buff() of the four shells),
\* for every text, every size of the lists and every way the pipes are placed.
THEOREM NothingOverflows == Spec => []ListsFit
<1>1. ASSUME NEW t \in Seq(Characters)
      PROVE  /\ \A l \in {ListP3(t), ListP4(t)} :
                  /\ Len(l.cmds) <= CmdMax
                  /\ \A n \in DOMAIN l.cmds : Len(l.cmds[n].argv) <= ArgvMax
             /\ Len(ListP1(t).cmds) <= CmdMax
             /\ Len(BuildP2(t).argv) <= ArgvMax
  <2>1. PICK l \in Lists(Built(Characters)) : l = ListP3(t) /\ Len(l.cmds) <= CmdMax
    BY ListFitsP3
  <2>2. PICK m \in Lists(Built(Characters)) : m = ListP4(t) /\ Len(m.cmds) <= CmdMax
    BY ListFitsP4
  <2>3. \A n \in DOMAIN l.cmds : Len(l.cmds[n].argv) <= ArgvMax
    BY CommandsFit
  <2>4. \A n \in DOMAIN m.cmds : Len(m.cmds[n].argv) <= ArgvMax
    BY CommandsFit
  <2>5. Len(ListP1(t).cmds) <= CmdMax
    BY ListFitsP1
  <2>6. Len(BuildP2(t).argv) <= ArgvMax
    BY BuildType DEF Built, Buffs
  <2> QED
    BY <2>1, <2>2, <2>3, <2>4, <2>5, <2>6
<1>2. TextType => ListsFit
  <2>1. SUFFICES ASSUME TextType PROVE ListsFit
    OBVIOUS
  <2>2. PICK t \in Seq(Characters) : t = text
    BY <2>1 DEF TextType
  <2> QED
    BY <1>1, <2>2 DEF ListsFit
<1> QED
  BY <1>2, TextTypeInvariant, PTL

-----------------------------------------------------------------------------
(* Words and blanks.  The reference definitions of Text look at the whole  *)
(* text; format_cmd_line() walks over it.  The words of the first i        *)
(* characters (Partial) join the two: each character changes them and what *)
(* is written alike (StepAgrees), and at the end they are Words(s).        *)

\* Two recursive functions that take the same steps, one of them one step more.
StepsOn(step, Y, m) == step \in [Y \X (1..m) -> Y]

Follows(m, n) == m = n + 1

GoesOn(f, g, n, m, Y, step) == f[1..n] \in Y /\ g[1..m] = step[<<f[1..n], m>>]

LEMMA OneStepMore ==
  ASSUME NEW n \in Nat, NEW m \in Nat, Follows(m, n), NEW Y, NEW base \in Y,
         NEW step, StepsOn(step, Y, m),
         NEW f, NEW g, StepsIn(f, n, Y, base, step), StepsIn(g, m, Y, base, step)
  PROVE  GoesOn(f, g, n, m, Y, step)
<1>0. step \in [Y \X (1..m) -> Y] /\ m = n + 1 /\ \A i \in 1..n : i \in 1..m
  BY DEF StepsOn, Follows
<1>1. PICK some : some = [p \in Y \X (1..n) |-> step[p]]
  OBVIOUS
<1>2. /\ some \in [Y \X (1..n) -> Y]
      /\ \A c \in Y, i \in 1..n : some[<<c, i>>] = step[<<c, i>>]
  BY <1>0, <1>1
<1>3. StepsIn(f, n, Y, base, some)
  <2>1. ASSUME NEW s \in SUBSET (1..n), s # {}, f[s \ {Max(s)}] \in Y
        PROVE  f[s] = some[<<f[s \ {Max(s)}], Max(s)>>]
    <3>1. Max(s) \in 1..n
      BY <2>1, MaxFacts
    <3> QED
      BY <1>2, <2>1, <3>1 DEF StepsIn
  <2> QED
    BY <2>1 DEF StepsIn
<1>4. PICK b : Walks(b, n, Y, base, some, f)
  BY <1>2, <1>3, FoldPrefixes
<1>5. PICK c : Walks(c, m, Y, base, step, g)
  BY <1>0, FoldPrefixes
<1>6. /\ b \in [0..n -> Y] /\ b[0] = base /\ b[n] = f[1..n]
      /\ \A k \in 1..n : b[k] = some[<<b[k - 1], k>>]
  BY <1>4 DEF Walks
<1>7. /\ c[0] = base /\ c[m] = g[1..m]
      /\ \A k \in 1..m : c[k] = step[<<c[k - 1], k>>]
  BY <1>5 DEF Walks
<1>8. PICK P : P = {k \in 0..n : b[k] = c[k]}
  OBVIOUS
<1>9. ASSUME NEW k \in 1..n, k - 1 \in P PROVE k \in P
  <2>1. k \in 1..m /\ k \in 0..n /\ b[k - 1] = c[k - 1] /\ b[k - 1] \in Y
    BY <1>0, <1>6, <1>8, <1>9
  <2>2. b[k] = step[<<b[k - 1], k>>]
    BY <1>2, <1>6, <2>1
  <2>3. c[k] = step[<<c[k - 1], k>>]
    BY <1>7, <2>1
  <2> QED
    BY <1>8, <2>1, <2>2, <2>3
<1>10. 0 \in P
  BY <1>6, <1>7, <1>8
<1>11. \A k \in 0..n : k \in P
  BY <1>9, <1>10, UpTo
<1>12. b[n] = c[n] /\ b[n] \in Y
  BY <1>6, <1>8, <1>11
<1>13. m \in 1..m /\ m - 1 = n
  BY <1>0
<1>14. c[m] = step[<<c[n], m>>]
  BY <1>7, <1>13
<1> QED
  BY <1>6, <1>7, <1>12, <1>14 DEF GoesOn

\* One character of Unquoted().
Unquote(w, ch) == IF ch = "quote" THEN w ELSE Append(w, ch)

\* The steps are those of Unquoted() on the first n characters.
Unquotes(step, S, n, u, m) ==
  /\ u \in [1..n -> S] /\ n <= m
  /\ step \in [Seq(S) \X (1..m) -> Seq(S)]
  /\ \A c \in Seq(S), i \in 1..n : step[<<c, i>>] = Unquote(c, u[i])

UnquotedBy(it, step, S, n, u) == StepsIn(it, n, Seq(S), <<>>, step) /\ Unquoted(u) = it[1..n]

LEMMA UnquoteSteps ==
  ASSUME NEW S, NEW n \in Nat, NEW u, NEW m \in Nat, NEW step, Unquotes(step, S, n, u, m)
  PROVE  \E it : UnquotedBy(it, step, S, n, u)
<1>0. /\ u \in [1..n -> S] /\ n <= m
      /\ step \in [Seq(S) \X (1..m) -> Seq(S)]
      /\ \A c \in Seq(S), i \in 1..n : step[<<c, i>>] = Unquote(c, u[i])
  BY DEF Unquotes
<1>1. PICK some : some = [p \in Seq(S) \X (1..n) |-> step[p]]
  OBVIOUS
<1>2. /\ some \in [Seq(S) \X (1..n) -> Seq(S)]
      /\ \A c \in Seq(S), i \in 1..n : some[<<c, i>>] = Unquote(c, u[i])
  BY <1>0, <1>1
<1>3. PICK base \in Seq(S) : base = <<>>
  <2>1. <<>> \in Seq(S)
    OBVIOUS
  <2> QED
    BY <2>1
<1>4. PICK g : Folds(g, n, Seq(S), base, some)
  BY <1>2, FoldExists
<1>5. g = [ps \in SUBSET (1..n) |->
             IF ps = {} THEN <<>> ELSE Unquote(g[ps \ {Max(ps)}], u[Max(ps)])]
  <2>1. ASSUME NEW ps \in SUBSET (1..n), ps # {}
        PROVE  g[ps] = Unquote(g[ps \ {Max(ps)}], u[Max(ps)])
    <3>1. Max(ps) \in ps
      BY <2>1, MaxFacts
    <3>2. g[ps \ {Max(ps)}] \in Seq(S) /\ Max(ps) \in 1..n
      BY <1>4, <3>1 DEF Folds
    <3> QED
      BY <1>2, <1>4, <2>1, <3>2 DEF Folds
  <2> QED
    BY <1>3, <1>4, <2>1 DEF Folds
<1>6. PICK it :
        /\ it = [ps \in SUBSET (1..n) |->
                   IF ps = {} THEN <<>> ELSE Unquote(it[ps \ {Max(ps)}], u[Max(ps)])]
        /\ Unquoted(u) = it[1..n]
  <2>1. DOMAIN u = 1..n
    BY <1>0
  <2>2. g = [ps \in SUBSET (DOMAIN u) |->
               IF ps = {} THEN <<>> ELSE Unquote(g[ps \ {Max(ps)}], u[Max(ps)])]
    BY <1>5, <2>1
  <2>3. \E it :
          /\ it = [ps \in SUBSET (DOMAIN u) |->
                     IF ps = {} THEN <<>> ELSE Unquote(it[ps \ {Max(ps)}], u[Max(ps)])]
          /\ Unquoted(u) = it[DOMAIN u]
    BY <2>2, ZenonT(30) DEF Unquoted, Unquote, FoldLeft, MapThenFoldSet
  <2> QED
    BY <2>1, <2>3
<1>7. StepsIn(it, n, Seq(S), <<>>, step)
  <2>1. it[{}] = <<>>
    BY <1>6
  <2>2. ASSUME NEW ps \in SUBSET (1..n), ps # {}, it[ps \ {Max(ps)}] \in Seq(S)
        PROVE  it[ps] = step[<<it[ps \ {Max(ps)}], Max(ps)>>]
    <3>1. Max(ps) \in ps /\ Max(ps) \in 1..n
      BY <2>2, MaxFacts
    <3>2. it[ps] = Unquote(it[ps \ {Max(ps)}], u[Max(ps)])
      BY <1>6, <2>2
    <3> QED
      BY <1>0, <2>2, <3>1, <3>2
  <2> QED
    BY <2>1, <2>2 DEF StepsIn
<1> QED
  BY <1>6, <1>7 DEF UnquotedBy

LEMMA UnquotedAppend ==
  ASSUME NEW S, NEW u \in Seq(S), NEW x \in S
  PROVE  /\ Unquoted(u) \in Seq(S)
         /\ Unquoted(Append(u, x)) = Unquote(Unquoted(u), x)
<1>1. PICK n \in Nat, m \in Nat : n = Len(u) /\ m = n + 1
  OBVIOUS
<1>2. PICK v : v = Append(u, x)
  OBVIOUS
<1>3. u \in [1..n -> S] /\ v \in [1..m -> S]
  <2>1. v \in Seq(S) /\ Len(v) = m
    BY <1>1, <1>2
  <2>2. DOMAIN u = 1..n /\ DOMAIN v = 1..m
    BY <1>1, <2>1
  <2>3. (\A i \in 1..n : u[i] \in S) /\ \A i \in 1..m : v[i] \in S
    BY <2>1, <2>2
  <2> QED
    BY <2>1, <2>2, <2>3
<1>4. v[m] = x /\ \A i \in 1..n : v[i] = u[i]
  BY <1>1, <1>2
<1>5. ASSUME NEW c \in Seq(S), NEW ch \in S PROVE Unquote(c, ch) \in Seq(S)
  BY DEF Unquote
<1>6. PICK Y : Y = Seq(S)
  OBVIOUS
<1>7. PICK step : step = [p \in Y \X (1..m) |-> Unquote(p[1], v[p[2]])]
  OBVIOUS
<1>8. /\ step \in [Y \X (1..m) -> Y]
      /\ \A c \in Y, i \in 1..m : step[<<c, i>>] = Unquote(c, v[i])
  <2>1. \A c \in Y, ch \in S : Unquote(c, ch) \in Y
    BY <1>5, <1>6
  <2> QED
    BY <1>3, <1>7, <2>1
<1>9. PICK f : UnquotedBy(f, step, S, n, u)
  <2>1. \A c \in Y, i \in 1..n : step[<<c, i>>] = Unquote(c, u[i])
    <3>1. \A i \in 1..n : i \in 1..m
      BY <1>1
    <3> QED
      BY <1>4, <1>8, <3>1
  <2>2. n <= m
    BY <1>1
  <2>3. Unquotes(step, S, n, u, m)
    BY <1>3, <1>6, <1>8, <2>1, <2>2 DEF Unquotes
  <2> QED
    BY <2>3, UnquoteSteps
<1>10. PICK g : UnquotedBy(g, step, S, m, v)
  <2>1. m <= m
    OBVIOUS
  <2>2. Unquotes(step, S, m, v, m)
    BY <1>3, <1>6, <1>8, <2>1 DEF Unquotes
  <2> QED
    BY <2>2, UnquoteSteps
<1>11. f[1..n] \in Y /\ g[1..m] = step[<<f[1..n], m>>]
  <2>1. PICK base \in Y : base = <<>>
    <3>1. <<>> \in Y
      BY <1>6
    <3> QED
      BY <3>1
  <2>2. StepsIn(f, n, Y, base, step) /\ StepsIn(g, m, Y, base, step)
    BY <1>6, <1>9, <1>10, <2>1 DEF UnquotedBy
  <2>3. StepsOn(step, Y, m)
    BY <1>8 DEF StepsOn
  <2>4. Follows(m, n)
    BY <1>1 DEF Follows
  <2>5. GoesOn(f, g, n, m, Y, step)
    BY <2>2, <2>3, <2>4, OneStepMore
  <2> QED
    BY <2>5 DEF GoesOn
<1>12. m \in 1..m
  BY <1>1
<1>13. Unquoted(v) = Unquote(Unquoted(u), x)
  <2>1. Unquoted(u) = f[1..n] /\ Unquoted(v) = g[1..m]
    BY <1>9, <1>10 DEF UnquotedBy
  <2>2. step[<<f[1..n], m>>] = Unquote(f[1..n], v[m])
    BY <1>8, <1>11, <1>12
  <2> QED
    BY <1>4, <1>11, <2>1, <2>2
<1>14. Unquoted(u) \in Seq(S)
  BY <1>6, <1>9, <1>11 DEF UnquotedBy
<1> QED
  BY <1>2, <1>13, <1>14

LEMMA UnquotedNone ==
  Unquoted(<<>>) = <<>>
<1>1. PICK n \in Nat : n = 0 /\ 1..n = {}
  OBVIOUS
<1>2. PICK e : e = <<>> /\ e \in [1..n -> {0}]
  <2>1. PICK c : c = [i \in 1..n |-> 0]
    OBVIOUS
  <2>2. c \in [1..n -> {0}]
    BY <2>1
  <2>3. c = <<>>
    BY <1>1, <2>1
  <2> QED
    BY <2>2, <2>3
<1>3. PICK T : T = Seq({0}) \X (1..n)
  OBVIOUS
<1>4. PICK base \in Seq({0}) : base = <<>>
  <2>1. <<>> \in Seq({0})
    OBVIOUS
  <2> QED
    BY <2>1
<1>5. PICK step : step \in [T -> Seq({0})]
  <2>1. [p \in T |-> base] \in [T -> Seq({0})]
    OBVIOUS
  <2> QED
    BY <2>1
<1>6. \A c \in Seq({0}), i \in 1..n : step[<<c, i>>] = Unquote(c, e[i])
  BY <1>1
<1>7. PICK it : UnquotedBy(it, step, {0}, n, e)
  <2>1. n <= n /\ step \in [Seq({0}) \X (1..n) -> Seq({0})]
    BY <1>3, <1>5
  <2>2. Unquotes(step, {0}, n, e, n)
    BY <1>2, <1>6, <2>1 DEF Unquotes
  <2> QED
    BY <2>2, UnquoteSteps
<1> QED
  BY <1>1, <1>2, <1>7 DEF StepsIn, UnquotedBy

\* One number of InOrder().
Include(ns, i, R) == IF i \in R THEN Append(ns, i) ELSE ns

\* The steps are those of InOrder() on the first n numbers.
Includes(step, R, n, m) ==
  /\ n <= m
  /\ step \in [Seq(Nat) \X (1..m) -> Seq(Nat)]
  /\ \A c \in Seq(Nat), i \in 1..n : step[<<c, i>>] = Include(c, i, R)

IncludedBy(it, step, R, n) == StepsIn(it, n, Seq(Nat), <<>>, step) /\ InOrder(R, n) = it[1..n]

LEMMA IncludeSteps ==
  ASSUME NEW R, NEW n \in Nat, NEW m \in Nat, NEW step, Includes(step, R, n, m)
  PROVE  \E it : IncludedBy(it, step, R, n)
<1>0. /\ n <= m
      /\ step \in [Seq(Nat) \X (1..m) -> Seq(Nat)]
      /\ \A c \in Seq(Nat), i \in 1..n : step[<<c, i>>] = Include(c, i, R)
  BY DEF Includes
<1>1. PICK some : some = [p \in Seq(Nat) \X (1..n) |-> step[p]]
  OBVIOUS
<1>2. /\ some \in [Seq(Nat) \X (1..n) -> Seq(Nat)]
      /\ \A c \in Seq(Nat), i \in 1..n : some[<<c, i>>] = Include(c, i, R)
  BY <1>0, <1>1
<1>3. PICK base \in Seq(Nat) : base = <<>>
  <2>1. <<>> \in Seq(Nat)
    OBVIOUS
  <2> QED
    BY <2>1
<1>4. PICK g : Folds(g, n, Seq(Nat), base, some)
  BY <1>2, FoldExists
<1>5. g = [ps \in SUBSET (1..n) |->
             IF ps = {} THEN <<>> ELSE Include(g[ps \ {Max(ps)}], Max(ps), R)]
  <2>1. ASSUME NEW ps \in SUBSET (1..n), ps # {}
        PROVE  g[ps] = Include(g[ps \ {Max(ps)}], Max(ps), R)
    <3>1. Max(ps) \in ps
      BY <2>1, MaxFacts
    <3>2. g[ps \ {Max(ps)}] \in Seq(Nat) /\ Max(ps) \in 1..n
      BY <1>4, <3>1 DEF Folds
    <3> QED
      BY <1>2, <1>4, <2>1, <3>2 DEF Folds
  <2> QED
    BY <1>3, <1>4, <2>1 DEF Folds
<1>6. PICK it :
        /\ it = [ps \in SUBSET (1..n) |->
                   IF ps = {} THEN <<>> ELSE Include(it[ps \ {Max(ps)}], Max(ps), R)]
        /\ InOrder(R, n) = it[1..n]
  <2>1. PICK u : u = [i \in 1..n |-> i]
    OBVIOUS
  <2>2. DOMAIN u = 1..n /\ \A i \in 1..n : u[i] = i
    BY <2>1
  <2>3. \A ps \in SUBSET (1..n) : ps # {} => u[Max(ps)] = Max(ps)
    BY <2>2, MaxFacts
  <2>4. g = [ps \in SUBSET (DOMAIN u) |->
               IF ps = {} THEN <<>> ELSE Include(g[ps \ {Max(ps)}], u[Max(ps)], R)]
    BY <1>5, <2>2, <2>3
  <2>5. g = [ps \in SUBSET (DOMAIN [i \in 1..n |-> i]) |->
               IF ps = {} THEN <<>>
               ELSE Include(g[ps \ {Max(ps)}], [i \in 1..n |-> i][Max(ps)], R)]
    BY <2>1, <2>4, Zenon
  <2>6. \E it :
          /\ it = [ps \in SUBSET (DOMAIN [i \in 1..n |-> i]) |->
                     IF ps = {} THEN <<>>
                     ELSE Include(it[ps \ {Max(ps)}], [i \in 1..n |-> i][Max(ps)], R)]
          /\ InOrder(R, n) = it[DOMAIN [i \in 1..n |-> i]]
    BY <2>5, ZenonT(30) DEF InOrder, Include, FoldLeft, MapThenFoldSet
  <2>7. PICK it :
          /\ it = [ps \in SUBSET (DOMAIN u) |->
                     IF ps = {} THEN <<>> ELSE Include(it[ps \ {Max(ps)}], u[Max(ps)], R)]
          /\ InOrder(R, n) = it[DOMAIN u]
    BY <2>1, <2>6, Zenon
  <2>8. it = [ps \in SUBSET (1..n) |->
                IF ps = {} THEN <<>> ELSE Include(it[ps \ {Max(ps)}], Max(ps), R)]
    BY <2>2, <2>3, <2>7
  <2> QED
    BY <2>2, <2>7, <2>8
<1>7. StepsIn(it, n, Seq(Nat), <<>>, step)
  <2>1. it[{}] = <<>>
    BY <1>6
  <2>2. ASSUME NEW ps \in SUBSET (1..n), ps # {}, it[ps \ {Max(ps)}] \in Seq(Nat)
        PROVE  it[ps] = step[<<it[ps \ {Max(ps)}], Max(ps)>>]
    <3>1. Max(ps) \in ps /\ Max(ps) \in 1..n
      BY <2>2, MaxFacts
    <3>2. it[ps] = Include(it[ps \ {Max(ps)}], Max(ps), R)
      BY <1>6, <2>2
    <3> QED
      BY <1>0, <2>2, <3>1, <3>2
  <2> QED
    BY <2>1, <2>2 DEF StepsIn
<1> QED
  BY <1>6, <1>7 DEF IncludedBy

LEMMA InOrderNext ==
  ASSUME NEW R, NEW n \in Nat, NEW m \in Nat, Follows(m, n)
  PROVE  /\ InOrder(R, n) \in Seq(Nat)
         /\ InOrder(R, m) = Include(InOrder(R, n), m, R)
<1>1. n <= m /\ m \in 1..m /\ m <= m
  BY DEF Follows
<1>2. PICK Y : Y = Seq(Nat)
  OBVIOUS
<1>3. ASSUME NEW c \in Y, NEW i \in 1..m PROVE Include(c, i, R) \in Y
  <2>1. i \in Nat
    OBVIOUS
  <2> QED
    BY <1>2, <2>1 DEF Include
<1>4. PICK step : step = [p \in Y \X (1..m) |-> Include(p[1], p[2], R)]
  OBVIOUS
<1>5. /\ step \in [Y \X (1..m) -> Y]
      /\ \A c \in Y, i \in 1..m : step[<<c, i>>] = Include(c, i, R)
  BY <1>3, <1>4
<1>6. Includes(step, R, m, m)
  BY <1>1, <1>2, <1>5 DEF Includes
<1>7. Includes(step, R, n, m)
  <2>1. \A i \in 1..n : i \in 1..m
    BY <1>1
  <2> QED
    BY <1>1, <1>2, <1>5, <2>1 DEF Includes
<1>8. PICK f : IncludedBy(f, step, R, n)
  BY <1>7, IncludeSteps
<1>9. PICK g : IncludedBy(g, step, R, m)
  BY <1>6, IncludeSteps
<1>10. GoesOn(f, g, n, m, Y, step)
  <2>1. PICK base \in Y : base = <<>>
    <3>1. <<>> \in Y
      BY <1>2
    <3> QED
      BY <3>1
  <2>2. StepsIn(f, n, Y, base, step) /\ StepsIn(g, m, Y, base, step)
    BY <1>2, <1>8, <1>9, <2>1 DEF IncludedBy
  <2>3. StepsOn(step, Y, m)
    BY <1>5 DEF StepsOn
  <2> QED
    BY <2>2, <2>3, OneStepMore
<1>11. InOrder(R, n) = f[1..n] /\ InOrder(R, m) = g[1..m]
  BY <1>8, <1>9 DEF IncludedBy
<1>12. f[1..n] \in Y /\ g[1..m] = step[<<f[1..n], m>>]
  BY <1>10 DEF GoesOn
<1> QED
  BY <1>1, <1>2, <1>5, <1>11, <1>12

LEMMA InOrderNone ==
  ASSUME NEW R
  PROVE  InOrder(R, 0) = <<>>
<1>1. PICK n \in Nat : n = 0 /\ 1..n = {}
  OBVIOUS
<1>2. PICK step : step \in [Seq(Nat) \X (1..n) -> Seq(Nat)]
  <2>1. PICK base \in Seq(Nat) : base = <<>>
    <3>1. <<>> \in Seq(Nat)
      OBVIOUS
    <3> QED
      BY <3>1
  <2>2. [p \in Seq(Nat) \X (1..n) |-> base] \in [Seq(Nat) \X (1..n) -> Seq(Nat)]
    OBVIOUS
  <2> QED
    BY <2>2
<1>3. Includes(step, R, n, n)
  <2>1. n <= n /\ \A c \in Seq(Nat), i \in 1..n : step[<<c, i>>] = Include(c, i, R)
    BY <1>1
  <2> QED
    BY <1>2, <2>1 DEF Includes
<1>4. PICK it : IncludedBy(it, step, R, n)
  BY <1>3, IncludeSteps
<1> QED
  BY <1>1, <1>4 DEF IncludedBy, StepsIn

LEMMA QuoteSteps ==
  ASSUME NEW s \in Seq(Characters)
  PROVE  /\ ~Inside(s, 1)
         /\ \A i \in 1..Len(s) : Inside(s, i + 1) <=> (Inside(s, i) <=> s[i] # "quote")
<1> DEFINE At(i) == {j \in 1..(i - 1) : s[j] = "quote"}
<1>1. \A i \in 1..(Len(s) + 1) : IsFiniteSet(At(i)) /\ Cardinality(At(i)) \in Nat
  <2> TAKE i \in 1..(Len(s) + 1)
  <2>1. IsFiniteSet(1..(i - 1))
    BY FS_Interval
  <2>2. At(i) \subseteq 1..(i - 1)
    OBVIOUS
  <2> QED
    BY <2>1, <2>2, FS_Subset, FS_CardinalityType
<1>2. At(1) = {}
  OBVIOUS
<1>3. ~Inside(s, 1)
  <2>1. Cardinality(At(1)) = 0
    BY <1>2, FS_EmptySet
  <2>2. QuotesBefore(s, 1) = 0
    BY <2>1 DEF QuotesBefore
  <2> QED
    BY <2>2 DEF Inside
<1>4. ASSUME NEW i \in 1..Len(s)
      PROVE  Inside(s, i + 1) <=> (Inside(s, i) <=> s[i] # "quote")
  <2>1. IsFiniteSet(At(i)) /\ i \notin At(i) /\ At(i) = {j \in 1..(i - 1) : s[j] = "quote"}
    BY <1>1
  <2>2. PICK m \in Nat : m = QuotesBefore(s, i)
    <3>1. i \in 1..(Len(s) + 1) /\ QuotesBefore(s, i) = Cardinality(At(i))
      BY DEF QuotesBefore
    <3> QED
      BY <1>1, <3>1
  <2>3. CASE s[i] = "quote"
    <3>1. At(i + 1) = At(i) \cup {i}
      BY <2>3
    <3> HIDE DEF At
    <3>2. Cardinality(At(i + 1)) = Cardinality(At(i)) + 1
      BY <2>1, <3>1, FS_AddElement
    <3>3. QuotesBefore(s, i + 1) = m + 1
      BY <2>2, <3>2 DEF QuotesBefore, At
    <3>4. m % 2 = 1 <=> ~((m + 1) % 2 = 1)
      OBVIOUS
    <3> QED
      BY <2>2, <2>3, <3>3, <3>4 DEF Inside
  <2>4. CASE s[i] # "quote"
    <3>1. At(i + 1) = At(i)
      BY <2>4
    <3>2. QuotesBefore(s, i + 1) = QuotesBefore(s, i)
      BY <3>1 DEF QuotesBefore
    <3> QED
      BY <2>4, <3>2 DEF Inside
  <2> QED
    BY <2>3, <2>4
<1> QED
  BY <1>3, <1>4

\* Two walks that begin alike split alike.
LEMMA SplitAppend ==
  ASSUME NEW S, NEW u \in Seq(S), NEW x \in S, NEW sep
  PROVE  Split(Append(u, x), sep) = SplitChar(Split(u, sep), x, sep)
<1>1. PICK n \in Nat : n = Len(u)
  OBVIOUS
<1>2. PICK v \in Seq(S) : v = Append(u, x)
  <2>1. Append(u, x) \in Seq(S)
    OBVIOUS
  <2> QED
    BY <2>1
<1>3. Len(v) = n + 1 /\ v[n + 1] = x /\ \A k \in 1..n : v[k] = u[k]
  BY <1>1, <1>2
<1>4. PICK b : SplitSteps(b, S, u, sep)
  BY SplitWalk
<1>5. PICK c : SplitSteps(c, S, v, sep)
  BY SplitWalk
<1>6. /\ b[0] = << <<>> >> /\ b[n] = Split(u, sep)
      /\ \A k \in 1..n : b[k] = SplitChar(b[k - 1], u[k], sep)
  BY <1>1, <1>4 DEF SplitSteps
<1>7. /\ c[0] = << <<>> >> /\ c[n + 1] = Split(v, sep)
      /\ \A k \in 1..(n + 1) : c[k] = SplitChar(c[k - 1], v[k], sep)
  BY <1>3, <1>5 DEF SplitSteps
<1>8. PICK P : P = {k \in 0..n : b[k] = c[k]}
  OBVIOUS
<1>9. 0 \in P
  <2>1. 0 \in 0..n /\ b[0] = c[0]
    BY <1>6, <1>7
  <2> QED
    BY <1>8, <2>1
<1>10. ASSUME NEW k \in 1..n, k - 1 \in P PROVE k \in P
  <2>1. k \in 1..(n + 1) /\ k \in 0..n /\ b[k - 1] = c[k - 1]
    BY <1>8, <1>10
  <2> QED
    BY <1>3, <1>6, <1>7, <1>8, <2>1
<1>11. \A k \in 0..n : k \in P
  BY <1>9, <1>10, UpTo
<1>12. b[n] = c[n]
  BY <1>8, <1>11
<1>13. n + 1 \in 1..(n + 1) /\ (n + 1) - 1 = n
  OBVIOUS
<1>14. c[n + 1] = SplitChar(c[n], v[n + 1], sep)
  BY <1>7, <1>13
<1> QED
  BY <1>2, <1>3, <1>6, <1>7, <1>12, <1>14

\* One character of a text: it opens a word behind a gap, and stands in the last
\* word unless it is a quote.
Wordings == Seq(Seq(Characters))

Opened(v, s, i) == IF i = 0 \/ Gap(s, i) THEN Append(v, <<>>) ELSE v

Put(u, ch) == IF ch = "quote" THEN u ELSE SplitChar(u, ch, "nul")

LEMMA OpenedFacts ==
  ASSUME NEW v \in Wordings, NEW l \in Nat, l = Len(v)
  PROVE  /\ Append(v, <<>>) \in Splits(Characters) /\ Len(Append(v, <<>>)) = l + 1
         /\ Append(v, <<>>)[l + 1] = <<>>
         /\ \A k \in 1..l : Append(v, <<>>)[k] = v[k]
         /\ l > 0 => v \in Splits(Characters)
<1>1. PICK e \in Seq(Characters) : e = <<>>
  <2>1. <<>> \in Seq(Characters)
    OBVIOUS
  <2> QED
    BY <2>1
<1>2. /\ Append(v, e) \in Seq(Seq(Characters)) /\ Len(Append(v, e)) = l + 1
      /\ Append(v, e)[l + 1] = e
      /\ \A k \in 1..l : Append(v, e)[k] = v[k]
  BY DEF Wordings
<1>3. PICK w \in Seq(Seq(Characters)) : w = Append(v, e) /\ Len(w) = l + 1
  BY <1>2
<1>4. w # <<>>
  BY <1>3
<1>5. l > 0 => v # <<>>
  BY DEF Wordings
<1> QED
  BY <1>1, <1>2, <1>3, <1>4, <1>5 DEF Splits, Wordings

LEMMA PutFacts ==
  ASSUME NEW u \in Splits(Characters), NEW ch \in Characters, NEW l \in Nat, l = Len(u)
  PROVE  /\ Put(u, ch) \in Splits(Characters) /\ Len(Put(u, ch)) = l /\ l > 0
         /\ \A k \in 1..(l - 1) : Put(u, ch)[k] = u[k]
         /\ Put(u, ch)[l] = Unquote(u[l], ch)
<1>1. ch # "nul"
  BY DEF Characters, Spaces
<1>2. u \in Seq(Seq(Characters)) /\ l > 0 /\ DOMAIN u = 1..l
  BY DEF Splits
<1>3. CASE ch = "quote"
  BY <1>2, <1>3 DEF Put, Unquote
<1>4. CASE ch # "quote"
  <2>1. Put(u, ch) = SplitChar(u, ch, "nul")
    BY <1>4 DEF Put
  <2>2. Put(u, ch) \in Splits(Characters) /\ Len(Put(u, ch)) = l
    <3>1. SplitChar(u, ch, "nul") \in Splits(Characters)
      BY SplitCharType
    <3>2. Len(SplitChar(u, ch, "nul")) = l
      BY <1>1, SplitCharType
    <3> QED
      BY <2>1, <3>1, <3>2
  <2>3. Put(u, ch) = [u EXCEPT ![Len(u)] = Append(u[Len(u)], ch)]
    BY <1>1, <2>1 DEF SplitChar
  <2>4. /\ \A k \in 1..(l - 1) : Put(u, ch)[k] = u[k]
        /\ Put(u, ch)[l] = Append(u[l], ch)
    BY <1>2, <2>3
  <2> QED
    BY <1>2, <1>4, <2>2, <2>4 DEF Unquote
<1> QED
  BY <1>3, <1>4

\* The words of the first i characters: all but the last are complete, and the
\* last one is, too, if character i is a gap.
Runs(s, b, j) == \A q \in b..j : ~Gap(s, q)

WordDone(w, s, b, i) ==
  b \in Nat \ {0} /\ \E j \in b..(i - 1) : Runs(s, b, j) /\ Gap(s, j + 1) /\ w = Unquoted(SubSeq(s, b, j))

WordOpen(w, s, b, i) ==
  b \in 1..i /\ Runs(s, b, i) /\ w = Unquoted(SubSeq(s, b, i))

Partial(v, s, i) ==
  /\ v \in Wordings /\ Len(v) = Len(InOrder(Starts(s), i))
  /\ i > 0 /\ ~Gap(s, i) => Len(v) > 0
  /\ \A k \in 1..Len(v) :
       IF k = Len(v) /\ ~Gap(s, i) THEN WordOpen(v[k], s, InOrder(Starts(s), i)[k], i)
       ELSE WordDone(v[k], s, InOrder(Starts(s), i)[k], i)

LEMMA SubSeqFacts ==
  ASSUME NEW S, NEW s \in Seq(S), NEW b \in Nat \ {0}, NEW i \in Nat, b <= i, i <= Len(s)
  PROVE  /\ SubSeq(s, b, i) \in Seq(S) /\ Len(SubSeq(s, b, i)) = i - b + 1
         /\ \A k \in 1..(i - b + 1) : SubSeq(s, b, i)[k] = s[b + k - 1]
<1>1. Len(SubSeq(s, b, i)) = i - b + 1
  OBVIOUS
<1>2. SubSeq(s, b, i) \in Seq(S)
  OBVIOUS
<1>3. \A k \in 1..(i - b + 1) : SubSeq(s, b, i)[k] = s[b + k - 1]
  OBVIOUS
<1> QED
  BY <1>1, <1>2, <1>3

\* Sequences of the same length with the same elements.
LEMMA SameSequence ==
  ASSUME NEW S, NEW v \in Seq(S), NEW w \in Seq(S), NEW l \in Nat, Len(v) = l, Len(w) = l,
         \A k \in 1..l : v[k] = w[k]
  PROVE  v = w
<1>1. DOMAIN v = 1..l /\ DOMAIN w = 1..l
  OBVIOUS
<1> QED
  BY <1>1

LEMMA SubSeqNext ==
  ASSUME NEW S, NEW s \in Seq(S), NEW b \in Nat \ {0}, NEW i \in Nat, b <= i, i < Len(s)
  PROVE  /\ SubSeq(s, b, i) \in Seq(S) /\ s[i + 1] \in S
         /\ SubSeq(s, b, i + 1) = Append(SubSeq(s, b, i), s[i + 1])
<1>1. PICK l \in Nat : l = i - b + 1
  OBVIOUS
<1>2. PICK c \in S : c = s[i + 1]
  OBVIOUS
<1>3. PICK u \in Seq(S) : u = SubSeq(s, b, i) /\ Len(u) = l /\ \A k \in 1..l : u[k] = s[b + k - 1]
  <2>1. i <= Len(s)
    OBVIOUS
  <2>2. /\ SubSeq(s, b, i) \in Seq(S) /\ Len(SubSeq(s, b, i)) = i - b + 1
        /\ \A k \in 1..(i - b + 1) : SubSeq(s, b, i)[k] = s[b + k - 1]
    BY <2>1, SubSeqFacts, Zenon
  <2>3. PICK x : x = SubSeq(s, b, i)
    OBVIOUS
  <2>4. x \in Seq(S) /\ Len(x) = l /\ \A k \in 1..l : x[k] = s[b + k - 1]
    BY <1>1, <2>2, <2>3, Zenon
  <2> QED
    BY <2>3, <2>4, Zenon
<1>4. PICK v \in Seq(S) : /\ v = SubSeq(s, b, i + 1) /\ Len(v) = l + 1
                          /\ \A k \in 1..(l + 1) : v[k] = s[b + k - 1]
  <2>1. i + 1 \in Nat /\ b <= i + 1 /\ i + 1 <= Len(s) /\ (i + 1) - b + 1 = l + 1
    BY <1>1
  <2>2. /\ SubSeq(s, b, i + 1) \in Seq(S) /\ Len(SubSeq(s, b, i + 1)) = (i + 1) - b + 1
        /\ \A k \in 1..((i + 1) - b + 1) : SubSeq(s, b, i + 1)[k] = s[b + k - 1]
    BY <2>1, SubSeqFacts, Zenon
  <2>3. PICK x : x = SubSeq(s, b, i + 1)
    OBVIOUS
  <2>4. x \in Seq(S) /\ Len(x) = l + 1 /\ \A k \in 1..(l + 1) : x[k] = s[b + k - 1]
    BY <2>1, <2>2, <2>3, Zenon
  <2> QED
    BY <2>3, <2>4, Zenon
<1>5. PICK w \in Seq(S) : /\ w = Append(u, c) /\ Len(w) = l + 1
                          /\ (\A k \in 1..l : w[k] = u[k]) /\ w[l + 1] = c
  <2>1. Append(u, c) \in Seq(S)
    OBVIOUS
  <2>2. /\ Len(Append(u, c)) = l + 1 /\ Append(u, c)[l + 1] = c
        /\ \A k \in 1..l : Append(u, c)[k] = u[k]
    BY <1>3
  <2> QED
    BY <2>1, <2>2
<1>6. b + (l + 1) - 1 = i + 1
  BY <1>1
<1>7. ASSUME NEW k \in 1..(l + 1) PROVE v[k] = w[k]
  <2>1. k \in 1..l \/ k = l + 1
    OBVIOUS
  <2>2. CASE k \in 1..l
    BY <1>3, <1>4, <1>5, <2>2
  <2>3. CASE k = l + 1
    BY <1>2, <1>4, <1>5, <1>6, <2>3
  <2> QED
    BY <2>1, <2>2, <2>3
<1>8. v = w
  <2>1. PICK m \in Nat : m = l + 1
    OBVIOUS
  <2>2. Len(v) = m /\ Len(w) = m /\ \A k \in 1..m : v[k] = w[k]
    BY <1>4, <1>5, <1>7, <2>1
  <2> QED
    BY <2>2, SameSequence
<1> QED
  BY <1>2, <1>3, <1>4, <1>5, <1>8

LEMMA PartialNone ==
  ASSUME NEW s \in Seq(Characters), NEW v, v = <<>>
  PROVE  Partial(v, s, 0)
<1>1. v \in Wordings /\ Len(v) = 0
  BY DEF Wordings
<1>2. Len(InOrder(Starts(s), 0)) = 0
  BY InOrderNone
<1> QED
  BY <1>1, <1>2 DEF Partial

\* A gap completes the word before it.
LEMMA PartialGap ==
  ASSUME NEW s \in Seq(Characters), NEW h \in Nat, NEW i \in Nat, Follows(i, h), i <= Len(s),
         NEW v, Partial(v, s, h), Gap(s, i)
  PROVE  Partial(v, s, i)
<1>1. PICK r \in Seq(Nat) : r = InOrder(Starts(s), h)
  BY InOrderNext
<1>2. InOrder(Starts(s), i) = r
  <2>1. i \notin Starts(s)
    BY DEF Starts
  <2> QED
    BY <1>1, <2>1, InOrderNext DEF Include
<1>3. i = h + 1 /\ i > 0
  BY DEF Follows
<1>4. PICK l \in Nat : l = Len(v) /\ l = Len(r)
  BY <1>1 DEF Partial, Wordings
<1>5. ASSUME NEW k \in 1..l PROVE WordDone(v[k], s, r[k], i)
  <2>1. CASE k = l /\ ~Gap(s, h)
    <3>1. WordOpen(v[k], s, r[k], h)
      BY <1>1, <1>4, <2>1 DEF Partial
    <3>2. r[k] \in 1..h /\ Runs(s, r[k], h) /\ v[k] = Unquoted(SubSeq(s, r[k], h))
      BY <3>1 DEF WordOpen
    <3>3. h \in r[k]..(i - 1) /\ Gap(s, h + 1) /\ r[k] \in Nat \ {0}
      BY <1>3, <3>2
    <3> QED
      BY <3>2, <3>3 DEF WordDone
  <2>2. CASE ~(k = l /\ ~Gap(s, h))
    <3>1. WordDone(v[k], s, r[k], h)
      BY <1>1, <1>4, <2>2 DEF Partial
    <3>2. PICK j \in r[k]..(h - 1) : Runs(s, r[k], j) /\ Gap(s, j + 1) /\ v[k] = Unquoted(SubSeq(s, r[k], j))
      BY <3>1 DEF WordDone
    <3>3. j \in r[k]..(i - 1) /\ r[k] \in Nat \ {0}
      BY <1>3, <3>1 DEF WordDone
    <3> QED
      BY <3>2, <3>3 DEF WordDone
  <2> QED
    BY <2>1, <2>2
<1> QED
  BY <1>1, <1>2, <1>4, <1>5 DEF Partial

LEMMA OneCharacter ==
  ASSUME NEW S, NEW s \in Seq(S), NEW i \in 1..Len(s)
  PROVE  SubSeq(s, i, i) = Append(<<>>, s[i])
<1>1. PICK e \in Seq(S) : e = <<>>
  <2>1. <<>> \in Seq(S)
    OBVIOUS
  <2> QED
    BY <2>1
<1>2. PICK c \in S : c = s[i]
  OBVIOUS
<1>3. PICK b \in Nat \ {0}, k \in Nat : b = i /\ k = i /\ b <= k /\ k <= Len(s) /\ k - b + 1 = 1 /\ b + 1 - 1 = i
  OBVIOUS
<1>4. /\ SubSeq(s, b, k) \in Seq(S) /\ Len(SubSeq(s, b, k)) = k - b + 1
      /\ \A m \in 1..(k - b + 1) : SubSeq(s, b, k)[m] = s[b + m - 1]
  <2>1. b <= k /\ k <= Len(s)
    BY <1>3
  <2> QED
    BY <2>1, SubSeqFacts, Zenon
<1>5. PICK x \in Seq(S) : x = SubSeq(s, b, k)
  BY <1>4, Zenon
<1>6. Len(x) = 1 /\ x[1] = c
  <2>1. Len(x) = k - b + 1 /\ \A m \in 1..(k - b + 1) : x[m] = s[b + m - 1]
    BY <1>4, <1>5, Zenon
  <2> QED
    BY <1>2, <1>3, <2>1
<1>7. PICK y \in Seq(S) : y = Append(e, c) /\ Len(y) = 1 /\ y[1] = c
  <2>1. Append(e, c) \in Seq(S)
    OBVIOUS
  <2>2. Len(Append(e, c)) = 1 /\ Append(e, c)[1] = c
    BY <1>1
  <2> QED
    BY <2>1, <2>2
<1>8. x = y
  <2>1. PICK l \in Nat : l = 1
    OBVIOUS
  <2>2. Len(x) = l /\ Len(y) = l /\ \A m \in 1..l : x[m] = y[m]
    BY <1>6, <1>7, <2>1
  <2> QED
    BY <2>2, SameSequence
<1> QED
  BY <1>1, <1>2, <1>3, <1>5, <1>7, <1>8, Zenon

\* Behind a gap a character opens a word.
LEMMA PartialStart ==
  ASSUME NEW s \in Seq(Characters), NEW h \in Nat, NEW i \in Nat, Follows(i, h), i <= Len(s),
         NEW v, Partial(v, s, h), ~Gap(s, i), h = 0 \/ Gap(s, h)
  PROVE  Partial(Put(Append(v, <<>>), s[i]), s, i)
<1>1. PICK r \in Seq(Nat) : r = InOrder(Starts(s), h)
  BY InOrderNext
<1>2. i = h + 1 /\ i > 0 /\ i \in DOMAIN s /\ i - 1 = h
  BY DEF Follows
<1>3. InOrder(Starts(s), i) = Append(r, i)
  <2>1. i \in Starts(s)
    BY <1>2 DEF Starts
  <2> QED
    BY <1>1, <2>1, InOrderNext DEF Include
<1>4. PICK l \in Nat : l = Len(v) /\ l = Len(r)
  BY <1>1 DEF Partial, Wordings
<1>5. v \in Wordings
  BY DEF Partial
<1>6. PICK ch \in Characters : ch = s[i]
  BY <1>2
<1>7. PICK x \in Splits(Characters) :
        x = Append(v, <<>>) /\ Len(x) = l + 1 /\ x[l + 1] = <<>> /\ \A k \in 1..l : x[k] = v[k]
  BY <1>4, <1>5, OpenedFacts
<1>8. PICK m \in Nat : m = l + 1
  OBVIOUS
<1>9. PICK w \in Splits(Characters) :
        w = Put(x, ch) /\ Len(w) = m /\ w[m] = Unquote(<<>>, ch) /\ \A k \in 1..l : w[k] = v[k]
  <2>1. m = Len(x) /\ m - 1 = l
    BY <1>7, <1>8
  <2>2. /\ Put(x, ch) \in Splits(Characters) /\ Len(Put(x, ch)) = m
        /\ Put(x, ch)[m] = Unquote(x[m], ch)
        /\ \A k \in 1..(m - 1) : Put(x, ch)[k] = x[k]
    BY <2>1, PutFacts
  <2>3. PICK y \in Splits(Characters) : y = Put(x, ch)
    BY <2>2
  <2>4. Len(y) = m /\ y[m] = Unquote(<<>>, ch) /\ \A k \in 1..l : y[k] = v[k]
    BY <1>7, <1>8, <2>1, <2>2, <2>3
  <2> QED
    BY <2>3, <2>4
<1>10. PICK q \in Seq(Nat) :
         q = Append(r, i) /\ Len(q) = m /\ q[m] = i /\ \A k \in 1..l : q[k] = r[k]
  <2>1. Append(r, i) \in Seq(Nat)
    OBVIOUS
  <2>2. /\ Len(Append(r, i)) = m /\ Append(r, i)[m] = i
        /\ \A k \in 1..l : Append(r, i)[k] = r[k]
    BY <1>4, <1>8
  <2> QED
    BY <2>1, <2>2
<1>11. ASSUME NEW k \in 1..l PROVE WordDone(w[k], s, q[k], i)
  <2>1. WordDone(v[k], s, r[k], h)
    <3>1. ~(k = Len(v) /\ ~Gap(s, h))
      <4>1. CASE h = 0
        <5>1. Len(r) = 0
          BY <1>1, <4>1, InOrderNone
        <5> QED
          BY <1>4, <5>1
      <4>2. CASE Gap(s, h)
        BY <4>2
      <4> QED
        BY <4>1, <4>2
    <3> QED
      BY <1>1, <1>4, <3>1 DEF Partial
  <2>2. PICK j \in r[k]..(h - 1) : Runs(s, r[k], j) /\ Gap(s, j + 1) /\ v[k] = Unquoted(SubSeq(s, r[k], j))
    BY <2>1 DEF WordDone
  <2>3. j \in r[k]..(i - 1) /\ r[k] \in Nat \ {0}
    BY <1>2, <2>1 DEF WordDone
  <2>4. w[k] = v[k] /\ q[k] = r[k]
    BY <1>9, <1>10
  <2> QED
    BY <2>2, <2>3, <2>4 DEF WordDone
<1>12. WordOpen(w[m], s, q[m], i)
  <2>1. PICK e \in Seq(Characters) : e = <<>>
    <3>1. <<>> \in Seq(Characters)
      OBVIOUS
    <3> QED
      BY <3>1
  <2>2. Unquoted(SubSeq(s, i, i)) = Unquote(<<>>, ch)
    <3>1. i \in 1..Len(s)
      BY <1>2
    <3>2. SubSeq(s, i, i) = Append(e, ch)
      BY <1>6, <2>1, <3>1, OneCharacter, Zenon
    <3>3. Unquoted(Append(e, ch)) = Unquote(Unquoted(e), ch)
      BY UnquotedAppend
    <3> QED
      BY <2>1, <3>2, <3>3, UnquotedNone, Zenon
  <2>3. Runs(s, i, i)
    BY DEF Runs
  <2>4. i \in 1..i
    BY <1>2
  <2> QED
    <3>1. WordOpen(Unquote(<<>>, ch), s, i, i)
      BY <2>2, <2>3, <2>4, Zenon DEF WordOpen
    <3>2. w[m] = Unquote(<<>>, ch) /\ q[m] = i
      BY <1>9, <1>10
    <3> QED
      BY <3>1, <3>2, Zenon
<1>13. w \in Wordings /\ m > 0 /\ \A k \in 1..m : k # m => k \in 1..l
  BY <1>8 DEF Splits, Wordings
<1>14. Partial(w, s, i)
  <2>1. InOrder(Starts(s), i) = q
    BY <1>3, <1>10
  <2>2. ASSUME NEW k \in 1..Len(w)
        PROVE  IF k = Len(w) /\ ~Gap(s, i) THEN WordOpen(w[k], s, q[k], i) ELSE WordDone(w[k], s, q[k], i)
    <3>1. CASE k = m
      BY <1>9, <1>12, <3>1
    <3>2. CASE k # m
      BY <1>9, <1>11, <1>13, <3>2
    <3> QED
      BY <3>1, <3>2
  <2>3. Len(w) = Len(q) /\ Len(w) > 0
    BY <1>9, <1>10, <1>13
  <2> QED
    BY <1>13, <2>1, <2>2, <2>3 DEF Partial
<1> QED
  BY <1>6, <1>7, <1>9, <1>14

\* Otherwise it goes on with the last word.
LEMMA PartialMore ==
  ASSUME NEW s \in Seq(Characters), NEW h \in Nat, NEW i \in Nat, Follows(i, h), i <= Len(s),
         NEW v, Partial(v, s, h), ~Gap(s, i), h # 0, ~Gap(s, h)
  PROVE  v \in Splits(Characters) /\ Partial(Put(v, s[i]), s, i)
<1>1. PICK r \in Seq(Nat) : r = InOrder(Starts(s), h)
  BY InOrderNext
<1>2. i = h + 1 /\ i > 0 /\ i \in DOMAIN s /\ i - 1 = h /\ i # 1
  BY DEF Follows
<1>3. InOrder(Starts(s), i) = r
  <2>1. i \notin Starts(s)
    BY <1>2 DEF Starts
  <2> QED
    BY <1>1, <2>1, InOrderNext DEF Include
<1>4. PICK l \in Nat : l = Len(v) /\ l = Len(r) /\ l > 0
  BY <1>1 DEF Partial, Wordings
<1>5. v \in Splits(Characters)
  <2>1. v \in Wordings
    BY DEF Partial
  <2> QED
    BY <1>4, <2>1, OpenedFacts
<1>6. PICK ch \in Characters : ch = s[i]
  BY <1>2
<1>7. PICK w \in Splits(Characters) :
        w = Put(v, ch) /\ Len(w) = l /\ w[l] = Unquote(v[l], ch) /\ \A k \in 1..(l - 1) : w[k] = v[k]
  <2>1. /\ Put(v, ch) \in Splits(Characters) /\ Len(Put(v, ch)) = l
        /\ Put(v, ch)[l] = Unquote(v[l], ch)
        /\ \A k \in 1..(l - 1) : Put(v, ch)[k] = v[k]
    BY <1>4, <1>5, PutFacts
  <2>2. PICK y \in Splits(Characters) : y = Put(v, ch)
    BY <2>1
  <2> QED
    BY <2>1, <2>2
<1>8. ASSUME NEW k \in 1..(l - 1) PROVE WordDone(w[k], s, r[k], i)
  <2>1. WordDone(v[k], s, r[k], h)
    BY <1>1, <1>4 DEF Partial
  <2>2. PICK j \in r[k]..(h - 1) : Runs(s, r[k], j) /\ Gap(s, j + 1) /\ v[k] = Unquoted(SubSeq(s, r[k], j))
    BY <2>1 DEF WordDone
  <2>3. j \in r[k]..(i - 1) /\ r[k] \in Nat \ {0}
    BY <1>2, <2>1 DEF WordDone
  <2> QED
    BY <1>7, <2>2, <2>3 DEF WordDone
<1>9. WordOpen(w[l], s, r[l], i)
  <2>1. WordOpen(v[l], s, r[l], h)
    <3>1. l \in 1..Len(v) /\ l = Len(v)
      BY <1>4
    <3> QED
      BY <1>1, <3>1 DEF Partial
  <2>2. PICK b \in 1..h : b = r[l] /\ Runs(s, b, h) /\ v[l] = Unquoted(SubSeq(s, b, h))
    BY <2>1 DEF WordOpen
  <2>3. b \in 1..i /\ Runs(s, b, i)
    BY <1>2, <2>2 DEF Runs
  <2>4. Unquoted(SubSeq(s, b, i)) = Unquote(v[l], ch)
    <3>1. b \in Nat \ {0} /\ b <= h /\ h < Len(s)
      BY <1>2
    <3>2. /\ SubSeq(s, b, h) \in Seq(Characters)
          /\ SubSeq(s, b, h + 1) = Append(SubSeq(s, b, h), s[h + 1])
      BY <3>1, SubSeqNext, Zenon
    <3>3. PICK u \in Seq(Characters) : u = SubSeq(s, b, h)
      BY <3>2, Zenon
    <3>4. SubSeq(s, b, i) = Append(u, ch)
      BY <1>2, <1>6, <3>2, <3>3, Zenon
    <3>5. Unquoted(Append(u, ch)) = Unquote(Unquoted(u), ch)
      BY UnquotedAppend
    <3> QED
      BY <2>2, <3>3, <3>4, <3>5, Zenon
  <2> QED
    BY <1>7, <2>2, <2>3, <2>4, Zenon DEF WordOpen
<1>10. w \in Wordings /\ \A k \in 1..l : k # l => k \in 1..(l - 1)
  BY DEF Splits, Wordings
<1>11. Partial(w, s, i)
  <2>1. ASSUME NEW k \in 1..Len(w)
        PROVE  IF k = Len(w) /\ ~Gap(s, i) THEN WordOpen(w[k], s, r[k], i) ELSE WordDone(w[k], s, r[k], i)
    <3>1. CASE k = l
      BY <1>7, <1>9, <3>1
    <3>2. CASE k # l
      BY <1>7, <1>8, <1>10, <3>2
    <3> QED
      BY <3>1, <3>2
  <2>2. Len(w) = Len(r) /\ Len(w) > 0
    BY <1>4, <1>7
  <2> QED
    BY <1>3, <1>10, <2>1, <2>2 DEF Partial
<1> QED
  BY <1>5, <1>6, <1>7, <1>11

\* At the end these are the words of the text.
LEMMA PartialEnd ==
  ASSUME NEW s \in Seq(Characters), NEW n \in Nat, n = Len(s), NEW v, Partial(v, s, n)
  PROVE  v = Words(s)
<1>1. PICK r \in Seq(Nat) : r = InOrder(Starts(s), n)
  <2>1. PICK m \in Nat : m = n + 1
    OBVIOUS
  <2>2. Follows(m, n)
    BY <2>1 DEF Follows
  <2> QED
    BY <2>2, InOrderNext
<1>2. PICK l \in Nat : l = Len(v) /\ DOMAIN r = 1..l /\ DOMAIN v = 1..l
  BY <1>1 DEF Partial, Wordings
<1>3. ASSUME NEW k \in 1..l PROVE v[k] = WordFrom(s, r[k])
  <2>1. \E j \in r[k]..n : Runs(s, r[k], j) /\ (j = n \/ Gap(s, j + 1)) /\ v[k] = Unquoted(SubSeq(s, r[k], j))
    <3>1. CASE k = l /\ ~Gap(s, n)
      <4>1. WordOpen(v[k], s, r[k], n)
        BY <1>1, <1>2, <3>1 DEF Partial
      <4>2. n \in r[k]..n
        BY <4>1 DEF WordOpen
      <4> QED
        BY <4>1, <4>2 DEF WordOpen
    <3>2. CASE ~(k = l /\ ~Gap(s, n))
      <4>1. WordDone(v[k], s, r[k], n)
        BY <1>1, <1>2, <3>2 DEF Partial
      <4>2. PICK j \in r[k]..(n - 1) :
              Runs(s, r[k], j) /\ Gap(s, j + 1) /\ v[k] = Unquoted(SubSeq(s, r[k], j))
        BY <4>1 DEF WordDone
      <4>3. j \in r[k]..n
        OBVIOUS
      <4> QED
        BY <4>2, <4>3
    <3> QED
      BY <3>1, <3>2
  <2>2. PICK b \in Nat : b = r[k]
    BY <1>2
  <2> DEFINE Ends(j) == (\A q \in b..j : ~Gap(s, q)) /\ (j = n \/ Gap(s, j + 1))
  <2>3. PICK j \in b..n : Ends(j) /\ v[k] = Unquoted(SubSeq(s, b, j))
    BY <2>1, <2>2 DEF Runs
  <2>4. ASSUME NEW x \in b..n, Ends(x) PROVE x = j
    <3>1. CASE x < j
      <4>1. x + 1 \in b..j /\ x # n
        BY <3>1
      <4> QED
        BY <2>3, <2>4, <4>1
    <3>2. CASE j < x
      <4>1. j + 1 \in b..x /\ j # n
        BY <3>2
      <4> QED
        BY <2>3, <2>4, <4>1
    <3> QED
      BY <3>1, <3>2
  <2>5. (CHOOSE x \in b..n : Ends(x)) = j
    <3> HIDE DEF Ends
    <3> QED
      BY <2>3, <2>4
  <2>6. WordFrom(s, b) = Unquoted(SubSeq(s, b, CHOOSE x \in b..n : Ends(x)))
    BY Zenon DEF WordFrom
  <2> QED
    BY <2>2, <2>3, <2>5, <2>6, Zenon
<1>4. Words(s) = [k \in 1..l |-> WordFrom(s, r[k])]
  BY <1>1, <1>2 DEF Words
<1>5. v = [k \in 1..l |-> v[k]]
  BY <1>2 DEF Partial, Wordings
<1> QED
  BY <1>3, <1>4, <1>5

\* What format_cmd_line() does with one character, field by field.
LEMMA FormatFields ==
  ASSUME NEW f \in Formats(Characters), NEW ch \in Characters, NEW resets \in BOOLEAN,
         NEW g, g = FormatChar(f, ch, resets)
  PROVE  /\ ch = "quote" => /\ g.out = f.out /\ (g.quoted <=> ~f.quoted)
                            /\ (g.space <=> f.space /\ ~resets)
         /\ ch # "quote" => (g.quoted <=> f.quoted)
         /\ ch \in Spaces /\ f.quoted => /\ g.out = Append(f.out, ch)
                                         /\ (g.space <=> f.space /\ resets)
         /\ ch \in Spaces /\ ~f.quoted /\ f.space => g.out = f.out /\ g.space
         /\ ch \in Spaces /\ ~f.quoted /\ ~f.space => g.out = Append(f.out, "nul") /\ g.space
         /\ ch # "quote" /\ ch \notin Spaces => g.out = Append(f.out, ch) /\ ~g.space
<1>1. PICK out \in Seq(Characters \cup {"nul"}), q \in BOOLEAN, sp \in BOOLEAN :
        f = [out |-> out, quoted |-> q, space |-> sp]
  BY DEF Formats
<1>2. f.out = out /\ (f.quoted <=> q) /\ (f.space <=> sp)
  BY <1>1
<1>3. "quote" \notin Spaces
  BY DEF Spaces
<1>4. CASE ch = "quote"
  <2>1. g = [f EXCEPT !.quoted = ~f.quoted, !.space = f.space /\ ~resets]
    <3>1. FormatChar(f, "quote", resets) = [f EXCEPT !.quoted = ~@, !.space = @ /\ ~resets]
      BY <1>3, Zenon DEF FormatChar
    <3> QED
      BY <1>4, <3>1, Zenon
  <2>2. g.out = f.out /\ (g.quoted <=> ~f.quoted) /\ (g.space <=> f.space /\ ~resets)
    BY <2>1, Zenon DEF Formats
  <2> QED
    BY <1>3, <1>4, <2>2, Zenon
<1>5. CASE ch \in Spaces /\ q
  <2>1. g = [out |-> Append(out, ch), quoted |-> q, space |-> sp /\ resets]
    BY <1>1, <1>3, <1>5 DEF FormatChar
  <2> QED
    BY <1>2, <1>3, <1>5, <2>1
<1>6. CASE ch \in Spaces /\ ~q /\ sp
  <2>1. g = f
    BY <1>1, <1>3, <1>6 DEF FormatChar
  <2> QED
    BY <1>2, <1>3, <1>6, <2>1
<1>7. CASE ch \in Spaces /\ ~q /\ ~sp
  <2>1. g = [out |-> Append(out, "nul"), quoted |-> q, space |-> TRUE]
    BY <1>1, <1>3, <1>7 DEF FormatChar
  <2> QED
    BY <1>2, <1>3, <1>7, <2>1
<1>8. CASE ch # "quote" /\ ch \notin Spaces
  <2>1. g = [out |-> Append(out, ch), quoted |-> q, space |-> FALSE]
    BY <1>1, <1>8 DEF FormatChar
  <2> QED
    BY <1>2, <1>8, <2>1
<1> QED
  BY <1>4, <1>5, <1>6, <1>7, <1>8

\* A complete word without a character.
HasEmpty(v, s, i) == \E k \in 1..Len(v) : (k < Len(v) \/ Gap(s, i)) /\ v[k] = <<>>

\* What is written agrees with the words so far: it is made of them, with an empty
\* one for a gap at the end.  A quote that does not end a run of blanks is lost
\* with an empty word only.
Agrees(f, v, s, i, a, resets) ==
  /\ f.quoted <=> Inside(s, i + 1)
  /\ Gap(s, i) /\ i > a => f.space
  /\ resets /\ f.space => Gap(s, i)
  /\ \/ ~resets /\ HasEmpty(v, s, i)
     \/ /\ Split(f.out, "nul") = Opened(v, s, i)
        /\ f.space => Opened(v, s, i)[Len(Opened(v, s, i))] = <<>>

\* The text between two blanks at its ends.
Trimmed(s, n, a, e) ==
  /\ a \in Nat /\ e \in Nat /\ a < e /\ e <= n
  /\ Trim(s) = SubSeq(s, a + 1, e)
  /\ s[a + 1] \notin Spaces /\ s[e] \notin Spaces
  /\ \A q \in 1..a : s[q] \in Spaces
  /\ \A q \in (e + 1)..n : s[q] \in Spaces

LEMMA TrimFacts ==
  ASSUME NEW s \in Seq(Characters), NEW n \in Nat, n = Len(s), Trim(s) # <<>>
  PROVE  \E a, e : Trimmed(s, n, a, e)
<1>1. PICK solid : solid = {i \in DOMAIN s : s[i] \notin Spaces}
  OBVIOUS
<1>2. DOMAIN s = 1..n
  OBVIOUS
<1>3. solid # {}
  BY <1>1 DEF Trim
<1>4. solid \in SUBSET Nat /\ solid \in SUBSET (1..n)
  BY <1>1, <1>2
<1>5. \E i \in solid : \A j \in solid : i <= j
  BY <1>3, <1>4, LeastNatural
<1>6. PICK i \in solid : i = (CHOOSE k \in solid : \A m \in solid : k <= m) /\ \A m \in solid : i <= m
  BY <1>5
<1>7. Max(solid) \in solid /\ solid \ {Max(solid)} \in SUBSET (1..(Max(solid) - 1))
  BY <1>3, <1>4, MaxFacts
<1>8. PICK j \in solid : j = (CHOOSE k \in solid : \A m \in solid : k >= m) /\ \A m \in solid : j >= m
  <2>1. PICK j \in solid : j = Max(solid)
    BY <1>7
  <2>2. \A m \in solid : j >= m
    <3>1. \A m \in solid : m = j \/ m \in 1..(j - 1)
      BY <1>7, <2>1
    <3>2. j \in 1..n
      BY <1>4
    <3> QED
      BY <3>1, <3>2
  <2> QED
    BY <2>1, <2>2 DEF Max
<1>9. Trim(s) = SubSeq(s, i, j)
  BY <1>1, <1>3, <1>6, <1>8 DEF Trim
<1>10. i \in 1..n /\ j \in 1..n /\ i <= j
  BY <1>4, <1>6
<1>11. s[i] \notin Spaces /\ s[j] \notin Spaces
  BY <1>1
<1>12. \A q \in 1..n : q < i \/ q > j => s[q] \in Spaces
  <2>1. SUFFICES ASSUME NEW q \in 1..n, q < i \/ q > j, s[q] \notin Spaces PROVE FALSE
    OBVIOUS
  <2>2. q \in solid
    BY <1>1, <1>2, <2>1
  <2>3. i <= q /\ j >= q
    BY <1>6, <1>8, <2>2
  <2> QED
    BY <1>10, <2>1, <2>3
<1>13. PICK a \in Nat : a = i - 1 /\ a + 1 = i
  BY <1>10
<1>14. (\A q \in 1..a : s[q] \in Spaces) /\ \A q \in (j + 1)..n : s[q] \in Spaces
  <2>1. \A q \in 1..a : q \in 1..n /\ q < i
    BY <1>10, <1>13
  <2>2. \A q \in (j + 1)..n : q \in 1..n /\ q > j
    BY <1>10
  <2> QED
    BY <1>12, <2>1, <2>2
<1>15. Trimmed(s, n, a, j)
  <2>1. a \in Nat /\ j \in Nat /\ a < j /\ j <= n
    BY <1>10, <1>13
  <2>2. Trim(s) = SubSeq(s, a + 1, j)
    BY <1>9, <1>13, Zenon
  <2>3. s[a + 1] \notin Spaces
    BY <1>11, <1>13, Zenon
  <2> QED
    BY <1>11, <1>14, <2>1, <2>2, <2>3, Zenon DEF Trimmed
<1> QED
  BY <1>15

\* The blanks at both ends of a text with closed quotes are gaps.
LEMMA GapsOutside ==
  ASSUME NEW s \in Seq(Characters), NEW n \in Nat, n = Len(s), Closed(s),
         NEW a, NEW e, Trimmed(s, n, a, e)
  PROVE  /\ \A q \in 1..a : Gap(s, q)
         /\ ~Inside(s, a + 1)
         /\ \A q \in (e + 1)..n : Gap(s, q)
<1>1. /\ a \in Nat /\ e \in Nat /\ a < e /\ e <= n
      /\ \A q \in 1..a : s[q] \in Spaces
      /\ \A q \in (e + 1)..n : s[q] \in Spaces
  BY DEF Trimmed
<1>2. /\ ~Inside(s, 1)
      /\ \A i \in 1..n : Inside(s, i + 1) <=> (Inside(s, i) <=> s[i] # "quote")
  BY QuoteSteps
<1>3. \A q \in 1..n : s[q] \in Spaces => (Inside(s, q + 1) <=> Inside(s, q))
  BY <1>2 DEF Spaces
<1>4. PICK P : P = {k \in 0..a : ~Inside(s, k + 1)}
  OBVIOUS
<1>5. \A k \in 0..a : k \in P
  <2>1. 0 \in P
    <3>1. 0 + 1 = 1 /\ 0 \in 0..a
      BY <1>1
    <3> QED
      BY <1>2, <1>4, <3>1
  <2>2. ASSUME NEW k \in 1..a, k - 1 \in P PROVE k \in P
    <3>1. k \in 1..n /\ s[k] \in Spaces /\ (k - 1) + 1 = k /\ k \in 0..a
      BY <1>1
    <3>2. ~Inside(s, k)
      BY <1>4, <2>2, <3>1
    <3> QED
      BY <1>3, <1>4, <3>1, <3>2
  <2> QED
    BY <1>1, <2>1, <2>2, UpTo
<1>6. PICK m \in Nat : m = n - e
  <2>1. n - e \in Nat
    BY <1>1
  <2> QED
    BY <2>1, Zenon
<1>7. PICK Q : Q = {k \in 0..m : ~Inside(s, n + 1 - k)}
  OBVIOUS
<1>8. \A k \in 0..m : k \in Q
  <2>1. 0 \in Q
    <3>1. n + 1 - 0 = n + 1 /\ 0 \in 0..m
      OBVIOUS
    <3>2. ~Inside(s, n + 1)
      BY DEF Closed
    <3> QED
      BY <1>7, <3>1, <3>2
  <2>2. ASSUME NEW k \in 1..m, k - 1 \in Q PROVE k \in Q
    <3>1. PICK q \in 1..n : q = n + 1 - k /\ q + 1 = n + 1 - (k - 1) /\ s[q] \in Spaces
      <4>1. n + 1 - k \in (e + 1)..n /\ n + 1 - k \in 1..n
        BY <1>1, <1>6
      <4>2. (n + 1 - k) + 1 = n + 1 - (k - 1)
        OBVIOUS
      <4> QED
        BY <1>1, <4>1, <4>2
    <3>2. ~Inside(s, q + 1)
      BY <1>7, <2>2, <3>1
    <3>3. ~Inside(s, q)
      BY <1>3, <3>1, <3>2
    <3>4. k \in 0..m
      OBVIOUS
    <3> QED
      BY <1>7, <3>1, <3>3, <3>4
  <2> QED
    BY <2>1, <2>2, UpTo
<1>9. ASSUME NEW q \in 1..a PROVE Gap(s, q)
  <2>1. q - 1 \in 0..a /\ (q - 1) + 1 = q
    BY <1>1
  <2>2. ~Inside(s, q)
    BY <1>4, <1>5, <2>1
  <2> QED
    BY <1>1, <2>2 DEF Gap
<1>10. ASSUME NEW q \in (e + 1)..n PROVE Gap(s, q)
  <2>1. n + 1 - q \in 0..m /\ n + 1 - (n + 1 - q) = q
    BY <1>1, <1>6
  <2>2. ~Inside(s, q)
    BY <1>7, <1>8, <2>1
  <2> QED
    BY <1>1, <2>2 DEF Gap
<1>11. ~Inside(s, a + 1)
  <2>1. a \in 0..a
    BY <1>1
  <2> QED
    BY <1>4, <1>5, <2>1
<1> QED
  BY <1>9, <1>10, <1>11

LEMMA SplitNone ==
  Split(<<>>, "nul") = << <<>> >>
<1>1. PICK s \in Seq(Characters) : s = <<>> /\ Len(s) = 0
  <2>1. <<>> \in Seq(Characters) /\ Len(<<>>) = 0
    OBVIOUS
  <2> QED
    BY <2>1
<1>2. PICK b : SplitSteps(b, Characters, s, "nul")
  BY SplitWalk
<1>3. b[0] = << <<>> >> /\ b[0] = Split(s, "nul")
  BY <1>1, <1>2, Zenon DEF SplitSteps
<1> QED
  BY <1>1, <1>3, Zenon

\* A character outside of the gaps goes into the last word.
LEMMA TakenIn ==
  ASSUME NEW s \in Seq(Characters), NEW h \in Nat, NEW i \in Nat, Follows(i, h), i <= Len(s),
         NEW v, Partial(v, s, h), ~Gap(s, i), NEW u, u = Opened(v, s, h),
         NEW w, w = Put(u, s[i])
  PROVE  /\ u \in Splits(Characters) /\ w \in Splits(Characters) /\ Partial(w, s, i)
         /\ HasEmpty(v, s, h) => HasEmpty(w, s, i)
         /\ Opened(w, s, i) = w
<1>1. v \in Wordings
  BY DEF Partial
<1>2. PICK l \in Nat : l = Len(v)
  BY <1>1 DEF Wordings
<1>3. PICK ch \in Characters : ch = s[i]
  <2>1. i \in DOMAIN s
    BY DEF Follows
  <2> QED
    BY <2>1
<1>4. Opened(w, s, i) = w
  <2>1. i # 0
    BY DEF Follows
  <2> QED
    BY <2>1 DEF Opened
<1>5. CASE h = 0 \/ Gap(s, h)
  <2>1. u = Append(v, <<>>)
    BY <1>5 DEF Opened
  <2>2. u \in Splits(Characters) /\ Len(u) = l + 1 /\ \A k \in 1..l : u[k] = v[k]
    BY <1>1, <1>2, <2>1, OpenedFacts
  <2>3. PICK m \in Nat : m = l + 1
    OBVIOUS
  <2>4. w \in Splits(Characters) /\ Len(w) = m /\ \A k \in 1..(m - 1) : w[k] = u[k]
    BY <1>3, <2>2, <2>3, PutFacts
  <2>5. Partial(w, s, i)
    BY <1>5, <2>1, PartialStart
  <2>6. ASSUME HasEmpty(v, s, h) PROVE HasEmpty(w, s, i)
    <3>1. PICK k \in 1..l : v[k] = <<>>
      BY <1>2, <2>6 DEF HasEmpty
    <3>2. k \in 1..Len(w) /\ k < Len(w) /\ w[k] = <<>>
      BY <2>2, <2>3, <2>4, <3>1
    <3> QED
      BY <3>2 DEF HasEmpty
  <2> QED
    BY <1>4, <2>2, <2>4, <2>5, <2>6
<1>6. CASE h # 0 /\ ~Gap(s, h)
  <2>1. u = v
    BY <1>6 DEF Opened
  <2>2. u \in Splits(Characters) /\ Partial(w, s, i)
    BY <1>6, <2>1, PartialMore
  <2>3. w \in Splits(Characters) /\ Len(w) = l /\ \A k \in 1..(l - 1) : w[k] = v[k]
    BY <1>2, <1>3, <2>1, <2>2, PutFacts
  <2>4. ASSUME HasEmpty(v, s, h) PROVE HasEmpty(w, s, i)
    <3>1. PICK k \in 1..l : k < l /\ v[k] = <<>>
      BY <1>2, <1>6, <2>4 DEF HasEmpty
    <3>2. k \in 1..Len(w) /\ k < Len(w) /\ w[k] = <<>>
      BY <2>3, <3>1
    <3> QED
      BY <3>2 DEF HasEmpty
  <2> QED
    BY <1>4, <2>2, <2>3, <2>4
<1> QED
  BY <1>5, <1>6

\* One character more, and what is written agrees with the words again.
LEMMA StepAgrees ==
  ASSUME NEW s \in Seq(Characters), NEW h \in Nat, NEW i \in Nat, Follows(i, h), i <= Len(s),
         NEW v, Partial(v, s, h),
         NEW a \in Nat, a <= h, h = a => s[i] \notin Spaces,
         NEW resets \in BOOLEAN, NEW f \in Formats(Characters), Agrees(f, v, s, h, a, resets),
         NEW g, g = FormatChar(f, s[i], resets)
  PROVE  \E w : Partial(w, s, i) /\ Agrees(g, w, s, i, a, resets)
<1>1. i = h + 1 /\ i > a /\ i \in 1..Len(s) /\ i # 0
  BY DEF Follows
<1>2. PICK ch \in Characters : ch = s[i]
  BY <1>1
<1>3. PICK u : u = Opened(v, s, h)
  OBVIOUS
<1>4. PICK out \in Seq(Characters \cup {"nul"}) : out = f.out
  BY DEF Formats
<1>5. ch # "nul" /\ "quote" \notin Spaces
  BY DEF Characters, Spaces
<1>6. /\ f.quoted <=> Inside(s, i)
      /\ Gap(s, h) /\ h > a => f.space
      /\ resets /\ f.space => Gap(s, h)
      /\ \/ ~resets /\ HasEmpty(v, s, h)
         \/ Split(out, "nul") = u /\ (f.space => u[Len(u)] = <<>>)
  <2>1. /\ f.quoted <=> Inside(s, h + 1)
        /\ Gap(s, h) /\ h > a => f.space
        /\ resets /\ f.space => Gap(s, h)
        /\ \/ ~resets /\ HasEmpty(v, s, h)
           \/ Split(f.out, "nul") = u /\ (f.space => u[Len(u)] = <<>>)
    BY <1>3, Zenon DEF Agrees
  <2> QED
    BY <1>1, <1>4, <2>1, Zenon
<1>7. Inside(s, i + 1) <=> (Inside(s, i) <=> ch # "quote")
  BY <1>1, <1>2, QuoteSteps
<1>8. Gap(s, i) <=> ch \in Spaces /\ ~Inside(s, i)
  BY <1>2, Zenon DEF Gap
<1>9. /\ ch = "quote" => g.out = out /\ (g.quoted <=> ~f.quoted) /\ (g.space <=> f.space /\ ~resets)
      /\ ch # "quote" => (g.quoted <=> f.quoted)
      /\ ch \in Spaces /\ f.quoted => g.out = Append(out, ch) /\ (g.space <=> f.space /\ resets)
      /\ ch \in Spaces /\ ~f.quoted /\ f.space => g.out = out /\ g.space
      /\ ch \in Spaces /\ ~f.quoted /\ ~f.space => g.out = Append(out, "nul") /\ g.space
      /\ ch # "quote" /\ ch \notin Spaces => g.out = Append(out, ch) /\ ~g.space
  <2>1. g = FormatChar(f, ch, resets)
    BY <1>2, Zenon
  <2>2. /\ ch = "quote" => /\ g.out = f.out /\ (g.quoted <=> ~f.quoted)
                           /\ (g.space <=> f.space /\ ~resets)
        /\ ch # "quote" => (g.quoted <=> f.quoted)
        /\ ch \in Spaces /\ f.quoted => g.out = Append(f.out, ch) /\ (g.space <=> f.space /\ resets)
        /\ ch \in Spaces /\ ~f.quoted /\ f.space => g.out = f.out /\ g.space
        /\ ch \in Spaces /\ ~f.quoted /\ ~f.space => g.out = Append(f.out, "nul") /\ g.space
        /\ ch # "quote" /\ ch \notin Spaces => g.out = Append(f.out, ch) /\ ~g.space
    BY <2>1, FormatFields, Zenon
  <2> QED
    BY <1>4, <2>2, Zenon
<1>10. g.quoted <=> Inside(s, i + 1)
  BY <1>6, <1>7, <1>9, Zenon
<1>11. ch \in Spaces => h > a /\ h # 0
  <2>1. ch \in Spaces => h # a
    BY <1>2
  <2> QED
    BY <2>1
<1>12. ASSUME ~Gap(s, i)
       PROVE  \E w : Partial(w, s, i) /\ Agrees(g, w, s, i, a, resets)
  <2>1. PICK w : w = Put(u, ch)
    OBVIOUS
  <2>2. /\ u \in Splits(Characters) /\ w \in Splits(Characters) /\ Partial(w, s, i)
        /\ HasEmpty(v, s, h) => HasEmpty(w, s, i)
        /\ Opened(w, s, i) = w
    <3>1. w = Put(u, s[i])
      BY <1>2, <2>1, Zenon
    <3> QED
      BY <1>3, <1>12, <3>1, TakenIn
  <2>3. CASE ch = "quote"
    <3>1. w = u
      BY <2>1, <2>3 DEF Put
    <3>2. /\ resets /\ g.space => Gap(s, i)
          /\ \/ ~resets /\ HasEmpty(w, s, i)
             \/ /\ Split(g.out, "nul") = Opened(w, s, i)
                /\ g.space => Opened(w, s, i)[Len(Opened(w, s, i))] = <<>>
      BY <1>6, <1>9, <2>2, <2>3, <3>1, Zenon
    <3> QED
      BY <1>10, <1>12, <2>2, <3>2, Zenon DEF Agrees
  <2>4. CASE ch # "quote"
    <3>1. g.out = Append(out, ch) /\ ~g.space
      <4>1. CASE ch \in Spaces
        <5>1. Inside(s, i) /\ f.quoted
          BY <1>6, <1>8, <1>12, <4>1
        <5>2. resets => ~f.space
          <6>1. SUFFICES ASSUME Gap(s, h) PROVE FALSE
            BY <1>6
          <6>2. ~Inside(s, h) /\ s[h] \in Spaces /\ h \in 1..Len(s)
            BY <1>1, <1>11, <4>1, <6>1 DEF Gap
          <6>3. Inside(s, h + 1) <=> (Inside(s, h) <=> s[h] # "quote")
            BY <6>2, QuoteSteps
          <6> QED
            BY <1>1, <1>5, <5>1, <6>2, <6>3, Zenon
        <5> QED
          BY <1>9, <4>1, <5>1, <5>2, Zenon
      <4>2. CASE ch \notin Spaces
        BY <1>9, <2>4, <4>2, Zenon
      <4> QED
        BY <4>1, <4>2
    <3>2. Split(out, "nul") = u => Split(g.out, "nul") = w
      <4>1. ch \in Characters \cup {"nul"}
        OBVIOUS
      <4>2. Split(Append(out, ch), "nul") = SplitChar(Split(out, "nul"), ch, "nul")
        BY <4>1, SplitAppend
      <4>3. w = SplitChar(u, ch, "nul")
        BY <2>1, <2>4, Zenon DEF Put
      <4> QED
        BY <3>1, <4>2, <4>3, Zenon
    <3>3. \/ ~resets /\ HasEmpty(w, s, i)
          \/ /\ Split(g.out, "nul") = Opened(w, s, i)
             /\ g.space => Opened(w, s, i)[Len(Opened(w, s, i))] = <<>>
      BY <1>6, <2>2, <3>1, <3>2, Zenon
    <3> QED
      BY <1>10, <1>12, <2>2, <3>1, <3>3, Zenon DEF Agrees
  <2> QED
    BY <2>3, <2>4
<1>13. ASSUME Gap(s, i)
       PROVE  \E w : Partial(w, s, i) /\ Agrees(g, w, s, i, a, resets)
  <2>1. Partial(v, s, i)
    BY <1>13, PartialGap
  <2>2. ch \in Spaces /\ ~f.quoted /\ h > a /\ h # 0
    BY <1>6, <1>8, <1>11, <1>13
  <2>3. v \in Wordings
    BY <2>1 DEF Partial
  <2>4. PICK l \in Nat : l = Len(v)
    BY <2>3 DEF Wordings
  <2>5. PICK x : x = Append(v, <<>>)
    OBVIOUS
  <2>6. Opened(v, s, i) = x /\ Len(x) = l + 1 /\ x[l + 1] = <<>>
    <3>1. Opened(v, s, i) = x
      BY <1>13, <2>5, Zenon DEF Opened
    <3>2. Len(Append(v, <<>>)) = l + 1 /\ Append(v, <<>>)[l + 1] = <<>>
      BY <2>3, <2>4, OpenedFacts
    <3> QED
      BY <2>5, <3>1, <3>2, Zenon
  <2>7. x[Len(x)] = <<>>
    BY <2>6, Zenon
  <2>8. HasEmpty(v, s, h) => HasEmpty(v, s, i)
    BY <1>13, Zenon DEF HasEmpty
  <2>9. g.space
    BY <1>9, <2>2, Zenon
  <2>10. ASSUME Split(out, "nul") = u, f.space => u[Len(u)] = <<>>
         PROVE  Split(g.out, "nul") = x \/ (~resets /\ HasEmpty(v, s, i))
    <3>1. CASE f.space /\ Gap(s, h)
      <4>1. u = x
        BY <1>3, <2>5, <3>1, Zenon DEF Opened
      <4> QED
        BY <1>9, <2>2, <2>10, <3>1, <4>1, Zenon
    <3>2. CASE f.space /\ ~Gap(s, h)
      <4>1. u = v
        BY <1>3, <2>2, <3>2, Zenon DEF Opened
      <4>2. h > 0
        BY <2>2
      <4>3. Len(v) \in 1..Len(v)
        BY <2>4, <3>2, <4>2 DEF Partial
      <4>4. v[Len(v)] = <<>>
        BY <2>10, <3>2, <4>1, Zenon
      <4>5. HasEmpty(v, s, i)
        BY <1>13, <4>3, <4>4, Zenon DEF HasEmpty
      <4> QED
        BY <1>6, <3>2, <4>5, Zenon
    <3>3. CASE ~f.space
      <4>1. ~Gap(s, h)
        BY <1>6, <2>2, <3>3
      <4>2. u = v
        BY <1>3, <2>2, <4>1, Zenon DEF Opened
      <4>3. g.out = Append(out, "nul")
        BY <1>9, <2>2, <3>3, Zenon
      <4>4. "nul" \in Characters \cup {"nul"}
        OBVIOUS
      <4>5. Split(Append(out, "nul"), "nul") = SplitChar(Split(out, "nul"), "nul", "nul")
        BY <4>4, SplitAppend
      <4>6. SplitChar(v, "nul", "nul") = x
        BY <2>5, Zenon DEF SplitChar
      <4> QED
        BY <2>10, <4>2, <4>3, <4>5, <4>6, Zenon
    <3> QED
      BY <3>1, <3>2, <3>3
  <2>11. \/ ~resets /\ HasEmpty(v, s, i)
         \/ Split(g.out, "nul") = x
    BY <1>6, <2>8, <2>10, Zenon
  <2>12. Agrees(g, v, s, i, a, resets)
    BY <1>10, <1>13, <2>6, <2>7, <2>9, <2>11, Zenon DEF Agrees
  <2> QED
    BY <2>1, <2>12
<1> QED
  BY <1>12, <1>13

\* Before the first character that is not a blank there are no words yet.
LEMMA StartAgrees ==
  ASSUME NEW s \in Seq(Characters), NEW n \in Nat, n = Len(s), Closed(s),
         NEW a, NEW e, Trimmed(s, n, a, e), NEW v, v = <<>>, NEW resets \in BOOLEAN
  PROVE  Partial(v, s, a) /\ Agrees(Formatting, v, s, a, a, resets)
<1>1. a \in Nat /\ e \in Nat /\ a < e /\ e <= n
  BY DEF Trimmed
<1>2. (\A q \in 1..a : Gap(s, q)) /\ ~Inside(s, a + 1)
  BY GapsOutside
<1>3. PICK P : P = {k \in 0..a : Partial(v, s, k)}
  OBVIOUS
<1>4. 0 \in P
  <2>1. Partial(v, s, 0)
    BY PartialNone
  <2> QED
    BY <1>1, <1>3, <2>1
<1>5. ASSUME NEW k \in 1..a, k - 1 \in P PROVE k \in P
  <2>1. PICK h \in Nat, i \in Nat : h = k - 1 /\ i = k /\ Follows(i, h) /\ i <= n /\ i \in 0..a
    BY <1>1 DEF Follows
  <2>2. Partial(v, s, h)
    BY <1>3, <1>5, <2>1
  <2>3. Gap(s, i)
    BY <1>2, <2>1
  <2>4. i <= Len(s)
    BY <2>1
  <2>5. Partial(v, s, i)
    BY <2>1, <2>2, <2>3, <2>4, PartialGap
  <2> QED
    BY <1>3, <2>1, <2>5
<1>6. \A k \in 0..a : k \in P
  BY <1>1, <1>4, <1>5, UpTo
<1>7. Partial(v, s, a)
  <2>1. a \in 0..a
    BY <1>1
  <2> QED
    BY <1>3, <1>6, <2>1
<1>8. a = 0 \/ Gap(s, a)
  <2>1. a = 0 \/ a \in 1..a
    BY <1>1
  <2> QED
    BY <1>2, <2>1
<1>9. Opened(v, s, a) = << <<>> >>
  <2>1. Opened(v, s, a) = Append(<<>>, <<>>)
    BY <1>8 DEF Opened
  <2>2. Append(<<>>, <<>>) = << <<>> >>
    OBVIOUS
  <2> QED
    BY <2>1, <2>2
<1>10. Formatting.out = <<>> /\ Formatting.quoted = FALSE /\ Formatting.space = FALSE
  BY DEF Formatting
<1>11. Split(Formatting.out, "nul") = Opened(v, s, a)
  BY <1>9, <1>10, SplitNone
<1>12. Agrees(Formatting, v, s, a, a, resets)
  <2>1. Formatting.quoted <=> Inside(s, a + 1)
    BY <1>2, <1>10
  <2>2. ~(Gap(s, a) /\ a > a)
    BY <1>1
  <2>3. ~Formatting.space
    BY <1>10
  <2> QED
    BY <1>11, <2>1, <2>2, <2>3, Zenon DEF Agrees
<1> QED
  BY <1>7, <1>12

\* The walk of format_cmd_line() over the text between its outer blanks.
FormatSteps(b, s, a, m, resets) ==
  /\ b \in [0..m -> Formats(Characters)] /\ b[0] = Formatting
  /\ \A k \in 1..m : b[k] = FormatChar(b[k - 1], s[a + k], resets)

\* The words that are written, unless an empty one is lost.
Survives(out, s, resets) ==
  \/ Split(out, "nul") = Words(s)
  \/ ~resets /\ \E k \in DOMAIN Words(s) : Words(s)[k] = <<>>

LEMMA WalkAgrees ==
  ASSUME NEW s \in Seq(Characters), NEW n \in Nat, n = Len(s), Closed(s),
         NEW a, NEW e, Trimmed(s, n, a, e), NEW resets \in BOOLEAN,
         NEW m \in Nat, m = e - a, NEW b, FormatSteps(b, s, a, m, resets)
  PROVE  \E v : Partial(v, s, e) /\ Agrees(b[m], v, s, e, a, resets)
<1>1. a \in Nat /\ e \in Nat /\ a < e /\ e <= n /\ a + m = e /\ s[a + 1] \notin Spaces
  BY DEF Trimmed
<1>2. /\ b[0] = Formatting
      /\ \A k \in 0..m : b[k] \in Formats(Characters)
      /\ \A k \in 1..m : b[k] = FormatChar(b[k - 1], s[a + k], resets)
  BY DEF FormatSteps
<1>3. PICK P : P = {k \in 0..m : \E v : Partial(v, s, a + k) /\ Agrees(b[k], v, s, a + k, a, resets)}
  OBVIOUS
<1>4. 0 \in P
  <2>1. PICK v : v = <<>>
    OBVIOUS
  <2>2. Partial(v, s, a) /\ Agrees(Formatting, v, s, a, a, resets)
    BY <2>1, StartAgrees
  <2>3. a + 0 = a /\ 0 \in 0..m
    BY <1>1
  <2>4. Partial(v, s, a + 0) /\ Agrees(b[0], v, s, a + 0, a, resets)
    BY <1>2, <2>2, <2>3, Zenon
  <2> QED
    BY <1>3, <2>3, <2>4, Zenon
<1>5. ASSUME NEW k \in 1..m, k - 1 \in P PROVE k \in P
  <2>1. PICK h \in Nat, i \in Nat :
          /\ h = a + (k - 1) /\ i = a + k /\ Follows(i, h) /\ i <= n
          /\ a <= h /\ (h = a => i = a + 1) /\ k - 1 \in 0..m /\ k \in 0..m
    <3>1. a + (k - 1) \in Nat /\ a + k \in Nat
      BY <1>1
    <3>2. PICK h \in Nat, i \in Nat : h = a + (k - 1) /\ i = a + k
      BY <3>1
    <3>3. Follows(i, h)
      BY <1>1, <3>2 DEF Follows
    <3> QED
      BY <1>1, <3>2, <3>3
  <2>2. PICK v : Partial(v, s, h) /\ Agrees(b[k - 1], v, s, h, a, resets)
    BY <1>3, <1>5, <2>1, Zenon
  <2>3. PICK f \in Formats(Characters) : f = b[k - 1]
    BY <1>2, <2>1
  <2>4. PICK g : g = FormatChar(f, s[i], resets)
    OBVIOUS
  <2>5. g = b[k]
    BY <1>2, <2>1, <2>3, <2>4, Zenon
  <2>6. i <= Len(s) /\ a \in Nat
    BY <1>1, <2>1
  <2>7. h = a => s[i] \notin Spaces
    BY <1>1, <2>1, Zenon
  <2>8. Agrees(f, v, s, h, a, resets)
    BY <2>2, <2>3, Zenon
  <2>9. \E w : Partial(w, s, i) /\ Agrees(g, w, s, i, a, resets)
    BY <2>1, <2>2, <2>4, <2>6, <2>7, <2>8, StepAgrees
  <2>10. PICK w : Partial(w, s, a + k) /\ Agrees(b[k], w, s, a + k, a, resets)
    BY <2>1, <2>5, <2>9, Zenon
  <2> QED
    BY <1>3, <2>1, <2>10, Zenon
<1>6. \A k \in 0..m : k \in P
  BY <1>4, <1>5, UpTo
<1>7. m \in P
  <2>1. m \in 0..m
    OBVIOUS
  <2> QED
    BY <1>6, <2>1
<1> QED
  BY <1>1, <1>3, <1>7, Zenon

\* Behind the last character that is not a blank no word is added.
LEMMA WordsAtEnd ==
  ASSUME NEW s \in Seq(Characters), NEW n \in Nat, n = Len(s), Closed(s),
         NEW a, NEW e, Trimmed(s, n, a, e), NEW v, Partial(v, s, e)
  PROVE  v = Words(s)
<1>1. a \in Nat /\ e \in Nat /\ a < e /\ e <= n
  BY DEF Trimmed
<1>2. \A q \in (e + 1)..n : Gap(s, q)
  BY GapsOutside
<1>3. PICK m \in Nat : m = n - e
  <2>1. n - e \in Nat
    BY <1>1
  <2> QED
    BY <2>1, Zenon
<1>4. PICK P : P = {k \in 0..m : Partial(v, s, e + k)}
  OBVIOUS
<1>5. 0 \in P
  <2>1. e + 0 = e /\ 0 \in 0..m
    BY <1>1
  <2> QED
    BY <1>4, <2>1, Zenon
<1>6. ASSUME NEW k \in 1..m, k - 1 \in P PROVE k \in P
  <2>1. PICK h \in Nat, i \in Nat : h = e + (k - 1) /\ i = e + k
    <3>1. e + (k - 1) \in Nat /\ e + k \in Nat
      BY <1>1
    <3> QED
      BY <3>1
  <2>2. Follows(i, h) /\ i <= Len(s) /\ i \in (e + 1)..n /\ k \in 0..m
    BY <1>1, <1>3, <2>1 DEF Follows
  <2>3. Partial(v, s, h)
    BY <1>4, <1>6, <2>1, Zenon
  <2>4. Gap(s, i)
    BY <1>2, <2>2
  <2>5. Partial(v, s, i)
    BY <2>2, <2>3, <2>4, PartialGap
  <2> QED
    BY <1>4, <2>1, <2>2, <2>5, Zenon
<1>7. \A k \in 0..m : k \in P
  BY <1>5, <1>6, UpTo
<1>8. Partial(v, s, n)
  <2>1. m \in 0..m /\ e + m = n
    BY <1>1, <1>3
  <2>2. m \in P
    BY <1>7, <2>1
  <2> QED
    BY <1>4, <2>1, <2>2, Zenon
<1> QED
  BY <1>8, PartialEnd

LEMMA FormatKeeps ==
  ASSUME NEW s \in Seq(Characters), NEW n \in Nat, n = Len(s), Closed(s),
         NEW a, NEW e, Trimmed(s, n, a, e), NEW resets \in BOOLEAN,
         NEW m \in Nat, m = e - a, NEW b, FormatSteps(b, s, a, m, resets)
  PROVE  Survives(b[m].out, s, resets)
<1>1. a \in Nat /\ e \in Nat /\ a < e /\ e <= n /\ s[e] \notin Spaces
  BY DEF Trimmed
<1>2. PICK v : Partial(v, s, e) /\ Agrees(b[m], v, s, e, a, resets)
  BY WalkAgrees
<1>3. v = Words(s)
  BY <1>2, WordsAtEnd
<1>4. ~Gap(s, e) /\ e # 0
  BY <1>1 DEF Gap
<1>5. Opened(v, s, e) = v
  BY <1>4, Zenon DEF Opened
<1>6. (~resets /\ HasEmpty(v, s, e)) \/ Split(b[m].out, "nul") = v
  BY <1>2, <1>5, Zenon DEF Agrees
<1>7. HasEmpty(v, s, e) => \E k \in DOMAIN v : v[k] = <<>>
  <2>1. v \in Wordings
    BY <1>2 DEF Partial
  <2>2. DOMAIN v = 1..Len(v)
    BY <2>1 DEF Wordings
  <2> QED
    BY <2>2, Zenon DEF HasEmpty
<1> QED
  BY <1>3, <1>6, <1>7, Zenon DEF Survives

LEMMA TrimInPlace ==
  ASSUME NEW s \in Seq(Characters), NEW a \in Nat, NEW e \in Nat, a < e, e <= Len(s),
         NEW m \in Nat, m = e - a
  PROVE  /\ Len(SubSeq(s, a + 1, e)) = m
         /\ \A k \in 1..m : SubSeq(s, a + 1, e)[k] = s[a + k]
<1>1. PICK c \in Nat \ {0} : c = a + 1 /\ c <= e /\ e - c + 1 = m
  OBVIOUS
<1>2. /\ SubSeq(s, c, e) \in Seq(Characters) /\ Len(SubSeq(s, c, e)) = e - c + 1
      /\ \A k \in 1..(e - c + 1) : SubSeq(s, c, e)[k] = s[c + k - 1]
  <2>1. c <= e /\ e <= Len(s)
    BY <1>1
  <2> QED
    BY <2>1, SubSeqFacts, Zenon
<1>3. Len(SubSeq(s, a + 1, e)) = m /\ \A k \in 1..m : SubSeq(s, a + 1, e)[k] = s[c + k - 1]
  BY <1>1, <1>2, Zenon
<1>4. ASSUME NEW k \in 1..m PROVE SubSeq(s, a + 1, e)[k] = s[a + k]
  <2>1. c + k - 1 = a + k
    BY <1>1
  <2> QED
    BY <1>3, <2>1, Zenon
<1> QED
  BY <1>3, <1>4, Zenon

\* The walk over Trim(s) is a walk over that part of s.
FormatsOver(b, t, resets) ==
  /\ b \in [0..Len(t) -> Formats(Characters)] /\ b[0] = Formatting
  /\ \A k \in 1..Len(t) : b[k] = FormatChar(b[k - 1], t[k], resets)

LEMMA WalkInPlace ==
  ASSUME NEW s \in Seq(Characters), NEW n \in Nat, n = Len(s),
         NEW a, NEW e, Trimmed(s, n, a, e), NEW resets \in BOOLEAN,
         NEW m \in Nat, m = e - a, NEW b, FormatsOver(b, Trim(s), resets)
  PROVE  Len(Trim(s)) = m /\ FormatSteps(b, s, a, m, resets)
<1>1. /\ a \in Nat /\ e \in Nat /\ a < e /\ e <= Len(s)
      /\ Trim(s) = SubSeq(s, a + 1, e)
  BY DEF Trimmed
<1>2. /\ Len(SubSeq(s, a + 1, e)) = m
      /\ \A k \in 1..m : SubSeq(s, a + 1, e)[k] = s[a + k]
  BY <1>1, TrimInPlace
<1>3. PICK t : t = Trim(s) /\ Len(t) = m /\ \A k \in 1..m : t[k] = s[a + k]
  BY <1>1, <1>2, Zenon
<1>4. /\ b \in [0..m -> Formats(Characters)] /\ b[0] = Formatting
      /\ \A k \in 1..m : b[k] = FormatChar(b[k - 1], t[k], resets)
  BY <1>3, Zenon DEF FormatsOver
<1> QED
  BY <1>3, <1>4, Zenon DEF FormatSteps

LEMMA FormatsKeep ==
  ASSUME NEW s \in Seq(Characters), Closed(s), Trim(s) # <<>>
  PROVE  /\ Survives(FormatP4(s), s, TRUE) /\ Survives(FormatP3(s), s, TRUE)
         /\ Survives(FormatP2(s), s, FALSE)
<1>1. PICK n \in Nat : n = Len(s)
  OBVIOUS
<1>2. PICK a, e : Trimmed(s, n, a, e)
  BY <1>1, TrimFacts
<1>3. PICK m \in Nat : m = e - a
  <2>1. e - a \in Nat
    BY <1>2 DEF Trimmed
  <2> QED
    BY <2>1, Zenon
<1>4. ASSUME NEW resets \in BOOLEAN, NEW b, FormatsOver(b, Trim(s), resets)
      PROVE  Survives(b[Len(Trim(s))].out, s, resets)
  <2>1. Len(Trim(s)) = m /\ FormatSteps(b, s, a, m, resets)
    BY <1>1, <1>2, <1>3, <1>4, WalkInPlace
  <2>2. Survives(b[m].out, s, resets)
    BY <1>1, <1>2, <1>3, <2>1, FormatKeeps
  <2> QED
    BY <2>1, <2>2, Zenon
<1>5. TRUE \in BOOLEAN /\ FALSE \in BOOLEAN
  OBVIOUS
<1>6. Survives(FormatP4(s), s, TRUE)
  <2>1. PICK b : FormatsOver(b, Trim(s), TRUE) /\ b[Len(Trim(s))].out = FormatP4(s)
    BY FormatWalkP4, Zenon DEF FormatsOver
  <2> QED
    BY <1>4, <1>5, <2>1, Zenon
<1>7. Survives(FormatP3(s), s, TRUE)
  <2>1. PICK b : FormatsOver(b, Trim(s), TRUE) /\ b[Len(Trim(s))].out = FormatP3(s)
    BY FormatWalkP3, Zenon DEF FormatsOver
  <2> QED
    BY <1>4, <1>5, <2>1, Zenon
<1>8. Survives(FormatP2(s), s, FALSE)
  <2>1. PICK b : FormatsOver(b, Trim(s), FALSE) /\ b[Len(Trim(s))].out = FormatP2(s)
    BY FormatWalkP2, Zenon DEF FormatsOver
  <2> QED
    BY <1>4, <1>5, <2>1, Zenon
<1> QED
  BY <1>6, <1>7, <1>8

\* format_cmd_line() of 5-ShellP3 and 6-ShellP4 leaves exactly the words that were
\* typed, and that of 4-ShellP2 does if none of them is empty: for every text,
\* however long and wherever its quotes stand, if they are closed.
THEOREM WordsSurvive == Spec => []WordsKept
<1>1. TextType => WordsKept
  <2>1. SUFFICES ASSUME TextType, IsLine PROVE WordsKept
    BY DEF WordsKept
  <2>2. PICK s \in Seq(Characters) : s = text /\ Closed(s) /\ Trim(s) # <<>>
    BY <2>1 DEF TextType, IsLine
  <2>3. /\ Survives(FormatP4(s), s, TRUE) /\ Survives(FormatP3(s), s, TRUE)
        /\ Survives(FormatP2(s), s, FALSE)
    BY <2>2, FormatsKeep
  <2> QED
    BY <2>2, <2>3 DEF Survives, WordsKept
<1> QED
  BY <1>1, TextTypeInvariant, PTL

-----------------------------------------------------------------------------
(* Words and commands.  The redirections are found in one walk over the    *)
(* words and the command in another; what the first k words mean           *)
(* (Understood) is what build_cmd_buff() has made of them, one word after  *)
(* the other (UnderstoodNext), and at the end that is Meaning(s).          *)

\* One word more, as 6-ShellP4 takes it, field by field.
LEMMA WordFields ==
  ASSUME NEW W, NEW b \in Buffs(W), NEW w \in W, NEW g, g = WordP4(b, w), g.rc = "OK"
  PROVE  /\ b.rc = "OK"
         /\ b.flag # "none" =>
              /\ g.flag = "none" /\ g.argv = b.argv
              /\ g.append <=> b.append \/ b.flag = "append"
              /\ g.input = IF b.flag = "input" THEN w ELSE b.input
              /\ g.output = IF b.flag \in {"output", "append"} THEN w ELSE b.output
         /\ b.flag = "none" =>
              /\ g.input = b.input /\ g.output = b.output /\ (g.append <=> b.append)
              /\ g.flag = Operator(w)
              /\ g.argv = IF Operator(w) = "none" THEN Append(b.argv, w) ELSE b.argv
<1>1. b.rc = "OK"
  BY DEF WordP4
<1>2. CASE b.flag # "none"
  <2>1. g = [SetFile(b, w) EXCEPT !.flag = "none"]
    BY <1>1, <1>2 DEF WordP4
  <2>2. b.flag \in {"append", "output", "input"}
    BY <1>2 DEF Buffs
  <2>3. CASE b.flag = "append"
    <3>1. SetFile(b, w) = [b EXCEPT !.output = w, !.append = TRUE]
      BY <2>3 DEF SetFile
    <3> QED
      BY <1>1, <2>1, <2>3, <3>1 DEF Buffs
  <2>4. CASE b.flag = "output"
    <3>1. SetFile(b, w) = [b EXCEPT !.output = w]
      BY <2>4 DEF SetFile
    <3> QED
      BY <1>1, <2>1, <2>4, <3>1 DEF Buffs
  <2>5. CASE b.flag = "input"
    <3>1. SetFile(b, w) = [b EXCEPT !.input = w]
      BY <2>5 DEF SetFile
    <3> QED
      BY <1>1, <2>1, <2>5, <3>1 DEF Buffs
  <2> QED
    BY <2>2, <2>3, <2>4, <2>5
<1>3. CASE b.flag = "none" /\ Operator(w) # "none"
  <2>1. g = [b EXCEPT !.flag = Operator(w)]
    <3>1. b.argv # <<>>
      <4>1. SUFFICES ASSUME b.argv = <<>> PROVE FALSE
        OBVIOUS
      <4>2. g = [b EXCEPT !.rc = "WARN_NO_CMDS", !.flag = Operator(w)]
        BY <1>1, <1>3, <4>1 DEF WordP4
      <4> QED
        BY <4>2 DEF Buffs
    <3> QED
      BY <1>1, <1>3, <3>1 DEF WordP4
  <2> QED
    BY <1>1, <1>3, <2>1 DEF Buffs
<1>4. CASE b.flag = "none" /\ Operator(w) = "none"
  <2>1. PICK can : can = CanInsert(b.argv, Len(w))
    OBVIOUS
  <2>2. g = Insert(b, w, can)
    BY <1>1, <1>4, <2>1 DEF WordP4
  <2>3. can = "OK"
    BY <2>2 DEF Insert, Buffs
  <2>4. g = [b EXCEPT !.rc = "OK", !.argv = Append(b.argv, w)]
    BY <2>2, <2>3 DEF Insert
  <2> QED
    BY <1>1, <1>4, <2>4 DEF Buffs
<1> QED
  BY <1>2, <1>3, <1>4

\* R are the redirections among the n words ws, and P the words that are neither
\* a redirection nor its file.
Redirected(R, P, ws, n) ==
  /\ R \in SUBSET (1..n)
  /\ \A k \in 1..n : k \in R <=> Operator(ws[k]) # "none" /\ k - 1 \notin R
  /\ \A k \in 1..n : k \in P <=> k \notin R /\ k - 1 \notin R

\* The redirections of some kinds whose file is among the first k words.
UsedUpTo(R, ws, k, kinds) == {m \in R : m < k /\ Operator(ws[m]) \in kinds}

FileNamed(R, ws, h, kinds) == h \in R /\ Operator(ws[h]) \in kinds

LastFile(x, R, ws, k, kinds) ==
  \/ UsedUpTo(R, ws, k, kinds) = {} /\ x = NoFile
  \/ \E m \in UsedUpTo(R, ws, k, kinds) :
       (\A j \in UsedUpTo(R, ws, k, kinds) : m >= j) /\ x = ws[m + 1]

ArgsUpTo(argv, ws, P, k) ==
  /\ Len(argv) = Len(InOrder(P, k))
  /\ \A j \in 1..Len(argv) : argv[j] = ws[InOrder(P, k)[j]]

\* What has been made of the first k words is what they mean.
Understood(b, R, P, ws, k) ==
  /\ b.flag # "none" <=> k \in R
  /\ k \in R => b.flag = Operator(ws[k])
  /\ ArgsUpTo(b.argv, ws, P, k)
  /\ LastFile(b.input, R, ws, k, {"input"})
  /\ LastFile(b.output, R, ws, k, {"output", "append"})
  /\ b.append <=> UsedUpTo(R, ws, k, {"append"}) # {}

UsedStep(R, ws, h, k, kinds) ==
  LET u == UsedUpTo(R, ws, h, kinds)
      v == UsedUpTo(R, ws, k, kinds)
  IN  IF FileNamed(R, ws, h, kinds) THEN v = u \cup {h} /\ \A j \in u : h >= j
      ELSE v = u

LEMMA UsedNext ==
  ASSUME NEW n \in Nat, NEW R \in SUBSET (1..n), NEW ws, NEW h \in Nat, NEW k \in Nat,
         Follows(k, h), NEW kinds
  PROVE  UsedStep(R, ws, h, k, kinds)
<1>1. \A m \in R : m \in Nat /\ (m < k <=> m < h \/ m = h)
  BY DEF Follows
<1>2. PICK U : U = UsedUpTo(R, ws, h, kinds)
  OBVIOUS
<1>3. PICK V : V = UsedUpTo(R, ws, k, kinds)
  OBVIOUS
<1>4. \A m : m \in U <=> m \in R /\ m < h /\ Operator(ws[m]) \in kinds
  BY <1>2 DEF UsedUpTo
<1>5. \A m : m \in V <=> m \in R /\ (m < h \/ m = h) /\ Operator(ws[m]) \in kinds
  BY <1>1, <1>3 DEF UsedUpTo
<1>6. ASSUME NEW j \in U PROVE h >= j
  <2>1. j \in R /\ j < h
    BY <1>4
  <2>2. j \in Nat
    BY <2>1
  <2> QED
    BY <2>1, <2>2
<1>7. CASE FileNamed(R, ws, h, kinds)
  <2>1. \A m : m \in V <=> m \in U \/ m = h
    BY <1>4, <1>5, <1>7, Zenon DEF FileNamed
  <2>2. V = U \cup {h}
    BY <2>1
  <2> QED
    BY <1>2, <1>3, <1>6, <1>7, <2>2, Zenon DEF UsedStep
<1>8. CASE ~FileNamed(R, ws, h, kinds)
  <2>1. \A m : m \in V <=> m \in U
    BY <1>4, <1>5, <1>8, Zenon DEF FileNamed
  <2>2. V = U
    BY <2>1
  <2> QED
    BY <1>2, <1>3, <1>8, <2>2, Zenon DEF UsedStep
<1> QED
  BY <1>7, <1>8

LEMMA FileNext ==
  ASSUME NEW n \in Nat, NEW R \in SUBSET (1..n), NEW ws, NEW h \in Nat, NEW k \in Nat,
         Follows(k, h), NEW kinds, NEW x, NEW y, LastFile(x, R, ws, h, kinds),
         y = IF FileNamed(R, ws, h, kinds) THEN ws[k] ELSE x
  PROVE  LastFile(y, R, ws, k, kinds)
<1>0. UsedStep(R, ws, h, k, kinds)
  BY UsedNext
<1>1. PICK U : U = UsedUpTo(R, ws, h, kinds)
  OBVIOUS
<1>2. PICK V : V = UsedUpTo(R, ws, k, kinds)
  OBVIOUS
<1>3. CASE FileNamed(R, ws, h, kinds)
  <2>1. V = U \cup {h} /\ (\A j \in U : h >= j) /\ h >= h
    <3>1. V = U \cup {h} /\ \A j \in U : h >= j
      BY <1>0, <1>1, <1>2, <1>3, Zenon DEF UsedStep
    <3> QED
      BY <3>1
  <2>2. h \in V /\ \A j \in V : h >= j
    BY <2>1
  <2>3. y = ws[h + 1]
    BY <1>3 DEF Follows
  <2> QED
    BY <1>2, <2>2, <2>3 DEF LastFile
<1>4. CASE ~FileNamed(R, ws, h, kinds)
  <2>1. V = U /\ y = x
    BY <1>0, <1>1, <1>2, <1>4, Zenon DEF UsedStep
  <2> QED
    BY <1>1, <1>2, <2>1 DEF LastFile
<1> QED
  BY <1>3, <1>4

Appended(v, S, u, x, l) ==
  v \in Seq(S) /\ Len(v) = l + 1 /\ v[l + 1] = x /\ \A j \in 1..l : v[j] = u[j]

LEMMA AppendFacts ==
  ASSUME NEW S, NEW u \in Seq(S), NEW x \in S, NEW l \in Nat, l = Len(u)
  PROVE  Appended(Append(u, x), S, u, x, l)
<1>1. Append(u, x) \in Seq(S) /\ Len(Append(u, x)) = l + 1
  OBVIOUS
<1>2. Append(u, x)[l + 1] = x
  OBVIOUS
<1>3. \A j \in 1..l : Append(u, x)[j] = u[j]
  OBVIOUS
<1> QED
  BY <1>1, <1>2, <1>3, Zenon DEF Appended

LEMMA ArgsNext ==
  ASSUME NEW W, NEW n \in Nat, NEW ws \in [1..n -> W], NEW P,
         NEW h \in Nat, NEW k \in 1..n, Follows(k, h),
         NEW argv \in Seq(W), ArgsUpTo(argv, ws, P, h), NEW w \in W, w = ws[k]
  PROVE  /\ k \in P => ArgsUpTo(Append(argv, w), ws, P, k)
         /\ k \notin P => ArgsUpTo(argv, ws, P, k)
<1>1. PICK r \in Seq(Nat) : r = InOrder(P, h)
  BY InOrderNext
<1>2. InOrder(P, k) = Include(r, k, P)
  BY <1>1, InOrderNext
<1>3. PICK l \in Nat : l = Len(argv) /\ l = Len(r)
  BY <1>1 DEF ArgsUpTo
<1>6. \A j \in 1..l : argv[j] = ws[r[j]]
  BY <1>1, <1>3 DEF ArgsUpTo
<1>4. ASSUME k \notin P PROVE ArgsUpTo(argv, ws, P, k)
  <2>1. InOrder(P, k) = r
    BY <1>2, <1>4 DEF Include
  <2> QED
    BY <1>3, <1>6, <2>1 DEF ArgsUpTo
<1>5. ASSUME k \in P PROVE ArgsUpTo(Append(argv, w), ws, P, k)
  <2>1. InOrder(P, k) = Append(r, k)
    BY <1>2, <1>5 DEF Include
  <2>2. PICK q \in Seq(Nat) : q = Append(r, k) /\ Len(q) = l + 1 /\ q[l + 1] = k /\ \A j \in 1..l : q[j] = r[j]
    <3>1. /\ Append(r, k) \in Seq(Nat) /\ Len(Append(r, k)) = l + 1 /\ Append(r, k)[l + 1] = k
          /\ \A j \in 1..l : Append(r, k)[j] = r[j]
      BY <1>3
    <3> QED
      BY <3>1
  <2>3. PICK a \in Seq(W) : a = Append(argv, w) /\ Len(a) = l + 1 /\ a[l + 1] = w /\ \A j \in 1..l : a[j] = argv[j]
    <3>1. Appended(Append(argv, w), W, argv, w, l)
      BY <1>3, AppendFacts
    <3> QED
      BY <3>1, Zenon DEF Appended
  <2>4. \A j \in 1..(l + 1) : a[j] = ws[q[j]]
    <3> TAKE j \in 1..(l + 1)
    <3>1. j \in 1..l \/ j = l + 1
      OBVIOUS
    <3> QED
      BY <1>6, <2>2, <2>3, <3>1
  <2> QED
    BY <2>1, <2>2, <2>3, <2>4 DEF ArgsUpTo
<1> QED
  BY <1>4, <1>5

\* A word more is understood as its place among the words tells.
LEMMA UnderstoodNext ==
  ASSUME NEW W, NEW n \in Nat, NEW ws \in [1..n -> W], NEW R, NEW P, Redirected(R, P, ws, n),
         NEW h \in Nat, NEW k \in Nat, Follows(k, h), k <= n,
         NEW b \in Buffs(W), Understood(b, R, P, ws, h),
         NEW g, g = WordP4(b, ws[k]), g.rc = "OK"
  PROVE  Understood(g, R, P, ws, k)
<1>1. k \in 1..n /\ k - 1 = h /\ k = h + 1
  BY DEF Follows
<1>2. PICK w \in W : w = ws[k]
  BY <1>1
<1>3. /\ R \in SUBSET (1..n)
      /\ k \in R <=> Operator(w) # "none" /\ h \notin R
      /\ k \in P <=> k \notin R /\ h \notin R
  BY <1>1, <1>2 DEF Redirected
<1>4. /\ b.flag # "none" <=> h \in R
      /\ h \in R => b.flag = Operator(ws[h])
      /\ ArgsUpTo(b.argv, ws, P, h)
      /\ LastFile(b.input, R, ws, h, {"input"})
      /\ LastFile(b.output, R, ws, h, {"output", "append"})
      /\ b.append <=> UsedUpTo(R, ws, h, {"append"}) # {}
  BY DEF Understood
<1>5. /\ b.flag # "none" =>
           /\ g.flag = "none" /\ g.argv = b.argv
           /\ g.append <=> b.append \/ b.flag = "append"
           /\ g.input = IF b.flag = "input" THEN w ELSE b.input
           /\ g.output = IF b.flag \in {"output", "append"} THEN w ELSE b.output
      /\ b.flag = "none" =>
           /\ g.input = b.input /\ g.output = b.output /\ (g.append <=> b.append)
           /\ g.flag = Operator(w)
           /\ g.argv = IF Operator(w) = "none" THEN Append(b.argv, w) ELSE b.argv
  <2>1. g = WordP4(b, w)
    BY <1>2
  <2> QED
    BY <2>1, WordFields
<1>6. PICK argv \in Seq(W) : argv = b.argv
  BY DEF Buffs
<1>7. /\ k \in P => ArgsUpTo(Append(argv, w), ws, P, k)
      /\ k \notin P => ArgsUpTo(argv, ws, P, k)
  <2>1. ArgsUpTo(argv, ws, P, h)
    BY <1>4, <1>6
  <2> QED
    BY <1>1, <1>2, <2>1, ArgsNext
<1>8. (g.flag # "none" <=> k \in R) /\ (k \in R => g.flag = Operator(ws[k]))
  BY <1>2, <1>3, <1>4, <1>5
<1>9. ArgsUpTo(g.argv, ws, P, k)
  BY <1>3, <1>4, <1>5, <1>6, <1>7
<1>10. g.input = IF FileNamed(R, ws, h, {"input"}) THEN ws[k] ELSE b.input
  BY <1>2, <1>4, <1>5 DEF FileNamed
<1>11. g.output = IF FileNamed(R, ws, h, {"output", "append"}) THEN ws[k] ELSE b.output
  BY <1>2, <1>4, <1>5 DEF FileNamed
<1>12. LastFile(g.input, R, ws, k, {"input"})
  BY <1>3, <1>4, <1>10, FileNext
<1>13. LastFile(g.output, R, ws, k, {"output", "append"})
  BY <1>3, <1>4, <1>11, FileNext
<1>14. g.append <=> UsedUpTo(R, ws, k, {"append"}) # {}
  <2>0. UsedStep(R, ws, h, k, {"append"})
    BY <1>3, UsedNext
  <2>1. PICK U : U = UsedUpTo(R, ws, h, {"append"})
    OBVIOUS
  <2>2. PICK V : V = UsedUpTo(R, ws, k, {"append"})
    OBVIOUS
  <2>3. CASE FileNamed(R, ws, h, {"append"})
    <3>1. V = U \cup {h}
      BY <2>0, <2>1, <2>2, <2>3, Zenon DEF UsedStep
    <3> QED
      BY <1>4, <1>5, <2>2, <2>3, <3>1 DEF FileNamed
  <2>4. CASE ~FileNamed(R, ws, h, {"append"})
    <3>1. V = U
      BY <2>0, <2>1, <2>2, <2>4, Zenon DEF UsedStep
    <3>2. g.append <=> b.append
      BY <1>4, <1>5, <2>4 DEF FileNamed
    <3> QED
      BY <1>4, <2>1, <2>2, <3>1, <3>2
  <2> QED
    BY <2>3, <2>4
<1> QED
  BY <1>8, <1>9, <1>12, <1>13, <1>14 DEF Understood

\* The recursive function of Redirections(), given one that satisfies its equation.
Alternates(f, ws, n) ==
  /\ f \in [0..n -> BOOLEAN]
  /\ \A k \in 0..n : f[k] <=> k > 0 /\ Operator(ws[k]) # "none" /\ ~f[k - 1]

Plain(R, n) == {k \in 1..n : k \notin R /\ k - 1 \notin R}

LEMMA RedirectionFacts ==
  ASSUME NEW W, NEW ws \in Seq(W), NEW n \in Nat, n = Len(ws), NEW f, Alternates(f, ws, n)
  PROVE  Redirected(Redirections(ws), Plain(Redirections(ws), n), ws, n)
<1>1. DOMAIN ws = 1..n
  OBVIOUS
<1>2. f = [k \in 0..n |-> k > 0 /\ Operator(ws[k]) # "none" /\ ~f[k - 1]]
  <2>1. /\ f \in [0..n -> BOOLEAN]
        /\ \A k \in 0..n : f[k] <=> k > 0 /\ Operator(ws[k]) # "none" /\ ~f[k - 1]
    BY DEF Alternates
  <2>2. DOMAIN f = 0..n
    BY <2>1
  <2>3. \A k \in 0..n : f[k] = (k > 0 /\ Operator(ws[k]) # "none" /\ ~f[k - 1])
    <3> TAKE k \in 0..n
    <3>1. f[k] \in BOOLEAN
      BY <2>1
    <3>2. f[k] <=> (k > 0 /\ Operator(ws[k]) # "none" /\ ~f[k - 1])
      BY <2>1
    <3> QED
      BY <3>1, <3>2, Zenon
  <2>4. f = [k \in 0..n |-> f[k]]
    BY <2>1
  <2> QED
    BY <2>2, <2>3, <2>4, Zenon
<1>3. PICK op : /\ op = [k \in 0..n |-> k > 0 /\ Operator(ws[k]) # "none" /\ ~op[k - 1]]
                /\ Redirections(ws) = {k \in 1..n : op[k]}
  <2>1. f = [k \in 0..Len(ws) |-> k > 0 /\ Operator(ws[k]) # "none" /\ ~f[k - 1]]
    BY <1>2
  <2>2. \E op : /\ op = [k \in 0..Len(ws) |-> k > 0 /\ Operator(ws[k]) # "none" /\ ~op[k - 1]]
                /\ Redirections(ws) = {k \in DOMAIN ws : op[k]}
    BY <2>1, Zenon DEF Redirections
  <2> QED
    BY <1>1, <2>2
<1>4. PICK R \in SUBSET (1..n) : R = Redirections(ws) /\ \A k \in 1..n : k \in R <=> op[k]
  <2>1. {k \in 1..n : op[k]} \in SUBSET (1..n)
    OBVIOUS
  <2> QED
    BY <1>3, <2>1
<1>5. \A k \in 1..n : k \in R <=> Operator(ws[k]) # "none" /\ k - 1 \notin R
  <2> TAKE k \in 1..n
  <2>1. k \in 0..n /\ k > 0 /\ k - 1 \in 0..n
    OBVIOUS
  <2>2. op[k] = (k > 0 /\ Operator(ws[k]) # "none" /\ ~op[k - 1])
    BY <1>3, <2>1, Zenon
  <2>3. op[k] <=> Operator(ws[k]) # "none" /\ ~op[k - 1]
    BY <2>1, <2>2, Zenon
  <2>4. CASE k = 1
    <3>1. 0 \in 0..n /\ ~(0 > 0) /\ k - 1 = 0 /\ k - 1 \notin R
      BY <1>4, <2>4
    <3>2. op[0] = (0 > 0 /\ Operator(ws[0]) # "none" /\ ~op[0 - 1])
      BY <1>3, <3>1, Zenon
    <3>3. ~op[k - 1]
      BY <3>1, <3>2, Zenon
    <3> QED
      BY <1>4, <2>3, <3>1, <3>3, Zenon
  <2>5. CASE k # 1
    <3>1. k - 1 \in 1..n
      BY <2>5
    <3> QED
      BY <1>4, <2>3, <3>1, Zenon
  <2> QED
    BY <2>4, <2>5
<1>6. \A k \in 1..n : k \in Plain(R, n) <=> k \notin R /\ k - 1 \notin R
  BY DEF Plain
<1>7. Redirected(R, Plain(R, n), ws, n)
  BY <1>5, <1>6, Zenon DEF Redirected
<1> QED
  BY <1>4, <1>7, Zenon

\* The file of the last redirection used.
FileOf(R, ws, n, kinds) ==
  IF UsedUpTo(R, ws, n, kinds) = {} THEN NoFile
  ELSE ws[1 + CHOOSE m \in UsedUpTo(R, ws, n, kinds) : \A j \in UsedUpTo(R, ws, n, kinds) : m >= j]

ArgsOf(P, ws, n) == [j \in DOMAIN InOrder(P, n) |-> ws[InOrder(P, n)[j]]]

LEMMA LastFileOf ==
  ASSUME NEW n \in Nat, NEW R \in SUBSET (1..n), NEW ws, NEW kinds, NEW x,
         LastFile(x, R, ws, n, kinds)
  PROVE  x = FileOf(R, ws, n, kinds)
<1>1. PICK U \in SUBSET Nat : U = UsedUpTo(R, ws, n, kinds)
  <2>1. UsedUpTo(R, ws, n, kinds) \in SUBSET Nat
    <3>1. \A m \in R : m \in Nat
      OBVIOUS
    <3>2. \A m \in UsedUpTo(R, ws, n, kinds) : m \in Nat
      BY <3>1, Zenon DEF UsedUpTo
    <3> QED
      BY <3>2
  <2> QED
    BY <2>1
<1>2. CASE U = {}
  <2>1. x = NoFile
    BY <1>1, <1>2 DEF LastFile
  <2> QED
    BY <1>1, <1>2, <2>1 DEF FileOf
<1>3. CASE U # {}
  <2>1. PICK m \in U : (\A j \in U : m >= j) /\ x = ws[m + 1]
    BY <1>1, <1>3 DEF LastFile
  <2>2. PICK d \in U : d = (CHOOSE i \in U : \A j \in U : i >= j) /\ \A j \in U : d >= j
    BY <2>1
  <2>3. d = m
    <3>1. d \in Nat /\ m \in Nat /\ d >= m /\ m >= d
      BY <2>1, <2>2
    <3> QED
      BY <3>1
  <2>4. FileOf(R, ws, n, kinds) = ws[1 + d]
    BY <1>1, <1>3, <2>2, Zenon DEF FileOf
  <2>5. 1 + d = m + 1
    BY <2>3
  <2> QED
    BY <2>1, <2>4, <2>5, Zenon
<1> QED
  BY <1>2, <1>3

LEMMA LastArgs ==
  ASSUME NEW W, NEW n \in Nat, NEW ws \in [1..n -> W], NEW P, NEW argv \in Seq(W),
         ArgsUpTo(argv, ws, P, n)
  PROVE  argv = ArgsOf(P, ws, n)
<1>1. PICK r \in Seq(Nat) : r = InOrder(P, n)
  <2>1. PICK m \in Nat : m = n + 1
    OBVIOUS
  <2>2. Follows(m, n)
    BY <2>1 DEF Follows
  <2> QED
    BY <2>2, InOrderNext
<1>2. PICK l \in Nat : l = Len(argv) /\ l = Len(r)
  BY <1>1 DEF ArgsUpTo
<1>3. DOMAIN argv = 1..l /\ DOMAIN r = 1..l
  <2>1. DOMAIN argv = 1..Len(argv)
    OBVIOUS
  <2>2. DOMAIN r = 1..Len(r)
    OBVIOUS
  <2> QED
    BY <1>2, <2>1, <2>2, Zenon
<1>4. \A j \in 1..l : argv[j] = ws[r[j]]
  BY <1>1, <1>2, Zenon DEF ArgsUpTo
<1>5. argv = [j \in 1..l |-> argv[j]]
  BY <1>3
<1>6. argv = [j \in 1..l |-> ws[r[j]]]
  BY <1>4, <1>5, Zenon
<1> QED
  BY <1>1, <1>3, <1>6, Zenon DEF ArgsOf

\* Meaning(s) in terms of these.
LEMMA MeaningFields ==
  ASSUME NEW s, NEW ws, ws = Words(s), NEW W, ws \in Seq(W), NEW n \in Nat, n = Len(ws),
         NEW R, R = Redirections(ws)
  PROVE  /\ Meaning(s).argv = ArgsOf(Plain(R, n), ws, n)
         /\ Meaning(s).input = FileOf(R, ws, n, {"input"})
         /\ Meaning(s).output = FileOf(R, ws, n, {"output", "append"})
         /\ Meaning(s).appends = UsedUpTo(R, ws, n, {"append"})
<1>1. DOMAIN ws = 1..n
  OBVIOUS
<1>2. Plain(R, n) = {k \in DOMAIN ws : k \notin R /\ k - 1 \notin R}
  BY <1>1 DEF Plain
<1>3. Meaning(s).argv = ArgsOf(Plain(R, n), ws, n)
  BY <1>2, Zenon DEF Meaning, ArgsOf
<1>4. Meaning(s).input = FileOf(R, ws, n, {"input"})
  <2>1. Meaning(s).input =
          FileOf(Redirections(Words(s)), Words(s), Len(Words(s)), {"input"})
    BY Zenon DEF Meaning, FileOf, UsedUpTo
  <2> QED
    BY <2>1, Zenon
<1>5. Meaning(s).output = FileOf(R, ws, n, {"output", "append"})
  <2>1. Meaning(s).output =
          FileOf(Redirections(Words(s)), Words(s), Len(Words(s)), {"output", "append"})
    BY Zenon DEF Meaning, FileOf, UsedUpTo
  <2> QED
    BY <2>1, Zenon
<1>6. Meaning(s).appends = UsedUpTo(R, ws, n, {"append"})
  BY Zenon DEF Meaning, UsedUpTo
<1> QED
  BY <1>3, <1>4, <1>5, <1>6

\* The words of an accepted command, one after the other.
AcceptedWalk(b, W, ws, n) ==
  /\ b \in [0..n -> Buffs(W)] /\ b[0] = EmptyBuff /\ b[n].rc = "OK"
  /\ \A k \in 1..n : b[k] = WordP4(b[k - 1], ws[k])

LEMMA EachAccepted ==
  ASSUME NEW W, NEW n \in Nat, NEW ws \in [1..n -> W], NEW b, AcceptedWalk(b, W, ws, n)
  PROVE  \A k \in 0..n : b[k].rc = "OK"
<1>1. /\ b \in [0..n -> Buffs(W)] /\ b[n].rc = "OK"
      /\ \A k \in 1..n : b[k] = WordP4(b[k - 1], ws[k])
  BY DEF AcceptedWalk
<1>2. PICK P : P = {k \in 0..n : b[n - k].rc = "OK"}
  OBVIOUS
<1>3. 0 \in P
  <2>1. 0 \in 0..n /\ n - 0 = n
    OBVIOUS
  <2> QED
    BY <1>1, <1>2, <2>1, Zenon
<1>4. ASSUME NEW k \in 1..n, k - 1 \in P PROVE k \in P
  <2>1. PICK h \in 0..n, i \in 1..n : h = n - k /\ i = n - (k - 1) /\ h = i - 1 /\ k \in 0..n
    <3>1. n - k \in 0..n /\ n - (k - 1) \in 1..n /\ n - k = (n - (k - 1)) - 1 /\ k \in 0..n
      OBVIOUS
    <3> QED
      BY <3>1, Zenon
  <2>2. b[i].rc = "OK"
    BY <1>2, <1>4, <2>1, Zenon
  <2>3. PICK x \in Buffs(W) : x = b[h]
    BY <1>1
  <2>4. PICK w \in W : w = ws[i]
    OBVIOUS
  <2>5. b[i] = WordP4(x, w)
    BY <1>1, <2>1, <2>3, <2>4, Zenon
  <2>6. x.rc = "OK"
    BY <2>2, <2>5, Zenon DEF WordP4
  <2> QED
    BY <1>2, <2>1, <2>3, <2>6, Zenon
<1>5. \A k \in 0..n : k \in P
  BY <1>3, <1>4, UpTo
<1>6. ASSUME NEW k \in 0..n PROVE b[k].rc = "OK"
  <2>1. PICK h \in 0..n : h = n - k /\ n - h = k
    <3>1. n - k \in 0..n /\ n - (n - k) = k
      OBVIOUS
    <3> QED
      BY <3>1, Zenon
  <2> QED
    BY <1>2, <1>5, <2>1, Zenon
<1> QED
  BY <1>6

\* The flag is set exactly behind a redirection.
LEMMA FlagsAlternate ==
  ASSUME NEW W, NEW n \in Nat, NEW ws \in [1..n -> W], NEW b, AcceptedWalk(b, W, ws, n)
  PROVE  \E f : Alternates(f, ws, n)
<1>1. /\ b \in [0..n -> Buffs(W)] /\ b[0] = EmptyBuff
      /\ \A k \in 1..n : b[k] = WordP4(b[k - 1], ws[k])
  BY DEF AcceptedWalk
<1>2. \A k \in 0..n : b[k].rc = "OK"
  BY EachAccepted
<1>3. PICK f : f = [k \in 0..n |-> b[k].flag # "none"]
  OBVIOUS
<1>4. f \in [0..n -> BOOLEAN]
  BY <1>3
<1>5. ASSUME NEW k \in 0..n
      PROVE  f[k] <=> k > 0 /\ Operator(ws[k]) # "none" /\ ~f[k - 1]
  <2>1. CASE k = 0
    <3>1. ~(b[0].flag # "none")
      BY <1>1 DEF EmptyBuff
    <3>2. ~(0 > 0)
      OBVIOUS
    <3> QED
      BY <1>3, <2>1, <3>1, <3>2, Zenon
  <2>2. CASE k # 0
    <3>1. k > 0 /\ k \in 1..n /\ k - 1 \in 0..n
      BY <2>2
    <3>2. PICK x \in Buffs(W) : x = b[k - 1]
      BY <1>1, <3>1
    <3>3. PICK w \in W : w = ws[k]
      BY <3>1
    <3>4. PICK g : g = b[k] /\ g = WordP4(x, w) /\ g.rc = "OK"
      BY <1>1, <1>2, <3>1, <3>2, <3>3, Zenon
    <3>5. /\ x.flag # "none" => g.flag = "none"
          /\ x.flag = "none" => g.flag = Operator(w)
      BY <3>4, WordFields
    <3>6. (f[k] <=> g.flag # "none") /\ (f[k - 1] <=> x.flag # "none")
      BY <1>3, <3>1, <3>2, <3>4, Zenon
    <3> QED
      BY <3>1, <3>3, <3>5, <3>6, Zenon
  <2> QED
    BY <2>1, <2>2
<1>6. Alternates(f, ws, n)
  BY <1>4, <1>5, Zenon DEF Alternates
<1> QED
  BY <1>6

LEMMA NothingUnderstood ==
  ASSUME NEW n \in Nat, NEW R \in SUBSET (1..n), NEW P, NEW ws
  PROVE  Understood(EmptyBuff, R, P, ws, 0)
<1>1. ASSUME NEW kinds PROVE UsedUpTo(R, ws, 0, kinds) = {}
  <2>1. \A m \in R : ~(m < 0)
    OBVIOUS
  <2>2. \A m : m \notin UsedUpTo(R, ws, 0, kinds)
    BY <2>1, Zenon DEF UsedUpTo
  <2> QED
    BY <2>2
<1>2. 0 \notin R
  OBVIOUS
<1>3. /\ EmptyBuff.flag = "none" /\ EmptyBuff.argv = <<>> /\ EmptyBuff.input = NoFile
      /\ EmptyBuff.output = NoFile /\ EmptyBuff.append = FALSE
  BY Zenon DEF EmptyBuff
<1>4. ArgsUpTo(<<>>, ws, P, 0)
  <2>1. InOrder(P, 0) = <<>>
    BY InOrderNone
  <2>2. \A j \in 1..Len(<<>>) : FALSE
    OBVIOUS
  <2> QED
    BY <2>1, <2>2, Zenon DEF ArgsUpTo
<1>5. LastFile(NoFile, R, ws, 0, {"input"}) /\ LastFile(NoFile, R, ws, 0, {"output", "append"})
  BY <1>1, Zenon DEF LastFile
<1>6. UsedUpTo(R, ws, 0, {"append"}) = {}
  BY <1>1
<1> QED
  BY <1>2, <1>3, <1>4, <1>5, <1>6, Zenon DEF Understood

LEMMA WalkUnderstood ==
  ASSUME NEW W, NEW n \in Nat, NEW ws \in [1..n -> W], NEW b, AcceptedWalk(b, W, ws, n),
         NEW R, NEW P, Redirected(R, P, ws, n)
  PROVE  Understood(b[n], R, P, ws, n)
<1>1. /\ b \in [0..n -> Buffs(W)] /\ b[0] = EmptyBuff
      /\ \A k \in 1..n : b[k] = WordP4(b[k - 1], ws[k])
  BY DEF AcceptedWalk
<1>2. \A k \in 0..n : b[k].rc = "OK"
  BY EachAccepted
<1>3. PICK Q : Q = {k \in 0..n : Understood(b[k], R, P, ws, k)}
  OBVIOUS
<1>4. 0 \in Q
  <2>1. R \in SUBSET (1..n) /\ 0 \in 0..n
    BY DEF Redirected
  <2>2. Understood(EmptyBuff, R, P, ws, 0)
    BY <2>1, NothingUnderstood
  <2> QED
    BY <1>1, <1>3, <2>1, <2>2, Zenon
<1>5. ASSUME NEW k \in 1..n, k - 1 \in Q PROVE k \in Q
  <2>1. PICK h \in Nat, i \in Nat : h = k - 1 /\ i = k /\ Follows(i, h) /\ i <= n /\ h \in 0..n /\ i \in 0..n
    <3>1. k - 1 \in Nat /\ k \in Nat /\ k - 1 \in 0..n /\ k \in 0..n /\ k <= n /\ k = (k - 1) + 1
      OBVIOUS
    <3> QED
      BY <3>1, Zenon DEF Follows
  <2>2. PICK x \in Buffs(W) : x = b[h]
    BY <1>1, <2>1
  <2>3. Understood(x, R, P, ws, h)
    BY <1>3, <1>5, <2>1, <2>2, Zenon
  <2>4. PICK g : g = b[i] /\ g = WordP4(x, ws[i]) /\ g.rc = "OK"
    BY <1>1, <1>2, <2>1, <2>2, Zenon
  <2>5. Understood(g, R, P, ws, i)
    BY <2>1, <2>3, <2>4, UnderstoodNext
  <2> QED
    BY <1>3, <2>1, <2>4, <2>5, Zenon
<1>6. \A k \in 0..n : k \in Q
  BY <1>4, <1>5, UpTo
<1>7. n \in 0..n
  OBVIOUS
<1> QED
  BY <1>3, <1>6, <1>7, Zenon

\* What an accepted command of 6-ShellP4 is made of is what was typed.
MadeAs(b, m) ==
  /\ b.argv = m.argv /\ b.input = m.input /\ b.output = m.output
  /\ b.append <=> m.appends # {}

LEMMA AcceptedMeans ==
  ASSUME NEW s \in Seq(Characters), Closed(s), Trim(s) # <<>>, BuildP4(s).rc = "OK"
  PROVE  MadeAs(BuildP4(s), Meaning(s))
<1>1. PICK W : W = Seq(Characters \cup {"nul"})
  OBVIOUS
<1>2. NoFile \in W
  BY <1>1 DEF NoFile
<1>3. PICK ws \in Seq(W) : ws = Split(FormatP4(s), "nul")
  <2>1. FormatP4(s) \in Seq(Characters \cup {"nul"})
    BY FormatType
  <2>2. Split(FormatP4(s), "nul") \in Seq(Seq(Characters \cup {"nul"}))
    BY <2>1, SplitCount
  <2> QED
    BY <1>1, <2>2
<1>4. ws = Words(s)
  <2>1. Survives(FormatP4(s), s, TRUE)
    BY FormatsKeep
  <2> QED
    BY <1>3, <2>1, Zenon DEF Survives
<1>5. PICK n \in Nat : n = Len(ws)
  OBVIOUS
<1>6. ws \in [1..n -> W]
  BY <1>5
<1>7. PICK b : AcceptedWalk(b, W, ws, n) /\ b[n] = BuildP4(s)
  <2>1. PICK b \in [0..n -> Buffs(W)] :
           /\ b[0] = EmptyBuff
           /\ b[n] = FoldLeft(WordP4, EmptyBuff, ws)
           /\ \A k \in 1..n : b[k] = WordP4(b[k - 1], ws[k])
    BY <1>2, <1>5, WalkP4, Zenon
  <2>2. b[n] = BuildP4(s)
    BY <1>3, <2>1, Zenon DEF BuildP4
  <2>3. b[n].rc = "OK"
    BY <2>2
  <2>4. AcceptedWalk(b, W, ws, n)
    BY <2>1, <2>3, Zenon DEF AcceptedWalk
  <2> QED
    BY <2>2, <2>4
<1>8. PICK R : R = Redirections(ws)
  OBVIOUS
<1>9. Redirected(R, Plain(R, n), ws, n)
  <2>1. PICK f : Alternates(f, ws, n)
    BY <1>6, <1>7, FlagsAlternate
  <2> QED
    BY <1>5, <1>8, <2>1, RedirectionFacts
<1>10. PICK P : P = Plain(R, n)
  OBVIOUS
<1>11. Understood(b[n], R, P, ws, n)
  BY <1>6, <1>7, <1>9, <1>10, WalkUnderstood
<1>12. PICK x \in Buffs(W) : x = BuildP4(s) /\ Understood(x, R, P, ws, n)
  <2>1. n \in 0..n
    OBVIOUS
  <2>2. b[n] \in Buffs(W)
    BY <1>7, <2>1 DEF AcceptedWalk
  <2> QED
    BY <1>7, <1>11, <2>2, Zenon
<1>13. R \in SUBSET (1..n)
  BY <1>9 DEF Redirected
<1>14. /\ ArgsUpTo(x.argv, ws, P, n)
       /\ LastFile(x.input, R, ws, n, {"input"})
       /\ LastFile(x.output, R, ws, n, {"output", "append"})
       /\ x.append <=> UsedUpTo(R, ws, n, {"append"}) # {}
  BY <1>12, Zenon DEF Understood
<1>15. x.argv = ArgsOf(P, ws, n)
  <2>1. PICK argv \in Seq(W) : argv = x.argv
    BY DEF Buffs
  <2>2. ArgsUpTo(argv, ws, P, n)
    BY <1>14, <2>1
  <2> QED
    BY <1>6, <2>1, <2>2, LastArgs
<1>16. x.input = FileOf(R, ws, n, {"input"})
  BY <1>13, <1>14, LastFileOf
<1>17. x.output = FileOf(R, ws, n, {"output", "append"})
  BY <1>13, <1>14, LastFileOf
<1>18. /\ Meaning(s).argv = ArgsOf(P, ws, n)
       /\ Meaning(s).input = FileOf(R, ws, n, {"input"})
       /\ Meaning(s).output = FileOf(R, ws, n, {"output", "append"})
       /\ Meaning(s).appends = UsedUpTo(R, ws, n, {"append"})
  BY <1>4, <1>5, <1>8, <1>10, MeaningFields
<1> QED
  BY <1>12, <1>14, <1>15, <1>16, <1>17, <1>18, Zenon DEF MadeAs

-----------------------------------------------------------------------------
(* Lines of several commands.                                              *)

\* The tokens of an accepted line, one after the other.
AcceptedList(c, ts, n) ==
  /\ c \in [0..n -> Lists(Built(Characters))] /\ c[0] = EmptyList /\ c[n].rc = "OK"
  /\ \A k \in 1..n : c[k] = AddCommand(c[k - 1], BuildP4(ts[k]))

LEMMA EachListAccepted ==
  ASSUME NEW n \in Nat, NEW ts \in [1..n -> Parts(Characters)], NEW c, AcceptedList(c, ts, n)
  PROVE  \A k \in 0..n : c[k].rc = "OK"
<1>1. /\ c \in [0..n -> Lists(Built(Characters))] /\ c[n].rc = "OK"
      /\ \A k \in 1..n : c[k] = AddCommand(c[k - 1], BuildP4(ts[k]))
  BY DEF AcceptedList
<1>2. PICK P : P = {k \in 0..n : c[n - k].rc = "OK"}
  OBVIOUS
<1>3. 0 \in P
  <2>1. 0 \in 0..n /\ n - 0 = n
    OBVIOUS
  <2> QED
    BY <1>1, <1>2, <2>1, Zenon
<1>4. ASSUME NEW k \in 1..n, k - 1 \in P PROVE k \in P
  <2>1. PICK h \in 0..n, i \in 1..n : h = n - k /\ i = n - (k - 1) /\ h = i - 1 /\ k \in 0..n
    <3>1. n - k \in 0..n /\ n - (k - 1) \in 1..n /\ n - k = (n - (k - 1)) - 1 /\ k \in 0..n
      OBVIOUS
    <3> QED
      BY <3>1, Zenon
  <2>2. c[i].rc = "OK"
    BY <1>2, <1>4, <2>1, Zenon
  <2>3. c[i] = AddCommand(c[h], BuildP4(ts[i]))
    BY <1>1, <2>1, Zenon
  <2>4. c[h].rc = "OK"
    BY <2>2, <2>3, Zenon DEF AddCommand
  <2> QED
    BY <1>2, <2>1, <2>4, Zenon
<1>5. \A k \in 0..n : k \in P
  BY <1>3, <1>4, UpTo
<1>6. ASSUME NEW k \in 0..n PROVE c[k].rc = "OK"
  <2>1. PICK h \in 0..n : h = n - k /\ n - h = k
    <3>1. n - k \in 0..n /\ n - (n - k) = k
      OBVIOUS
    <3> QED
      BY <3>1, Zenon
  <2> QED
    BY <1>2, <1>5, <2>1, Zenon
<1> QED
  BY <1>6

\* One command for each of the first k tokens, and each accepted.
Made(cmds, ts, k) ==
  Len(cmds) = k /\ \A j \in 1..k : cmds[j] = BuildP4(ts[j]) /\ BuildP4(ts[j]).rc = "OK"

LEMMA MadeNext ==
  ASSUME NEW B, NEW l \in Lists(B), NEW b, b.rc = "OK" => b \in B, NEW ts, NEW h \in Nat, NEW k \in Nat,
         Follows(k, h), Made(l.cmds, ts, h), b = BuildP4(ts[k]),
         NEW g, g = AddCommand(l, b), g.rc = "OK"
  PROVE  Made(g.cmds, ts, k)
<1>1. PICK cmds \in Seq(B) : cmds = l.cmds /\ Len(cmds) = h
  BY DEF Lists, Made
<1>2. l.rc = "OK"
  BY Zenon DEF AddCommand
<1>3. b.rc = "OK"
  <2>1. SUFFICES ASSUME b.rc # "OK" PROVE FALSE
    OBVIOUS
  <2>2. g = [l EXCEPT !.rc = b.rc]
    BY <1>2, <2>1, Zenon DEF AddCommand
  <2> QED
    BY <2>1, <2>2 DEF Lists
<1>4. g.cmds = Append(cmds, b)
  <2>1. g = [l EXCEPT !.cmds = Append(@, b)]
    BY <1>2, <1>3, Zenon DEF AddCommand
  <2> QED
    BY <1>1, <2>1 DEF Lists
<1>5. PICK x \in B : x = b
  BY <1>3
<1>6. Appended(Append(cmds, x), B, cmds, x, h)
  BY <1>1, AppendFacts
<1>7. PICK v : v = g.cmds /\ Len(v) = h + 1 /\ v[h + 1] = b /\ \A j \in 1..h : v[j] = cmds[j]
  BY <1>4, <1>5, <1>6, Zenon DEF Appended
<1>8. k = h + 1 /\ \A j \in 1..k : j \in 1..h \/ j = k
  BY DEF Follows
<1>9. \A j \in 1..h : cmds[j] = BuildP4(ts[j]) /\ BuildP4(ts[j]).rc = "OK"
  BY <1>1, Zenon DEF Made
<1>10. ASSUME NEW j \in 1..k PROVE v[j] = BuildP4(ts[j]) /\ BuildP4(ts[j]).rc = "OK"
  <2>1. CASE j \in 1..h
    BY <1>7, <1>9, <2>1, Zenon
  <2>2. CASE j = k
    BY <1>3, <1>7, <1>8, <2>2, Zenon
  <2> QED
    BY <1>8, <2>1, <2>2
<1> QED
  BY <1>7, <1>8, <1>10, Zenon DEF Made

LEMMA ListMade ==
  ASSUME NEW n \in Nat, NEW ts \in [1..n -> Parts(Characters)], NEW c, AcceptedList(c, ts, n)
  PROVE  Made(c[n].cmds, ts, n)
<1>1. /\ c \in [0..n -> Lists(Built(Characters))] /\ c[0] = EmptyList
      /\ \A k \in 1..n : c[k] = AddCommand(c[k - 1], BuildP4(ts[k]))
  BY DEF AcceptedList
<1>2. \A k \in 0..n : c[k].rc = "OK"
  BY EachListAccepted
<1>3. PICK Q : Q = {k \in 0..n : Made(c[k].cmds, ts, k)}
  OBVIOUS
<1>4. 0 \in Q
  <2>1. EmptyList.cmds = <<>>
    BY Zenon DEF EmptyList
  <2>2. Len(<<>>) = 0 /\ (\A j \in 1..0 : FALSE) /\ 0 \in 0..n
    OBVIOUS
  <2>3. Made(<<>>, ts, 0)
    BY <2>2, Zenon DEF Made
  <2>4. c[0].cmds = <<>>
    BY <1>1, <2>1, Zenon
  <2>5. Made(c[0].cmds, ts, 0)
    BY <2>3, <2>4, Zenon
  <2> QED
    BY <1>3, <2>2, <2>5
<1>5. ASSUME NEW k \in 1..n, k - 1 \in Q PROVE k \in Q
  <2>1. PICK h \in Nat, i \in Nat : h = k - 1 /\ i = k /\ Follows(i, h) /\ i \in 1..n /\ h \in 0..n /\ i \in 0..n
    <3>1. k - 1 \in Nat /\ k \in Nat /\ k - 1 \in 0..n /\ k \in 0..n /\ k = (k - 1) + 1
      OBVIOUS
    <3> QED
      BY <3>1, Zenon DEF Follows
  <2>2. PICK l \in Lists(Built(Characters)) : l = c[h]
    BY <1>1, <2>1
  <2>3. Made(l.cmds, ts, h)
    BY <1>3, <1>5, <2>1, <2>2, Zenon
  <2>4. PICK b : b = BuildP4(ts[i])
    OBVIOUS
  <2>5. b \in Built(Characters)
    <3>1. ts[i] \in Seq(Characters)
      BY <2>1 DEF Parts
    <3> QED
      BY <2>4, <3>1, BuildType
  <2>6. PICK g : g = c[i] /\ g = AddCommand(l, b) /\ g.rc = "OK"
    BY <1>1, <1>2, <2>1, <2>2, <2>4, Zenon
  <2>7. Made(g.cmds, ts, i)
    BY <2>1, <2>3, <2>4, <2>5, <2>6, MadeNext
  <2> QED
    BY <1>3, <2>1, <2>6, <2>7, Zenon
<1>6. \A k \in 0..n : k \in Q
  BY <1>4, <1>5, UpTo
<1>7. n \in 0..n
  OBVIOUS
<1> QED
  BY <1>3, <1>6, <1>7, Zenon

\* An accepted line of 6-ShellP4 has one command for each token.
LEMMA OneForEach ==
  ASSUME NEW s \in Seq(Characters), ListP4(s).rc = "OK"
  PROVE  Made(ListP4(s).cmds, Tokens(s), Len(Tokens(s)))
<1>1. ListP4(s) = FoldLeft(LAMBDA l, t : AddCommand(l, BuildP4(t)), EmptyList, Tokens(s))
  <2>1. EmptyList \in Lists({})
    BY EmptyListType
  <2>2. s # <<>>
    <3>1. SUFFICES ASSUME s = <<>> PROVE FALSE
      OBVIOUS
    <3>2. ListP4(s) = [EmptyList EXCEPT !.rc = "WARN_NO_CMDS"]
      BY <3>1, Zenon DEF ListP4
    <3> QED
      BY <2>1, <3>2 DEF Lists
  <2>3. ~(Pipes(s) >= CmdMax)
    <3>1. SUFFICES ASSUME Pipes(s) >= CmdMax PROVE FALSE
      OBVIOUS
    <3>2. ListP4(s) = [EmptyList EXCEPT !.rc = "ERR_TOO_MANY_COMMANDS"]
      BY <2>2, <3>1, Zenon DEF ListP4
    <3> QED
      BY <2>1, <3>2 DEF Lists
  <2> QED
    BY <2>2, <2>3, Zenon DEF ListP4
<1>2. PICK ts \in Seq(Parts(Characters)) : ts = Tokens(s)
  BY TokensFew DEF Parts
<1>3. PICK n \in Nat : n = Len(ts)
  OBVIOUS
<1>4. ts \in [1..n -> Parts(Characters)]
  BY <1>3
<1>5. PICK c \in [0..n -> Lists(Built(Characters))] :
        /\ c[0] = EmptyList
        /\ c[n] = FoldLeft(LAMBDA l, t : AddCommand(l, BuildP4(t)), EmptyList, ts)
        /\ \A k \in 1..n : c[k] = AddCommand(c[k - 1], BuildP4(ts[k]))
  BY <1>3, ListWalkP4, Zenon
<1>6. c[n] = ListP4(s)
  BY <1>1, <1>2, <1>5, Zenon
<1>7. AcceptedList(c, ts, n)
  BY <1>5, <1>6, Zenon DEF AcceptedList
<1>8. Made(c[n].cmds, ts, n)
  BY <1>4, <1>7, ListMade
<1> QED
  BY <1>2, <1>3, <1>6, <1>8, Zenon

\* Every command that build_cmd_buff() of 6-ShellP4 accepts has the arguments and
\* the files that were typed, and appends if and only if a >> was typed, also where a
\* > follows it: for every text, wherever its quotes and its redirections stand.
THEOREM RedirectsSurvive == Spec => []RedirectsAsTyped
<1>1. TextType => RedirectsAsTyped
  <2>1. SUFFICES ASSUME TextType, Command, BuildP4(text).rc = "OK" PROVE RedirectsAsTyped
    BY DEF RedirectsAsTyped
  <2>2. PICK s \in Seq(Characters) : s = text /\ Closed(s) /\ Trim(s) # <<>>
    BY <2>1 DEF TextType, Command
  <2>3. BuildP4(s).rc = "OK"
    BY <2>1, <2>2
  <2>4. MadeAs(BuildP4(s), Meaning(s))
    BY <2>2, <2>3, AcceptedMeans
  <2>5. MadeAs(BuildP4(text), Meaning(text))
    BY <2>2, <2>4, Zenon
  <2> QED
    BY <2>5, Zenon DEF MadeAs, RedirectsAsTyped
<1> QED
  BY <1>1, TextTypeInvariant, PTL

\* Every pipeline that build_cmd_list() of 6-ShellP4 accepts has one command for
\* each piece between its pipes, with the words of that piece: for every text, as
\* long as no pipe is quoted and no piece is blank.
THEOREM PipelineSurvives == Spec => []PipelineAsTyped
<1>1. TextType => PipelineAsTyped
  <2>1. SUFFICES ASSUME TextType, ListP4(text).rc = "OK",
                        \A n \in DOMAIN Tokens(text) : Closed(Tokens(text)[n]) /\ Trim(Tokens(text)[n]) # <<>>
                 PROVE  /\ Len(ListP4(text).cmds) = Len(Tokens(text))
                        /\ \A n \in DOMAIN Tokens(text) : ListP4(text).cmds[n].argv = Meaning(Tokens(text)[n]).argv
    BY Zenon DEF PipelineAsTyped
  <2>2. PICK s \in Seq(Characters) : s = text
    BY <2>1 DEF TextType
  <2>3. PICK ts \in Seq(Parts(Characters)) : ts = Tokens(s)
    BY TokensFew DEF Parts
  <2>4. PICK n \in Nat : n = Len(ts) /\ DOMAIN ts = 1..n
    OBVIOUS
  <2>5. PICK cmds : cmds = ListP4(s).cmds
    OBVIOUS
  <2>6. Made(cmds, ts, n)
    <3>1. ListP4(s).rc = "OK"
      BY <2>1, <2>2, Zenon
    <3> QED
      BY <2>3, <2>4, <2>5, <3>1, OneForEach
  <2>7. ASSUME NEW k \in 1..n PROVE cmds[k].argv = Meaning(ts[k]).argv
    <3>1. PICK t \in Seq(Characters) : t = ts[k]
      BY <2>4 DEF Parts
    <3>2. Closed(t) /\ Trim(t) # <<>>
      BY <2>1, <2>2, <2>3, <2>4, <3>1, Zenon
    <3>3. cmds[k] = BuildP4(t) /\ BuildP4(t).rc = "OK"
      BY <2>6, <3>1, Zenon DEF Made
    <3>4. MadeAs(BuildP4(t), Meaning(t))
      BY <3>2, <3>3, AcceptedMeans
    <3> QED
      BY <3>1, <3>3, <3>4, Zenon DEF MadeAs
  <2>8. Len(cmds) = n
    BY <2>6, Zenon DEF Made
  <2> QED
    BY <2>2, <2>3, <2>4, <2>5, <2>7, <2>8, Zenon
<1> QED
  BY <1>1, TextTypeInvariant, PTL

-----------------------------------------------------------------------------
(* 5-ShellP3 and 6-ShellP4.  Up to the file of the one redirection both    *)
(* make the same of every word (SameSoFar); with the file they part.       *)

\* The recursive function of Redirections() exists, whatever the words are.
LEMMA AlternatesExists ==
  ASSUME NEW W, NEW n \in Nat, NEW ws \in [1..n -> W]
  PROVE  \E f : Alternates(f, ws, n)
<1>1. PICK step : step = [p \in BOOLEAN \X (1..n) |-> Operator(ws[p[2]]) # "none" /\ ~p[1]]
  OBVIOUS
<1>2. /\ step \in [BOOLEAN \X (1..n) -> BOOLEAN]
      /\ \A c \in BOOLEAN, i \in 1..n : step[<<c, i>>] <=> Operator(ws[i]) # "none" /\ ~c
  BY <1>1
<1>3. PICK f : \E it : Walks(f, n, BOOLEAN, FALSE, step, it)
  BY <1>2, WalkExists
<1>4. /\ f \in [0..n -> BOOLEAN] /\ f[0] = FALSE
      /\ \A k \in 1..n : f[k] = step[<<f[k - 1], k>>]
  BY <1>3, Zenon DEF Walks
<1>5. ASSUME NEW k \in 0..n
      PROVE  f[k] <=> k > 0 /\ Operator(ws[k]) # "none" /\ ~f[k - 1]
  <2>1. CASE k = 0
    <3>1. ~(0 > 0)
      OBVIOUS
    <3> QED
      BY <1>4, <2>1, <3>1, Zenon
  <2>2. CASE k # 0
    <3>1. k > 0 /\ k \in 1..n /\ k - 1 \in 0..n
      BY <2>2
    <3>2. PICK c \in BOOLEAN : c = f[k - 1]
      BY <1>4, <3>1
    <3>3. f[k] = step[<<c, k>>]
      BY <1>4, <3>1, <3>2, Zenon
    <3>4. step[<<c, k>>] <=> Operator(ws[k]) # "none" /\ ~c
      BY <1>2, <3>1, Zenon
    <3> QED
      BY <3>1, <3>2, <3>3, <3>4, Zenon
  <2> QED
    BY <2>1, <2>2
<1>6. Alternates(f, ws, n)
  BY <1>4, <1>5, Zenon DEF Alternates
<1> QED
  BY <1>6

\* The redirections stand at the end, behind the program.
Late(R, n) == \A k \in R : k > 1 /\ k >= n - 1

SameSoFar(x, y, R, k) ==
  /\ x = y /\ x.done = FALSE
  /\ x.rc = "OK" => /\ x.flag # "none" <=> k \in R
                    /\ k > 0 => x.argv # <<>>

Agreed(x, y) == [x EXCEPT !.flag = "none", !.done = FALSE] = [y EXCEPT !.flag = "none"]

LEMMA SameAgrees ==
  ASSUME NEW W, NEW x \in Buffs(W), NEW y, NEW R, NEW k, SameSoFar(x, y, R, k)
  PROVE  Agreed(x, y)
<1>1. x = y /\ x.done = FALSE
  BY DEF SameSoFar
<1>2. [x EXCEPT !.flag = "none", !.done = FALSE] = [x EXCEPT !.flag = "none"]
  BY <1>1 DEF Buffs
<1> QED
  BY <1>1, <1>2, Zenon DEF Agreed

\* One word more, taken by both.
LEMMA SameNext ==
  ASSUME NEW W, NEW n \in Nat, NEW ws \in [1..n -> W], NEW R, NEW P, Redirected(R, P, ws, n), Late(R, n),
         NEW h \in Nat, NEW k \in Nat, Follows(k, h), k <= n,
         NEW x \in Buffs(W), NEW y \in Buffs(W), SameSoFar(x, y, R, h)
  PROVE  \/ SameSoFar(WordP3(x, ws[k]), WordP4(y, ws[k]), R, k)
         \/ k = n /\ Agreed(WordP3(x, ws[k]), WordP4(y, ws[k]))
<1>1. k \in 1..n /\ k - 1 = h /\ k > 0
  BY DEF Follows
<1>2. PICK w \in W : w = ws[k]
  BY <1>1
<1>3. /\ R \in SUBSET (1..n)
      /\ k \in R <=> Operator(w) # "none" /\ h \notin R
  BY <1>1, <1>2 DEF Redirected
<1>4. /\ x = y /\ x.done = FALSE
      /\ x.rc = "OK" => (x.flag # "none" <=> h \in R) /\ (h > 0 => x.argv # <<>>)
  BY DEF SameSoFar
<1>5. CASE x.rc # "OK"
  <2>1. WordP3(x, w) = x /\ WordP4(y, w) = x
    BY <1>4, <1>5, Zenon DEF WordP3, WordP4
  <2> QED
    BY <1>2, <1>4, <1>5, <2>1 DEF SameSoFar
<1>6. CASE x.rc = "OK" /\ x.flag = "none" /\ Operator(w) # "none"
  <2>1. k \in R /\ x.argv # <<>>
    <3>1. k \in R
      BY <1>3, <1>4, <1>6
    <3>2. k > 1
      BY <3>1 DEF Late
    <3>3. h > 0
      BY <1>1, <3>2
    <3> QED
      BY <1>4, <1>6, <3>1, <3>3
  <2>2. PICK g : g = [x EXCEPT !.flag = Operator(w)]
    OBVIOUS
  <2>3. WordP3(x, w) = g /\ WordP4(y, w) = g
    <3>1. x.done = FALSE /\ ~(x.rc # "OK" \/ x.done)
      BY <1>4, <1>6
    <3> QED
      BY <1>4, <1>6, <2>1, <2>2, <3>1, Zenon DEF WordP3, WordP4
  <2>4. g.done = FALSE /\ g.flag # "none" /\ g.argv # <<>>
    BY <1>4, <1>6, <2>1, <2>2 DEF Buffs
  <2> QED
    BY <1>2, <2>1, <2>3, <2>4 DEF SameSoFar
<1>7. CASE x.rc = "OK" /\ x.flag = "none" /\ Operator(w) = "none"
  <2>1. PICK can : can = CanInsert(x.argv, Len(w))
    OBVIOUS
  <2>2. PICK g : g = Insert(x, w, can)
    OBVIOUS
  <2>3. WordP3(x, w) = g /\ WordP4(y, w) = g
    <3>1. ~(x.rc # "OK" \/ x.done)
      BY <1>4, <1>7
    <3> QED
      BY <1>4, <1>7, <2>1, <2>2, <3>1, Zenon DEF WordP3, WordP4
  <2>4. g.done = FALSE /\ g.flag = "none"
    BY <1>4, <1>7, <2>2 DEF Insert, Buffs
  <2>5. ASSUME g.rc = "OK" PROVE g.argv # <<>>
    <3>1. can = "OK"
      BY <2>2, <2>5 DEF Insert, Buffs
    <3>2. g.argv = Append(x.argv, w)
      BY <2>2, <3>1 DEF Insert, Buffs
    <3>3. PICK u \in Seq(W) : u = x.argv
      BY DEF Buffs
    <3>4. Append(u, w) # <<>>
      OBVIOUS
    <3> QED
      BY <3>2, <3>3, <3>4
  <2>6. k \notin R
    BY <1>3, <1>7
  <2> QED
    BY <1>2, <2>3, <2>4, <2>5, <2>6 DEF SameSoFar
<1>8. CASE x.rc = "OK" /\ x.flag # "none"
  <2>1. k = n
    <3>1. h \in R
      BY <1>4, <1>8
    <3>2. h >= n - 1
      BY <3>1 DEF Late
    <3> QED
      BY <1>1, <3>2
  <2>2. PICK z : z = SetFile(x, w)
    OBVIOUS
  <2>3. WordP3(x, w) = [z EXCEPT !.done = TRUE] /\ WordP4(y, w) = [z EXCEPT !.flag = "none"]
    <3>1. ~(x.rc # "OK" \/ x.done)
      BY <1>4, <1>8
    <3> QED
      BY <1>4, <1>8, <2>2, <3>1, Zenon DEF WordP3, WordP4
  <2>4. z \in Buffs(W) /\ z.done = FALSE
    <3>1. x.flag \in {"append", "output", "input"}
      BY <1>8 DEF Buffs
    <3>2. CASE x.flag = "append"
      <4>1. z = [x EXCEPT !.output = w, !.append = TRUE]
        BY <2>2, <3>2 DEF SetFile
      <4> QED
        BY <1>4, <4>1 DEF Buffs
    <3>3. CASE x.flag = "output"
      <4>1. z = [x EXCEPT !.output = w]
        BY <2>2, <3>3 DEF SetFile
      <4> QED
        BY <1>4, <4>1 DEF Buffs
    <3>4. CASE x.flag = "input"
      <4>1. z = [x EXCEPT !.input = w]
        BY <2>2, <3>4 DEF SetFile
      <4> QED
        BY <1>4, <4>1 DEF Buffs
    <3> QED
      BY <3>1, <3>2, <3>3, <3>4
  <2>5. Agreed([z EXCEPT !.done = TRUE], [z EXCEPT !.flag = "none"])
    BY <2>4 DEF Agreed, Buffs
  <2> QED
    BY <1>2, <2>1, <2>3, <2>5
<1> QED
  BY <1>5, <1>6, <1>7, <1>8

WalkBoth(b, c, W, ws, n) ==
  /\ b \in [0..n -> Buffs(W)] /\ b[0] = EmptyBuff
  /\ \A k \in 1..n : b[k] = WordP3(b[k - 1], ws[k])
  /\ c \in [0..n -> Buffs(W)] /\ c[0] = EmptyBuff
  /\ \A k \in 1..n : c[k] = WordP4(c[k - 1], ws[k])

LEMMA BothAgree ==
  ASSUME NEW W, NEW n \in Nat, NEW ws \in [1..n -> W], NEW R, NEW P, Redirected(R, P, ws, n), Late(R, n),
         NEW b, NEW c, WalkBoth(b, c, W, ws, n)
  PROVE  Agreed(b[n], c[n])
<1>1. /\ b \in [0..n -> Buffs(W)] /\ b[0] = EmptyBuff
      /\ \A k \in 1..n : b[k] = WordP3(b[k - 1], ws[k])
      /\ c \in [0..n -> Buffs(W)] /\ c[0] = EmptyBuff
      /\ \A k \in 1..n : c[k] = WordP4(c[k - 1], ws[k])
  BY DEF WalkBoth
<1>2. PICK Q : Q = {k \in 0..n : SameSoFar(b[k], c[k], R, k) \/ (k = n /\ Agreed(b[k], c[k]))}
  OBVIOUS
<1>3. 0 \in Q
  <2>1. 0 \in 0..n /\ ~(0 > 0) /\ 0 \notin R
    BY DEF Redirected
  <2>2. EmptyBuff.flag = "none" /\ EmptyBuff.done = FALSE
    BY DEF EmptyBuff
  <2>3. SameSoFar(EmptyBuff, EmptyBuff, R, 0)
    BY <2>1, <2>2, Zenon DEF SameSoFar
  <2>4. SameSoFar(b[0], c[0], R, 0)
    BY <1>1, <2>3, Zenon
  <2> QED
    BY <1>2, <2>1, <2>4, Zenon
<1>4. ASSUME NEW k \in 1..n, k - 1 \in Q PROVE k \in Q
  <2>1. PICK h \in Nat, i \in Nat :
          h = k - 1 /\ i = k /\ Follows(i, h) /\ i <= n /\ h # n /\ h \in 0..n /\ i \in 0..n
    <3>1. k - 1 \in Nat /\ k \in Nat /\ k - 1 \in 0..n /\ k \in 0..n /\ k <= n /\ k = (k - 1) + 1 /\ k - 1 # n
      OBVIOUS
    <3> QED
      BY <3>1, Zenon DEF Follows
  <2>2. PICK x \in Buffs(W), y \in Buffs(W) : x = b[h] /\ y = c[h]
    BY <1>1, <2>1
  <2>3. SameSoFar(x, y, R, h)
    BY <1>2, <1>4, <2>1, <2>2, Zenon
  <2>4. b[i] = WordP3(x, ws[i]) /\ c[i] = WordP4(y, ws[i])
    BY <1>1, <2>1, <2>2, Zenon
  <2>5. \/ SameSoFar(WordP3(x, ws[i]), WordP4(y, ws[i]), R, i)
        \/ i = n /\ Agreed(WordP3(x, ws[i]), WordP4(y, ws[i]))
    BY <2>1, <2>3, SameNext
  <2>6. SameSoFar(b[i], c[i], R, i) \/ (i = n /\ Agreed(b[i], c[i]))
    BY <2>4, <2>5, Zenon
  <2> QED
    BY <1>2, <2>1, <2>6, Zenon
<1>5. \A k \in 0..n : k \in Q
  BY <1>3, <1>4, UpTo
<1>6. n \in 0..n
  OBVIOUS
<1>7. CASE SameSoFar(b[n], c[n], R, n)
  <2>1. b[n] \in Buffs(W)
    BY <1>1, <1>6
  <2> QED
    BY <1>7, <2>1, SameAgrees
<1>8. CASE Agreed(b[n], c[n])
  BY <1>8
<1> QED
  BY <1>2, <1>5, <1>6, <1>7, <1>8, Zenon

LEMMA ParsersAgree ==
  ASSUME NEW s \in Seq(Characters), Closed(s), Trim(s) # <<>>,
         Late(Redirections(Words(s)), Len(Words(s)))
  PROVE  Agreed(BuildP3(s), BuildP4(s))
<1>1. PICK W : W = Seq(Characters \cup {"nul"})
  OBVIOUS
<1>2. NoFile \in W
  BY <1>1 DEF NoFile
<1>3. PICK ws \in Seq(W) : ws = Split(FormatP4(s), "nul")
  <2>1. FormatP4(s) \in Seq(Characters \cup {"nul"})
    BY FormatType
  <2>2. Split(FormatP4(s), "nul") \in Seq(Seq(Characters \cup {"nul"}))
    BY <2>1, SplitCount
  <2> QED
    BY <1>1, <2>2
<1>4. ws = Words(s) /\ ws = Split(FormatP3(s), "nul")
  <2>1. Survives(FormatP4(s), s, TRUE) /\ Survives(FormatP3(s), s, TRUE)
    BY FormatsKeep
  <2> QED
    BY <1>3, <2>1, Zenon DEF Survives
<1>5. PICK n \in Nat : n = Len(ws)
  OBVIOUS
<1>6. ws \in [1..n -> W]
  BY <1>5
<1>7. PICK b \in [0..n -> Buffs(W)] :
         /\ b[0] = EmptyBuff
         /\ b[n] = FoldLeft(WordP3, EmptyBuff, ws)
         /\ \A k \in 1..n : b[k] = WordP3(b[k - 1], ws[k])
  BY <1>2, <1>5, WalkP3, Zenon
<1>8. PICK c \in [0..n -> Buffs(W)] :
         /\ c[0] = EmptyBuff
         /\ c[n] = FoldLeft(WordP4, EmptyBuff, ws)
         /\ \A k \in 1..n : c[k] = WordP4(c[k - 1], ws[k])
  BY <1>2, <1>5, WalkP4, Zenon
<1>9. WalkBoth(b, c, W, ws, n)
  BY <1>7, <1>8, Zenon DEF WalkBoth
<1>10. b[n] = BuildP3(s) /\ c[n] = BuildP4(s)
  BY <1>3, <1>4, <1>7, <1>8, Zenon DEF BuildP3, BuildP4
<1>11. PICK R : R = Redirections(ws)
  OBVIOUS
<1>12. Redirected(R, Plain(R, n), ws, n)
  <2>1. PICK f : Alternates(f, ws, n)
    BY <1>6, AlternatesExists
  <2> QED
    BY <1>5, <1>11, <2>1, RedirectionFacts
<1>13. Late(R, n)
  BY <1>4, <1>5, <1>11, Zenon
<1>14. Agreed(b[n], c[n])
  BY <1>6, <1>9, <1>12, <1>13, BothAgree
<1> QED
  BY <1>10, <1>14, Zenon

\* 5-ShellP3 and 6-ShellP4 make the same command of every text, or refuse it
\* alike, as long as at most one redirection is typed, at the end and behind the
\* program.
THEOREM ShellsSame == Spec => []ShellsAgree
<1>1. TextType => ShellsAgree
  <2>1. SUFFICES ASSUME TextType, Command,
                        \A n \in Meaning(text).ops : n > 1 /\ n >= Len(Words(text)) - 1
                 PROVE  [BuildP3(text) EXCEPT !.flag = "none", !.done = FALSE]
                          = [BuildP4(text) EXCEPT !.flag = "none"]
    BY Zenon DEF ShellsAgree
  <2>2. PICK s \in Seq(Characters) : s = text /\ Closed(s) /\ Trim(s) # <<>>
    BY <2>1 DEF TextType, Command
  <2>3. Meaning(text).ops = Redirections(Words(text))
    BY DEF Meaning
  <2>4. Late(Redirections(Words(s)), Len(Words(s)))
    BY <2>1, <2>2, <2>3, Zenon DEF Late
  <2>5. Agreed(BuildP3(s), BuildP4(s))
    BY <2>2, <2>4, ParsersAgree
  <2>6. Agreed(BuildP3(text), BuildP4(text))
    BY <2>2, <2>5, Zenon
  <2> QED
    BY <2>6, Zenon DEF Agreed
<1> QED
  BY <1>1, TextTypeInvariant, PTL

-----------------------------------------------------------------------------
(* What 3-ShellP1 prints: the first word, and the others one space apart.  *)

\* One character of strip_token(), and one word of Spaced().
StripStep(out, t, i) ==
  IF t[i] \in Spaces /\ i > 1 /\ t[i - 1] \in Spaces THEN out ELSE Append(out, t[i])

SpacedStep(s, ws, n) == (IF n = 1 THEN s ELSE Append(s, "sp")) \o ws[n]

StripSteps(b, S, s, n) ==
  /\ b \in [0..n -> Seq(S)] /\ b[0] = <<>> /\ StripP1(s) = b[n]
  /\ \A k \in 1..n : b[k] = StripStep(b[k - 1], Trim(s), k)

SpacedSteps(b, S, ws, n) ==
  /\ b \in [0..n -> Seq(S)] /\ b[0] = <<>> /\ Spaced(ws) = b[n]
  /\ \A k \in 1..n : b[k] = SpacedStep(b[k - 1], ws, k)

\* The walk of strip_token() over a text.
LEMMA StripWalk ==
  ASSUME NEW S, NEW s \in Seq(S), NEW n \in Nat, n = Len(Trim(s))
  PROVE  \E b : StripSteps(b, S, s, n)
<1>1. PICK Y : Y = Seq(S)
  OBVIOUS
<1>2. ASSUME NEW c \in Y, NEW i \in 1..n PROVE StripStep(c, Trim(s), i) \in Y
  <2>1. Trim(s)[i] \in S
    BY TrimType
  <2>2. PICK x \in S : x = Trim(s)[i]
    BY <2>1
  <2>3. Append(c, x) \in Y
    BY <1>1
  <2>4. StripStep(c, Trim(s), i) = c \/ StripStep(c, Trim(s), i) = Append(c, x)
    BY <2>2, Zenon DEF StripStep
  <2> QED
    BY <2>3, <2>4, Zenon
<1>3. PICK step : step = [p \in Y \X (1..n) |-> StripStep(p[1], Trim(s), p[2])]
  OBVIOUS
<1>4. /\ step \in [Y \X (1..n) -> Y]
      /\ \A c \in Y, i \in 1..n : step[<<c, i>>] = StripStep(c, Trim(s), i)
  BY <1>2, <1>3
<1>5. PICK base \in Y : base = <<>>
  <2>1. <<>> \in Y
    BY <1>1
  <2> QED
    BY <2>1
<1>6. PICK g : Folds(g, n, Y, base, step)
  BY <1>4, FoldExists
<1>7. PICK u : u = [i \in DOMAIN Trim(s) |-> i]
  OBVIOUS
<1>8. DOMAIN u = 1..n /\ \A i \in 1..n : u[i] = i
  <2>1. DOMAIN Trim(s) = 1..n
    BY TrimType
  <2> QED
    BY <1>7, <2>1
<1>9. \A ps \in SUBSET (1..n) : ps # {} => Max(ps) \in ps /\ Max(ps) \in 1..n /\ u[Max(ps)] = Max(ps)
  BY <1>8, MaxFacts
<1>10. g = [ps \in SUBSET (DOMAIN u) |->
              IF ps = {} THEN <<>> ELSE StripStep(g[ps \ {Max(ps)}], Trim(s), u[Max(ps)])]
  <2>1. ASSUME NEW ps \in SUBSET (1..n), ps # {}
        PROVE  g[ps] = StripStep(g[ps \ {Max(ps)}], Trim(s), u[Max(ps)])
    <3>1. g[ps \ {Max(ps)}] \in Y
      BY <1>6 DEF Folds
    <3>2. g[ps] = step[<<g[ps \ {Max(ps)}], Max(ps)>>]
      BY <1>6, <2>1 DEF Folds
    <3> QED
      BY <1>4, <1>9, <2>1, <3>1, <3>2
  <2> QED
    BY <1>5, <1>6, <1>8, <2>1 DEF Folds
<1>11. PICK it :
         /\ it = [ps \in SUBSET (DOMAIN u) |->
                    IF ps = {} THEN <<>> ELSE StripStep(it[ps \ {Max(ps)}], Trim(s), u[Max(ps)])]
         /\ StripP1(s) = it[DOMAIN u]
  <2>1. g = [ps \in SUBSET (DOMAIN [i \in DOMAIN Trim(s) |-> i]) |->
               IF ps = {} THEN <<>>
               ELSE StripStep(g[ps \ {Max(ps)}], Trim(s), [i \in DOMAIN Trim(s) |-> i][Max(ps)])]
    BY <1>7, <1>10, Zenon
  <2> DEFINE iter == CHOOSE iter :
                        iter = [ps \in SUBSET (DOMAIN [i \in DOMAIN Trim(s) |-> i]) |->
                                 IF ps = {} THEN <<>>
                                 ELSE StripStep(iter[ps \ {Max(ps)}], Trim(s), [i \in DOMAIN Trim(s) |-> i][Max(ps)])]
  <2>2. iter = [ps \in SUBSET (DOMAIN [i \in DOMAIN Trim(s) |-> i]) |->
                  IF ps = {} THEN <<>>
                  ELSE StripStep(iter[ps \ {Max(ps)}], Trim(s), [i \in DOMAIN Trim(s) |-> i][Max(ps)])]
    BY <2>1, Zenon
  <2>3. StripP1(s) = iter[DOMAIN [i \in DOMAIN Trim(s) |-> i]]
    BY ZenonT(60) DEF StripP1, StripStep, FoldLeftDomain, FoldLeft, MapThenFoldSet
  <2>4. \E it :
          /\ it = [ps \in SUBSET (DOMAIN [i \in DOMAIN Trim(s) |-> i]) |->
                     IF ps = {} THEN <<>>
                     ELSE StripStep(it[ps \ {Max(ps)}], Trim(s), [i \in DOMAIN Trim(s) |-> i][Max(ps)])]
          /\ StripP1(s) = it[DOMAIN [i \in DOMAIN Trim(s) |-> i]]
    BY <2>2, <2>3, Zenon
  <2> QED
    BY <1>7, <2>4, Zenon
<1>12. StepsIn(it, n, Y, base, step)
  <2>1. it[{}] = base
    BY <1>5, <1>8, <1>11
  <2>2. ASSUME NEW ps \in SUBSET (1..n), ps # {}, it[ps \ {Max(ps)}] \in Y
        PROVE  it[ps] = step[<<it[ps \ {Max(ps)}], Max(ps)>>]
    <3>1. it[ps] = StripStep(it[ps \ {Max(ps)}], Trim(s), u[Max(ps)])
      BY <1>8, <1>11, <2>2
    <3> QED
      BY <1>4, <1>9, <2>2, <3>1
  <2> QED
    BY <2>1, <2>2 DEF StepsIn
<1>13. PICK b : Walks(b, n, Y, base, step, it)
  BY <1>4, <1>12, FoldPrefixes
<1>14. /\ b \in [0..n -> Y] /\ b[0] = base /\ b[n] = it[1..n]
       /\ \A k \in 1..n : b[k] = step[<<b[k - 1], k>>]
  BY <1>13, Zenon DEF Walks
<1>15. ASSUME NEW k \in 1..n PROVE b[k] = StripStep(b[k - 1], Trim(s), k)
  <2>1. b[k - 1] \in Y
    <3>1. k - 1 \in 0..n
      OBVIOUS
    <3> QED
      BY <1>14, <3>1
  <2> QED
    BY <1>4, <1>14, <2>1
<1>16. StripP1(s) = b[n]
  BY <1>8, <1>11, <1>14, Zenon
<1> QED
  BY <1>1, <1>5, <1>14, <1>15, <1>16, Zenon DEF StripSteps

\* The walk over words that are put one space apart.
LEMMA SpacedWalk ==
  ASSUME NEW S, "sp" \in S, NEW ws \in Seq(Seq(S)), NEW n \in Nat, n = Len(ws)
  PROVE  \E b : SpacedSteps(b, S, ws, n)
<1>1. PICK Y : Y = Seq(S)
  OBVIOUS
<1>2. ASSUME NEW c \in Y, NEW i \in 1..n PROVE SpacedStep(c, ws, i) \in Y
  <2>1. PICK w \in Seq(S) : w = ws[i]
    <3>1. i \in 1..Len(ws)
      OBVIOUS
    <3>2. ws[i] \in Seq(S)
      BY <3>1
    <3> QED
      BY <3>2
  <2>2. PICK d \in Seq(S) : d = IF i = 1 THEN c ELSE Append(c, "sp")
    <3>1. c \in Seq(S)
      BY <1>1
    <3>2. Append(c, "sp") \in Seq(S)
      BY <3>1
    <3> QED
      BY <3>1, <3>2, Zenon
  <2>3. d \o w \in Y
    BY <1>1
  <2> QED
    BY <2>1, <2>2, <2>3, Zenon DEF SpacedStep
<1>3. PICK step : step = [p \in Y \X (1..n) |-> SpacedStep(p[1], ws, p[2])]
  OBVIOUS
<1>4. /\ step \in [Y \X (1..n) -> Y]
      /\ \A c \in Y, i \in 1..n : step[<<c, i>>] = SpacedStep(c, ws, i)
  BY <1>2, <1>3
<1>5. PICK base \in Y : base = <<>>
  <2>1. <<>> \in Y
    BY <1>1
  <2> QED
    BY <2>1
<1>6. PICK g : Folds(g, n, Y, base, step)
  BY <1>4, FoldExists
<1>7. PICK u : u = [i \in DOMAIN ws |-> i]
  OBVIOUS
<1>8. DOMAIN u = 1..n /\ \A i \in 1..n : u[i] = i
  <2>1. DOMAIN ws = 1..n
    OBVIOUS
  <2> QED
    BY <1>7, <2>1
<1>9. \A ps \in SUBSET (1..n) : ps # {} => Max(ps) \in ps /\ Max(ps) \in 1..n /\ u[Max(ps)] = Max(ps)
  BY <1>8, MaxFacts
<1>10. g = [ps \in SUBSET (DOMAIN u) |->
              IF ps = {} THEN <<>> ELSE SpacedStep(g[ps \ {Max(ps)}], ws, u[Max(ps)])]
  <2>1. ASSUME NEW ps \in SUBSET (1..n), ps # {}
        PROVE  g[ps] = SpacedStep(g[ps \ {Max(ps)}], ws, u[Max(ps)])
    <3>1. g[ps \ {Max(ps)}] \in Y
      BY <1>6 DEF Folds
    <3>2. g[ps] = step[<<g[ps \ {Max(ps)}], Max(ps)>>]
      BY <1>6, <2>1 DEF Folds
    <3> QED
      BY <1>4, <1>9, <2>1, <3>1, <3>2
  <2> QED
    BY <1>5, <1>6, <1>8, <2>1 DEF Folds
<1>11. PICK it :
         /\ it = [ps \in SUBSET (DOMAIN u) |->
                    IF ps = {} THEN <<>> ELSE SpacedStep(it[ps \ {Max(ps)}], ws, u[Max(ps)])]
         /\ Spaced(ws) = it[DOMAIN u]
  <2>1. g = [ps \in SUBSET (DOMAIN [i \in DOMAIN ws |-> i]) |->
               IF ps = {} THEN <<>>
               ELSE SpacedStep(g[ps \ {Max(ps)}], ws, [i \in DOMAIN ws |-> i][Max(ps)])]
    BY <1>7, <1>10, Zenon
  <2> DEFINE iter == CHOOSE iter :
                        iter = [ps \in SUBSET (DOMAIN [i \in DOMAIN ws |-> i]) |->
                                 IF ps = {} THEN <<>>
                                 ELSE SpacedStep(iter[ps \ {Max(ps)}], ws, [i \in DOMAIN ws |-> i][Max(ps)])]
  <2>2. iter = [ps \in SUBSET (DOMAIN [i \in DOMAIN ws |-> i]) |->
                  IF ps = {} THEN <<>>
                  ELSE SpacedStep(iter[ps \ {Max(ps)}], ws, [i \in DOMAIN ws |-> i][Max(ps)])]
    BY <2>1, Zenon
  <2>3. Spaced(ws) = iter[DOMAIN [i \in DOMAIN ws |-> i]]
    BY ZenonT(60) DEF Spaced, SpacedStep, FoldLeftDomain, FoldLeft, MapThenFoldSet
  <2>4. \E it :
          /\ it = [ps \in SUBSET (DOMAIN [i \in DOMAIN ws |-> i]) |->
                     IF ps = {} THEN <<>>
                     ELSE SpacedStep(it[ps \ {Max(ps)}], ws, [i \in DOMAIN ws |-> i][Max(ps)])]
          /\ Spaced(ws) = it[DOMAIN [i \in DOMAIN ws |-> i]]
    BY <2>2, <2>3, Zenon
  <2> QED
    BY <1>7, <2>4, Zenon
<1>12. StepsIn(it, n, Y, base, step)
  <2>1. it[{}] = base
    BY <1>5, <1>8, <1>11
  <2>2. ASSUME NEW ps \in SUBSET (1..n), ps # {}, it[ps \ {Max(ps)}] \in Y
        PROVE  it[ps] = step[<<it[ps \ {Max(ps)}], Max(ps)>>]
    <3>1. it[ps] = SpacedStep(it[ps \ {Max(ps)}], ws, u[Max(ps)])
      BY <1>8, <1>11, <2>2
    <3> QED
      BY <1>4, <1>9, <2>2, <3>1
  <2> QED
    BY <2>1, <2>2 DEF StepsIn
<1>13. PICK b : Walks(b, n, Y, base, step, it)
  BY <1>4, <1>12, FoldPrefixes
<1>14. /\ b \in [0..n -> Y] /\ b[0] = base /\ b[n] = it[1..n]
       /\ \A k \in 1..n : b[k] = step[<<b[k - 1], k>>]
  BY <1>13, Zenon DEF Walks
<1>15. ASSUME NEW k \in 1..n PROVE b[k] = SpacedStep(b[k - 1], ws, k)
  <2>1. b[k - 1] \in Y
    <3>1. k - 1 \in 0..n
      OBVIOUS
    <3> QED
      BY <1>14, <3>1
  <2> QED
    BY <1>4, <1>14, <2>1
<1>16. Spaced(ws) = b[n]
  BY <1>8, <1>11, <1>14, Zenon
<1> QED
  BY <1>1, <1>5, <1>14, <1>15, <1>16, Zenon DEF SpacedSteps

\* A word more.
LEMMA SpacedAppend ==
  ASSUME NEW S, "sp" \in S, NEW ws \in Seq(Seq(S)), NEW w \in Seq(S), NEW n \in Nat, n = Len(ws)
  PROVE  Spaced(Append(ws, w)) = (IF n = 0 THEN <<>> ELSE Append(Spaced(ws), "sp")) \o w
<1>1. PICK v : v = Append(ws, w)
  OBVIOUS
<1>2. Appended(v, Seq(S), ws, w, n)
  <2>1. Appended(Append(ws, w), Seq(S), ws, w, n)
    BY AppendFacts
  <2> QED
    BY <1>1, <2>1, Zenon
<1>3. v \in Seq(Seq(S)) /\ Len(v) = n + 1 /\ v[n + 1] = w /\ \A j \in 1..n : v[j] = ws[j]
  BY <1>2, Zenon DEF Appended
<1>4. PICK m \in Nat : m = n + 1
  OBVIOUS
<1>5. PICK b : SpacedSteps(b, S, ws, n)
  BY SpacedWalk
<1>6. PICK c : SpacedSteps(c, S, v, m)
  BY <1>3, <1>4, SpacedWalk
<1>7. /\ b[0] = <<>> /\ b[n] = Spaced(ws)
      /\ \A k \in 1..n : b[k] = SpacedStep(b[k - 1], ws, k)
  BY <1>5 DEF SpacedSteps
<1>8. /\ c[0] = <<>> /\ c[m] = Spaced(v)
      /\ \A k \in 1..m : c[k] = SpacedStep(c[k - 1], v, k)
  BY <1>6 DEF SpacedSteps
<1>9. PICK P : P = {k \in 0..n : b[k] = c[k]}
  OBVIOUS
<1>10. 0 \in P
  <2>1. 0 \in 0..n /\ b[0] = c[0]
    BY <1>7, <1>8
  <2> QED
    BY <1>9, <2>1
<1>11. ASSUME NEW k \in 1..n, k - 1 \in P PROVE k \in P
  <2>1. k \in 1..m /\ k \in 0..n /\ b[k - 1] = c[k - 1]
    BY <1>4, <1>9, <1>11
  <2>2. SpacedStep(c[k - 1], v, k) = SpacedStep(c[k - 1], ws, k)
    BY <1>3, Zenon DEF SpacedStep
  <2> QED
    BY <1>7, <1>8, <1>9, <2>1, <2>2, Zenon
<1>12. \A k \in 0..n : k \in P
  BY <1>10, <1>11, UpTo
<1>13. b[n] = c[n] /\ m \in 1..m /\ m - 1 = n
  BY <1>4, <1>9, <1>12
<1>14. c[m] = SpacedStep(c[n], v, m)
  BY <1>8, <1>13, Zenon
<1>15. v[m] = w
  BY <1>3, <1>4
<1>16. CASE n = 0
  <2>1. m = 1 /\ c[n] = <<>>
    BY <1>4, <1>8, <1>16
  <2> QED
    BY <1>1, <1>8, <1>14, <1>15, <1>16, <2>1, Zenon DEF SpacedStep
<1>17. CASE n # 0
  <2>1. m # 1
    BY <1>4, <1>17
  <2> QED
    BY <1>1, <1>7, <1>8, <1>13, <1>14, <1>15, <1>17, <2>1, Zenon DEF SpacedStep
<1> QED
  BY <1>16, <1>17

LEMMA SpacedNone ==
  Spaced(<<>>) = <<>>
<1>1. PICK S : S = {"sp"}
  OBVIOUS
<1>2. PICK ws \in Seq(Seq(S)), n \in Nat : ws = <<>> /\ n = 0 /\ n = Len(ws)
  <2>1. <<>> \in Seq(Seq(S)) /\ Len(<<>>) = 0
    OBVIOUS
  <2> QED
    BY <2>1
<1>3. PICK b : SpacedSteps(b, S, ws, n)
  <2>1. "sp" \in S
    BY <1>1
  <2> QED
    BY <1>2, <2>1, SpacedWalk
<1> QED
  BY <1>2, <1>3, Zenon DEF SpacedSteps

LEMMA SplitNothing ==
  ASSUME NEW sep
  PROVE  Split(<<>>, sep) = << <<>> >>
<1>1. PICK s \in Seq(Characters) : s = <<>> /\ Len(s) = 0
  <2>1. <<>> \in Seq(Characters) /\ Len(<<>>) = 0
    OBVIOUS
  <2> QED
    BY <2>1
<1>2. PICK b : SplitSteps(b, Characters, s, sep)
  BY SplitWalk
<1>3. b[0] = << <<>> >> /\ b[0] = Split(s, sep)
  BY <1>1, <1>2, Zenon DEF SplitSteps
<1> QED
  BY <1>1, <1>3, Zenon

\* Where nothing is left.
LEMMA SubSeqNone ==
  ASSUME NEW S, NEW s \in Seq(S), NEW b \in Nat, NEW i \in Nat, b = i + 1
  PROVE  SubSeq(s, b, i) = <<>>
<1>1. PICK e : e = SubSeq(s, b, i)
  OBVIOUS
<1>2. e \in Seq(S) /\ Len(e) = 0
  BY <1>1
<1>3. Len(e) \notin Nat \ {0}
  BY <1>2
<1>4. e = <<>>
  BY <1>2, <1>3, EmptySeq
<1> QED
  BY <1>1, <1>4, Zenon

LEMMA SubSeqGrows ==
  ASSUME NEW S, NEW s \in Seq(S), NEW b \in Nat \ {0}, NEW h \in Nat, NEW i \in Nat, Follows(i, h),
         b <= i, i <= Len(s)
  PROVE  SubSeq(s, b, h) \in Seq(S) /\ SubSeq(s, b, i) = Append(SubSeq(s, b, h), s[i])
<1>1. i = h + 1
  BY DEF Follows
<1>2. CASE b = i
  <2>1. SubSeq(s, b, h) = <<>>
    BY <1>1, <1>2, SubSeqNone
  <2>2. i \in 1..Len(s)
    BY <1>2
  <2>3. SubSeq(s, i, i) = Append(<<>>, s[i])
    BY <2>2, OneCharacter, Zenon
  <2>4. <<>> \in Seq(S)
    OBVIOUS
  <2> QED
    BY <1>2, <2>1, <2>3, <2>4, Zenon
<1>3. CASE b # i
  <2>1. b <= h /\ h < Len(s)
    BY <1>1, <1>3
  <2>2. SubSeq(s, b, h) \in Seq(S) /\ SubSeq(s, b, h + 1) = Append(SubSeq(s, b, h), s[h + 1])
    BY <2>1, SubSeqNext, Zenon
  <2> QED
    BY <1>1, <2>2, Zenon
<1> QED
  BY <1>2, <1>3

LEMMA AppendedTo ==
  ASSUME NEW S, NEW a \in Seq(S), NEW w \in Seq(S), NEW ch \in S
  PROVE  a \o Append(w, ch) = Append(a \o w, ch) /\ a \o <<>> = a
<1>1. Append(w, ch) = w \o <<ch>> /\ Append(a \o w, ch) = (a \o w) \o <<ch>>
  <2>1. a \o w \in Seq(S)
    OBVIOUS
  <2> QED
    BY <2>1, AppendIsConcat
<1>2. (a \o w) \o <<ch>> = a \o (w \o <<ch>>)
  <2>1. <<ch>> \in Seq(S)
    OBVIOUS
  <2> QED
    BY <2>1, ConcatAssociative
<1>3. a \o <<>> = a
  BY ConcatEmptySeq
<1> QED
  BY <1>1, <1>2, <1>3, Zenon

\* One character of Split(), seen from its pieces.
LEMMA SplitSep ==
  ASSUME NEW S, NEW v \in Splits(S), NEW l \in Nat, l = Len(v), NEW ch, NEW sep, ch = sep
  PROVE  Appended(SplitChar(v, ch, sep), Seq(S), v, <<>>, l)
<1>1. v \in Seq(Seq(S))
  BY DEF Splits
<1>2. <<>> \in Seq(S)
  OBVIOUS
<1>3. Appended(Append(v, <<>>), Seq(S), v, <<>>, l)
  BY <1>1, <1>2, AppendFacts
<1> QED
  BY <1>3, Zenon DEF SplitChar

Lengthened(x, S, v, ch, l) ==
  /\ x \in Seq(Seq(S)) /\ Len(x) = l /\ l > 0
  /\ x[l] = Append(v[l], ch) /\ v[l] \in Seq(S) /\ \A j \in 1..(l - 1) : x[j] = v[j]

LEMMA SplitOther ==
  ASSUME NEW S, NEW v \in Splits(S), NEW l \in Nat, l = Len(v), NEW ch \in S, NEW sep, ch # sep
  PROVE  Lengthened(SplitChar(v, ch, sep), S, v, ch, l)
<1>1. v \in Seq(Seq(S)) /\ v # <<>>
  BY DEF Splits
<1>2. l > 0
  <2>1. Len(v) \in Nat \ {0}
    BY <1>1, EmptySeq
  <2> QED
    BY <2>1
<1>3. v \in [1..l -> Seq(S)] /\ l \in 1..l
  BY <1>1, <1>2
<1>4. PICK p \in Seq(S) : p = v[l]
  BY <1>3
<1>5. PICK q \in Seq(S) : q = Append(p, ch)
  <2>1. Append(p, ch) \in Seq(S)
    OBVIOUS
  <2> QED
    BY <2>1
<1>6. PICK x : x = [v EXCEPT ![l] = q]
  OBVIOUS
<1>7. x \in [1..l -> Seq(S)] /\ x[l] = q /\ \A j \in 1..(l - 1) : x[j] = v[j]
  BY <1>3, <1>6
<1>8. x \in Seq(Seq(S)) /\ Len(x) = l
  BY <1>7
<1>9. SplitChar(v, ch, sep) = x
  <2>1. SplitChar(v, ch, sep) = [v EXCEPT ![l] = Append(@, ch)]
    BY Zenon DEF SplitChar
  <2> QED
    BY <1>3, <1>4, <1>5, <1>6, <2>1
<1> QED
  BY <1>2, <1>3, <1>4, <1>5, <1>7, <1>8, <1>9, Zenon DEF Lengthened

\* What Split() has made of the first k characters of u: one piece, if none of them
\* is a space; otherwise the piece before the first of them, at c, and others that
\* stand for the rest.
Uncut(v, u, k) ==
  (\A j \in 1..k : u[j] # "sp") /\ Len(v) = 1 /\ v[1] = SubSeq(u, 1, k)

Pieced(v, first, z, w) ==
  Len(v) = Len(z) + 2 /\ v[1] = first /\ (\A j \in 1..Len(z) : v[j + 1] = z[j]) /\ v[Len(z) + 2] = w

FirstSpace(u, c) == u[c] = "sp" /\ \A j \in 1..(c - 1) : u[j] # "sp"

CutAt(v, S, u, k, c, z, w) ==
  /\ c \in 1..k /\ FirstSpace(u, c)
  /\ z \in Seq(Seq(S)) /\ w \in Seq(S)
  /\ Pieced(v, SubSeq(u, 1, c - 1), z, w)
  /\ Spaced(Append(z, w)) = SubSeq(u, c + 1, k)

LEMMA UncutNext ==
  ASSUME NEW S, NEW u \in Seq(S), NEW h \in Nat, NEW i \in 1..Len(u), Follows(i, h),
         NEW v \in Splits(S), Uncut(v, u, h), u[i] # "sp"
  PROVE  Uncut(SplitChar(v, u[i], "sp"), u, i)
<1>1. i = h + 1 /\ i \in Nat
  BY DEF Follows
<1>2. PICK ch \in S : ch = u[i]
  OBVIOUS
<1>3. PICK l \in Nat : l = 1 /\ l = Len(v)
  BY DEF Uncut
<1>4. PICK x : x = SplitChar(v, ch, "sp")
  OBVIOUS
<1>5. Lengthened(x, S, v, ch, l)
  BY <1>2, <1>3, <1>4, SplitOther
<1>6. Len(x) = 1 /\ x[1] = Append(v[1], ch)
  BY <1>3, <1>5, Zenon DEF Lengthened
<1>7. SubSeq(u, 1, i) = Append(SubSeq(u, 1, h), ch)
  <2>1. 1 \in Nat \ {0} /\ 1 <= i /\ i <= Len(u)
    OBVIOUS
  <2> QED
    BY <1>1, <1>2, <2>1, SubSeqGrows
<1>8. \A j \in 1..i : u[j] # "sp"
  <2>1. \A j \in 1..i : j \in 1..h \/ j = i
    BY <1>1
  <2> QED
    BY <2>1, Zenon DEF Uncut
<1>9. x[1] = SubSeq(u, 1, i)
  BY <1>6, <1>7, Zenon DEF Uncut
<1> QED
  BY <1>2, <1>4, <1>6, <1>8, <1>9, Zenon DEF Uncut

LEMMA CutHere ==
  ASSUME NEW S, "sp" \in S, NEW u \in Seq(S), NEW h \in Nat, NEW i \in 1..Len(u), Follows(i, h),
         NEW v \in Splits(S), Uncut(v, u, h), u[i] = "sp"
  PROVE  CutAt(SplitChar(v, u[i], "sp"), S, u, i, i, <<>>, <<>>)
<1>1. i = h + 1 /\ i - 1 = h /\ i \in Nat /\ i \in 1..i
  BY DEF Follows
<1>2. PICK l \in Nat : l = 1 /\ l = Len(v)
  BY DEF Uncut
<1>3. PICK x : x = SplitChar(v, u[i], "sp")
  OBVIOUS
<1>4. Appended(x, Seq(S), v, <<>>, l)
  BY <1>2, <1>3, SplitSep
<1>5. Len(x) = l + 1 /\ x[l + 1] = <<>> /\ \A j \in 1..l : x[j] = v[j]
  BY <1>4, Zenon DEF Appended
<1>6. Len(x) = 2 /\ x[2] = <<>> /\ x[1] = v[1]
  <2>1. l + 1 = 2 /\ 1 \in 1..l
    BY <1>2
  <2> QED
    BY <1>5, <2>1, Zenon
<1>7. Len(<<>>) + 2 = 2 /\ \A j \in 1..Len(<<>>) : FALSE
  OBVIOUS
<1>8. Pieced(x, SubSeq(u, 1, i - 1), <<>>, <<>>)
  <2>1. v[1] = SubSeq(u, 1, i - 1)
    BY <1>1, Zenon DEF Uncut
  <2> QED
    BY <1>6, <1>7, <2>1, Zenon DEF Pieced
<1>9. FirstSpace(u, i)
  BY <1>1, Zenon DEF FirstSpace, Uncut
<1>10. <<>> \in Seq(Seq(S)) /\ <<>> \in Seq(S)
  OBVIOUS
<1>11. Spaced(Append(<<>>, <<>>)) = SubSeq(u, i + 1, i)
  <2>1. SubSeq(u, i + 1, i) = <<>>
    BY <1>1, SubSeqNone
  <2>2. PICK n \in Nat : n = 0 /\ n = Len(<<>>)
    OBVIOUS
  <2>3. Spaced(Append(<<>>, <<>>)) = (IF n = 0 THEN <<>> ELSE Append(Spaced(<<>>), "sp")) \o <<>>
    BY <1>10, <2>2, SpacedAppend
  <2>4. <<>> \o <<>> = <<>>
    BY <1>10, ConcatEmptySeq
  <2> QED
    BY <2>1, <2>2, <2>3, <2>4, Zenon
<1> QED
  BY <1>1, <1>3, <1>8, <1>9, <1>10, <1>11, Zenon DEF CutAt

Behind(u, c, h, i, ch) == ch = u[i] => SubSeq(u, c + 1, i) = Append(SubSeq(u, c + 1, h), ch)

LEMMA BehindGrows ==
  ASSUME NEW S, NEW u \in Seq(S), NEW h \in Nat, NEW i \in 1..Len(u), Follows(i, h), NEW c \in 1..h,
         NEW ch
  PROVE  Behind(u, c, h, i, ch)
<1>1. i \in Nat /\ i = h + 1
  BY DEF Follows
<1>2. c + 1 \in Nat \ {0} /\ c + 1 <= i /\ i <= Len(u)
  BY <1>1
<1>3. PICK b \in Nat \ {0} : b = c + 1 /\ b <= i /\ i <= Len(u)
  BY <1>2
<1>4. PICK x : x = u[i]
  OBVIOUS
<1>5. SubSeq(u, b, i) = Append(SubSeq(u, b, h), u[i])
  BY <1>1, <1>3, SubSeqGrows
<1> QED
  BY <1>3, <1>5, Zenon DEF Behind

\* Behind the first space the last piece grows, or another one begins.
LEMMA CutGrows ==
  ASSUME NEW S, "sp" \in S, NEW u \in Seq(S), NEW h \in Nat, NEW i \in 1..Len(u), Follows(i, h),
         NEW v \in Splits(S), NEW c, NEW z, NEW w, CutAt(v, S, u, h, c, z, w), u[i] # "sp"
  PROVE  CutAt(SplitChar(v, u[i], "sp"), S, u, i, c, z, Append(w, u[i]))
<1>1. i = h + 1 /\ i \in Nat
  BY DEF Follows
<1>2. PICK ch \in S : ch = u[i]
  OBVIOUS
<1>3. /\ c \in 1..h /\ FirstSpace(u, c) /\ z \in Seq(Seq(S)) /\ w \in Seq(S)
      /\ Pieced(v, SubSeq(u, 1, c - 1), z, w)
      /\ Spaced(Append(z, w)) = SubSeq(u, c + 1, h)
  BY Zenon DEF CutAt
<1>4. PICK y \in Seq(Seq(S)) : y = z
  BY <1>3
<1>5. PICK p \in Seq(S) : p = w
  BY <1>3
<1>6. PICK q \in Seq(S) : q = Append(p, ch)
  <2>1. Append(p, ch) \in Seq(S)
    OBVIOUS
  <2> QED
    BY <2>1
<1>7. PICK m \in Nat : m = Len(y)
  OBVIOUS
<1>8. PICK l \in Nat : l = m + 2
  OBVIOUS
<1>9. Len(v) = l /\ v[1] = SubSeq(u, 1, c - 1) /\ (\A j \in 1..m : v[j + 1] = y[j]) /\ v[l] = p
  BY <1>3, <1>4, <1>5, <1>7, <1>8, Zenon DEF Pieced
<1>10. PICK x : x = SplitChar(v, ch, "sp")
  OBVIOUS
<1>11. Lengthened(x, S, v, ch, l)
  BY <1>2, <1>9, <1>10, SplitOther
<1>12. Len(x) = l /\ x[l] = q /\ \A j \in 1..(l - 1) : x[j] = v[j]
  BY <1>6, <1>9, <1>11, Zenon DEF Lengthened
<1>13. Pieced(x, SubSeq(u, 1, c - 1), y, q)
  <2>1. 1 \in 1..(l - 1) /\ \A j \in 1..m : j + 1 \in 1..(l - 1)
    BY <1>8
  <2>2. x[1] = SubSeq(u, 1, c - 1) /\ \A j \in 1..m : x[j + 1] = y[j]
    BY <1>9, <1>12, <2>1, Zenon
  <2> QED
    BY <1>7, <1>8, <1>12, <2>2, Zenon DEF Pieced
<1>14. Spaced(Append(y, q)) = SubSeq(u, c + 1, i)
  <2>1. Spaced(Append(y, p)) = (IF m = 0 THEN <<>> ELSE Append(Spaced(y), "sp")) \o p
    BY <1>7, SpacedAppend
  <2>2. Spaced(Append(y, q)) = (IF m = 0 THEN <<>> ELSE Append(Spaced(y), "sp")) \o q
    BY <1>7, SpacedAppend
  <2>3. PICK a \in Seq(S) : a = IF m = 0 THEN <<>> ELSE Append(Spaced(y), "sp")
    <3>1. Spaced(y) \in Seq(S)
      <4>1. PICK b : SpacedSteps(b, S, y, m)
        BY <1>7, SpacedWalk
      <4>2. b \in [0..m -> Seq(S)] /\ m \in 0..m /\ Spaced(y) = b[m]
        BY <4>1 DEF SpacedSteps
      <4> QED
        BY <4>2
    <3>2. PICK e \in Seq(S) : e = Spaced(y)
      BY <3>1
    <3>3. Append(e, "sp") \in Seq(S) /\ <<>> \in Seq(S)
      OBVIOUS
    <3> QED
      BY <3>2, <3>3, Zenon
  <2>4. a \o Append(p, ch) = Append(a \o p, ch)
    BY AppendedTo
  <2>5. SubSeq(u, c + 1, i) = Append(SubSeq(u, c + 1, h), ch)
    <3>1. c \in 1..h
      BY <1>3, Zenon
    <3>2. Behind(u, c, h, i, ch)
      BY <3>1, BehindGrows, Zenon
    <3> QED
      BY <1>2, <3>2, Zenon DEF Behind
  <2> QED
    BY <1>3, <1>4, <1>5, <1>6, <2>1, <2>2, <2>3, <2>4, <2>5, Zenon
<1>15. c \in 1..i
  BY <1>1, <1>3
<1> QED
  BY <1>2, <1>3, <1>4, <1>5, <1>6, <1>10, <1>13, <1>14, <1>15, Zenon DEF CutAt

LEMMA CutAgain ==
  ASSUME NEW S, "sp" \in S, NEW u \in Seq(S), NEW h \in Nat, NEW i \in 1..Len(u), Follows(i, h),
         NEW v \in Splits(S), NEW c, NEW z, NEW w, CutAt(v, S, u, h, c, z, w), u[i] = "sp"
  PROVE  CutAt(SplitChar(v, u[i], "sp"), S, u, i, c, Append(z, w), <<>>)
<1>1. i = h + 1 /\ i \in Nat
  BY DEF Follows
<1>3. /\ c \in 1..h /\ FirstSpace(u, c) /\ z \in Seq(Seq(S)) /\ w \in Seq(S)
      /\ Pieced(v, SubSeq(u, 1, c - 1), z, w)
      /\ Spaced(Append(z, w)) = SubSeq(u, c + 1, h)
  BY Zenon DEF CutAt
<1>4. PICK y \in Seq(Seq(S)) : y = z
  BY <1>3
<1>5. PICK p \in Seq(S) : p = w
  BY <1>3
<1>6. PICK e \in Seq(S) : e = <<>>
  <2>1. <<>> \in Seq(S)
    OBVIOUS
  <2> QED
    BY <2>1
<1>7. PICK m \in Nat : m = Len(y)
  OBVIOUS
<1>8. PICK l \in Nat, k \in Nat : l = m + 2 /\ k = m + 1 /\ l = k + 1
  OBVIOUS
<1>9. Len(v) = l /\ v[1] = SubSeq(u, 1, c - 1) /\ (\A j \in 1..m : v[j + 1] = y[j]) /\ v[l] = p
  BY <1>3, <1>4, <1>5, <1>7, <1>8, Zenon DEF Pieced
<1>10. PICK x : x = SplitChar(v, u[i], "sp")
  OBVIOUS
<1>11. Appended(x, Seq(S), v, <<>>, l)
  BY <1>9, <1>10, SplitSep
<1>12. Len(x) = l + 1 /\ x[l + 1] = <<>> /\ \A j \in 1..l : x[j] = v[j]
  BY <1>11, Zenon DEF Appended
<1>13. PICK g : g = Append(y, p)
  OBVIOUS
<1>14. Appended(g, Seq(S), y, p, m)
  <2>1. Appended(Append(y, p), Seq(S), y, p, m)
    BY <1>7, AppendFacts
  <2> QED
    BY <1>13, <2>1, Zenon
<1>15. g \in Seq(Seq(S)) /\ Len(g) = k /\ g[k] = p /\ \A j \in 1..m : g[j] = y[j]
  BY <1>8, <1>14, Zenon DEF Appended
<1>16. Pieced(x, SubSeq(u, 1, c - 1), g, <<>>)
  <2>1. 1 \in 1..l /\ k + 2 = l + 1
    BY <1>8
  <2>2. ASSUME NEW j \in 1..k PROVE x[j + 1] = g[j]
    <3>1. j + 1 \in 1..l
      BY <1>8
    <3>2. x[j + 1] = v[j + 1]
      BY <1>12, <3>1, Zenon
    <3>3. CASE j = k
      BY <1>8, <1>9, <1>15, <3>2, <3>3, Zenon
    <3>4. CASE j # k
      <4>1. j \in 1..m
        BY <1>8, <3>4
      <4> QED
        BY <1>9, <1>15, <3>2, <4>1, Zenon
    <3> QED
      BY <3>3, <3>4
  <2> QED
    BY <1>9, <1>12, <1>15, <2>1, <2>2, Zenon DEF Pieced
<1>17. Spaced(Append(g, e)) = SubSeq(u, c + 1, i)
  <2>1. k # 0
    BY <1>8
  <2>2. Spaced(Append(g, e)) = (IF k = 0 THEN <<>> ELSE Append(Spaced(g), "sp")) \o e
    BY <1>15, SpacedAppend
  <2>3. PICK s \in Seq(S) : s = SubSeq(u, c + 1, h)
    <3>1. SubSeq(u, c + 1, h) \in Seq(S)
      BY <1>1, <1>3
    <3> QED
      BY <3>1
  <2>4. Spaced(g) = s
    BY <1>3, <1>4, <1>5, <1>13, <2>3, Zenon
  <2>5. PICK r \in Seq(S) : r = Append(s, "sp")
    <3>1. Append(s, "sp") \in Seq(S)
      OBVIOUS
    <3> QED
      BY <3>1
  <2>6. r \o <<>> = r
    BY ConcatEmptySeq
  <2>7. SubSeq(u, c + 1, i) = Append(SubSeq(u, c + 1, h), "sp")
    <3>1. c \in 1..h
      BY <1>3, Zenon
    <3>2. Behind(u, c, h, i, "sp")
      BY <3>1, BehindGrows, Zenon
    <3> QED
      BY <3>2, Zenon DEF Behind
  <2> QED
    BY <1>6, <2>1, <2>2, <2>3, <2>4, <2>5, <2>6, <2>7, Zenon
<1>18. c \in 1..i
  BY <1>1, <1>3
<1>19. g = Append(z, w)
  BY <1>4, <1>5, <1>13, Zenon
<1> QED
  BY <1>3, <1>6, <1>10, <1>15, <1>16, <1>17, <1>18, <1>19, Zenon DEF CutAt

CutSomehow(v, S, u, k) == Uncut(v, u, k) \/ \E c, z, w : CutAt(v, S, u, k, c, z, w)

LEMMA CutNext ==
  ASSUME NEW S, "sp" \in S, NEW u \in Seq(S), NEW h \in Nat, NEW i \in 1..Len(u), Follows(i, h),
         NEW v \in Splits(S), CutSomehow(v, S, u, h)
  PROVE  CutSomehow(SplitChar(v, u[i], "sp"), S, u, i)
<1>1. CASE Uncut(v, u, h) /\ u[i] # "sp"
  BY <1>1, UncutNext DEF CutSomehow
<1>2. CASE Uncut(v, u, h) /\ u[i] = "sp"
  <2>1. CutAt(SplitChar(v, u[i], "sp"), S, u, i, i, <<>>, <<>>)
    BY <1>2, CutHere
  <2> QED
    BY <2>1, Zenon DEF CutSomehow
<1>3. CASE \E c, z, w : CutAt(v, S, u, h, c, z, w)
  <2>1. PICK c, z, w : CutAt(v, S, u, h, c, z, w)
    BY <1>3
  <2>2. CASE u[i] # "sp"
    <3>1. CutAt(SplitChar(v, u[i], "sp"), S, u, i, c, z, Append(w, u[i]))
      BY <2>1, <2>2, CutGrows
    <3> QED
      BY <3>1, Zenon DEF CutSomehow
  <2>3. CASE u[i] = "sp"
    <3>1. CutAt(SplitChar(v, u[i], "sp"), S, u, i, c, Append(z, w), <<>>)
      BY <2>1, <2>3, CutAgain
    <3> QED
      BY <3>1, Zenon DEF CutSomehow
  <2> QED
    BY <2>2, <2>3
<1> QED
  BY <1>1, <1>2, <1>3 DEF CutSomehow

LEMMA SplitCuts ==
  ASSUME NEW S, "sp" \in S, NEW u \in Seq(S), NEW n \in Nat, n = Len(u)
  PROVE  CutSomehow(Split(u, "sp"), S, u, n)
<1>1. PICK b : SplitSteps(b, S, u, "sp")
  BY SplitWalk
<1>2. /\ b \in [0..n -> Splits(S)] /\ b[0] = << <<>> >> /\ b[n] = Split(u, "sp")
      /\ \A k \in 1..n : b[k] = SplitChar(b[k - 1], u[k], "sp")
  BY <1>1 DEF SplitSteps
<1>3. PICK P : P = {k \in 0..n : CutSomehow(b[k], S, u, k)}
  OBVIOUS
<1>4. 0 \in P
  <2>1. PICK v : v = << <<>> >>
    OBVIOUS
  <2>2. Len(v) = 1 /\ v[1] = <<>>
    BY <2>1
  <2>3. SubSeq(u, 1, 0) = <<>>
    <3>1. 1 \in Nat /\ 0 \in Nat /\ 1 = 0 + 1
      OBVIOUS
    <3> QED
      BY <3>1, SubSeqNone
  <2>4. (\A j \in 1..0 : FALSE) /\ 0 \in 0..n
    OBVIOUS
  <2>5. Uncut(v, u, 0)
    BY <2>2, <2>3, <2>4, Zenon DEF Uncut
  <2> QED
    BY <1>2, <1>3, <2>1, <2>4, <2>5, Zenon DEF CutSomehow
<1>5. ASSUME NEW i \in 1..n, i - 1 \in P PROVE i \in P
  <2>1. PICK h \in 0..n : h = i - 1 /\ Follows(i, h) /\ h \in Nat /\ i \in 0..n /\ i \in 1..Len(u)
    <3>1. i - 1 \in 0..n /\ i = (i - 1) + 1 /\ i - 1 \in Nat /\ i \in 0..n /\ i \in 1..Len(u)
      OBVIOUS
    <3> QED
      BY <3>1, Zenon DEF Follows
  <2>2. PICK v \in Splits(S) : v = b[h]
    BY <1>2
  <2>3. CutSomehow(v, S, u, h)
    BY <1>3, <1>5, <2>1, <2>2, Zenon
  <2>4. CutSomehow(SplitChar(v, u[i], "sp"), S, u, i)
    BY <2>1, <2>3, CutNext
  <2>5. b[i] = SplitChar(v, u[i], "sp")
    BY <1>2, <2>1, <2>2, Zenon
  <2> QED
    BY <1>3, <2>1, <2>4, <2>5, Zenon
<1>6. \A k \in 0..n : k \in P
  BY <1>4, <1>5, UpTo
<1>7. n \in 0..n
  OBVIOUS
<1> QED
  BY <1>2, <1>3, <1>6, <1>7, Zenon

\* strip_token() of 3-ShellP1 and format_cmd_line() of 6-ShellP4 on a text without
\* quotes and tabs: what the one keeps as one space is one NUL of the other.
Unquotable == Characters \ {"quote", "tab"}

Alike(out, f, t, k) ==
  /\ ~f.quoted /\ (f.space <=> k > 0 /\ t[k] \in Spaces)
  /\ Split(out, "sp") = Split(f.out, "nul")

LEMMA AlikeNext ==
  ASSUME NEW t, NEW h \in Nat, NEW i \in Nat, Follows(i, h), t[i] \in Unquotable,
         NEW out \in Seq(Characters), NEW f \in Formats(Characters), Alike(out, f, t, h),
         NEW g, g = FormatChar(f, t[i], TRUE), NEW o, o = StripStep(out, t, i)
  PROVE  Alike(o, g, t, i)
<1>1. i = h + 1 /\ i > 0 /\ (i > 1 <=> h > 0) /\ i - 1 = h
  BY DEF Follows
<1>2. PICK ch \in Characters : ch = t[i]
  BY DEF Unquotable
<1>3. ch # "quote" /\ ch # "tab" /\ ch # "nul"
  BY <1>2 DEF Unquotable, Characters, Spaces
<1>4. ch \in Spaces <=> ch = "sp"
  BY <1>3 DEF Spaces
<1>5. ~f.quoted /\ (f.space <=> h > 0 /\ t[h] \in Spaces)
  BY Zenon DEF Alike
<1>6. PICK v : v = Split(out, "sp") /\ v = Split(f.out, "nul")
  BY Zenon DEF Alike
<1>7. PICK w \in Seq(Characters \cup {"nul"}) : w = f.out
  BY DEF Formats
<1>8. TRUE \in BOOLEAN
  OBVIOUS
<1>9. g = FormatChar(f, ch, TRUE)
  BY <1>2, Zenon
<1>10. /\ g.quoted <=> f.quoted
       /\ ch \in Spaces /\ ~f.quoted /\ f.space => g.out = f.out /\ g.space
       /\ ch \in Spaces /\ ~f.quoted /\ ~f.space => g.out = Append(f.out, "nul") /\ g.space
       /\ ch \notin Spaces => g.out = Append(f.out, ch) /\ ~g.space
  BY <1>3, <1>8, <1>9, FormatFields
<1>11. CASE ch = "sp" /\ f.space
  <2>1. o = out
    BY <1>1, <1>2, <1>4, <1>5, <1>11, Zenon DEF StripStep
  <2>2. g.out = f.out /\ g.space /\ ~g.quoted
    BY <1>4, <1>5, <1>10, <1>11, Zenon
  <2> QED
    BY <1>1, <1>2, <1>4, <1>6, <1>11, <2>1, <2>2, Zenon DEF Alike
<1>12. CASE ch = "sp" /\ ~f.space
  <2>1. o = Append(out, "sp")
    BY <1>1, <1>2, <1>4, <1>5, <1>12, Zenon DEF StripStep
  <2>2. g.out = Append(w, "nul") /\ g.space /\ ~g.quoted
    BY <1>4, <1>5, <1>7, <1>10, <1>12, Zenon
  <2>3. PICK x \in Characters : x = "sp"
    BY <1>12
  <2>4. Split(Append(out, x), "sp") = SplitChar(v, x, "sp")
    BY <1>6, SplitAppend
  <2>5. PICK y \in Characters \cup {"nul"} : y = "nul"
    OBVIOUS
  <2>6. Split(Append(w, y), "nul") = SplitChar(v, y, "nul")
    BY <1>6, <1>7, SplitAppend
  <2>7. SplitChar(v, x, "sp") = Append(v, <<>>) /\ SplitChar(v, y, "nul") = Append(v, <<>>)
    BY <2>3, <2>5, Zenon DEF SplitChar
  <2>8. Split(o, "sp") = Split(g.out, "nul")
    BY <2>1, <2>2, <2>3, <2>4, <2>5, <2>6, <2>7, Zenon
  <2> QED
    BY <1>1, <1>2, <1>4, <1>12, <2>2, <2>8, Zenon DEF Alike
<1>13. CASE ch # "sp"
  <2>1. o = Append(out, ch)
    BY <1>2, <1>4, <1>13, Zenon DEF StripStep
  <2>2. g.out = Append(w, ch) /\ ~g.space /\ ~g.quoted
    BY <1>4, <1>5, <1>7, <1>10, <1>13, Zenon
  <2>3. Split(Append(out, ch), "sp") = SplitChar(v, ch, "sp")
    BY <1>6, SplitAppend
  <2>4. ch \in Characters \cup {"nul"}
    OBVIOUS
  <2>5. Split(Append(w, ch), "nul") = SplitChar(v, ch, "nul")
    BY <1>6, <1>7, <2>4, SplitAppend
  <2>6. SplitChar(v, ch, "sp") = SplitChar(v, ch, "nul")
    BY <1>3, <1>13, Zenon DEF SplitChar
  <2>7. Split(o, "sp") = Split(g.out, "nul")
    BY <2>1, <2>2, <2>3, <2>5, <2>6, Zenon
  <2> QED
    BY <1>2, <1>4, <1>13, <2>2, <2>7, Zenon DEF Alike
<1> QED
  BY <1>11, <1>12, <1>13

LEMMA AlikeAtEnd ==
  ASSUME NEW s \in Seq(Unquotable)
  PROVE  s \in Seq(Characters) /\ Split(StripP1(s), "sp") = Split(FormatP4(s), "nul")
<1>1. s \in Seq(Characters)
  BY DEF Unquotable
<1>2. PICK t : t = Trim(s)
  OBVIOUS
<1>3. PICK n \in Nat : n = Len(t)
  BY <1>2, TrimType
<1>4. \A i \in 1..n : t[i] \in Unquotable
  BY <1>2, <1>3, TrimType
<1>5. PICK b : StripSteps(b, Characters, s, n)
  BY <1>1, <1>2, <1>3, StripWalk
<1>6. /\ b \in [0..n -> Seq(Characters)] /\ b[0] = <<>> /\ StripP1(s) = b[n]
      /\ \A k \in 1..n : b[k] = StripStep(b[k - 1], t, k)
  BY <1>2, <1>5, Zenon DEF StripSteps
<1>7. PICK c \in [0..n -> Formats(Characters)] :
        /\ c[0] = Formatting /\ c[n].out = FormatP4(s)
        /\ \A k \in 1..n : c[k] = FormatChar(c[k - 1], t[k], TRUE)
  <2>1. PICK c \in [0..Len(Trim(s)) -> Formats(Characters)] :
           /\ c[0] = Formatting
           /\ c[Len(Trim(s))].out = FormatP4(s)
           /\ \A k \in 1..Len(Trim(s)) : c[k] = FormatChar(c[k - 1], Trim(s)[k], TRUE)
    BY <1>1, FormatWalkP4
  <2> QED
    BY <1>2, <1>3, <2>1, Zenon
<1>8. PICK P : P = {k \in 0..n : Alike(b[k], c[k], t, k)}
  OBVIOUS
<1>9. 0 \in P
  <2>1. ~Formatting.quoted /\ ~Formatting.space /\ Formatting.out = <<>>
    BY DEF Formatting
  <2>2. ~(0 > 0) /\ 0 \in 0..n
    OBVIOUS
  <2>3. Split(<<>>, "sp") = << <<>> >> /\ Split(<<>>, "nul") = << <<>> >>
    BY SplitNothing, Zenon
  <2> QED
    BY <1>6, <1>7, <1>8, <2>1, <2>2, <2>3, Zenon DEF Alike
<1>10. ASSUME NEW i \in 1..n, i - 1 \in P PROVE i \in P
  <2>1. PICK h \in 0..n : h = i - 1 /\ Follows(i, h) /\ h \in Nat /\ i \in 0..n /\ i \in Nat
    <3>1. i - 1 \in 0..n /\ i = (i - 1) + 1 /\ i - 1 \in Nat /\ i \in 0..n /\ i \in Nat
      OBVIOUS
    <3> QED
      BY <3>1, Zenon DEF Follows
  <2>2. PICK out \in Seq(Characters) : out = b[h]
    BY <1>6
  <2>3. PICK f \in Formats(Characters) : f = c[h]
    BY <1>7
  <2>4. Alike(out, f, t, h)
    BY <1>8, <1>10, <2>1, <2>2, <2>3, Zenon
  <2>5. b[i] = StripStep(out, t, i) /\ c[i] = FormatChar(f, t[i], TRUE)
    BY <1>6, <1>7, <2>1, <2>2, <2>3, Zenon
  <2>6. t[i] \in Unquotable
    BY <1>4
  <2>7. PICK g, o : g = c[i] /\ o = b[i]
    OBVIOUS
  <2>8. Alike(o, g, t, i)
    BY <2>1, <2>4, <2>5, <2>6, <2>7, AlikeNext
  <2> QED
    BY <1>8, <2>1, <2>7, <2>8, Zenon
<1>11. n \in P
  <2>1. \A k \in 0..n : k \in P
    BY <1>9, <1>10, UpTo
  <2> QED
    BY <2>1
<1> QED
  BY <1>1, <1>6, <1>7, <1>8, <1>11, Zenon DEF Alike

LEMMA NoneInside ==
  ASSUME NEW s \in Seq(Unquotable)
  PROVE  Closed(s) /\ \A i \in DOMAIN s : ~Inside(s, i)
<1>1. s \in Seq(Characters)
  BY DEF Unquotable
<1>2. PICK n \in Nat : n = Len(s) /\ DOMAIN s = 1..n
  OBVIOUS
<1>3. ~Inside(s, 1) /\ \A i \in 1..n : Inside(s, i + 1) <=> (Inside(s, i) <=> s[i] # "quote")
  BY <1>1, <1>2, QuoteSteps
<1>4. \A i \in 1..n : s[i] # "quote"
  BY <1>2 DEF Unquotable
<1>5. PICK P : P = {k \in 0..n : ~Inside(s, k + 1)}
  OBVIOUS
<1>6. 0 \in P
  <2>1. 0 \in 0..n /\ 0 + 1 = 1
    OBVIOUS
  <2> QED
    BY <1>3, <1>5, <2>1, Zenon
<1>7. ASSUME NEW k \in 1..n, k - 1 \in P PROVE k \in P
  <2>1. (k - 1) + 1 = k /\ k \in 0..n
    OBVIOUS
  <2> QED
    BY <1>3, <1>4, <1>5, <1>7, <2>1, Zenon
<1>8. \A k \in 0..n : k \in P
  BY <1>6, <1>7, UpTo
<1>9. ~Inside(s, n + 1)
  <2>1. n \in 0..n
    OBVIOUS
  <2> QED
    BY <1>5, <1>8, <2>1, Zenon
<1>10. ASSUME NEW i \in 1..n PROVE ~Inside(s, i)
  <2>1. i - 1 \in 0..n /\ (i - 1) + 1 = i
    OBVIOUS
  <2> QED
    BY <1>5, <1>8, <2>1, Zenon
<1> QED
  BY <1>2, <1>9, <1>10, Zenon DEF Closed

LEMMA WordsP1 ==
  ASSUME NEW s \in Seq(Unquotable), Trim(s) # <<>>
  PROVE  Split(StripP1(s), "sp") = Words(s)
<1>1. s \in Seq(Characters) /\ Split(StripP1(s), "sp") = Split(FormatP4(s), "nul")
  BY AlikeAtEnd
<1>2. Closed(s)
  BY NoneInside
<1>3. Survives(FormatP4(s), s, TRUE)
  BY <1>1, <1>2, FormatsKeep
<1> QED
  BY <1>1, <1>3, Zenon DEF Survives

LEMMA StripType ==
  ASSUME NEW s \in Seq(Characters)
  PROVE  StripP1(s) \in Seq(Characters)
<1>1. PICK n \in Nat : n = Len(Trim(s))
  BY TrimType
<1>2. PICK b : StripSteps(b, Characters, s, n)
  BY <1>1, StripWalk
<1>3. b \in [0..n -> Seq(Characters)] /\ StripP1(s) = b[n] /\ n \in 0..n
  BY <1>2 DEF StripSteps
<1> QED
  BY <1>3

LEMMA TailNone ==
  ASSUME NEW S, NEW v \in Seq(S), Len(v) = 1
  PROVE  Tail(v) = <<>>
<1>1. PICK e \in Seq(S) : e = Tail(v) /\ Len(e) = 0
  <2>1. v # <<>>
    OBVIOUS
  <2>2. Tail(v) \in Seq(S) /\ Len(Tail(v)) = 0
    BY <2>1
  <2> QED
    BY <2>2
<1>2. Len(e) \notin Nat \ {0}
  BY <1>1
<1>3. e = <<>>
  BY <1>1, <1>2, EmptySeq
<1> QED
  BY <1>1, <1>3, Zenon

\* The name and the arguments of a piece.
NamedAs(b, ws) ==
  ws \in Seq(Seq(Characters)) /\ Len(ws) > 0 /\ b.exe = ws[1] /\ b.args = Spaced(Tail(ws))

LEMMA NamedUncut ==
  ASSUME NEW s, NEW u \in Seq(Characters), u = StripP1(s), NEW n \in Nat, n = Len(u),
         NEW v \in Splits(Characters), Uncut(v, u, n)
  PROVE  NamedAs(CommandP1(s), v)
<1>1. {i \in DOMAIN u : u[i] = "sp"} = {}
  BY DEF Uncut
<1>2. PICK c \in Nat : c = n + 1 /\ c - 1 = n
  <2>1. n + 1 \in Nat /\ (n + 1) - 1 = n
    OBVIOUS
  <2> QED
    BY <2>1, Zenon
<1>3. CommandP1(s).exe = SubSeq(u, 1, c - 1) /\ CommandP1(s).args = SubSeq(u, c + 1, n)
  BY <1>1, <1>2, Zenon DEF CommandP1
<1>4. SubSeq(u, c + 1, n) = <<>>
  <2>1. PICK e : e = SubSeq(u, c + 1, n)
    OBVIOUS
  <2>2. e \in Seq(Characters) /\ Len(e) = 0
    BY <1>2, <2>1
  <2>3. Len(e) \notin Nat \ {0}
    BY <2>2
  <2>4. e = <<>>
    BY <2>2, <2>3, EmptySeq
  <2> QED
    BY <2>1, <2>4, Zenon
<1>5. v \in Seq(Seq(Characters)) /\ Len(v) = 1 /\ v[1] = SubSeq(u, 1, n) /\ Len(v) > 0
  BY DEF Splits, Uncut
<1>6. Tail(v) = <<>>
  BY <1>5, TailNone
<1> QED
  BY <1>2, <1>3, <1>4, <1>5, <1>6, SpacedNone, Zenon DEF NamedAs

LEMMA NamedCut ==
  ASSUME NEW s, NEW u \in Seq(Characters), u = StripP1(s), NEW n \in Nat, n = Len(u),
         NEW v \in Splits(Characters), NEW c, NEW z, NEW w, CutAt(v, Characters, u, n, c, z, w)
  PROVE  NamedAs(CommandP1(s), v)
<1>1. /\ c \in 1..n /\ FirstSpace(u, c) /\ z \in Seq(Seq(Characters)) /\ w \in Seq(Characters)
      /\ Pieced(v, SubSeq(u, 1, c - 1), z, w)
      /\ Spaced(Append(z, w)) = SubSeq(u, c + 1, n)
  BY Zenon DEF CutAt
<1>2. PICK blanks : blanks = {i \in DOMAIN u : u[i] = "sp"}
  OBVIOUS
<1>3. PICK d \in 1..n : d = c
  BY <1>1, Zenon
<1>4. d \in blanks /\ \A j \in blanks : d <= j
  <2>1. u[d] = "sp" /\ \A j \in 1..(d - 1) : u[j] # "sp"
    BY <1>1, <1>3, Zenon DEF FirstSpace
  <2> QED
    BY <1>2, <1>3, <2>1
<1>5. (CHOOSE i \in blanks : \A j \in blanks : i <= j) = d
  <2>1. blanks \subseteq Nat
    BY <1>2
  <2>2. PICK i \in blanks : i = (CHOOSE k \in blanks : \A j \in blanks : k <= j)
                            /\ \A j \in blanks : i <= j
    BY <1>4, Zenon
  <2>3. i <= d /\ d <= i /\ i \in Nat
    BY <1>4, <2>1, <2>2
  <2>4. i = d
    BY <2>3
  <2> QED
    BY <2>2, <2>4, Zenon
<1>6. blanks # {}
  BY <1>4
<1>7. CommandP1(s).exe = SubSeq(u, 1, d - 1) /\ CommandP1(s).args = SubSeq(u, d + 1, n)
  BY <1>2, <1>5, <1>6, Zenon DEF CommandP1
<1>8. PICK y \in Seq(Seq(Characters)) : y = z
  BY <1>1
<1>9. PICK p \in Seq(Characters) : p = w
  BY <1>1
<1>10. PICK m \in Nat : m = Len(y)
  OBVIOUS
<1>11. PICK k \in Nat : k = m + 1 /\ k + 1 = m + 2
  OBVIOUS
<1>12. PICK g : g = Append(y, p)
  OBVIOUS
<1>13. Appended(g, Seq(Characters), y, p, m)
  <2>1. Appended(Append(y, p), Seq(Characters), y, p, m)
    BY <1>10, AppendFacts
  <2> QED
    BY <1>12, <2>1, Zenon
<1>14. g \in Seq(Seq(Characters)) /\ Len(g) = k /\ g[k] = p /\ \A j \in 1..m : g[j] = y[j]
  BY <1>11, <1>13, Zenon DEF Appended
<1>15. v \in Seq(Seq(Characters))
  BY DEF Splits
<1>16. /\ Len(v) = k + 1 /\ v[1] = SubSeq(u, 1, c - 1)
       /\ (\A j \in 1..m : v[j + 1] = y[j]) /\ v[k + 1] = p
  BY <1>1, <1>8, <1>9, <1>10, <1>11, Zenon DEF Pieced
<1>17. PICK t : t = Tail(v)
  OBVIOUS
<1>18. t \in Seq(Seq(Characters)) /\ Len(t) = k /\ \A j \in 1..k : t[j] = v[j + 1]
  <2>1. v # <<>>
    BY <1>16
  <2> QED
    BY <1>15, <1>16, <1>17, <2>1
<1>19. ASSUME NEW j \in 1..k PROVE t[j] = g[j]
  <2>1. j = k \/ j \in 1..m
    BY <1>11
  <2> QED
    BY <1>14, <1>16, <1>18, <2>1, Zenon
<1>20. t = g
  BY <1>14, <1>18, <1>19, SameSequence
<1>21. Spaced(Tail(v)) = SubSeq(u, d + 1, n)
  BY <1>1, <1>3, <1>8, <1>9, <1>12, <1>17, <1>20, Zenon
<1>22. Len(v) > 0
  BY <1>16
<1> QED
  BY <1>3, <1>7, <1>15, <1>16, <1>21, <1>22, Zenon DEF NamedAs

LEMMA NamedBySplit ==
  ASSUME NEW s \in Seq(Characters)
  PROVE  NamedAs(CommandP1(s), Split(StripP1(s), "sp"))
<1>2. PICK u \in Seq(Characters) : u = StripP1(s)
  BY StripType
<1>3. PICK n \in Nat : n = Len(u)
  OBVIOUS
<1>4. "sp" \in Characters
  BY DEF Characters, Spaces
<1>5. PICK v \in Splits(Characters) : v = Split(u, "sp")
  <2>1. PICK b : SplitSteps(b, Characters, u, "sp")
    BY SplitWalk
  <2>2. b \in [0..n -> Splits(Characters)] /\ b[n] = Split(u, "sp") /\ n \in 0..n
    BY <1>3, <2>1 DEF SplitSteps
  <2>3. b[n] \in Splits(Characters)
    BY <2>2
  <2> QED
    BY <2>2, <2>3, Zenon
<1>6. CutSomehow(v, Characters, u, n)
  BY <1>3, <1>4, <1>5, SplitCuts, Zenon
<1>8. NamedAs(CommandP1(s), v)
  <2>1. CASE Uncut(v, u, n)
    BY <1>2, <1>3, <2>1, NamedUncut
  <2>2. CASE \E c, z, w : CutAt(v, Characters, u, n, c, z, w)
    <3>1. PICK c, z, w : CutAt(v, Characters, u, n, c, z, w)
      BY <2>2
    <3> QED
      BY <1>2, <1>3, <3>1, NamedCut
  <2> QED
    BY <1>6, <2>1, <2>2, Zenon DEF CutSomehow
<1> QED
  BY <1>2, <1>5, <1>8, Zenon

LEMMA NamedByWords ==
  ASSUME NEW s \in Seq(Unquotable), Trim(s) # <<>>
  PROVE  NamedAs(CommandP1(s), Words(s))
<1>1. s \in Seq(Characters)
  BY DEF Unquotable
<1>2. NamedAs(CommandP1(s), Split(StripP1(s), "sp"))
  BY <1>1, NamedBySplit
<1>3. Split(StripP1(s), "sp") = Words(s)
  BY WordsP1
<1> QED
  BY <1>2, <1>3, Zenon

StringsP1(cmds, n) == \A k \in 1..n : cmds[k].exe \in Seq(Characters) /\ cmds[k].args \in Seq(Characters)

LEMMA LenOf ==
  ASSUME NEW n \in Nat, NEW f, f = [k \in 1..n |-> f[k]]
  PROVE  Len(f) = n
<1>1. PICK Y : Y = {f[k] : k \in 1..n}
  OBVIOUS
<1>2. f \in [1..n -> Y]
  BY <1>1
<1>3. PICK s \in [1..n -> Y] : s = f
  BY <1>2
<1>4. Len(s) = n
  OBVIOUS
<1> QED
  BY <1>3, <1>4

\* Arguments that are shorter than their array are printed alone, and so is a name,
\* or one that has none behind it.
PrintedAlone(x, b) ==
  /\ Len(b.exe) < ExeMax \/ b.args = <<>> => x.exe = b.exe
  /\ Len(b.args) < ArgMax => x.args = b.args

LEMMA PrintedAlike ==
  ASSUME NEW l, NEW n \in Nat, n = Len(l.cmds), DOMAIN l.cmds = 1..n, StringsP1(l.cmds, n)
  PROVE  Len(PrintedP1(l)) = n /\ \A k \in 1..n : PrintedAlone(PrintedP1(l)[k], l.cmds[k])
<1> DEFINE args(b) == b.args \o IF Len(b.args) = ArgMax THEN <<PastCopy>> ELSE <<>>
           name(b) == b.exe \o IF Len(b.exe) = ExeMax THEN args(b) ELSE <<>>
<1>1. PICK shown : shown = PrintedP1(l)
  OBVIOUS
<1>2. shown = [k \in 1..n |-> [exe |-> name(l.cmds[k]), args |-> args(l.cmds[k])]]
  BY <1>1, Zenon DEF PrintedP1
<1>3. Len(shown) = n
  <2> HIDE DEF name, args
  <2>1. DOMAIN shown = 1..n /\ shown = [k \in 1..n |-> shown[k]]
    BY <1>2, Zenon
  <2> QED
    BY <2>1, LenOf
<1>4. ExeMax \in Nat \ {0} /\ ArgMax \in Nat \ {0}
  BY BoundsAssumption
<1>5. ASSUME NEW k \in 1..n PROVE PrintedAlone(shown[k], l.cmds[k])
  <2>1. PICK e \in Seq(Characters), a \in Seq(Characters) : e = l.cmds[k].exe /\ a = l.cmds[k].args
    BY Zenon DEF StringsP1
  <2>2. shown[k].exe = name(l.cmds[k]) /\ shown[k].args = args(l.cmds[k])
    <3> HIDE DEF name, args
    <3> QED
      BY <1>2, Zenon
  <2>3. ASSUME Len(a) < ArgMax PROVE args(l.cmds[k]) = a
    <3>1. Len(a) # ArgMax
      BY <1>4, <2>3
    <3>2. args(l.cmds[k]) = a \o <<>>
      BY <2>1, <3>1, Zenon
    <3> QED
      BY <3>2, ConcatEmptySeq, Zenon
  <2>4. ASSUME Len(e) < ExeMax \/ a = <<>> PROVE name(l.cmds[k]) = e
    <3>1. CASE a = <<>>
      <4>1. Len(a) < ArgMax
        BY <1>4, <3>1
      <4>2. args(l.cmds[k]) = <<>>
        BY <2>3, <3>1, <4>1, Zenon
      <4>3. name(l.cmds[k]) = e \o <<>>
        <5> HIDE DEF args
        <5> QED
          BY <2>1, <4>2, Zenon
      <4> QED
        BY <4>3, ConcatEmptySeq, Zenon
    <3>2. CASE Len(e) < ExeMax
      <4>1. Len(e) # ExeMax
        BY <1>4, <3>2
      <4>2. name(l.cmds[k]) = e \o <<>>
        BY <2>1, <4>1, Zenon
      <4> QED
        BY <4>2, ConcatEmptySeq, Zenon
    <3> QED
      BY <2>4, <3>1, <3>2
  <2> HIDE DEF name, args
  <2> QED
    BY <2>1, <2>2, <2>3, <2>4, Zenon DEF PrintedAlone
<1> QED
  BY <1>1, <1>3, <1>5, Zenon

LEMMA SpacedType ==
  ASSUME NEW S, "sp" \in S, NEW ws \in Seq(Seq(S))
  PROVE  Spaced(ws) \in Seq(S)
<1>1. PICK n \in Nat : n = Len(ws)
  OBVIOUS
<1>2. PICK b : SpacedSteps(b, S, ws, n)
  BY <1>1, SpacedWalk
<1>3. b \in [0..n -> Seq(S)] /\ Spaced(ws) = b[n] /\ n \in 0..n
  BY <1>2 DEF SpacedSteps
<1> QED
  BY <1>3

LEMMA CommandStrings ==
  ASSUME NEW s \in Seq(Characters)
  PROVE  CommandP1(s).exe \in Seq(Characters) /\ CommandP1(s).args \in Seq(Characters)
<1>1. PICK v : v = Split(StripP1(s), "sp")
  OBVIOUS
<1>2. NamedAs(CommandP1(s), v)
  BY <1>1, NamedBySplit
<1>3. v \in Seq(Seq(Characters)) /\ Len(v) > 0
  BY <1>2, Zenon DEF NamedAs
<1>4. v[1] \in Seq(Characters)
  BY <1>3
<1>5. PICK t \in Seq(Seq(Characters)) : t = Tail(v)
  <2>1. v # <<>>
    BY <1>3
  <2>2. Tail(v) \in Seq(Seq(Characters))
    BY <1>3, <2>1
  <2> QED
    BY <2>2
<1>6. Spaced(t) \in Seq(Characters)
  <2>1. "sp" \in Characters
    BY DEF Characters, Spaces
  <2> QED
    BY <2>1, SpacedType
<1> QED
  BY <1>2, <1>4, <1>5, <1>6, Zenon DEF NamedAs

\* A text of blanks has no words.
LEMMA WordsNone ==
  ASSUME NEW s \in Seq(Unquotable), Trim(s) = <<>>
  PROVE  Words(s) = <<>>
<1>1. s \in Seq(Characters)
  BY DEF Unquotable
<1>2. PICK n \in Nat : n = Len(s) /\ DOMAIN s = 1..n
  OBVIOUS
<1>3. \A i \in 1..n : s[i] \in Spaces
  <2>1. PICK solid \in SUBSET (1..n) : solid = {i \in DOMAIN s : s[i] \notin Spaces}
    BY <1>2
  <2>2. SUFFICES ASSUME solid # {} PROVE FALSE
    BY <1>2, <2>1
  <2>3. \E i \in solid : \A j \in solid : i <= j
    <3>1. solid \in SUBSET Nat
      BY <2>1
    <3> QED
      BY <2>2, <3>1, LeastNatural
  <2>4. Max(solid) \in solid /\ solid \ {Max(solid)} \in SUBSET (1..(Max(solid) - 1))
    BY <2>1, <2>2, MaxFacts
  <2>5. PICK b \in solid : b = (CHOOSE k \in solid : \A m \in solid : k <= m) /\ \A m \in solid : b <= m
    BY <2>3
  <2>6. PICK f \in solid : f = (CHOOSE k \in solid : \A m \in solid : k >= m) /\ \A m \in solid : f >= m
    <3>1. PICK j \in solid : j = Max(solid)
      BY <2>4
    <3>2. \A m \in solid : j >= m
      <4>1. \A m \in solid : m = j \/ m \in 1..(j - 1)
        BY <2>4, <3>1
      <4>2. j \in 1..n
        BY <2>1
      <4> QED
        BY <4>1, <4>2
    <3> QED
      BY <3>1, <3>2 DEF Max
  <2>7. Trim(s) = SubSeq(s, b, f)
    BY <2>1, <2>2, <2>5, <2>6 DEF Trim
  <2>8. b \in Nat \ {0} /\ f \in Nat /\ b <= f /\ f <= Len(s)
    BY <1>2, <2>1, <2>5, <2>6
  <2>9. SubSeq(s, b, f) \in Seq(Characters) /\ Len(SubSeq(s, b, f)) = f - b + 1
    BY <1>1, <2>8, SubSeqFacts
  <2>10. PICK l \in Nat : l = f - b + 1 /\ l # 0
    <3>1. f - b + 1 \in Nat /\ f - b + 1 # 0
      BY <2>8
    <3> QED
      BY <3>1
  <2>11. Len(Trim(s)) = l
    BY <2>7, <2>9, <2>10, Zenon
  <2>12. Len(<<>>) = 0
    OBVIOUS
  <2> QED
    BY <2>10, <2>11, <2>12, Zenon
<1>4. ASSUME NEW i \in 1..n PROVE Gap(s, i)
  <2>1. ~Inside(s, i)
    BY <1>2, NoneInside
  <2> QED
    BY <1>3, <2>1, Zenon DEF Gap
<1>5. PICK v : v = <<>>
  OBVIOUS
<1>6. PICK P : P = {k \in 0..n : Partial(v, s, k)}
  OBVIOUS
<1>7. 0 \in P
  <2>1. Partial(v, s, 0) /\ 0 \in 0..n
    BY <1>1, <1>5, PartialNone
  <2> QED
    BY <1>6, <2>1, Zenon
<1>8. ASSUME NEW i \in 1..n, i - 1 \in P PROVE i \in P
  <2>1. PICK h \in 0..n : h = i - 1 /\ Follows(i, h) /\ h \in Nat /\ i \in 0..n /\ i \in Nat /\ i <= Len(s)
    <3>1. i - 1 \in 0..n /\ i = (i - 1) + 1 /\ i - 1 \in Nat /\ i \in 0..n /\ i \in Nat /\ i <= Len(s)
      BY <1>2
    <3> QED
      BY <3>1, Zenon DEF Follows
  <2>2. Partial(v, s, h)
    BY <1>6, <1>8, <2>1, Zenon
  <2>3. Gap(s, i)
    BY <1>4
  <2>4. Partial(v, s, i)
    BY <1>1, <2>1, <2>2, <2>3, PartialGap
  <2> QED
    BY <1>6, <2>1, <2>4, Zenon
<1>9. n \in P
  <2>1. \A k \in 0..n : k \in P
    BY <1>7, <1>8, UpTo
  <2> QED
    BY <2>1
<1>10. Partial(v, s, n)
  BY <1>6, <1>9, Zenon
<1>11. v = Words(s)
  BY <1>1, <1>2, <1>10, PartialEnd, Zenon
<1> QED
  BY <1>5, <1>11, Zenon

LEMMA ExitText ==
  /\ <<"exit">> \in Seq(Characters) /\ Len(<<"exit">>) = 1 /\ <<"exit">>[1] = "exit"
  /\ Append(<<>>, "exit") = <<"exit">> /\ "exit" \in Unquotable
BY DEF Characters, Spaces, Unquotable

LEMMA SplitExit ==
  Split(<<"exit">>, "sp") = << <<"exit">> >>
<1>1. PICK ch \in Characters : ch = "exit"
  BY ExitText DEF Unquotable
<1>2. PICK e \in Seq(Characters) : e = <<>>
  <2>1. <<>> \in Seq(Characters)
    OBVIOUS
  <2> QED
    BY <2>1
<1>3. PICK v : v = << <<>> >>
  OBVIOUS
<1>4. v \in Splits(Characters) /\ Len(v) = 1 /\ v[1] = e
  BY <1>2, <1>3 DEF Splits
<1>5. Split(Append(e, ch), "sp") = SplitChar(v, ch, "sp")
  <2>1. Split(e, "sp") = v
    BY <1>2, <1>3, SplitNothing, Zenon
  <2>2. Split(Append(e, ch), "sp") = SplitChar(Split(e, "sp"), ch, "sp")
    BY SplitAppend
  <2> QED
    BY <2>1, <2>2, Zenon
<1>6. PICK l \in Nat : l = 1
  OBVIOUS
<1>7. PICK x : x = SplitChar(v, ch, "sp")
  OBVIOUS
<1>8. Lengthened(x, Characters, v, ch, l)
  <2>1. ch # "sp"
    BY <1>1
  <2>2. l = Len(v)
    BY <1>4, <1>6
  <2> QED
    BY <1>4, <1>7, <2>1, <2>2, SplitOther
<1>9. x \in Seq(Seq(Characters)) /\ Len(x) = 1 /\ x[1] = <<"exit">>
  <2>1. x \in Seq(Seq(Characters)) /\ Len(x) = l /\ x[l] = Append(v[l], ch)
    BY <1>8, Zenon DEF Lengthened
  <2> QED
    BY <1>1, <1>2, <1>4, <1>6, <2>1, ExitText, Zenon
<1>10. PICK w \in Seq(Seq(Characters)) : w = << <<"exit">> >> /\ Len(w) = 1 /\ w[1] = <<"exit">>
  <2>1. PICK z \in Seq(Characters) : z = <<"exit">>
    BY ExitText
  <2>2. <<z>> \in Seq(Seq(Characters)) /\ Len(<<z>>) = 1 /\ <<z>>[1] = z
    OBVIOUS
  <2> QED
    BY <2>1, <2>2, Zenon
<1>11. x = w
  <2>1. \A j \in 1..l : x[j] = w[j]
    <3>1. \A j \in 1..l : j = 1
      BY <1>6
    <3> QED
      BY <1>9, <1>10, <3>1, Zenon
  <2> QED
    BY <1>6, <1>9, <1>10, <2>1, SameSequence
<1> QED
  BY <1>1, <1>2, <1>5, <1>7, <1>10, <1>11, ExitText, Zenon

\* strip_token() keeps the first character, and the last one.
LEMMA StripKeeps ==
  ASSUME NEW s \in Seq(Characters), NEW m \in Nat, m = Len(Trim(s)), m > 0,
         NEW u \in Seq(Characters), u = StripP1(s)
  PROVE  Len(u) > 0 /\ u[1] = Trim(s)[1] /\ (m > 1 => Len(u) > 1)
<1>1. PICK t : t = Trim(s)
  OBVIOUS
<1>2. PICK b : StripSteps(b, Characters, s, m)
  BY StripWalk
<1>3. /\ b \in [0..m -> Seq(Characters)] /\ b[0] = <<>> /\ u = b[m]
      /\ \A k \in 1..m : b[k] = StripStep(b[k - 1], t, k)
  BY <1>1, <1>2, Zenon DEF StripSteps
<1>4. \A k \in 1..m : t[k] \in Characters
  BY <1>1, TrimType
<1>5. PICK Q : Q = {k \in 0..m : k > 0 => Len(b[k]) > 0 /\ b[k][1] = t[1]}
  OBVIOUS
<1>6. 0 \in Q
  <2>1. 0 \in 0..m /\ ~(0 > 0)
    OBVIOUS
  <2> QED
    BY <1>5, <2>1, Zenon
<1>7. ASSUME NEW x \in Seq(Characters), NEW ch \in Characters
      PROVE  /\ Len(Append(x, ch)) = Len(x) + 1 /\ Len(x) \in Nat
             /\ Append(x, ch)[1] = IF Len(x) > 0 THEN x[1] ELSE ch
  <2>1. PICK l \in Nat : l = Len(x)
    OBVIOUS
  <2>2. Appended(Append(x, ch), Characters, x, ch, l)
    BY <2>1, AppendFacts
  <2>3. PICK y : y = Append(x, ch)
    OBVIOUS
  <2>4. Len(y) = l + 1 /\ y[l + 1] = ch /\ \A j \in 1..l : y[j] = x[j]
    BY <2>2, <2>3, Zenon DEF Appended
  <2>5. CASE l > 0
    <3>1. 1 \in 1..l
      BY <2>5
    <3> QED
      BY <2>1, <2>3, <2>4, <2>5, <3>1, Zenon
  <2>6. CASE ~(l > 0)
    <3>1. l + 1 = 1
      BY <2>6
    <3> QED
      BY <2>1, <2>3, <2>4, <2>6, <3>1, Zenon
  <2> QED
    BY <2>5, <2>6
<1>8. ASSUME NEW k \in 1..m, k - 1 \in Q PROVE k \in Q
  <2>1. PICK h \in 0..m : h = k - 1 /\ k \in 0..m /\ (k = 1 => h = 0) /\ (k > 1 => h > 0)
    <3>1. k - 1 \in 0..m /\ k \in 0..m /\ (k = 1 => k - 1 = 0) /\ (k > 1 => k - 1 > 0)
      OBVIOUS
    <3> QED
      BY <3>1
  <2>2. PICK x \in Seq(Characters) : x = b[h]
    BY <1>3
  <2>3. PICK ch \in Characters : ch = t[k]
    BY <1>4
  <2>4. b[k] = StripStep(x, t, k)
    BY <1>3, <2>1, <2>2, Zenon
  <2>5. h > 0 => Len(x) > 0 /\ x[1] = t[1]
    BY <1>5, <1>8, <2>1, <2>2, Zenon
  <2>6. CASE k = 1
    <3>1. x = <<>> /\ ~(k > 1) /\ Len(<<>>) = 0 /\ ~(Len(<<>>) > 0) /\ 0 + 1 > 0
      BY <1>3, <2>1, <2>2, <2>6
    <3>2. b[k] = Append(x, ch)
      BY <2>3, <2>4, <3>1, Zenon DEF StripStep
    <3>3. Len(b[k]) = 0 + 1 /\ b[k][1] = ch
      BY <1>7, <3>1, <3>2, Zenon
    <3>4. Len(b[k]) > 0
      BY <3>3
    <3>5. b[k][1] = t[1]
      BY <2>3, <2>6, <3>3
    <3> QED
      BY <1>5, <2>1, <3>4, <3>5, Zenon
  <2>7. CASE k # 1
    <3>1. k > 1
      BY <2>7
    <3>2. Len(x) > 0 /\ x[1] = t[1]
      BY <2>1, <2>5, <3>1
    <3>3. Len(Append(x, ch)) > 0 /\ Append(x, ch)[1] = t[1]
      <4>1. Len(Append(x, ch)) = Len(x) + 1 /\ Len(x) \in Nat /\ Append(x, ch)[1] = x[1]
        BY <1>7, <3>2, Zenon
      <4> QED
        BY <3>2, <4>1
    <3>4. b[k] = x \/ b[k] = Append(x, ch)
      BY <2>3, <2>4, Zenon DEF StripStep
    <3> QED
      BY <1>5, <2>1, <3>2, <3>3, <3>4, Zenon
  <2> QED
    BY <2>6, <2>7
<1>9. \A k \in 0..m : k \in Q
  BY <1>6, <1>8, UpTo
<1>10. ASSUME NEW k \in 1..m PROVE Len(b[k]) > 0 /\ b[k][1] = t[1]
  <2>1. k > 0 /\ k \in 0..m
    OBVIOUS
  <2> QED
    BY <1>5, <1>9, <2>1, Zenon
<1>11. m \in 1..m
  OBVIOUS
<1>12. t[m] \notin Spaces
  <2>1. PICK n \in Nat : n = Len(s)
    OBVIOUS
  <2>2. Trim(s) # <<>>
    <3>1. Len(<<>>) = 0 /\ m # 0
      OBVIOUS
    <3> QED
      BY <3>1, Zenon
  <2>3. PICK a, e : Trimmed(s, n, a, e)
    BY <2>1, <2>2, TrimFacts
  <2>4. /\ a \in Nat /\ e \in Nat /\ a < e /\ e <= n /\ Trim(s) = SubSeq(s, a + 1, e)
        /\ s[e] \notin Spaces
    BY <2>3, Zenon DEF Trimmed
  <2>5. PICK d \in Nat : d = e - a /\ d \in 1..d /\ d + a = e
    <3>1. e - a \in Nat /\ e - a \in 1..(e - a) /\ (e - a) + a = e
      BY <2>4
    <3> QED
      BY <3>1
  <2>6. /\ Len(SubSeq(s, a + 1, e)) = d
        /\ \A k \in 1..d : SubSeq(s, a + 1, e)[k] = s[a + k]
    BY <2>1, <2>4, <2>5, TrimInPlace
  <2>7. a + d = e
    BY <2>4, <2>5
  <2> QED
    BY <1>1, <2>4, <2>5, <2>6, <2>7, Zenon
<1>13. m > 1 => Len(u) > 1
  <2>1. SUFFICES ASSUME m > 1 PROVE Len(u) > 1
    OBVIOUS
  <2>2. PICK h \in 1..m : h = m - 1
    <3>1. m - 1 \in 1..m
      BY <2>1
    <3> QED
      BY <3>1
  <2>3. h \in 0..m
    OBVIOUS
  <2>4. PICK x \in Seq(Characters) : x = b[h]
    BY <1>3, <2>3
  <2>5. PICK ch \in Characters : ch = t[m]
    BY <1>4, <1>11
  <2>6. u = StripStep(x, t, m)
    BY <1>3, <1>11, <2>2, <2>4, Zenon
  <2>7. u = Append(x, ch)
    BY <1>12, <2>5, <2>6, Zenon DEF StripStep
  <2>8. Len(x) > 0
    BY <1>10, <2>4, Zenon
  <2>9. Len(u) = Len(x) + 1 /\ Len(x) \in Nat
    BY <1>7, <2>7, Zenon
  <2> QED
    BY <2>8, <2>9
<1> QED
  <2>1. Len(b[m]) > 0 /\ b[m][1] = t[1]
    BY <1>10, <1>11, Zenon
  <2> QED
    BY <1>1, <1>3, <1>13, <2>1, Zenon

\* One character alone.
LEMMA OnlyCharacter ==
  ASSUME NEW u \in Seq(Characters), Len(u) = 1, u[1] = "exit"
  PROVE  u = <<"exit">>
<1>1. PICK w \in Seq(Characters) : w = <<"exit">> /\ Len(w) = 1 /\ w[1] = "exit"
  BY ExitText
<1>2. PICK l \in Nat : l = 1
  OBVIOUS
<1>3. \A j \in 1..l : u[j] = w[j]
  <2>1. \A j \in 1..l : j = 1
    BY <1>2
  <2> QED
    BY <1>1, <2>1, Zenon
<1>4. u = w
  BY <1>1, <1>2, <1>3, SameSequence
<1> QED
  BY <1>1, <1>4, Zenon

LEMMA WordsOfExit ==
  ASSUME NEW s \in Seq(Unquotable), Trim(s) = <<"exit">>
  PROVE  Words(s) = << <<"exit">> >>
<1>1. s \in Seq(Characters)
  BY DEF Unquotable
<1>2. PICK n \in Nat : n = 1 /\ n = Len(Trim(s)) /\ n \in 1..n
  BY ExitText
<1>3. PICK b : StripSteps(b, Characters, s, n)
  BY <1>1, <1>2, StripWalk
<1>4. b[0] = <<>> /\ StripP1(s) = b[n] /\ b[n] = StripStep(b[n - 1], Trim(s), n)
  BY <1>2, <1>3, Zenon DEF StripSteps
<1>5. n - 1 = 0 /\ ~(n > 1)
  BY <1>2
<1>6. Trim(s)[n] = "exit"
  BY <1>2, ExitText, Zenon
<1>7. b[n] = Append(<<>>, "exit")
  BY <1>4, <1>5, <1>6, Zenon DEF StripStep
<1>8. StripP1(s) = <<"exit">>
  BY <1>4, <1>7, ExitText, Zenon
<1>9. Trim(s) # <<>>
  <2>1. Len(<<>>) = 0 /\ n # 0
    BY <1>2
  <2> QED
    BY <1>2, <2>1, Zenon
<1>10. Split(StripP1(s), "sp") = Words(s)
  BY <1>9, WordsP1
<1> QED
  BY <1>8, <1>10, SplitExit, Zenon

LEMMA ExitOfWords ==
  ASSUME NEW s \in Seq(Unquotable), Words(s) = << <<"exit">> >>
  PROVE  Trim(s) = <<"exit">>
<1>1. s \in Seq(Characters)
  BY DEF Unquotable
<1>2. PICK v : v = << <<"exit">> >> /\ Len(v) = 1 /\ v[1] = <<"exit">> /\ v # <<>>
  OBVIOUS
<1>3. Trim(s) # <<>>
  <2>1. SUFFICES ASSUME Trim(s) = <<>> PROVE FALSE
    OBVIOUS
  <2>2. Words(s) = <<>>
    BY <2>1, WordsNone
  <2> QED
    BY <1>2, <2>2, Zenon
<1>4. PICK u \in Seq(Characters) : u = StripP1(s)
  BY <1>1, StripType
<1>5. PICK n \in Nat : n = Len(u)
  OBVIOUS
<1>6. Split(u, "sp") = v
  BY <1>2, <1>3, <1>4, WordsP1, Zenon
<1>7. CutSomehow(v, Characters, u, n)
  <2>1. "sp" \in Characters
    BY DEF Characters, Spaces
  <2>2. CutSomehow(Split(u, "sp"), Characters, u, n)
    BY <1>5, <2>1, SplitCuts
  <2> QED
    BY <1>6, <2>2, Zenon
<1>8. Uncut(v, u, n)
  <2>1. SUFFICES ASSUME NEW c, NEW z, NEW w, CutAt(v, Characters, u, n, c, z, w) PROVE FALSE
    BY <1>7, Zenon DEF CutSomehow
  <2>2. z \in Seq(Seq(Characters)) /\ Len(v) = Len(z) + 2
    BY <2>1, Zenon DEF CutAt, Pieced
  <2>3. PICK y \in Seq(Seq(Characters)) : y = z
    BY <2>2
  <2>4. PICK l \in Nat : l = Len(y)
    OBVIOUS
  <2>5. l + 2 # 1
    OBVIOUS
  <2> QED
    BY <1>2, <2>2, <2>3, <2>4, <2>5, Zenon
<1>9. PICK x : x = SubSeq(u, 1, n) /\ x = <<"exit">> /\ Len(x) = 1 /\ x[1] = "exit"
  BY <1>2, <1>8, ExitText, Zenon DEF Uncut
<1>10. n = 1 /\ u[1] = "exit"
  <2>1. n # 0
    <3>1. SUFFICES ASSUME n = 0 PROVE FALSE
      OBVIOUS
    <3>2. 1 \in Nat /\ 1 = n + 1
      BY <3>1
    <3>3. SubSeq(u, 1, n) = <<>>
      BY <3>2, SubSeqNone
    <3>4. Len(<<>>) = 0 /\ 0 # 1
      OBVIOUS
    <3> QED
      BY <1>9, <3>3, <3>4, Zenon
  <2>2. 1 \in Nat \ {0} /\ 1 <= n /\ n <= Len(u) /\ n - 1 + 1 = n /\ 1 \in 1..n /\ 1 + 1 - 1 = 1
    BY <1>5, <2>1
  <2>3. /\ Len(SubSeq(u, 1, n)) = n - 1 + 1
        /\ \A k \in 1..(n - 1 + 1) : SubSeq(u, 1, n)[k] = u[1 + k - 1]
    BY <2>2, SubSeqFacts
  <2>4. Len(x) = n /\ x[1] = u[1]
    BY <1>9, <2>2, <2>3, Zenon
  <2> QED
    BY <1>9, <2>4, Zenon
<1>11. PICK t \in Seq(Characters) : t = Trim(s)
  BY <1>1, TrimType
<1>12. PICK m \in Nat : m = Len(t) /\ m > 0
  <2>1. Len(t) \in Nat \ {0}
    BY <1>3, <1>11, EmptySeq
  <2> QED
    BY <2>1
<1>13. Len(u) > 0 /\ u[1] = t[1] /\ (m > 1 => Len(u) > 1)
  <2>1. m = Len(Trim(s))
    BY <1>11, <1>12, Zenon
  <2>2. Len(u) > 0 /\ u[1] = Trim(s)[1] /\ (m > 1 => Len(u) > 1)
    BY <1>1, <1>4, <1>12, <2>1, StripKeeps
  <2> QED
    BY <1>11, <2>2, Zenon
<1>14. Len(t) = 1 /\ t[1] = "exit"
  <2>1. ~(n > 1)
    BY <1>10
  <2>2. ~(m > 1)
    BY <1>5, <1>13, <2>1, Zenon
  <2>3. m = 1
    BY <1>12, <2>2
  <2> QED
    BY <1>10, <1>12, <1>13, <2>3, Zenon
<1>15. t = <<"exit">>
  BY <1>14, OnlyCharacter
<1> QED
  BY <1>11, <1>15, Zenon

\* The pieces of an accepted line of 3-ShellP1, one after the other.
AcceptedP1(c, ts, n) ==
  /\ c \in [0..n -> ListsP1(Characters)] /\ c[0] = EmptyList /\ c[n].rc = "OK"
  /\ \A k \in 1..n : c[k] = AddCommandP1(c[k - 1], ts[k])

MadeP1(cmds, ts, k) == Len(cmds) = k /\ \A j \in 1..k : cmds[j] = CommandP1(ts[j])

LEMMA EachP1Accepted ==
  ASSUME NEW n \in Nat, NEW ts \in [1..n -> Parts(Characters)], NEW c, AcceptedP1(c, ts, n)
  PROVE  \A k \in 0..n : c[k].rc = "OK"
<1>1. /\ c \in [0..n -> ListsP1(Characters)] /\ c[n].rc = "OK"
      /\ \A k \in 1..n : c[k] = AddCommandP1(c[k - 1], ts[k])
  BY DEF AcceptedP1
<1>2. PICK P : P = {k \in 0..n : c[n - k].rc = "OK"}
  OBVIOUS
<1>3. 0 \in P
  <2>1. 0 \in 0..n /\ n - 0 = n
    OBVIOUS
  <2> QED
    BY <1>1, <1>2, <2>1, Zenon
<1>4. ASSUME NEW k \in 1..n, k - 1 \in P PROVE k \in P
  <2>1. PICK h \in 0..n, i \in 1..n : h = n - k /\ i = n - (k - 1) /\ h = i - 1 /\ k \in 0..n
    <3>1. n - k \in 0..n /\ n - (k - 1) \in 1..n /\ n - k = (n - (k - 1)) - 1 /\ k \in 0..n
      OBVIOUS
    <3> QED
      BY <3>1, Zenon
  <2>2. c[i].rc = "OK"
    BY <1>2, <1>4, <2>1, Zenon
  <2>3. PICK l \in ListsP1(Characters), x \in ListsP1(Characters) : l = c[h] /\ x = c[i]
    <3>1. i \in 0..n
      OBVIOUS
    <3>2. c[h] \in ListsP1(Characters) /\ c[i] \in ListsP1(Characters)
      BY <1>1, <3>1
    <3> QED
      BY <3>2
  <2>4. x = AddCommandP1(l, ts[i])
    BY <1>1, <2>1, <2>3, Zenon
  <2>5. l.rc = "OK"
    <3>1. SUFFICES ASSUME l.rc # "OK" PROVE FALSE
      OBVIOUS
    <3>2. x = l
      BY <2>4, <3>1, Zenon DEF AddCommandP1, AddCommand
    <3> QED
      BY <2>2, <2>3, <3>1, <3>2, Zenon
  <2> QED
    BY <1>2, <2>1, <2>3, <2>5, Zenon
<1>5. \A k \in 0..n : k \in P
  BY <1>3, <1>4, UpTo
<1>6. ASSUME NEW k \in 0..n PROVE c[k].rc = "OK"
  <2>1. PICK h \in 0..n : h = n - k /\ n - h = k
    <3>1. n - k \in 0..n /\ n - (n - k) = k
      OBVIOUS
    <3> QED
      BY <3>1, Zenon
  <2> QED
    BY <1>2, <1>5, <2>1, Zenon
<1> QED
  BY <1>6

LEMMA MadeP1Next ==
  ASSUME NEW l \in ListsP1(Characters), NEW ts, NEW h \in Nat, NEW k \in Nat, Follows(k, h),
         MadeP1(l.cmds, ts, h), ts[k] \in Parts(Characters), l.rc = "OK",
         NEW g, g = AddCommandP1(l, ts[k]), g.rc = "OK"
  PROVE  MadeP1(g.cmds, ts, k)
<1>1. PICK b \in NamedP1(Characters) : b = CommandP1(ts[k])
  BY DEF NamedP1
<1>2. l \in Lists(NamedP1(Characters))
  BY DEF ListsP1
<1>3. PICK cmds \in Seq(NamedP1(Characters)) : cmds = l.cmds /\ Len(cmds) = h
  BY <1>2 DEF Lists, MadeP1
<1>4. g = AddCommand(l, b)
  <2>1. ~(Len(l.cmds) >= CmdMax)
    <3>1. SUFFICES ASSUME Len(l.cmds) >= CmdMax PROVE FALSE
      OBVIOUS
    <3>2. g = [l EXCEPT !.rc = "ERR_TOO_MANY_COMMANDS"]
      BY <3>1, Zenon DEF AddCommandP1
    <3> QED
      BY <1>2, <3>2 DEF Lists
  <2> QED
    BY <1>1, <2>1, Zenon DEF AddCommandP1
<1>5. b.rc = "OK"
  <2>1. SUFFICES ASSUME b.rc # "OK" PROVE FALSE
    OBVIOUS
  <2>2. g = [l EXCEPT !.rc = b.rc]
    BY <1>4, <2>1, Zenon DEF AddCommand
  <2> QED
    BY <1>2, <2>1, <2>2 DEF Lists
<1>6. g.cmds = Append(cmds, b)
  <2>1. g = [l EXCEPT !.cmds = Append(@, b)]
    BY <1>4, <1>5, Zenon DEF AddCommand
  <2> QED
    BY <1>2, <1>3, <2>1 DEF Lists
<1>7. Appended(Append(cmds, b), NamedP1(Characters), cmds, b, h)
  BY <1>3, AppendFacts
<1>8. PICK v : v = g.cmds /\ Len(v) = h + 1 /\ v[h + 1] = b /\ \A j \in 1..h : v[j] = cmds[j]
  BY <1>6, <1>7, Zenon DEF Appended
<1>9. k = h + 1 /\ \A j \in 1..k : j \in 1..h \/ j = k
  BY DEF Follows
<1>10. \A j \in 1..h : cmds[j] = CommandP1(ts[j])
  BY <1>3, Zenon DEF MadeP1
<1>11. ASSUME NEW j \in 1..k PROVE v[j] = CommandP1(ts[j])
  <2>1. CASE j \in 1..h
    BY <1>8, <1>10, <2>1, Zenon
  <2>2. CASE j = k
    BY <1>1, <1>8, <1>9, <2>2, Zenon
  <2> QED
    BY <1>9, <2>1, <2>2
<1> QED
  BY <1>8, <1>9, <1>11, Zenon DEF MadeP1

LEMMA ListP1Made ==
  ASSUME NEW n \in Nat, NEW ts \in [1..n -> Parts(Characters)], NEW c, AcceptedP1(c, ts, n)
  PROVE  MadeP1(c[n].cmds, ts, n)
<1>1. /\ c \in [0..n -> ListsP1(Characters)] /\ c[0] = EmptyList
      /\ \A k \in 1..n : c[k] = AddCommandP1(c[k - 1], ts[k])
  BY DEF AcceptedP1
<1>2. \A k \in 0..n : c[k].rc = "OK"
  BY EachP1Accepted
<1>3. PICK Q : Q = {k \in 0..n : MadeP1(c[k].cmds, ts, k)}
  OBVIOUS
<1>4. 0 \in Q
  <2>1. EmptyList.cmds = <<>>
    BY Zenon DEF EmptyList
  <2>2. Len(<<>>) = 0 /\ (\A j \in 1..0 : FALSE) /\ 0 \in 0..n
    OBVIOUS
  <2>3. MadeP1(<<>>, ts, 0)
    BY <2>2, Zenon DEF MadeP1
  <2>4. c[0].cmds = <<>>
    BY <1>1, <2>1, Zenon
  <2>5. MadeP1(c[0].cmds, ts, 0)
    BY <2>3, <2>4, Zenon
  <2> QED
    BY <1>3, <2>2, <2>5
<1>5. ASSUME NEW k \in 1..n, k - 1 \in Q PROVE k \in Q
  <2>1. PICK h \in Nat, i \in Nat : h = k - 1 /\ i = k /\ Follows(i, h) /\ i \in 1..n /\ h \in 0..n /\ i \in 0..n
    <3>1. k - 1 \in Nat /\ k \in Nat /\ k - 1 \in 0..n /\ k \in 0..n /\ k = (k - 1) + 1
      OBVIOUS
    <3> QED
      BY <3>1, Zenon DEF Follows
  <2>2. PICK l \in ListsP1(Characters) : l = c[h]
    BY <1>1, <2>1
  <2>3. MadeP1(l.cmds, ts, h) /\ l.rc = "OK"
    BY <1>2, <1>3, <1>5, <2>1, <2>2, Zenon
  <2>4. ts[i] \in Parts(Characters)
    BY <2>1
  <2>5. PICK g : g = c[i] /\ g = AddCommandP1(l, ts[i]) /\ g.rc = "OK"
    BY <1>1, <1>2, <2>1, <2>2, Zenon
  <2>6. MadeP1(g.cmds, ts, i)
    BY <2>1, <2>3, <2>4, <2>5, MadeP1Next
  <2> QED
    BY <1>3, <2>1, <2>5, <2>6, Zenon
<1>6. \A k \in 0..n : k \in Q
  BY <1>4, <1>5, UpTo
<1>7. n \in 0..n
  OBVIOUS
<1> QED
  BY <1>3, <1>6, <1>7, Zenon

\* An accepted line of 3-ShellP1 has one command for each piece between pipes.
LEMMA OneForEachP1 ==
  ASSUME NEW s \in Seq(Characters), ListP1(s).rc = "OK", NEW n \in Nat, n = Len(Tokens(s))
  PROVE  /\ MadeP1(ListP1(s).cmds, Tokens(s), n) /\ DOMAIN ListP1(s).cmds = 1..n
         /\ StringsP1(ListP1(s).cmds, n)
<1>1. PICK ts \in Seq(Parts(Characters)) : ts = Tokens(s)
  BY TokensFew DEF Parts
<1>2. n = Len(ts) /\ ts \in [1..n -> Parts(Characters)]
  BY <1>1
<1>3. PICK c \in [0..n -> ListsP1(Characters)] :
        /\ c[0] = EmptyList /\ c[n] = ListP1(s)
        /\ \A k \in 1..n : c[k] = AddCommandP1(c[k - 1], ts[k])
  <2>1. PICK c \in [0..Len(ts) -> ListsP1(Characters)] :
          /\ c[0] = EmptyList
          /\ c[Len(ts)] = FoldLeft(LAMBDA l, t :
                              IF l.rc = "OK" /\ Len(l.cmds) >= CmdMax
                                THEN [l EXCEPT !.rc = "ERR_TOO_MANY_COMMANDS"]
                              ELSE AddCommand(l, CommandP1(t)),
                            EmptyList, ts)
          /\ \A k \in 1..Len(ts) : c[k] = AddCommandP1(c[k - 1], ts[k])
    BY ListWalkP1
  <2>2. c[Len(ts)] = ListP1(s)
    BY <1>1, <2>1 DEF ListP1
  <2> QED
    BY <1>2, <2>1, <2>2, Zenon
<1>4. c[n] = ListP1(s)
  BY <1>3
<1>5. AcceptedP1(c, ts, n)
  BY <1>3, <1>4, Zenon DEF AcceptedP1
<1>6. MadeP1(c[n].cmds, ts, n)
  BY <1>2, <1>5, ListP1Made
<1>7. PICK cmds \in Seq(NamedP1(Characters)) : cmds = c[n].cmds
  <2>1. n \in 0..n
    OBVIOUS
  <2>2. c[n] \in ListsP1(Characters)
    BY <1>3, <2>1
  <2> QED
    BY <2>2 DEF ListsP1, Lists
<1>8. Len(cmds) = n /\ \A k \in 1..n : cmds[k] = CommandP1(ts[k])
  BY <1>6, <1>7, Zenon DEF MadeP1
<1>9. DOMAIN cmds = 1..n
  BY <1>8
<1>10. StringsP1(cmds, n)
  <2>1. ASSUME NEW k \in 1..n PROVE cmds[k].exe \in Seq(Characters) /\ cmds[k].args \in Seq(Characters)
    <3>1. PICK t \in Seq(Characters) : t = ts[k]
      BY <1>2 DEF Parts
    <3>2. CommandP1(t).exe \in Seq(Characters) /\ CommandP1(t).args \in Seq(Characters)
      BY CommandStrings
    <3> QED
      BY <1>8, <3>1, <3>2, Zenon
  <2> QED
    BY <2>1, Zenon DEF StringsP1
<1> QED
  BY <1>1, <1>4, <1>6, <1>7, <1>9, <1>10, Zenon

\* What main() of 3-ShellP1 does with a line, case by case.
LEMMA ExitOnly ==
  ASSUME NEW s
  PROVE  LineP1(s).does = "exit" => Trim(s) = <<"exit">>
<1>1. SUFFICES ASSUME Trim(s) # <<"exit">> PROVE LineP1(s).does # "exit"
  OBVIOUS
<1>2. CASE s = <<>>
  <2>1. LineP1(s) = [does |-> "warn", shown |-> <<>>]
    BY <1>2, Zenon DEF LineP1
  <2> QED
    BY <2>1
<1>3. CASE s # <<>> /\ Pipes(s) >= CmdMax
  <2>1. LineP1(s) \in {[does |-> "limit", shown |-> <<>>], [does |-> "dragon", shown |-> <<>>]}
    BY <1>1, <1>3, Zenon DEF LineP1
  <2> QED
    BY <2>1
<1>4. CASE s # <<>> /\ ~(Pipes(s) >= CmdMax) /\ Trim(s) = <<"dragon">>
  <2>1. LineP1(s) = [does |-> "dragon", shown |-> <<>>]
    BY <1>1, <1>4, Zenon DEF LineP1
  <2> QED
    BY <2>1
<1>5. CASE s # <<>> /\ ~(Pipes(s) >= CmdMax) /\ Trim(s) # <<"dragon">>
  <2>1. CASE ListP1(s).rc = "OK"
    <3>1. LineP1(s) = [does |-> "list", shown |-> PrintedP1(ListP1(s))]
      BY <1>1, <1>5, <2>1, Zenon DEF LineP1
    <3> QED
      BY <3>1
  <2>2. CASE ListP1(s).rc # "OK"
    <3>1. LineP1(s) = [does |-> "nothing", shown |-> <<>>]
      BY <1>1, <1>5, <2>2, Zenon DEF LineP1
    <3> QED
      BY <3>1
  <2> QED
    BY <2>1, <2>2
<1> QED
  BY <1>2, <1>3, <1>4, <1>5

LEMMA ListOnly ==
  ASSUME NEW s, LineP1(s).does = "list"
  PROVE  ListP1(s).rc = "OK" /\ LineP1(s).shown = PrintedP1(ListP1(s))
<1>1. CASE s = <<>>
  <2>1. LineP1(s) = [does |-> "warn", shown |-> <<>>]
    BY <1>1, Zenon DEF LineP1
  <2> QED
    BY <2>1
<1>2. CASE s # <<>> /\ Pipes(s) >= CmdMax
  <2>1. LineP1(s) = [does |-> "limit", shown |-> <<>>]
    BY <1>2, Zenon DEF LineP1
  <2> QED
    BY <2>1
<1>3. CASE s # <<>> /\ ~(Pipes(s) >= CmdMax) /\ Trim(s) = <<"dragon">>
  <2>1. LineP1(s) = [does |-> "dragon", shown |-> <<>>]
    BY <1>3, Zenon DEF LineP1
  <2> QED
    BY <2>1
<1>4. CASE s # <<>> /\ ~(Pipes(s) >= CmdMax) /\ Trim(s) # <<"dragon">> /\ Trim(s) = <<"exit">>
  <2>1. LineP1(s) = [does |-> "exit", shown |-> <<>>]
    BY <1>4, Zenon DEF LineP1
  <2> QED
    BY <2>1
<1>5. CASE s # <<>> /\ ~(Pipes(s) >= CmdMax) /\ Trim(s) # <<"dragon">> /\ Trim(s) # <<"exit">>
  <2>1. CASE ListP1(s).rc = "OK"
    <3>1. LineP1(s) = [does |-> "list", shown |-> PrintedP1(ListP1(s))]
      BY <1>5, <2>1, Zenon DEF LineP1
    <3> QED
      BY <2>1, <3>1
  <2>2. CASE ListP1(s).rc # "OK"
    <3>1. LineP1(s) = [does |-> "nothing", shown |-> <<>>]
      BY <1>5, <2>2, Zenon DEF LineP1
    <3> QED
      BY <3>1
  <2> QED
    BY <2>1, <2>2
<1> QED
  BY <1>1, <1>2, <1>3, <1>4, <1>5

\* Nothing but blanks lies around the word exit, and no pipe.
LEMMA NoPipes ==
  ASSUME NEW s \in Seq(Characters), Trim(s) = <<"exit">>
  PROVE  Pipes(s) = 0 /\ s # <<>>
<1>1. PICK n \in Nat : n = Len(s) /\ DOMAIN s = 1..n
  OBVIOUS
<1>2. Trim(s) # <<>>
  <2>1. Len(<<>>) = 0 /\ 0 # 1
    OBVIOUS
  <2> QED
    BY <2>1, ExitText, Zenon
<1>3. PICK a, e : Trimmed(s, n, a, e)
  BY <1>1, <1>2, TrimFacts
<1>4. /\ a \in Nat /\ e \in Nat /\ a < e /\ e <= n /\ Trim(s) = SubSeq(s, a + 1, e)
      /\ (\A q \in 1..a : s[q] \in Spaces) /\ \A q \in (e + 1)..n : s[q] \in Spaces
  BY <1>3, Zenon DEF Trimmed
<1>5. PICK m \in Nat : m = e - a /\ a + m = e
  <2>1. e - a \in Nat /\ a + (e - a) = e
    BY <1>4
  <2> QED
    BY <2>1
<1>6. /\ Len(SubSeq(s, a + 1, e)) = m
      /\ \A k \in 1..m : SubSeq(s, a + 1, e)[k] = s[a + k]
  BY <1>1, <1>4, <1>5, TrimInPlace
<1>7. m = 1
  BY <1>4, <1>6, ExitText, Zenon
<1>8. s[e] = "exit"
  <2>1. 1 \in 1..m /\ a + 1 = e
    BY <1>4, <1>5, <1>7
  <2> QED
    BY <1>4, <1>6, <2>1, ExitText, Zenon
<1>9. ASSUME NEW i \in 1..n PROVE s[i] # "pipe"
  <2>1. i \in 1..a \/ i = e \/ i \in (e + 1)..n
    BY <1>4, <1>5, <1>7
  <2>2. "pipe" \notin Spaces /\ "exit" # "pipe"
    BY DEF Spaces
  <2> QED
    BY <1>4, <1>8, <2>1, <2>2, Zenon
<1>10. {i \in DOMAIN s : s[i] = "pipe"} = {}
  BY <1>1, <1>9
<1>11. Pipes(s) = 0
  BY <1>10, FS_EmptySet, Zenon DEF Pipes
<1>12. s # <<>>
  <2>1. n # 0
    BY <1>4
  <2>2. Len(<<>>) = 0
    OBVIOUS
  <2> QED
    BY <1>1, <2>1, <2>2, Zenon
<1> QED
  BY <1>11, <1>12

LEMMA ExitAlone ==
  ASSUME NEW s \in Seq(Characters), Trim(s) = <<"exit">>
  PROVE  LineP1(s).does = "exit"
<1>1. s # <<>> /\ ~(Pipes(s) >= CmdMax)
  <2>1. Pipes(s) = 0 /\ s # <<>>
    BY NoPipes
  <2>2. ~(0 >= CmdMax)
    BY BoundsAssumption
  <2> QED
    BY <2>1, <2>2, Zenon
<1>2. Trim(s) # <<"dragon">>
  BY ExitText
<1>3. LineP1(s) = [does |-> "exit", shown |-> <<>>]
  BY <1>1, <1>2, Zenon DEF LineP1
<1> QED
  BY <1>3

\* What is printed for a piece with words ws.
ShownAs(x, ws) ==
  /\ Len(ws[1]) < ExeMax \/ Spaced(Tail(ws)) = <<>> => x.exe = ws[1]
  /\ Len(Spaced(Tail(ws))) < ArgMax => x.args = Spaced(Tail(ws))

\* 3-ShellP1 prints for every piece between pipes its first word as the name and the
\* others, one space apart, as the arguments, and ends only for the word exit alone:
\* for every line without quotes and tabs, however long and wherever its blanks and
\* pipes stand, except for a name that fills its array with arguments behind it, and
\* arguments that fill theirs.
THEOREM NamesSurvive == Spec => []NameAndArguments
<1>1. TextType => NameAndArguments
  <2>1. SUFFICES ASSUME TextType, program = "shell", \A i \in DOMAIN text : text[i] \notin {"quote", "tab"}
                 PROVE  /\ LineP1(text).does = "exit" <=> Words(text) = << <<"exit">> >>
                        /\ LineP1(text).does = "list" =>
                             /\ Len(LineP1(text).shown) = Len(Tokens(text))
                             /\ \A k \in DOMAIN Tokens(text) :
                                  Words(Tokens(text)[k]) # <<>> =>
                                    ShownAs(LineP1(text).shown[k], Words(Tokens(text)[k]))
    BY Zenon DEF NameAndArguments, ShownAs
  <2>2. PICK s \in Seq(Unquotable) : s = text
    <3>1. text \in Seq(Characters)
      BY <2>1 DEF TextType
    <3>2. \A i \in 1..Len(text) : text[i] \in Characters \ {"quote", "tab"}
      BY <2>1, <3>1
    <3>3. text \in [1..Len(text) -> Characters \ {"quote", "tab"}] /\ Len(text) \in Nat
      BY <3>1, <3>2
    <3> QED
      BY <3>3 DEF Unquotable
  <2>3. s \in Seq(Characters)
    BY DEF Unquotable
  <2>4. LineP1(s).does = "exit" <=> Words(s) = << <<"exit">> >>
    <3>1. LineP1(s).does = "exit" <=> Trim(s) = <<"exit">>
      BY <2>3, ExitOnly, ExitAlone
    <3>2. Trim(s) = <<"exit">> => Words(s) = << <<"exit">> >>
      BY WordsOfExit
    <3>3. Words(s) = << <<"exit">> >> => Trim(s) = <<"exit">>
      BY ExitOfWords
    <3> QED
      BY <3>1, <3>2, <3>3, Zenon
  <2>5. ASSUME LineP1(s).does = "list", NEW n \in Nat, n = Len(Tokens(s))
        PROVE  /\ Len(LineP1(s).shown) = n
               /\ \A k \in 1..n : PrintedAlone(LineP1(s).shown[k], CommandP1(Tokens(s)[k]))
    <3>1. PICK l : l = ListP1(s) /\ l.rc = "OK" /\ LineP1(s).shown = PrintedP1(l)
      BY <2>5, ListOnly
    <3>2. MadeP1(l.cmds, Tokens(s), n) /\ DOMAIN l.cmds = 1..n /\ StringsP1(l.cmds, n)
      BY <2>3, <2>5, <3>1, OneForEachP1, Zenon
    <3>3. n = Len(l.cmds) /\ \A k \in 1..n : l.cmds[k] = CommandP1(Tokens(s)[k])
      BY <3>2, Zenon DEF MadeP1
    <3>4. Len(PrintedP1(l)) = n /\ \A k \in 1..n : PrintedAlone(PrintedP1(l)[k], l.cmds[k])
      BY <3>2, <3>3, PrintedAlike
    <3>5. ASSUME NEW k \in 1..n PROVE PrintedAlone(LineP1(s).shown[k], CommandP1(Tokens(s)[k]))
      <4>1. PrintedAlone(PrintedP1(l)[k], l.cmds[k])
        BY <3>4
      <4> QED
        BY <3>1, <3>3, <4>1, Zenon
    <3>6. Len(LineP1(s).shown) = n
      BY <3>1, <3>4, Zenon
    <3> QED
      BY <3>5, <3>6, Zenon
  <2>6. PICK ts \in Seq(Seq(Unquotable)) : ts = Tokens(s)
    <3>1. PICK ts \in Seq(Parts(Unquotable)) : ts = Tokens(s)
      BY TokensFew DEF Parts
    <3>2. ts \in Seq(Seq(Unquotable))
      BY DEF Parts
    <3> QED
      BY <3>1, <3>2
  <2>7. PICK n \in Nat : n = Len(ts) /\ DOMAIN ts = 1..n
    OBVIOUS
  <2>8. ASSUME LineP1(s).does = "list", NEW k \in 1..n, NEW ws, ws = Words(ts[k]), ws # <<>>
        PROVE  ShownAs(LineP1(s).shown[k], ws)
    <3>1. PICK t \in Seq(Unquotable) : t = ts[k]
      BY <2>7
    <3>2. ws = Words(t)
      BY <2>8, <3>1, Zenon
    <3>3. Trim(t) # <<>>
      BY <2>8, <3>2, WordsNone, Zenon
    <3>4. NamedAs(CommandP1(t), ws)
      BY <3>2, <3>3, NamedByWords, Zenon
    <3>5. PrintedAlone(LineP1(s).shown[k], CommandP1(t))
      BY <2>5, <2>6, <2>7, <2>8, <3>1, Zenon
    <3>6. CommandP1(t).exe = ws[1] /\ CommandP1(t).args = Spaced(Tail(ws))
      BY <3>4, Zenon DEF NamedAs
    <3> QED
      BY <3>5, <3>6, Zenon DEF PrintedAlone, ShownAs
  <2> QED
    BY <2>2, <2>4, <2>5, <2>6, <2>7, <2>8, Zenon
<1> QED
  BY <1>1, TextTypeInvariant, PTL
=============================================================================
