------------------------- MODULE StringFun_proofs ---------------------------
(***************************************************************************)
(* Theorems about the string utility, for texts, buffers and arguments of  *)
(* any length: what is printed are the words that the buffer took, and     *)
(* what is replaced is what was asked for.                                 *)
(***************************************************************************)
EXTENDS Text_proofs

-----------------------------------------------------------------------------
(* What is counted and printed.                                            *)

\* One character of Kept(), count_words() and print_words().
KeptStep(out, t, i) == IF IsBlank(t[i]) /\ i > 1 /\ IsBlank(t[i - 1]) THEN out ELSE Append(out, t[i])

CountStep(st, buff, i) ==
  IF IsBlank(buff[i]) THEN [st EXCEPT !.in = FALSE]
  ELSE [words |-> IF st.in THEN st.words ELSE st.words + 1, in |-> TRUE]

PrintStep(st, buff, i) ==
  IF IsBlank(buff[i]) THEN [st EXCEPT !.in = FALSE]
  ELSE IF st.in
    THEN [st EXCEPT !.out[Len(st.out)] = [word |-> Append(@.word, buff[i]), len |-> @.len + 1]]
  ELSE [out |-> Append(st.out, [word |-> <<buff[i]>>, len |-> 1]), in |-> TRUE]

\* The walks of the three over a text.
KeptSteps(b, S, t, n) ==
  /\ b \in [0..n -> Seq(S)] /\ b[0] = <<>> /\ Kept(t) = b[n]
  /\ \A k \in 1..n : b[k] = KeptStep(b[k - 1], t, k)

Counts == [words : Nat, in : BOOLEAN]

CountSteps(b, buff, n) ==
  /\ b \in [0..n -> Counts] /\ b[0] = [words |-> 0, in |-> FALSE]
  /\ count_words(buff, n) = b[n].words
  /\ \A k \in 1..n : b[k] = CountStep(b[k - 1], buff, k)

Printings(S) == Seq([word : Seq(S), len : Nat])

Prints(S) == {st \in [out : Printings(S), in : BOOLEAN] : st.in => st.out # <<>>}

PrintSteps(b, S, buff, n) ==
  /\ b \in [0..n -> Prints(S)] /\ b[0] = [out |-> <<>>, in |-> FALSE]
  /\ print_words(buff, n) = b[n].out
  /\ \A k \in 1..n : b[k] = PrintStep(b[k - 1], buff, k)

LEMMA PrintStepType ==
  ASSUME NEW S, NEW st \in Prints(S), NEW buff, NEW i, buff[i] \in S
  PROVE  PrintStep(st, buff, i) \in Prints(S)
<1>1. PICK ch \in S : ch = buff[i]
  OBVIOUS
<1>2. PICK out \in Printings(S), in \in BOOLEAN : st = [out |-> out, in |-> in] /\ (in => out # <<>>)
  <2>1. st \in [out : Printings(S), in : BOOLEAN] /\ (st.in => st.out # <<>>)
    BY DEF Prints
  <2>2. st = [out |-> st.out, in |-> st.in] /\ st.out \in Printings(S) /\ st.in \in BOOLEAN
    BY <2>1
  <2> QED
    BY <2>1, <2>2, Zenon
<1>3. CASE IsBlank(ch)
  <2>1. PrintStep(st, buff, i) = [out |-> out, in |-> FALSE]
    BY <1>1, <1>2, <1>3 DEF PrintStep
  <2> QED
    BY <2>1 DEF Prints
<1>4. CASE ~IsBlank(ch) /\ ~in
  <2>1. PICK w \in [word : Seq(S), len : Nat] : w = [word |-> <<ch>>, len |-> 1]
    <3>1. <<ch>> \in Seq(S)
      OBVIOUS
    <3> QED
      BY <3>1
  <2>2. PrintStep(st, buff, i) = [out |-> Append(out, w), in |-> TRUE]
    BY <1>1, <1>2, <1>4, <2>1 DEF PrintStep
  <2>3. Append(out, w) \in Printings(S)
    BY DEF Printings
  <2>4. Append(out, w) # <<>>
    <3>1. PICK W : W = [word : Seq(S), len : Nat]
      OBVIOUS
    <3>2. out \in Seq(W) /\ w \in W
      BY <2>1, <3>1 DEF Printings
    <3>3. Len(Append(out, w)) = Len(out) + 1 /\ Len(out) \in Nat
      BY <3>2
    <3>4. Len(<<>>) = 0
      BY EmptySeq
    <3> QED
      BY <3>3, <3>4
  <2> QED
    BY <2>2, <2>3, <2>4 DEF Prints
<1>5. CASE ~IsBlank(ch) /\ in
  <2>1. PICK l \in Nat \ {0} : l = Len(out) /\ out \in [1..l -> [word : Seq(S), len : Nat]]
    <3>1. PICK W : W = [word : Seq(S), len : Nat]
      OBVIOUS
    <3>2. out \in Seq(W) /\ out # <<>>
      BY <1>2, <1>5, <3>1 DEF Printings
    <3>3. Len(out) \in Nat \ {0}
      BY <3>2
    <3>4. out \in [1..Len(out) -> W]
      BY <3>2
    <3> QED
      BY <3>1, <3>3, <3>4
  <2>2. PICK w \in [word : Seq(S), len : Nat] : w = [word |-> Append(out[l].word, ch), len |-> out[l].len + 1]
    <3>1. l \in 1..l
      OBVIOUS
    <3>2. out[l].word \in Seq(S) /\ out[l].len \in Nat
      BY <2>1, <3>1
    <3>3. PICK word \in Seq(S), len \in Nat : word = out[l].word /\ len = out[l].len
      BY <3>2
    <3>4. Append(word, ch) \in Seq(S) /\ len + 1 \in Nat
      OBVIOUS
    <3> QED
      BY <3>3, <3>4
  <2>3. PrintStep(st, buff, i) = [out |-> [out EXCEPT ![l] = w], in |-> TRUE]
    BY <1>1, <1>2, <1>5, <2>1, <2>2 DEF PrintStep
  <2>4. [out EXCEPT ![l] = w] \in [1..l -> [word : Seq(S), len : Nat]]
    BY <2>1
  <2>5. [out EXCEPT ![l] = w] \in Printings(S) /\ [out EXCEPT ![l] = w] # <<>>
    BY <2>4 DEF Printings
  <2> QED
    BY <2>3, <2>5 DEF Prints
<1> QED
  BY <1>3, <1>4, <1>5

LEMMA PrefixDomain ==
  ASSUME NEW S, NEW n \in Nat, NEW s \in Seq(S), n <= Len(s)
  PROVE  DOMAIN SubSeq(s, 1, n) = 1..n
OBVIOUS

\* The walk of setup_buff() over the text it takes.
LEMMA KeptWalk ==
  ASSUME NEW S, NEW t \in Seq(S), NEW n \in Nat, n = Len(t)
  PROVE  \E b : KeptSteps(b, S, t, n)
<1>1. PICK Y : Y = Seq(S)
  OBVIOUS
<1>2. ASSUME NEW c \in Y, NEW i \in 1..n PROVE KeptStep(c, t, i) \in Y
  <2>1. t[i] \in S
    OBVIOUS
  <2>2. PICK x \in S : x = t[i]
    BY <2>1
  <2>3. Append(c, x) \in Y
    BY <1>1
  <2>4. KeptStep(c, t, i) = c \/ KeptStep(c, t, i) = Append(c, x)
    BY <2>2, Zenon DEF KeptStep
  <2> QED
    BY <2>3, <2>4, Zenon
<1>3. PICK step : step = [p \in Y \X (1..n) |-> KeptStep(p[1], t, p[2])]
  OBVIOUS
<1>4. /\ step \in [Y \X (1..n) -> Y]
      /\ \A c \in Y, i \in 1..n : step[<<c, i>>] = KeptStep(c, t, i)
  BY <1>2, <1>3
<1>5. PICK base \in Y : base = <<>>
  <2>1. <<>> \in Y
    BY <1>1
  <2> QED
    BY <2>1
<1>6. PICK g : Folds(g, n, Y, base, step)
  BY <1>4, FoldExists
<1>7. PICK u : u = [i \in DOMAIN t |-> i]
  OBVIOUS
<1>8. DOMAIN u = 1..n /\ \A i \in 1..n : u[i] = i
  <2>1. DOMAIN t = 1..n
    OBVIOUS
  <2> QED
    BY <1>7, <2>1
<1>9. \A ps \in SUBSET (1..n) : ps # {} => Max(ps) \in ps /\ Max(ps) \in 1..n /\ u[Max(ps)] = Max(ps)
  BY <1>8, MaxFacts
<1>10. g = [ps \in SUBSET (DOMAIN u) |->
              IF ps = {} THEN <<>> ELSE KeptStep(g[ps \ {Max(ps)}], t, u[Max(ps)])]
  <2>1. ASSUME NEW ps \in SUBSET (1..n), ps # {}
        PROVE  g[ps] = KeptStep(g[ps \ {Max(ps)}], t, u[Max(ps)])
    <3>1. g[ps \ {Max(ps)}] \in Y
      BY <1>6 DEF Folds
    <3>2. g[ps] = step[<<g[ps \ {Max(ps)}], Max(ps)>>]
      BY <1>6, <2>1 DEF Folds
    <3> QED
      BY <1>4, <1>9, <2>1, <3>1, <3>2
  <2> QED
    BY <1>5, <1>6, <1>8, <2>1 DEF Folds
<1>11. PICK it :
         /\ it = [ps \in SUBSET (DOMAIN u) |->
                    IF ps = {} THEN <<>> ELSE KeptStep(it[ps \ {Max(ps)}], t, u[Max(ps)])]
         /\ Kept(t) = it[DOMAIN u]
  <2>1. g = [ps \in SUBSET (DOMAIN [i \in DOMAIN t |-> i]) |->
               IF ps = {} THEN <<>>
               ELSE KeptStep(g[ps \ {Max(ps)}], t, [i \in DOMAIN t |-> i][Max(ps)])]
    BY <1>7, <1>10, Zenon
  <2> DEFINE iter == CHOOSE iter :
                        iter = [ps \in SUBSET (DOMAIN [i \in DOMAIN t |-> i]) |->
                                 IF ps = {} THEN <<>>
                                 ELSE KeptStep(iter[ps \ {Max(ps)}], t, [i \in DOMAIN t |-> i][Max(ps)])]
  <2>2. iter = [ps \in SUBSET (DOMAIN [i \in DOMAIN t |-> i]) |->
                  IF ps = {} THEN <<>>
                  ELSE KeptStep(iter[ps \ {Max(ps)}], t, [i \in DOMAIN t |-> i][Max(ps)])]
    BY <2>1, Zenon
  <2>3. Kept(t) = iter[DOMAIN [i \in DOMAIN t |-> i]]
    BY ZenonT(60) DEF Kept, KeptStep, FoldLeftDomain, FoldLeft, MapThenFoldSet
  <2>4. \E it :
          /\ it = [ps \in SUBSET (DOMAIN [i \in DOMAIN t |-> i]) |->
                     IF ps = {} THEN <<>>
                     ELSE KeptStep(it[ps \ {Max(ps)}], t, [i \in DOMAIN t |-> i][Max(ps)])]
          /\ Kept(t) = it[DOMAIN [i \in DOMAIN t |-> i]]
    BY <2>2, <2>3, Zenon
  <2> QED
    BY <1>7, <2>4, Zenon
<1>12. StepsIn(it, n, Y, base, step)
  <2>1. it[{}] = base
    BY <1>5, <1>8, <1>11
  <2>2. ASSUME NEW ps \in SUBSET (1..n), ps # {}, it[ps \ {Max(ps)}] \in Y
        PROVE  it[ps] = step[<<it[ps \ {Max(ps)}], Max(ps)>>]
    <3>1. it[ps] = KeptStep(it[ps \ {Max(ps)}], t, u[Max(ps)])
      BY <1>8, <1>11, <2>2
    <3> QED
      BY <1>4, <1>9, <2>2, <3>1
  <2> QED
    BY <2>1, <2>2 DEF StepsIn
<1>13. PICK b : Walks(b, n, Y, base, step, it)
  BY <1>4, <1>12, FoldPrefixes
<1>14. /\ b \in [0..n -> Y] /\ b[0] = base /\ b[n] = it[1..n]
       /\ \A k \in 1..n : b[k] = step[<<b[k - 1], k>>]
  BY <1>13, Zenon DEF Walks
<1>15. ASSUME NEW k \in 1..n PROVE b[k] = KeptStep(b[k - 1], t, k)
  <2>1. b[k - 1] \in Y
    <3>1. k - 1 \in 0..n
      OBVIOUS
    <3> QED
      BY <1>14, <3>1
  <2> QED
    BY <1>4, <1>14, <2>1
<1>16. Kept(t) = b[n]
  BY <1>8, <1>11, <1>14, Zenon
<1> QED
  BY <1>1, <1>5, <1>14, <1>15, <1>16, Zenon DEF KeptSteps

\* The walk of count_words() over the first n characters.
LEMMA CountWalk ==
  ASSUME NEW S, NEW n \in Nat, NEW buff \in Seq(S), n <= Len(buff)
  PROVE  \E b : CountSteps(b, buff, n)
<1>1. PICK Y : Y = Counts
  OBVIOUS
<1>2. ASSUME NEW c \in Y, NEW i \in 1..n PROVE CountStep(c, buff, i) \in Y
  <2>1. PICK words \in Nat, in \in BOOLEAN : c = [words |-> words, in |-> in]
    BY <1>1 DEF Counts
  <2>2. \/ CountStep(c, buff, i) = [words |-> words, in |-> FALSE]
        \/ CountStep(c, buff, i) = [words |-> words, in |-> TRUE]
        \/ CountStep(c, buff, i) = [words |-> words + 1, in |-> TRUE]
    BY <2>1 DEF CountStep
  <2>3. \A w \in Nat : [words |-> w, in |-> FALSE] \in Counts /\ [words |-> w, in |-> TRUE] \in Counts
    BY DEF Counts
  <2>4. words + 1 \in Nat
    OBVIOUS
  <2> QED
    BY <1>1, <2>1, <2>2, <2>3, <2>4, Zenon
<1>3. PICK step : step = [p \in Y \X (1..n) |-> CountStep(p[1], buff, p[2])]
  OBVIOUS
<1>4. /\ step \in [Y \X (1..n) -> Y]
      /\ \A c \in Y, i \in 1..n : step[<<c, i>>] = CountStep(c, buff, i)
  BY <1>2, <1>3
<1>5. PICK base \in Y : base = [words |-> 0, in |-> FALSE]
  <2>1. [words |-> 0, in |-> FALSE] \in Y
    BY <1>1 DEF Counts
  <2> QED
    BY <2>1
<1>6. PICK g : Folds(g, n, Y, base, step)
  BY <1>4, FoldExists
<1>7. PICK u : u = [i \in DOMAIN SubSeq(buff, 1, n) |-> i]
  OBVIOUS
<1>8. DOMAIN u = 1..n /\ \A i \in 1..n : u[i] = i
  <2>1. DOMAIN SubSeq(buff, 1, n) = 1..n
    BY PrefixDomain
  <2> QED
    BY <1>7, <2>1
<1>9. \A ps \in SUBSET (1..n) : ps # {} => Max(ps) \in ps /\ Max(ps) \in 1..n /\ u[Max(ps)] = Max(ps)
  BY <1>8, MaxFacts
<1>10. g = [ps \in SUBSET (DOMAIN u) |->
              IF ps = {} THEN [words |-> 0, in |-> FALSE] ELSE CountStep(g[ps \ {Max(ps)}], buff, u[Max(ps)])]
  <2>1. ASSUME NEW ps \in SUBSET (1..n), ps # {}
        PROVE  g[ps] = CountStep(g[ps \ {Max(ps)}], buff, u[Max(ps)])
    <3>1. g[ps \ {Max(ps)}] \in Y
      BY <1>6 DEF Folds
    <3>2. g[ps] = step[<<g[ps \ {Max(ps)}], Max(ps)>>]
      BY <1>6, <2>1 DEF Folds
    <3> QED
      BY <1>4, <1>9, <2>1, <3>1, <3>2
  <2> QED
    BY <1>5, <1>6, <1>8, <2>1 DEF Folds
<1>11. PICK it :
         /\ it = [ps \in SUBSET (DOMAIN u) |->
                    IF ps = {} THEN [words |-> 0, in |-> FALSE]
                    ELSE CountStep(it[ps \ {Max(ps)}], buff, u[Max(ps)])]
         /\ count_words(buff, n) = it[DOMAIN u].words
  <2>1. g = [ps \in SUBSET (DOMAIN [i \in DOMAIN SubSeq(buff, 1, n) |-> i]) |->
               IF ps = {} THEN [words |-> 0, in |-> FALSE]
               ELSE CountStep(g[ps \ {Max(ps)}], buff, [i \in DOMAIN SubSeq(buff, 1, n) |-> i][Max(ps)])]
    BY <1>7, <1>10, Zenon
  <2> DEFINE iter == CHOOSE iter :
                        iter = [ps \in SUBSET (DOMAIN [i \in DOMAIN SubSeq(buff, 1, n) |-> i]) |->
                                 IF ps = {} THEN [words |-> 0, in |-> FALSE]
                                 ELSE CountStep(iter[ps \ {Max(ps)}], buff, [i \in DOMAIN SubSeq(buff, 1, n) |-> i][Max(ps)])]
  <2>2. iter = [ps \in SUBSET (DOMAIN [i \in DOMAIN SubSeq(buff, 1, n) |-> i]) |->
                  IF ps = {} THEN [words |-> 0, in |-> FALSE]
                  ELSE CountStep(iter[ps \ {Max(ps)}], buff, [i \in DOMAIN SubSeq(buff, 1, n) |-> i][Max(ps)])]
    BY <2>1, Zenon
  <2>3. count_words(buff, n) = iter[DOMAIN [i \in DOMAIN SubSeq(buff, 1, n) |-> i]].words
    BY ZenonT(60) DEF count_words, CountStep, FoldLeftDomain, FoldLeft, MapThenFoldSet
  <2>4. \E it :
          /\ it = [ps \in SUBSET (DOMAIN [i \in DOMAIN SubSeq(buff, 1, n) |-> i]) |->
                     IF ps = {} THEN [words |-> 0, in |-> FALSE]
                     ELSE CountStep(it[ps \ {Max(ps)}], buff, [i \in DOMAIN SubSeq(buff, 1, n) |-> i][Max(ps)])]
          /\ count_words(buff, n) = it[DOMAIN [i \in DOMAIN SubSeq(buff, 1, n) |-> i]].words
    BY <2>2, <2>3, Zenon
  <2> QED
    BY <1>7, <2>4, Zenon
<1>12. StepsIn(it, n, Y, base, step)
  <2>1. it[{}] = base
    BY <1>5, <1>8, <1>11
  <2>2. ASSUME NEW ps \in SUBSET (1..n), ps # {}, it[ps \ {Max(ps)}] \in Y
        PROVE  it[ps] = step[<<it[ps \ {Max(ps)}], Max(ps)>>]
    <3>1. it[ps] = CountStep(it[ps \ {Max(ps)}], buff, u[Max(ps)])
      BY <1>8, <1>11, <2>2
    <3> QED
      BY <1>4, <1>9, <2>2, <3>1
  <2> QED
    BY <2>1, <2>2 DEF StepsIn
<1>13. PICK b : Walks(b, n, Y, base, step, it)
  BY <1>4, <1>12, FoldPrefixes
<1>14. /\ b \in [0..n -> Y] /\ b[0] = base /\ b[n] = it[1..n]
       /\ \A k \in 1..n : b[k] = step[<<b[k - 1], k>>]
  BY <1>13, Zenon DEF Walks
<1>15. ASSUME NEW k \in 1..n PROVE b[k] = CountStep(b[k - 1], buff, k)
  <2>1. b[k - 1] \in Y
    <3>1. k - 1 \in 0..n
      OBVIOUS
    <3> QED
      BY <1>14, <3>1
  <2> QED
    BY <1>4, <1>14, <2>1
<1>16. count_words(buff, n) = b[n].words
  BY <1>8, <1>11, <1>14, Zenon
<1> QED
  BY <1>1, <1>5, <1>14, <1>15, <1>16, Zenon DEF CountSteps

\* The walk of print_words() over the first n characters.
LEMMA PrintWalk ==
  ASSUME NEW S, NEW n \in Nat, NEW buff \in Seq(S), n <= Len(buff)
  PROVE  \E b : PrintSteps(b, S, buff, n)
<1>1. PICK Y : Y = Prints(S)
  OBVIOUS
<1>2. ASSUME NEW c \in Y, NEW i \in 1..n PROVE PrintStep(c, buff, i) \in Y
  <2>1. i \in 1..Len(buff)
    OBVIOUS
  <2>2. buff[i] \in S
    BY <2>1
  <2> QED
    BY <1>1, <2>2, PrintStepType
<1>3. PICK step : step = [p \in Y \X (1..n) |-> PrintStep(p[1], buff, p[2])]
  OBVIOUS
<1>4. /\ step \in [Y \X (1..n) -> Y]
      /\ \A c \in Y, i \in 1..n : step[<<c, i>>] = PrintStep(c, buff, i)
  BY <1>2, <1>3
<1>5. PICK base \in Y : base = [out |-> <<>>, in |-> FALSE]
  <2>1. [out |-> <<>>, in |-> FALSE] \in Y
    BY <1>1 DEF Prints, Printings
  <2> QED
    BY <2>1
<1>6. PICK g : Folds(g, n, Y, base, step)
  BY <1>4, FoldExists
<1>7. PICK u : u = [i \in DOMAIN SubSeq(buff, 1, n) |-> i]
  OBVIOUS
<1>8. DOMAIN u = 1..n /\ \A i \in 1..n : u[i] = i
  <2>1. DOMAIN SubSeq(buff, 1, n) = 1..n
    BY PrefixDomain
  <2> QED
    BY <1>7, <2>1
<1>9. \A ps \in SUBSET (1..n) : ps # {} => Max(ps) \in ps /\ Max(ps) \in 1..n /\ u[Max(ps)] = Max(ps)
  BY <1>8, MaxFacts
<1>10. g = [ps \in SUBSET (DOMAIN u) |->
              IF ps = {} THEN [out |-> <<>>, in |-> FALSE]
              ELSE PrintStep(g[ps \ {Max(ps)}], buff, u[Max(ps)])]
  <2>1. ASSUME NEW ps \in SUBSET (1..n), ps # {}
        PROVE  g[ps] = PrintStep(g[ps \ {Max(ps)}], buff, u[Max(ps)])
    <3>1. g[ps \ {Max(ps)}] \in Y
      BY <1>6 DEF Folds
    <3>2. g[ps] = step[<<g[ps \ {Max(ps)}], Max(ps)>>]
      BY <1>6, <2>1 DEF Folds
    <3> QED
      BY <1>4, <1>9, <2>1, <3>1, <3>2
  <2> QED
    BY <1>5, <1>6, <1>8, <2>1 DEF Folds
<1>11. PICK it :
         /\ it = [ps \in SUBSET (DOMAIN u) |->
                    IF ps = {} THEN [out |-> <<>>, in |-> FALSE]
                    ELSE PrintStep(it[ps \ {Max(ps)}], buff, u[Max(ps)])]
         /\ print_words(buff, n) = it[DOMAIN u].out
  <2>1. g = [ps \in SUBSET (DOMAIN [i \in DOMAIN SubSeq(buff, 1, n) |-> i]) |->
               IF ps = {} THEN [out |-> <<>>, in |-> FALSE]
               ELSE PrintStep(g[ps \ {Max(ps)}], buff, [i \in DOMAIN SubSeq(buff, 1, n) |-> i][Max(ps)])]
    BY <1>7, <1>10, Zenon
  <2> DEFINE iter == CHOOSE iter :
                        iter = [ps \in SUBSET (DOMAIN [i \in DOMAIN SubSeq(buff, 1, n) |-> i]) |->
                                 IF ps = {} THEN [out |-> <<>>, in |-> FALSE]
                                 ELSE PrintStep(iter[ps \ {Max(ps)}], buff, [i \in DOMAIN SubSeq(buff, 1, n) |-> i][Max(ps)])]
  <2>2. iter = [ps \in SUBSET (DOMAIN [i \in DOMAIN SubSeq(buff, 1, n) |-> i]) |->
                  IF ps = {} THEN [out |-> <<>>, in |-> FALSE]
                  ELSE PrintStep(iter[ps \ {Max(ps)}], buff, [i \in DOMAIN SubSeq(buff, 1, n) |-> i][Max(ps)])]
    BY <2>1, Zenon
  <2>3. print_words(buff, n) = iter[DOMAIN [i \in DOMAIN SubSeq(buff, 1, n) |-> i]].out
    BY ZenonT(60) DEF print_words, PrintStep, FoldLeftDomain, FoldLeft, MapThenFoldSet
  <2>4. \E it :
          /\ it = [ps \in SUBSET (DOMAIN [i \in DOMAIN SubSeq(buff, 1, n) |-> i]) |->
                     IF ps = {} THEN [out |-> <<>>, in |-> FALSE]
                     ELSE PrintStep(it[ps \ {Max(ps)}], buff, [i \in DOMAIN SubSeq(buff, 1, n) |-> i][Max(ps)])]
          /\ print_words(buff, n) = it[DOMAIN [i \in DOMAIN SubSeq(buff, 1, n) |-> i]].out
    BY <2>2, <2>3, Zenon
  <2> QED
    BY <1>7, <2>4, Zenon
<1>12. StepsIn(it, n, Y, base, step)
  <2>1. it[{}] = base
    BY <1>5, <1>8, <1>11
  <2>2. ASSUME NEW ps \in SUBSET (1..n), ps # {}, it[ps \ {Max(ps)}] \in Y
        PROVE  it[ps] = step[<<it[ps \ {Max(ps)}], Max(ps)>>]
    <3>1. it[ps] = PrintStep(it[ps \ {Max(ps)}], buff, u[Max(ps)])
      BY <1>8, <1>11, <2>2
    <3> QED
      BY <1>4, <1>9, <2>2, <3>1
  <2> QED
    BY <2>1, <2>2 DEF StepsIn
<1>13. PICK b : Walks(b, n, Y, base, step, it)
  BY <1>4, <1>12, FoldPrefixes
<1>14. /\ b \in [0..n -> Y] /\ b[0] = base /\ b[n] = it[1..n]
       /\ \A k \in 1..n : b[k] = step[<<b[k - 1], k>>]
  BY <1>13, Zenon DEF Walks
<1>15. ASSUME NEW k \in 1..n PROVE b[k] = PrintStep(b[k - 1], buff, k)
  <2>1. b[k - 1] \in Y
    <3>1. k - 1 \in 0..n
      OBVIOUS
    <3> QED
      BY <1>14, <3>1
  <2> QED
    BY <1>4, <1>14, <2>1
<1>16. print_words(buff, n) = b[n].out
  BY <1>8, <1>11, <1>14, Zenon
<1> QED
  BY <1>1, <1>5, <1>14, <1>15, <1>16, Zenon DEF PrintSteps

\* A printed word that begins at b of t, within the first i characters; one that
\* goes on there, and one that a blank has ended.
PrintedAt(w, t, b, i) ==
  /\ b \in 1..i /\ w.len \in 1..i /\ b + w.len - 1 <= i
  /\ w.len = Len(w.word) /\ SubSeq(t, b, b + w.len - 1) = w.word

GoesOnTo(w, t, b, i) == PrintedAt(w, t, b, i) /\ b + w.len - 1 = i

EndsBefore(w, t, b, i) == PrintedAt(w, t, b, i) /\ b + w.len <= i /\ IsBlank(t[b + w.len])

LEMMA WordBegins ==
  ASSUME NEW S, NEW t \in Seq(S), NEW i \in 1..Len(t),
         NEW w, w = [word |-> <<t[i]>>, len |-> 1]
  PROVE  GoesOnTo(w, t, i, i)
<1>1. PICK one \in Seq(S) : one = <<t[i]>>
  <2>1. t[i] \in S
    OBVIOUS
  <2>2. <<t[i]>> \in Seq(S)
    BY <2>1
  <2> QED
    BY <2>2
<1>2. SubSeq(t, i, i) = one
  <2>1. SubSeq(t, i, i) = Append(<<>>, t[i])
    BY OneCharacter, Zenon
  <2>2. Append(<<>>, t[i]) = <<t[i]>>
    OBVIOUS
  <2> QED
    BY <1>1, <2>1, <2>2, Zenon
<1>3. Len(one) = 1
  BY <1>1
<1>4. w.word = one /\ w.len = 1
  BY <1>1
<1>5. i + w.len - 1 = i /\ w.len \in 1..i /\ i \in 1..i
  BY <1>4
<1>6. i + w.len - 1 <= i
  BY <1>5
<1>7. SubSeq(t, i, i + w.len - 1) = w.word
  BY <1>2, <1>4, <1>5, Zenon
<1>8. w.len = Len(w.word)
  BY <1>3, <1>4
<1> QED
  BY <1>5, <1>6, <1>7, <1>8, Zenon DEF GoesOnTo, PrintedAt

Grown(x, w, ch) == x = [word |-> Append(w.word, ch), len |-> w.len + 1]

LEMMA WordGrows ==
  ASSUME NEW S, NEW t \in Seq(S), NEW h \in Nat, NEW i \in 1..Len(t), Follows(i, h),
         NEW w \in [word : Seq(S), len : Nat], NEW b, GoesOnTo(w, t, b, h),
         NEW x, Grown(x, w, t[i])
  PROVE  GoesOnTo(x, t, b, i)
<1>1. PICK ch \in S : ch = t[i]
  OBVIOUS
<1>2. PICK word \in Seq(S), len \in Nat \ {0} : word = w.word /\ len = w.len /\ len = Len(word)
  BY DEF GoesOnTo, PrintedAt
<1>3. /\ b \in 1..h /\ len \in 1..h /\ b + len - 1 = h /\ SubSeq(t, b, b + len - 1) = word
  BY <1>2 DEF GoesOnTo, PrintedAt
<1>4. i = h + 1
  BY DEF Follows
<1>5. x.word = Append(word, ch) /\ x.len = len + 1
  BY <1>1, <1>2 DEF Grown
<1>6. Len(Append(word, ch)) = len + 1
  BY <1>2
<1>7. SubSeq(t, b, i) = Append(word, ch)
  <2>1. b \in Nat \ {0} /\ b <= h /\ h < Len(t)
    BY <1>3, <1>4
  <2>2. SubSeq(t, b, h + 1) = Append(SubSeq(t, b, h), t[h + 1])
    BY <2>1, SubSeqNext, Zenon
  <2>3. SubSeq(t, b, h) = word
    BY <1>3
  <2> QED
    BY <1>1, <1>4, <2>2, <2>3, Zenon
<1>8. /\ b \in 1..i /\ len + 1 \in 1..i /\ b + (len + 1) - 1 = i /\ b + (len + 1) - 1 <= i
  BY <1>3, <1>4
<1>9. SubSeq(t, b, b + x.len - 1) = x.word /\ x.len = Len(x.word)
  BY <1>5, <1>6, <1>7, <1>8, Zenon
<1>10. x.len \in 1..i /\ b + x.len - 1 = i /\ b + x.len - 1 <= i
  BY <1>5, <1>8
<1> QED
  BY <1>8, <1>9, <1>10, Zenon DEF GoesOnTo, PrintedAt

LEMMA WordEnds ==
  ASSUME NEW t, NEW h \in Nat, NEW i \in Nat, Follows(i, h), IsBlank(t[i]),
         NEW w, NEW b, GoesOnTo(w, t, b, h)
  PROVE  EndsBefore(w, t, b, i)
<1>1. PICK len \in 1..h : len = w.len
  BY DEF GoesOnTo, PrintedAt
<1>2. /\ b \in 1..h /\ b + len - 1 = h /\ len = Len(w.word) /\ SubSeq(t, b, b + len - 1) = w.word
  BY <1>1 DEF GoesOnTo, PrintedAt
<1>3. i = h + 1
  BY DEF Follows
<1>4. /\ b \in 1..i /\ len \in 1..i /\ b + len - 1 <= i /\ b + len = i /\ b + len <= i
  BY <1>2, <1>3
<1>5. IsBlank(t[b + len])
  BY <1>4
<1> QED
  BY <1>1, <1>2, <1>4, <1>5, Zenon DEF EndsBefore, PrintedAt

LEMMA WordStays ==
  ASSUME NEW t, NEW h \in Nat, NEW i \in Nat, Follows(i, h),
         NEW w, NEW b, EndsBefore(w, t, b, h)
  PROVE  EndsBefore(w, t, b, i)
<1>1. PICK len \in 1..h : len = w.len
  BY DEF EndsBefore, PrintedAt
<1>2. /\ b \in 1..h /\ b + len - 1 <= h /\ len = Len(w.word) /\ SubSeq(t, b, b + len - 1) = w.word
      /\ b + len <= h /\ IsBlank(t[b + len])
  BY <1>1 DEF EndsBefore, PrintedAt
<1>3. i = h + 1
  BY DEF Follows
<1>4. /\ b \in 1..i /\ len \in 1..i /\ b + len - 1 <= i /\ b + len <= i
  BY <1>2, <1>3
<1> QED
  BY <1>1, <1>2, <1>4, Zenon DEF EndsBefore, PrintedAt

\* What print_words() has done with the first i characters of a text.
WordAt(w, t, b, i, open) == IF open THEN GoesOnTo(w, t, b, i) ELSE EndsBefore(w, t, b, i)

PrintedTo(st, t, i) ==
  /\ st.in <=> (i > 0 /\ ~IsBlank(t[i]))
  /\ Len(st.out) = Len(InOrder(RunStarts(t), i))
  /\ \A k \in 1..Len(st.out) :
       WordAt(st.out[k], t, InOrder(RunStarts(t), i)[k], i, k = Len(st.out) /\ st.in)

CountedTo(c, st) == (c.in <=> st.in) /\ c.words = Len(st.out)

PrintsAre(st, W, out, in) ==
  out \in Seq(W) /\ in \in BOOLEAN /\ st = [out |-> out, in |-> in] /\ (in => Len(out) > 0)

LEMMA PrintsFields ==
  ASSUME NEW S, NEW st \in Prints(S), NEW W, W = [word : Seq(S), len : Nat]
  PROVE  PrintsAre(st, W, st.out, st.in)
<1>1. st \in [out : Seq(W), in : BOOLEAN] /\ (st.in => st.out # <<>>)
  BY DEF Prints, Printings
<1>2. PICK out \in Seq(W), in \in BOOLEAN : out = st.out /\ in = st.in /\ st = [out |-> out, in |-> in]
  BY <1>1
<1>3. in => Len(out) > 0
  BY <1>1, <1>2
<1> QED
  BY <1>2, <1>3, Zenon DEF PrintsAre

\* A blank ends the word before it.
LEMMA PrintedBlank ==
  ASSUME NEW S, NEW t \in Seq(S), NEW h \in Nat, NEW i \in 1..Len(t), Follows(i, h),
         NEW st \in Prints(S), PrintedTo(st, t, h), IsBlank(t[i])
  PROVE  PrintedTo(PrintStep(st, t, i), t, i)
<1>0. PICK W : W = [word : Seq(S), len : Nat]
  OBVIOUS
<1>1. PICK out \in Seq(W), in \in BOOLEAN : st = [out |-> out, in |-> in] /\ (in => Len(out) > 0)
  <2>1. PrintsAre(st, W, st.out, st.in)
    BY <1>0, PrintsFields
  <2> QED
    BY <2>1, Zenon DEF PrintsAre
<1>2. PrintStep(st, t, i) = [out |-> out, in |-> FALSE]
  BY <1>1 DEF PrintStep
<1>3. PICK r \in Seq(Nat) : r = InOrder(RunStarts(t), h)
  BY InOrderNext
<1>4. InOrder(RunStarts(t), i) = r
  <2>1. i \notin RunStarts(t)
    BY DEF RunStarts
  <2> QED
    BY <1>3, <2>1, InOrderNext DEF Include
<1>5. PICK l \in Nat : l = Len(out) /\ l = Len(r)
  BY <1>1, <1>3 DEF PrintedTo
<1>6. ASSUME NEW k \in 1..l PROVE EndsBefore(out[k], t, r[k], i)
  <2>1. WordAt(out[k], t, r[k], h, k = l /\ in)
    BY <1>1, <1>3, <1>5 DEF PrintedTo
  <2>2. CASE GoesOnTo(out[k], t, r[k], h)
    BY <2>2, WordEnds
  <2>3. CASE EndsBefore(out[k], t, r[k], h)
    BY <2>3, WordStays
  <2> QED
    BY <2>1, <2>2, <2>3 DEF WordAt
<1>7. PICK s2 : s2 = [out |-> out, in |-> FALSE]
  OBVIOUS
<1>8. s2.out = out /\ ~s2.in
  BY <1>7
<1>9. PrintedTo(s2, t, i)
  <2>1. s2.in <=> (i > 0 /\ ~IsBlank(t[i]))
    BY <1>8, Zenon
  <2>2. Len(s2.out) = Len(InOrder(RunStarts(t), i))
    BY <1>4, <1>5, <1>8, Zenon
  <2>3. ASSUME NEW k \in 1..Len(s2.out)
        PROVE  WordAt(s2.out[k], t, InOrder(RunStarts(t), i)[k], i, k = Len(s2.out) /\ s2.in)
    BY <1>4, <1>5, <1>6, <1>8, <2>3, Zenon DEF WordAt
  <2> QED
    BY <2>1, <2>2, <2>3, Zenon DEF PrintedTo
<1> QED
  BY <1>2, <1>7, <1>9, Zenon

\* Behind a blank, another character begins a word.
LEMMA PrintedStart ==
  ASSUME NEW S, NEW t \in Seq(S), NEW h \in Nat, NEW i \in 1..Len(t), Follows(i, h),
         NEW st \in Prints(S), PrintedTo(st, t, h), ~IsBlank(t[i]), ~st.in
  PROVE  PrintedTo(PrintStep(st, t, i), t, i)
<1>0. PICK W : W = [word : Seq(S), len : Nat]
  OBVIOUS
<1>1. PICK out \in Seq(W), in \in BOOLEAN : st = [out |-> out, in |-> in] /\ (in => Len(out) > 0)
  <2>1. PrintsAre(st, W, st.out, st.in)
    BY <1>0, PrintsFields
  <2> QED
    BY <2>1, Zenon DEF PrintsAre
<1>2. in = FALSE /\ i = h + 1 /\ i \in DOMAIN t
  BY <1>1 DEF Follows
<1>3. PICK w \in W : w = [word |-> <<t[i]>>, len |-> 1]
  <2>1. t[i] \in S
    OBVIOUS
  <2>2. <<t[i]>> \in Seq(S)
    BY <2>1
  <2> QED
    BY <1>0, <1>1, <2>2
<1>4. PrintStep(st, t, i) = [out |-> Append(out, w), in |-> TRUE]
  BY <1>1, <1>2, <1>3 DEF PrintStep
<1>5. PICK r \in Seq(Nat) : r = InOrder(RunStarts(t), h)
  BY InOrderNext
<1>6. InOrder(RunStarts(t), i) = Append(r, i)
  <2>1. i \in RunStarts(t)
    <3>1. i = 1 \/ IsBlank(t[i - 1])
      <4>1. ~(h > 0 /\ ~IsBlank(t[h]))
        BY <1>1, <1>2 DEF PrintedTo
      <4>2. h = i - 1 /\ (h = 0 \/ h > 0)
        BY <1>2
      <4>3. CASE h = 0
        BY <1>2, <4>3
      <4>4. CASE h > 0
        BY <4>1, <4>2, <4>4, Zenon
      <4> QED
        BY <4>2, <4>3, <4>4
    <3> QED
      BY <1>2, <3>1, Zenon DEF RunStarts
  <2> QED
    BY <1>5, <2>1, InOrderNext DEF Include
<1>7. PICK l \in Nat : l = Len(out) /\ l = Len(r)
  BY <1>1, <1>5 DEF PrintedTo
<1>8. ASSUME NEW k \in 1..l PROVE EndsBefore(out[k], t, r[k], i)
  <2>1. WordAt(out[k], t, r[k], h, k = l /\ in)
    BY <1>1, <1>5, <1>7 DEF PrintedTo
  <2>2. EndsBefore(out[k], t, r[k], h)
    BY <1>2, <2>1 DEF WordAt
  <2> QED
    BY <2>2, WordStays
<1>9. GoesOnTo(w, t, i, i)
  BY <1>3, WordBegins
<1>10. PICK o : o = Append(out, w)
  OBVIOUS
<1>11. PICK q : q = Append(r, i)
  OBVIOUS
<1>12. Appended(o, W, out, w, l) /\ Appended(q, Nat, r, i, l)
  <2>1. Appended(Append(out, w), W, out, w, l)
    BY <1>7, AppendFacts
  <2>2. i \in Nat
    OBVIOUS
  <2>3. Appended(Append(r, i), Nat, r, i, l)
    BY <1>7, <2>2, AppendFacts
  <2> QED
    BY <1>10, <1>11, <2>1, <2>3, Zenon
<1>13. PICK s2 : s2 = [out |-> o, in |-> TRUE]
  OBVIOUS
<1>14. s2.out = o /\ s2.in
  BY <1>13
<1>15. Len(o) = l + 1 /\ Len(q) = l + 1 /\ o[l + 1] = w /\ q[l + 1] = i
       /\ \A k \in 1..l : o[k] = out[k] /\ q[k] = r[k]
  BY <1>12, Zenon DEF Appended
<1>16. PrintedTo(s2, t, i)
  <2>1. s2.in <=> (i > 0 /\ ~IsBlank(t[i]))
    <3>1. i > 0
      OBVIOUS
    <3> QED
      BY <1>14, <3>1, Zenon
  <2>2. Len(s2.out) = Len(InOrder(RunStarts(t), i))
    BY <1>6, <1>11, <1>14, <1>15, Zenon
  <2>3. ASSUME NEW k \in 1..(l + 1) PROVE WordAt(o[k], t, q[k], i, k = l + 1)
    <3>1. CASE k = l + 1
      BY <1>9, <1>15, <3>1, Zenon DEF WordAt
    <3>2. CASE k # l + 1
      <4>1. k \in 1..l
        BY <3>2
      <4> QED
        BY <1>8, <1>15, <3>2, <4>1, Zenon DEF WordAt
    <3> QED
      BY <3>1, <3>2
  <2>4. ASSUME NEW k \in 1..Len(s2.out)
        PROVE  WordAt(s2.out[k], t, InOrder(RunStarts(t), i)[k], i, k = Len(s2.out) /\ s2.in)
    <3>1. k \in 1..(l + 1) /\ Len(s2.out) = l + 1 /\ s2.in /\ s2.out = o /\ InOrder(RunStarts(t), i) = q
      BY <1>6, <1>11, <1>14, <1>15, <2>4, Zenon
    <3>2. WordAt(o[k], t, q[k], i, k = l + 1)
      BY <2>3, <3>1
    <3> QED
      BY <3>1, <3>2, Zenon DEF WordAt
  <2> QED
    BY <2>1, <2>2, <2>4, Zenon DEF PrintedTo
<1> QED
  BY <1>4, <1>10, <1>13, <1>16, Zenon

\* Otherwise it goes on with the last word.
LEMMA PrintedMore ==
  ASSUME NEW S, NEW t \in Seq(S), NEW h \in Nat, NEW i \in 1..Len(t), Follows(i, h),
         NEW st \in Prints(S), PrintedTo(st, t, h), ~IsBlank(t[i]), st.in
  PROVE  PrintedTo(PrintStep(st, t, i), t, i)
<1>0. PICK W : W = [word : Seq(S), len : Nat]
  OBVIOUS
<1>1. PICK out \in Seq(W), in \in BOOLEAN : st = [out |-> out, in |-> in] /\ (in => Len(out) > 0)
  <2>1. PrintsAre(st, W, st.out, st.in)
    BY <1>0, PrintsFields
  <2> QED
    BY <2>1, Zenon DEF PrintsAre
<1>2. in /\ i = h + 1 /\ i \in DOMAIN t
  BY <1>1 DEF Follows
<1>3. PICK r \in Seq(Nat) : r = InOrder(RunStarts(t), h)
  BY InOrderNext
<1>4. InOrder(RunStarts(t), i) = r
  <2>1. i \notin RunStarts(t)
    <3>1. h > 0 /\ ~IsBlank(t[h])
      BY <1>1, <1>2 DEF PrintedTo
    <3>2. i # 1 /\ i - 1 = h
      BY <1>2, <3>1
    <3> QED
      BY <3>1, <3>2, Zenon DEF RunStarts
  <2> QED
    BY <1>3, <2>1, InOrderNext DEF Include
<1>5. PICK l \in Nat \ {0} : l = Len(out) /\ l = Len(r)
  BY <1>1, <1>2, <1>3 DEF PrintedTo
<1>6. PICK last \in W : last = out[l]
  <2>1. l \in 1..Len(out)
    BY <1>5
  <2>2. out[l] \in W
    BY <2>1
  <2> QED
    BY <2>2
<1>7. PICK w \in W : w = [word |-> Append(last.word, t[i]), len |-> last.len + 1]
  <2>1. PICK word \in Seq(S), len \in Nat : word = last.word /\ len = last.len
    BY <1>0
  <2>2. PICK ch \in S : ch = t[i]
    OBVIOUS
  <2>3. Append(word, ch) \in Seq(S) /\ len + 1 \in Nat
    OBVIOUS
  <2> QED
    BY <1>0, <2>1, <2>2, <2>3
<1>8. PICK o : o = [out EXCEPT ![l] = w]
  OBVIOUS
<1>9. o \in Seq(W) /\ Len(o) = l /\ o[l] = w /\ \A k \in 1..l : k # l => o[k] = out[k]
  <2>1. l \in 1..l /\ out \in [1..l -> W]
    <3>1. out \in [1..Len(out) -> W]
      OBVIOUS
    <3>2. l \in 1..l
      OBVIOUS
    <3> QED
      BY <1>5, <3>1, <3>2, Zenon
  <2>2. o \in [1..l -> W] /\ o[l] = w /\ \A k \in 1..l : k # l => o[k] = out[k]
    BY <1>8, <2>1
  <2>3. o \in Seq(W) /\ Len(o) = l
    BY <2>2
  <2> QED
    BY <2>2, <2>3
<1>10. PrintStep(st, t, i) = [out |-> o, in |-> TRUE]
  BY <1>1, <1>2, <1>5, <1>6, <1>7, <1>8 DEF PrintStep
<1>11. ASSUME NEW k \in 1..l, k # l PROVE EndsBefore(out[k], t, r[k], i)
  <2>1. WordAt(out[k], t, r[k], h, k = l /\ in)
    BY <1>1, <1>3, <1>5 DEF PrintedTo
  <2>2. EndsBefore(out[k], t, r[k], h)
    BY <1>11, <2>1 DEF WordAt
  <2> QED
    BY <2>2, WordStays
<1>12. GoesOnTo(w, t, r[l], i)
  <2>1. l \in 1..Len(out)
    BY <1>5
  <2>2. WordAt(last, t, r[l], h, l = l /\ in)
    BY <1>1, <1>3, <1>5, <1>6, <2>1 DEF PrintedTo
  <2>3. GoesOnTo(last, t, r[l], h)
    BY <1>2, <2>2, Zenon DEF WordAt
  <2>4. last \in [word : Seq(S), len : Nat]
    BY <1>0, Zenon
  <2>5. Grown(w, last, t[i])
    BY <1>7, Zenon DEF Grown
  <2>6. PICK b : b = r[l]
    OBVIOUS
  <2>7. GoesOnTo(last, t, b, h)
    BY <2>3, <2>6, Zenon
  <2>8. GoesOnTo(w, t, b, i)
    BY <2>4, <2>5, <2>7, WordGrows
  <2> QED
    BY <2>6, <2>8, Zenon
<1>13. PICK s2 : s2 = [out |-> o, in |-> TRUE]
  OBVIOUS
<1>14. s2.out = o /\ s2.in
  BY <1>13
<1>15. PrintedTo(s2, t, i)
  <2>1. s2.in <=> (i > 0 /\ ~IsBlank(t[i]))
    <3>1. i > 0
      OBVIOUS
    <3> QED
      BY <1>14, <3>1, Zenon
  <2>2. Len(s2.out) = Len(InOrder(RunStarts(t), i))
    BY <1>4, <1>5, <1>9, <1>14, Zenon
  <2>3. ASSUME NEW k \in 1..l PROVE WordAt(o[k], t, r[k], i, k = l)
    <3>1. CASE k = l
      BY <1>9, <1>12, <3>1, Zenon DEF WordAt
    <3>2. CASE k # l
      BY <1>9, <1>11, <3>2, Zenon DEF WordAt
    <3> QED
      BY <3>1, <3>2
  <2>4. ASSUME NEW k \in 1..Len(s2.out)
        PROVE  WordAt(s2.out[k], t, InOrder(RunStarts(t), i)[k], i, k = Len(s2.out) /\ s2.in)
    <3>1. k \in 1..l /\ Len(s2.out) = l /\ s2.in /\ s2.out = o /\ InOrder(RunStarts(t), i) = r
      BY <1>4, <1>9, <1>14, <2>4, Zenon
    <3>2. WordAt(o[k], t, r[k], i, k = l)
      BY <2>3, <3>1
    <3> QED
      BY <3>1, <3>2, Zenon DEF WordAt
  <2> QED
    BY <2>1, <2>2, <2>4, Zenon DEF PrintedTo
<1> QED
  BY <1>10, <1>13, <1>15, Zenon

LEMMA PrintedNext ==
  ASSUME NEW S, NEW t \in Seq(S), NEW h \in Nat, NEW i \in 1..Len(t), Follows(i, h),
         NEW st \in Prints(S), PrintedTo(st, t, h)
  PROVE  PrintedTo(PrintStep(st, t, i), t, i)
<1>1. CASE IsBlank(t[i])
  BY <1>1, PrintedBlank
<1>2. CASE ~IsBlank(t[i]) /\ ~st.in
  BY <1>2, PrintedStart
<1>3. CASE ~IsBlank(t[i]) /\ st.in
  BY <1>3, PrintedMore
<1> QED
  BY <1>1, <1>2, <1>3

\* -c counts what -w prints.
LEMMA CountedNext ==
  ASSUME NEW S, NEW st \in Prints(S), NEW c \in Counts, CountedTo(c, st), NEW buff, NEW i, buff[i] \in S
  PROVE  CountedTo(CountStep(c, buff, i), PrintStep(st, buff, i))
<1>1. PICK W : W = [word : Seq(S), len : Nat]
  OBVIOUS
<1>2. PICK out \in Seq(W), in \in BOOLEAN : st = [out |-> out, in |-> in] /\ (in => Len(out) > 0)
  <2>1. PrintsAre(st, W, st.out, st.in)
    BY <1>1, PrintsFields
  <2> QED
    BY <2>1, Zenon DEF PrintsAre
<1>3. PICK l \in Nat : l = Len(out)
  OBVIOUS
<1>4. c = [words |-> l, in |-> in]
  <2>1. PICK words \in Nat, inside \in BOOLEAN : c = [words |-> words, in |-> inside]
    BY DEF Counts
  <2>2. (inside <=> in) /\ words = l
    BY <1>2, <1>3, <2>1 DEF CountedTo
  <2> QED
    BY <2>1, <2>2
<1>5. CASE IsBlank(buff[i])
  <2>1. CountStep(c, buff, i) = [words |-> l, in |-> FALSE]
    BY <1>4, <1>5 DEF CountStep
  <2>2. PrintStep(st, buff, i) = [out |-> out, in |-> FALSE]
    BY <1>2, <1>5 DEF PrintStep
  <2> QED
    BY <1>3, <2>1, <2>2 DEF CountedTo
<1>6. CASE ~IsBlank(buff[i]) /\ ~in
  <2>1. CountStep(c, buff, i) = [words |-> l + 1, in |-> TRUE]
    BY <1>4, <1>6 DEF CountStep
  <2>2. PICK w \in W : w = [word |-> <<buff[i]>>, len |-> 1]
    <3>1. <<buff[i]>> \in Seq(S)
      OBVIOUS
    <3> QED
      BY <1>1, <3>1
  <2>3. PrintStep(st, buff, i) = [out |-> Append(out, w), in |-> TRUE]
    BY <1>2, <1>6, <2>2 DEF PrintStep
  <2>4. Len(Append(out, w)) = l + 1
    BY <1>3
  <2> QED
    BY <2>1, <2>3, <2>4 DEF CountedTo
<1>7. CASE ~IsBlank(buff[i]) /\ in
  <2>1. CountStep(c, buff, i) = [words |-> l, in |-> TRUE]
    BY <1>4, <1>7 DEF CountStep
  <2>2. PICK o : o = PrintStep(st, buff, i).out
    OBVIOUS
  <2>3. PrintStep(st, buff, i) = [out |-> [out EXCEPT ![l] = [word |-> Append(@.word, buff[i]), len |-> @.len + 1]], in |-> TRUE]
    BY <1>2, <1>3, <1>7 DEF PrintStep
  <2>4. Len([out EXCEPT ![l] = [word |-> Append(@.word, buff[i]), len |-> @.len + 1]]) = l
    <3>1. out \in [1..l -> W]
      BY <1>3
    <3>2. PICK w : w = [word |-> Append(out[l].word, buff[i]), len |-> out[l].len + 1]
      OBVIOUS
    <3>3. DOMAIN [out EXCEPT ![l] = w] = 1..l
      BY <3>1
    <3>4. PICK o2 : o2 = [out EXCEPT ![l] = w] /\ DOMAIN o2 = 1..l
      BY <3>3
    <3>5. o2 \in [1..l -> W \cup {w}]
      BY <3>1, <3>4
    <3>6. Len(o2) = l
      BY <3>5
    <3> QED
      BY <3>2, <3>4, <3>6
  <2> QED
    BY <2>1, <2>3, <2>4 DEF CountedTo
<1> QED
  BY <1>5, <1>6, <1>7

\* One text is the beginning of another.
Begins(u, v) == Len(u) <= Len(v) /\ \A j \in 1..Len(u) : v[j] = u[j]

LEMMA BeginsNext ==
  ASSUME NEW S, NEW u \in Seq(S), NEW v \in Seq(S), NEW c \in S, Begins(u, v)
  PROVE  Begins(u, Append(v, c))
<1>1. PICK l \in Nat, m \in Nat : l = Len(u) /\ m = Len(v) /\ l <= m
  BY DEF Begins
<1>2. PICK w : w = Append(v, c)
  OBVIOUS
<1>3. Appended(w, S, v, c, m)
  <2>1. Appended(Append(v, c), S, v, c, m)
    BY <1>1, AppendFacts
  <2> QED
    BY <1>2, <2>1, Zenon
<1>4. Len(w) = m + 1 /\ \A j \in 1..m : w[j] = v[j]
  BY <1>3, Zenon DEF Appended
<1>5. ASSUME NEW j \in 1..l PROVE w[j] = u[j]
  <2>1. j \in 1..m
    BY <1>1
  <2> QED
    BY <1>1, <1>4, <2>1 DEF Begins
<1> QED
  BY <1>1, <1>2, <1>4, <1>5 DEF Begins

\* What was kept so far is never changed.
LEMMA KeptBegins ==
  ASSUME NEW S, NEW t \in Seq(S), NEW n \in Nat, n = Len(t), NEW b, KeptSteps(b, S, t, n)
  PROVE  \A i \in 0..n : Begins(b[i], b[n])
<1>1. /\ b \in [0..n -> Seq(S)] /\ \A k \in 1..n : b[k] = KeptStep(b[k - 1], t, k)
  BY DEF KeptSteps
<1> DEFINE P == {m \in 0..n : \A i \in 0..m : Begins(b[i], b[m])}
<1>2. \A u \in Seq(S) : Begins(u, u)
  BY DEF Begins
<1>3. 0 \in P
  <2>1. b[0] \in Seq(S)
    BY <1>1
  <2>2. Begins(b[0], b[0])
    BY <1>2, <2>1
  <2>3. \A i \in 0..0 : i = 0
    OBVIOUS
  <2> QED
    BY <2>2, <2>3
<1>4. ASSUME NEW m \in 1..n, m - 1 \in P PROVE m \in P
  <2>1. PICK h \in 0..n : h = m - 1 /\ m = h + 1
    OBVIOUS
  <2>2. PICK v \in Seq(S) : v = b[h]
    BY <1>1
  <2>3. PICK w \in Seq(S) : w = b[m]
    <3>1. m \in 0..n
      OBVIOUS
    <3> QED
      BY <1>1, <3>1
  <2>4. PICK c \in S : c = t[m]
    OBVIOUS
  <2>5. w = v \/ w = Append(v, c)
    <3>1. w = KeptStep(v, t, m)
      BY <1>1, <2>1, <2>2, <2>3
    <3> QED
      BY <2>4, <3>1 DEF KeptStep
  <2>6. ASSUME NEW i \in 0..m PROVE Begins(b[i], b[m])
    <3>1. CASE i = m
      BY <1>2, <2>3, <3>1
    <3>2. CASE i # m
      <4>1. i \in 0..h
        BY <2>1, <3>2
      <4>2. Begins(b[i], v)
        BY <1>4, <2>1, <2>2, <4>1
      <4>3. PICK u \in Seq(S) : u = b[i]
        <5>1. i \in 0..n
          BY <2>1, <4>1
        <5> QED
          BY <1>1, <5>1
      <4>4. Begins(u, Append(v, c))
        BY <4>2, <4>3, BeginsNext
      <4> QED
        BY <2>3, <2>5, <4>2, <4>3, <4>4
    <3> QED
      BY <3>1, <3>2
  <2> QED
    BY <2>6
<1>5. \A m \in 0..n : m \in P
  <2> HIDE DEF P
  <2> QED
    BY <1>3, <1>4, UpTo
<1> QED
  BY <1>5

\* The three walks after i characters of the text.
InStep(b, p, c, t, i) ==
  /\ Len(b[i]) <= i
  /\ PrintedTo(p[Len(b[i])], t, i)
  /\ CountedTo(c[Len(b[i])], p[Len(b[i])])

\* A blank that is not kept ends no word.
LEMMA PrintedSame ==
  ASSUME NEW S, NEW t \in Seq(S), NEW h \in Nat, NEW i \in 1..Len(t), Follows(i, h),
         NEW st \in Prints(S), PrintedTo(st, t, h), h > 0, IsBlank(t[h]), IsBlank(t[i])
  PROVE  PrintedTo(st, t, i)
<1>1. PICK W : W = [word : Seq(S), len : Nat]
  OBVIOUS
<1>2. PICK out \in Seq(W), in \in BOOLEAN : st = [out |-> out, in |-> in] /\ (in => Len(out) > 0)
  <2>1. PrintsAre(st, W, st.out, st.in)
    BY <1>1, PrintsFields
  <2> QED
    BY <2>1, Zenon DEF PrintsAre
<1>3. ~in
  <2>1. ~st.in
    BY Zenon DEF PrintedTo
  <2>2. st.in = in
    BY <1>2
  <2>3. ~in
    BY <2>1, <2>2, Zenon
  <2> QED
    BY <2>3
<1>4. PrintStep(st, t, i) = st
  <2>1. PrintStep(st, t, i) = [out |-> out, in |-> FALSE]
    BY <1>2 DEF PrintStep
  <2>2. in = FALSE
    BY <1>2, <1>3
  <2> QED
    BY <1>2, <2>1, <2>2, Zenon
<1> QED
  BY <1>4, PrintedNext

LEMMA StepsAgree ==
  ASSUME NEW S, NEW t \in Seq(S), NEW n \in Nat, n = Len(t),
         NEW b, KeptSteps(b, S, t, n), NEW L \in Nat, L = Len(b[n]),
         NEW buff \in Seq(S), L <= Len(buff), \A j \in 1..L : buff[j] = b[n][j],
         NEW p, PrintSteps(p, S, buff, L), NEW c, CountSteps(c, buff, L),
         NEW i \in 1..n, NEW h \in 0..n, Follows(i, h), InStep(b, p, c, t, h)
  PROVE  InStep(b, p, c, t, i)
<1>1. /\ b \in [0..n -> Seq(S)] /\ \A k \in 1..n : b[k] = KeptStep(b[k - 1], t, k)
  BY DEF KeptSteps
<1>2. /\ p \in [0..L -> Prints(S)] /\ \A k \in 1..L : p[k] = PrintStep(p[k - 1], buff, k)
  BY DEF PrintSteps
<1>3. /\ c \in [0..L -> Counts] /\ \A k \in 1..L : c[k] = CountStep(c[k - 1], buff, k)
  BY DEF CountSteps
<1>4. i = h + 1 /\ i - 1 = h /\ h \in Nat /\ i \in 1..Len(t) /\ i \in 0..n
  BY DEF Follows
<1>5. PICK v \in Seq(S) : v = b[h]
  BY <1>1
<1>6. PICK w \in Seq(S) : w = b[i]
  BY <1>1, <1>4
<1>7. w = KeptStep(v, t, i)
  BY <1>1, <1>4, <1>5, <1>6
<1>8. Begins(v, b[n]) /\ Begins(w, b[n])
  BY <1>4, <1>5, <1>6, KeptBegins
<1>9. PICK l \in 0..L : l = Len(v)
  BY <1>8 DEF Begins
<1>10. PICK st \in Prints(S), ct \in Counts : st = p[l] /\ ct = c[l]
  BY <1>2, <1>3
<1>11. l <= h /\ PrintedTo(st, t, h) /\ CountedTo(ct, st)
  BY <1>5, <1>9, <1>10 DEF InStep
<1>12. CASE IsBlank(t[i]) /\ i > 1 /\ IsBlank(t[i - 1])
  <2>1. w = v
    BY <1>7, <1>12 DEF KeptStep
  <2>2. h > 0 /\ IsBlank(t[h])
    BY <1>4, <1>12
  <2>3. PrintedTo(st, t, i)
    BY <1>4, <1>11, <1>12, <2>2, PrintedSame
  <2>4. l <= i
    BY <1>4, <1>11
  <2> QED
    BY <1>6, <1>9, <1>10, <1>11, <2>1, <2>3, <2>4, Zenon DEF InStep
<1>13. CASE ~(IsBlank(t[i]) /\ i > 1 /\ IsBlank(t[i - 1]))
  <2>1. PICK ch \in S : ch = t[i]
    OBVIOUS
  <2>2. w = Append(v, ch)
    BY <1>7, <1>13, <2>1, Zenon DEF KeptStep
  <2>3. PICK m \in Nat : m = l + 1
    OBVIOUS
  <2>4. Len(w) = m /\ w[m] = ch
    BY <1>9, <2>2, <2>3
  <2>5. m \in 1..L /\ m - 1 = l /\ buff[m] = ch
    <3>1. m <= L /\ m \in 1..Len(w)
      BY <1>8, <2>3, <2>4 DEF Begins
    <3>2. b[n][m] = w[m]
      BY <1>8, <3>1 DEF Begins
    <3>3. m \in 1..L
      BY <2>3, <3>1
    <3> QED
      BY <2>3, <2>4, <3>2, <3>3
  <2>6. p[m] = PrintStep(st, buff, m) /\ c[m] = CountStep(ct, buff, m)
    BY <1>2, <1>3, <1>10, <2>5
  <2>7. PrintStep(st, buff, m) = PrintStep(st, t, i)
    BY <2>1, <2>5, Zenon DEF PrintStep
  <2>8. PrintedTo(p[m], t, i)
    <3>1. PrintedTo(PrintStep(st, t, i), t, i)
      BY <1>4, <1>11, PrintedNext
    <3> QED
      BY <2>6, <2>7, <3>1, Zenon
  <2>9. CountedTo(c[m], p[m])
    <3>1. buff[m] \in S
      BY <2>5
    <3>2. CountedTo(CountStep(ct, buff, m), PrintStep(st, buff, m))
      BY <1>11, <3>1, CountedNext
    <3> QED
      BY <2>6, <3>2, Zenon
  <2>10. m <= i
    BY <1>4, <1>11, <2>3
  <2> QED
    BY <1>6, <2>4, <2>8, <2>9, <2>10, Zenon DEF InStep
<1> QED
  BY <1>12, <1>13

LEMMA WalksAgree ==
  ASSUME NEW S, NEW t \in Seq(S), NEW n \in Nat, n = Len(t),
         NEW b, KeptSteps(b, S, t, n), NEW L \in Nat, L = Len(b[n]),
         NEW buff \in Seq(S), L <= Len(buff), \A j \in 1..L : buff[j] = b[n][j],
         NEW p, PrintSteps(p, S, buff, L), NEW c, CountSteps(c, buff, L)
  PROVE  InStep(b, p, c, t, n)
<1> DEFINE P == {i \in 0..n : InStep(b, p, c, t, i)}
<1>1. 0 \in P
  <2>1. b[0] = <<>> /\ Len(b[0]) = 0
    BY DEF KeptSteps
  <2>2. p[0] = [out |-> <<>>, in |-> FALSE] /\ c[0] = [words |-> 0, in |-> FALSE]
    BY DEF PrintSteps, CountSteps
  <2>3. p[0].out = <<>> /\ p[0].in = FALSE /\ c[0].words = 0 /\ c[0].in = FALSE
    BY <2>2
  <2>4. Len(<<>>) = 0 /\ 1..0 = {} /\ ~(0 > 0) /\ 0 <= 0 /\ 0 \in 0..n
    OBVIOUS
  <2>5. InOrder(RunStarts(t), 0) = <<>>
    BY InOrderNone
  <2>6. PrintedTo(p[0], t, 0)
    BY <2>3, <2>4, <2>5, Zenon DEF PrintedTo
  <2>7. CountedTo(c[0], p[0])
    BY <2>3, <2>4, Zenon DEF CountedTo
  <2> QED
    BY <2>1, <2>4, <2>6, <2>7, Zenon DEF InStep
<1>2. ASSUME NEW i \in 1..n, i - 1 \in P PROVE i \in P
  <2>1. PICK h \in 0..n : h = i - 1 /\ i = h + 1
    OBVIOUS
  <2>2. InStep(b, p, c, t, h) /\ Follows(i, h)
    BY <1>2, <2>1 DEF Follows
  <2>3. InStep(b, p, c, t, i)
    BY <2>2, StepsAgree, Zenon
  <2> QED
    BY <2>3
<1>3. \A i \in 0..n : i \in P
  <2> HIDE DEF P
  <2> QED
    BY <1>1, <1>2, UpTo
<1> QED
  BY <1>3

\* What setup_buff() leaves in the buffer: the text that was kept, and dots.
Filled(buff, kept) ==
  /\ buff \in Seq(Characters) /\ Len(buff) = BufSz
  /\ kept \in Seq(Characters) /\ Len(kept) <= BufSz
  /\ \A j \in 1..Len(kept) : buff[j] = kept[j]

LEMMA TakenType ==
  ASSUME NEW s \in Seq(Characters)
  PROVE  Taken(s) \in Seq(Characters) /\ Len(Taken(s)) <= BufSz
<1>1. PICK n \in Nat : n = IF Len(s) < BufSz THEN Len(s) ELSE BufSz
  BY BufSzAssumption
<1>2. n <= Len(s) /\ n <= BufSz
  BY <1>1, BufSzAssumption
<1>3. SubSeq(s, 1, n) \in Seq(Characters) /\ Len(SubSeq(s, 1, n)) = n
  BY <1>2
<1> QED
  BY <1>1, <1>2, <1>3 DEF Taken

LEMMA FilledUp ==
  ASSUME NEW kept \in Seq(Characters), Len(kept) <= BufSz,
         NEW buff, buff = [i \in 1..BufSz |-> IF i <= Len(kept) THEN kept[i] ELSE "dot"]
  PROVE  Filled(buff, kept)
<1>1. PICK l \in Nat : l = Len(kept) /\ l <= BufSz
  OBVIOUS
<1>2. "dot" \in Characters
  BY DEF Characters
<1>3. PICK e \in [1..l -> Characters] : e = kept
  BY <1>1
<1>4. buff = [i \in 1..BufSz |-> IF i <= l THEN e[i] ELSE "dot"]
  BY <1>1, <1>3
<1>5. buff \in [1..BufSz -> Characters]
  <2>1. ASSUME NEW i \in 1..BufSz PROVE (IF i <= l THEN e[i] ELSE "dot") \in Characters
    BY <1>2, <1>3, BufSzAssumption
  <2> QED
    BY <1>4, <2>1
<1>6. buff \in Seq(Characters) /\ Len(buff) = BufSz
  BY <1>5, BufSzAssumption
<1>7. \A j \in 1..l : j \in 1..BufSz /\ j <= l
  BY <1>1, BufSzAssumption
<1>8. \A j \in 1..l : buff[j] = kept[j]
  BY <1>3, <1>4, <1>7
<1> QED
  BY <1>1, <1>6, <1>8 DEF Filled

\* The option -r: the dots, which come first by then, are not printed.
LEMMA ReversedText ==
  ASSUME NEW buff, NEW kept, Filled(buff, kept)
  PROVE  print_reversed_words(reverse_buff(buff), Len(kept)) = Reverse(kept)
<1>1. PICK N \in Nat : N = BufSz
  BY BufSzAssumption
<1>2. PICK l \in Nat : l = Len(kept) /\ l <= N
  BY <1>1 DEF Filled
<1>3. PICK r : r = reverse_buff(buff)
  OBVIOUS
<1>4. r \in Seq(Characters) /\ Len(r) = N /\ \A i \in 1..N : r[i] = buff[N + 1 - i]
  <2>1. buff \in [1..N -> Characters]
    BY <1>1 DEF Filled
  <2>2. r = [i \in 1..N |-> buff[N + 1 - i]]
    BY <1>1, <1>3 DEF reverse_buff
  <2>3. \A i \in 1..N : N + 1 - i \in 1..N
    OBVIOUS
  <2>4. r \in [1..N -> Characters]
    BY <2>1, <2>2, <2>3
  <2>5. r \in Seq(Characters) /\ Len(r) = N
    BY <2>4
  <2> QED
    BY <2>2, <2>5
<1>5. PICK x \in Seq(Characters) : /\ x = print_reversed_words(r, l) /\ Len(x) = l
                                   /\ \A k \in 1..l : x[k] = r[N - l + k]
  <2>1. print_reversed_words(r, l) = SubSeq(r, N - l + 1, N)
    BY <1>1 DEF print_reversed_words
  <2>2. CASE l = 0
    <3>1. SubSeq(r, N - l + 1, N) = <<>>
      <4>1. SubSeq(r, N - l + 1, N) \in Seq(Characters) /\ Len(SubSeq(r, N - l + 1, N)) = 0
        BY <1>4, <2>2
      <4> QED
        <5>1. PICK e : e = SubSeq(r, N - l + 1, N)
          OBVIOUS
        <5>2. e \in Seq(Characters) /\ Len(e) \notin Nat \ {0}
          BY <4>1, <5>1
        <5>3. e = <<>>
          BY <5>2, EmptySeq
        <5> QED
          BY <5>1, <5>3, Zenon
    <3>2. PICK e \in Seq(Characters) : e = <<>> /\ Len(e) = 0
      <4>1. <<>> \in Seq(Characters) /\ Len(<<>>) = 0
        OBVIOUS
      <4> QED
        BY <4>1
    <3>3. 1..l = {}
      BY <2>2
    <3> QED
      BY <2>1, <2>2, <3>1, <3>2, <3>3
  <2>3. CASE l > 0
    <3>1. PICK b \in Nat \ {0} : b = N - l + 1 /\ b <= N /\ N <= Len(r)
      <4>1. N - l + 1 \in Nat \ {0} /\ N - l + 1 <= N
        BY <1>2, <2>3
      <4>2. N <= Len(r)
        BY <1>4
      <4> QED
        BY <4>1, <4>2
    <3>2. /\ SubSeq(r, b, N) \in Seq(Characters) /\ Len(SubSeq(r, b, N)) = N - b + 1
          /\ \A k \in 1..(N - b + 1) : SubSeq(r, b, N)[k] = r[b + k - 1]
      <4>1. r \in Seq(Characters) /\ b \in Nat \ {0} /\ N \in Nat /\ b <= N /\ N <= Len(r)
        BY <1>4, <3>1
      <4> QED
        BY <4>1, SubSeqFacts
    <3>3. PICK y \in Seq(Characters) : y = SubSeq(r, b, N)
      BY <3>2, Zenon
    <3>4. Len(y) = N - b + 1 /\ \A k \in 1..(N - b + 1) : y[k] = r[b + k - 1]
      BY <3>2, <3>3, Zenon
    <3>5. N - b + 1 = l /\ \A k \in 1..l : b + k - 1 = N - l + k
      BY <1>2, <3>1
    <3>6. Len(y) = l /\ \A k \in 1..l : y[k] = r[N - l + k]
      BY <3>4, <3>5
    <3> QED
      BY <2>1, <3>1, <3>3, <3>6, Zenon
  <2> QED
    BY <2>2, <2>3
<1>6. PICK y : y = Reverse(kept)
  OBVIOUS
<1>7. y \in Seq(Characters) /\ Len(y) = l /\ \A k \in 1..l : y[k] = kept[l - k + 1]
  <2>1. kept \in [1..l -> Characters]
    BY <1>2 DEF Filled
  <2>2. y = [i \in 1..l |-> kept[(l - i) + 1]]
    BY <1>2, <1>6 DEF Reverse
  <2>3. \A i \in 1..l : (l - i) + 1 \in 1..l
    OBVIOUS
  <2>4. y \in [1..l -> Characters]
    BY <2>1, <2>2, <2>3
  <2>5. y \in Seq(Characters) /\ Len(y) = l
    BY <2>4
  <2> QED
    BY <2>2, <2>5
<1>8. ASSUME NEW k \in 1..l PROVE x[k] = y[k]
  <2>1. N - l + k \in 1..N /\ N + 1 - (N - l + k) = l - k + 1 /\ l - k + 1 \in 1..l
    BY <1>2
  <2>2. x[k] = buff[l - k + 1]
    BY <1>4, <1>5, <2>1
  <2>3. buff[l - k + 1] = kept[l - k + 1]
    BY <1>2, <2>1 DEF Filled
  <2> QED
    BY <1>7, <2>2, <2>3
<1>9. x = y
  BY <1>5, <1>7, <1>8, SameSequence
<1> QED
  BY <1>2, <1>3, <1>5, <1>6, <1>9, Zenon

\* The words, their lengths and their number are those of the text taken.
WordsShown(shown, t, starts) ==
  /\ Len(shown) = Len(starts)
  /\ \A n \in DOMAIN shown :
       /\ shown[n].len = Len(shown[n].word)
       /\ SubSeq(t, starts[n], starts[n] + shown[n].len - 1) = shown[n].word
       /\ starts[n] + shown[n].len \in DOMAIN t => IsBlank(t[starts[n] + shown[n].len])

LEMMA WordsArePrinted ==
  ASSUME NEW t \in Seq(Characters), Len(t) <= BufSz, NEW buff,
         buff = [i \in 1..BufSz |-> IF i <= Len(Kept(t)) THEN Kept(t)[i] ELSE "dot"]
  PROVE  /\ Filled(buff, Kept(t))
         /\ count_words(buff, Len(Kept(t))) = Len(print_words(buff, Len(Kept(t))))
         /\ WordsShown(print_words(buff, Len(Kept(t))), t, InOrder(RunStarts(t), Len(t)))
<1>1. PICK n \in Nat : n = Len(t) /\ n <= BufSz
  OBVIOUS
<1>2. PICK b : KeptSteps(b, Characters, t, n)
  BY <1>1, KeptWalk
<1>3. PICK kept \in Seq(Characters) : kept = Kept(t) /\ kept = b[n]
  <2>1. b \in [0..n -> Seq(Characters)] /\ Kept(t) = b[n]
    BY <1>2 DEF KeptSteps
  <2> QED
    BY <2>1
<1>4. PICK L \in Nat : L = Len(kept)
  OBVIOUS
<1>5. L <= n
  <2> DEFINE P == {i \in 0..n : Len(b[i]) <= i}
  <2>1. b \in [0..n -> Seq(Characters)] /\ b[0] = <<>> /\ \A k \in 1..n : b[k] = KeptStep(b[k - 1], t, k)
    BY <1>2 DEF KeptSteps
  <2>2. 0 \in P
    BY <2>1
  <2>3. ASSUME NEW i \in 1..n, i - 1 \in P PROVE i \in P
    <3>1. PICK v \in Seq(Characters) : v = b[i - 1] /\ Len(v) <= i - 1
      <4>1. i - 1 \in 0..n
        OBVIOUS
      <4>2. b[i - 1] \in Seq(Characters)
        BY <2>1, <4>1
      <4> QED
        BY <2>3, <4>2
    <3>2. t[i] \in Characters
      BY <1>1
    <3>3. b[i] = v \/ b[i] = Append(v, t[i])
      <4>1. b[i] = KeptStep(v, t, i)
        BY <2>1, <3>1
      <4> QED
        BY <4>1, Zenon DEF KeptStep
    <3>4. Len(Append(v, t[i])) = Len(v) + 1
      BY <3>2
    <3>5. Len(b[i]) <= i
      BY <3>1, <3>3, <3>4
    <3> QED
      BY <3>5
  <2>4. \A i \in 0..n : i \in P
    <3> HIDE DEF P
    <3> QED
      BY <2>2, <2>3, UpTo
  <2> QED
    BY <1>3, <1>4, <2>4
<1>6. Filled(buff, kept)
  <2>1. Len(kept) <= BufSz
    BY <1>1, <1>4, <1>5, BufSzAssumption
  <2>2. buff = [i \in 1..BufSz |-> IF i <= Len(kept) THEN kept[i] ELSE "dot"]
    BY <1>3, Zenon
  <2> QED
    BY <2>1, <2>2, FilledUp
<1>7. buff \in Seq(Characters) /\ L <= Len(buff) /\ \A j \in 1..L : buff[j] = b[n][j]
  BY <1>3, <1>4, <1>6, Zenon DEF Filled
<1>8. PICK p : PrintSteps(p, Characters, buff, L)
  BY <1>7, PrintWalk
<1>9. PICK c : CountSteps(c, buff, L)
  BY <1>7, CountWalk
<1>10. InStep(b, p, c, t, n)
  <2>1. L = Len(b[n])
    BY <1>3, <1>4
  <2> QED
    BY <1>1, <1>2, <1>7, <1>8, <1>9, <2>1, WalksAgree
<1>11. print_words(buff, L) = p[L].out /\ count_words(buff, L) = c[L].words /\ p[L] \in Prints(Characters)
  <2>1. L \in 0..L
    OBVIOUS
  <2>2. p \in [0..L -> Prints(Characters)] /\ print_words(buff, L) = p[L].out
    BY <1>8 DEF PrintSteps
  <2>3. count_words(buff, L) = c[L].words
    BY <1>9 DEF CountSteps
  <2>4. p[L] \in Prints(Characters)
    BY <2>1, <2>2
  <2> QED
    BY <2>2, <2>3, <2>4
<1>12. PrintedTo(p[L], t, n) /\ CountedTo(c[L], p[L])
  BY <1>3, <1>4, <1>10, Zenon DEF InStep
<1>13. PICK W : W = [word : Seq(Characters), len : Nat]
  OBVIOUS
<1>14. PICK out \in Seq(W) : out = print_words(buff, L)
  <2>1. PrintsAre(p[L], W, p[L].out, p[L].in)
    BY <1>11, <1>13, PrintsFields
  <2> QED
    BY <1>11, <2>1, Zenon DEF PrintsAre
<1>15. count_words(buff, L) = Len(out)
  BY <1>11, <1>12, <1>14, Zenon DEF CountedTo
<1>16. PICK r : r = InOrder(RunStarts(t), n)
  OBVIOUS
<1>17. WordsShown(out, t, r)
  <2>1. Len(out) = Len(r)
    BY <1>11, <1>12, <1>14, <1>16, Zenon DEF PrintedTo
  <2>2. ASSUME NEW k \in DOMAIN out
        PROVE  /\ out[k].len = Len(out[k].word)
               /\ SubSeq(t, r[k], r[k] + out[k].len - 1) = out[k].word
               /\ r[k] + out[k].len \in DOMAIN t => IsBlank(t[r[k] + out[k].len])
    <3>1. k \in 1..Len(out)
      OBVIOUS
    <3>2. GoesOnTo(out[k], t, r[k], n) \/ EndsBefore(out[k], t, r[k], n)
      BY <1>11, <1>12, <1>14, <1>16, <3>1, Zenon DEF PrintedTo, WordAt
    <3>3. PrintedAt(out[k], t, r[k], n)
      BY <3>2, Zenon DEF GoesOnTo, EndsBefore
    <3>4. out[k].len = Len(out[k].word) /\ SubSeq(t, r[k], r[k] + out[k].len - 1) = out[k].word
      BY <3>3, Zenon DEF PrintedAt
    <3>5. r[k] + out[k].len \in DOMAIN t => IsBlank(t[r[k] + out[k].len])
      <4>1. CASE EndsBefore(out[k], t, r[k], n)
        BY <4>1, Zenon DEF EndsBefore
      <4>2. CASE GoesOnTo(out[k], t, r[k], n)
        <5>1. r[k] \in 1..n /\ out[k].len \in 1..n /\ r[k] + out[k].len - 1 = n
          BY <4>2, Zenon DEF GoesOnTo, PrintedAt
        <5>2. PICK x \in 1..n, y \in 1..n : x = r[k] /\ y = out[k].len /\ x + y - 1 = n
          BY <5>1, Zenon
        <5>3. x + y \notin 1..n
          BY <5>2
        <5>4. DOMAIN t = 1..n
          BY <1>1
        <5> QED
          BY <5>2, <5>3, <5>4, Zenon
      <4> QED
        BY <3>2, <4>1, <4>2
    <3> QED
      BY <3>4, <3>5, Zenon
  <2> QED
    BY <2>1, <2>2, Zenon DEF WordsShown
<1> QED
  BY <1>1, <1>3, <1>4, <1>6, <1>14, <1>15, <1>16, <1>17, Zenon

\* Whatever is typed and however long it is: -w prints the words that the buffer
\* of stringfun.c took, in order and with their lengths, -c their number, and -r the
\* text backwards, without the padding.
THEOREM PrintsWhatWasTyped == Spec => []PrintedAsTyped
<1>1. TextType => PrintedAsTyped
  <2>1. SUFFICES ASSUME TextType PROVE PrintedAsTyped
    OBVIOUS
  <2>2. PICK s \in Seq(Characters) : s = text
    BY <2>1 DEF TextType
  <2>3. PICK t \in Seq(Characters) : t = Taken(s) /\ Len(t) <= BufSz
    BY TakenType
  <2>4. PICK args : args = <<s>>
    OBVIOUS
  <2>5. args[1] = s /\ args # <<>>
    BY <2>4
  <2>6. PICK buff : buff = setup_buff(args[1]).buff
    OBVIOUS
  <2>7. PICK l : l = setup_buff(args[1]).len
    OBVIOUS
  <2>8. buff = [i \in 1..BufSz |-> IF i <= Len(Kept(t)) THEN Kept(t)[i] ELSE "dot"] /\ l = Len(Kept(t))
    BY <2>3, <2>5, <2>6, <2>7 DEF setup_buff
  <2>9. /\ Filled(buff, Kept(t)) /\ count_words(buff, l) = Len(print_words(buff, l))
        /\ WordsShown(print_words(buff, l), t, InOrder(RunStarts(t), Len(t)))
    BY <2>3, <2>8, WordsArePrinted
  <2>10. print_reversed_words(reverse_buff(buff), l) = Reverse(Kept(t))
    BY <2>8, <2>9, ReversedText
  <2>11. /\ main("w", args) = Exits(0, print_words(buff, l))
         /\ main("c", args) = Exits(0, count_words(buff, l))
         /\ main("r", args) = Exits(0, print_reversed_words(reverse_buff(buff), l))
    BY <2>5, <2>6, <2>7 DEF main
  <2>12. \A code, shown : Exits(code, shown).shown = shown
    BY DEF Exits
  <2>13. /\ main("w", <<text>>).shown = print_words(buff, l)
         /\ main("c", <<text>>).shown = count_words(buff, l)
         /\ main("r", <<text>>).shown = Reverse(Kept(t))
    BY <2>2, <2>4, <2>10, <2>11, <2>12, Zenon
  <2> QED
    BY <2>2, <2>3, <2>9, <2>13, Zenon DEF PrintedAsTyped, WordsShown
<1> QED
  BY <1>1, TextTypeInvariant, PTL

-----------------------------------------------------------------------------
(* What is replaced.                                                       *)

\* The target is at x of the buffer.
TargetAt(b, n, t, a, x) == x + a - 1 <= n /\ \A j \in 1..a : b[x + j - 1] = t[j]

TargetSeen(b, t, x) == x + Len(t) - 1 <= Len(b) /\ SubSeq(b, x, x + Len(t) - 1) = t

\* What Found() does: one place after the other, from the left.
FoundStep(c, b, t, x) ==
  IF TargetSeen(b, t, x) /\ \A j \in c : j + Len(t) <= x THEN c \cup {x} ELSE c

FoundWalk(g, b, t) == g = [x \in 0..Len(b) |-> IF x = 0 THEN {} ELSE FoundStep(g[x - 1], b, t, x)]

LEMMA FoundExists ==
  ASSUME NEW b, NEW n \in Nat, n = Len(b), NEW t
  PROVE  \E g : g \in [0..n -> SUBSET (1..n)] /\ FoundWalk(g, b, t)
<1>1. PICK Y : Y = SUBSET (1..n)
  OBVIOUS
<1>2. ASSUME NEW c \in Y, NEW x \in 1..n PROVE FoundStep(c, b, t, x) \in Y
  <2>1. c \in Y /\ c \cup {x} \in Y
    BY <1>1
  <2> QED
    BY <2>1, Zenon DEF FoundStep
<1>3. PICK step : step = [p \in Y \X (1..n) |-> FoundStep(p[1], b, t, p[2])]
  OBVIOUS
<1>4. /\ step \in [Y \X (1..n) -> Y]
      /\ \A c \in Y, x \in 1..n : step[<<c, x>>] = FoundStep(c, b, t, x)
  BY <1>2, <1>3
<1>5. PICK base \in Y : base = {}
  BY <1>1
<1>6. PICK g : \E it : Walks(g, n, Y, base, step, it)
  BY <1>4, WalkExists
<1>7. /\ g \in [0..n -> Y] /\ g[0] = base
      /\ \A x \in 1..n : g[x] = step[<<g[x - 1], x>>]
  BY <1>6, Zenon DEF Walks
<1>8. ASSUME NEW x \in 0..n
      PROVE  g[x] = IF x = 0 THEN {} ELSE FoundStep(g[x - 1], b, t, x)
  <2>1. CASE x = 0
    BY <1>5, <1>7, <2>1, Zenon
  <2>2. CASE x # 0
    <3>1. x \in 1..n /\ x - 1 \in 0..n
      BY <2>2
    <3>2. PICK c \in Y : c = g[x - 1]
      BY <1>7, <3>1
    <3>3. g[x] = step[<<c, x>>]
      BY <1>7, <3>1, <3>2, Zenon
    <3> QED
      BY <1>4, <2>2, <3>1, <3>2, <3>3, Zenon
  <2> QED
    BY <2>1, <2>2
<1>9. g = [x \in 0..n |-> g[x]]
  BY <1>7
<1>10. g = [x \in 0..n |-> IF x = 0 THEN {} ELSE FoundStep(g[x - 1], b, t, x)]
  BY <1>8, <1>9, Zenon
<1> QED
  BY <1>1, <1>7, <1>10, Zenon DEF FoundWalk

\* The recursive function of Found() is such a walk.
LEMMA FoundWalks ==
  ASSUME NEW b, NEW n \in Nat, n = Len(b), NEW t
  PROVE  \E g : FoundWalk(g, b, t) /\ Found(b, t) = g[n]
<1>1. PICK f : FoundWalk(f, b, t)
  BY FoundExists
<1>2. f = [x \in 0..Len(b) |-> IF x = 0 THEN {} ELSE FoundStep(f[x - 1], b, t, x)]
  BY <1>1, Zenon DEF FoundWalk
<1> DEFINE at == CHOOSE at : at = [x \in 0..Len(b) |-> IF x = 0 THEN {} ELSE FoundStep(at[x - 1], b, t, x)]
<1>3. at = [x \in 0..Len(b) |-> IF x = 0 THEN {} ELSE FoundStep(at[x - 1], b, t, x)]
  BY <1>2, Zenon
<1>4. Found(b, t) = at[Len(b)]
  BY ZenonT(60) DEF Found, FoundStep, TargetSeen
<1>5. \E g : /\ g = [x \in 0..Len(b) |-> IF x = 0 THEN {} ELSE FoundStep(g[x - 1], b, t, x)]
             /\ Found(b, t) = g[Len(b)]
  BY <1>3, <1>4, Zenon
<1> HIDE DEF at
<1> QED
  BY <1>5, Zenon DEF FoundWalk

LEMMA TargetFacts ==
  ASSUME NEW S, NEW b \in Seq(S), NEW t \in Seq(S), NEW n \in Nat, n = Len(b),
         NEW a \in Nat \ {0}, a = Len(t), NEW x \in 1..n
  PROVE  TargetSeen(b, t, x) <=> TargetAt(b, n, t, a, x)
<1>1. SUFFICES ASSUME x + a - 1 <= n
               PROVE  SubSeq(b, x, x + a - 1) = t <=> \A j \in 1..a : b[x + j - 1] = t[j]
  BY DEF TargetAt, TargetSeen
<1>2. PICK e \in Nat : e = x + a - 1 /\ x <= e /\ e <= Len(b) /\ e - x + 1 = a
  <2>1. x + a - 1 \in Nat /\ x <= x + a - 1 /\ (x + a - 1) - x + 1 = a
    OBVIOUS
  <2> QED
    BY <1>1, <2>1
<1>3. PICK w \in Seq(S) : w = SubSeq(b, x, e) /\ Len(w) = a /\ \A j \in 1..a : w[j] = b[x + j - 1]
  <2>1. /\ SubSeq(b, x, e) \in Seq(S) /\ Len(SubSeq(b, x, e)) = e - x + 1
        /\ \A j \in 1..(e - x + 1) : SubSeq(b, x, e)[j] = b[x + j - 1]
    BY <1>2, SubSeqFacts
  <2> QED
    BY <1>2, <2>1, Zenon
<1>4. w = t <=> \A j \in 1..a : w[j] = t[j]
  <2>1. ASSUME \A j \in 1..a : w[j] = t[j] PROVE w = t
    <3>1. w \in Seq(S) /\ t \in Seq(S) /\ a \in Nat /\ Len(w) = a /\ Len(t) = a
      BY <1>3
    <3> QED
      BY <2>1, <3>1, SameSequence
  <2> QED
    BY <2>1
<1> QED
  BY <1>2, <1>3, <1>4, Zenon

\* The places found are those where the target is, clear of the ones before.
FoundIn(F, b, n, t, a) ==
  /\ F \subseteq 1..n
  /\ \A x \in 1..n : x \in F <=> TargetAt(b, n, t, a, x) /\ \A j \in F : j < x => j + a <= x

LEMMA FoundFacts ==
  ASSUME NEW S, NEW b \in Seq(S), NEW t \in Seq(S), NEW n \in Nat, n = Len(b),
         NEW a \in Nat \ {0}, a = Len(t)
  PROVE  FoundIn(Found(b, t), b, n, t, a)
<1>1. PICK g : FoundWalk(g, b, t) /\ Found(b, t) = g[n]
  BY FoundWalks
<1>2. g[0] = {} /\ \A x \in 1..n : g[x] = FoundStep(g[x - 1], b, t, x)
  <2>1. g = [x \in 0..n |-> IF x = 0 THEN {} ELSE FoundStep(g[x - 1], b, t, x)]
    BY <1>1, Zenon DEF FoundWalk
  <2>2. \A x \in 0..n : g[x] = IF x = 0 THEN {} ELSE FoundStep(g[x - 1], b, t, x)
    BY <2>1, Zenon
  <2>3. 0 \in 0..n /\ \A x \in 1..n : x \in 0..n /\ x # 0
    OBVIOUS
  <2> QED
    BY <2>2, <2>3, Zenon
<1>3. ASSUME NEW x \in 1..n
      PROVE  \/ g[x] = g[x - 1] \cup {x} /\ TargetAt(b, n, t, a, x) /\ \A j \in g[x - 1] : j + a <= x
             \/ g[x] = g[x - 1] /\ ~(TargetAt(b, n, t, a, x) /\ \A j \in g[x - 1] : j + a <= x)
  <2>1. TargetSeen(b, t, x) <=> TargetAt(b, n, t, a, x)
    BY TargetFacts
  <2>2. g[x] = FoundStep(g[x - 1], b, t, x)
    BY <1>2
  <2> QED
    BY <2>1, <2>2, Zenon DEF FoundStep
<1> DEFINE P == {x \in 0..n : g[x] \subseteq 1..x}
<1>4. \A x \in 0..n : x \in P
  <2>1. 0 \in P
    BY <1>2
  <2>2. ASSUME NEW x \in 1..n, x - 1 \in P PROVE x \in P
    <3>1. g[x - 1] \subseteq 1..x
      <4>1. \A j \in 1..(x - 1) : j \in 1..x
        OBVIOUS
      <4> QED
        BY <2>2, <4>1
    <3>2. x \in 1..x
      OBVIOUS
    <3>3. g[x] \subseteq 1..x
      BY <1>3, <3>1, <3>2, Zenon
    <3> QED
      BY <3>3
  <2> QED
    <3> HIDE DEF P
    <3> QED
      BY <2>1, <2>2, UpTo
<1>5. PICK F : F = g[n]
  OBVIOUS
<1> DEFINE Q == {k \in 0..n : \A j \in 1..n : j <= n - k => (j \in F <=> j \in g[n - k])}
<1>6. \A k \in 0..n : k \in Q
  <2>1. 0 \in Q
    BY <1>5
  <2>2. ASSUME NEW k \in 1..n, k - 1 \in Q PROVE k \in Q
    <3>1. PICK x \in 1..n : x = n - (k - 1) /\ x - 1 = n - k
      <4>1. n - (k - 1) \in 1..n /\ (n - (k - 1)) - 1 = n - k
        OBVIOUS
      <4> QED
        BY <4>1
    <3>2. \A j \in 1..n : j <= x => (j \in F <=> j \in g[x])
      BY <2>2, <3>1
    <3>3. ASSUME NEW j \in 1..n, j <= x - 1 PROVE j \in F <=> j \in g[x - 1]
      <4>1. j <= x /\ j # x
        BY <3>3
      <4> QED
        BY <1>3, <3>2, <4>1
    <3> QED
      BY <3>1, <3>3
  <2> QED
    <3> HIDE DEF Q
    <3> QED
      BY <2>1, <2>2, UpTo
<1>7. ASSUME NEW x \in 0..n, NEW j \in 1..n
      PROVE  j \in g[x] <=> j \in F /\ j <= x
  <2>1. PICK k \in 0..n : k = n - x /\ n - k = x
    <3>1. n - x \in 0..n /\ n - (n - x) = x
      OBVIOUS
    <3> QED
      BY <3>1
  <2>2. j <= x => (j \in F <=> j \in g[x])
    BY <1>6, <2>1
  <2>3. j \in g[x] => j <= x
    BY <1>4
  <2> QED
    BY <2>2, <2>3
<1>8. F \subseteq 1..n
  <2>1. n \in P
    BY <1>4
  <2> QED
    BY <1>5, <2>1
<1>9. ASSUME NEW x \in 1..n
      PROVE  x \in F <=> TargetAt(b, n, t, a, x) /\ \A j \in F : j < x => j + a <= x
  <2>1. x \in 0..n /\ x - 1 \in 0..n /\ x \notin 1..(x - 1)
    OBVIOUS
  <2>2. x \in F <=> x \in g[x]
    BY <1>7, <2>1
  <2>3. x \notin g[x - 1]
    <3>1. g[x - 1] \subseteq 1..(x - 1)
      BY <1>4, <2>1
    <3> QED
      BY <2>1, <3>1
  <2>4. (\A j \in g[x - 1] : j + a <= x) <=> \A j \in F : j < x => j + a <= x
    <3>1. \A j \in 1..n : j \in g[x - 1] <=> j \in F /\ j <= x - 1
      BY <1>7, <2>1
    <3>2. g[x - 1] \subseteq 1..n
      <4>1. g[x - 1] \subseteq 1..(x - 1)
        BY <1>4, <2>1
      <4>2. \A j \in 1..(x - 1) : j \in 1..n
        OBVIOUS
      <4> QED
        BY <4>1, <4>2
    <3>3. \A j \in 1..n : j <= x - 1 <=> j < x
      OBVIOUS
    <3> QED
      BY <1>8, <3>1, <3>2, <3>3, Zenon
  <2> QED
    BY <1>3, <2>2, <2>3, <2>4, Zenon
<1> QED
  BY <1>1, <1>5, <1>8, <1>9, Zenon DEF FoundIn

FlattenWalk(f, q, n) ==
  n = Len(q) /\ f = [i \in 1..n |-> IF i = 1 THEN q[i] ELSE f[i - 1] \o q[i]]

\* A recursive function that satisfies the equation of FlattenSeq() is the one it takes.
LEMMA Flattens ==
  ASSUME NEW q, NEW n \in Nat \ {0}, NEW f, FlattenWalk(f, q, n)
  PROVE  FlattenSeq(q) = f[n]
<1> DEFINE flatten == CHOOSE flatten :
                        flatten = [i \in 1..Len(q) |-> IF i = 1 THEN q[i] ELSE flatten[i - 1] \o q[i]]
<1>1. flatten = [i \in 1..Len(q) |-> IF i = 1 THEN q[i] ELSE flatten[i - 1] \o q[i]]
  <2>1. f = [i \in 1..Len(q) |-> IF i = 1 THEN q[i] ELSE f[i - 1] \o q[i]]
    BY Zenon DEF FlattenWalk
  <2> QED
    BY <2>1, Zenon
<1>2. FlattenSeq(q) = flatten[Len(q)]
  <2>1. Len(q) # 0
    BY DEF FlattenWalk
  <2> QED
    BY <2>1, ZenonT(60) DEF FlattenSeq
<1>3. PICK g : /\ g = [i \in 1..Len(q) |-> IF i = 1 THEN q[i] ELSE g[i - 1] \o q[i]]
               /\ FlattenSeq(q) = g[Len(q)]
  BY <1>1, <1>2, Zenon
<1> HIDE DEF flatten
<1>4. /\ \A i \in 1..n : g[i] = IF i = 1 THEN q[i] ELSE g[i - 1] \o q[i]
      /\ \A i \in 1..n : f[i] = IF i = 1 THEN q[i] ELSE f[i - 1] \o q[i]
  <2>1. \A i \in 1..n : g[i] = IF i = 1 THEN q[i] ELSE g[i - 1] \o q[i]
    BY <1>3, Zenon DEF FlattenWalk
  <2>2. \A i \in 1..n : f[i] = IF i = 1 THEN q[i] ELSE f[i - 1] \o q[i]
    BY Zenon DEF FlattenWalk
  <2> QED
    BY <2>1, <2>2
<1> DEFINE P == {k \in 0..n : k = 0 \/ g[k] = f[k]}
<1>5. \A k \in 0..n : k \in P
  <2>1. 0 \in P
    OBVIOUS
  <2>2. ASSUME NEW k \in 1..n, k - 1 \in P PROVE k \in P
    <3>1. CASE k = 1
      <4>1. g[k] = f[k]
        BY <1>4, <3>1, Zenon
      <4> QED
        BY <4>1
    <3>2. CASE k # 1
      <4>1. k - 1 # 0
        BY <3>2
      <4>2. g[k - 1] = f[k - 1]
        BY <2>2, <4>1, Zenon
      <4>3. g[k] = g[k - 1] \o q[k] /\ f[k] = f[k - 1] \o q[k]
        BY <1>4, <3>2, Zenon
      <4>4. g[k] = f[k]
        BY <4>2, <4>3, Zenon
      <4> QED
        BY <4>4
    <3> QED
      BY <3>1, <3>2
  <2> QED
    <3> HIDE DEF P
    <3> QED
      BY <2>1, <2>2, UpTo
<1>6. n \in 0..n /\ n # 0
  OBVIOUS
<1>7. g[n] = f[n]
  BY <1>5, <1>6, Zenon
<1> QED
  BY <1>3, <1>7, Zenon DEF FlattenWalk

\* What Replaced() puts for each place, also for those behind the buffer.
Source(b, n, x) == IF x <= n THEN b[x] ELSE Junk
Covered(F, a, x) == \E j \in F : j < x /\ x < j + a
PieceAt(b, n, F, a, r, x) ==
  IF x \in F THEN r ELSE IF Covered(F, a, x) THEN <<>> ELSE <<Source(b, n, x)>>

\* The pieces up to each place, one after the other.
PutPieces(p, T, m, b, n, F, a, r) ==
  /\ p \in [0..m -> Seq(T)] /\ p[0] = <<>>
  /\ \A x \in 1..m : p[x] = p[x - 1] \o PieceAt(b, n, F, a, r, x)

LEMMA PieceType ==
  ASSUME NEW T, Junk \in T, NEW n \in Nat, NEW b \in [1..n -> T], NEW F, NEW a, NEW r \in Seq(T),
         NEW x \in Nat \ {0}
  PROVE  PieceAt(b, n, F, a, r, x) \in Seq(T)
<1>1. PICK c \in T : c = Source(b, n, x)
  <2>1. CASE x <= n
    <3>1. x \in 1..n
      BY <2>1
    <3> QED
      BY <2>1, <3>1 DEF Source
  <2>2. CASE ~(x <= n)
    BY <2>2 DEF Source
  <2> QED
    BY <2>1, <2>2
<1>2. <<c>> \in Seq(T) /\ <<>> \in Seq(T)
  OBVIOUS
<1> QED
  BY <1>1, <1>2, Zenon DEF PieceAt

LEMMA PiecesExist ==
  ASSUME NEW T, Junk \in T, NEW n \in Nat, NEW b \in [1..n -> T], NEW F, NEW a, NEW r \in Seq(T),
         NEW m \in Nat
  PROVE  \E p : PutPieces(p, T, m, b, n, F, a, r)
<1>1. PICK Y : Y = Seq(T)
  OBVIOUS
<1>2. ASSUME NEW c \in Y, NEW x \in 1..m PROVE c \o PieceAt(b, n, F, a, r, x) \in Y
  <2>1. PICK w \in Seq(T) : w = PieceAt(b, n, F, a, r, x)
    <3>1. x \in Nat \ {0}
      OBVIOUS
    <3> QED
      BY <3>1, PieceType
  <2>2. c \o w \in Seq(T)
    BY <1>1
  <2> QED
    BY <1>1, <2>1, <2>2, Zenon
<1>3. PICK step : step = [p \in Y \X (1..m) |-> p[1] \o PieceAt(b, n, F, a, r, p[2])]
  OBVIOUS
<1>4. /\ step \in [Y \X (1..m) -> Y]
      /\ \A c \in Y, x \in 1..m : step[<<c, x>>] = c \o PieceAt(b, n, F, a, r, x)
  <2>1. \A c \in Y, x \in 1..m : c \o PieceAt(b, n, F, a, r, x) \in Y
    BY <1>2, Zenon
  <2> QED
    BY <1>3, <2>1
<1>5. PICK base \in Y : base = <<>>
  <2>1. <<>> \in Y
    BY <1>1
  <2> QED
    BY <2>1
<1>6. PICK p : \E it : Walks(p, m, Y, base, step, it)
  BY <1>4, WalkExists
<1>7. /\ p \in [0..m -> Y] /\ p[0] = base
      /\ \A x \in 1..m : p[x] = step[<<p[x - 1], x>>]
  BY <1>6, Zenon DEF Walks
<1>8. ASSUME NEW x \in 1..m PROVE p[x] = p[x - 1] \o PieceAt(b, n, F, a, r, x)
  <2>1. x - 1 \in 0..m
    OBVIOUS
  <2>2. PICK c \in Y : c = p[x - 1]
    BY <1>7, <2>1
  <2> QED
    BY <1>4, <1>7, <2>2, Zenon
<1> QED
  BY <1>1, <1>5, <1>7, <1>8, Zenon DEF PutPieces

\* Replaced() is what is put up to the end of the buffer.
LEMMA ReplacedPieces ==
  ASSUME NEW T, NEW n \in Nat \ {0}, NEW b \in [1..n -> T], NEW t, NEW r \in Seq(T),
         NEW m \in Nat, n <= m, NEW p, PutPieces(p, T, m, b, n, Found(b, t), Len(t), r), Junk \in T
  PROVE  Replaced(b, t, r) = p[n]
<1>0. PICK F, a : F = Found(b, t) /\ a = Len(t) /\ PutPieces(p, T, m, b, n, F, a, r)
  OBVIOUS
<1>1. DOMAIN b = 1..n
  OBVIOUS
<1>2. PICK q : q = [x \in 1..n |-> PieceAt(b, n, F, a, r, x)]
  OBVIOUS
<1>3. Replaced(b, t, r) = FlattenSeq(q)
  <2>1. ASSUME NEW x \in 1..n
        PROVE  PieceAt(b, n, F, a, r, x) =
                 IF x \in F THEN r ELSE IF \E j \in F : j < x /\ x < j + a THEN <<>> ELSE <<b[x]>>
    <3>1. Source(b, n, x) = b[x]
      BY DEF Source
    <3> QED
      BY <3>1, Zenon DEF PieceAt, Covered
  <2>2. q = [x \in 1..n |->
               IF x \in F THEN r ELSE IF \E j \in F : j < x /\ x < j + a THEN <<>> ELSE <<b[x]>>]
    BY <1>2, <2>1, Zenon
  <2>3. q = [x \in DOMAIN b |->
               IF x \in Found(b, t) THEN r
               ELSE IF \E j \in Found(b, t) : j < x /\ x < j + Len(t) THEN <<>> ELSE <<b[x]>>]
    BY <1>0, <1>1, <2>2, Zenon
  <2> QED
    BY <2>3, ZenonT(60) DEF Replaced
<1>4. /\ p \in [0..m -> Seq(T)] /\ p[0] = <<>>
      /\ \A x \in 1..m : p[x] = p[x - 1] \o PieceAt(b, n, F, a, r, x)
  BY <1>0, Zenon DEF PutPieces
<1>5. ASSUME NEW x \in 1..n
      PROVE  p[x] = IF x = 1 THEN q[x] ELSE p[x - 1] \o q[x]
  <2>1. x \in 1..m
    OBVIOUS
  <2>2. PICK w \in Seq(T) : w = q[x] /\ w = PieceAt(b, n, F, a, r, x)
    <3>1. x \in Nat \ {0}
      OBVIOUS
    <3>2. PieceAt(b, n, F, a, r, x) \in Seq(T)
      BY <3>1, PieceType
    <3>3. q[x] = PieceAt(b, n, F, a, r, x)
      BY <1>2, Zenon
    <3> QED
      BY <3>2, <3>3, Zenon
  <2>3. p[x] = p[x - 1] \o w
    BY <1>4, <2>1, <2>2, Zenon
  <2>4. CASE x = 1
    <3>1. x - 1 = 0
      BY <2>4
    <3>2. <<>> \o w = w
      BY ConcatEmptySeq
    <3> QED
      BY <1>4, <2>2, <2>3, <2>4, <3>1, <3>2, Zenon
  <2> QED
    BY <2>2, <2>3, <2>4, Zenon
<1>6. PICK f : f = [x \in 1..n |-> p[x]]
  OBVIOUS
<1>7. f = [x \in 1..n |-> IF x = 1 THEN q[x] ELSE f[x - 1] \o q[x]]
  <2>1. ASSUME NEW x \in 1..n
        PROVE  f[x] = IF x = 1 THEN q[x] ELSE f[x - 1] \o q[x]
    <3>1. CASE x = 1
      BY <1>5, <1>6, <3>1, Zenon
    <3>2. CASE x # 1
      <4>1. x - 1 \in 1..n
        BY <3>2
      <4>2. f[x - 1] = p[x - 1] /\ f[x] = p[x]
        BY <1>6, <4>1, Zenon
      <4> QED
        BY <1>5, <3>2, <4>2, Zenon
    <3> QED
      BY <3>1, <3>2
  <2>2. f = [x \in 1..n |-> f[x]]
    BY <1>6
  <2> QED
    BY <2>1, <2>2, Zenon
<1>8. n = Len(q)
  <2>1. q = [x \in 1..n |-> q[x]]
    BY <1>2
  <2>2. PICK Y : Y = {q[k] : k \in 1..n}
    OBVIOUS
  <2>3. q \in [1..n -> Y]
    BY <2>1, <2>2
  <2>4. PICK s \in [1..n -> Y] : s = q
    BY <2>3
  <2>5. Len(s) = n
    OBVIOUS
  <2> QED
    BY <2>4, <2>5
<1>9. FlattenSeq(q) = f[n]
  <2>1. FlattenWalk(f, q, n)
    BY <1>7, <1>8, Zenon DEF FlattenWalk
  <2> QED
    BY <2>1, Flattens, Zenon
<1>10. f[n] = p[n]
  <2>1. n \in 1..n
    OBVIOUS
  <2> QED
    BY <1>6, <2>1, Zenon
<1> QED
  BY <1>3, <1>9, <1>10, Zenon

\* A sequence that goes on, and one that goes on with another.
Beginning(v, w) == Len(v) <= Len(w) /\ \A k \in 1..Len(v) : w[k] = v[k]

GoesOnWith(v, w, c) ==
  /\ Len(w) = Len(v) + Len(c)
  /\ \A k \in 1..Len(v) : w[k] = v[k]
  /\ \A k \in 1..Len(c) : w[Len(v) + k] = c[k]

LEMMA Concatenated ==
  ASSUME NEW T, NEW v \in Seq(T), NEW c \in Seq(T), NEW w, w = v \o c
  PROVE  GoesOnWith(v, w, c) /\ Beginning(v, w)
<1>1. PICK l \in Nat, h \in Nat : l = Len(v) /\ h = Len(c)
  OBVIOUS
<1>2. Len(w) = l + h /\ \A k \in 1..(l + h) : w[k] = IF k <= l THEN v[k] ELSE c[k - l]
  BY <1>1, ConcatProperties
<1>3. ASSUME NEW k \in 1..l PROVE w[k] = v[k]
  <2>1. k \in 1..(l + h) /\ k <= l
    OBVIOUS
  <2> QED
    BY <1>2, <2>1, Zenon
<1>4. ASSUME NEW k \in 1..h PROVE w[l + k] = c[k]
  <2>1. l + k \in 1..(l + h) /\ ~(l + k <= l) /\ (l + k) - l = k
    OBVIOUS
  <2> QED
    BY <1>2, <2>1, Zenon
<1>5. l <= Len(w)
  BY <1>2
<1> QED
  BY <1>1, <1>2, <1>3, <1>4, <1>5, Zenon DEF GoesOnWith, Beginning

LEMMA BeginsItself ==
  ASSUME NEW T, NEW v \in Seq(T)
  PROVE  Beginning(v, v)
BY DEF Beginning

LEMMA BeginningOfBeginning ==
  ASSUME NEW T, NEW u \in Seq(T), NEW v \in Seq(T), NEW w \in Seq(T),
         Beginning(u, v), Beginning(v, w)
  PROVE  Beginning(u, w)
<1>1. PICK l \in Nat, h \in Nat, z \in Nat : l = Len(u) /\ h = Len(v) /\ z = Len(w)
  OBVIOUS
<1>2. l <= h /\ h <= z
  BY <1>1 DEF Beginning
<1>3. \A k \in 1..l : k \in 1..h
  BY <1>2
<1>4. \A k \in 1..l : w[k] = u[k]
  BY <1>1, <1>3, Zenon DEF Beginning
<1>5. l <= z
  BY <1>2
<1> QED
  BY <1>1, <1>4, <1>5, Zenon DEF Beginning

\* Everything that is put: a buffer of n characters, the places found in it, the
\* pieces for them, and for places behind the buffer.
Setting(p, T, m, b, n, F, t, a, r) ==
  /\ Junk \in T
  /\ n \in Nat \ {0} /\ a \in 1..n /\ m \in Nat /\ n <= m
  /\ b \in [1..n -> T] /\ r \in Seq(T)
  /\ FoundIn(F, b, n, t, a)
  /\ PutPieces(p, T, m, b, n, F, a, r)

LEMMA PutNext ==
  ASSUME NEW p, NEW T, NEW m, NEW b, NEW n, NEW F, NEW t, NEW a, NEW r,
         Setting(p, T, m, b, n, F, t, a, r), NEW x \in 1..m
  PROVE  /\ p[x - 1] \in Seq(T) /\ p[x] \in Seq(T) /\ PieceAt(b, n, F, a, r, x) \in Seq(T)
         /\ GoesOnWith(p[x - 1], p[x], PieceAt(b, n, F, a, r, x)) /\ Beginning(p[x - 1], p[x])
<1>1. /\ Junk \in T
      /\ n \in Nat \ {0} /\ m \in Nat
      /\ b \in [1..n -> T] /\ r \in Seq(T)
  BY Zenon DEF Setting
<1>2. p \in [0..m -> Seq(T)] /\ p[x] = p[x - 1] \o PieceAt(b, n, F, a, r, x)
  BY Zenon DEF Setting, PutPieces
<1>3. x \in Nat \ {0} /\ x - 1 \in 0..m /\ x \in 0..m
  BY <1>1
<1>4. PICK c \in Seq(T) : c = PieceAt(b, n, F, a, r, x)
  <2>1. PieceAt(b, n, F, a, r, x) \in Seq(T)
    <3>1. n \in Nat
      BY <1>1
    <3> QED
      BY <1>1, <1>3, <3>1, PieceType
  <2> QED
    BY <2>1
<1>5. PICK v \in Seq(T), w \in Seq(T) : v = p[x - 1] /\ w = p[x]
  BY <1>2, <1>3
<1>6. w = v \o c
  BY <1>2, <1>4, <1>5, Zenon
<1>7. GoesOnWith(v, w, c) /\ Beginning(v, w)
  BY <1>6, Concatenated
<1> QED
  BY <1>4, <1>5, <1>7, Zenon

\* What is put up to a place stays.
LEMMA PutStays ==
  ASSUME NEW p, NEW T, NEW m, NEW b, NEW n, NEW F, NEW t, NEW a, NEW r,
         Setting(p, T, m, b, n, F, t, a, r), NEW x \in 0..m, NEW z \in 0..m, x <= z
  PROVE  Beginning(p[x], p[z])
<1>1. m \in Nat
  BY Zenon DEF Setting
<1>2. p \in [0..m -> Seq(T)]
  BY Zenon DEF Setting, PutPieces
<1> DEFINE P == {k \in 0..m : x <= k => Beginning(p[x], p[k])}
<1>3. Beginning(p[x], p[x])
  <2>1. p[x] \in Seq(T)
    BY <1>2
  <2> QED
    BY <2>1, BeginsItself
<1>4. 0 \in P
  <2>1. x <= 0 => x = 0
    OBVIOUS
  <2>2. 0 \in 0..m
    BY <1>1
  <2> QED
    BY <1>3, <2>1, <2>2
<1>5. ASSUME NEW k \in 1..m, k - 1 \in P PROVE k \in P
  <2>1. SUFFICES ASSUME x <= k PROVE Beginning(p[x], p[k])
    OBVIOUS
  <2>2. CASE x = k
    BY <1>3, <2>2, Zenon
  <2>3. CASE x # k
    <3>1. x <= k - 1 /\ k - 1 \in 0..m /\ k \in 0..m
      BY <1>1, <2>1, <2>3
    <3>2. Beginning(p[x], p[k - 1])
      BY <1>5, <3>1
    <3>3. Beginning(p[k - 1], p[k])
      BY PutNext
    <3>4. p[x] \in Seq(T) /\ p[k - 1] \in Seq(T) /\ p[k] \in Seq(T)
      BY <1>2, <3>1
    <3> QED
      BY <3>2, <3>3, <3>4, BeginningOfBeginning
  <2> QED
    BY <2>2, <2>3
<1>6. \A k \in 0..m : k \in P
  <2> HIDE DEF P
  <2> QED
    BY <1>1, <1>4, <1>5, UpTo
<1> QED
  BY <1>6

\* No place before x reaches it.
Clear(F, a, x) == \A j \in F : j < x => j + a <= x

LEMMA PutOne ==
  ASSUME NEW p, NEW T, NEW m, NEW b, NEW n, NEW F, NEW t, NEW a, NEW r,
         Setting(p, T, m, b, n, F, t, a, r), NEW x \in 1..m, x \notin F, Clear(F, a, x)
  PROVE  /\ Len(p[x]) = Len(p[x - 1]) + 1 /\ Beginning(p[x - 1], p[x])
         /\ p[x][Len(p[x])] = Source(b, n, x)
<1>1. n \in Nat \ {0} /\ a \in 1..n /\ F \subseteq 1..n
  BY Zenon DEF Setting, FoundIn
<1>2. ~Covered(F, a, x)
  <2>1. \A j \in F : j < x => ~(x < j + a)
    <3>1. \A j \in F : j \in Nat /\ (j < x => j + a <= x)
      BY <1>1 DEF Clear
    <3>2. a \in Nat /\ x \in Nat
      BY <1>1
    <3> QED
      BY <3>1, <3>2
  <2> QED
    BY <2>1, Zenon DEF Covered
<1>3. PICK v \in Seq(T), w \in Seq(T), c \in Seq(T) :
        /\ v = p[x - 1] /\ w = p[x] /\ c = PieceAt(b, n, F, a, r, x)
        /\ GoesOnWith(v, w, c) /\ Beginning(v, w)
  BY PutNext, Zenon
<1>4. c = <<Source(b, n, x)>>
  BY <1>2, <1>3, Zenon DEF PieceAt
<1>5. Len(c) = 1 /\ c[1] = Source(b, n, x)
  BY <1>4
<1>6. PICK l \in Nat : l = Len(v)
  OBVIOUS
<1>7. Len(w) = l + 1 /\ w[l + 1] = Source(b, n, x)
  <2>1. 1 \in 1..1
    OBVIOUS
  <2> QED
    BY <1>3, <1>5, <1>6, <2>1, Zenon DEF GoesOnWith
<1> QED
  BY <1>3, <1>6, <1>7, Zenon

\* For a place found the replacement is put, and nothing for the rest of the target.
LEMMA PutReplacement ==
  ASSUME NEW p, NEW T, NEW m, NEW b, NEW n, NEW F, NEW t, NEW a, NEW r,
         Setting(p, T, m, b, n, F, t, a, r), NEW x \in F
  PROVE  GoesOnWith(p[x - 1], p[x + a - 1], r)
<1>1. n \in Nat \ {0} /\ a \in 1..n /\ F \subseteq 1..n /\ m \in Nat /\ n <= m
  BY Zenon DEF Setting, FoundIn
<1>2. x \in 1..n /\ x \in 1..m
  BY <1>1
<1>3. TargetAt(b, n, t, a, x)
  BY <1>2, Zenon DEF Setting, FoundIn
<1>4. x + a - 1 <= n
  BY <1>3, Zenon DEF TargetAt
<1>5. p \in [0..m -> Seq(T)]
  BY Zenon DEF Setting, PutPieces
<1>6. GoesOnWith(p[x - 1], p[x], r)
  <2>1. PieceAt(b, n, F, a, r, x) = r
    BY Zenon DEF PieceAt
  <2>2. GoesOnWith(p[x - 1], p[x], PieceAt(b, n, F, a, r, x))
    BY <1>2, PutNext
  <2> QED
    BY <2>1, <2>2, Zenon
<1>7. PICK h \in Nat : h = a - 1
  BY <1>1
<1> DEFINE P == {d \in 0..h : p[x + d] = p[x]}
<1>8. 0 \in P
  <2>1. x + 0 = x
    BY <1>2
  <2>2. p[x + 0] = p[x]
    BY <2>1, Zenon
  <2> QED
    BY <2>2
<1>9. ASSUME NEW d \in 1..h, d - 1 \in P PROVE d \in P
  <2>1. PICK z \in 1..m : z = x + d /\ z - 1 = x + (d - 1) /\ x < z /\ z < x + a /\ z \in 1..n
    <3>1. x + d \in 1..m /\ (x + d) - 1 = x + (d - 1) /\ x < x + d /\ x + d < x + a /\ x + d \in 1..n
      BY <1>1, <1>2, <1>4, <1>7
    <3> QED
      BY <3>1
  <2>2. z \notin F
    <3>1. ~(x + a <= z)
      BY <1>1, <1>2, <2>1
    <3>2. z \in F => \A j \in F : j < z => j + a <= z
      BY <2>1, Zenon DEF Setting, FoundIn
    <3> QED
      BY <2>1, <3>1, <3>2, Zenon
  <2>3. Covered(F, a, z)
    BY <2>1, Zenon DEF Covered
  <2>4. PieceAt(b, n, F, a, r, z) = <<>>
    BY <2>2, <2>3, Zenon DEF PieceAt
  <2>5. p[z] = p[z - 1] \o <<>>
    BY <2>4, Zenon DEF Setting, PutPieces
  <2>6. p[z - 1] \in Seq(T)
    <3>1. z - 1 \in 0..m
      BY <1>1
    <3> QED
      BY <1>5, <3>1
  <2>7. p[z - 1] \o <<>> = p[z - 1]
    BY <2>6, ConcatEmptySeq
  <2>8. p[x + (d - 1)] = p[x]
    BY <1>9
  <2>9. p[x + d] = p[x]
    BY <2>1, <2>5, <2>7, <2>8, Zenon
  <2> QED
    BY <2>9
<1>10. \A d \in 0..h : d \in P
  <2> HIDE DEF P
  <2> QED
    BY <1>8, <1>9, UpTo
<1>11. h \in 0..h /\ x + h = x + a - 1
  BY <1>1, <1>2, <1>7
<1>12. p[x + h] = p[x]
  BY <1>10, <1>11
<1> QED
  BY <1>6, <1>11, <1>12, Zenon

\* What is put for places behind the buffer is what lies there.
LEMMA PutBehind ==
  ASSUME NEW p, NEW T, NEW m, NEW b, NEW n, NEW F, NEW t, NEW a, NEW r,
         Setting(p, T, m, b, n, F, t, a, r), NEW z \in 0..m, n <= z,
         NEW k \in Nat, Len(p[n]) < k, k <= Len(p[z])
  PROVE  p[z][k] = Junk
<1>1. n \in Nat \ {0} /\ a \in 1..n /\ F \subseteq 1..n /\ m \in Nat /\ n <= m
  BY Zenon DEF Setting, FoundIn
<1>2. \A j \in F : j + a - 1 <= n
  BY <1>1, Zenon DEF Setting, FoundIn, TargetAt
<1>3. p \in [0..m -> Seq(T)]
  BY Zenon DEF Setting, PutPieces
<1>4. PICK h \in Nat : h = Len(p[n])
  <2>1. p[n] \in Seq(T)
    BY <1>1, <1>3
  <2> QED
    BY <2>1
<1> DEFINE P == {y \in 0..m : n <= y => \A i \in Nat : h < i /\ i <= Len(p[y]) => p[y][i] = Junk}
<1>5. 0 \in P
  <2>1. ~(n <= 0) /\ 0 \in 0..m
    BY <1>1
  <2> QED
    BY <2>1
<1>6. ASSUME NEW y \in 1..m, y - 1 \in P PROVE y \in P
  <2>1. y \in 0..m /\ y - 1 \in 0..m
    BY <1>1
  <2>2. SUFFICES ASSUME n <= y, NEW i \in Nat, h < i, i <= Len(p[y]) PROVE p[y][i] = Junk
    BY <2>1
  <2>3. CASE y = n
    <3>1. Len(p[y]) = h
      BY <1>4, <2>3, Zenon
    <3>2. i <= h
      BY <2>2, <3>1, Zenon
    <3> QED
      BY <2>2, <3>2
  <2>4. CASE y # n
    <3>1. n < y /\ n <= y - 1
      BY <1>1, <2>2, <2>4
    <3>2. y \notin F
      BY <1>1, <3>1
    <3>3. Clear(F, a, y)
      <4>1. \A j \in F : j \in Nat /\ j + a - 1 <= n
        BY <1>1, <1>2
      <4>2. a \in Nat /\ y \in Nat /\ n \in Nat
        BY <1>1
      <4>3. \A j \in F : j + a <= y
        BY <3>1, <4>1, <4>2
      <4> QED
        BY <4>3, Zenon DEF Clear
    <3>4. /\ Len(p[y]) = Len(p[y - 1]) + 1 /\ Beginning(p[y - 1], p[y])
          /\ p[y][Len(p[y])] = Source(b, n, y)
      BY <3>2, <3>3, PutOne
    <3>5. Source(b, n, y) = Junk
      <4>1. ~(y <= n)
        BY <1>1, <3>1
      <4> QED
        BY <4>1, Zenon DEF Source
    <3>6. PICK l \in Nat : l = Len(p[y - 1])
      <4>1. p[y - 1] \in Seq(T)
        BY <1>3, <2>1
      <4> QED
        BY <4>1
    <3>7. CASE i = l + 1
      BY <3>4, <3>5, <3>6, <3>7, Zenon
    <3>8. CASE i # l + 1
      <4>1. i <= l + 1
        BY <2>2, <3>4, <3>6, Zenon
      <4>2. i \in 1..l /\ i <= l
        BY <2>2, <3>8, <4>1
      <4>3. p[y][i] = p[y - 1][i]
        BY <3>4, <3>6, <4>2, Zenon DEF Beginning
      <4>4. p[y - 1][i] = Junk
        <5>1. \A ii \in Nat : h < ii /\ ii <= Len(p[y - 1]) => p[y - 1][ii] = Junk
          BY <1>6, <3>1, Zenon
        <5> QED
          BY <2>2, <3>6, <4>2, <5>1, Zenon
      <4> QED
        BY <4>3, <4>4, Zenon
    <3> QED
      BY <3>7, <3>8
  <2> QED
    BY <2>3, <2>4
<1>7. \A y \in 0..m : y \in P
  <2> HIDE DEF P
  <2> QED
    BY <1>1, <1>5, <1>6, UpTo
<1>8. z \in P
  BY <1>7
<1> QED
  BY <1>4, <1>8, Zenon

\* The arguments that replace_word() refuses, and one place of its loop.
Refused(t, r) == 0 \in {Len(t), Len(r)} \/ Len(r) > BufSz \/ Len(t) > BufSz

Memory(b) == [k \in 1..(2 * BufSz) |-> IF k <= BufSz THEN b[k] ELSE Junk]

ScanStep(st, i, t, r) ==
  IF i < st.next \/ ~MatchAt(st.mem, i, t) THEN st
  ELSE [mem |-> Substitute(st.mem, i, t, r), next |-> i + Len(r)]

Scans(T) == [mem : [1..(2 * BufSz) -> T], next : Nat]

ReplacedBy(b, t, r, st) ==
  replace_word(b, t, r) = IF Refused(t, r) THEN [rc |-> "error", mem |-> b] ELSE [rc |-> "OK", mem |-> st.mem]

ScanSteps(c, T, b, t, r, n) ==
  /\ c \in [0..n -> Scans(T)] /\ c[0] = [mem |-> Memory(b), next |-> 1]
  /\ ReplacedBy(b, t, r, c[n])
  /\ \A i \in 1..n : c[i] = ScanStep(c[i - 1], i, t, r)

\* The text that moves.
Moved(mem, i, a, r, l) ==
  [k \in DOMAIN mem |->
     IF k \in i..((i + l) - 1) THEN r[k - i + 1]
     ELSE IF k \in (i + l)..(IF l > a THEN BufSz + l - a ELSE BufSz) THEN mem[k + a - l]
     ELSE mem[k]]

LEMMA SubstituteIs ==
  ASSUME NEW mem, NEW i, NEW t, NEW r
  PROVE  Substitute(mem, i, t, r) = Moved(mem, i, Len(t), r, Len(r))
BY Zenon DEF Substitute, Moved

LEMMA MovedType ==
  ASSUME NEW T, NEW n \in Nat, n = BufSz, NEW mem \in [1..(2 * n) -> T], NEW a \in 1..n, NEW l \in 1..n,
         NEW r \in [1..l -> T], NEW i \in Nat \ {0}
  PROVE  Moved(mem, i, a, r, l) \in [1..(2 * n) -> T]
<1>1. PICK e \in Nat : e = IF l > a THEN n + l - a ELSE n
  <2>1. (IF l > a THEN n + l - a ELSE n) \in Nat
    OBVIOUS
  <2> QED
    BY <2>1
<1>2. ASSUME NEW k \in 1..(2 * n)
      PROVE  (IF k \in i..((i + l) - 1) THEN r[k - i + 1] ELSE IF k \in (i + l)..e THEN mem[k + a - l] ELSE mem[k]) \in T
  <2>1. CASE k \in i..((i + l) - 1)
    <3>1. k - i + 1 \in 1..l
      BY <2>1
    <3> QED
      BY <2>1, <3>1
  <2>2. CASE k \notin i..((i + l) - 1) /\ k \in (i + l)..e
    <3>1. k + a - l \in 1..(2 * n)
      BY <1>1, <2>2
    <3> QED
      BY <2>2, <3>1
  <2>3. CASE k \notin i..((i + l) - 1) /\ k \notin (i + l)..e
    <3>1. mem[k] \in T
      OBVIOUS
    <3> QED
      BY <2>3, <3>1, Zenon
  <2> QED
    BY <2>1, <2>2, <2>3
<1>3. PICK f : f = [k \in 1..(2 * n) |->
                      IF k \in i..((i + l) - 1) THEN r[k - i + 1]
                      ELSE IF k \in (i + l)..e THEN mem[k + a - l] ELSE mem[k]]
  OBVIOUS
<1>4. f \in [1..(2 * n) -> T]
  BY <1>2, <1>3
<1>5. Moved(mem, i, a, r, l) = f
  <2>1. DOMAIN mem = 1..(2 * n)
    OBVIOUS
  <2> QED
    BY <1>1, <1>3, <2>1, Zenon DEF Moved
<1> QED
  BY <1>4, <1>5, Zenon

LEMMA ScanType ==
  ASSUME NEW T, NEW t \in Seq(T), NEW r \in Seq(T), Len(t) \in 1..BufSz, Len(r) \in 1..BufSz,
         NEW st \in Scans(T), NEW i \in Nat \ {0}
  PROVE  ScanStep(st, i, t, r) \in Scans(T)
<1>1. PICK n \in Nat : n = BufSz
  BY BufSzAssumption
<1>2. PICK a \in 1..n, l \in 1..n : a = Len(t) /\ l = Len(r)
  BY <1>1
<1>3. PICK q \in [1..l -> T] : q = r
  BY <1>2
<1>4. PICK mem \in [1..(2 * n) -> T] : mem = st.mem
  BY <1>1 DEF Scans
<1>5. PICK new \in [1..(2 * n) -> T] : new = Moved(mem, i, a, q, l)
  BY <1>1, MovedType
<1>6. Substitute(st.mem, i, t, r) = new
  BY <1>2, <1>3, <1>4, <1>5, SubstituteIs, Zenon
<1>7. i + Len(r) \in Nat
  BY <1>1, <1>2
<1>8. [mem |-> new, next |-> i + Len(r)] \in Scans(T)
  BY <1>1, <1>7 DEF Scans
<1> QED
  BY <1>6, <1>8, Zenon DEF ScanStep

LEMMA MemoryType ==
  ASSUME NEW T, Junk \in T, NEW b \in [1..BufSz -> T]
  PROVE  Memory(b) \in [1..(2 * BufSz) -> T]
<1>1. PICK n \in Nat : n = BufSz
  BY BufSzAssumption
<1>2. ASSUME NEW k \in 1..(2 * n) PROVE (IF k <= n THEN b[k] ELSE Junk) \in T
  <2>1. CASE k <= n
    <3>1. k \in 1..n
      BY <2>1
    <3> QED
      BY <1>1, <2>1, <3>1
  <2>2. CASE ~(k <= n)
    BY <2>2
  <2> QED
    BY <2>1, <2>2
<1>3. PICK f : f = [k \in 1..(2 * n) |-> IF k <= n THEN b[k] ELSE Junk]
  OBVIOUS
<1>4. f \in [1..(2 * n) -> T]
  BY <1>2, <1>3
<1>5. f = Memory(b)
  BY <1>1, <1>3, Zenon DEF Memory
<1> QED
  BY <1>1, <1>4, <1>5, Zenon

\* The loop of replace_word() as a walk.
LEMMA ScanWalk ==
  ASSUME NEW T, Junk \in T, NEW t \in Seq(T), NEW r \in Seq(T), Len(t) \in 1..BufSz, Len(r) \in 1..BufSz,
         NEW b \in [1..BufSz -> T], NEW n \in Nat, n = BufSz - Len(t) + 1
  PROVE  \E c : ScanSteps(c, T, b, t, r, n)
<1>1. PICK Y : Y = Scans(T)
  OBVIOUS
<1>2. ASSUME NEW c \in Y, NEW i \in 1..n PROVE ScanStep(c, i, t, r) \in Y
  <2>1. c \in Scans(T) /\ i \in Nat \ {0}
    BY <1>1
  <2>2. ScanStep(c, i, t, r) \in Scans(T)
    BY <2>1, ScanType
  <2> QED
    BY <1>1, <2>2
<1>3. PICK step : step = [p \in Y \X (1..n) |-> ScanStep(p[1], p[2], t, r)]
  OBVIOUS
<1>4. /\ step \in [Y \X (1..n) -> Y]
      /\ \A c \in Y, i \in 1..n : step[<<c, i>>] = ScanStep(c, i, t, r)
  BY <1>2, <1>3
<1>5. PICK base \in Y : base = [mem |-> Memory(b), next |-> 1]
  <2>1. [mem |-> Memory(b), next |-> 1] \in Scans(T)
    BY MemoryType DEF Scans
  <2> QED
    BY <1>1, <2>1
<1>6. PICK g : Folds(g, n, Y, base, step)
  BY <1>4, FoldExists
<1>7. PICK u : u = [i \in 1..(BufSz - Len(t) + 1) |-> i]
  OBVIOUS
<1>8. DOMAIN u = 1..n /\ \A i \in 1..n : u[i] = i
  <2>1. 1..(BufSz - Len(t) + 1) = 1..n
    BY Zenon
  <2> QED
    BY <1>7, <2>1
<1>9. \A ps \in SUBSET (1..n) : ps # {} => Max(ps) \in ps /\ Max(ps) \in 1..n /\ u[Max(ps)] = Max(ps)
  BY <1>8, MaxFacts
<1>10. g = [ps \in SUBSET (DOMAIN u) |->
              IF ps = {} THEN [mem |-> Memory(b), next |-> 1]
              ELSE ScanStep(g[ps \ {Max(ps)}], u[Max(ps)], t, r)]
  <2>1. ASSUME NEW ps \in SUBSET (1..n), ps # {}
        PROVE  g[ps] = ScanStep(g[ps \ {Max(ps)}], u[Max(ps)], t, r)
    <3>1. g[ps \ {Max(ps)}] \in Y
      BY <1>6 DEF Folds
    <3>2. g[ps] = step[<<g[ps \ {Max(ps)}], Max(ps)>>]
      BY <1>6, <2>1 DEF Folds
    <3> QED
      BY <1>4, <1>9, <2>1, <3>1, <3>2
  <2> QED
    BY <1>5, <1>6, <1>8, <2>1 DEF Folds
<1>11. PICK it :
         /\ it = [ps \in SUBSET (DOMAIN u) |->
                    IF ps = {} THEN [mem |-> Memory(b), next |-> 1]
                    ELSE ScanStep(it[ps \ {Max(ps)}], u[Max(ps)], t, r)]
         /\ ReplacedBy(b, t, r, it[DOMAIN u])
  <2>1. g = [ps \in SUBSET (DOMAIN [i \in 1..(BufSz - Len(t) + 1) |-> i]) |->
               IF ps = {} THEN [mem |-> Memory(b), next |-> 1]
               ELSE ScanStep(g[ps \ {Max(ps)}], [i \in 1..(BufSz - Len(t) + 1) |-> i][Max(ps)], t, r)]
    BY <1>7, <1>10, Zenon
  <2> DEFINE iter == CHOOSE iter :
                        iter = [ps \in SUBSET (DOMAIN [i \in 1..(BufSz - Len(t) + 1) |-> i]) |->
                                 IF ps = {} THEN [mem |-> Memory(b), next |-> 1]
                                 ELSE ScanStep(iter[ps \ {Max(ps)}], [i \in 1..(BufSz - Len(t) + 1) |-> i][Max(ps)], t, r)]
  <2>2. iter = [ps \in SUBSET (DOMAIN [i \in 1..(BufSz - Len(t) + 1) |-> i]) |->
                  IF ps = {} THEN [mem |-> Memory(b), next |-> 1]
                  ELSE ScanStep(iter[ps \ {Max(ps)}], [i \in 1..(BufSz - Len(t) + 1) |-> i][Max(ps)], t, r)]
    BY <2>1, Zenon
  <2>3. ReplacedBy(b, t, r, iter[DOMAIN [i \in 1..(BufSz - Len(t) + 1) |-> i]])
    BY ZenonT(60) DEF replace_word, ReplacedBy, Refused, ScanStep, Memory, FoldLeftDomain, FoldLeft, MapThenFoldSet
  <2>4. \E it :
          /\ it = [ps \in SUBSET (DOMAIN [i \in 1..(BufSz - Len(t) + 1) |-> i]) |->
                     IF ps = {} THEN [mem |-> Memory(b), next |-> 1]
                     ELSE ScanStep(it[ps \ {Max(ps)}], [i \in 1..(BufSz - Len(t) + 1) |-> i][Max(ps)], t, r)]
          /\ ReplacedBy(b, t, r, it[DOMAIN [i \in 1..(BufSz - Len(t) + 1) |-> i]])
    BY <2>2, <2>3, Zenon
  <2> QED
    BY <1>7, <2>4, Zenon
<1>12. StepsIn(it, n, Y, base, step)
  <2>1. it[{}] = base
    BY <1>5, <1>8, <1>11
  <2>2. ASSUME NEW ps \in SUBSET (1..n), ps # {}, it[ps \ {Max(ps)}] \in Y
        PROVE  it[ps] = step[<<it[ps \ {Max(ps)}], Max(ps)>>]
    <3>1. it[ps] = ScanStep(it[ps \ {Max(ps)}], u[Max(ps)], t, r)
      BY <1>8, <1>11, <2>2
    <3> QED
      BY <1>4, <1>9, <2>2, <3>1
  <2> QED
    BY <2>1, <2>2 DEF StepsIn
<1>13. PICK cc : Walks(cc, n, Y, base, step, it)
  BY <1>4, <1>12, FoldPrefixes
<1>14. /\ cc \in [0..n -> Y] /\ cc[0] = base /\ cc[n] = it[1..n]
       /\ \A k \in 1..n : cc[k] = step[<<cc[k - 1], k>>]
  BY <1>13, Zenon DEF Walks
<1>15. ASSUME NEW k \in 1..n PROVE cc[k] = ScanStep(cc[k - 1], k, t, r)
  <2>1. cc[k - 1] \in Y
    <3>1. k - 1 \in 0..n
      OBVIOUS
    <3> QED
      BY <1>14, <3>1
  <2> QED
    BY <1>4, <1>14, <2>1
<1>16. ReplacedBy(b, t, r, cc[n])
  BY <1>8, <1>11, <1>14, Zenon
<1> QED
  BY <1>1, <1>5, <1>14, <1>15, <1>16, Zenon DEF ScanSteps

\* How far replace_word() has come: what is put up to the place x of the text fills
\* the buffer up to y, where the text from x on lies, and what is behind the buffer.
Level(x, y, p, m, n, F, a, l) ==
  /\ x \in 1..m /\ y \in Nat \ {0} /\ Len(p[x - 1]) = y - 1
  /\ l <= a => y <= x /\ x <= n + y /\ y <= n + 1
  /\ a < l => x <= y /\ x <= n + 1

Done(mem, x, y, p, n) == \A q \in 1..n : q < y => mem[q] = p[x - 1][q]
Ahead(mem, x, y, b, n) == \A q \in 1..n : y <= q => mem[q] = Source(b, n, x + q - y)
Beyond(mem, n, a, l) == l <= a => \A q \in (n + 1)..(2 * n) : mem[q] = Junk

Reached(mem, x, y, p, m, b, n, F, a, l) ==
  /\ Level(x, y, p, m, n, F, a, l) /\ Clear(F, a, x)
  /\ Done(mem, x, y, p, n) /\ Ahead(mem, x, y, b, n) /\ Beyond(mem, n, a, l)

\* A character that stays.
LEMMA ReachedNext ==
  ASSUME NEW p, NEW T, NEW m, NEW b, NEW n, NEW F, NEW t, NEW a, NEW r, NEW l \in 1..n,
         Setting(p, T, m, b, n, F, t, a, r), m = 2 * n + 1,
         NEW mem, NEW x, NEW y, Reached(mem, x, y, p, m, b, n, F, a, l), y <= n, x \notin F
  PROVE  Reached(mem, x + 1, y + 1, p, m, b, n, F, a, l)
<1>1. n \in Nat \ {0} /\ a \in 1..n /\ F \subseteq 1..n /\ m \in Nat
  BY Zenon DEF Setting, FoundIn
<1>2. PICK xx \in 1..m, yy \in Nat \ {0} :
        /\ xx = x /\ yy = y /\ Len(p[xx - 1]) = yy - 1 /\ yy <= n
        /\ l <= a => yy <= xx /\ xx <= n + yy
        /\ a < l => xx <= yy
  BY Zenon DEF Reached, Level
<1>3. Clear(F, a, xx) /\ xx \notin F
  BY <1>2, Zenon DEF Reached
<1>4. /\ Len(p[xx]) = Len(p[xx - 1]) + 1 /\ Beginning(p[xx - 1], p[xx])
      /\ p[xx][Len(p[xx])] = Source(b, n, xx)
  BY <1>3, PutOne
<1>5. Len(p[xx]) = yy
  BY <1>2, <1>4
<1>6. xx + 1 \in 1..m /\ xx <= n + yy /\ (xx + 1) - 1 = xx /\ (yy + 1) - 1 = yy
  BY <1>1, <1>2
<1>7. Level(xx + 1, yy + 1, p, m, n, F, a, l)
  <2>1. yy + 1 \in Nat \ {0} /\ Len(p[(xx + 1) - 1]) = (yy + 1) - 1
    BY <1>5, <1>6
  <2>2. l <= a => yy + 1 <= xx + 1 /\ xx + 1 <= n + (yy + 1) /\ yy + 1 <= n + 1
    BY <1>1, <1>2
  <2>3. a < l => xx + 1 <= yy + 1 /\ xx + 1 <= n + 1
    BY <1>1, <1>2
  <2> QED
    BY <1>6, <2>1, <2>2, <2>3, Zenon DEF Level
<1>8. Clear(F, a, xx + 1)
  <2>1. ASSUME NEW j \in F, j < xx + 1 PROVE j + a <= xx + 1
    <3>1. j < xx /\ j \in Nat
      BY <1>1, <1>3, <2>1
    <3>2. j + a <= xx
      BY <1>3, <3>1 DEF Clear
    <3> QED
      BY <1>1, <3>1, <3>2
  <2> QED
    BY <2>1, Zenon DEF Clear
<1>9. Done(mem, xx + 1, yy + 1, p, n)
  <2>1. ASSUME NEW q \in 1..n, q < yy + 1 PROVE mem[q] = p[xx][q]
    <3>1. CASE q = yy
      <4>1. mem[q] = Source(b, n, xx + q - yy)
        <5>1. yy <= q
          BY <3>1
        <5> QED
          BY <1>2, <5>1, Zenon DEF Reached, Ahead
      <4>2. xx + q - yy = xx
        BY <3>1
      <4>3. p[xx][q] = Source(b, n, xx)
        BY <1>4, <1>5, <3>1, Zenon
      <4> QED
        BY <4>1, <4>2, <4>3, Zenon
    <3>2. CASE q # yy
      <4>1. q < yy /\ q \in 1..(yy - 1)
        BY <2>1, <3>2
      <4>2. mem[q] = p[xx - 1][q]
        BY <1>2, <4>1, Zenon DEF Reached, Done
      <4>3. p[xx][q] = p[xx - 1][q]
        BY <1>2, <1>4, <4>1, Zenon DEF Beginning
      <4> QED
        BY <4>2, <4>3, Zenon
    <3> QED
      BY <3>1, <3>2
  <2> QED
    BY <1>6, <2>1, Zenon DEF Done
<1>10. Ahead(mem, xx + 1, yy + 1, b, n)
  <2>1. ASSUME NEW q \in 1..n, yy + 1 <= q PROVE mem[q] = Source(b, n, (xx + 1) + q - (yy + 1))
    <3>1. yy <= q /\ (xx + 1) + q - (yy + 1) = xx + q - yy
      BY <2>1
    <3>2. mem[q] = Source(b, n, xx + q - yy)
      BY <1>2, <3>1, Zenon DEF Reached, Ahead
    <3> QED
      BY <3>1, <3>2, Zenon
  <2> QED
    BY <2>1, Zenon DEF Ahead
<1>11. Beyond(mem, n, a, l)
  BY Zenon DEF Reached
<1> QED
  BY <1>2, <1>7, <1>8, <1>9, <1>10, <1>11, Zenon DEF Reached

\* Where the text lies on, the target is found in the memory exactly if it was found
\* in the buffer.
LEMMA MatchIffFound ==
  ASSUME NEW p, NEW T, NEW m, NEW b, NEW n, NEW F, NEW t, NEW a, NEW r, NEW l,
         Setting(p, T, m, b, n, F, t, a, r),
         DOMAIN t = 1..a, \A j \in 1..a : t[j] # Junk,
         NEW mem, NEW x, NEW y, Reached(mem, x, y, p, m, b, n, F, a, l), y + a - 1 <= n
  PROVE  MatchAt(mem, y, t) <=> x \in F
<1>1. n \in Nat \ {0} /\ a \in 1..n /\ F \subseteq 1..n /\ m \in Nat
  BY Zenon DEF Setting, FoundIn
<1>2. PICK xx \in 1..m, yy \in Nat \ {0} : xx = x /\ yy = y /\ yy + a - 1 <= n
  BY Zenon DEF Reached, Level
<1>3. ASSUME NEW j \in 1..a PROVE mem[yy + j - 1] = Source(b, n, xx + j - 1)
  <2>1. yy + j - 1 \in 1..n /\ yy <= yy + j - 1 /\ xx + (yy + j - 1) - yy = xx + j - 1
    BY <1>1, <1>2
  <2>2. mem[yy + j - 1] = Source(b, n, xx + (yy + j - 1) - yy)
    BY <1>2, <2>1, Zenon DEF Reached, Ahead
  <2> QED
    BY <2>1, <2>2, Zenon
<1>4. xx \in 1..n => (xx \in F <=> TargetAt(b, n, t, a, xx))
  <2>1. Clear(F, a, xx)
    BY <1>2, Zenon DEF Reached
  <2> QED
    BY <2>1, Zenon DEF Setting, FoundIn, Clear
<1>5. ASSUME MatchAt(mem, yy, t) PROVE xx \in F
  <2>1. \A j \in 1..a : mem[yy + j - 1] = t[j]
    BY <1>5, Zenon DEF MatchAt
  <2>2. \A j \in 1..a : Source(b, n, xx + j - 1) = t[j]
    BY <1>3, <2>1, Zenon
  <2>3. xx + a - 1 <= n
    <3>1. a \in 1..a
      BY <1>1
    <3>2. Source(b, n, xx + a - 1) # Junk
      BY <2>2, <3>1
    <3> QED
      BY <3>2, Zenon DEF Source
  <2>4. \A j \in 1..a : xx + j - 1 <= n
    BY <1>1, <2>3
  <2>5. \A j \in 1..a : b[xx + j - 1] = t[j]
    BY <2>2, <2>4, Zenon DEF Source
  <2>6. xx \in 1..n
    BY <1>1, <2>3
  <2> QED
    BY <1>4, <2>3, <2>5, <2>6, Zenon DEF TargetAt
<1>6. ASSUME xx \in F PROVE MatchAt(mem, yy, t)
  <2>1. xx \in 1..n /\ TargetAt(b, n, t, a, xx)
    BY <1>1, <1>4, <1>6
  <2>2. xx + a - 1 <= n /\ \A j \in 1..a : b[xx + j - 1] = t[j]
    BY <2>1, Zenon DEF TargetAt
  <2>3. \A j \in 1..a : xx + j - 1 <= n
    BY <1>1, <2>2
  <2>4. \A j \in 1..a : Source(b, n, xx + j - 1) = t[j]
    BY <2>2, <2>3, Zenon DEF Source
  <2> QED
    BY <1>3, <2>4, Zenon DEF MatchAt
<1> QED
  BY <1>2, <1>5, <1>6, Zenon

\* The cells of Moved().
CellsAt(new, mem, y, n, a, r, l, q) ==
  /\ q < y => new[q] = mem[q]
  /\ y <= q /\ q < y + l => new[q] = r[q - y + 1]
  /\ y + l <= q /\ q <= n => new[q] = mem[q + a - l]
  /\ n < q /\ y + l <= n + 1 /\ l <= a => new[q] = mem[q]

LEMMA MovedCells ==
  ASSUME NEW n \in Nat, n = BufSz, NEW T, NEW mem \in [1..(2 * n) -> T], NEW a \in 1..n, NEW l \in 1..n,
         NEW r, NEW y \in Nat \ {0}, NEW q \in 1..(2 * n)
  PROVE  CellsAt(Moved(mem, y, a, r, l), mem, y, n, a, r, l, q)
<1>1. PICK e \in Nat : e = (IF l > a THEN n + l - a ELSE n) /\ n <= e /\ (l <= a => e = n)
  <2>1. (IF l > a THEN n + l - a ELSE n) \in Nat /\ n <= (IF l > a THEN n + l - a ELSE n)
    OBVIOUS
  <2>2. l <= a => (IF l > a THEN n + l - a ELSE n) = n
    OBVIOUS
  <2> QED
    BY <2>1, <2>2
<1>2. Moved(mem, y, a, r, l)[q] =
        IF q \in y..((y + l) - 1) THEN r[q - y + 1] ELSE IF q \in (y + l)..e THEN mem[q + a - l] ELSE mem[q]
  <2>1. q \in DOMAIN mem
    OBVIOUS
  <2> QED
    BY <1>1, <2>1, Zenon DEF Moved
<1>3. ASSUME q < y PROVE Moved(mem, y, a, r, l)[q] = mem[q]
  <2>1. q \notin y..((y + l) - 1) /\ q \notin (y + l)..e
    BY <1>3
  <2> QED
    BY <1>2, <2>1, Zenon
<1>4. ASSUME y <= q, q < y + l PROVE Moved(mem, y, a, r, l)[q] = r[q - y + 1]
  <2>1. q \in y..((y + l) - 1)
    BY <1>4
  <2> QED
    BY <1>2, <2>1, Zenon
<1>5. ASSUME y + l <= q, q <= n PROVE Moved(mem, y, a, r, l)[q] = mem[q + a - l]
  <2>1. q \notin y..((y + l) - 1) /\ q \in (y + l)..e
    BY <1>1, <1>5
  <2> QED
    BY <1>2, <2>1, Zenon
<1>6. ASSUME n < q, y + l <= n + 1, l <= a PROVE Moved(mem, y, a, r, l)[q] = mem[q]
  <2>1. q \notin y..((y + l) - 1) /\ q \notin (y + l)..e
    BY <1>1, <1>6
  <2> QED
    BY <1>2, <2>1, Zenon
<1> QED
  BY <1>3, <1>4, <1>5, <1>6, Zenon DEF CellsAt

\* A target that is replaced.
LEMMA ReachedMatch ==
  ASSUME NEW p, NEW T, NEW m, NEW b, NEW n, NEW F, NEW t, NEW a, NEW r, NEW l \in 1..n,
         Setting(p, T, m, b, n, F, t, a, r), m = 2 * n + 1, n = BufSz, Len(r) = l,
         NEW mem \in [1..(2 * n) -> T], NEW x, NEW y, Reached(mem, x, y, p, m, b, n, F, a, l), y + a - 1 <= n, x \in F
  PROVE  Reached(Moved(mem, y, a, r, l), x + a, y + l, p, m, b, n, F, a, l)
<1>1. n \in Nat \ {0} /\ a \in 1..n /\ F \subseteq 1..n /\ m \in Nat
  BY Zenon DEF Setting, FoundIn
<1>2. PICK xx \in 1..m, yy \in Nat \ {0} :
        /\ xx = x /\ yy = y /\ Len(p[xx - 1]) = yy - 1 /\ yy + a - 1 <= n
        /\ l <= a => yy <= xx
        /\ a < l => xx <= yy
  BY Zenon DEF Reached, Level
<1>3. Clear(F, a, xx) /\ xx \in F
  BY <1>2, Zenon DEF Reached
<1>4. xx \in 1..n /\ xx + a - 1 <= n
  <2>1. xx \in 1..n
    BY <1>1, <1>3
  <2>2. TargetAt(b, n, t, a, xx)
    BY <1>3, <2>1, Zenon DEF Setting, FoundIn
  <2> QED
    BY <2>1, <2>2, Zenon DEF TargetAt
<1>5. GoesOnWith(p[xx - 1], p[xx + a - 1], r)
  BY <1>3, PutReplacement
<1>6. PICK X \in 1..m : X = xx + a /\ X - 1 = xx + a - 1 /\ X <= n + 1
  <2>1. xx + a \in 1..m /\ (xx + a) - 1 = xx + a - 1 /\ xx + a <= n + 1
    BY <1>1, <1>4
  <2> QED
    BY <2>1
<1>7. PICK Y \in Nat \ {0} : Y = yy + l /\ Y - 1 = (yy - 1) + l
  <2>1. yy + l \in Nat \ {0} /\ (yy + l) - 1 = (yy - 1) + l
    BY <1>1
  <2> QED
    BY <2>1
<1>8. Len(p[X - 1]) = Y - 1
  BY <1>2, <1>5, <1>6, <1>7, Zenon DEF GoesOnWith
<1>9. Level(X, Y, p, m, n, F, a, l)
  <2>1. l <= a => Y <= X /\ X <= n + Y /\ Y <= n + 1
    BY <1>1, <1>2, <1>4, <1>6, <1>7
  <2>2. a < l => X <= Y /\ X <= n + 1
    BY <1>1, <1>2, <1>6, <1>7
  <2> QED
    BY <1>8, <2>1, <2>2, Zenon DEF Level
<1>10. Clear(F, a, X)
  <2>1. ASSUME NEW j \in F, j < X PROVE j + a <= X
    <3>1. j \in 1..n
      BY <1>1
    <3>2. CASE j < xx
      <4>1. j + a <= xx
        BY <1>3, <3>2 DEF Clear
      <4> QED
        BY <1>1, <1>6, <3>1, <4>1
    <3>3. CASE j = xx
      BY <1>1, <1>6, <3>3
    <3>4. CASE xx < j
      <4>1. xx + a <= j
        BY <1>3, <3>1, <3>4, Zenon DEF Setting, FoundIn
      <4> QED
        BY <1>1, <1>6, <2>1, <3>1, <4>1
    <3> QED
      BY <1>4, <3>1, <3>2, <3>3, <3>4
  <2> QED
    BY <2>1, Zenon DEF Clear
<1>11. PICK new : new = Moved(mem, yy, a, r, l)
  OBVIOUS
<1>12. ASSUME NEW q \in 1..(2 * n)
       PROVE  /\ q < yy => new[q] = mem[q]
              /\ yy <= q /\ q < Y => new[q] = r[q - yy + 1]
              /\ Y <= q /\ q <= n => new[q] = mem[q + a - l]
              /\ n < q /\ Y <= n + 1 /\ l <= a => new[q] = mem[q]
  <2>1. n \in Nat /\ n = BufSz /\ a \in 1..n
    BY <1>1
  <2>2. CellsAt(Moved(mem, yy, a, r, l), mem, yy, n, a, r, l, q)
    BY <2>1, MovedCells, Zenon
  <2> QED
    BY <1>7, <1>11, <2>2, Zenon DEF CellsAt
<1>13. Done(new, X, Y, p, n)
  <2>1. ASSUME NEW q \in 1..n, q < Y PROVE new[q] = p[X - 1][q]
    <3>1. q \in 1..(2 * n)
      BY <1>1
    <3>2. CASE q < yy
      <4>1. q \in 1..(yy - 1)
        BY <3>2
      <4>2. p[xx + a - 1][q] = p[xx - 1][q]
        BY <1>2, <1>5, <4>1, Zenon DEF GoesOnWith
      <4>3. mem[q] = p[xx - 1][q]
        BY <1>2, <3>2, Zenon DEF Reached, Done
      <4> QED
        BY <1>6, <1>12, <3>1, <3>2, <4>2, <4>3, Zenon
    <3>3. CASE ~(q < yy)
      <4>1. yy <= q /\ q - yy + 1 \in 1..l /\ (yy - 1) + (q - yy + 1) = q
        BY <1>1, <1>7, <2>1, <3>3
      <4>2. p[xx + a - 1][(yy - 1) + (q - yy + 1)] = r[q - yy + 1]
        BY <1>2, <1>5, <4>1, Zenon DEF GoesOnWith
      <4> QED
        BY <1>6, <1>12, <2>1, <3>1, <4>1, <4>2, Zenon
    <3> QED
      BY <3>2, <3>3
  <2> QED
    BY <2>1, Zenon DEF Done
<1>14. Ahead(new, X, Y, b, n)
  <2>1. ASSUME NEW q \in 1..n, Y <= q PROVE new[q] = Source(b, n, X + q - Y)
    <3>1. PICK h \in 1..(2 * n) : h = q + a - l /\ yy <= h /\ xx + h - yy = X + q - Y
      <4>1. q + a - l \in 1..(2 * n) /\ yy <= q + a - l /\ xx + (q + a - l) - yy = X + q - Y
        BY <1>1, <1>6, <1>7, <2>1
      <4> QED
        BY <4>1
    <3>2. new[q] = mem[h]
      <4>1. q \in 1..(2 * n) /\ q <= n
        BY <1>1
      <4> QED
        BY <1>12, <2>1, <3>1, <4>1, Zenon
    <3>3. CASE h <= n
      <4>1. h \in 1..n
        BY <1>1, <3>3
      <4>2. mem[h] = Source(b, n, xx + h - yy)
        BY <1>2, <3>1, <4>1, Zenon DEF Reached, Ahead
      <4> QED
        BY <3>1, <3>2, <4>2, Zenon
    <3>4. CASE ~(h <= n)
      <4>1. l <= a /\ h \in (n + 1)..(2 * n)
        BY <1>1, <3>1, <3>4
      <4>2. mem[h] = Junk
        BY <4>1, Zenon DEF Reached, Beyond
      <4>3. ~(xx + h - yy <= n)
        BY <1>1, <1>2, <3>4, <4>1
      <4>4. Source(b, n, xx + h - yy) = Junk
        BY <4>3, Zenon DEF Source
      <4> QED
        BY <3>1, <3>2, <4>2, <4>4, Zenon
    <3> QED
      BY <3>3, <3>4
  <2> QED
    BY <2>1, Zenon DEF Ahead
<1>15. Beyond(new, n, a, l)
  <2>1. ASSUME l <= a, NEW q \in (n + 1)..(2 * n) PROVE new[q] = Junk
    <3>1. q \in 1..(2 * n) /\ n < q
      BY <1>1
    <3>2. Y <= n + 1
      BY <1>1, <1>2, <1>7, <2>1
    <3>3. mem[q] = Junk
      BY <2>1, Zenon DEF Reached, Beyond
    <3> QED
      BY <1>12, <2>1, <3>1, <3>2, <3>3, Zenon
  <2> QED
    BY <2>1, Zenon DEF Beyond
<1> QED
  BY <1>2, <1>6, <1>7, <1>9, <1>10, <1>11, <1>13, <1>14, <1>15, Zenon DEF Reached

\* At the beginning nothing is put and the whole text lies ahead.
LEMMA ReachedFirst ==
  ASSUME NEW p, NEW T, NEW m, NEW b, NEW n, NEW F, NEW t, NEW a, NEW r, NEW l \in 1..n,
         Setting(p, T, m, b, n, F, t, a, r), m = 2 * n + 1, n = BufSz
  PROVE  Reached(Memory(b), 1, 1, p, m, b, n, F, a, l)
<1>1. n \in Nat \ {0} /\ a \in 1..n /\ F \subseteq 1..n /\ m \in Nat
  BY Zenon DEF Setting, FoundIn
<1>2. p[0] = <<>>
  BY Zenon DEF Setting, PutPieces
<1>3. Len(p[1 - 1]) = 1 - 1
  <2>1. Len(<<>>) = 0 /\ 1 - 1 = 0
    BY EmptySeq
  <2> QED
    BY <1>2, <2>1, Zenon
<1>4. Level(1, 1, p, m, n, F, a, l)
  <2>1. 1 \in 1..m /\ 1 \in Nat \ {0} /\ 1 <= n + 1
    BY <1>1
  <2> QED
    BY <1>3, <2>1 DEF Level
<1>5. Clear(F, a, 1)
  <2>1. \A j \in F : ~(j < 1)
    BY <1>1
  <2> QED
    BY <2>1, Zenon DEF Clear
<1>6. Done(Memory(b), 1, 1, p, n)
  <2>1. \A q \in 1..n : ~(q < 1)
    OBVIOUS
  <2> QED
    BY <2>1, Zenon DEF Done
<1>7. \A q \in 1..(2 * n) : Memory(b)[q] = IF q <= n THEN b[q] ELSE Junk
  BY Zenon DEF Memory
<1>8. Ahead(Memory(b), 1, 1, b, n)
  <2>1. \A q \in 1..n : q \in 1..(2 * n) /\ q <= n /\ 1 + q - 1 = q
    BY <1>1
  <2> QED
    BY <1>7, <2>1, Zenon DEF Ahead, Source
<1>9. Beyond(Memory(b), n, a, l)
  <2>1. \A q \in (n + 1)..(2 * n) : q \in 1..(2 * n) /\ ~(q <= n)
    BY <1>1
  <2> QED
    BY <1>7, <2>1, Zenon DEF Beyond
<1> QED
  BY <1>4, <1>5, <1>6, <1>8, <1>9, Zenon DEF Reached

\* After k places of the loop.
Scanned(st, k, p, m, b, n, F, a, l) ==
  \E x \in 1..m : Reached(st.mem, x, IF k + 1 < st.next THEN st.next ELSE k + 1, p, m, b, n, F, a, l)

LEMMA ScanNext ==
  ASSUME NEW p, NEW T, NEW m, NEW b, NEW n, NEW F, NEW t, NEW a, NEW r, NEW l \in 1..n,
         Setting(p, T, m, b, n, F, t, a, r), m = 2 * n + 1, n = BufSz, Len(r) = l, Len(t) = a,
         DOMAIN t = 1..a, \A j \in 1..a : t[j] # Junk,
         NEW st \in Scans(T), NEW k \in Nat \ {0}, k + a - 1 <= n,
         Scanned(st, k - 1, p, m, b, n, F, a, l)
  PROVE  Scanned(ScanStep(st, k, t, r), k, p, m, b, n, F, a, l)
<1>1. n \in Nat \ {0} /\ a \in 1..n /\ m \in Nat
  BY Zenon DEF Setting
<1>2. PICK mem \in [1..(2 * n) -> T], next \in Nat : mem = st.mem /\ next = st.next
  BY DEF Scans
<1>3. (k - 1) + 1 = k
  OBVIOUS
<1>4. PICK x \in 1..m : Reached(mem, x, IF k < next THEN next ELSE k, p, m, b, n, F, a, l)
  BY <1>2, <1>3, Zenon DEF Scanned
<1>5. CASE k < next
  <2>1. ScanStep(st, k, t, r) = st
    BY <1>2, <1>5, Zenon DEF ScanStep
  <2>2. (IF k < next THEN next ELSE k) = next /\ (IF k + 1 < next THEN next ELSE k + 1) = next
    BY <1>5
  <2> QED
    BY <1>2, <1>4, <2>1, <2>2, Zenon DEF Scanned
<1>6. CASE ~(k < next)
  <2>1. Reached(mem, x, k, p, m, b, n, F, a, l)
    BY <1>4, <1>6, Zenon
  <2>2. MatchAt(mem, k, t) <=> x \in F
    BY <2>1, MatchIffFound
  <2>3. CASE x \in F
    <3>1. Substitute(mem, k, t, r) = Moved(mem, k, a, r, l)
      BY SubstituteIs, Zenon
    <3>2. PICK new : new = [mem |-> Moved(mem, k, a, r, l), next |-> k + l]
      OBVIOUS
    <3>3. ScanStep(st, k, t, r) = new
      BY <1>2, <1>6, <2>2, <2>3, <3>1, <3>2, Zenon DEF ScanStep
    <3>4. new.mem = Moved(mem, k, a, r, l) /\ new.next = k + l
      BY <3>2
    <3>5. (IF k + 1 < k + l THEN k + l ELSE k + 1) = k + l
      BY <1>1
    <3>6. Reached(Moved(mem, k, a, r, l), x + a, k + l, p, m, b, n, F, a, l)
      BY <2>1, <2>3, ReachedMatch
    <3>7. x + a \in 1..m
      BY <3>6, Zenon DEF Reached, Level
    <3> QED
      BY <3>3, <3>4, <3>5, <3>6, <3>7, Zenon DEF Scanned
  <2>4. CASE x \notin F
    <3>1. ScanStep(st, k, t, r) = st
      BY <1>2, <2>2, <2>4, Zenon DEF ScanStep
    <3>2. (IF k + 1 < next THEN next ELSE k + 1) = k + 1
      BY <1>6
    <3>3. k <= n
      BY <1>1
    <3>4. Reached(mem, x + 1, k + 1, p, m, b, n, F, a, l)
      BY <2>1, <2>4, <3>3, ReachedNext
    <3>5. x + 1 \in 1..m
      BY <3>4, Zenon DEF Reached, Level
    <3> QED
      BY <1>2, <3>1, <3>2, <3>4, <3>5, Zenon DEF Scanned
  <2> QED
    BY <2>3, <2>4
<1> QED
  BY <1>5, <1>6

\* What was asked for: as much of it as is in the buffer, and nothing of the text behind.
Exact(want, n, a, l) == IF l > a THEN n - a + 1 ELSE Len(want)

AsAsked(mem, want, n, a, l) ==
  /\ Exact(want, n, a, l) \in 0..n
  /\ Exact(want, n, a, l) <= Len(want)
  /\ \A q \in 1..Exact(want, n, a, l) : mem[q] = want[q]
  /\ l <= a => \A q \in 1..n : Exact(want, n, a, l) < q => mem[q] = Junk

\* Where the text does not become longer, the rest is as if the loop went on to the end.
LEMMA ReachedEnd ==
  ASSUME NEW p, NEW T, NEW m, NEW b, NEW n, NEW F, NEW t, NEW a, NEW r, NEW l \in 1..n,
         Setting(p, T, m, b, n, F, t, a, r), m = 2 * n + 1, l <= a,
         NEW mem, NEW x, NEW y, Reached(mem, x, y, p, m, b, n, F, a, l), n - a + 2 <= y
  PROVE  \E z \in 1..m : Reached(mem, z, n + 1, p, m, b, n, F, a, l)
<1>1. n \in Nat \ {0} /\ a \in 1..n /\ F \subseteq 1..n /\ m \in Nat
  BY Zenon DEF Setting, FoundIn
<1>2. PICK xx \in 1..m, yy \in Nat \ {0} : xx = x /\ yy = y /\ n - a + 2 <= yy /\ yy <= n + 1
  BY Zenon DEF Reached, Level
<1>3. PICK h \in Nat : yy + h = n + 1
  <2>1. (n + 1) - yy \in Nat /\ yy + ((n + 1) - yy) = n + 1
    BY <1>1, <1>2
  <2> QED
    BY <2>1
<1> DEFINE P == {d \in 0..h : \E z \in 1..m : Reached(mem, z, yy + d, p, m, b, n, F, a, l)}
<1>4. 0 \in P
  <2>1. yy + 0 = yy
    OBVIOUS
  <2>2. Reached(mem, xx, yy + 0, p, m, b, n, F, a, l)
    BY <1>2, <2>1, Zenon
  <2>3. 0 \in 0..h
    OBVIOUS
  <2> QED
    BY <2>2, <2>3, Zenon
<1>5. ASSUME NEW d \in 1..h, d - 1 \in P PROVE d \in P
  <2>1. PICK z \in 1..m : Reached(mem, z, yy + (d - 1), p, m, b, n, F, a, l)
    BY <1>5, Zenon
  <2>2. PICK Y \in Nat \ {0} : Y = yy + (d - 1) /\ Y + 1 = yy + d /\ Y <= n /\ n - a + 2 <= Y
    <3>1. /\ yy + (d - 1) \in Nat \ {0} /\ (yy + (d - 1)) + 1 = yy + d
          /\ yy + (d - 1) <= n /\ n - a + 2 <= yy + (d - 1)
      BY <1>1, <1>2, <1>3
    <3> QED
      BY <3>1
  <2>3. Reached(mem, z, Y, p, m, b, n, F, a, l)
    BY <2>1, <2>2, Zenon
  <2>4. z \notin F
    <3>1. Y <= z
      BY <2>3, Zenon DEF Reached, Level
    <3>2. ~(z + a - 1 <= n)
      BY <1>1, <2>2, <3>1
    <3>3. z \in F => z + a - 1 <= n
      BY <1>1, Zenon DEF Setting, FoundIn, TargetAt
    <3> QED
      BY <3>2, <3>3
  <2>5. Reached(mem, z + 1, Y + 1, p, m, b, n, F, a, l)
    BY <2>2, <2>3, <2>4, ReachedNext
  <2>6. z + 1 \in 1..m
    BY <2>5, Zenon DEF Reached, Level
  <2>7. \E zz \in 1..m : Reached(mem, zz, yy + d, p, m, b, n, F, a, l)
    BY <2>2, <2>5, <2>6, Zenon
  <2>8. d \in 0..h
    OBVIOUS
  <2> QED
    BY <2>7, <2>8, Zenon
<1>6. \A d \in 0..h : d \in P
  <2> HIDE DEF P
  <2> QED
    BY <1>4, <1>5, UpTo
<1>7. h \in P
  <2>1. h \in 0..h
    OBVIOUS
  <2> QED
    BY <1>6, <2>1
<1> QED
  BY <1>3, <1>7, Zenon

LEMMA ScannedAll ==
  ASSUME NEW p, NEW T, NEW m, NEW b, NEW n, NEW F, NEW t, NEW a, NEW r, NEW l \in 1..n,
         Setting(p, T, m, b, n, F, t, a, r), m = 2 * n + 1,
         NEW st \in Scans(T), Scanned(st, n - a + 1, p, m, b, n, F, a, l)
  PROVE  AsAsked(st.mem, p[n], n, a, l)
<1>1. n \in Nat \ {0} /\ a \in 1..n /\ m \in Nat /\ n <= m
  BY Zenon DEF Setting
<1>2. PICK mem : mem = st.mem
  OBVIOUS
<1>3. PICK next \in Nat : next = st.next
  BY DEF Scans
<1>4. PICK k \in Nat : k = n - a + 1 /\ k <= n
  <2>1. n - a + 1 \in Nat /\ n - a + 1 <= n
    BY <1>1
  <2> QED
    BY <2>1
<1>5. PICK y \in Nat : y = (IF k + 1 < next THEN next ELSE k + 1) /\ n - a + 2 <= y
  <2>1. (IF k + 1 < next THEN next ELSE k + 1) \in Nat /\ k + 1 <= (IF k + 1 < next THEN next ELSE k + 1)
    OBVIOUS
  <2>2. n - a + 2 = k + 1
    BY <1>1, <1>4
  <2> QED
    BY <2>1, <2>2
<1>6. PICK x \in 1..m : Reached(mem, x, y, p, m, b, n, F, a, l)
  BY <1>2, <1>3, <1>4, <1>5, Zenon DEF Scanned
<1>7. p \in [0..m -> Seq(T)] /\ n \in 0..m
  BY <1>1 DEF Setting, PutPieces
<1>8. PICK want \in Seq(T), h \in Nat : want = p[n] /\ h = Len(want)
  BY <1>7
<1>9. CASE l > a
  <2>1. x <= n + 1 /\ Len(p[x - 1]) = y - 1
    <3>1. a < l
      BY <1>1, <1>9
    <3> QED
      BY <1>6, <3>1, Zenon DEF Reached, Level
  <2>2. x - 1 \in 0..m /\ x - 1 <= n
    BY <1>1, <2>1
  <2>3. Beginning(p[x - 1], want)
    BY <1>7, <1>8, <2>2, PutStays
  <2>4. y - 1 <= h
    BY <1>8, <2>1, <2>3, Zenon DEF Beginning
  <2>5. k <= h
    BY <1>1, <1>4, <1>5, <2>4
  <2>6. ASSUME NEW q \in 1..k PROVE mem[q] = want[q]
    <3>1. q \in 1..n /\ q < y /\ q \in 1..(y - 1)
      BY <1>1, <1>4, <1>5
    <3>2. mem[q] = p[x - 1][q]
      BY <1>6, <3>1, Zenon DEF Reached, Done
    <3>3. want[q] = p[x - 1][q]
      BY <2>1, <2>3, <3>1, Zenon DEF Beginning
    <3> QED
      BY <3>2, <3>3, Zenon
  <2>7. Exact(want, n, a, l) = k
    BY <1>4, <1>9, Zenon DEF Exact
  <2>8. k \in 0..n /\ ~(l <= a)
    BY <1>1, <1>4, <1>9
  <2> QED
    BY <1>2, <1>8, <2>5, <2>6, <2>7, <2>8, Zenon DEF AsAsked
<1>10. CASE ~(l > a)
  <2>1. l <= a
    BY <1>1, <1>10
  <2>2. PICK z \in 1..m : Reached(mem, z, n + 1, p, m, b, n, F, a, l)
    BY <1>5, <1>6, <2>1, ReachedEnd
  <2>3. n + 1 <= z /\ Len(p[z - 1]) = (n + 1) - 1
    BY <2>1, <2>2, Zenon DEF Reached, Level
  <2>4. z - 1 \in 0..m /\ n <= z - 1 /\ Len(p[z - 1]) = n
    BY <1>1, <2>3
  <2>5. Beginning(want, p[z - 1])
    BY <1>7, <1>8, <2>4, PutStays
  <2>6. h <= n
    BY <1>8, <2>4, <2>5, Zenon DEF Beginning
  <2>7. ASSUME NEW q \in 1..h PROVE mem[q] = want[q]
    <3>1. q \in 1..n /\ q < n + 1
      BY <1>1, <2>6
    <3>2. mem[q] = p[z - 1][q]
      BY <2>2, <3>1, Zenon DEF Reached, Done
    <3>3. p[z - 1][q] = want[q]
      BY <1>8, <2>5, Zenon DEF Beginning
    <3> QED
      BY <3>2, <3>3, Zenon
  <2>8. ASSUME NEW q \in 1..n, h < q PROVE mem[q] = Junk
    <3>1. q \in Nat /\ q < n + 1 /\ q <= Len(p[z - 1])
      BY <1>1, <2>4
    <3>2. mem[q] = p[z - 1][q]
      BY <2>2, <3>1, Zenon DEF Reached, Done
    <3>3. p[z - 1][q] = Junk
      BY <1>8, <2>4, <2>8, <3>1, PutBehind
    <3> QED
      BY <3>2, <3>3, Zenon
  <2>9. Exact(want, n, a, l) = h
    BY <1>8, <1>10, Zenon DEF Exact
  <2>10. h \in 0..n /\ h <= h
    BY <1>1, <2>6
  <2> QED
    BY <1>2, <1>8, <2>7, <2>8, <2>9, <2>10, Zenon DEF AsAsked
<1> QED
  BY <1>9, <1>10

LEMMA SameStart ==
  ASSUME NEW T, NEW v \in Seq(T), NEW w \in Seq(T), NEW e \in Nat, e <= Len(v), e <= Len(w),
         \A q \in 1..e : v[q] = w[q]
  PROVE  SubSeq(v, 1, e) = SubSeq(w, 1, e)
<1>1. PICK x \in Seq(T), y \in Seq(T) : x = SubSeq(v, 1, e) /\ y = SubSeq(w, 1, e)
  <2>1. SubSeq(v, 1, e) \in Seq(T) /\ SubSeq(w, 1, e) \in Seq(T)
    OBVIOUS
  <2> QED
    BY <2>1
<1>2. CASE e = 0
  <2>1. Len(x) = 0 /\ Len(y) = 0
    BY <1>1, <1>2
  <2>2. x = <<>> /\ y = <<>>
    BY <2>1, EmptySeq
  <2> QED
    BY <1>1, <2>2, Zenon
<1>3. CASE e # 0
  <2>1. 1 \in Nat \ {0} /\ 1 <= e /\ e - 1 + 1 = e
    BY <1>3
  <2>2. /\ Len(x) = e /\ \A k \in 1..e : x[k] = v[1 + k - 1]
        /\ Len(y) = e /\ \A k \in 1..e : y[k] = w[1 + k - 1]
    BY <1>1, <2>1, SubSeqFacts
  <2>3. \A k \in 1..e : 1 + k - 1 = k
    OBVIOUS
  <2>4. \A k \in 1..e : x[k] = y[k]
    BY <2>2, <2>3, Zenon
  <2>5. x = y
    BY <2>2, <2>4, SameSequence
  <2> QED
    BY <1>1, <2>5, Zenon
<1> QED
  BY <1>2, <1>3

Expected(m, want, t, r) ==
  LET exact == IF Len(r) > Len(t) THEN BufSz - Len(t) + 1 ELSE Len(want)
  IN  SubSeq(m, 1, exact) = SubSeq(want, 1, exact)

LEMMA ReplacedFrom ==
  ASSUME NEW b \in Seq(Characters), Len(b) = BufSz,
         NEW t \in Seq(Characters) \ {<<>>}, NEW r \in Seq(Characters) \ {<<>>},
         Len(t) <= BufSz, Len(r) <= BufSz
  PROVE  Expected(replace_word(b, t, r).mem, Replaced(b, t, r), t, r)
<1>1. PICK n \in Nat \ {0} : n = BufSz
  BY BufSzAssumption
<1>2. PICK a \in 1..n, l \in 1..n : a = Len(t) /\ l = Len(r)
  <2>1. Len(t) \in Nat /\ Len(t) # 0 /\ Len(r) \in Nat /\ Len(r) # 0
    BY EmptySeq
  <2> QED
    BY <1>1, <2>1
<1>3. PICK T : T = Characters \cup {Junk}
  OBVIOUS
<1>4. Junk \in T /\ Junk \notin Characters /\ Characters \subseteq T
  BY <1>3 DEF Junk, Characters, Spaces
<1>5. /\ t \in Seq(T) /\ r \in Seq(T) /\ b \in [1..n -> T]
      /\ DOMAIN t = 1..a /\ \A j \in 1..a : t[j] # Junk
  <2>1. t \in [1..a -> Characters] /\ r \in [1..l -> Characters] /\ b \in [1..n -> Characters]
    BY <1>1, <1>2
  <2>2. t \in [1..a -> T] /\ r \in [1..l -> T] /\ b \in [1..n -> T]
    BY <1>4, <2>1
  <2>3. t \in Seq(T) /\ r \in Seq(T)
    BY <2>2
  <2>4. \A j \in 1..a : t[j] # Junk
    BY <1>4, <2>1
  <2> QED
    BY <2>2, <2>3, <2>4
<1>6. PICK F : F = Found(b, t) /\ FoundIn(F, b, n, t, a)
  <2>1. FoundIn(Found(b, t), b, n, t, a)
    <3>1. n \in Nat /\ n = Len(b) /\ a \in Nat \ {0} /\ a = Len(t)
      BY <1>1, <1>2
    <3> QED
      BY <3>1, FoundFacts
  <2> QED
    BY <2>1
<1>7. PICK m \in Nat : m = 2 * n + 1 /\ n <= m
  <2>1. 2 * n + 1 \in Nat /\ n <= 2 * n + 1
    OBVIOUS
  <2> QED
    BY <2>1
<1>8. PICK p : PutPieces(p, T, m, b, n, F, a, r)
  <2>1. n \in Nat
    OBVIOUS
  <2> QED
    BY <1>4, <1>5, <2>1, PiecesExist
<1>9. Setting(p, T, m, b, n, F, t, a, r)
  BY <1>4, <1>5, <1>6, <1>7, <1>8, Zenon DEF Setting
<1>10. PICK want \in Seq(T) : want = Replaced(b, t, r) /\ want = p[n]
  <2>1. Replaced(b, t, r) = p[n]
    <3>1. PutPieces(p, T, m, b, n, Found(b, t), Len(t), r)
      BY <1>2, <1>6, <1>8, Zenon
    <3> QED
      BY <1>4, <1>5, <1>7, <3>1, ReplacedPieces
  <2>2. p[n] \in Seq(T)
    <3>1. p \in [0..m -> Seq(T)] /\ n \in 0..m
      BY <1>7, <1>8 DEF PutPieces
    <3> QED
      BY <3>1
  <2> QED
    BY <2>1, <2>2, Zenon
<1>11. PICK h \in Nat : h = n - a + 1 /\ h = BufSz - Len(t) + 1
  <2>1. n - a + 1 \in Nat /\ n - a + 1 = BufSz - Len(t) + 1
    BY <1>1, <1>2
  <2> QED
    BY <2>1
<1>12. PICK c : ScanSteps(c, T, b, t, r, h)
  <2>1. Len(t) \in 1..BufSz /\ Len(r) \in 1..BufSz /\ b \in [1..BufSz -> T]
    BY <1>1, <1>2, <1>5
  <2> QED
    BY <1>4, <1>5, <1>11, <2>1, ScanWalk
<1>13. /\ c \in [0..h -> Scans(T)] /\ c[0] = [mem |-> Memory(b), next |-> 1]
       /\ ReplacedBy(b, t, r, c[h])
       /\ \A i \in 1..h : c[i] = ScanStep(c[i - 1], i, t, r)
  BY <1>12, Zenon DEF ScanSteps
<1> DEFINE P == {k \in 0..h : Scanned(c[k], k, p, m, b, n, F, a, l)}
<1>14. 0 \in P
  <2>1. Reached(Memory(b), 1, 1, p, m, b, n, F, a, l)
    BY <1>1, <1>7, <1>9, ReachedFirst
  <2>2. c[0].mem = Memory(b) /\ c[0].next = 1
    BY <1>13
  <2>3. (IF 0 + 1 < 1 THEN 1 ELSE 0 + 1) = 1 /\ 1 \in 1..m /\ 0 \in 0..h
    BY <1>7
  <2>4. Scanned(c[0], 0, p, m, b, n, F, a, l)
    BY <2>1, <2>2, <2>3, Zenon DEF Scanned
  <2> QED
    BY <2>3, <2>4
<1>15. ASSUME NEW k \in 1..h, k - 1 \in P PROVE k \in P
  <2>1. k - 1 \in 0..h /\ k \in 0..h /\ k \in Nat \ {0} /\ k + a - 1 <= n
    BY <1>11
  <2>2. PICK st \in Scans(T) : st = c[k - 1]
    BY <1>13, <2>1
  <2>3. Scanned(st, k - 1, p, m, b, n, F, a, l)
    BY <1>15, <2>2, Zenon
  <2>4. Scanned(ScanStep(st, k, t, r), k, p, m, b, n, F, a, l)
    BY <1>1, <1>2, <1>5, <1>7, <1>9, <2>1, <2>3, ScanNext
  <2>5. Scanned(c[k], k, p, m, b, n, F, a, l)
    BY <1>13, <2>2, <2>4, Zenon
  <2> QED
    BY <2>1, <2>5
<1>16. \A k \in 0..h : k \in P
  <2> HIDE DEF P
  <2> QED
    BY <1>14, <1>15, UpTo
<1>17. PICK st \in Scans(T) : st = c[h] /\ Scanned(st, n - a + 1, p, m, b, n, F, a, l)
  <2>1. h \in 0..h
    OBVIOUS
  <2>2. c[h] \in Scans(T)
    BY <1>13, <2>1
  <2>3. Scanned(c[h], h, p, m, b, n, F, a, l)
    BY <1>16, <2>1
  <2> QED
    BY <1>11, <2>2, <2>3, Zenon
<1>18. AsAsked(st.mem, p[n], n, a, l)
  BY <1>7, <1>9, <1>17, ScannedAll
<1>19. PICK mem \in [1..(2 * n) -> T] : mem = st.mem
  BY <1>1 DEF Scans
<1>20. AsAsked(mem, want, n, a, l)
  BY <1>10, <1>18, <1>19, Zenon
<1>21. replace_word(b, t, r).mem = mem
  <2>1. ~Refused(t, r)
    BY <1>1, <1>2 DEF Refused
  <2>2. replace_word(b, t, r) = [rc |-> "OK", mem |-> mem]
    BY <1>13, <1>17, <1>19, <2>1, Zenon DEF ReplacedBy
  <2> QED
    BY <2>2
<1>22. PICK e \in 0..n : e = Exact(want, n, a, l)
  BY <1>20, Zenon DEF AsAsked
<1>23. SubSeq(mem, 1, e) = SubSeq(want, 1, e)
  <2>1. e <= Len(want) /\ \A q \in 1..e : mem[q] = want[q]
    BY <1>20, <1>22, Zenon DEF AsAsked
  <2>2. mem \in Seq(T) /\ Len(mem) = 2 * n
    <3>1. PICK d \in Nat : d = 2 * n
      <4>1. 2 * n \in Nat
        OBVIOUS
      <4> QED
        BY <4>1
    <3>2. PICK f \in [1..d -> T] : f = mem
      BY <3>1
    <3>3. Len(f) = d
      OBVIOUS
    <3>4. f \in Seq(T)
      OBVIOUS
    <3> QED
      BY <3>1, <3>2, <3>3, <3>4, Zenon
  <2>3. e \in Nat /\ e <= Len(mem)
    BY <2>2
  <2> QED
    BY <2>1, <2>2, <2>3, SameStart
<1>24. e = IF Len(r) > Len(t) THEN BufSz - Len(t) + 1 ELSE Len(want)
  BY <1>2, <1>11, <1>22, Zenon DEF Exact
<1> QED
  BY <1>10, <1>21, <1>23, <1>24, Zenon DEF Expected

\* Whatever is in the buffer of stringfun.c and whatever -x is asked to replace: what
\* replace_word() leaves, while it moves the rest of the text for every target, is the
\* text with all targets replaced that were there at the beginning, from the left;
\* where the text became longer, as far as the loop looks.  What the code reads and
\* writes behind the buffer is no part of it.
THEOREM ReplacesAsAsked == Spec => []ReplacedAsAsked
<1>1. TextType => ReplacedAsAsked
  <2>1. SUFFICES ASSUME TextType PROVE ReplacedAsAsked
    OBVIOUS
  <2>2. PICK s \in Seq(Characters) : s = text
    BY <2>1 DEF TextType
  <2>3. PICK t \in Seq(Characters) : t = Taken(s) /\ Len(t) <= BufSz
    BY TakenType
  <2>4. PICK buff : buff = setup_buff(s).buff
    OBVIOUS
  <2>5. buff = [i \in 1..BufSz |-> IF i <= Len(Kept(t)) THEN Kept(t)[i] ELSE "dot"]
    BY <2>3, <2>4 DEF setup_buff
  <2>6. buff \in Seq(Characters) /\ Len(buff) = BufSz
    <3>1. Filled(buff, Kept(t))
      BY <2>3, <2>5, WordsArePrinted
    <3> QED
      BY <3>1, Zenon DEF Filled
  <2>7. ASSUME NEW target \in Arguments, NEW replace \in Arguments,
               Len(target) <= BufSz, Len(replace) <= BufSz
        PROVE  Expected(replace_word(buff, target, replace).mem, Replaced(buff, target, replace),
                        target, replace)
    <3>1. target \in Seq(Characters) \ {<<>>} /\ replace \in Seq(Characters) \ {<<>>}
      BY TextAssumption
    <3> QED
      BY <2>6, <2>7, <3>1, ReplacedFrom
  <2> QED
    BY <2>2, <2>4, <2>7, Zenon DEF ReplacedAsAsked, Expected
<1> QED
  BY <1>1, TextTypeInvariant, PTL
=============================================================================
