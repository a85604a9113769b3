----------------------------- MODULE StringFun -----------------------------
(***************************************************************************)
(* The string utility of 1-C-Refresher/stringfun.c: one buffer of BufSz    *)
(* characters, filled from the command line, padded with dots, and worked  *)
(* on by one of four options.  Pure operators; indices start at 1 here.    *)
(***************************************************************************)
EXTENDS Naturals, FiniteSets, SequencesExt

CONSTANT BufSz  \* BUFFER_SZ

ASSUME BufSzAssumption == BufSz \in Nat \ {0}

\* The program's own isspace().
IsBlank(ch) == ch \in {"sp", "tab"}

\* What memory behind the buffer holds before the program writes to it.
Junk == "junk"

-----------------------------------------------------------------------------
\* setup_buff(): at most BufSz characters are taken, and of a run of blanks
\* the first.
Kept(s) ==
  FoldLeftDomain(LAMBDA out, i :
      IF IsBlank(s[i]) /\ i > 1 /\ IsBlank(s[i - 1]) THEN out ELSE Append(out, s[i]),
    <<>>, s)

Taken(s) == SubSeq(s, 1, IF Len(s) < BufSz THEN Len(s) ELSE BufSz)

setup_buff(s) ==
  LET kept == Kept(Taken(s)) IN
  [buff |-> [i \in 1..BufSz |-> IF i <= Len(kept) THEN kept[i] ELSE "dot"],
   len |-> Len(kept)]

\* Mutant: a blank does not end the word.
count_words_one(buff, n) ==
  FoldLeftDomain(LAMBDA st, i :
      IF IsBlank(buff[i]) \/ st.in THEN st ELSE [words |-> st.words + 1, in |-> TRUE],
    [words |-> 0, in |-> FALSE], SubSeq(buff, 1, n)).words

count_words(buff, n) ==
  FoldLeftDomain(LAMBDA st, i :
      IF IsBlank(buff[i]) THEN [st EXCEPT !.in = FALSE]
      ELSE [words |-> IF st.in THEN st.words ELSE st.words + 1, in |-> TRUE],
    [words |-> 0, in |-> FALSE], SubSeq(buff, 1, n)).words

reverse_buff(buff) == [i \in 1..BufSz |-> buff[BufSz + 1 - i]]

\* The last n characters: the dots come first by now.
print_reversed_words(buff, n) == SubSeq(buff, BufSz - n + 1, BufSz)

\* The words with the lengths that are printed behind them.
print_words(buff, n) ==
  FoldLeftDomain(LAMBDA st, i :
      IF IsBlank(buff[i]) THEN [st EXCEPT !.in = FALSE]
      ELSE IF st.in
        THEN [st EXCEPT !.out[Len(st.out)] = [word |-> Append(@.word, buff[i]), len |-> @.len + 1]]
      ELSE [out |-> Append(st.out, [word |-> <<buff[i]>>, len |-> 1]), in |-> TRUE],
    [out |-> <<>>, in |-> FALSE], SubSeq(buff, 1, n)).out

\* The length of what is left when the dots at the end are taken for padding.
get_str_len_buff(buff) ==
  LET solid == {i \in 1..BufSz : buff[i] # "dot"} IN
  IF solid = {} THEN 0 ELSE CHOOSE i \in solid : \A j \in solid : i >= j

-----------------------------------------------------------------------------
(* replace_word(), on the buffer and as much memory behind it.             *)

MatchAt(mem, i, target) == \A j \in DOMAIN target : mem[i + j - 1] = target[j]

\* The text from i on with the target replaced: it moves to the left and the
\* end is filled from behind the buffer, or to the right and past its end.
Substitute(mem, i, target, replace) ==
  LET next == i + Len(replace)
      end == IF Len(replace) > Len(target) THEN BufSz + Len(replace) - Len(target) ELSE BufSz
  IN  [k \in DOMAIN mem |->
         IF k \in i..(next - 1) THEN replace[k - i + 1]
         ELSE IF k \in next..end THEN mem[k + Len(target) - Len(replace)]
         ELSE mem[k]]

\* Mutant: the text that was put in is searched again.
replace_word_again(buff, target, replace) ==
  IF 0 \in {Len(target), Len(replace)} \/ Len(replace) > BufSz \/ Len(target) > BufSz
    THEN [rc |-> "error", mem |-> buff]
  ELSE
    LET memory == [k \in 1..(2 * BufSz) |-> IF k <= BufSz THEN buff[k] ELSE Junk]
        step(st, i) ==
          IF i < st.next \/ ~MatchAt(st.mem, i, target) THEN st
          ELSE [mem |-> Substitute(st.mem, i, target, replace), next |-> i + 1]
        last == FoldLeft(step, [mem |-> memory, next |-> 1],
                         [i \in 1..(BufSz - Len(target) + 1) |-> i])
    IN  [rc |-> "OK", mem |-> last.mem]

replace_word(buff, target, replace) ==
  IF 0 \in {Len(target), Len(replace)} \/ Len(replace) > BufSz \/ Len(target) > BufSz
    THEN [rc |-> "error", mem |-> buff]
  ELSE
    LET memory == [k \in 1..(2 * BufSz) |-> IF k <= BufSz THEN buff[k] ELSE Junk]
        step(st, i) ==
          IF i < st.next \/ ~MatchAt(st.mem, i, target) THEN st
          ELSE [mem |-> Substitute(st.mem, i, target, replace),
                next |-> i + Len(replace)]
        last == FoldLeft(step, [mem |-> memory, next |-> 1],
                         [i \in 1..(BufSz - Len(target) + 1) |-> i])
    IN  [rc |-> "OK", mem |-> last.mem]

-----------------------------------------------------------------------------
\* main(): the option, the string, and for -x the target and its replacement.
\* The code is that of exit(); malloc() is taken to succeed.
Options == {"h", "c", "r", "w", "x", "other", "none"}

Exits(code, shown) == [code |-> code, shown |-> shown]

main(opt, args) ==
  LET b == setup_buff(args[1]) IN
  IF opt = "none" THEN Exits(1, <<>>)
  ELSE IF opt = "h" THEN Exits(0, <<>>)
  ELSE IF args = <<>> THEN Exits(1, <<>>)
  ELSE CASE opt = "c" -> Exits(0, count_words(b.buff, b.len))
         [] opt = "r" -> Exits(0, print_reversed_words(reverse_buff(b.buff), b.len))
         [] opt = "w" -> Exits(0, print_words(b.buff, b.len))
         [] opt = "x" ->
              IF Len(args) < 3 THEN Exits(1, <<>>)
              ELSE LET r == replace_word(b.buff, args[2], args[3]) IN
                   IF r.rc # "OK" THEN Exits(3, <<>>)
                   ELSE Exits(0, SubSeq(r.mem, 1, get_str_len_buff(r.mem)))
         [] OTHER -> Exits(1, <<>>)
=============================================================================
