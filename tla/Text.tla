-------------------------------- MODULE Text --------------------------------
(***************************************************************************)
(* The pure text functions of the repository against reference definitions *)
(* that count positions instead of walking over the text: the command      *)
(* lines of the shells (CmdLine) and the string utility (StringFun).  The  *)
(* text is typed piece by piece, so that TLC meets every short one.        *)
(***************************************************************************)
EXTENDS CmdLine, StringFun

CONSTANTS
  Programs, \* "shell" and "stringfun"
  Pieces,   \* what may be typed next, for each program
  MaxTyped, \* bound: pieces of a text
  Arguments \* what -x may be asked to replace, and by what

ASSUME TextAssumption ==
  /\ Programs \subseteq {"shell", "stringfun"}
  /\ Pieces \in [Programs -> SUBSET Seq(Characters)]
  /\ MaxTyped \in Nat
  /\ Arguments \subseteq Seq(Characters) \ {<<>>}

VARIABLES
  program,  \* who reads the text
  text,     \* the characters typed so far
  typed     \* and the number of pieces

vars == <<program, text, typed>>

Init == program \in Programs /\ text = <<>> /\ typed = 0

Type(p) ==
  /\ typed < MaxTyped
  /\ text' = text \o p
  /\ typed' = typed + 1
  /\ UNCHANGED program

Next == \E p \in Pieces[program] : Type(p)

Spec == Init /\ [][Next]_vars

-----------------------------------------------------------------------------
(* What a command line means.                                              *)

InOrder(S, n) ==
  FoldLeft(LAMBDA ns, i : IF i \in S THEN Append(ns, i) ELSE ns, <<>>, [i \in 1..n |-> i])

QuotesBefore(s, i) == Cardinality({j \in 1..(i - 1) : s[j] = "quote"})
Inside(s, i) == QuotesBefore(s, i) % 2 = 1
Closed(s) == ~Inside(s, Len(s) + 1)

\* A blank outside of quotes; the words are what lies between such gaps.
Gap(s, i) == s[i] \in Spaces /\ ~Inside(s, i)

Starts(s) == {i \in DOMAIN s : ~Gap(s, i) /\ (i = 1 \/ Gap(s, i - 1))}

Unquoted(s) == FoldLeft(LAMBDA w, ch : IF ch = "quote" THEN w ELSE Append(w, ch), <<>>, s)

WordFrom(s, i) ==
  LET end == CHOOSE j \in i..Len(s) :
               /\ \A k \in i..j : ~Gap(s, k)
               /\ j = Len(s) \/ Gap(s, j + 1)
  IN  Unquoted(SubSeq(s, i, end))

Words(s) ==
  LET first == InOrder(Starts(s), Len(s)) IN
  [n \in DOMAIN first |-> WordFrom(s, first[n])]

\* Of the words of a command, those that stand for a redirection: an operator
\* that is not itself the file of the operator before it.
Redirections(ws) ==
  LET op[n \in 0..Len(ws)] == n > 0 /\ Operator(ws[n]) # "none" /\ ~op[n - 1]
  IN  {n \in DOMAIN ws : op[n]}

Meaning(s) ==
  LET ws == Words(s)
      ops == Redirections(ws)
      plain == {n \in DOMAIN ws : n \notin ops /\ n - 1 \notin ops}
      order == InOrder(plain, Len(ws))
      used(kinds) == {n \in ops : n < Len(ws) /\ Operator(ws[n]) \in kinds}
      file(kinds) ==
        IF used(kinds) = {} THEN NoFile
        ELSE ws[1 + CHOOSE n \in used(kinds) : \A k \in used(kinds) : n >= k]
  IN  [argv |-> [n \in DOMAIN order |-> ws[order[n]]],
       input |-> file({"input"}),
       output |-> file({"output", "append"}),
       appends |-> used({"append"}),
       ops |-> ops,
       dangling |-> Len(ws) \in ops]

IsLine == program = "shell" /\ Closed(text) /\ Trim(text) # <<>>
Command == program = "shell" /\ Closed(text) /\ Trim(text) # <<>> /\ Pipes(text) = 0

\* format_cmd_line() of 6-ShellP4 and 5-ShellP3 leaves exactly the words that
\* the user quoted and separated, of a line whose quotes are closed.  4-ShellP2
\* does so, too, unless a word is empty (it may drop "").
WordsKept ==
  IsLine =>
    LET words == Words(text) IN
    /\ Split(FormatP4(text), "nul") = words
    /\ Split(FormatP3(text), "nul") = words
    /\ (\A n \in DOMAIN words : words[n] # <<>>) => Split(FormatP2(text), "nul") = words

\* An accepted command of 6-ShellP4 has the arguments and the files that were
\* typed, the last of each kind; and it appends exactly if there is a >> in it, also
\* where a > behind it names the file that is opened (append_mode is never reset).
RedirectsAsTyped ==
  Command /\ BuildP4(text).rc = "OK" =>
    LET b == BuildP4(text)
        m == Meaning(text)
    IN  /\ b.argv = m.argv /\ b.input = m.input /\ b.output = m.output
        /\ b.append <=> m.appends # {}

\* 5-ShellP3 understands the same commands as 6-ShellP4 as long as at most one
\* redirection is typed, at the end and behind the program.
ShellsAgree ==
  Command =>
    LET m == Meaning(text)
        b == BuildP3(text)
    IN  (\A n \in m.ops : n > 1 /\ n >= Len(Words(text)) - 1) =>
          [b EXCEPT !.flag = "none", !.done = FALSE] = [BuildP4(text) EXCEPT !.flag = "none"]

\* A pipeline is accepted with one command for each piece between pipes, each
\* with its own words, as long as no pipe is quoted (strtok() cuts there too).
PipelineAsTyped ==
  LET pieces == Tokens(text)
      l == ListP4(text)
  IN  /\ program = "shell"
      /\ l.rc = "OK"
      /\ \A n \in DOMAIN pieces : Closed(pieces[n]) /\ Trim(pieces[n]) # <<>>
      => /\ Len(l.cmds) = Len(pieces)
         /\ \A n \in DOMAIN pieces : l.cmds[n].argv = Meaning(pieces[n]).argv

\* No parser stores a command behind the end of the list or an argument behind
\* the end of argv, however the pipes are placed.
ListsFit ==
  program = "shell" =>
    /\ \A l \in {ListP3(text), ListP4(text)} :
         /\ Len(l.cmds) <= CmdMax
         /\ \A n \in DOMAIN l.cmds : Len(l.cmds[n].argv) <= ArgvMax
    /\ Len(ListP1(text).cmds) <= CmdMax
    /\ Len(BuildP2(text).argv) <= ArgvMax

Spaced(ws) ==
  FoldLeftDomain(LAMBDA s, n : (IF n = 1 THEN s ELSE Append(s, "sp")) \o ws[n], <<>>, ws)

\* 3-ShellP1 has no quotes and no redirections: for every piece between pipes it
\* prints the first word as the name, unless it fills its array and arguments
\* follow, and the others, one space apart, as the arguments, unless they fill
\* theirs, whatever the neighbours are; and it ends only for the word exit alone.
NameAndArguments ==
  LET line == LineP1(text)
      pieces == Tokens(text)
  IN  program = "shell" /\ (\A i \in DOMAIN text : text[i] \notin {"quote", "tab"}) =>
        /\ line.does = "exit" <=> Words(text) = <<<<"exit">>>>
        /\ line.does = "list" =>
             /\ Len(line.shown) = Len(pieces)
             /\ \A n \in DOMAIN pieces :
                  LET ws == Words(pieces[n])
                      args == Spaced(Tail(ws))
                  IN  ws # <<>> =>
                        /\ Len(ws[1]) < ExeMax \/ args = <<>> => line.shown[n].exe = ws[1]
                        /\ Len(args) < ArgMax => line.shown[n].args = args

-----------------------------------------------------------------------------
(* What the string utility should print.                                   *)

Fun == program = "stringfun"

\* The maximal pieces between blanks.
RunStarts(s) == {i \in DOMAIN s : ~IsBlank(s[i]) /\ (i = 1 \/ IsBlank(s[i - 1]))}

\* -w prints the words that the buffer took, in order and with their lengths,
\* and -c prints their number, whatever lies behind them in the buffer; -r prints
\* the text backwards and none of the padding.
PrintedAsTyped ==
  Fun =>
    LET taken == Taken(text)
        shown == main("w", <<text>>).shown
        starts == InOrder(RunStarts(taken), Len(taken))
    IN  /\ main("c", <<text>>).shown = Len(shown)
        /\ Len(shown) = Len(starts)
        /\ \A n \in DOMAIN shown :
             /\ shown[n].len = Len(shown[n].word)
             /\ SubSeq(taken, starts[n], starts[n] + shown[n].len - 1) = shown[n].word
             /\ starts[n] + shown[n].len \in DOMAIN taken => IsBlank(taken[starts[n] + shown[n].len])
        /\ main("r", <<text>>).shown = Reverse(Kept(taken))

\* Replacing from the left, without looking again at what was put in.
Found(s, target) ==
  LET at[i \in 0..Len(s)] ==
        IF i = 0 THEN {}
        ELSE IF /\ i + Len(target) - 1 <= Len(s)
                /\ SubSeq(s, i, i + Len(target) - 1) = target
                /\ \A j \in at[i - 1] : j + Len(target) <= i
          THEN at[i - 1] \cup {i} ELSE at[i - 1]
  IN  at[Len(s)]

Replaced(s, target, replace) ==
  LET found == Found(s, target) IN
  FlattenSeq([i \in DOMAIN s |->
    IF i \in found THEN replace
    ELSE IF \E j \in found : j < i /\ i < j + Len(target) THEN <<>> ELSE <<s[i]>>])

\* -x leaves the replaced text in the buffer: all of it where it has not become
\* longer, and otherwise up to the place where a last target may be cut off by the
\* end.  Nothing is said of the rest, which the code does not keep within the
\* buffer: a longer text is written over what lies behind it, and at the end of a
\* shorter one stands what was read from there.
ReplacedAsAsked ==
  Fun =>
    \A t, r \in Arguments :
      Len(t) <= BufSz /\ Len(r) <= BufSz =>
        LET b == setup_buff(text).buff
            want == Replaced(b, t, r)
            exact == IF Len(r) > Len(t) THEN BufSz - Len(t) + 1 ELSE Len(want)
        IN  SubSeq(replace_word(b, t, r).mem, 1, exact) = SubSeq(want, 1, exact)
=============================================================================
