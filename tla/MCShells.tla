------------------------------ MODULE MCShells ------------------------------
(* An instance of Shells for TLC: what users type.                         *)
EXTENDS Shells

P == <<"prog">>
F == <<"file">>
D == <<"dir">>
Gt == <<"gt">>
Long == <<"a", "a", "a">>

Typed(pipes, cmds) == [pipes |-> pipes, cmds |-> cmds]
Alone1(ws) == Typed(0, <<ws>>)

MCLines ==
  {Typed(0, <<>>), Typed(1, <<>>), Typed(2, <<<<P>>, <<P>>, <<P>>>>),
   Alone1(<<Exit>>), Alone1(<<StopServer>>), Alone1(<<Rc>>),
   Alone1(<<Cd>>), Alone1(<<Cd, D>>), Alone1(<<Cd, D, F>>),
   Alone1(<<P, F, Gt, F>>), Alone1(<<P, Gt, F, Gt, D>>), Alone1(<<P, <<"lt">>, F>>),
   Alone1(<<Gt, F>>), Alone1(<<P, F, F, F>>),
   Typed(1, <<<<Cd, D>>, <<P>>>>), Typed(1, <<<<P>>, <<P, Long>>>>), Typed(1, <<<<P>>, <<Exit>>>>)}

MCLines2 ==
  {<<>>, <<Exit>>, <<Rc>>, <<Dragon>>, <<Cd>>, <<Cd, D>>, <<Cd, D, F>>, <<P>>, <<P, F>>,
   <<P, F, Long>>, <<P, F, D, F>>, <<Long>>}
=============================================================================
