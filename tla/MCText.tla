------------------------------- MODULE MCText -------------------------------
(* An instance of Text for TLC: what may be typed.                         *)
EXTENDS Text

MCPieces ==
  [p \in Programs |->
     IF p = "shell"
       THEN {<<"a">>, <<"sp">>, <<"tab">>, <<"quote">>, <<"pipe">>, <<"gt">>, <<"exit">>,
             <<"sp", "gt", "sp", "a">>, <<"sp", "gt", "gt", "sp", "a">>, <<"sp", "lt", "sp", "a">>}
       ELSE {<<"a">>, <<"gt">>, <<"sp">>, <<"tab">>, <<"dot">>}]

MCArguments == {<<"a">>, <<"gt">>, <<"a", "a">>, <<"sp">>, <<"dot">>, <<"gt", "sp", "a">>}
=============================================================================
