--------------------------- MODULE MCRshThreaded ---------------------------
(* Instances of RshThreaded for TLC: the lines that users type.            *)
EXTENDS RshThreaded

\* A pipeline of two commands, which strtok() may cut short to exit or to a
\* program alone, and stop-server.
MCLines == {<<"exit", "prog">>, <<"stop">>}
=============================================================================
