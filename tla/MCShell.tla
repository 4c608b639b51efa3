------------------------------ MODULE MCShell ------------------------------
(***************************************************************************)
(* Every argument of up to Longest tokens after three of the programs, two *)
(* fewer after the others, and a few directories to start them in.         *)
(***************************************************************************)
EXTENDS Shell

CONSTANTS A, Longest

Tokens == {A, ".", "..", "/", " "}
Texts(n) == {<<" ">> \o text : text \in SeqOf(Tokens, n)}
MCLines == {<<" ", "clear">>, <<"help">>, <<" ">>, <<"run">>}
           \cup {<<"cd">>, <<"cd", " ", A>>, <<"cd", " ", A, " ", A, "/", "..", "/", A>>, <<"cd", " ", "..", "/", A>>}
           \cup {<<program>> \o text : program \in {"rm", "mv", "write"}, text \in Texts(Longest) \cup {<<>>}}
           \cup {<<"run", " ", program>> \o text : program \in {"mkdir", "touch", "cat", "ls"}, text \in Texts(Longest - 2)}
=============================================================================
