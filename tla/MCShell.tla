------------------------------ MODULE MCShell ------------------------------
(* Instance of Shell: short scripts of every command, longer ones of programs. *)
EXTENDS Shell

Lines == {<<"ls", "x">>, <<"nope">>, <<"cd">>, <<"cd", "dir">>, <<"pwd">>, <<"exit">>, << >>}
MCScripts ==
  UNION {[1 .. n -> Lines] : n \in 0 .. 3}
  \union UNION {[1 .. n -> {<<"ls", "x">>, <<"nope">>}] : n \in 4 .. 5}
MCJumbled == {<< >>, <<"junk">>}
=============================================================================
