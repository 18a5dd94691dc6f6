------------------------------ MODULE MCParsers ------------------------------
(* The lines of the run.  Times that are too old, in the window at some    *)
(* time of the run, too new, missing, or followed by something else; levels*)
(* and ids in and out of range; messages that leave the line short, make   *)
(* it long enough for the vector path, or hold a blank; lines that begin   *)
(* with a blank, and lines whose third blank lies behind the vector.       *)
EXTENDS Parsers

Times    == {<<>>, <<"0">>, <<"2">>, <<"4">>, <<"9">>, <<"2", "x">>}
Levels   == {<<>>, <<"0">>, <<"5">>, <<"4", "x">>}
Ids      == {<<>>, <<"0">>, <<"9">>, <<"1", "2">>, <<"0", "0", "9">>}
Messages == {<<>>, <<"x">>, <<"x", " ", "3">>, <<"x", "x", "x", "x">>}

MCLines ==
  {front \o time \o <<" ">> \o level \o <<" ">> \o id \o <<" ">> \o message :
     front \in {<<>>, <<" ">>}, time \in Times, level \in Levels, id \in Ids,
     message \in Messages}
  \cup {time \o <<"x">> : time \in Times}
=============================================================================
