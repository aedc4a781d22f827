------------------------------ MODULE MCFanout ------------------------------
(***************************************************************************)
(* Two symbols and two fanouts: one that publishes everything with one     *)
(* whose file may fail to open, or with one that may end the process.      *)
(***************************************************************************)
EXTENDS Fanout

CONSTANTS s1, s2

MCSymbols  == <<s1, s2>>
MCSettings == {<<"zmq", "file">>, <<"file", "redis">>}
=============================================================================
