---------------------------- MODULE MCLifecycle ----------------------------
(***************************************************************************)
(* Every feeder with every other choice; no fanout, one, and two kinds;    *)
(* each file there or not, with the settings that need it.                 *)
(***************************************************************************)
EXTENDS Lifecycle

Conf(feed_type, fanouts, s, l, p) ==
  [feed_type |-> feed_type, fanouts |-> fanouts, settings_file |-> s,
   symbol_list_file |-> l, symbol_price_limit_file |-> p]

MCSettings ==
  {Conf(f, o, TRUE, TRUE, TRUE) :
     f \in {"mdl_csv", "mdl_zmq", "mdl_redis", "mdl_live"},
     o \in {<<>>, <<"zmq">>, <<"file">>, <<"redis">>}}
   \cup {Conf("mdl_zmq", <<"zmq", "file">>, s, l, p) : s, l, p \in BOOLEAN}
=============================================================================
