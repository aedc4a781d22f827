------------------------------ MODULE Routing ------------------------------
(***************************************************************************)
(* How LobService spreads the symbols over its workers.  init makes the    *)
(* workers' shares of the symbol range equal and rounds them up;           *)
(* onFeedRawData divides a message's symbol id by the share and drops the  *)
(* message when there is no such worker.                                   *)
(***************************************************************************)
EXTENDS Integers

CONSTANTS lobnum, workers

ASSUME LobnumAssumption  == lobnum \in Nat \ {0}
ASSUME WorkersAssumption == workers \in Nat \ {0}

\* symnum_of_worker if it were not rounded up.
symnum_rounded_down == lobnum \div workers

symnum_of_worker ==
  LET n == lobnum \div workers
  IN  IF n * workers < lobnum THEN n + 1 ELSE n

worker_idx(symbolid) == symbolid \div symnum_of_worker

Routed(symbolid) == worker_idx(symbolid) < workers

\* No symbol the configuration has room for is without a worker, also when the
\* workers do not divide the number of symbols: none of its messages is dropped.
EverySymbolRouted == \A symbolid \in 0 .. lobnum - 1 : Routed(symbolid)
=============================================================================
