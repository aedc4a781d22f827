------------------------------ MODULE LobTypes ------------------------------
(***************************************************************************)
(* The vocabulary shared by the exchange and by the order book: sides,     *)
(* order numbers and price levels of one symbol.                           *)
(*                                                                         *)
(* A price is written as the index of its level above the symbol's lower   *)
(* price limit (Price - low in the handlers); 0..Span-1 are the prices     *)
(* within the limits.                                                      *)
(***************************************************************************)
EXTENDS Integers

CONSTANTS
  Span,        \* get_px_span(): how many price levels the limits allow
  MaxOrders    \* how many orders the exchange accepts (bounds the instance)

ASSUME SpanAssumption == Span \in Nat \ {0}
ASSUME MaxOrdersAssumption == MaxOrders \in Nat \ {0}

Side    == {"B", "S"}
Levels  == 0 .. Span - 1
OrderNo == 1 .. MaxOrders
Nil     == -1          \* the null pointer, where an index of a level is meant
=============================================================================
