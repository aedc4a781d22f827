------------------------------ MODULE Messages ------------------------------
(***************************************************************************)
(* message.h: what a decoder hands to the service.  A message is a head,   *)
(* the same for all, and the member of a union that belongs to its market  *)
(* and type, named by MsgType and SecurityIDSource; nothing in the types   *)
(* of the code keeps the two together.  No constructor fills in more than  *)
(* MsgType: a field that the decoder leaves alone holds whatever the       *)
(* memory held, here Unset.  Times and reserved bytes are left out.        *)
(***************************************************************************)
EXTENDS Integers

CONSTANT Unset

\* 16 bits, unsigned.
uint16_t  == 0 .. 65535
uint16(n) == n % 65536

\* The heads of messages of a type and market, filled in.
Message(type, source) ==
  [MsgType: {type}, SecurityIDSource: {source}, SecurityID: Nat,
   ChannelNo: uint16_t, ApplSeqNum: Nat]

SBE_SSH_ord_t ==
  [OrdType: {"A", "D"}, Side: {"B", "S"}, OrderNo: Int, Price: Int, OrderQty: Int]

SBE_SSH_exe_t ==
  [TradeBuyNo: Int, TradeSellNo: Int, LastPx: Int, LastQty: Int,
   TradeBSFlag: {"B", "S", "N"}]

SBE_SSZ_ord_t ==
  [OrderNo: Int, Price: Int, OrderQty: Int, Side: {"1", "2", "G", "F"},
   OrdType: {"1", "2", "U"}]

SBE_SSZ_exe_t ==
  [BidApplSeqNum: Int, OfferApplSeqNum: Int, LastPx: Int, LastQty: Int,
   ExecType: {"4", "F"}]

\* The messages as a handler takes them: the member of the union that is filled
\* in is the one of the head's market.
OrderMessage ==
  [head: Message("Order", "SH"), body: SBE_SSH_ord_t]
    \cup [head: Message("Order", "SZ"), body: SBE_SSZ_ord_t]

TradeMessage ==
  [head: Message("Trade", "SH"), body: SBE_SSH_exe_t]
    \cup [head: Message("Trade", "SZ"), body: SBE_SSZ_exe_t]

\* An order as the CSV decoder leaves it: a type, a symbol, and no more.
UnfilledOrder ==
  [head: [MsgType: {"Order"}, SecurityIDSource: {Unset}, SecurityID: Nat,
          ChannelNo: {Unset}, ApplSeqNum: {Unset}],
   body: {Unset}]
=============================================================================
