---------------------------- MODULE MCPriceCodec ----------------------------
(***************************************************************************)
(* The prices PriceCodec is checked on: all of the low ones, where every   *)
(* exponent of the float occurs within few ticks, the region of the prices *)
(* of the recorded feeds, and the prices around a power of two of yuan,    *)
(* where the float's precision halves.                                     *)
(***************************************************************************)
EXTENDS PriceCodec

MCLows == (1 .. 300) \cup (1590 .. 1690) \cup (12780 .. 12810)
            \cup (102370 .. 102410)
=============================================================================
