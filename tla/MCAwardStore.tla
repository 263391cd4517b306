---------------------------- MODULE MCAwardStore ----------------------------
(***************************************************************************)
(* Instance of AwardStore for TLC: two tenders whose bid tables list the   *)
(* same two vendors in opposite orders.                                    *)
(***************************************************************************)
EXTENDS AwardStore

CONSTANT PursuedTender

MCBidders ==
  [t \in Tenders |-> IF t = PursuedTender THEN <<"a", "b">> ELSE <<"b", "a">>]
=============================================================================
