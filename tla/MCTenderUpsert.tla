--------------------------- MODULE MCTenderUpsert ---------------------------
(***************************************************************************)
(* Instance of TenderUpsert for TLC.  The second version edits the tender  *)
(* and the third moves its deadline, so that all three event types occur.  *)
(***************************************************************************)
EXTENDS TenderUpsert

MCDeadlineOf == [v \in 1..MaxVersion |-> IF v < 3 THEN "first" ELSE "moved"]
=============================================================================
