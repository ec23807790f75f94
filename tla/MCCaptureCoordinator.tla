------------------------ MODULE MCCaptureCoordinator ------------------------
(***************************************************************************)
(* The coordinator, offered blocks with the evidence of either source, on  *)
(* two heights: the first block has one event, so the batch of a height    *)
(* and the batches of two heights can be cut anywhere.  The ledger is      *)
(* smaller than the number of messages.                                    *)
(***************************************************************************)
EXTENDS CaptureCoordinator

MCEventCount == [h \in Heights |-> IF h = FirstHeight THEN 1 ELSE 0]
=============================================================================
