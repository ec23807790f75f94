--------------------------- MODULE MCStateOrphan ---------------------------
(* Two blocks and one interrupted commit.                                  *)
EXTENDS StateConsumer

MCBlockEvents == [h \in 1..MaxBlock |-> 0]
=============================================================================
