---------------------------- MODULE MCRoundTrip ----------------------------
(* Each block has contents of its own in each backup call.                 *)
EXTENDS RoundTrip

MCSource == [a \in 1 .. MaxAttempts |-> [b \in Blocks |-> TotalBlocks * a + b]]
MCContents == TotalBlocks .. TotalBlocks * (MaxAttempts + 1) - 1
MCForeign == <<"foreign", -1>>
MCTargetSizes == {TotalBlocks}
MCOldContents == {-2}
=============================================================================
