--------------------------- MODULE MCBackupToFile ---------------------------
(* Each block has contents of its own in each call, so that a cell of an   *)
(* earlier call, or of another block, is told apart.                       *)
EXTENDS BackupToFile

MCSource == [a \in 1 .. MaxAttempts |-> [b \in Blocks |-> TotalBlocks * a + b]]
MCContents == TotalBlocks .. TotalBlocks * (MaxAttempts + 1) - 1
MCForeign == <<"foreign", -1>>
=============================================================================
