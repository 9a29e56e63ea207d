---------------------------- MODULE AbstractCopy ----------------------------
(***************************************************************************)
(* What a copy onto a partition promises, whichever handler does it: the   *)
(* used blocks receive the source's contents in some order, no other block *)
(* changes, and the job is announced as finished only when every used      *)
(* block is in place.  A job may fail at any point.                        *)
(***************************************************************************)
EXTENDS Integers

CONSTANTS
    Source  \* the contents the used blocks must end with

VARIABLES
    used,    \* the blocks to copy
    device,  \* the contents of the target
    status   \* "running", "finished" or "failed"

avars == <<used, device, status>>

AbstractInit == status = "running"

CopySome ==
    /\ status = "running"
    /\ \E S \in SUBSET (used \cap DOMAIN device) :
          device' = [b \in DOMAIN device |->
                        IF b \in S THEN Source[b] ELSE device[b]]
    /\ UNCHANGED <<used, status>>

Finish ==
    /\ status = "running"
    /\ \A b \in used : b \in DOMAIN device /\ device[b] = Source[b]
    /\ status' = "finished"
    /\ UNCHANGED <<used, device>>

Abort ==
    /\ status = "running"
    /\ status' = "failed"
    /\ UNCHANGED <<used, device>>

AbstractNext == CopySome \/ Finish \/ Abort

AbstractSpec == AbstractInit /\ [][AbstractNext]_avars
=============================================================================
