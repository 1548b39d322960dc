---------------------------- MODULE MCRepairLoop ----------------------------
(***************************************************************************)
(* Two ids that any message may use again, so that batches repeat an id,   *)
(* and answers come late, twice, out of order or without a call.           *)
(***************************************************************************)
EXTENDS RepairLoop

CONSTANTS a, b

MCIds == {a, b}

=============================================================================
