------------------------- MODULE ResolutionMachine --------------------------
(***************************************************************************)
(* What the revert lane promises of one effect: the resolution states of    *)
(* crates/jinnd-api/src/ledger.rs and the moves between them that kernel.rs *)
(* documents. A branch starts pending and is closed once.                   *)
(***************************************************************************)
VARIABLE resolution

\* What the lane answers for an effect that no revert was asked of.
Unclaimed == "none"

Closed == {"Reverted", "CompensatedClean", "CompensatedUnclean"}

Init == resolution = Unclaimed

Claim == resolution = Unclaimed /\ resolution' = "PendingRevert"

Close == resolution = "PendingRevert" /\ resolution' \in Closed

Next == Claim \/ Close

Spec == Init /\ [][Next]_resolution
=============================================================================
