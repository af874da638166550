----------------------------- MODULE OneRelease -----------------------------
(***************************************************************************)
(* What the federation promises about one VIZ release (a PEG_OUT, a        *)
(* FEE_SWEEP or a REFUND row): of all the transaction bodies that could    *)
(* ever be built for the action, at most one becomes a transfer on VIZ,    *)
(* and it is never undone.  VIZ itself does not deduplicate transfers, so  *)
(* this is what the signers' replay ledger has to provide.                 *)
(***************************************************************************)
CONSTANT Body          \* transaction bodies that can be built for the action

VARIABLE landed        \* the bodies that are transfers on VIZ

Init == landed = {}

\* The one transfer that settles the action.
Settle(b) ==
    /\ landed = {}
    /\ landed' = {b}

Next == \E b \in Body : Settle(b)

Spec == Init /\ [][Next]_landed
=============================================================================
