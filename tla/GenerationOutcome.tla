------------------------- MODULE GenerationOutcome -------------------------
(***************************************************************************)
(* What a generation promises its user, without stores, leases or locks:   *)
(* it is charged at most once and only while its commit is being decided,  *)
(* it is published only after it was charged, and one that ends cancelled  *)
(* or failed was never charged.  A cancel that was accepted is final.      *)
(***************************************************************************)

VARIABLES
    phase,      \* how far the generation is
    charged     \* whether the user paid for it

outcomeVars == <<phase, charged>>

OutcomeInit == phase = "none" /\ charged = FALSE

\* The first claim opens the generation; a cancel that comes before it withdraws it.
Open == phase = "none" /\ phase' = "open" /\ UNCHANGED charged
Withdraw == phase = "none" /\ phase' = "dead" /\ UNCHANGED charged

Stop == phase = "open" /\ phase' = "stopping" /\ UNCHANGED charged
Die == phase \in {"open", "stopping"} /\ phase' = "dead" /\ UNCHANGED charged

Commit == phase = "open" /\ phase' = "deciding" /\ UNCHANGED charged

Charge == phase = "deciding" /\ ~charged /\ charged' = TRUE /\ UNCHANGED phase
Publish == phase = "deciding" /\ charged /\ phase' = "published" /\ UNCHANGED charged
GiveUp == phase = "deciding" /\ ~charged /\ phase' = "dead" /\ UNCHANGED charged

OutcomeNext == Open \/ Withdraw \/ Stop \/ Die \/ Commit \/ Charge \/ Publish \/ GiveUp

OutcomeSpec == OutcomeInit /\ [][OutcomeNext]_outcomeVars
=============================================================================
