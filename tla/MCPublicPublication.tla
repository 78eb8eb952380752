------------------------ MODULE MCPublicPublication ------------------------
(* The publications alone, for the disagreements with the design: two edits of  *)
(* the price draft, and two observations by one server.                         *)
EXTENDS PublicPublication

CONSTANT p1

MCBudgets == {[prices |-> 2, content |-> 0, looks |-> 2, servers |-> {p1}]}
=============================================================================
