------------------------- MODULE MCSingleGeneration -------------------------
(* Small instances of SingleGeneration: the runners own the leases and name   *)
(* the messages they write.                                                  *)
EXTENDS SingleGeneration

AllCallers == Owners \cup Convergers \cup Cancellers
=============================================================================
