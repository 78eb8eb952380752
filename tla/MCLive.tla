------------------------------- MODULE MCLive -------------------------------
(***************************************************************************)
(* What must happen in the end: a generation with a crash at any moment;   *)
(* the cancel registry with three runs, two of them of one generation; and *)
(* a converger's passes over the keys.  A behaviour is one of the three.   *)
(***************************************************************************)
EXTENDS SingleGeneration, CancelRegistry, ConvergerScan, TLC

CONSTANTS g1, g2, g3, k1, k2

AllCallers == Owners \cup Convergers \cup Cancellers
ThreeRuns == {g1, g2, g3}
TwoKeys == {k1, k2}
SameTwice == (g1 :> k1) @@ (g2 :> k1) @@ (g3 :> k2)
SparseBuckets == <<1, 0, 1, 1, 1, 0>>

VARIABLE part

LiveInit == Init /\ RegistryInit /\ ScanInit /\ part \in {"single", "registry", "scan"}

LiveNext ==
    \/ part = "single" /\ Next /\ UNCHANGED <<registryVars, scanVars, part>>
    \/ part = "registry" /\ RegistryNext /\ UNCHANGED <<vars, scanVars, part>>
    \/ part = "scan" /\ ScanNext /\ UNCHANGED <<vars, registryVars, part>>

\* The fairness of FairSpec, FairRegistrySpec and FairScanSpec, each where its part takes the steps.
LiveSpec ==
    /\ LiveInit /\ [][LiveNext]_<<vars, registryVars, scanVars, part>>
    /\ WF_vars(part = "single" /\ TimePasses)
    /\ \A r \in Runners : WF_vars(part = "single" /\ RunnerStep(r))
    /\ \A v \in Convergers : WF_vars(part = "single" /\ ConvergerStep(v))
    /\ \A c \in Cancellers : WF_vars(part = "single" /\ (CancelReturns(c) \/ Callback(c)))
    /\ \A r \in Runs : /\ WF_registryVars(part = "registry" /\ pc[r] # "running" /\ RunStep(r))
                       /\ WF_registryVars(part = "registry" /\ Obeys(r))
    /\ \A q \in Requests : WF_registryVars(part = "registry" /\ CancelCalls(q))
    /\ WF_registryVars(part = "registry" /\ CloserCalls)
    /\ WF_registryVars(part = "registry" /\ CloserReturns)
    /\ WF_scanVars(part = "scan" /\ PassStarts)
    /\ WF_scanVars(part = "scan" /\ (LooksAt \/ PageEnds))
    /\ WF_scanVars(part = "scan" /\ WorkerStops)
    /\ SF_scanVars(part = "scan" /\ ScansPage)
=============================================================================
