---------------------------- MODULE MCPublicSite ----------------------------
(***************************************************************************)
(* Publications of the public site, and the render jobs that put them      *)
(* before its readers.  Publishing reads nothing of a render, and a render *)
(* only that there is a newer publication (Publishes), so a behaviour is   *)
(* one of either.  Each budget favours one mix of edits and observations.  *)
(***************************************************************************)
EXTENDS PublicPublication, PublicRender, TLC

CONSTANTS p1, p2

Budget(p, c, l, S) == [prices |-> p, content |-> c, looks |-> l, servers |-> S]
MCBudgets == {Budget(1, 0, 3, {p1}), Budget(0, 1, 1, {p1}), Budget(0, 3, 0, {}),
              Budget(2, 1, 0, {}), Budget(1, 0, 1, {p1, p2})}

VARIABLE part

SiteInit ==
    /\ PublicInit /\ RenderInit /\ part \in {"publication", "render"}
    /\ part = "render" => model = [m \in Listed |-> Unlisted] /\ budget = Budget(0, 3, 0, {})

SiteNext ==
    \/ part = "publication" /\ PublicNext /\ UNCHANGED <<renderVars, part>>
    \/ part = "render" /\ RenderNext /\ UNCHANGED <<publicVars, part>>

SiteSpec == SiteInit /\ [][SiteNext]_<<publicVars, renderVars, part>>

Symmetry == Permutations(Listed)
=============================================================================
