--------------------------- MODULE MCUsersCompare ---------------------------
(***************************************************************************)
(* Managed accounts, and a generation in compare mode; the two share no    *)
(* state: a behaviour is one of either.                                    *)
(***************************************************************************)
EXTENDS ManagedUsers, CompareGeneration, TLC

VARIABLE part

UsersCompareInit == UserInit /\ CompareInit /\ part \in {"users", "compare"}

UsersCompareNext ==
    \/ part = "users" /\ UserNext /\ UNCHANGED <<compareVars, part>>
    \/ part = "compare" /\ CompareNext /\ UNCHANGED <<userVars, part>>

UsersCompareSpec == UsersCompareInit /\ [][UsersCompareNext]_<<userVars, compareVars, part>>

Symmetry == Permutations(Users) \cup Permutations(Calls)
=============================================================================
