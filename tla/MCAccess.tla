------------------------------ MODULE MCAccess ------------------------------
(***************************************************************************)
(* The two ways into the program, a login session and a gateway key, whose *)
(* models share no state, checked in one run.                              *)
(***************************************************************************)
EXTENDS AuthSessions, GatewayCalls, TLC

VARIABLE part

AccessInit == SessionInit /\ GatewayInit /\ part \in {"sessions", "gateway"}

\* Bound: a session draws its last secret only while it is the only one and the account is as it was.
Few == \A s \in Sessions : row'[s].drawn = MaxSecret
           => account'.auth = 1 /\ \A t \in Sessions \ {s} : row'[t].state = "none"

AccessNext ==
    \/ part = "sessions" /\ SessionNext /\ Few /\ UNCHANGED <<gatewayVars, part>>
    \/ part = "gateway" /\ GatewayNext /\ UNCHANGED <<sessionVars, part>>

AccessSpec == AccessInit /\ [][AccessNext]_<<sessionVars, gatewayVars, part>>

Symmetry == Permutations(Requests) \cup Permutations(Sessions)
=============================================================================
