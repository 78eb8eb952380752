---------------------------- MODULE AuthSessions ----------------------------
(***************************************************************************)
(* The login sessions of one account (service/auth_session.go): rows in    *)
(* MySQL, denial barriers and rotation results in Redis                    *)
(* (service/auth_redis.go).  A call writes Redis inside its transaction,   *)
(* under the row locks, and commits or dies later; requests that take no   *)
(* lock see the two stores disagree in between.  Refresh secrets of a      *)
(* session are numbered in the order they are drawn.                       *)
(***************************************************************************)
EXTENDS Naturals, FiniteSets

CONSTANTS Sessions, Requests, None,
          Cap,         \* SessionMaxActive
          Lives,       \* SessionDays of the running deployments
          Window,      \* RefreshReplaySeconds
          Day,         \* life of a barrier on an expired session
          MaxTime, MaxSecret, MaxAuth   \* bounds

ASSUME SessionAssumption ==
    /\ {Cap, Window, Day, MaxTime, MaxSecret, MaxAuth} \cup Lives \subseteq Nat
    /\ Cap > 0 /\ 0 \notin Lives /\ Window > 0 /\ Day > 0
    /\ IsFiniteSet(Sessions) /\ None \notin Sessions

VARIABLES clock, account, row, barrier, pending, public, handed, call

sessionVars == <<clock, account, row, barrier, pending, public, handed, call>>

NoRow == [state |-> "none", birth |-> 0, born |-> 0, expires |-> 0, drawn |-> 0,
          current |-> 0, previous |-> 0, prevUntil |-> 0, past |-> {}]
NoResult == [target |-> 0, until |-> 0]
NoCall == [op |-> "idle", sid |-> None, secret |-> 0, at |-> 0, auth |-> 0, rows |-> {}]

SessionInit ==
    /\ clock = 0
    /\ account = [active |-> TRUE, auth |-> 1]
    /\ row = [s \in Sessions |-> NoRow]
    /\ barrier = [s \in Sessions |-> 0]            \* Redis: denied until then
    /\ pending = [s \in Sessions |-> NoResult]     \* Redis: result stored before the commit
    /\ public = [s \in Sessions |-> NoResult]      \* Redis: result shared after the commit
    /\ handed = {}                                 \* refresh tokens clients were given
    /\ call = [r \in Requests |-> NoCall]

----------------------------------------------------------------------------
Barred(s) == barrier[s] # 0
Live(s, at) == row[s].state = "live" /\ row[s].expires > at
Unrevoked == {s \in Sessions : row[s].state = "live"}

\* What Validate requires of the session itself; the request's auth_version is compared besides.
Stands(s) == ~Barred(s) /\ Live(s, clock)

\* Mutant: no call waits for the user row.
UserLocked_Never == FALSE

UserLocked == \E r \in Requests : call[r].op \in {"creating", "revoking_all", "changing"}

Locked(s) == \E r \in Requests : s \in call[r].rows

\* The barrier outlives the session it denies.
BarrierEnd(s, at) == clock + (IF row[s].expires > at THEN row[s].expires - at ELSE Day)

Bar(S, at) == barrier' = [s \in Sessions |-> IF s \in S THEN BarrierEnd(s, at) ELSE barrier[s]]

\* Nothing reads the refresh columns of a revoked row again; the model drops them.
Revoked(s) == [NoRow EXCEPT !.state = "revoked", !.birth = row[s].birth, !.past = row[s].past]
RevokeLocked(S) == row' = [s \in Sessions |-> IF s \in S THEN Revoked(s) ELSE row[s]]
Oldest(S) == CHOOSE s \in S : \A u \in S : row[s].birth <= row[u].birth

Enter(r, c) == call' = [call EXCEPT ![r] = c]
Leave(r) == Enter(r, NoCall)

----------------------------------------------------------------------------
(* Login and Create.  The issue limit was reserved and the password verified. *)

LoginVerifies(r) ==
    /\ call[r].op = "idle" /\ account.active
    /\ Enter(r, [NoCall EXCEPT !.op = "create", !.at = clock, !.auth = account.auth])
    /\ UNCHANGED <<clock, account, row, barrier, pending, public, handed>>

\* Who waited for the user's row judges by a clock read before: of the sessions it counts the oldest may
\* have ended since, and those born since are not denied in its place (auth_session.go:70, 84-89).
Overfull(S) == Cardinality(S) >= Cap

\* The user row and the active rows are locked; at the cap the oldest is denied in Redis.
CreateLocks(r) ==
    LET active == {s \in Unrevoked : Live(s, call[r].at)}
        victims == IF Overfull(active) THEN {Oldest(active)} ELSE {}
    IN /\ call[r].op = "create" /\ account.active
       /\ ~UserLocked /\ \A s \in active : ~Locked(s)
       /\ Bar(victims, call[r].at)
       /\ Enter(r, [call[r] EXCEPT !.op = "creating", !.rows = victims])
       /\ UNCHANGED <<clock, account, row, pending, public, handed>>

\* The answer's projection proves the version the login read; without it no cookie is set.
CreateCommits(r, s, life) ==
    /\ call[r].op = "creating" /\ row[s].state = "none"
    /\ row' = [u \in Sessions |->
         IF u = s THEN [NoRow EXCEPT !.state = "live", !.born = account.auth, !.expires = call[r].at + life,
                                     !.birth = 1 + Cardinality({v \in Sessions : row[v].state # "none"}),
                                     !.drawn = 1, !.current = 1, !.past = {1}]
         ELSE IF u \in call[r].rows THEN Revoked(u) ELSE row[u]]
    /\ \/ handed' = handed
       \/ call[r].auth = account.auth /\ handed' = handed \cup {[sid |-> s, secret |-> 1]}
    /\ Leave(r)
    /\ UNCHANGED <<clock, account, barrier, pending, public>>

----------------------------------------------------------------------------
(* Refresh *)

RefreshStarts(r, token) ==
    /\ call[r].op = "idle" /\ ~Barred(token.sid)
    /\ Enter(r, [NoCall EXCEPT !.op = "refresh", !.sid = token.sid, !.secret = token.secret, !.at = clock])
    /\ UNCHANGED <<clock, account, row, barrier, pending, public, handed>>

Refreshing(r) == call[r].op = "refresh" /\ ~Locked(call[r].sid)

RefreshRefused(r) ==
    /\ Refreshing(r) /\ ~Live(call[r].sid, call[r].at)
    /\ Leave(r)
    /\ UNCHANGED <<clock, account, row, barrier, pending, public, handed>>

IsCurrent(r) == Live(call[r].sid, call[r].at) /\ row[call[r].sid].current = call[r].secret
IsPrevious(r) == /\ Live(call[r].sid, call[r].at) /\ ~IsCurrent(r)
                 /\ row[call[r].sid].previous = call[r].secret /\ row[call[r].sid].prevUntil >= call[r].at

\* Mutant: the result reaches Redis only after the commit.
StorePending_Late(s, secret) == pending' = pending

StorePending(s, secret) == pending' = [pending EXCEPT ![s] = [target |-> secret, until |-> clock + Window]]

\* The new secret is stored in Redis before the compare-and-set of the row.
RotateStarts(r) ==
    LET s == call[r].sid IN
    /\ Refreshing(r) /\ IsCurrent(r) /\ row[s].drawn < MaxSecret
    /\ StorePending(s, row[s].drawn + 1)
    /\ row' = [row EXCEPT ![s].drawn = @ + 1]
    /\ Enter(r, [call[r] EXCEPT !.op = "rotating", !.rows = {s}])
    /\ UNCHANGED <<clock, account, barrier, public, handed>>

RotateCommits(r) ==
    LET s == call[r].sid IN
    /\ call[r].op = "rotating"
    /\ row' = [row EXCEPT ![s].current = row[s].drawn, ![s].previous = row[s].current,
                          ![s].prevUntil = call[r].at + Window, ![s].past = @ \cup {row[s].drawn}]
    /\ Enter(r, [call[r] EXCEPT !.op = "publishing", !.secret = row[s].drawn, !.rows = {}])
    /\ UNCHANGED <<clock, account, barrier, pending, public, handed>>

Holds(slot, s, secret) == slot[s].target = secret

\* Mutant: a pending result is published whatever it was drawn for.
Recovered_Unchecked(s, secret) ==
    IF pending[s] # NoResult THEN pending[s].target ELSE IF Holds(public, s, secret) THEN secret ELSE 0

\* The secret RecoverRotationResult finds for the row's digest, 0 if none.
Recovered(s, secret) ==
    IF Holds(public, s, secret) \/ Holds(pending, s, secret) THEN secret ELSE 0

\* The Lua script: a public result is kept, a pending one takes its place.
Promote(s, found) ==
    IF found = 0 \/ Holds(public, s, found) THEN UNCHANGED <<pending, public>>
    ELSE /\ public' = [public EXCEPT ![s] = [target |-> found, until |-> clock + Window]]
         /\ pending' = [pending EXCEPT ![s] = NoResult]

\* A request that lost the race recovers the winner's result, or fails.
RefreshRecovers(r) ==
    LET s == call[r].sid  found == Recovered(s, row[s].current) IN
    /\ Refreshing(r) /\ IsPrevious(r)
    /\ Promote(s, found)
    /\ IF found = 0 THEN Leave(r) ELSE Enter(r, [call[r] EXCEPT !.op = "publishing", !.secret = row[s].current])
    /\ UNCHANGED <<clock, account, row, barrier, handed>>

\* After the transaction the result must still be found; only then a cookie is set.
RefreshPublishes(r) ==
    LET s == call[r].sid  found == Recovered(s, call[r].secret) IN
    /\ call[r].op = "publishing"
    /\ Promote(s, found)
    /\ handed' = IF found = 0 THEN handed ELSE handed \cup {[sid |-> s, secret |-> found]}
    /\ Leave(r)
    /\ UNCHANGED <<clock, account, row, barrier>>

\* Neither the current nor a fresh enough previous secret: the session is denied, then revoked.
ReplayStarts(r) ==
    LET s == call[r].sid IN
    /\ Refreshing(r) /\ Live(s, call[r].at) /\ ~IsCurrent(r) /\ ~IsPrevious(r)
    /\ Bar({s}, call[r].at)
    /\ Enter(r, [call[r] EXCEPT !.op = "replaying", !.rows = {s}])
    /\ UNCHANGED <<clock, account, row, pending, public, handed>>

----------------------------------------------------------------------------
(* Revocation *)

RevokeBars(r, s) ==
    /\ call[r].op = "idle" /\ row[s].state # "none"
    /\ Bar({s}, clock)
    /\ Enter(r, [NoCall EXCEPT !.op = "revoke", !.sid = s])
    /\ UNCHANGED <<clock, account, row, pending, public, handed>>

\* Revoke takes the row lock after the barrier; a replay has held it since.
RevokeCommits(r) ==
    LET s == call[r].sid IN
    /\ \/ call[r].op = "revoke" /\ ~Locked(s)
       \/ call[r].op = "replaying"
    /\ RevokeLocked({s}) /\ Leave(r)
    /\ UNCHANGED <<clock, account, barrier, pending, public, handed>>

\* RevokeOthers keeps one session; a security change (password, status, plan, ACL) keeps none.
\* All barriers are written before the first row, and a Redis error leaves some of them.
RevokeAllLocks(r, op, keep, marked) ==
    LET sessions == Unrevoked \ {keep} IN
    /\ call[r].op = "idle" /\ (op = "changing" => keep = None)
    /\ ~UserLocked /\ \A s \in sessions : ~Locked(s)
    /\ marked \subseteq sessions
    /\ Bar(marked, clock)
    /\ IF marked = sessions THEN Enter(r, [NoCall EXCEPT !.op = op, !.rows = sessions]) ELSE Leave(r)
    /\ UNCHANGED <<clock, account, row, pending, public, handed>>

RevokeAllCommits(r) ==
    /\ call[r].op = "revoking_all"
    /\ RevokeLocked(call[r].rows) /\ Leave(r)
    /\ UNCHANGED <<clock, account, barrier, pending, public, handed>>

\* The version moves with the revocation; a change of status is one of them.
SecurityChangeCommits(r, active) ==
    /\ call[r].op = "changing" /\ account.auth < MaxAuth
    /\ RevokeLocked(call[r].rows)
    /\ account' = [active |-> active, auth |-> account.auth + 1]
    /\ Leave(r)
    /\ UNCHANGED <<clock, barrier, pending, public, handed>>

\* Mutant: a rolled back call takes its barriers back.
Dies_CleaningUp(r) ==
    /\ call[r].op # "idle" /\ Leave(r)
    /\ barrier' = [s \in Sessions |-> IF s \in call[r].rows THEN 0 ELSE barrier[s]]
    /\ UNCHANGED <<clock, account, row, pending, public, handed>>

\* Any error, rollback or crash: what Redis was told stays.
Dies(r) ==
    /\ call[r].op # "idle" /\ Leave(r)
    /\ UNCHANGED <<clock, account, row, barrier, pending, public, handed>>

\* Redis drops the keys whose time has come.
ClockTicks ==
    /\ clock < MaxTime /\ clock' = clock + 1
    /\ barrier' = [s \in Sessions |-> IF barrier[s] > clock' THEN barrier[s] ELSE 0]
    /\ pending' = [s \in Sessions |-> IF pending[s].until > clock' THEN pending[s] ELSE NoResult]
    /\ public' = [s \in Sessions |-> IF public[s].until > clock' THEN public[s] ELSE NoResult]
    /\ UNCHANGED <<account, row, handed, call>>

SessionNext ==
    \/ \E r \in Requests : \/ LoginVerifies(r) \/ CreateLocks(r)
                           \/ RefreshRefused(r) \/ RotateStarts(r) \/ RotateCommits(r)
                           \/ RefreshRecovers(r) \/ RefreshPublishes(r) \/ ReplayStarts(r)
                           \/ RevokeCommits(r) \/ RevokeAllCommits(r) \/ Dies(r)
    \/ \E r \in Requests, s \in Sessions, life \in Lives : CreateCommits(r, s, life)
    \/ \E r \in Requests, s \in Sessions : RevokeBars(r, s)
    \/ \E r \in Requests, t \in handed : RefreshStarts(r, t)
    \/ \E r \in Requests, op \in {"revoking_all", "changing"}, keep \in Sessions \cup {None},
          marked \in SUBSET Sessions : RevokeAllLocks(r, op, keep, marked)
    \/ \E r \in Requests, active \in BOOLEAN : SecurityChangeCommits(r, active)
    \/ ClockTicks

SessionSpec == SessionInit /\ [][SessionNext]_sessionVars

----------------------------------------------------------------------------
(* Properties *)

\* A session that was denied once, by a barrier, a revocation or its end, is never accepted again, also
\* when the transaction that wrote the barrier was rolled back (auth_session.go:195-200, 379-385).
NoReturn == [][\A s \in Sessions : row[s].state # "none" /\ ~Stands(s) => ~Stands(s)']_sessionVars

\* A refresh token is given out only after MySQL committed it, although Redis holds it earlier
\* (auth_redis.go:191-194).
HandedAreCommitted == \A t \in handed : t.secret \in row[t.sid].past

\* While the previous cookie is honoured, the result of the rotation can be recovered, also when the
\* winner died right after its commit (auth_session.go:160-165).
RaceRecoverable ==
    \A s \in Sessions : Live(s, clock) /\ row[s].prevUntil > clock => Recovered(s, row[s].current) # 0

\* No session survives a change of the account's version: whoever creates one while a password or
\* status change is under way is either revoked by it or born after it (auth_session.go:77, 
\* auth_account.go:28-47).
BornUnderVersion == \A s \in Sessions : row[s].state = "live" => row[s].born = account.auth
=============================================================================
