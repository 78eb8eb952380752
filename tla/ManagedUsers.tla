---------------------------- MODULE ManagedUsers ----------------------------
(***************************************************************************)
(* Accounts, roles and permission policies (service/action_create_user.go, *)
(* action_roles_permissions*.go, action_delete_user.go, action_reset_...,  *)
(* admin_user_*.go, auth.go).  An administrator's request is prepared from *)
(* what a page showed earlier and commits later, in one transaction under  *)
(* the row locks of actor and target, guarded by the versions it names.    *)
(* Group, plan and names are left out.                                     *)
(***************************************************************************)
EXTENDS Naturals, FiniteSets, FiniteSetsExt

CONSTANTS Users,         \* rows of the user table, used or not
          Calls,         \* requests of administrators under way
          Replicas,      \* servers that start with bootstrap settings
          Capabilities,  \* grantable ones of the catalog
          Effects,       \* what an override may say, of "allow" and "deny"
          NoUser, MaxChanges    \* bound: versions that moved, over all accounts

ASSUME UsersAssumption ==
    /\ MaxChanges \in Nat /\ NoUser \notin Users
    /\ IsFiniteSet(Capabilities) /\ IsFiniteSet(Effects)

VARIABLES person, head, rows, response, intent, boot

userVars == <<person, head, rows, response, intent, boot>>

Nobody == [state |-> "none", role |-> "user", active |-> FALSE, auth |-> 0]
NoHead == [version |-> 0, count |-> 0, dead |-> FALSE]
NoIntent == [op |-> "none", actor |-> NoUser, proof |-> 0, target |-> NoUser, auth |-> 0, policy |-> 0,
             role |-> "user", active |-> FALSE, rules |-> {}, seen |-> {}]

UserInit ==
    /\ person = [u \in Users |-> Nobody]
    /\ head = [u \in Users |-> NoHead]        \* permission_policy_heads
    /\ rows = [u \in Users |-> {}]            \* permission_overrides, tombstones included
    /\ response = [u \in Users |-> "none"]    \* stored answer of the creation
    /\ intent = [q \in Calls |-> NoIntent]
    /\ boot = [p \in Replicas |-> "idle"]

----------------------------------------------------------------------------
(* Authority *)

Rank(role) == CASE role = "user" -> 1 [] role = "admin" -> 2 [] role = "root" -> 3

\* A set of overrides names a capability at most once.
RuleSets == {R \in SUBSET (Capabilities \X Effects) : \A x, y \in R : x[1] = y[1] => x = y}

LiveRows(u) == {x \in rows[u] : ~x.dead}
Rules(u) == {x.rule : x \in LiveRows(u)}
Rows(rules, version) == {[rule |-> r, version |-> version, dead |-> FALSE] : r \in rules}
Tombstoned(u) == {[x EXCEPT !.dead = TRUE] : x \in rows[u]}

\* What requests are authorized with; tombstones may exist but do not count.
PolicyLoads(u) ==
    IF head[u] = NoHead THEN rows[u] = {}
    ELSE /\ ~head[u].dead /\ Cardinality(LiveRows(u)) = head[u].count
         /\ \A x \in LiveRows(u) : x.version = head[u].version
         /\ Rules(u) # {} => person[u].role = "admin"

\* What creating an account is authorized with: every row counts.
AuthorityLoads(u) ==
    IF head[u] = NoHead THEN rows[u] = {}
    ELSE ~head[u].dead /\ Cardinality(rows[u]) = head[u].count
         /\ \A x \in rows[u] : ~x.dead /\ x.version = head[u].version

Active(u) == person[u].state = "live" /\ person[u].active
Can(u, capability) == Active(u) /\ \/ person[u].role = "root"
                                   \/ person[u].role = "admin" /\ <<capability, "deny">> \notin Rules(u)

Manages(a, t) == /\ PolicyLoads(a) /\ \E c \in Capabilities : Can(a, c)
                 /\ person[t].state = "live" /\ Rank(person[t].role) < Rank(person[a].role)

\* The actor's row, locked again, is as the request found it; its session ends with the version.
Proven(q) == LET a == intent[q].actor IN Active(a) /\ person[a].auth = intent[q].proof

\* Mutant: the version the page showed is not compared.
Fresh_Unchecked(q) == TRUE

Fresh(q) == person[intent[q].target].auth = intent[q].auth

\* What a handler hands over: the request, under a ticket issued for exactly it (ActionOperation).
CreatePosted(q) == intent[q].op = "create" /\ Proven(q)
RolePosted(q) == intent[q].op \in {"promote", "demote"} /\ Proven(q)
RulesPosted(q) == intent[q].op = "write" /\ Proven(q)
DeletePosted(q) == intent[q].op = "delete" /\ Proven(q)
ResetPosted(q) == intent[q].op = "reset" /\ Proven(q)

\* Without a ticket: the actor's session and row are locked and checked again.
ChangePosted(q) == intent[q].op = "security" /\ Proven(q)

Finish(q) == intent' = [intent EXCEPT ![q] = NoIntent]

VersionsMoved == MapThenSumSet(LAMBDA u : IF person[u].auth > 1 THEN person[u].auth - 1 ELSE 0, Users)

\* Every session is revoked (AuthSessions) and the version moves, in the same transaction.
SecurityChange(t, changed) ==
    /\ VersionsMoved < MaxChanges
    /\ person' = [person EXCEPT ![t] = [changed EXCEPT !.auth = @ + 1]]

----------------------------------------------------------------------------
(* Accounts come to be *)

NewPerson(role) == [state |-> "live", role |-> role, active |-> TRUE, auth |-> 1]

Registers(u) ==
    /\ person[u] = Nobody
    /\ person' = [person EXCEPT ![u] = NewPerson("user")]
    /\ UNCHANGED <<head, rows, response, intent, boot>>

\* Mutant: the advisory lock is not waited for.
BootLocked_Never == FALSE

BootLocked == \E p \in Replicas : boot[p] = "counted"

\* A root that was ever there, deleted or not, ends the bootstrap.
BootstrapCounts(p) ==
    /\ boot[p] = "idle" /\ ~BootLocked
    /\ \A u \in Users : person[u].role # "root"
    /\ boot' = [boot EXCEPT ![p] = "counted"]
    /\ UNCHANGED <<person, head, rows, response, intent>>

BootstrapInserts(p, u) ==
    /\ boot[p] = "counted" /\ person[u] = Nobody
    /\ person' = [person EXCEPT ![u] = NewPerson("root")]
    /\ boot' = [boot EXCEPT ![p] = "idle"]
    /\ UNCHANGED <<head, rows, response, intent>>

\* Lost connection: the lock goes with the transaction.
BootstrapDies(p) ==
    /\ boot[p] = "counted"
    /\ boot' = [boot EXCEPT ![p] = "idle"]
    /\ UNCHANGED <<person, head, rows, response, intent>>

NoRulesForUsers(i) == i.role = "user" => i.rules = {}
RoleIntent(i) == i.target # NoUser /\ i.role = IF i.op \in {"promote", "write"} THEN "admin" ELSE "user"

CreateIntent(a, i) ==
    [NoIntent EXCEPT !.op = "create", !.actor = a, !.proof = person[a].auth, !.role = i.role, !.rules = i.rules]

\* The page showed the target's version, rules and status.
TargetIntent(a, i) ==
    [op |-> i.op, actor |-> a, proof |-> person[a].auth, target |-> i.target,
     auth |-> person[i.target].auth, policy |-> head[i.target].version, role |-> i.role,
     active |-> person[i.target].active, rules |-> i.rules, seen |-> Rules(i.target)]

\* An administrator prepares a request from what is there now.
Prepares(q, a, i) ==
    /\ intent[q] = NoIntent /\ Active(a) /\ person[a].role # "user"
    /\ \/ /\ i.op = "create"
          /\ intent' = [intent EXCEPT ![q] = CreateIntent(a, i)]
       \/ /\ i.op # "create" /\ i.target # a /\ person[i.target].state = "live"
          /\ intent' = [intent EXCEPT ![q] = TargetIntent(a, i)]
    /\ UNCHANGED <<person, head, rows, response, boot>>

AdminPolicyOf(u, rules) ==
    /\ head' = [head EXCEPT ![u] = [version |-> 1, count |-> Cardinality(rules), dead |-> FALSE]]
    /\ rows' = [rows EXCEPT ![u] = Rows(rules, 1)]

AnswerKept(u) == response' = [response EXCEPT ![u] = "kept"]

\* Policy and stored answer are written with the account.
Creates(q, u) ==
    LET i == intent[q] IN
    /\ CreatePosted(q) /\ AuthorityLoads(i.actor)
    /\ \E c \in Capabilities : Can(i.actor, c)
    /\ Rank(i.role) < Rank(person[i.actor].role)
    /\ person[u] = Nobody
    /\ person' = [person EXCEPT ![u] = NewPerson(i.role)]
    /\ IF i.role = "admin" THEN AdminPolicyOf(u, i.rules) ELSE UNCHANGED <<head, rows>>
    /\ AnswerKept(u)
    /\ Finish(q)
    /\ UNCHANGED boot

----------------------------------------------------------------------------
(* Roles and permissions: only root *)

EligibleRole(op) == IF op = "promote" THEN "user" ELSE "admin"

\* Mutant: the head keeps the count of the rules it had.
NewHead_OldCount(i) == [version |-> i.policy + 1, dead |-> FALSE,
                        count |-> Cardinality(IF i.op = "demote" THEN i.seen ELSE i.rules)]

NewHead(i) == [version |-> i.policy + 1, count |-> Cardinality(i.rules), dead |-> FALSE]

PlanTransition(q) ==
    LET i == intent[q]  t == i.target IN
    /\ (RolePosted(q) \/ RulesPosted(q))
    /\ person[i.actor].role = "root" /\ Manages(i.actor, t)
    /\ person[t].role = EligibleRole(i.op) /\ Fresh(q)
    /\ IF head[t] = NoHead THEN i.op = "promote" /\ i.policy = 0 /\ LiveRows(t) = {}
       ELSE head[t].version = i.policy /\ PolicyLoads(t)
    /\ i.op = "write" => Rules(t) # i.rules

RolePermissionCommits(q) ==
    LET i == intent[q]  t == i.target IN
    /\ PlanTransition(q)
    /\ SecurityChange(t, [person[t] EXCEPT !.role = i.role])
    /\ rows' = [rows EXCEPT ![t] = Tombstoned(t) \cup Rows(i.rules, i.policy + 1)]
    /\ head' = [head EXCEPT ![t] = NewHead(i)]
    /\ Finish(q)
    /\ UNCHANGED <<response, boot>>

----------------------------------------------------------------------------
(* The other requests *)

\* Mutant: the stored answer of the creation is left as it is.
Redacted_Kept(t) == response[t]

Redacted(t) == IF response[t] = "none" THEN "none" ELSE "redacted"

Deletes(q) ==
    LET t == intent[q].target IN
    /\ DeletePosted(q) /\ Manages(intent[q].actor, t) /\ Fresh(q) /\ person[t].active
    /\ SecurityChange(t, [person[t] EXCEPT !.state = "deleted", !.active = FALSE])
    /\ head' = [head EXCEPT ![t] = IF @ = NoHead THEN NoHead ELSE [@ EXCEPT !.dead = TRUE]]
    /\ rows' = [rows EXCEPT ![t] = Tombstoned(t)]
    /\ response' = [response EXCEPT ![t] = Redacted(t)]
    /\ Finish(q)
    /\ UNCHANGED boot

StatusChanges(q) ==
    LET t == intent[q].target IN
    /\ ChangePosted(q) /\ Manages(intent[q].actor, t) /\ Fresh(q)
    /\ person[t].active = intent[q].active
    /\ SecurityChange(t, [person[t] EXCEPT !.active = ~@])
    /\ Finish(q)
    /\ UNCHANGED <<head, rows, response, boot>>

\* A change of group or plan: nothing else that is modelled.
EntitlementChanges(q) ==
    LET t == intent[q].target IN
    /\ ChangePosted(q) /\ Manages(intent[q].actor, t) /\ Fresh(q)
    /\ SecurityChange(t, person[t])
    /\ Finish(q)
    /\ UNCHANGED <<head, rows, response, boot>>

\* The nickname is no matter of security: the version stays.
NicknameEdits(q) ==
    LET t == intent[q].target IN
    /\ ChangePosted(q) /\ Manages(intent[q].actor, t) /\ Fresh(q)
    /\ Finish(q)
    /\ UNCHANGED <<person, head, rows, response, boot>>

\* A reset finds the target itself; a missing one ends in the same refusal.
PasswordResets(q) ==
    LET t == intent[q].target IN
    /\ ResetPosted(q) /\ Manages(intent[q].actor, t) /\ Fresh(q)
    /\ SecurityChange(t, person[t])
    /\ Finish(q)
    /\ UNCHANGED <<head, rows, response, boot>>

OwnPasswordChanges(u) ==
    /\ Active(u)
    /\ SecurityChange(u, person[u])
    /\ UNCHANGED <<head, rows, response, intent, boot>>

\* A refused, failed or abandoned request.
GivesUp(q) ==
    /\ intent[q] # NoIntent /\ Finish(q)
    /\ UNCHANGED <<person, head, rows, response, boot>>

Inputs == {i \in [op : {"create", "promote", "demote", "write", "delete", "security", "reset"},
                   target : Users \cup {NoUser}, role : {"user", "admin"}, rules : RuleSets] :
             NoRulesForUsers(i) /\ IF i.op = "create" THEN i.target = NoUser ELSE RoleIntent(i)}

UserNext ==
    \/ \E u \in Users : Registers(u) \/ OwnPasswordChanges(u)
    \/ \E p \in Replicas : BootstrapCounts(p) \/ BootstrapDies(p)
    \/ \E p \in Replicas, u \in Users : BootstrapInserts(p, u)
    \/ \E q \in Calls, a \in Users, i \in Inputs : Prepares(q, a, i)
    \/ \E q \in Calls, u \in Users : Creates(q, u)
    \/ \E q \in Calls : \/ RolePermissionCommits(q) \/ Deletes(q) \/ StatusChanges(q)
                        \/ EntitlementChanges(q) \/ PasswordResets(q) \/ NicknameEdits(q) \/ GivesUp(q)

UserSpec == UserInit /\ [][UserNext]_userVars

----------------------------------------------------------------------------
(* Properties *)

\* However replicas race at start and whatever administrators do later, there is one root, and it is
\* neither disabled nor deleted (auth.go:242-305; evaluator.go User).
OneRoot == /\ Cardinality({u \in Users : person[u].role = "root"}) <= 1
           /\ \A u \in Users : person[u].role = "root" => Active(u)

\* Creation, promotion, demotion and rewriting, in any order and number, leave every account a policy
\* that loads; a demoted administrator keeps no rule (permission_snapshot.go:106-147).
PolicyStands == \A u \in Users : person[u].state = "live" =>
                  PolicyLoads(u) /\ (person[u].role = "user" => LiveRows(u) = {})

\* Rules, role and status of an account change only by a request whose author saw the rules it replaces and
\* the status the account still has (action_roles_permissions.go:303-355, admin_user_status.go:95-160).
\* What the billing of a call writes over them is PlatformChat's.
NoLostUpdate ==
    [][\A u \in Users :
          /\ person[u].state = "live"
          /\ Rules(u)' # Rules(u) \/ person'[u].role # person[u].role \/ person'[u].active # person[u].active
          => \E q \in Calls : /\ intent[q].target = u /\ intent'[q] = NoIntent
                              /\ intent[q].seen = Rules(u) /\ intent[q].active = person[u].active]_userVars

\* Of a deleted account nothing stays usable: no rule and no readable answer of its creation,
\* whatever was under way (action_delete_user.go:15-126, action_create_user_response.go:244-372).
ErasedMeansErased ==
    \A u \in Users : person[u].state = "deleted" =>
        response[u] # "kept" /\ LiveRows(u) = {}

\* Both loaders read the same policy: tombstoned rules are excluded from authorization
\* (2026-09-09-a08-managed-user-roles-permissions-design.md:116).
AuthorityAgrees == \A u \in Users : Active(u) /\ PolicyLoads(u) => AuthorityLoads(u)
=============================================================================
