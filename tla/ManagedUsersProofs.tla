------------------------- MODULE ManagedUsersProofs -------------------------
(* One root, policies that load, and nothing left of the deleted, for any   *)
(* number of accounts, requests and replicas.                               *)
EXTENDS ManagedUsers, FiniteSetTheorems, TLAPS

Roles == {"user", "admin", "root"}
RuleUniverse == Capabilities \X Effects

PersonType == [state : {"none", "live", "deleted"}, role : Roles, active : BOOLEAN, auth : Nat]
HeadType == [version : Nat, count : Nat, dead : BOOLEAN]
RowType == [rule : RuleUniverse, version : Nat, dead : BOOLEAN]
Operations == {"none", "create", "promote", "demote", "write", "delete", "security", "reset"}
IntentType == [op : Operations, actor : Users \cup {NoUser}, proof : Nat, target : Users \cup {NoUser},
               auth : Nat, policy : Nat, role : {"user", "admin"}, active : BOOLEAN,
               rules : SUBSET RuleUniverse, seen : SUBSET RuleUniverse]

UserTypeOK ==
    /\ person \in [Users -> PersonType]
    /\ head \in [Users -> HeadType]
    /\ rows \in [Users -> SUBSET RowType]
    /\ response \in [Users -> {"none", "kept", "redacted"}]
    /\ intent \in [Calls -> IntentType]
    /\ boot \in [Replicas -> {"idle", "counted"}]

\* Whoever counted no root holds the advisory lock, and nobody else makes one.
Rooted ==
    /\ \A u \in Users : person[u].role = "root" => Active(u)
    /\ \A u, v \in Users : person[u].role = "root" /\ person[v].role = "root" => u = v
    /\ \A p \in Replicas, u \in Users : boot[p] = "counted" => person[u].role # "root"
    /\ \A p, q \in Replicas : boot[p] = "counted" /\ boot[q] = "counted" => p = q

\* The head counts the live rows of its version; only administrators have rules.
PolicyKept(u) ==
    /\ IF head[u] = NoHead THEN rows[u] = {}
       ELSE /\ ~head[u].dead /\ Cardinality(LiveRows(u)) = head[u].count
            /\ \A x \in LiveRows(u) : x.version = head[u].version
    /\ person[u].role # "admin" => LiveRows(u) = {}

Policies ==
    /\ \A u \in Users : person[u].state = "live" => PolicyKept(u)
    /\ \A u \in Users : person[u].state = "none" => head[u] = NoHead /\ rows[u] = {} /\ response[u] = "none"

\* A request that still names the version of its target saw its rules and its status.
Sights ==
    \A q \in Calls :
        /\ intent[q].op \in {"promote", "write"} => intent[q].role = "admin"
        /\ intent[q].role = "user" => intent[q].rules = {}
        /\ intent[q].op \notin {"none", "create"} =>
              /\ intent[q].target \in Users
              /\ \A t \in Users : intent[q].target = t =>
                    /\ person[t].state # "none" /\ intent[q].auth <= person[t].auth
                    /\ intent[q].auth = person[t].auth =>
                          intent[q].seen = Rules(t) /\ intent[q].active = person[t].active

UserInv == UserTypeOK /\ Rooted /\ Policies /\ ErasedMeansErased /\ Sights

----------------------------------------------------------------------------
(* Initially *)

\* There is nobody at first.
LEMMA UserInvInit == UserInit => UserInv
<1> SUFFICES ASSUME UserInit PROVE UserInv
  OBVIOUS
<1>1. Nobody \in PersonType /\ Nobody.state = "none" /\ Nobody.role = "user"
  BY DEF Nobody, PersonType, Roles
<1>2. NoHead \in HeadType
  BY DEF NoHead, HeadType
<1>3. NoIntent \in IntentType /\ NoIntent.op = "none" /\ NoIntent.rules = {}
  BY DEF NoIntent, IntentType, Operations
<1>4. UserTypeOK
  BY <1>1, <1>2, <1>3 DEF UserInit, UserTypeOK
<1>5. \A u \in Users : person[u].state = "none" /\ person[u].role = "user"
  BY <1>1 DEF UserInit
<1>6. Rooted /\ Policies /\ ErasedMeansErased
  BY <1>5 DEF UserInit, Rooted, Policies, ErasedMeansErased
<1>7. Sights
  BY <1>3 DEF UserInit, Sights
<1> QED
  BY <1>4, <1>6, <1>7 DEF UserInv

----------------------------------------------------------------------------
(* Rules and rows *)

\* A set of rules is finite.
LEMMA RulesFinite == ASSUME NEW R \in SUBSET RuleUniverse PROVE IsFiniteSet(R) /\ Cardinality(R) \in Nat
<1>1. IsFiniteSet(RuleUniverse)
  BY UsersAssumption, FS_Product DEF RuleUniverse
<1> QED
  BY <1>1, FS_Subset, FS_CardinalityType

\* One row is written for each rule.
LEMMA RowsCount ==
    ASSUME NEW R \in SUBSET RuleUniverse, NEW v \in Nat
    PROVE  /\ Rows(R, v) \in SUBSET RowType /\ Cardinality(Rows(R, v)) = Cardinality(R)
           /\ \A x \in Rows(R, v) : ~x.dead /\ x.version = v
           /\ {x.rule : x \in Rows(R, v)} = R
<1> DEFINE row == [r \in R |-> [rule |-> r, version |-> v, dead |-> FALSE]]
<1>1. row \in Bijection(R, Rows(R, v))
  BY DEF Bijection, Injection, Surjection, Rows, IsInjective
<1>2. Cardinality(Rows(R, v)) = Cardinality(R)
  BY <1>1, RulesFinite, FS_Bijection DEF ExistsBijection
<1>3. ASSUME NEW x \in Rows(R, v) PROVE x \in RowType /\ ~x.dead /\ x.version = v /\ x.rule \in R
  <2>1. PICK r \in R : x = [rule |-> r, version |-> v, dead |-> FALSE]
    BY DEF Rows
  <2>2. r \in RuleUniverse /\ x.rule = r /\ x.version = v /\ x.dead = FALSE
    BY <2>1
  <2>3. x \in [rule : RuleUniverse, version : Nat, dead : BOOLEAN]
    BY <2>1, <2>2
  <2> QED
    BY <2>1, <2>2, <2>3 DEF RowType
<1>4. ASSUME NEW r \in R PROVE \E x \in Rows(R, v) : x.rule = r
  <2>1. [rule |-> r, version |-> v, dead |-> FALSE] \in Rows(R, v)
    BY DEF Rows
  <2> QED
    BY <2>1
<1> QED
  BY <1>2, <1>3, <1>4

\* Tombstones are rows, and none of them counts.
LEMMA TombstonesDead ==
    ASSUME UserTypeOK, NEW u \in Users
    PROVE  Tombstoned(u) \in SUBSET RowType /\ \A x \in Tombstoned(u) : x.dead
<1> SUFFICES ASSUME NEW x \in Tombstoned(u) PROVE x \in RowType /\ x.dead
  OBVIOUS
<1>1. PICK y \in rows[u] : x = [y EXCEPT !.dead = TRUE]
  BY DEF Tombstoned
<1>2. y \in RowType
  BY DEF UserTypeOK
<1> QED
  BY <1>1, <1>2 DEF RowType

\* Types of what an operator reads.
LEMMA RulesTyped == ASSUME UserTypeOK, NEW u \in Users PROVE Rules(u) \in SUBSET RuleUniverse
BY DEF UserTypeOK, Rules, LiveRows, RowType

----------------------------------------------------------------------------
(* What several actions share *)

\* A request that ends leaves the others.
LEMMA FinishFields ==
    ASSUME UserTypeOK, NEW q \in Calls, Finish(q)
    PROVE  /\ intent' \in [Calls -> IntentType] /\ intent'[q] = NoIntent
           /\ \A r \in Calls : r # q => intent'[r] = intent[r]
<1>1. NoIntent \in IntentType
  BY DEF NoIntent, IntentType, Operations
<1> QED
  BY <1>1 DEF Finish, UserTypeOK

\* What a request saw stays true of its target until the target's version moves.
LEMMA SightsKept ==
    ASSUME UserInv, intent' = intent \/ \E q \in Calls : Finish(q),
           person' \in [Users -> PersonType],
           \A u \in Users : person[u].state # "none" =>
              /\ person'[u].state # "none"
              /\ \/ person'[u].auth > person[u].auth
                 \/ person'[u].auth = person[u].auth /\ person'[u].active = person[u].active /\ Rules(u)' = Rules(u)
    PROVE  intent' \in [Calls -> IntentType] /\ Sights'
<1>1. intent' \in [Calls -> IntentType] /\ \A q \in Calls : intent'[q] = intent[q] \/ intent'[q] = NoIntent
  BY FinishFields DEF UserInv, UserTypeOK
<1>2. NoIntent.op = "none" /\ NoIntent.role = "user" /\ NoIntent.rules = {}
  BY DEF NoIntent
<1>3. person \in [Users -> PersonType] /\ intent \in [Calls -> IntentType]
  BY DEF UserInv, UserTypeOK
<1>4. ASSUME NEW q \in Calls, intent'[q] = intent[q], intent[q].op \notin {"none", "create"},
             NEW t \in Users, t = intent[q].target
      PROVE  /\ person'[t].state # "none" /\ intent'[q].auth <= person'[t].auth
             /\ intent'[q].auth = person'[t].auth =>
                   intent'[q].seen = Rules(t)' /\ intent'[q].active = person'[t].active
  <2>1. /\ person[t].state # "none" /\ intent[q].auth <= person[t].auth
        /\ intent[q].auth = person[t].auth => intent[q].seen = Rules(t) /\ intent[q].active = person[t].active
    BY <1>4 DEF UserInv, Sights
  <2>2. intent[q].auth \in Nat /\ person[t].auth \in Nat /\ person'[t].auth \in Nat
    BY <1>3 DEF IntentType, PersonType
  <2>3. CASE person'[t].auth > person[t].auth
    BY <1>4, <2>1, <2>2, <2>3
  <2>4. CASE person'[t].auth = person[t].auth /\ person'[t].active = person[t].active /\ Rules(t)' = Rules(t)
    BY <1>4, <2>1, <2>4
  <2> QED
    BY <2>1, <2>3, <2>4
<1>5. ASSUME NEW q \in Calls
      PROVE  /\ intent'[q].op \in {"promote", "write"} => intent'[q].role = "admin"
             /\ intent'[q].role = "user" => intent'[q].rules = {}
             /\ intent'[q].op \notin {"none", "create"} =>
                   intent'[q] = intent[q] /\ intent'[q].target \in Users
  BY <1>1, <1>2 DEF UserInv, Sights
<1> QED
  BY <1>1, <1>4, <1>5 DEF Sights

\* A security change moves the version of one account.
LEMMA SecurityChangeFields ==
    ASSUME UserTypeOK, NEW t \in Users, NEW changed \in PersonType, SecurityChange(t, changed)
    PROVE  /\ person' \in [Users -> PersonType] /\ \A u \in Users : u # t => person'[u] = person[u]
           /\ person'[t].state = changed.state /\ person'[t].role = changed.role
           /\ person'[t].active = changed.active /\ person'[t].auth = changed.auth + 1
<1> DEFINE c == [changed EXCEPT !.auth = @ + 1]
<1>1. /\ c \in PersonType /\ c.state = changed.state /\ c.role = changed.role
      /\ c.active = changed.active /\ c.auth = changed.auth + 1
  BY DEF PersonType
<1>2. person \in [Users -> PersonType] /\ person' = [person EXCEPT ![t] = c]
  BY DEF UserTypeOK, SecurityChange
<1> HIDE DEF c
<1> QED
  BY <1>1, <1>2

\* Nobody becomes or ceases to be root by it, and a root stays active.
LEMMA RootedKept ==
    ASSUME UserInv, person' \in [Users -> PersonType], boot' = boot,
           \A u \in Users : person'[u].role = "root" <=> person[u].role = "root",
           \A u \in Users : person[u].role = "root" =>
               person'[u].state = person[u].state /\ person'[u].active = person[u].active
    PROVE  Rooted'
BY DEF UserInv, Rooted, Active

\* An account whose row, head and role stay keeps its policy.
LEMMA PolicyUntouched ==
    ASSUME NEW u \in Users, PolicyKept(u), head'[u] = head[u], rows'[u] = rows[u], person'[u].role = person[u].role
    PROVE  PolicyKept(u)'
BY DEF PolicyKept, LiveRows

\* Replacing the rules leaves a policy that loads, if only administrators are given rules.
LEMMA PolicyReplaced ==
    ASSUME UserTypeOK, NEW u \in Users, NEW R \in SUBSET RuleUniverse, NEW v \in Nat, NEW D, \A x \in D : x.dead,
           head'[u] = [version |-> v, count |-> Cardinality(R), dead |-> FALSE], v > 0,
           rows'[u] = D \cup Rows(R, v), person'[u].role # "admin" => R = {}
    PROVE  PolicyKept(u)' /\ Rules(u)' = R
<1>1. LiveRows(u)' = Rows(R, v)
  BY RowsCount DEF LiveRows
<1>2. head'[u] # NoHead
  BY DEF NoHead
<1>3. R = {} => Rows(R, v) = {}
  BY DEF Rows
<1>4. Rules(u)' = {x.rule : x \in Rows(R, v)}
  BY <1>1 DEF Rules
<1> QED
  BY <1>1, <1>2, <1>3, <1>4, RowsCount DEF PolicyKept

----------------------------------------------------------------------------
(* The actions *)

\* An account that comes to be is live and new, with the policy of its role.
LEMMA NewcomerKeeps ==
    ASSUME UserInv, NEW u \in Users, person[u] = Nobody, NEW role \in Roles,
           person' = [person EXCEPT ![u] = NewPerson(role)],
           head' \in [Users -> HeadType], rows' \in [Users -> SUBSET RowType],
           response' \in [Users -> {"none", "kept", "redacted"}], boot' \in [Replicas -> {"idle", "counted"}],
           \A v \in Users : v # u => head'[v] = head[v] /\ rows'[v] = rows[v] /\ response'[v] = response[v],
           PolicyKept(u)', Rooted', intent' = intent \/ \E q \in Calls : Finish(q)
    PROVE  UserInv'
<1>1. /\ NewPerson(role) \in PersonType /\ NewPerson(role).state = "live" /\ NewPerson(role).role = role
      /\ person[u].state = "none"
  BY DEF NewPerson, PersonType, Nobody
<1>2. person \in [Users -> PersonType]
  BY DEF UserInv, UserTypeOK
<1>3. /\ person' \in [Users -> PersonType] /\ person'[u].state = "live" /\ person'[u].role = role
      /\ \A v \in Users : v # u => person'[v] = person[v]
  BY <1>1, <1>2
<1>4. \A v \in Users : v # u => Rules(v)' = Rules(v) /\ LiveRows(v)' = LiveRows(v)
  BY DEF Rules, LiveRows
<1>5. intent' \in [Calls -> IntentType] /\ Sights'
  BY <1>1, <1>3, <1>4, SightsKept
<1>6. Policies'
  BY <1>1, <1>3, PolicyUntouched DEF UserInv, Policies
<1>7. ErasedMeansErased'
  BY <1>3, <1>4 DEF UserInv, ErasedMeansErased
<1> QED
  BY <1>3, <1>5, <1>6, <1>7 DEF UserInv, UserTypeOK

\* A registration makes a user without policy.
LEMMA RegistersKeeps == ASSUME UserInv, NEW u \in Users, Registers(u) PROVE UserInv'
<1>1. /\ person[u] = Nobody /\ person' = [person EXCEPT ![u] = NewPerson("user")]
      /\ UNCHANGED <<head, rows, response, intent, boot>>
  BY DEF Registers
<1>2. person[u].state = "none" /\ person[u].role = "user" /\ person \in [Users -> PersonType]
  BY <1>1 DEF Nobody, UserInv, UserTypeOK
<1>3. person'[u].role = "user" /\ \A v \in Users : v # u => person'[v] = person[v]
  BY <1>1, <1>2 DEF NewPerson
<1>4. rows'[u] = {} /\ head'[u] = NoHead
  BY <1>1, <1>2 DEF UserInv, Policies
<1>5. PolicyKept(u)'
  BY <1>4 DEF PolicyKept, LiveRows
<1>6. Rooted'
  BY <1>1, <1>2, <1>3 DEF UserInv, Rooted, Active
<1> QED
  BY <1>1, <1>5, <1>6, NewcomerKeeps DEF UserInv, UserTypeOK, Roles

\* The replica that counted no root inserts the one there is.
LEMMA BootstrapInsertsKeeps ==
    ASSUME UserInv, NEW p \in Replicas, NEW u \in Users, BootstrapInserts(p, u) PROVE UserInv'
<1>1. /\ boot[p] = "counted" /\ person[u] = Nobody /\ person' = [person EXCEPT ![u] = NewPerson("root")]
      /\ boot' = [boot EXCEPT ![p] = "idle"] /\ UNCHANGED <<head, rows, response, intent>>
  BY DEF BootstrapInserts
<1>2. person[u].state = "none" /\ person \in [Users -> PersonType] /\ boot \in [Replicas -> {"idle", "counted"}]
  BY <1>1 DEF Nobody, UserInv, UserTypeOK
<1>3. /\ person'[u].role = "root" /\ person'[u].state = "live" /\ person'[u].active
      /\ \A v \in Users : v # u => person'[v] = person[v] /\ person[v].role # "root"
  BY <1>1, <1>2 DEF NewPerson, UserInv, Rooted
<1>4. boot' \in [Replicas -> {"idle", "counted"}] /\ \A q \in Replicas : boot'[q] = "idle"
  BY <1>1, <1>2 DEF UserInv, Rooted
<1>5. rows'[u] = {} /\ head'[u] = NoHead
  BY <1>1, <1>2 DEF UserInv, Policies
<1>6. PolicyKept(u)'
  BY <1>5 DEF PolicyKept, LiveRows
<1>7. Rooted'
  BY <1>3, <1>4 DEF Rooted, Active
<1> QED
  BY <1>1, <1>4, <1>6, <1>7, NewcomerKeeps DEF UserInv, UserTypeOK, Roles

\* A creation writes the policy with the account.
LEMMA CreatesKeeps == ASSUME UserInv, NEW q \in Calls, NEW u \in Users, Creates(q, u) PROVE UserInv'
<1> DEFINE i == intent[q]
<1>1. /\ person[u] = Nobody /\ person' = [person EXCEPT ![u] = NewPerson(i.role)]
      /\ response' = [response EXCEPT ![u] = "kept"] /\ Finish(q) /\ boot' = boot
  BY DEF Creates, AnswerKept
<1>2. /\ i.role \in {"user", "admin"} /\ i.rules \in SUBSET RuleUniverse
      /\ person[u].state = "none" /\ person[u].role = "user" /\ person \in [Users -> PersonType]
  BY <1>1 DEF Nobody, UserInv, UserTypeOK, IntentType
<1>3. person'[u].role = i.role /\ \A v \in Users : v # u => person'[v] = person[v]
  BY <1>1, <1>2 DEF NewPerson
<1>4. response' \in [Users -> {"none", "kept", "redacted"}] /\ \A v \in Users : v # u => response'[v] = response[v]
  BY <1>1 DEF UserInv, UserTypeOK
<1>5. Rooted'
  BY <1>1, <1>2, <1>3 DEF UserInv, Rooted, Active
<1>6. CASE i.role = "admin" /\ AdminPolicyOf(u, i.rules)
  <2> DEFINE h == [version |-> 1, count |-> Cardinality(i.rules), dead |-> FALSE]
  <2>1. h \in HeadType /\ Rows(i.rules, 1) \in SUBSET RowType
    BY <1>2, RulesFinite, RowsCount DEF HeadType
  <2>2. /\ head' = [head EXCEPT ![u] = h] /\ rows' = [rows EXCEPT ![u] = Rows(i.rules, 1)]
        /\ head \in [Users -> HeadType] /\ rows \in [Users -> SUBSET RowType]
    BY <1>6 DEF AdminPolicyOf, UserInv, UserTypeOK
  <2>3. head' \in [Users -> HeadType] /\ rows' \in [Users -> SUBSET RowType]
    BY <2>1, <2>2
  <2>4. /\ head'[u] = h /\ rows'[u] = {} \cup Rows(i.rules, 1)
        /\ \A v \in Users : v # u => head'[v] = head[v] /\ rows'[v] = rows[v]
    BY <2>2
  <2>5. PolicyKept(u)'
    <3>1. PICK R \in SUBSET RuleUniverse : R = i.rules
      BY <1>2
    <3>2. PICK D : D = {}
      OBVIOUS
    <3>3. /\ head'[u] = [version |-> 1, count |-> Cardinality(R), dead |-> FALSE]
          /\ rows'[u] = D \cup Rows(R, 1) /\ (person'[u].role # "admin" => R = {})
      BY <1>3, <1>6, <2>4, <3>1, <3>2
    <3>4. 1 \in Nat /\ 1 > 0 /\ (\A x \in D : x.dead) /\ UserTypeOK
      BY <3>2 DEF UserInv
    <3> QED
      BY <3>3, <3>4, PolicyReplaced, Zenon
  <2> QED
    BY <1>1, <1>2, <1>4, <1>5, <2>3, <2>4, <2>5, NewcomerKeeps DEF UserInv, UserTypeOK, Roles
<1>7. CASE i.role # "admin" /\ UNCHANGED <<head, rows>>
  <2>1. rows'[u] = {} /\ head'[u] = NoHead
    BY <1>2, <1>7 DEF UserInv, Policies
  <2>2. PolicyKept(u)'
    BY <2>1 DEF PolicyKept, LiveRows
  <2> QED
    BY <1>1, <1>2, <1>4, <1>5, <1>7, <2>2, NewcomerKeeps DEF UserInv, UserTypeOK, Roles
<1> QED
  BY <1>6, <1>7 DEF Creates

\* Only an account of lower rank is managed, so never a root.
LEMMA ManagedIsNoRoot ==
    ASSUME UserTypeOK, NEW a \in Users \cup {NoUser}, NEW t \in Users, Manages(a, t)
    PROVE  person[t].state = "live" /\ person[t].role \in {"user", "admin"}
<1>1. CASE person[t].role = "root"
  <2>1. Rank(person[t].role) = 3
    BY <1>1 DEF Rank
  <2>2. \E c \in Capabilities : Can(a, c)
    BY DEF Manages
  <2>3. person[a].role \in {"root", "admin"}
    BY <2>2 DEF Can
  <2>4. Rank(person[a].role) \in {2, 3}
    BY <2>3 DEF Rank
  <2>5. Rank(person[t].role) < Rank(person[a].role)
    BY DEF Manages
  <2> QED
    BY <2>1, <2>4, <2>5
<1>2. person[t].role \in {"user", "admin", "root"}
  BY DEF UserTypeOK, PersonType, Roles
<1> QED
  BY <1>1, <1>2 DEF Manages

\* A request about an account names one.
LEMMA TargetNamed ==
    ASSUME UserInv, NEW q \in Calls, intent[q].op \notin {"none", "create"}
    PROVE  intent[q].target \in Users /\ intent[q].actor \in Users \cup {NoUser} /\ intent[q] \in IntentType
BY DEF UserInv, UserTypeOK, Sights, IntentType

\* A change that leaves state, role and policy and moves the version.
LEMMA VersionMoveKeeps ==
    ASSUME UserInv, NEW t \in Users, person[t].state = "live", NEW changed \in PersonType,
           changed.state = "live", changed.role = person[t].role, changed.auth = person[t].auth,
           person[t].role = "root" => changed.active = person[t].active,
           SecurityChange(t, changed), UNCHANGED <<head, rows, response, boot>>,
           intent' = intent \/ \E q \in Calls : Finish(q)
    PROVE  UserInv'
<1>1. /\ person' \in [Users -> PersonType] /\ \A u \in Users : u # t => person'[u] = person[u]
      /\ person'[t].state = "live" /\ person'[t].role = person[t].role
      /\ person'[t].active = changed.active /\ person'[t].auth = person[t].auth + 1
  BY SecurityChangeFields DEF UserInv
<1>2. person[t].auth \in Nat
  BY DEF UserInv, UserTypeOK, PersonType
<1>3. \A u \in Users : Rules(u)' = Rules(u) /\ LiveRows(u)' = LiveRows(u)
  BY DEF Rules, LiveRows
<1>4. intent' \in [Calls -> IntentType] /\ Sights'
  BY <1>1, <1>2, <1>3, SightsKept
<1>5. Rooted'
  BY <1>1, RootedKept
<1>6. Policies'
  BY <1>1, PolicyUntouched DEF UserInv, Policies
<1>7. ErasedMeansErased'
  BY <1>1, <1>3 DEF UserInv, ErasedMeansErased
<1> QED
  BY <1>1, <1>4, <1>5, <1>6, <1>7 DEF UserInv, UserTypeOK

\* Status, entitlement and password, of an account that is managed or one's own.
LEMMA ChangesKeep ==
    ASSUME UserInv,
           \/ \E q \in Calls : StatusChanges(q) \/ EntitlementChanges(q) \/ PasswordResets(q)
           \/ \E u \in Users : OwnPasswordChanges(u)
    PROVE  UserInv'
<1>0. person \in [Users -> PersonType]
  BY DEF UserInv, UserTypeOK
<1>1. ASSUME NEW q \in Calls, StatusChanges(q) PROVE UserInv'
  <2> DEFINE t == intent[q].target  changed == [person[t] EXCEPT !.active = ~@]
  <2>1. t \in Users /\ person[t].state = "live" /\ person[t].role # "root"
    BY <1>1, TargetNamed, ManagedIsNoRoot DEF StatusChanges, ChangePosted, UserInv
  <2>2. /\ changed \in PersonType /\ changed.state = "live" /\ changed.role = person[t].role
        /\ changed.auth = person[t].auth
    BY <1>0, <2>1 DEF PersonType
  <2>3. SecurityChange(t, changed) /\ UNCHANGED <<head, rows, response, boot>> /\ Finish(q)
    BY <1>1 DEF StatusChanges
  <2> HIDE DEF t, changed
  <2> QED
    BY <2>1, <2>2, <2>3, VersionMoveKeeps
<1>2. ASSUME NEW q \in Calls, EntitlementChanges(q) \/ PasswordResets(q) PROVE UserInv'
  <2> DEFINE t == intent[q].target
  <2>1. t \in Users /\ person[t].state = "live"
    BY <1>2, TargetNamed, ManagedIsNoRoot
       DEF EntitlementChanges, PasswordResets, ChangePosted, ResetPosted, UserInv
  <2>2. SecurityChange(t, person[t]) /\ UNCHANGED <<head, rows, response, boot>> /\ Finish(q)
    BY <1>2 DEF EntitlementChanges, PasswordResets
  <2> HIDE DEF t
  <2> QED
    BY <1>0, <2>1, <2>2, VersionMoveKeeps
<1>3. ASSUME NEW u \in Users, OwnPasswordChanges(u) PROVE UserInv'
  BY <1>0, <1>3, VersionMoveKeeps DEF OwnPasswordChanges, Active
<1> QED
  BY <1>1, <1>2, <1>3

\* A deletion leaves tombstones and no answer.
LEMMA DeletesKeeps == ASSUME UserInv, NEW q \in Calls, Deletes(q) PROVE UserInv'
<1>0. person \in [Users -> PersonType] /\ UserTypeOK
  BY DEF UserInv, UserTypeOK
<1>1. PICK t \in Users : t = intent[q].target /\ person[t].state = "live" /\ person[t].role # "root"
  BY TargetNamed, ManagedIsNoRoot DEF Deletes, DeletePosted, UserInv
<1> DEFINE changed == [person[t] EXCEPT !.state = "deleted", !.active = FALSE]
<1>2. /\ changed \in PersonType /\ changed.state = "deleted" /\ changed.role = person[t].role
      /\ changed.auth = person[t].auth
  BY <1>0, <1>1 DEF PersonType
<1>3. /\ SecurityChange(t, changed) /\ Finish(q) /\ boot' = boot
      /\ head' = [head EXCEPT ![t] = IF @ = NoHead THEN NoHead ELSE [@ EXCEPT !.dead = TRUE]]
      /\ rows' = [rows EXCEPT ![t] = Tombstoned(t)] /\ response' = [response EXCEPT ![t] = Redacted(t)]
  BY <1>1 DEF Deletes
<1> HIDE DEF changed
<1>4. /\ person' \in [Users -> PersonType] /\ \A u \in Users : u # t => person'[u] = person[u]
      /\ person'[t].state = "deleted" /\ person'[t].role = person[t].role /\ person'[t].auth = person[t].auth + 1
  BY <1>0, <1>1, <1>2, <1>3, SecurityChangeFields
<1>5. /\ rows' \in [Users -> SUBSET RowType] /\ (\A x \in rows'[t] : x.dead)
      /\ \A u \in Users : u # t => rows'[u] = rows[u]
  BY <1>0, <1>1, <1>3, TombstonesDead DEF UserTypeOK
<1>6. head' \in [Users -> HeadType] /\ \A u \in Users : u # t => head'[u] = head[u]
  <2>1. NoHead \in HeadType /\ [head[t] EXCEPT !.dead = TRUE] \in HeadType /\ head \in [Users -> HeadType]
    BY <1>0, <1>1 DEF UserTypeOK, HeadType, NoHead
  <2> QED
    BY <1>3, <2>1
<1>7. /\ response' \in [Users -> {"none", "kept", "redacted"}] /\ response'[t] # "kept"
      /\ \A u \in Users : u # t => response'[u] = response[u]
  BY <1>0, <1>1, <1>3 DEF UserTypeOK, Redacted
<1>8. LiveRows(t)' = {} /\ \A u \in Users : u # t => LiveRows(u)' = LiveRows(u) /\ Rules(u)' = Rules(u)
  BY <1>5 DEF LiveRows, Rules
<1>9. intent' \in [Calls -> IntentType] /\ Sights'
  <2>1. person[t].auth \in Nat
    BY <1>0, <1>1 DEF PersonType
  <2> QED
    BY <1>3, <1>4, <1>8, <2>1, SightsKept
<1>10. Rooted'
  BY <1>1, <1>3, <1>4, RootedKept
<1>11. Policies'
  BY <1>1, <1>4, <1>5, <1>6, <1>7, PolicyUntouched DEF UserInv, Policies
<1>12. ErasedMeansErased'
  BY <1>4, <1>7, <1>8 DEF UserInv, ErasedMeansErased
<1> QED
  BY <1>3, <1>4, <1>5, <1>6, <1>7, <1>9, <1>10, <1>11, <1>12, <1>0 DEF UserInv, UserTypeOK

\* What a change of role or rules does to its target.
LEMMA RolePermissionFields ==
    ASSUME UserInv, NEW q \in Calls, NEW t \in Users, t = intent[q].target, RolePermissionCommits(q)
    PROVE  /\ person' \in [Users -> PersonType] /\ \A u \in Users : u # t => person'[u] = person[u]
           /\ person[t].state = "live" /\ person[t].role \in {"user", "admin"} /\ person[t].auth = intent[q].auth
           /\ person'[t].state = "live" /\ person'[t].role = intent[q].role
           /\ person'[t].active = person[t].active /\ person'[t].auth = person[t].auth + 1
           /\ head' \in [Users -> HeadType] /\ \A u \in Users : u # t => head'[u] = head[u]
           /\ rows' \in [Users -> SUBSET RowType] /\ \A u \in Users : u # t => rows'[u] = rows[u]
           /\ PolicyKept(t)'
<1> DEFINE i == intent[q]  changed == [person[t] EXCEPT !.role = i.role]
<1>0. person \in [Users -> PersonType] /\ UserTypeOK
  BY DEF UserInv, UserTypeOK
<1>1. i.op \in {"promote", "demote", "write"}
  BY DEF RolePermissionCommits, PlanTransition, RolePosted, RulesPosted
<1>2. i \in IntentType /\ i.actor \in Users \cup {NoUser}
  BY <1>1, TargetNamed
<1>3. i.role \in {"user", "admin"} /\ i.rules \in SUBSET RuleUniverse /\ i.policy \in Nat
  BY <1>2 DEF IntentType
<1>4. i.role = "user" => i.rules = {}
  BY DEF UserInv, Sights
<1>5. person[t].state = "live" /\ person[t].role \in {"user", "admin"} /\ person[t].auth = i.auth
  BY <1>0, <1>2, ManagedIsNoRoot DEF RolePermissionCommits, PlanTransition, Fresh
<1>6. /\ changed \in PersonType /\ changed.state = "live" /\ changed.role = i.role
      /\ changed.active = person[t].active /\ changed.auth = person[t].auth
  BY <1>0, <1>3, <1>5 DEF PersonType, Roles
<1>7. /\ SecurityChange(t, changed)
      /\ rows' = [rows EXCEPT ![t] = Tombstoned(t) \cup Rows(i.rules, i.policy + 1)]
      /\ head' = [head EXCEPT ![t] = [version |-> i.policy + 1, count |-> Cardinality(i.rules), dead |-> FALSE]]
  BY DEF RolePermissionCommits, NewHead
<1> HIDE DEF changed
<1>8. /\ person' \in [Users -> PersonType] /\ \A u \in Users : u # t => person'[u] = person[u]
      /\ person'[t].state = "live" /\ person'[t].role = i.role
      /\ person'[t].active = person[t].active /\ person'[t].auth = person[t].auth + 1
  BY <1>0, <1>6, <1>7, SecurityChangeFields
<1>9. PICK R \in SUBSET RuleUniverse : R = i.rules
  BY <1>3
<1>10. PICK v \in Nat : v = i.policy + 1 /\ v > 0
  BY <1>3
<1>11. PICK D : D = Tombstoned(t)
  OBVIOUS
<1>12. D \in SUBSET RowType /\ (\A x \in D : x.dead) /\ Rows(R, v) \in SUBSET RowType
  <2>1. Tombstoned(t) \in SUBSET RowType /\ \A x \in Tombstoned(t) : x.dead
    BY <1>0, TombstonesDead
  <2>2. Rows(R, v) \in SUBSET RowType
    BY RowsCount
  <2> QED
    BY <1>11, <2>1, <2>2
<1>13. [version |-> v, count |-> Cardinality(R), dead |-> FALSE] \in HeadType
  BY <1>9, <1>10, RulesFinite DEF HeadType
<1>14. head \in [Users -> HeadType] /\ rows \in [Users -> SUBSET RowType]
  BY <1>0 DEF UserTypeOK
<1>15. /\ head' \in [Users -> HeadType] /\ \A u \in Users : u # t => head'[u] = head[u]
       /\ head'[t] = [version |-> v, count |-> Cardinality(R), dead |-> FALSE]
  BY <1>7, <1>9, <1>10, <1>13, <1>14
<1>16. /\ rows' \in [Users -> SUBSET RowType] /\ \A u \in Users : u # t => rows'[u] = rows[u]
       /\ rows'[t] = D \cup Rows(R, v)
  BY <1>7, <1>9, <1>10, <1>11, <1>12, <1>14
<1>17. person'[t].role # "admin" => R = {}
  BY <1>3, <1>4, <1>8, <1>9
<1>18. PolicyKept(t)'
  BY <1>0, <1>10, <1>12, <1>15, <1>16, <1>17, PolicyReplaced, Zenon
<1> QED
  BY <1>5, <1>8, <1>15, <1>16, <1>18

\* A change of role or rules keeps every policy, and the one root.
LEMMA RolePermissionKeeps == ASSUME UserInv, NEW q \in Calls, RolePermissionCommits(q) PROVE UserInv'
<1>1. intent[q].op \in {"promote", "demote", "write"}
  BY DEF RolePermissionCommits, PlanTransition, RolePosted, RulesPosted
<1>2. PICK t \in Users : t = intent[q].target
  BY <1>1, TargetNamed
<1>3. /\ person' \in [Users -> PersonType] /\ \A u \in Users : u # t => person'[u] = person[u]
      /\ person[t].state = "live" /\ person[t].role \in {"user", "admin"}
      /\ person'[t].state = "live" /\ person'[t].role = intent[q].role
      /\ person'[t].auth = person[t].auth + 1
      /\ head' \in [Users -> HeadType] /\ \A u \in Users : u # t => head'[u] = head[u]
      /\ rows' \in [Users -> SUBSET RowType] /\ \A u \in Users : u # t => rows'[u] = rows[u]
      /\ PolicyKept(t)'
  BY <1>2, RolePermissionFields
<1>4. intent[q].role \in {"user", "admin"} /\ person[t].auth \in Nat /\ UserTypeOK
  BY DEF UserInv, UserTypeOK, IntentType, PersonType
<1>5. Finish(q) /\ response' = response /\ boot' = boot
  BY DEF RolePermissionCommits
<1>6. \A u \in Users : u # t => LiveRows(u)' = LiveRows(u) /\ Rules(u)' = Rules(u)
  BY <1>3 DEF LiveRows, Rules
<1>7. intent' \in [Calls -> IntentType] /\ Sights'
  BY <1>3, <1>4, <1>5, <1>6, SightsKept
<1>8. Rooted'
  BY <1>3, <1>4, <1>5, RootedKept
<1>9. Policies'
  BY <1>3, <1>5, PolicyUntouched DEF UserInv, Policies
<1>10. ErasedMeansErased'
  BY <1>3, <1>5, <1>6 DEF UserInv, ErasedMeansErased
<1> QED
  BY <1>3, <1>4, <1>5, <1>7, <1>8, <1>9, <1>10 DEF UserInv, UserTypeOK

\* Where no row changes, everything that is said of the rows stays.
LEMMA StandingUntouched ==
    ASSUME UserInv, UNCHANGED <<person, head, rows, response>>
    PROVE  /\ Policies' /\ ErasedMeansErased' /\ \A u \in Users : Rules(u)' = Rules(u)
           /\ boot' = boot => Rooted'
<1>1. \A u \in Users : Rules(u)' = Rules(u) /\ LiveRows(u)' = LiveRows(u)
  BY DEF Rules, LiveRows
<1>2. Policies'
  BY PolicyUntouched DEF UserInv, Policies
<1>3. ErasedMeansErased'
  BY <1>1 DEF UserInv, ErasedMeansErased
<1>4. boot' = boot => Rooted'
  BY DEF UserInv, Rooted, Active
<1> QED
  BY <1>1, <1>2, <1>3, <1>4

\* A request that is prepared names what its page showed.
LEMMA PreparesKeeps ==
    ASSUME UserInv, NEW q \in Calls, NEW a \in Users, NEW i \in Inputs, Prepares(q, a, i) PROVE UserInv'
<1>1. UNCHANGED <<person, head, rows, response, boot>>
  BY DEF Prepares
<1>2. /\ i.op \in Operations \ {"none"} /\ i.target \in Users \cup {NoUser} /\ i.role \in {"user", "admin"}
      /\ i.rules \in SUBSET RuleUniverse /\ (i.role = "user" => i.rules = {})
      /\ i.op # "create" => i.target \in Users /\ (i.op \in {"promote", "write"} => i.role = "admin")
  BY DEF Inputs, Operations, RuleSets, RuleUniverse, NoRulesForUsers, RoleIntent
<1>3. /\ person \in [Users -> PersonType] /\ head \in [Users -> HeadType] /\ intent \in [Calls -> IntentType]
      /\ UserTypeOK /\ person[a].auth \in Nat
  BY DEF UserInv, UserTypeOK, PersonType
<1>4. CASE i.op = "create" /\ intent' = [intent EXCEPT ![q] = CreateIntent(a, i)]
  <2> DEFINE n == CreateIntent(a, i)
  <2>1. n \in IntentType /\ n.op = "create" /\ n.role = i.role /\ n.rules = i.rules
    BY <1>2, <1>3 DEF CreateIntent, NoIntent, IntentType, Operations
  <2> HIDE DEF n
  <2>2. /\ intent' \in [Calls -> IntentType] /\ intent'[q] = n
        /\ \A r \in Calls : r # q => intent'[r] = intent[r]
    BY <1>3, <1>4, <2>1 DEF n
  <2>3. \A u \in Users : Rules(u)' = Rules(u)
    BY <1>1 DEF Rules, LiveRows
  <2>4. Sights'
    BY <1>1, <1>2, <2>1, <2>2, <2>3 DEF UserInv, Sights
  <2> QED
    BY <1>1, <2>2, <2>4, StandingUntouched DEF UserInv, UserTypeOK
<1>5. CASE i.op # "create" /\ person[i.target].state = "live" /\ intent' = [intent EXCEPT ![q] = TargetIntent(a, i)]
  <2>1. i.target \in Users
    BY <1>2, <1>5
  <2>2. Rules(i.target) \in SUBSET RuleUniverse
    BY <1>3, <2>1, RulesTyped
  <2>3. person[i.target] \in PersonType /\ head[i.target].version \in Nat
    BY <1>3, <2>1 DEF HeadType
  <2> DEFINE n == TargetIntent(a, i)
  <2>4. /\ n \in IntentType /\ n.op = i.op /\ n.role = i.role /\ n.rules = i.rules /\ n.target = i.target
        /\ n.auth = person[i.target].auth /\ n.seen = Rules(i.target) /\ n.active = person[i.target].active
    BY <1>2, <1>3, <1>5, <2>1, <2>2, <2>3 DEF TargetIntent, IntentType, PersonType
  <2>5. /\ intent' \in [Calls -> IntentType] /\ intent'[q] = n
        /\ \A r \in Calls : r # q => intent'[r] = intent[r]
    BY <1>3, <1>5, <2>4
  <2> HIDE DEF n
  <2>6. \A u \in Users : Rules(u)' = Rules(u)
    BY <1>1 DEF Rules, LiveRows
  <2>7. person[i.target].auth \in Nat
    BY <2>3 DEF PersonType
  <2>8. Sights'
    BY <1>1, <1>2, <1>5, <2>1, <2>4, <2>5, <2>6, <2>7 DEF UserInv, Sights
  <2> QED
    BY <1>1, <2>5, <2>8, StandingUntouched DEF UserInv, UserTypeOK
<1> QED
  BY <1>4, <1>5 DEF Prepares

\* A replica that counts takes the lock; one that dies gives it back.
LEMMA BootstrapKeeps ==
    ASSUME UserInv, NEW p \in Replicas, BootstrapCounts(p) \/ BootstrapDies(p) PROVE UserInv'
<1>1. UNCHANGED <<person, head, rows, response, intent>> /\ boot \in [Replicas -> {"idle", "counted"}]
  BY DEF BootstrapCounts, BootstrapDies, UserInv, UserTypeOK
<1>2. boot' \in [Replicas -> {"idle", "counted"}] /\ Rooted'
  BY <1>1 DEF BootstrapCounts, BootstrapDies, BootLocked, UserInv, Rooted, Active
<1>3. person' \in [Users -> PersonType]
  BY <1>1 DEF UserInv, UserTypeOK
<1>4. Policies' /\ ErasedMeansErased' /\ \A u \in Users : Rules(u)' = Rules(u)
  BY <1>1, StandingUntouched
<1>5. Sights'
  BY <1>1, <1>3, <1>4, SightsKept
<1> QED
  BY <1>1, <1>2, <1>4, <1>5 DEF UserInv, UserTypeOK

\* A request that ends without effect, or one that stutters.
LEMMA EndingKeeps ==
    ASSUME UserInv, UNCHANGED <<person, head, rows, response, boot>>,
           intent' = intent \/ \E q \in Calls : Finish(q)
    PROVE  UserInv'
<1>1. person' \in [Users -> PersonType]
  BY DEF UserInv, UserTypeOK
<1>2. Policies' /\ ErasedMeansErased' /\ Rooted' /\ \A u \in Users : Rules(u)' = Rules(u)
  BY StandingUntouched
<1>3. intent' \in [Calls -> IntentType] /\ Sights'
  BY <1>1, <1>2, SightsKept
<1> QED
  BY <1>2, <1>3 DEF UserInv, UserTypeOK

\* Every step keeps the invariant.
LEMMA UserInvNext == UserInv /\ [UserNext]_userVars => UserInv'
<1> SUFFICES ASSUME UserInv, [UserNext]_userVars PROVE UserInv'
  OBVIOUS
<1>1. ASSUME NEW u \in Users, Registers(u) PROVE UserInv'
  BY <1>1, RegistersKeeps
<1>2. ASSUME NEW p \in Replicas, BootstrapCounts(p) \/ BootstrapDies(p) PROVE UserInv'
  BY <1>2, BootstrapKeeps
<1>3. ASSUME NEW p \in Replicas, NEW u \in Users, BootstrapInserts(p, u) PROVE UserInv'
  BY <1>3, BootstrapInsertsKeeps
<1>4. ASSUME NEW q \in Calls, NEW a \in Users, NEW i \in Inputs, Prepares(q, a, i) PROVE UserInv'
  BY <1>4, PreparesKeeps
<1>5. ASSUME NEW q \in Calls, NEW u \in Users, Creates(q, u) PROVE UserInv'
  BY <1>5, CreatesKeeps
<1>6. ASSUME NEW q \in Calls, RolePermissionCommits(q) PROVE UserInv'
  BY <1>6, RolePermissionKeeps
<1>7. ASSUME NEW q \in Calls, Deletes(q) PROVE UserInv'
  BY <1>7, DeletesKeeps
<1>8. CASE \/ \E q \in Calls : StatusChanges(q) \/ EntitlementChanges(q) \/ PasswordResets(q)
           \/ \E u \in Users : OwnPasswordChanges(u)
  BY <1>8, ChangesKeep
<1>9. ASSUME NEW q \in Calls, NicknameEdits(q) \/ GivesUp(q) PROVE UserInv'
  <2>1. UNCHANGED <<person, head, rows, response, boot>> /\ Finish(q)
    BY <1>9 DEF NicknameEdits, GivesUp
  <2> QED
    BY <2>1, EndingKeeps
<1>10. CASE UNCHANGED userVars
  BY <1>10, EndingKeeps DEF userVars
<1> QED
  BY <1>1, <1>2, <1>3, <1>4, <1>5, <1>6, <1>7, <1>8, <1>9, <1>10 DEF UserNext

----------------------------------------------------------------------------
(* The results *)

\* Types, the lock of the bootstrap, the policies and what requests saw, in every reachable state.
THEOREM UserInvariant == UserSpec => []UserInv
<1> QED
  BY UserInvInit, UserInvNext, PTL DEF UserSpec

\* However many replicas start together and whatever administrators do, there is at most one root and it is active.
THEOREM UserOneRoot == UserSpec => []OneRoot
<1>1. UserInv => OneRoot
  <2> SUFFICES ASSUME UserInv PROVE OneRoot
    OBVIOUS
  <2> DEFINE roots == {u \in Users : person[u].role = "root"}
  <2>1. CASE roots = {}
    BY <2>1, FS_EmptySet DEF UserInv, Rooted, OneRoot
  <2>2. ASSUME NEW r \in roots PROVE OneRoot
    <3>1. roots = {r}
      BY DEF UserInv, Rooted
    <3>2. Cardinality(roots) = 1
      BY <3>1, FS_Singleton
    <3> QED
      BY <3>2 DEF UserInv, Rooted, OneRoot
  <2> QED
    BY <2>1, <2>2
<1> QED
  BY <1>1, UserInvariant, PTL

\* After any sequence of creations, promotions, demotions and rewritings every live account's policy loads.
THEOREM UserPolicyStands == UserSpec => []PolicyStands
<1>1. UserInv => PolicyStands
  <2> SUFFICES ASSUME UserInv, NEW u \in Users, person[u].state = "live"
               PROVE  PolicyLoads(u) /\ (person[u].role = "user" => LiveRows(u) = {})
    BY DEF PolicyStands
  <2>1. PolicyKept(u)
    BY DEF UserInv, Policies
  <2>2. Rules(u) # {} => LiveRows(u) # {}
    BY DEF Rules
  <2> QED
    BY <2>1, <2>2 DEF PolicyKept, PolicyLoads
<1> QED
  BY <1>1, UserInvariant, PTL

\* Of a deleted account no rule and no readable answer stays.
THEOREM UserErasedMeansErased == UserSpec => []ErasedMeansErased
<1>1. UserInv => ErasedMeansErased
  BY DEF UserInv
<1> QED
  BY <1>1, UserInvariant, PTL

\* A new account is written where there was none.
LEMMA NewcomerIsApart ==
    ASSUME UserInv, NEW u \in Users, person[u].state = "live", NEW v \in Users, person[v] = Nobody,
           NEW new, person' = [person EXCEPT ![v] = new],
           \A w \in Users : w # v => rows'[w] = rows[w]
    PROVE  Rules(u)' = Rules(u) /\ person'[u].role = person[u].role /\ person'[u].active = person[u].active
<1>1. u # v
  BY DEF Nobody
<1> QED
  BY <1>1 DEF UserInv, UserTypeOK, Rules, LiveRows

\* One step changes rules, role or status of a live account only for a request that saw what it replaces.
LEMMA StepLosesNothing ==
    ASSUME UserInv, [UserNext]_userVars, NEW u \in Users, person[u].state = "live",
           Rules(u)' # Rules(u) \/ person'[u].role # person[u].role \/ person'[u].active # person[u].active
    PROVE  \E q \in Calls : /\ intent[q].target = u /\ intent'[q] = NoIntent
                            /\ intent[q].seen = Rules(u) /\ intent[q].active = person[u].active
<1>0. person \in [Users -> PersonType] /\ rows \in [Users -> SUBSET RowType] /\ UserTypeOK
  BY DEF UserInv, UserTypeOK
<1>1. ~(rows'[u] = rows[u] /\ person'[u].role = person[u].role /\ person'[u].active = person[u].active)
  BY DEF Rules, LiveRows
<1>2. ASSUME NEW v \in Users, Registers(v) \/ \E p \in Replicas : BootstrapInserts(p, v) PROVE FALSE
  <2>1. person[v] = Nobody /\ rows' = rows /\ \E new : person' = [person EXCEPT ![v] = new]
    BY <1>2 DEF Registers, BootstrapInserts
  <2> QED
    BY <2>1, NewcomerIsApart
<1>3. ASSUME NEW q \in Calls, NEW v \in Users, Creates(q, v) PROVE FALSE
  <2>1. person[v] = Nobody /\ person' = [person EXCEPT ![v] = NewPerson(intent[q].role)]
    BY <1>3 DEF Creates
  <2>2. \A w \in Users : w # v => rows'[w] = rows[w]
    BY <1>0, <1>3 DEF Creates, AdminPolicyOf
  <2> QED
    BY <2>1, <2>2, NewcomerIsApart
<1>4. ASSUME NEW q \in Calls, EntitlementChanges(q) \/ PasswordResets(q) PROVE FALSE
  <2>1. PICK t \in Users : t = intent[q].target
    BY <1>4, TargetNamed DEF EntitlementChanges, PasswordResets, ChangePosted, ResetPosted
  <2>2. SecurityChange(t, person[t]) /\ person[t] \in PersonType /\ rows' = rows
    BY <1>0, <1>4, <2>1 DEF EntitlementChanges, PasswordResets
  <2>3. person'[u].role = person[u].role /\ person'[u].active = person[u].active
    BY <1>0, <2>2, SecurityChangeFields
  <2> QED
    BY <1>1, <2>2, <2>3
<1>5. ASSUME NEW v \in Users, OwnPasswordChanges(v) PROVE FALSE
  <2>1. person[v] \in PersonType /\ SecurityChange(v, person[v]) /\ rows' = rows
    BY <1>0, <1>5 DEF OwnPasswordChanges
  <2>2. person'[u].role = person[u].role /\ person'[u].active = person[u].active
    BY <1>0, <2>1, SecurityChangeFields
  <2> QED
    BY <1>1, <2>1, <2>2
<1>6. CASE UNCHANGED <<person, rows>>
  BY <1>1, <1>6
<1>7. ASSUME NEW q \in Calls, RolePermissionCommits(q) \/ Deletes(q) \/ StatusChanges(q)
      PROVE  /\ intent[q].target = u /\ intent'[q] = NoIntent
             /\ intent[q].seen = Rules(u) /\ intent[q].active = person[u].active
  <2>1. PICK t \in Users : t = intent[q].target
    BY <1>7, TargetNamed DEF RolePermissionCommits, PlanTransition, RolePosted, RulesPosted, Deletes, DeletePosted,
                            StatusChanges, ChangePosted
  <2>2. (person'[u] = person[u] /\ rows'[u] = rows[u]) \/ u = t
    BY <1>0, <1>7, <2>1 DEF RolePermissionCommits, Deletes, StatusChanges, SecurityChange
  <2>3. u = t
    BY <1>1, <2>2
  <2>4. person[t].auth = intent[q].auth /\ intent[q].op \notin {"none", "create"} /\ Finish(q)
    BY <1>7, <2>1 DEF RolePermissionCommits, PlanTransition, RolePosted, RulesPosted, Deletes, DeletePosted,
                     StatusChanges, ChangePosted, Fresh
  <2>5. intent[q].seen = Rules(t) /\ intent[q].active = person[t].active
    BY <2>1, <2>4 DEF UserInv, Sights
  <2> QED
    BY <1>0, <2>1, <2>3, <2>4, <2>5, FinishFields
<1>8. CASE \/ \E p \in Replicas : BootstrapCounts(p) \/ BootstrapDies(p)
           \/ \E q \in Calls, a \in Users, i \in Inputs : Prepares(q, a, i)
           \/ \E q \in Calls : NicknameEdits(q) \/ GivesUp(q)
           \/ UNCHANGED userVars
  BY <1>6, <1>8 DEF BootstrapCounts, BootstrapDies, Prepares, NicknameEdits, GivesUp, userVars
<1> QED
  BY <1>2, <1>3, <1>4, <1>5, <1>7, <1>8 DEF UserNext

\* Rules, role and status change only by a request whose author saw the rules it replaces and the status
\* that is there, for any number of accounts and requests.
THEOREM UserNoLostUpdate == UserSpec => NoLostUpdate
<1>1. UserInv /\ [UserNext]_userVars =>
        [\A u \in Users :
           /\ person[u].state = "live"
           /\ Rules(u)' # Rules(u) \/ person'[u].role # person[u].role \/ person'[u].active # person[u].active
           => \E q \in Calls : /\ intent[q].target = u /\ intent'[q] = NoIntent
                               /\ intent[q].seen = Rules(u) /\ intent[q].active = person[u].active]_userVars
  BY StepLosesNothing
<1> QED
  BY <1>1, UserInvariant, PTL DEF UserSpec, NoLostUpdate
=============================================================================
