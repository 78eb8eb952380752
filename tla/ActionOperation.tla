-------------------------- MODULE ActionOperation --------------------------
(***************************************************************************)
(* An administrator's sensitive action on one target user: a single-use    *)
(* verification ticket (action_verification.go), the idempotent operation  *)
(* that reserves it (action_operation.go) and the one execution that       *)
(* consumes it (action_execute.go).  Every service call is one MySQL       *)
(* transaction that holds the locks of the actor, the session, the         *)
(* operation and the ticket, so it is one step here; what can go wrong     *)
(* between the calls is a client that dies, a commit whose reply is lost,  *)
(* another administrator's change of the target, a revoked session and     *)
(* time.  Intents are told apart by the target version they expect.        *)
(***************************************************************************)
EXTENDS Naturals, FiniteSets

CONSTANTS Sessions, Keys, Tickets, Clients,
          None,           \* no key, no ticket, no session, no client
          Actions,        \* a subset of {"delete", "reset", "role"}
          ExecutionLease, \* life of an execution lease (30 s)
          Grace,          \* further wait before recovery (60 s)
          TicketTTL,      \* life of a ticket (5 min)
          Retention,      \* how long a result can be queried (30 days)
          MaxClock,       \* bound on the clock
          MaxVersion      \* bound on the target's and the actor's version

ASSUME OperationAssumption ==
    /\ {ExecutionLease, Grace, TicketTTL, Retention, MaxClock, MaxVersion} \subseteq Nat
    /\ ExecutionLease > 0 /\ TicketTTL > 0 /\ MaxVersion > 0
    /\ Actions \subseteq {"delete", "reset", "role"}
    /\ None \notin Keys \cup Tickets \cup Sessions \cup Clients

VARIABLES clock, action, authVersion, live, target, ticket, op, effects, record, client

operationVars == <<clock, action, authVersion, live, target, ticket, op, effects, record, client>>

Versions == 1 .. MaxVersion
Finished == {"succeeded", "failed"}
Unsettled == {"processing", "pending"}

NewTicket == [state |-> "new", session |-> None, version |-> 0, intent |-> 0, expires |-> 0]
\* An operation is made by one client, whose lease owner's digest it carries while it is leased.
NoOperation == [state |-> "absent", by |-> None, session |-> None, version |-> 0, intent |-> 0,
                ticket |-> None, leased |-> FALSE, lease |-> 0, query |-> 0]
Unstarted == [step |-> "idle", session |-> None, key |-> None, told |-> "nothing"]

OperationInit ==
    /\ clock = 0
    /\ action \in Actions
    /\ authVersion = 1
    /\ live = Sessions
    /\ target = [version |-> 1, reachable |-> TRUE]
    /\ ticket = [t \in Tickets |-> NewTicket]
    /\ op = [k \in Keys |-> NoOperation]
    /\ effects = [k \in Keys |-> 0]           \* business effects committed under a key
    /\ record = [k \in Keys |-> "none"]       \* the audit row and the outbox row, written together
    /\ client = [c \in Clients |-> Unstarted]

----------------------------------------------------------------------------
(* Tickets *)

\* Actor and session are locked and still those of the claims.
SignedIn(s) == s \in live

\* Actor, session and target are locked and the actor's policy allows the action.
Identified(s) == s \in live /\ target.reachable

Relation(t) ==
    CASE ticket[t].state = "consumed" -> "consumed"
      [] ticket[t].state = "issued" /\ ticket[t].expires > clock -> "active"
      [] OTHER -> "lapsed"

\* The ticket was issued to this actor, session, target and intent.
Bound(t, s, i) ==
    /\ t \in Tickets /\ ticket[t].state # "new"
    /\ ticket[t].session = s /\ ticket[t].version = authVersion /\ ticket[t].intent = i

\* A new ticket puts every open ticket of its session for the target out of use.
IssueTicket(s, t) ==
    /\ ticket[t].state = "new"
    /\ Identified(s)
    /\ ticket' = [u \in Tickets |->
         IF u = t THEN [state |-> "issued", session |-> s, version |-> authVersion,
                        intent |-> target.version, expires |-> clock + TicketTTL]
         ELSE IF ticket[u].session = s /\ Relation(u) = "active"
              THEN [ticket[u] EXCEPT !.state = "superseded"] ELSE ticket[u]]
    /\ UNCHANGED <<clock, action, authVersion, live, target, op, effects, record, client>>

----------------------------------------------------------------------------
(* Reading an operation *)

\* What the stored state of an operation allows its ticket to be.
StateFitsTicket(o) ==
    CASE o.state \in Unsettled -> Relation(o.ticket) # "consumed"
      [] o.state \in Finished -> Relation(o.ticket) = "consumed"
      [] o.state = "expired" -> /\ o.query <= clock
                                /\ \/ Relation(o.ticket) = "consumed"
                                   \/ ticket[o.ticket].state = "issued" /\ Relation(o.ticket) = "lapsed"
      [] OTHER -> FALSE

\* Mutant: a result expires one tick before its retention ends.
CanExpire_Early(o) == o.state \in Finished \cup {"pending"} /\ clock + 1 >= o.query

CanExpire(o) == o.state \in Finished \cup {"pending"} /\ clock >= o.query

\* Target, policy head and rules are locked and allow the action.
MayTouchTarget == target.reachable

\* Mutant: every reader is authorized against the target as it is now.
Authorized_Always(o) == MayTouchTarget

\* Finished operations are shown without asking again whether the target may be touched.
Authorized(o) == o.state \in Unsettled => MayTouchTarget

\* The status a reader that owns the operation is given, before HTTP wording.
View(o) == IF o.state = "expired" \/ CanExpire(o) THEN "expired" ELSE o.state

BeginView(s, i, t, o) ==
    IF o.session # s \/ o.intent # i THEN "conflict"
    ELSE IF \/ o.version # authVersion
            \/ t # o.ticket
            \/ ~Bound(t, s, i)
            \/ ~Authorized(o)
            \/ ~StateFitsTicket(o)
            \/ o.state \in Unsettled /\ Relation(t) # "active"
    THEN "refused"
    ELSE View(o)

QueryView(s, o) ==
    IF /\ SignedIn(s)
       /\ o.session = s /\ o.version = authVersion
       /\ Bound(o.ticket, s, o.intent)
       /\ Authorized(o)
       /\ StateFitsTicket(o)
    THEN View(o) ELSE "hidden"

\* Showing an expired view clears the stored result.
Expire(k) == op' = [op EXCEPT ![k].state = "expired", ![k].leased = FALSE, ![k].lease = 0]
ExpireIfDue(k, view) ==
    IF view = "expired" /\ op[k].state # "expired" THEN Expire(k) ELSE op' = op

\* The handler shows an unsettled operation as a commit whose outcome is unknown.
Told(view) == IF view \in Unsettled THEN "unknown" ELSE view

Answer(c, s, k, told) ==
    client' = [client EXCEPT ![c] = [step |-> "done", session |-> s, key |-> k, told |-> told]]

----------------------------------------------------------------------------
(* The client's POST: Begin, then Execute if Begin created the operation. *)

\* The limiter, the decoder or Redis turns the request away before any row is read.
TurnedAway(c, s, k) ==
    /\ client[c].step = "idle"
    /\ Answer(c, s, k, "refused")
    /\ UNCHANGED <<clock, action, authVersion, live, target, ticket, op, effects, record>>

BeginAgain(c, s, k, i, t) ==
    /\ client[c].step = "idle" /\ op[k].state # "absent"
    /\ LET view == IF SignedIn(s) THEN BeginView(s, i, t, op[k]) ELSE "refused"
       IN ExpireIfDue(k, view) /\ Answer(c, s, k, Told(view))
    /\ UNCHANGED <<clock, action, authVersion, live, target, ticket, effects, record>>

Reserved(t) == \E k \in Keys : op[k].state # "absent" /\ op[k].ticket = t

\* If the commit's reply is lost the row is there and the capability is not.
BeginNew(c, s, k, i, t, replyLost) ==
    /\ client[c].step = "idle" /\ op[k].state = "absent"
    /\ SignedIn(s) /\ Bound(t, s, i) /\ Relation(t) = "active" /\ ~Reserved(t)
    /\ MayTouchTarget
    /\ op' = [op EXCEPT ![k] = [state |-> "processing", by |-> c, session |-> s,
                                version |-> authVersion, intent |-> i, ticket |-> t, leased |-> TRUE,
                                lease |-> clock + ExecutionLease, query |-> clock + Retention]]
    /\ IF replyLost THEN Answer(c, s, k, "refused")
       ELSE client' = [client EXCEPT ![c] = [step |-> "begun", session |-> s, key |-> k, told |-> "nothing"]]
    /\ UNCHANGED <<clock, action, authVersion, live, target, ticket, effects, record>>

\* Everything Execute requires under its locks before it consumes the ticket.
Executable(c) ==
    LET o == op[client[c].key] IN
    /\ SignedIn(client[c].session)
    /\ o.session = client[c].session /\ o.version = authVersion
    /\ o.state = "processing" /\ o.leased /\ o.by = c /\ o.lease > clock
    /\ Bound(o.ticket, o.session, o.intent) /\ Relation(o.ticket) = "active"
    /\ MayTouchTarget

Mismatch(c) == op[client[c].key].intent # target.version

\* Refused, faulted, or (for a role change) in conflict: the transaction leaves nothing.
ExecuteRollsBack(c) ==
    /\ client[c].step = "begun"
    /\ Answer(c, client[c].session, client[c].key,
              IF Executable(c) /\ action = "role" /\ Mismatch(c) THEN "conflict" ELSE "refused")
    /\ UNCHANGED <<clock, action, authVersion, live, target, ticket, op, effects, record>>

\* Mutant: the operation settles and leaves its ticket as it was.
Consume_Forgotten(t) == ticket' = [ticket EXCEPT ![t] = @]

Consume(t) == ticket' = [ticket EXCEPT ![t].state = "consumed"]

Settles(k, state) ==
    /\ op' = [op EXCEPT ![k].state = state, ![k].leased = FALSE, ![k].lease = 0,
                        ![k].query = clock + Retention]
    /\ record' = [record EXCEPT ![k] = state]

\* The consumer's effect on the target, rolled back to the savepoint on a known failure.
Effect ==
    target' = IF action = "delete" THEN [target EXCEPT !.reachable = FALSE]
              ELSE [target EXCEPT !.version = @ + 1]

\* Mutant: a commit whose reply is lost is taken for one that rolled back.
Reply_Refused(lost, told) == IF lost THEN "refused" ELSE told

\* A commit that fails after everything was written is reported as unknown.
Reply(lost, told) == IF lost THEN "unknown" ELSE told

ExecuteCommits(c, replyLost) ==
    LET k == client[c].key IN
    /\ client[c].step = "begun" /\ Executable(c)
    /\ ~(action = "role" /\ Mismatch(c))
    /\ Consume(op[k].ticket)
    /\ IF Mismatch(c)
       THEN /\ Settles(k, "failed") /\ UNCHANGED <<target, effects>>
            /\ Answer(c, client[c].session, k, Reply(replyLost, "failed"))
       ELSE /\ target.version < MaxVersion
            /\ Settles(k, "succeeded") /\ Effect
            /\ effects' = [effects EXCEPT ![k] = @ + 1]
            /\ Answer(c, client[c].session, k, Reply(replyLost, "succeeded"))
    /\ UNCHANGED <<clock, action, authVersion, live>>

\* The commit failed for good, and its reply does not say so.
ExecuteLost(c) ==
    /\ client[c].step = "begun" /\ Executable(c) /\ ~(action = "role" /\ Mismatch(c))
    /\ Answer(c, client[c].session, client[c].key, "unknown")
    /\ UNCHANGED <<clock, action, authVersion, live, target, ticket, op, effects, record>>

\* A client that does not know asks again by key.
Query(c) ==
    LET k == client[c].key
        view == IF op[k].state = "absent" THEN "hidden" ELSE QueryView(client[c].session, op[k])
    IN /\ client[c].step = "done" /\ client[c].told \in {"unknown", "refused"}
       /\ view # "hidden"
       /\ ExpireIfDue(k, view)
       /\ client' = [client EXCEPT ![c].told = Told(view)]
       /\ UNCHANGED <<clock, action, authVersion, live, target, ticket, effects, record>>

\* No production code calls it; an operator's recovery would.
MarkPendingRecovery(k) ==
    /\ \/ /\ op[k].state = "processing" /\ clock > op[k].lease + Grace
          /\ op' = [op EXCEPT ![k].state = "pending", ![k].leased = FALSE, ![k].lease = 0]
       \/ op[k].state = "pending" /\ CanExpire(op[k]) /\ Expire(k)
    /\ UNCHANGED <<clock, action, authVersion, live, target, ticket, effects, record, client>>

----------------------------------------------------------------------------
(* Surroundings *)

ClientDies(c) ==
    /\ client[c].step = "begun"
    /\ Answer(c, client[c].session, client[c].key, "nothing")
    /\ UNCHANGED <<clock, action, authVersion, live, target, ticket, op, effects, record>>

SessionEnds(s) ==
    /\ live' = live \ {s}
    /\ UNCHANGED <<clock, action, authVersion, target, ticket, op, effects, record, client>>

ActorChanges ==
    /\ authVersion < MaxVersion /\ authVersion' = authVersion + 1
    /\ UNCHANGED <<clock, action, live, target, ticket, op, effects, record, client>>

TargetChanges ==
    /\ \/ target.version < MaxVersion /\ target' = [target EXCEPT !.version = @ + 1]
       \/ target.reachable /\ target' = [target EXCEPT !.reachable = FALSE]
    /\ UNCHANGED <<clock, action, authVersion, live, ticket, op, effects, record, client>>

TimePasses ==
    /\ clock < MaxClock /\ clock' = clock + 1
    /\ UNCHANGED <<action, authVersion, live, target, ticket, op, effects, record, client>>

OperationNext ==
    \/ \E s \in Sessions, t \in Tickets : IssueTicket(s, t)
    \/ \E c \in Clients, s \in Sessions, k \in Keys : TurnedAway(c, s, k)
    \/ \E c \in Clients, s \in Sessions, k \in Keys, i \in Versions, t \in Tickets : BeginAgain(c, s, k, i, t)
    \/ \E c \in Clients, s \in Sessions, k \in Keys, i \in Versions, t \in Tickets, r \in BOOLEAN :
          BeginNew(c, s, k, i, t, r)
    \/ \E c \in Clients : ExecuteRollsBack(c)
    \/ \E c \in Clients, r \in BOOLEAN : ExecuteCommits(c, r)
    \/ \E c \in Clients : ExecuteLost(c)
    \/ \E c \in Clients : Query(c)
    \/ \E k \in Keys : MarkPendingRecovery(k)
    \/ \E c \in Clients : ClientDies(c)
    \/ \E s \in Sessions : SessionEnds(s)
    \/ ActorChanges
    \/ TargetChanges
    \/ TimePasses

OperationSpec == OperationInit /\ [][OperationNext]_operationVars

----------------------------------------------------------------------------
(* Properties *)

\* The effect, the audit and outbox rows, the consumed ticket and the terminal state come from one
\* transaction (action_execute.go:90-236): none of the four is ever seen without the others, whatever
\* clients died or lost a reply; no key has two effects, and no ticket pays for two keys.
SettledTogether ==
    \A k \in Keys :
        /\ effects[k] = (IF record[k] = "succeeded" THEN 1 ELSE 0)
        /\ op[k].state \in Finished => record[k] = op[k].state
        /\ op[k].state \in Unsettled \cup {"absent"} => record[k] = "none"
        /\ op[k].state # "absent" => (Relation(op[k].ticket) = "consumed") = (record[k] # "none")
        /\ \A j \in Keys : op[j].state # "absent" /\ op[j].ticket = op[k].ticket => j = k

\* What a client was told holds.  A success or failure it read of its key is the one recorded, for ever.  And
\* if it was refused, or told of a conflict, by a Begin whose reply was lost or by Execute, the operation made
\* for it has done nothing and never will: nobody else holds its capability (action_execute.go:62-112, 236-241).
AnswersHold ==
    \A c \in Clients : client[c].step = "done" =>
        /\ client[c].told \in Finished => record[client[c].key] = client[c].told
        /\ client[c].told \in {"refused", "conflict"} =>
              \A k \in Keys : op[k].by = c => record[k] = "none" /\ effects[k] = 0

\* A client whose commit reply was lost after the transaction was applied finds the result by its key
\* for the whole retention, even though the action changed the very target it was authorized against
\* (action_operation.go:496-505).
UnknownIsFindable ==
    \A c \in Clients :
        LET k == client[c].key IN
        /\ client[c].told = "unknown" /\ record[k] # "none"
        /\ client[c].session = op[k].session /\ op[k].session \in live
        /\ op[k].version = authVersion /\ clock < op[k].query
        => QueryView(client[c].session, op[k]) = record[k]

\* A settled operation never runs again and changes only by expiring after its retention; an expired
\* key is never free again (AdminOperationState.CanTransitionTo).
NeverReopened ==
    [][\A k \in Keys :
          /\ op[k].state \in Finished \cup {"pending"} /\ op'[k].state # op[k].state
                => op'[k].state = "expired" /\ clock >= op[k].query
          /\ op[k].state = "expired" => op'[k] = op[k] /\ effects'[k] = effects[k]
          /\ record[k] # "none" => record'[k] = record[k]]_operationVars
=============================================================================
