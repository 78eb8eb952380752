----------------------- MODULE ActionOperationProofs -----------------------
(* A sensitive action happens at most once and its result is found again,   *)
(* for any number of sessions, keys, tickets and clients.                   *)
EXTENDS ActionOperation, TLAPS

TicketType == [state : {"new", "issued", "superseded", "consumed"}, session : Sessions \cup {None},
               version : Nat, intent : Nat, expires : Nat]

OperationType == [state : Finished \cup Unsettled \cup {"absent", "expired"}, by : Clients \cup {None},
                  session : Sessions \cup {None}, version : Nat, intent : Nat, ticket : Tickets \cup {None},
                  leased : BOOLEAN, lease : Nat, query : Nat]

Answers == Finished \cup {"nothing", "unknown", "refused", "conflict", "expired"}

ClientType == [step : {"idle", "begun", "done"}, session : Sessions \cup {None}, key : Keys \cup {None},
               told : Answers]

OperationTypeOK ==
    /\ clock \in Nat /\ authVersion \in Nat /\ target \in [version : Nat, reachable : BOOLEAN]
    /\ ticket \in [Tickets -> TicketType]
    /\ op \in [Keys -> OperationType]
    /\ effects \in [Keys -> Nat]
    /\ record \in [Keys -> Finished \cup {"none"}]
    /\ client \in [Clients -> ClientType]
    /\ \A c \in Clients : IF client[c].step = "idle" THEN client[c].told = "nothing" ELSE client[c].key \in Keys

\* A stored operation keeps the ticket it was begun with, and nothing else holds that ticket.
Bonded ==
    \A k \in Keys :
        IF op[k].state = "absent" THEN op[k].ticket = None
        ELSE LET t == op[k].ticket IN
             /\ t \in Tickets /\ ticket[t].state # "new"
             /\ ticket[t].session = op[k].session /\ ticket[t].version = op[k].version
             /\ ticket[t].intent = op[k].intent
             /\ \A j \in Keys : op[j].ticket = t => j = k

\* The ticket is consumed, the record and the effect are there, exactly once the operation has ended.
Recorded ==
    \A k \in Keys :
        /\ effects[k] = (IF record[k] = "succeeded" THEN 1 ELSE 0)
        /\ op[k].state \in Finished => record[k] = op[k].state
        /\ op[k].state \in Unsettled \cup {"absent"} => record[k] = "none"
        /\ op[k].state # "absent" => (ticket[op[k].ticket].state = "consumed" <=> record[k] # "none")
        /\ op[k].state = "expired" => clock >= op[k].query

\* A result that a client read is the recorded one.
Answered ==
    \A c \in Clients : client[c].step = "done" /\ client[c].told \in Finished
                          => record[client[c].key] = client[c].told

\* Only the client an operation was made for can end it, and it does so before it is told anything.
Owned ==
    \A c \in Clients, k \in Keys : op[k].by = c =>
        /\ client[c].step # "idle"
        /\ client[c].step = "begun" \/ client[c].told \in {"refused", "conflict"} => record[k] = "none"

OperationInv == OperationTypeOK /\ Bonded /\ Recorded /\ Answered /\ Owned

----------------------------------------------------------------------------
(* Initially *)

LEMMA OperationInvInit == OperationInit => OperationInv
BY OperationAssumption
   DEF OperationInit, OperationInv, OperationTypeOK, Bonded, Recorded, Answered, Owned, NewTicket, NoOperation,
       Unstarted, TicketType, OperationType, ClientType, Answers, Finished, Unsettled

----------------------------------------------------------------------------
(* What several actions share *)

\* A ticket counts as consumed exactly in that state.
LEMMA RelationConsumed == \A t \in Tickets : Relation(t) = "consumed" <=> ticket[t].state = "consumed"
BY DEF Relation

\* An answer changes its client only.
LEMMA AnswerKeeps ==
    ASSUME OperationTypeOK, NEW c \in Clients, NEW s \in Sessions \cup {None}, NEW k \in Keys,
           NEW told \in Answers, Answer(c, s, k, told)
    PROVE  /\ client' \in [Clients -> ClientType]
           /\ \A d \in Clients : IF client'[d].step = "idle" THEN client'[d].told = "nothing"
                                 ELSE client'[d].key \in Keys
           /\ \A d \in Clients : d # c => client'[d] = client[d]
           /\ client'[c].key = k /\ client'[c].told = told /\ client'[c].step = "done"
BY DEF Answer, OperationTypeOK, ClientType

\* What a reader sees of an operation that has ended is what is recorded, or that it expired.
LEMMA ViewTells ==
    ASSUME OperationInv, NEW k \in Keys, op[k].state # "absent"
    PROVE  /\ View(op[k]) \in Finished \cup Unsettled \cup {"expired"}
           /\ View(op[k]) \in Finished => record[k] = View(op[k])
           /\ View(op[k]) = "expired" /\ op[k].state # "expired"
                 => op[k].state \in Finished \cup {"pending"} /\ clock >= op[k].query
BY DEF OperationInv, OperationTypeOK, Recorded, View, CanExpire, OperationType, Finished, Unsettled

\* Clearing an expired result keeps the invariant of the rows.
LEMMA ExpireKeeps ==
    ASSUME OperationInv, NEW k \in Keys, op[k].state # "absent",
           NEW view, view = "expired" => View(op[k]) = "expired",
           ExpireIfDue(k, view), UNCHANGED <<clock, ticket, effects, record>>
    PROVE  op' \in [Keys -> OperationType] /\ Bonded' /\ Recorded' /\ \A j \in Keys : op'[j].by = op[j].by
<1>1. CASE op' = op
  BY <1>1 DEF OperationInv, OperationTypeOK, Bonded, Recorded
<1>2. CASE view = "expired" /\ op[k].state # "expired" /\ Expire(k)
  <2>1. op[k].state \in Finished \cup {"pending"} /\ clock >= op[k].query
    BY <1>2, ViewTells
  <2>2. /\ op' \in [Keys -> OperationType]
        /\ \A j \in Keys : j # k => op'[j] = op[j]
        /\ op'[k].state = "expired" /\ op'[k].ticket = op[k].ticket /\ op'[k].query = op[k].query
        /\ op'[k].session = op[k].session /\ op'[k].version = op[k].version /\ op'[k].intent = op[k].intent
        /\ op'[k].by = op[k].by
    <3> DEFINE o == [op[k] EXCEPT !.state = "expired", !.leased = FALSE, !.lease = 0]
    <3>1. op \in [Keys -> OperationType] /\ op' = [op EXCEPT ![k] = o]
      BY <1>2 DEF Expire, OperationInv, OperationTypeOK
    <3>2. /\ o \in OperationType /\ o.state = "expired" /\ o.ticket = op[k].ticket /\ o.query = op[k].query
          /\ o.session = op[k].session /\ o.version = op[k].version /\ o.intent = op[k].intent
          /\ o.by = op[k].by
      BY <3>1 DEF OperationType
    <3> HIDE DEF o
    <3> QED
      BY <3>1, <3>2
  <2>3. Bonded'
    BY <2>1, <2>2 DEF OperationInv, Bonded, Finished
  <2>4. Recorded'
    BY <2>1, <2>2 DEF OperationInv, Recorded, Finished, Unsettled
  <2> QED
    BY <2>2, <2>3, <2>4
<1> QED
  BY <1>1, <1>2 DEF ExpireIfDue

\* An answer leaves an operation to its client, if the client has none, can end none, or is not refused.
LEMMA AnswerLeavesOwned ==
    ASSUME OperationInv, NEW c \in Clients, NEW s \in Sessions \cup {None}, NEW k \in Keys,
           NEW told \in Answers, Answer(c, s, k, told),
           client[c].step \in {"idle", "begun"} \/ told \notin {"refused", "conflict"},
           record' = record, \A j \in Keys : op'[j].by = op[j].by
    PROVE  Owned'
<1>1. \A d \in Clients : d # c => client'[d] = client[d]
  BY AnswerKeeps DEF OperationInv
<1>2. client'[c].step = "done" /\ client'[c].told = told
  BY AnswerKeeps DEF OperationInv
<1> QED
  BY <1>1, <1>2 DEF OperationInv, Owned

\* A reader's answer, with an expiry that may come of it.
LEMMA ReadKeeps ==
    ASSUME OperationInv, NEW c \in Clients, NEW s \in Sessions \cup {None}, NEW k \in Keys, op[k].state # "absent",
           NEW view, view \in {"refused", "conflict"} \/ view = View(op[k]),
           client[c].step = "idle" \/ view = View(op[k]),
           ExpireIfDue(k, view), Answer(c, s, k, Told(view)),
           UNCHANGED <<clock, authVersion, target, ticket, effects, record>>
    PROVE  OperationInv'
<1>1. View(op[k]) \in Finished \cup Unsettled \cup {"expired"} /\ (View(op[k]) \in Finished => record[k] = View(op[k]))
  BY ViewTells
<1>2. Told(view) \in Answers /\ (Told(view) \in Finished => record[k] = Told(view))
  BY <1>1 DEF Told, Answers, Finished, Unsettled
<1>3. op' \in [Keys -> OperationType] /\ Bonded' /\ Recorded' /\ \A j \in Keys : op'[j].by = op[j].by
  BY ExpireKeeps, <1>1
<1>4. Answered'
  BY <1>2, AnswerKeeps DEF OperationInv, Answered
<1>5. OperationTypeOK'
  BY <1>2, <1>3, AnswerKeeps DEF OperationInv, OperationTypeOK
<1>6. client[c].step = "idle" \/ Told(view) \notin {"refused", "conflict"}
  BY <1>1 DEF Told, Finished, Unsettled
<1>7. Owned'
  BY <1>2, <1>3, <1>6, AnswerLeavesOwned
<1> QED
  BY <1>3, <1>4, <1>5, <1>7 DEF OperationInv

\* An answer that claims no result changes nothing else.
LEMMA RefusalKeeps ==
    ASSUME OperationInv, NEW c \in Clients, NEW s \in Sessions \cup {None}, NEW k \in Keys,
           NEW told \in Answers \ Finished, Answer(c, s, k, told), client[c].step \in {"idle", "begun"},
           UNCHANGED <<clock, authVersion, target, ticket, op, effects, record>>
    PROVE  OperationInv'
<1>1. told \in Answers /\ OperationTypeOK
  BY DEF OperationInv
<1>2. /\ client' \in [Clients -> ClientType]
      /\ \A d \in Clients : IF client'[d].step = "idle" THEN client'[d].told = "nothing" ELSE client'[d].key \in Keys
      /\ \A d \in Clients : d # c => client'[d] = client[d]
      /\ client'[c].told = told
  BY <1>1, AnswerKeeps
<1>3. OperationTypeOK'
  BY <1>1, <1>2 DEF OperationTypeOK
<1>4. Answered'
  BY <1>2 DEF OperationInv, Answered
<1>5. Bonded' /\ Recorded'
  BY DEF OperationInv, Bonded, Recorded
<1>6. Owned'
  BY <1>1, AnswerLeavesOwned
<1> QED
  BY <1>3, <1>4, <1>5, <1>6 DEF OperationInv

----------------------------------------------------------------------------
(* The actions *)

\* A ticket is issued to no stored operation, and one that is superseded was not consumed.
LEMMA IssueKeeps ==
    ASSUME OperationInv, NEW s \in Sessions, NEW t \in Tickets, IssueTicket(s, t) PROVE OperationInv'
<1>1. /\ ticket' \in [Tickets -> TicketType]
      /\ \A u \in Tickets : ticket[u].state # "new" =>
            /\ ticket'[u].state # "new" /\ (ticket'[u].state = "consumed" <=> ticket[u].state = "consumed")
            /\ ticket'[u].session = ticket[u].session /\ ticket'[u].version = ticket[u].version
            /\ ticket'[u].intent = ticket[u].intent
  <2> DEFINE issued == [state |-> "issued", session |-> s, version |-> authVersion,
                        intent |-> target.version, expires |-> clock + TicketTTL]
  <2>1. issued \in TicketType /\ ticket \in [Tickets -> TicketType] /\ ticket[t].state = "new"
    BY OperationAssumption DEF IssueTicket, OperationInv, OperationTypeOK, TicketType
  <2>2. ASSUME NEW u \in Tickets
        PROVE  \/ u = t /\ ticket'[u] = issued
               \/ Relation(u) = "active" /\ ticket'[u] = [ticket[u] EXCEPT !.state = "superseded"]
               \/ ticket'[u] = ticket[u]
    BY DEF IssueTicket
  <2>3. DOMAIN ticket' = Tickets /\ ticket' = [u \in Tickets |-> ticket'[u]]
    BY DEF IssueTicket
  <2>4. \A u \in Tickets : Relation(u) = "active" => ticket[u].state = "issued"
    BY DEF Relation
  <2>5. ASSUME NEW u \in Tickets
        PROVE  /\ ticket'[u] \in TicketType
               /\ ticket[u].state # "new" =>
                     /\ ticket'[u].state # "new" /\ (ticket'[u].state = "consumed" <=> ticket[u].state = "consumed")
                     /\ ticket'[u].session = ticket[u].session /\ ticket'[u].version = ticket[u].version
                     /\ ticket'[u].intent = ticket[u].intent
    <3> HIDE DEF issued
    <3>1. CASE Relation(u) = "active" /\ ticket'[u] = [ticket[u] EXCEPT !.state = "superseded"]
      BY <2>1, <2>4, <3>1 DEF TicketType
    <3> QED
      BY <2>1, <2>2, <3>1
  <2> QED
    BY <2>3, <2>5
<1>2. UNCHANGED <<clock, authVersion, target, op, effects, record, client>>
  BY DEF IssueTicket
<1>3. Bonded'
  BY <1>1, <1>2 DEF OperationInv, Bonded
<1>4. Recorded'
  BY <1>1, <1>2 DEF OperationInv, Recorded, Bonded
<1> QED
  BY <1>1, <1>2, <1>3, <1>4 DEF OperationInv, OperationTypeOK, Answered, Owned

\* A new operation takes an active ticket that nobody has.
LEMMA BeginNewKeeps ==
    ASSUME OperationInv, NEW c \in Clients, NEW s \in Sessions, NEW k \in Keys, NEW i \in Versions,
           NEW t \in Tickets, NEW r \in BOOLEAN, BeginNew(c, s, k, i, t, r)
    PROVE  OperationInv'
<1> DEFINE o == [state |-> "processing", by |-> c, session |-> s, version |-> authVersion, intent |-> i,
                 ticket |-> t, leased |-> TRUE, lease |-> clock + ExecutionLease, query |-> clock + Retention]
<1>1. o \in OperationType
  BY OperationAssumption DEF OperationType, OperationInv, OperationTypeOK, Versions, Unsettled
<1>2. /\ op' = [op EXCEPT ![k] = o] /\ op[k].state = "absent"
      /\ UNCHANGED <<clock, authVersion, target, ticket, effects, record>>
  BY DEF BeginNew
<1>3. /\ ticket[t].state = "issued" /\ ticket[t].session = s /\ ticket[t].version = authVersion
      /\ ticket[t].intent = i /\ \A j \in Keys : op[j].state # "absent" => op[j].ticket # t
  BY DEF BeginNew, Bound, Relation, Reserved
<1>4. op \in [Keys -> OperationType]
  BY DEF OperationInv, OperationTypeOK
<1>5. /\ op' \in [Keys -> OperationType] /\ op'[k] = o /\ \A j \in Keys : j # k => op'[j] = op[j]
      /\ o.by = c /\ o.state = "processing" /\ o.ticket = t
      /\ o.session = s /\ o.version = authVersion /\ o.intent = i
  BY <1>1, <1>2, <1>4
<1> HIDE DEF o
<1>6. Bonded'
  BY <1>2, <1>3, <1>5, OperationAssumption DEF OperationInv, Bonded
<1>7. Recorded'
  BY <1>2, <1>3, <1>5 DEF OperationInv, Recorded, Finished, Unsettled
<1>8. client[c].step = "idle" /\ record[k] = "none"
  BY <1>2 DEF BeginNew, OperationInv, Recorded
<1>9. CASE r /\ Answer(c, s, k, "refused")
  <2>1. "refused" \in Answers /\ "refused" \notin Finished
    BY DEF Answers, Finished
  <2>2. OperationTypeOK' /\ Answered'
    BY <1>2, <1>5, <1>9, <2>1, AnswerKeeps DEF OperationInv, OperationTypeOK, Answered
  <2>3. \A d \in Clients : d # c => client'[d] = client[d]
    BY <1>9, <2>1, AnswerKeeps DEF OperationInv
  <2>4. client'[c].step = "done"
    BY <1>9, <2>1, AnswerKeeps DEF OperationInv
  <2>5. Owned'
    BY <1>2, <1>5, <1>8, <2>3, <2>4 DEF OperationInv, Owned
  <2> QED
    BY <1>6, <1>7, <2>2, <2>5 DEF OperationInv
<1>10. CASE client' = [client EXCEPT ![c] = [step |-> "begun", session |-> s, key |-> k, told |-> "nothing"]]
  <2>1. OperationTypeOK' /\ Answered'
    BY <1>2, <1>5, <1>10 DEF OperationInv, OperationTypeOK, Answered, ClientType, Answers
  <2>2. (\A d \in Clients : d # c => client'[d] = client[d]) /\ client'[c].step = "begun"
    BY <1>10 DEF OperationInv, OperationTypeOK
  <2>3. Owned'
    BY <1>2, <1>5, <1>8, <2>2 DEF OperationInv, Owned
  <2> QED
    BY <1>6, <1>7, <2>1, <2>3 DEF OperationInv
<1> QED
  BY <1>9, <1>10 DEF BeginNew

\* Execution ends an operation together with its record, its ticket and its effect.
LEMMA ExecuteKeeps ==
    ASSUME OperationInv, NEW c \in Clients, NEW r \in BOOLEAN, ExecuteCommits(c, r) PROVE OperationInv'
<1> DEFINE k == client[c].key
           end == IF Mismatch(c) THEN "failed" ELSE "succeeded"
           o == [op[k] EXCEPT !.state = end, !.leased = FALSE, !.lease = 0, !.query = clock + Retention]
<1>1. k \in Keys /\ client[c].session \in Sessions \cup {None} /\ client \in [Clients -> ClientType]
  BY DEF OperationInv, OperationTypeOK, ExecuteCommits, ClientType
<1>2. /\ op[k].state = "processing" /\ record[k] = "none" /\ effects[k] = 0
      /\ op[k].ticket \in Tickets /\ op[k].by = c
  BY <1>1 DEF ExecuteCommits, Executable, OperationInv, Recorded, Bonded, Unsettled
<1>3. op \in [Keys -> OperationType] /\ op[k] \in OperationType
  BY <1>1 DEF OperationInv, OperationTypeOK
<1>4. /\ o \in OperationType /\ o.state = end /\ o.ticket = op[k].ticket /\ o.session = op[k].session
      /\ o.version = op[k].version /\ o.intent = op[k].intent /\ o.by = op[k].by
  <2>1. end \in Finished /\ clock + Retention \in Nat
    BY OperationAssumption DEF Finished, OperationInv, OperationTypeOK
  <2> HIDE DEF end
  <2>2. o \in OperationType
    BY <1>3, <2>1 DEF OperationType
  <2>3. o.state = end /\ o.ticket = op[k].ticket /\ o.session = op[k].session
    BY <1>3 DEF OperationType
  <2>4. o.version = op[k].version /\ o.intent = op[k].intent /\ o.by = op[k].by
    BY <1>3 DEF OperationType
  <2> HIDE DEF o, k
  <2> QED
    BY <2>2, <2>3, <2>4
<1>5. /\ op' = [op EXCEPT ![k] = o] /\ record' = [record EXCEPT ![k] = end]
      /\ ticket' = [ticket EXCEPT ![op[k].ticket].state = "consumed"]
      /\ effects' = IF end = "succeeded" THEN [effects EXCEPT ![k] = @ + 1] ELSE effects
      /\ UNCHANGED <<clock, authVersion>>
  <2>1. Settles(k, end) /\ Consume(op[k].ticket) /\ UNCHANGED <<clock, authVersion>>
        /\ effects' = IF end = "succeeded" THEN [effects EXCEPT ![k] = @ + 1] ELSE effects
    BY DEF ExecuteCommits
  <2>2. op' = [op EXCEPT ![k] = o]
    BY <1>3, <2>1 DEF Settles
  <2> HIDE DEF o, end
  <2> QED
    BY <2>1, <2>2 DEF Settles, Consume
<1>6. op' \in [Keys -> OperationType] /\ op'[k] = o /\ \A j \in Keys : j # k => op'[j] = op[j]
  BY <1>1, <1>3, <1>4, <1>5
<1>7. /\ ticket' \in [Tickets -> TicketType]
      /\ \A t \in Tickets : /\ t # op[k].ticket => ticket'[t] = ticket[t]
                            /\ ticket'[t].session = ticket[t].session /\ ticket'[t].version = ticket[t].version
                            /\ ticket'[t].intent = ticket[t].intent
      /\ ticket'[op[k].ticket].state = "consumed"
  <2>1. PICK a \in Tickets : a = op[k].ticket
    BY <1>2
  <2>2. PICK x : x = [ticket[a] EXCEPT !.state = "consumed"]
    OBVIOUS
  <2>3. ticket \in [Tickets -> TicketType] /\ ticket[a] \in TicketType
    BY <2>1 DEF OperationInv, OperationTypeOK
  <2>4. x \in TicketType /\ x.state = "consumed"
    BY <2>2, <2>3 DEF TicketType
  <2>5. x.session = ticket[a].session /\ x.version = ticket[a].version /\ x.intent = ticket[a].intent
    BY <2>2, <2>3 DEF TicketType
  <2>6. ticket' = [ticket EXCEPT ![a] = x]
    BY <1>5, <2>1, <2>2
  <2>7. ticket' \in [Tickets -> TicketType] /\ ticket'[a] = x /\ \A t \in Tickets : t # a => ticket'[t] = ticket[t]
    BY <2>3, <2>4, <2>6
  <2> HIDE DEF k, end, o
  <2> QED
    BY <2>1, <2>4, <2>5, <2>7
<1>8. /\ record' \in [Keys -> Finished \cup {"none"}] /\ record'[k] = end
      /\ \A j \in Keys : j # k => record'[j] = record[j] /\ effects'[j] = effects[j]
      /\ effects' \in [Keys -> Nat] /\ effects'[k] = IF end = "succeeded" THEN 1 ELSE 0
      /\ end \in Finished
  BY <1>1, <1>2, <1>5 DEF OperationInv, OperationTypeOK, Finished
<1>9. target' \in [version : Nat, reachable : BOOLEAN]
  <2>1. target' \in {target, [target EXCEPT !.reachable = FALSE], [target EXCEPT !.version = @ + 1]}
    BY DEF ExecuteCommits, Effect
  <2>2. target \in [version : Nat, reachable : BOOLEAN]
    BY DEF OperationInv, OperationTypeOK
  <2>3. CASE target' = [target EXCEPT !.version = @ + 1]
    BY <2>2, <2>3
  <2> QED
    BY <2>1, <2>2, <2>3
<1>10. PICK told \in {"unknown", end} : Answer(c, client[c].session, k, told)
  BY DEF ExecuteCommits, Reply
<1>11. told \in Answers /\ (told \in Finished => told = end)
  BY <1>8 DEF Answers, Finished
<1> HIDE DEF k, end, o
<1>12. Bonded'
  <2>1. \A j \in Keys : /\ op'[j].ticket = op[j].ticket /\ op'[j].session = op[j].session
                        /\ op'[j].version = op[j].version /\ op'[j].intent = op[j].intent
                        /\ (op'[j].state = "absent" <=> op[j].state = "absent")
    BY <1>1, <1>2, <1>4, <1>6, <1>8 DEF Finished
  <2>2. \A t \in Tickets : ticket[t].state # "new" => ticket'[t].state # "new"
    BY <1>7
  <2> QED
    BY <1>7, <2>1, <2>2 DEF OperationInv, Bonded
<1>13. Recorded'
  <2>1. ASSUME NEW j \in Keys, j # k, op[j].state # "absent"
        PROVE  op[j].ticket \in Tickets /\ ticket'[op[j].ticket] = ticket[op[j].ticket]
    BY <1>1, <1>2, <1>7, <2>1 DEF OperationInv, Bonded
  <2>2. ASSUME NEW j \in Keys, j # k
        PROVE  /\ effects'[j] = (IF record'[j] = "succeeded" THEN 1 ELSE 0)
               /\ op'[j].state \in Finished => record'[j] = op'[j].state
               /\ op'[j].state \in Unsettled \cup {"absent"} => record'[j] = "none"
               /\ op'[j].state # "absent" => (ticket'[op'[j].ticket].state = "consumed" <=> record'[j] # "none")
               /\ op'[j].state = "expired" => clock' >= op'[j].query
    <3>1. op'[j] = op[j] /\ record'[j] = record[j] /\ effects'[j] = effects[j] /\ clock' = clock
      BY <1>5, <1>6, <1>8, <2>2
    <3>2. op[j].state # "absent" => ticket'[op[j].ticket] = ticket[op[j].ticket]
      BY <2>1, <2>2
    <3> QED
      BY <3>1, <3>2 DEF OperationInv, Recorded
  <2>3. /\ effects'[k] = (IF record'[k] = "succeeded" THEN 1 ELSE 0)
        /\ record'[k] = op'[k].state /\ op'[k].state \in Finished
        /\ ticket'[op'[k].ticket].state = "consumed" /\ record'[k] # "none"
    BY <1>4, <1>6, <1>7, <1>8 DEF Finished
  <2> QED
    BY <2>2, <2>3 DEF Recorded, Finished, Unsettled
<1>14. Answered'
  <2>1. ASSUME NEW d \in Clients, d # c, client'[d].step = "done", client'[d].told \in Finished
        PROVE  record'[client'[d].key] = client'[d].told
    <3>1. client'[d] = client[d] /\ client[d].key \in Keys
      BY <1>1, <1>10, <1>11, <2>1, AnswerKeeps DEF OperationInv, OperationTypeOK
    <3>2. record[client[d].key] = client[d].told
      BY <2>1, <3>1 DEF OperationInv, Answered
    <3> QED
      BY <1>2, <1>8, <2>1, <3>1, <3>2 DEF Finished
  <2>2. client'[c].key = k /\ client'[c].told = told
    BY <1>1, <1>10, <1>11, AnswerKeeps DEF OperationInv
  <2> QED
    BY <1>8, <1>11, <2>1, <2>2 DEF Answered
<1>15. /\ client' \in [Clients -> ClientType]
       /\ \A d \in Clients : IF client'[d].step = "idle" THEN client'[d].told = "nothing"
                             ELSE client'[d].key \in Keys
  BY <1>1, <1>10, <1>11, AnswerKeeps DEF OperationInv
<1>16. OperationTypeOK'
  BY <1>5, <1>6, <1>7, <1>8, <1>9, <1>15 DEF OperationInv, OperationTypeOK
<1>17. Owned'
  <2>1. \A d \in Clients : d # c => client'[d] = client[d]
    BY <1>1, <1>10, <1>11, AnswerKeeps DEF OperationInv
  <2>2. client'[c].step = "done" /\ client'[c].told \notin {"refused", "conflict"}
    BY <1>1, <1>8, <1>10, <1>11, AnswerKeeps DEF OperationInv, Finished
  <2>3. \A j \in Keys : op'[j].by = op[j].by /\ (j # k => record'[j] = record[j])
    BY <1>4, <1>6, <1>8
  <2> QED
    BY <1>2, <2>1, <2>2, <2>3 DEF OperationInv, Owned
<1> QED
  BY <1>12, <1>13, <1>14, <1>16, <1>17 DEF OperationInv

\* Time, sessions, the actor and the target change under the operations.
LEMMA SurroundingsKeep ==
    ASSUME OperationInv,
           (\E s \in Sessions : SessionEnds(s)) \/ ActorChanges \/ TargetChanges \/ TimePasses
    PROVE  OperationInv'
<1>1. UNCHANGED <<ticket, op, effects, record, client>> /\ clock' \in Nat /\ clock' >= clock /\ authVersion' \in Nat
  BY DEF SessionEnds, ActorChanges, TargetChanges, TimePasses, OperationInv, OperationTypeOK
<1>2. target' \in [version : Nat, reachable : BOOLEAN]
  <2>1. target \in [version : Nat, reachable : BOOLEAN]
    BY DEF OperationInv, OperationTypeOK
  <2>2. CASE target' = [target EXCEPT !.version = @ + 1]
    BY <2>1, <2>2
  <2>3. CASE target' = [target EXCEPT !.reachable = FALSE]
    BY <2>1, <2>3
  <2>4. CASE target' = target
    BY <2>1, <2>4
  <2> QED
    BY <2>2, <2>3, <2>4 DEF SessionEnds, ActorChanges, TargetChanges, TimePasses
<1>3. Recorded'
  <2>1. \A k \in Keys : op[k].query \in Nat
    BY DEF OperationInv, OperationTypeOK, OperationType
  <2> QED
    BY <1>1, <2>1 DEF OperationInv, OperationTypeOK, Recorded
<1> QED
  BY <1>1, <1>2, <1>3 DEF OperationInv, OperationTypeOK, Bonded, Answered, Owned

\* Whether a stuck operation is marked or expires, its ticket stays as it is.
LEMMA RecoveryKeeps == ASSUME OperationInv, NEW k \in Keys, MarkPendingRecovery(k) PROVE OperationInv'
<1>1. CASE op[k].state = "processing" /\ op' = [op EXCEPT ![k].state = "pending", ![k].leased = FALSE, ![k].lease = 0]
  <2> DEFINE o == [op[k] EXCEPT !.state = "pending", !.leased = FALSE, !.lease = 0]
  <2>1. op \in [Keys -> OperationType] /\ op' = [op EXCEPT ![k] = o]
    BY <1>1 DEF OperationInv, OperationTypeOK
  <2>2. /\ o \in OperationType /\ o.state = "pending" /\ o.ticket = op[k].ticket
        /\ o.session = op[k].session /\ o.version = op[k].version /\ o.intent = op[k].intent
        /\ o.by = op[k].by
    BY <2>1 DEF OperationType, Unsettled
  <2> HIDE DEF o
  <2>3. op' \in [Keys -> OperationType] /\ op'[k] = o /\ \A j \in Keys : j # k => op'[j] = op[j]
    BY <2>1, <2>2
  <2>4. UNCHANGED <<clock, authVersion, target, ticket, effects, record, client>>
    BY DEF MarkPendingRecovery
  <2>5. Bonded'
    BY <1>1, <2>2, <2>3, <2>4 DEF OperationInv, Bonded
  <2>6. Recorded'
    BY <1>1, <2>2, <2>3, <2>4 DEF OperationInv, Recorded, Finished, Unsettled
  <2>7. \A j \in Keys : op'[j].by = op[j].by
    BY <2>2, <2>3
  <2> QED
    BY <2>3, <2>4, <2>5, <2>6, <2>7 DEF OperationInv, OperationTypeOK, Answered, Owned
<1>2. CASE op[k].state = "pending" /\ CanExpire(op[k]) /\ Expire(k)
  <2>1. ExpireIfDue(k, "expired") /\ View(op[k]) = "expired" /\ op[k].state # "absent"
    BY <1>2 DEF ExpireIfDue, View
  <2>2. UNCHANGED <<clock, authVersion, target, ticket, effects, record, client>>
    BY DEF MarkPendingRecovery
  <2>3. op' \in [Keys -> OperationType] /\ Bonded' /\ Recorded' /\ \A j \in Keys : op'[j].by = op[j].by
    BY <2>1, <2>2, ExpireKeeps
  <2> QED
    BY <2>2, <2>3 DEF OperationInv, OperationTypeOK, Answered, Owned
<1> QED
  BY <1>1, <1>2 DEF MarkPendingRecovery

\* Every step of the operations keeps the invariant.
LEMMA OperationInvNext == OperationInv /\ [OperationNext]_operationVars => OperationInv'
<1> SUFFICES ASSUME OperationInv, [OperationNext]_operationVars PROVE OperationInv'
  OBVIOUS
<1>1. ASSUME NEW s \in Sessions, NEW t \in Tickets, IssueTicket(s, t) PROVE OperationInv'
  BY <1>1, IssueKeeps
<1>2. ASSUME NEW c \in Clients, NEW s \in Sessions, NEW k \in Keys, TurnedAway(c, s, k) PROVE OperationInv'
  <2>1. "refused" \in Answers \ Finished
    BY DEF Answers, Finished
  <2> QED
    BY <1>2, <2>1, RefusalKeeps DEF TurnedAway
<1>3. ASSUME NEW c \in Clients, NEW s \in Sessions, NEW k \in Keys, NEW i \in Versions, NEW t \in Tickets,
             BeginAgain(c, s, k, i, t)
      PROVE  OperationInv'
  <2> DEFINE view == IF SignedIn(s) THEN BeginView(s, i, t, op[k]) ELSE "refused"
  <2>1. view \in {"refused", "conflict"} \/ view = View(op[k])
    BY DEF BeginView
  <2>2. /\ op[k].state # "absent" /\ ExpireIfDue(k, view) /\ Answer(c, s, k, Told(view))
        /\ client[c].step = "idle" /\ UNCHANGED <<clock, authVersion, target, ticket, effects, record>>
    BY <1>3 DEF BeginAgain
  <2> HIDE DEF view
  <2> QED
    BY <2>1, <2>2, ReadKeeps
<1>4. ASSUME NEW c \in Clients, NEW s \in Sessions, NEW k \in Keys, NEW i \in Versions, NEW t \in Tickets,
             NEW r \in BOOLEAN, BeginNew(c, s, k, i, t, r)
      PROVE  OperationInv'
  BY <1>4, BeginNewKeeps
<1>5. ASSUME NEW c \in Clients, ExecuteRollsBack(c) \/ ExecuteLost(c) \/ ClientDies(c) PROVE OperationInv'
  <2>1. PICK told \in {"conflict", "refused", "unknown", "nothing"} :
            Answer(c, client[c].session, client[c].key, told)
    BY <1>5 DEF ExecuteRollsBack, ExecuteLost, ClientDies
  <2>2. told \in Answers \ Finished /\ client[c].session \in Sessions \cup {None} /\ client[c].key \in Keys
    BY <1>5 DEF Answers, Finished, OperationInv, OperationTypeOK, ClientType,
                ExecuteRollsBack, ExecuteLost, ClientDies
  <2>3. client[c].step = "begun" /\ UNCHANGED <<clock, authVersion, target, ticket, op, effects, record>>
    BY <1>5 DEF ExecuteRollsBack, ExecuteLost, ClientDies
  <2> QED
    BY <2>1, <2>2, <2>3, RefusalKeeps
<1>6. ASSUME NEW c \in Clients, NEW r \in BOOLEAN, ExecuteCommits(c, r) PROVE OperationInv'
  BY <1>6, ExecuteKeeps
<1>7. ASSUME NEW c \in Clients, Query(c) PROVE OperationInv'
  <2> DEFINE k == client[c].key
             view == IF op[k].state = "absent" THEN "hidden" ELSE QueryView(client[c].session, op[k])
  <2>1. /\ k \in Keys /\ client[c] \in ClientType /\ client[c].step = "done" /\ client[c].session \in Sessions \cup {None}
    BY <1>7 DEF Query, OperationInv, OperationTypeOK, ClientType
  <2>2. view = View(op[k]) /\ op[k].state # "absent"
    BY <1>7 DEF Query, QueryView
  <2>3. ExpireIfDue(k, view) /\ UNCHANGED <<clock, authVersion, target, ticket, effects, record>>
    BY <1>7 DEF Query
  <2>4. Answer(c, client[c].session, k, Told(view))
    <3>1. client' = [client EXCEPT ![c].told = Told(view)] /\ client \in [Clients -> ClientType]
      BY <1>7 DEF Query, OperationInv, OperationTypeOK
    <3>2. [client[c] EXCEPT !.told = Told(view)]
             = [step |-> "done", session |-> client[c].session, key |-> k, told |-> Told(view)]
      BY <2>1 DEF ClientType
    <3> QED
      BY <3>1, <3>2 DEF Answer
  <2> HIDE DEF k, view
  <2> QED
    BY <2>1, <2>2, <2>3, <2>4, ReadKeeps
<1>8. ASSUME NEW k \in Keys, MarkPendingRecovery(k) PROVE OperationInv'
  BY <1>8, RecoveryKeeps
<1>9. CASE (\E s \in Sessions : SessionEnds(s)) \/ ActorChanges \/ TargetChanges \/ TimePasses
  BY <1>9, SurroundingsKeep
<1>10. CASE UNCHANGED operationVars
  BY <1>10 DEF operationVars, OperationInv, OperationTypeOK, Bonded, Recorded, Answered,
                     Owned
<1> QED
  BY <1>1, <1>2, <1>3, <1>4, <1>5, <1>6, <1>7, <1>8, <1>9, <1>10 DEF OperationNext

----------------------------------------------------------------------------
(* The results *)

\* Types, the bond of operation and ticket, and the record, in every reachable state.
THEOREM OperationInvariant == OperationSpec => []OperationInv
<1> QED
  BY OperationInvInit, OperationInvNext, PTL DEF OperationSpec

\* Whatever dies, is lost or is repeated, effect, record, ticket and state go together, and no ticket pays twice.
THEOREM OperationSettledTogether == OperationSpec => []SettledTogether
<1>1. OperationInv => SettledTogether
  <2> SUFFICES ASSUME OperationInv, NEW k \in Keys
               PROVE  /\ effects[k] = (IF record[k] = "succeeded" THEN 1 ELSE 0)
                      /\ op[k].state \in Finished => record[k] = op[k].state
                      /\ op[k].state \in Unsettled \cup {"absent"} => record[k] = "none"
                      /\ op[k].state # "absent" => (Relation(op[k].ticket) = "consumed") = (record[k] # "none")
                      /\ \A j \in Keys : op[j].state # "absent" /\ op[j].ticket = op[k].ticket => j = k
    BY DEF SettledTogether
  <2>1. op[k].state # "absent" => (Relation(op[k].ticket) = "consumed" <=> record[k] # "none")
    BY RelationConsumed DEF OperationInv, Recorded, Bonded
  <2>2. \A j \in Keys : op[j].state # "absent" /\ op[j].ticket = op[k].ticket => j = k
    BY OperationAssumption DEF OperationInv, Bonded
  <2> QED
    BY <2>1, <2>2 DEF OperationInv, Recorded
<1> QED
  BY <1>1, OperationInvariant, PTL

\* What a client read of its key is recorded, for ever; and what was made for a client that was refused did
\* nothing, and nobody else will ever make it do anything.
THEOREM OperationAnswersHold == OperationSpec => []AnswersHold
<1>1. OperationInv => AnswersHold
  <2> SUFFICES ASSUME OperationInv, NEW c \in Clients, client[c].step = "done"
               PROVE  /\ client[c].told \in Finished => record[client[c].key] = client[c].told
                      /\ client[c].told \in {"refused", "conflict"} =>
                            \A k \in Keys : op[k].by = c => record[k] = "none" /\ effects[k] = 0
    BY DEF AnswersHold
  <2>1. client[c].told \in Finished => record[client[c].key] = client[c].told
    BY DEF OperationInv, Answered
  <2>2. ASSUME client[c].told \in {"refused", "conflict"}, NEW k \in Keys, op[k].by = c
        PROVE  record[k] = "none" /\ effects[k] = 0
    BY <2>2 DEF OperationInv, Owned, Recorded
  <2> QED
    BY <2>1, <2>2
<1> QED
  BY <1>1, OperationInvariant, PTL

\* A client whose reply was lost finds the recorded result by its key, although the action may have
\* put the target out of reach of the policy that authorized it.
THEOREM OperationUnknownIsFindable == OperationSpec => []UnknownIsFindable
<1>1. OperationInv => UnknownIsFindable
  <2> SUFFICES ASSUME OperationInv, NEW c \in Clients, NEW k, k = client[c].key,
                      client[c].told = "unknown", record[k] # "none",
                      client[c].session = op[k].session, op[k].session \in live,
                      op[k].version = authVersion, clock < op[k].query
               PROVE  QueryView(client[c].session, op[k]) = record[k]
    BY DEF UnknownIsFindable
  <2>1. k \in Keys
    BY DEF OperationInv, OperationTypeOK
  <2>2. clock \in Nat /\ op[k].query \in Nat /\ op[k].state \in Finished \cup Unsettled \cup {"absent", "expired"}
    BY <2>1 DEF OperationInv, OperationTypeOK, OperationType
  <2>3. op[k].state \in Finished /\ record[k] = op[k].state
    BY <2>1, <2>2 DEF OperationInv, Recorded
  <2>4. op[k].state # "absent" /\ op[k].state # "expired" /\ op[k].state \notin Unsettled
    BY <2>3 DEF Finished, Unsettled
  <2>5. /\ op[k].ticket \in Tickets /\ ticket[op[k].ticket].state = "consumed"
        /\ ticket[op[k].ticket].session = op[k].session /\ ticket[op[k].ticket].version = op[k].version
        /\ ticket[op[k].ticket].intent = op[k].intent
    BY <2>1, <2>4 DEF OperationInv, Bonded, Recorded
  <2>6. Bound(op[k].ticket, client[c].session, op[k].intent) /\ Authorized(op[k])
    BY <2>4, <2>5 DEF Bound, Authorized
  <2>7. StateFitsTicket(op[k])
    BY <2>3, <2>4, <2>5, RelationConsumed DEF StateFitsTicket
  <2>8. View(op[k]) = op[k].state
    BY <2>2, <2>4 DEF View, CanExpire
  <2> QED
    BY <2>3, <2>6, <2>7, <2>8 DEF QueryView, SignedIn
<1> QED
  BY <1>1, OperationInvariant, PTL

\* An expiry comes only when the retention is over; everything else leaves a settled operation alone.
LEMMA ExpiryIsDue ==
    ASSUME OperationInv, NEW k \in Keys, op[k].state # "absent",
           NEW view, view = "expired" => View(op[k]) = "expired", ExpireIfDue(k, view)
    PROVE  \A j \in Keys : \/ op'[j] = op[j]
                          \/ /\ op'[j].state = "expired" /\ op[j].state # "expired"
                             /\ op[j].state \in Finished \cup {"pending"} /\ clock >= op[j].query
<1>1. op \in [Keys -> OperationType]
  BY DEF OperationInv, OperationTypeOK
<1>2. CASE view = "expired" /\ op[k].state # "expired" /\ Expire(k)
  <2>1. op[k].state \in Finished \cup {"pending"} /\ clock >= op[k].query
    BY <1>2, ViewTells
  <2>2. \A j \in Keys : j # k => op'[j] = op[j]
    BY <1>1, <1>2 DEF Expire
  <2>3. op'[k].state = "expired"
    BY <1>1, <1>2 DEF Expire, OperationType
  <2> QED
    BY <1>2, <2>1, <2>2, <2>3
<1> QED
  BY <1>2 DEF ExpireIfDue

\* One step leaves a settled key settled.
LEMMA StepNeverReopens ==
    ASSUME OperationInv, [OperationNext]_operationVars, NEW k \in Keys
    PROVE  /\ op[k].state \in Finished \cup {"pending"} /\ op'[k].state # op[k].state
                  => op'[k].state = "expired" /\ clock >= op[k].query
           /\ op[k].state = "expired" => op'[k] = op[k] /\ effects'[k] = effects[k]
           /\ record[k] # "none" => record'[k] = record[k]
<1>1. CASE op'[k] = op[k] /\ effects'[k] = effects[k] /\ record'[k] = record[k]
  BY <1>1
<1>2. ASSUME NEW c \in Clients, NEW s \in Sessions, NEW j \in Keys, NEW i \in Versions, NEW t \in Tickets,
             BeginAgain(c, s, j, i, t)
      PROVE  \/ op'[k] = op[k] /\ effects' = effects /\ record' = record
             \/ /\ op'[k].state = "expired" /\ op[k].state # "expired" /\ clock >= op[k].query
                /\ effects' = effects /\ record' = record
  <2> DEFINE view == IF SignedIn(s) THEN BeginView(s, i, t, op[j]) ELSE "refused"
  <2>1. view = "expired" => View(op[j]) = "expired"
    BY DEF BeginView
  <2>2. op[j].state # "absent" /\ ExpireIfDue(j, view) /\ effects' = effects /\ record' = record
    BY <1>2 DEF BeginAgain
  <2> HIDE DEF view
  <2> QED
    BY <2>1, <2>2, ExpiryIsDue
<1>3. ASSUME NEW c \in Clients, NEW s \in Sessions, NEW j \in Keys, NEW i \in Versions, NEW t \in Tickets,
             NEW r \in BOOLEAN, BeginNew(c, s, j, i, t, r)
      PROVE  /\ op'[k] = op[k] \/ (op[k].state = "absent" /\ record[k] = "none")
             /\ effects' = effects /\ record' = record
  <2>1. op[j].state = "absent" /\ record[j] = "none"
    BY <1>3 DEF BeginNew, OperationInv, Recorded
  <2>2. j # k => op'[k] = op[k]
    BY <1>3 DEF BeginNew, OperationInv, OperationTypeOK
  <2>3. effects' = effects /\ record' = record
    BY <1>3 DEF BeginNew
  <2> QED
    BY <2>1, <2>2, <2>3
<1>4. ASSUME NEW c \in Clients, NEW r \in BOOLEAN, ExecuteCommits(c, r)
      PROVE  \/ op'[k] = op[k] /\ effects'[k] = effects[k] /\ record'[k] = record[k]
             \/ op[k].state = "processing" /\ record[k] = "none"
  <2>1. CASE k = client[c].key
    BY <1>4, <2>1 DEF ExecuteCommits, Executable, OperationInv, Recorded, Unsettled
  <2>2. CASE k # client[c].key
    BY <1>4, <2>2 DEF ExecuteCommits, Settles, OperationInv, OperationTypeOK
  <2> QED
    BY <2>1, <2>2
<1>5. ASSUME NEW c \in Clients, Query(c)
      PROVE  \/ op'[k] = op[k] /\ effects' = effects /\ record' = record
             \/ /\ op'[k].state = "expired" /\ op[k].state # "expired" /\ clock >= op[k].query
                /\ effects' = effects /\ record' = record
  <2> DEFINE j == client[c].key
             view == IF op[j].state = "absent" THEN "hidden" ELSE QueryView(client[c].session, op[j])
  <2>1. j \in Keys
    BY <1>5 DEF Query, OperationInv, OperationTypeOK
  <2>2. view = View(op[j]) /\ op[j].state # "absent"
    BY <1>5 DEF Query, QueryView
  <2>3. ExpireIfDue(j, view) /\ effects' = effects /\ record' = record
    BY <1>5 DEF Query
  <2> HIDE DEF j, view
  <2> QED
    BY <2>1, <2>2, <2>3, ExpiryIsDue
<1>6. ASSUME NEW j \in Keys, MarkPendingRecovery(j)
      PROVE  \/ op'[k] = op[k] /\ effects' = effects /\ record' = record
             \/ op[k].state = "processing" /\ record' = record
             \/ /\ op'[k].state = "expired" /\ op[k].state = "pending" /\ clock >= op[k].query
                /\ effects' = effects /\ record' = record
  <2>1. op \in [Keys -> OperationType] /\ effects' = effects /\ record' = record
    BY <1>6 DEF MarkPendingRecovery, OperationInv, OperationTypeOK
  <2>2. CASE k # j
    BY <1>6, <2>1, <2>2 DEF MarkPendingRecovery, Expire
  <2>3. CASE k = j /\ op[k].state = "pending" /\ CanExpire(op[k]) /\ Expire(k)
    BY <2>1, <2>3 DEF Expire, CanExpire, OperationType
  <2> QED
    BY <1>6, <2>1, <2>2, <2>3 DEF MarkPendingRecovery
<1>7. CASE \/ \E s \in Sessions, t \in Tickets : IssueTicket(s, t)
           \/ \E c \in Clients, s \in Sessions, j \in Keys : TurnedAway(c, s, j)
           \/ \E c \in Clients : ExecuteRollsBack(c) \/ ExecuteLost(c) \/ ClientDies(c)
           \/ \E s \in Sessions : SessionEnds(s)
           \/ ActorChanges \/ TargetChanges \/ TimePasses \/ UNCHANGED operationVars
  BY <1>1, <1>7 DEF IssueTicket, TurnedAway, ExecuteRollsBack, ExecuteLost, ClientDies,
                    SessionEnds, ActorChanges, TargetChanges, TimePasses, operationVars
<1> QED
  BY <1>1, <1>2, <1>3, <1>4, <1>5, <1>6, <1>7 DEF OperationNext, Finished

\* A settled operation never runs again; it only expires, after its retention.
THEOREM OperationNeverReopened == OperationSpec => NeverReopened
<1>1. OperationInv /\ [OperationNext]_operationVars =>
        [\A k \in Keys :
          /\ op[k].state \in Finished \cup {"pending"} /\ op'[k].state # op[k].state
                => op'[k].state = "expired" /\ clock >= op[k].query
          /\ op[k].state = "expired" => op'[k] = op[k] /\ effects'[k] = effects[k]
          /\ record[k] # "none" => record'[k] = record[k]]_operationVars
  BY StepNeverReopens
<1> QED
  BY <1>1, OperationInvariant, PTL DEF OperationSpec, NeverReopened
=============================================================================
