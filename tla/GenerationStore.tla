-------------------------- MODULE GenerationStore --------------------------
(***************************************************************************)
(* The Redis store of one generation under its most general clients:       *)
(* PlatformGenerationStore.  Every operation but the two Lua decisions     *)
(* reads the record (GET), computes the next one in the process and sends  *)
(* a compare-and-set; between the two any number of other calls land.  A   *)
(* write in flight may be executed, executed again by a client retry, or   *)
(* lost, whatever its caller believes.                                     *)
(***************************************************************************)
EXTENDS GenerationRecord

CONSTANTS
    Callers,    \* the goroutines that call the store
    TTL,        \* platformGenerationTTL
    MaxSkew,    \* how far a caller's clock is from Redis's
    MaxSeq,     \* bound: deltas per model
    MaxFlights, \* bound: writes in flight at once
    MaxTime     \* bound: ticks of the clock

ASSUME StoreAssumption ==
    /\ TTL \in Nat \ {0}
    /\ MaxSkew \in Nat
    /\ MaxSeq \in Nat
    /\ MaxFlights \in Nat
    /\ MaxTime \in Nat

VARIABLES
    rec,        \* the record under the generation's key
    expireAt,   \* when Redis drops the key
    flights,    \* the writes in flight
    now,        \* Redis's clock
    issued      \* lease tokens drawn so far

storeVars == <<rec, expireAt, flights, now, issued>>

Flight == [from : Callers, kind : {"claim", "cancel", "cas"}, at : Nat, expect : Record, next : Record]

StoreInit ==
    /\ rec = Absent
    /\ expireAt = 0
    /\ flights = {}
    /\ now = 1
    /\ issued = {}

-----------------------------------------------------------------------------
Message(p, kind, t, expect, next) == [from |-> p, kind |-> kind, at |-> t, expect |-> expect, next |-> next]

Send(p, kind, t, expect, next) ==
    /\ Cardinality(flights) < MaxFlights
    /\ flights' = flights \cup {Message(p, kind, t, expect, next)}

\* GET and the change of one mutation; the compare-and-set is now in flight.
CompareAndSet(p, t, next) == Send(p, "cas", t, rec, next) /\ UNCHANGED <<rec, expireAt, now, issued>>

\* Claim draws a fresh lease token and sends one script.
SendClaim(p, o, t) ==
    /\ o \notin issued
    /\ issued' = issued \cup {o}
    /\ Send(p, "claim", t, Absent, NewRunning(o, t))
    /\ UNCHANGED <<rec, expireAt, now>>

\* CancelOrCreate reads the record and sends a script that decides again.
CancelTo(r, t) == IF CanRequestCancel(r, t) THEN RequestCancel(r, t) ELSE r

SendCancel(p, t) ==
    /\ Send(p, "cancel", t, rec, CancelTo(rec, t))
    /\ UNCHANGED <<rec, expireAt, now, issued>>

SendRecordDelta(p, o, m, s, t) ==
    CanRecordDelta(rec, o, m, s, t) /\ CompareAndSet(p, t, RecordDelta(rec, m, s, t))

SendMarkModelDone(p, o, m, s, t) ==
    CanMarkModelDone(rec, o, m, s, t) /\ CompareAndSet(p, t, MarkModelDone(rec, m, t))

SendMarkModelFailed(p, o, m, t) ==
    CanMarkModelFailed(rec, o, m, t) /\ CompareAndSet(p, t, MarkModelFailed(rec, m, t))

SendBeginCommit(p, o, t) == CanBeginCommit(rec, o, t) /\ CompareAndSet(p, t, BeginCommit(rec, t))

SendFailRunning(p, o, t) == CanFailRunning(rec, o, t) /\ CompareAndSet(p, t, Fail(rec, t))

SendAcknowledge(p, o, t) == CanAcknowledgeCancelled(rec, o, t) /\ CompareAndSet(p, t, AcknowledgeCancelled(rec, t))

SendRenewLease(p, o, t) == CanRenewLease(rec, o, t) /\ CompareAndSet(p, t, RenewLease(rec, t))

SendComplete(p, guids, t) == CanComplete(rec, guids, t) /\ CompareAndSet(p, t, Complete(rec, guids, t))

SendFailStaleCommit(p, t) == CanFailStaleCommit(rec, t) /\ CompareAndSet(p, t, FailStaleCommit(rec, t))

SendFailExpired(p, t) == CanFailExpired(rec, t) /\ CompareAndSet(p, t, Fail(rec, t))

SendConvergeCancelling(p, t) == CanConvergeCancelling(rec, t) /\ CompareAndSet(p, t, AcknowledgeCancelled(rec, t))

-----------------------------------------------------------------------------
\* Mutant: compare-and-set sets without comparing.
Outcome_Blind(f, r) ==
    CASE f.kind = "claim"  -> IF r.state = "absent" THEN f.next ELSE IF r.bare THEN Enriched(r) ELSE r
      [] f.kind = "cancel" -> IF r.state = "absent" THEN Tombstone(f.at) ELSE IF r = f.expect THEN f.next ELSE r
      [] OTHER             -> IF r.state # "absent" THEN f.next ELSE r

\* The record each script leaves: claim, cancel and compare-and-set.
Outcome(f, r) ==
    CASE f.kind = "claim"  -> IF r.state = "absent" THEN f.next
                              ELSE IF r.bare THEN Enriched(r) ELSE r
      [] f.kind = "cancel" -> IF r.state = "absent" THEN Tombstone(f.at)
                              ELSE IF r = f.expect THEN f.next ELSE r
      [] f.kind = "cas"    -> IF r.state # "absent" /\ r = f.expect THEN f.next ELSE r
      [] OTHER             -> r

\* Redis runs a script.  One that creates the key starts its time to live; the others
\* keep it.  The client sends a command again when it misses the reply.
Execute(f) ==
    /\ rec' = Outcome(f, rec)
    /\ expireAt' = IF rec.state = "absent" /\ rec'.state # "absent" THEN now + TTL ELSE expireAt
    /\ flights' \in {flights, flights \ {f}}
    /\ UNCHANGED <<now, issued>>

\* The command never reaches Redis: the caller crashed, gave up or was cut off.
Lose(f) ==
    /\ flights' = flights \ {f}
    /\ UNCHANGED <<rec, expireAt, now, issued>>

\* Time passes; Redis drops a key whose time to live has run out.
Tick ==
    /\ now < MaxTime
    /\ now' = now + 1
    /\ LET gone == rec.state # "absent" /\ expireAt <= now + 1
       IN  /\ rec' = IF gone THEN Absent ELSE rec
           /\ expireAt' = IF gone THEN 0 ELSE expireAt
    /\ UNCHANGED <<flights, issued>>

OwnedSend(p, o, t) ==
    \/ \E m \in Models :
        \/ \E s \in 0..MaxSeq : SendRecordDelta(p, o, m, s, t) \/ SendMarkModelDone(p, o, m, s, t)
        \/ SendMarkModelFailed(p, o, m, t)
    \/ SendBeginCommit(p, o, t)
    \/ SendFailRunning(p, o, t)
    \/ SendAcknowledge(p, o, t)
    \/ SendRenewLease(p, o, t)

SharedSend(p, t) ==
    \/ SendCancel(p, t)
    \/ \E guids \in [ModelsIn(rec, "completed") -> Guids] : SendComplete(p, guids, t)
    \/ SendFailStaleCommit(p, t)
    \/ SendFailExpired(p, t)
    \/ SendConvergeCancelling(p, t)

\* A caller reads its clock before it calls: what it holds may be late, and early only
\* by the distance between the clocks.
Sampled == 1..(now + MaxSkew)

StoreNext ==
    \/ Tick
    \/ \E f \in flights : Execute(f) \/ Lose(f)
    \/ \E p \in Callers, t \in Sampled :
        \/ \E o \in Owners : SendClaim(p, o, t)
        \/ \E o \in issued : OwnedSend(p, o, t)
        \/ SharedSend(p, t)

StoreSpec == StoreInit /\ [][StoreNext]_storeVars
-----------------------------------------------------------------------------
(* Properties. *)

\* Every variable has its type, the key lives exactly while its time to live runs, and
\* only a token some Claim drew can own the record.
StoreTypeOK ==
    /\ rec \in Record
    /\ expireAt \in Nat
    /\ now \in Nat
    /\ issued \subseteq Owners
    /\ flights \subseteq Flight
    /\ rec.state # "absent" => now < expireAt
    /\ rec.owner \in issued \cup {NoOwner}

\* No operation computes a record that encodePlatformGeneration would refuse, so no
\* transition ends in ErrPlatformGenerationInvalid halfway and no reader finds a record
\* it cannot decode.
Encodable ==
    /\ rec = Absent \/ Valid(rec)
    /\ \A f \in flights : f.kind \in {"claim", "cas"} => Valid(f.next)

\* The models of a completed generation never share an assistant message.
DistinctMessages ==
    rec.state = "completed" =>
        \A m, n \in ModelsIn(rec, "completed") : m # n => rec.model[m].guid # rec.model[n].guid

\* In short: whatever callers, clocks and the network do, the key holds a record the
\* code can decode, under a lease that was drawn, with a message per model.
WellFormed == StoreTypeOK /\ Encodable /\ DistinctMessages

Born == rec = Absent /\ rec'.state \in {"running", "cancelled"}
Expired == rec' = Absent /\ now' >= expireAt
Enrichment == rec.bare /\ rec' = Enriched(rec)

Successors(s) ==
    CASE s = "running"    -> {"running", "cancelling", "committing", "failed"}
      [] s = "cancelling" -> {"cancelled"}
      [] s = "committing" -> {"completed", "failed"}
      [] OTHER            -> {}

\* A generation only moves forward: a cancel is never taken back, a commit is never
\* cancelled, and a terminal record stays as it is until Redis drops it, whatever
\* calls were in flight when it got there.
LifecycleStep ==
    rec' # rec => Born \/ Expired \/ Enrichment \/ rec'.state \in Successors(rec.state)
Lifecycle == [][LifecycleStep]_storeVars

\* While a generation runs it has one owner, and neither its lease nor its activity
\* time ever moves back, however far apart the callers' clocks are.
LeaseGrows(r, s) ==
    r.state = "running" /\ s.state = "running" =>
        s.owner = r.owner /\ s.until >= r.until /\ s.updated >= r.updated /\ s.created = r.created
LeaseHistory == [][LeaseGrows(rec, rec')]_storeVars

\* The deltas of a model are counted one at a time and only while it runs; a model that
\* ended keeps its state and its count.
EntryGrows(r, s) ==
    \A m \in Models :
        /\ s.model[m].seq # r.model[m].seq =>
              /\ s.model[m].seq = r.model[m].seq + 1
              /\ r.state = "running" /\ s.state = "running"
        /\ r.model[m].state # "running" =>
              s.model[m].state = r.model[m].state /\ s.model[m].seq = r.model[m].seq
ModelHistory == [][rec.state # "absent" /\ rec'.state # "absent" => EntryGrows(rec, rec')]_storeVars

=============================================================================
