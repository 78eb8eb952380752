----------------------- MODULE GenerationStoreProofs -----------------------
(* Proofs about GenerationStore for every value of its constants.           *)
EXTENDS GenerationStore, TLAPS

(***************************************************************************)
(* What one write may make of a record.  Every operation is proved to stay *)
(* within it, so that a compare-and-set does, whenever it is executed.     *)
(***************************************************************************)
Forward(r, s) ==
    /\ s = r \/ s.state \in Successors(r.state)
    /\ LeaseGrows(r, s)
    /\ EntryGrows(r, s)

\* DistinctMessages, of any record.
Distinct(r) ==
    r.state = "completed" =>
        \A m, n \in ModelsIn(r, "completed") : m # n => r.model[m].guid # r.model[n].guid

GoodWrite(r, s) ==
    /\ s \in Record
    /\ Valid(s)
    /\ Distinct(s)
    /\ s.owner \in {r.owner, NoOwner}
    /\ Forward(r, s)

\* A record that is there: one a reader can decode.
Live(r) == r \in Record /\ Valid(r) /\ Distinct(r)

\* A record that decodes has a state, and only a tombstone has no models.
LEMMA LiveState ==
    ASSUME NEW r \in Record, Valid(r)
    PROVE  r.state # "absent" /\ (r.state # "cancelled" => ~r.bare)
BY DEF Valid

\* The fields of a record, each in its type.
LEMMA RecordFields ==
    ASSUME NEW r \in Record
    PROVE  /\ r.state \in State /\ r.bare \in BOOLEAN
           /\ r.model \in [Models -> Entry]
           /\ r.created \in Nat /\ r.updated \in Nat
           /\ r.owner \in Owners \cup {NoOwner} /\ r.until \in Nat
BY DEF Record

\* Stamp writes the time and the lease and nothing else.
LEMMA StampFields ==
    ASSUME NEW x \in Record, NEW t \in Nat
    PROVE  /\ Stamp(x, t) \in Record
           /\ Stamp(x, t).state = x.state /\ Stamp(x, t).bare = x.bare
           /\ Stamp(x, t).model = x.model /\ Stamp(x, t).created = x.created
           /\ Stamp(x, t).updated = t
           /\ Stamp(x, t).owner = IF x.state \in {"running", "cancelling"} THEN x.owner ELSE NoOwner
           /\ Stamp(x, t).until = IF x.state = "running" THEN x.until ELSE 0
BY DEF Stamp, Record

\* A mutation that moves the state forward and keeps the models well formed is good.
LEMMA MutationGood ==
    ASSUME NEW r, Live(r), NEW x \in Record, NEW t \in Nat, t >= r.updated,
           r.state # "cancelled", x.bare = r.bare, x.created = r.created, x.owner = r.owner, x.until = r.until,
           x.state \in Successors(r.state), ValidModels(x), Distinct(x), EntryGrows(r, x)
    PROVE  GoodWrite(r, Stamp(x, t))
<1> DEFINE s == Stamp(x, t)
<1>1. /\ s \in Record
      /\ s.state = x.state /\ s.bare = x.bare /\ s.model = x.model
      /\ s.created = x.created /\ s.updated = t
      /\ s.owner = IF x.state \in {"running", "cancelling"} THEN x.owner ELSE NoOwner
      /\ s.until = IF x.state = "running" THEN x.until ELSE 0
  BY StampFields
<1> HIDE DEF s
<1>2. /\ r \in Record /\ r.state # "absent" /\ ~r.bare /\ r.created > 0 /\ r.created <= r.updated
      /\ ValidLease(r) /\ r.created \in Nat /\ r.updated \in Nat
  BY RecordFields DEF Live, Valid
<1>3. r.state \in {"running", "cancelling", "committing"}
  BY <1>2 DEF Successors
<1>4. ValidModels(s) /\ Distinct(s)
  BY <1>1 DEF ValidModels, Distinct, ModelsIn
<1>5. x.state # "absent" /\ (x.state = "running" => r.state = "running")
      /\ (x.state = "cancelling" => r.state = "running")
  BY <1>3 DEF Successors
<1>6. ValidLease(s)
  BY <1>1, <1>2, <1>3, <1>5 DEF ValidLease
<1>7. Valid(s)
  BY <1>1, <1>2, <1>4, <1>5, <1>6 DEF Valid
<1>8. EntryGrows(r, s)
  BY <1>1 DEF EntryGrows
<1>9. LeaseGrows(r, s)
  BY <1>1, <1>2, RecordFields DEF LeaseGrows
<1>10. s.owner \in {r.owner, NoOwner} /\ s.state \in Successors(r.state)
  BY <1>1
<1> QED
  BY <1>1, <1>4, <1>7, <1>8, <1>9, <1>10 DEF GoodWrite, Forward, s

\* RecordDelta counts one more delta of a running model.
LEMMA RecordDeltaGood ==
    ASSUME NEW r, Live(r), NEW o \in Owners, NEW m \in Models, NEW s \in Nat, NEW t \in Nat,
           CanRecordDelta(r, o, m, s, t)
    PROVE  GoodWrite(r, RecordDelta(r, m, s, t))
<1> DEFINE x == [r EXCEPT !.model[m].seq = s]
<1>1. r \in Record /\ r.state = "running" /\ t >= r.updated /\ r.model[m].state = "running"
      /\ s = r.model[m].seq + 1
  BY DEF Live, CanRecordDelta, Owned, Mutable
<1>2. x \in Record /\ x.model = [r.model EXCEPT ![m].seq = s]
  BY <1>1 DEF Record, Entry
<1>3. x.state = r.state /\ x.bare = r.bare /\ x.created = r.created /\ x.owner = r.owner /\ x.until = r.until
  BY <1>1 DEF Record
<1> HIDE DEF x
<1>4. \A n \in Models : /\ x.model[n].state = r.model[n].state /\ x.model[n].guid = r.model[n].guid
                        /\ x.model[n].seq = IF n = m THEN s ELSE r.model[n].seq
  BY <1>1, <1>2, RecordFields DEF Entry
<1>5. ValidModels(x) /\ Distinct(x)
  BY <1>1, <1>3, <1>4, LiveState DEF Live, Valid, ValidModels, Distinct, ModelsIn, Terminal
<1>6. EntryGrows(r, x)
  BY <1>1, <1>3, <1>4 DEF EntryGrows
<1>7. x.state \in Successors(r.state)
  BY <1>1, <1>3 DEF Successors
<1>8. GoodWrite(r, Stamp(x, t))
  BY <1>1, <1>2, <1>3, <1>5, <1>6, <1>7, MutationGood
<1> QED
  BY <1>8 DEF RecordDelta, x

\* The state of one running model of a running record may change to a final one.
LEMMA ModelEndsGood ==
    ASSUME NEW r, Live(r), NEW m \in Models, NEW e \in {"completed", "failed"}, NEW t \in Nat,
           t >= r.updated, r.state = "running", r.model[m].state = "running"
    PROVE  GoodWrite(r, Stamp([r EXCEPT !.model[m].state = e], t))
<1> DEFINE x == [r EXCEPT !.model[m].state = e]
<1>1. r \in Record
  BY DEF Live
<1>2. x \in Record /\ x.model = [r.model EXCEPT ![m].state = e]
  BY <1>1 DEF Record, Entry, ModelState
<1>3. x.state = r.state /\ x.bare = r.bare /\ x.created = r.created /\ x.owner = r.owner /\ x.until = r.until
  BY <1>1 DEF Record
<1> HIDE DEF x
<1>4. \A n \in Models : /\ x.model[n].seq = r.model[n].seq /\ x.model[n].guid = r.model[n].guid
                        /\ x.model[n].state = IF n = m THEN e ELSE r.model[n].state
  BY <1>1, <1>2, RecordFields DEF Entry
<1>5. ValidModels(x) /\ Distinct(x)
  BY <1>1, <1>3, <1>4, LiveState DEF Live, Valid, ValidModels, Distinct, ModelsIn, Terminal
<1>6. EntryGrows(r, x)
  BY <1>1, <1>3, <1>4 DEF EntryGrows
<1>7. x.state \in Successors(r.state)
  BY <1>3 DEF Successors
<1>8. GoodWrite(r, Stamp(x, t))
  BY <1>1, <1>2, <1>3, <1>5, <1>6, <1>7, MutationGood
<1> QED
  BY <1>8 DEF x

\* A running or cancelling record may end, its running models with it.
LEMMA SettleGood ==
    ASSUME NEW r, Live(r), NEW e \in {"failed", "cancelled"}, NEW t \in Nat, t >= r.updated,
           e \in Successors(r.state), r.state # "committing"
    PROVE  GoodWrite(r, Stamp(Settle(r, e), t))
<1> DEFINE x == Settle(r, e)
<1>1. r \in Record /\ r.state \in {"running", "cancelling"}
  BY RecordFields DEF Live, Successors
<1>2. x \in Record
      /\ x.model = [m \in Models |-> IF r.model[m].state = "running" THEN [r.model[m] EXCEPT !.state = e]
                                                                    ELSE r.model[m]]
  BY <1>1 DEF Settle, Record, Entry, State, ModelState
<1>3. x.state = e /\ x.bare = r.bare /\ x.created = r.created /\ x.owner = r.owner /\ x.until = r.until
  BY <1>1 DEF Settle, Record
<1> HIDE DEF x
<1>4. \A n \in Models : /\ x.model[n].seq = r.model[n].seq /\ x.model[n].guid = r.model[n].guid
                        /\ x.model[n].state = IF r.model[n].state = "running" THEN e ELSE r.model[n].state
  BY <1>1, <1>2, RecordFields DEF Entry
<1>5. ValidModels(x) /\ Distinct(x)
  BY <1>1, <1>3, <1>4, LiveState DEF Live, Valid, ValidModels, Distinct, ModelsIn, Terminal
<1>6. EntryGrows(r, x)
  BY <1>1, <1>3, <1>4 DEF EntryGrows
<1>7. GoodWrite(r, Stamp(x, t))
  BY <1>1, <1>2, <1>3, <1>5, <1>6, MutationGood
<1> QED
  BY <1>7 DEF x

\* BeginCommit leaves no running model behind.
LEMMA BeginCommitGood ==
    ASSUME NEW r, Live(r), NEW o \in Owners, NEW t \in Nat, CanBeginCommit(r, o, t)
    PROVE  GoodWrite(r, BeginCommit(r, t))
<1> DEFINE x == [r EXCEPT !.state = "committing"]
<1>1. /\ r \in Record /\ r.state = "running" /\ t >= r.updated
      /\ ModelsIn(r, "running") = {} /\ ModelsIn(r, "completed") # {}
  BY DEF Live, CanBeginCommit, Owned, Mutable
<1>2. /\ x \in Record /\ x.model = r.model /\ x.state = "committing" /\ x.bare = r.bare
      /\ x.created = r.created /\ x.owner = r.owner /\ x.until = r.until
  BY <1>1 DEF Record, State
<1> HIDE DEF x
<1>3. ValidModels(x) /\ Distinct(x)
  BY <1>1, <1>2, LiveState DEF Live, Valid, ValidModels, Distinct, ModelsIn, Terminal
<1>4. EntryGrows(r, x)
  BY <1>2 DEF EntryGrows
<1>5. x.state \in Successors(r.state)
  BY <1>1, <1>2 DEF Successors
<1>6. GoodWrite(r, Stamp(x, t))
  BY <1>1, <1>2, <1>3, <1>4, <1>5, MutationGood
<1> QED
  BY <1>6 DEF BeginCommit, x

\* FailStaleCommit ends a commit without giving any model a message.
LEMMA FailStaleCommitGood ==
    ASSUME NEW r, Live(r), NEW t \in Nat, CanFailStaleCommit(r, t)
    PROVE  GoodWrite(r, FailStaleCommit(r, t))
<1> DEFINE x == [r EXCEPT !.state = "failed"]
<1>1. r \in Record /\ r.state = "committing" /\ t >= r.updated
  BY DEF Live, CanFailStaleCommit, Mutable
<1>2. /\ x \in Record /\ x.model = r.model /\ x.state = "failed" /\ x.bare = r.bare
      /\ x.created = r.created /\ x.owner = r.owner /\ x.until = r.until
  BY <1>1 DEF Record, State
<1> HIDE DEF x
<1>3. ValidModels(x) /\ Distinct(x)
  BY <1>1, <1>2, LiveState DEF Live, Valid, ValidModels, Distinct, ModelsIn, Terminal
<1>4. EntryGrows(r, x)
  BY <1>2 DEF EntryGrows
<1>5. x.state \in Successors(r.state)
  BY <1>1, <1>2 DEF Successors
<1>6. GoodWrite(r, Stamp(x, t))
  BY <1>1, <1>2, <1>3, <1>4, <1>5, MutationGood
<1> QED
  BY <1>6 DEF FailStaleCommit, x

\* Complete gives each completed model a message of its own.
LEMMA CompleteGood ==
    ASSUME NEW r, Live(r), NEW t \in Nat, NEW guids \in [ModelsIn(r, "completed") -> Guids],
           CanComplete(r, guids, t)
    PROVE  GoodWrite(r, Complete(r, guids, t))
<1> DEFINE f == [m \in Models |-> IF m \in DOMAIN guids THEN [r.model[m] EXCEPT !.guid = guids[m]]
                                                         ELSE r.model[m]]
           x == [r EXCEPT !.state = "completed", !.model = f]
<1>1. r \in Record /\ r.state = "committing" /\ t >= r.updated /\ DOMAIN guids = ModelsIn(r, "completed")
  BY DEF Live, CanComplete, Mutable
<1>2. f \in [Models -> Entry]
  BY <1>1, RecordFields DEF Entry, ModelsIn
<1>3. /\ x \in Record /\ x.model = f /\ x.state = "completed" /\ x.bare = r.bare
      /\ x.created = r.created /\ x.owner = r.owner /\ x.until = r.until
  BY <1>1, <1>2 DEF Record, State
<1> HIDE DEF x
<1>4. \A n \in Models :
        /\ x.model[n].seq = r.model[n].seq /\ x.model[n].state = r.model[n].state
        /\ x.model[n].guid = IF r.model[n].state = "completed" THEN guids[n] ELSE r.model[n].guid
  BY <1>1, <1>3, RecordFields DEF Entry, ModelsIn
<1>5. \A n \in Models : r.model[n].state = "completed" => guids[n] \in Guids
  BY <1>1 DEF ModelsIn
<1>6. /\ \A n \in Models : r.model[n].guid = NoGuid /\ r.model[n].state # "running"
      /\ \E n \in Models : r.model[n].state = "completed"
  BY <1>1, LiveState DEF Live, Valid, ValidModels, ModelsIn, Terminal
<1>7. ValidModels(x) /\ Distinct(x)
  <2>1. ValidModels(x)
    BY <1>3, <1>4, <1>5, <1>6, RecordAssumption DEF ValidModels, ModelsIn, Terminal
  <2>2. \A m, n \in ModelsIn(r, "completed") : m # n => guids[m] # guids[n]
    BY <1>1 DEF CanComplete
  <2>3. ModelsIn(x, "completed") = ModelsIn(r, "completed")
    BY <1>4 DEF ModelsIn
  <2> QED
    BY <1>4, <2>1, <2>2, <2>3 DEF Distinct, ModelsIn
<1>8. EntryGrows(r, x)
  BY <1>4 DEF EntryGrows
<1>9. x.state \in Successors(r.state)
  BY <1>1, <1>3 DEF Successors
<1>10. GoodWrite(r, Stamp(x, t))
  BY <1>1, <1>3, <1>7, <1>8, <1>9, MutationGood
<1> QED
  BY <1>10 DEF Complete, x

\* The two control operations that write a running record's lease themselves.
LEMMA RenewLeaseGood ==
    ASSUME NEW r, Live(r), NEW o \in Owners, NEW t \in Nat, CanRenewLease(r, o, t)
    PROVE  GoodWrite(r, RenewLease(r, t))
<1> DEFINE s == RenewLease(r, t)
<1>1. /\ r \in Record /\ r.state = "running" /\ r.owner = o /\ ~r.bare /\ r.owner # NoOwner
      /\ r.created > 0 /\ r.created <= r.updated /\ ValidModels(r)
  BY RecordAssumption DEF Live, CanRenewLease, RunningLeaseAuthorized, Valid, ValidLease
<1>2. /\ r.created \in Nat /\ r.updated \in Nat /\ r.until \in Nat /\ Lease \in Nat /\ Lease > 0
      /\ t + Lease \in Nat
  BY <1>1, RecordFields, RecordAssumption
<1>3. t >= r.updated /\ t + Lease >= r.until
  BY <1>2 DEF CanRenewLease, LatestRunningActivity
<1>4. /\ s \in Record /\ s.state = r.state /\ s.bare = r.bare /\ s.model = r.model /\ s.created = r.created
      /\ s.updated = t /\ s.owner = r.owner /\ s.until = t + Lease
  BY <1>1, <1>2 DEF RenewLease, Record
<1> HIDE DEF s
<1>5. Valid(s) /\ Distinct(s)
  BY <1>1, <1>2, <1>3, <1>4 DEF Valid, ValidLease, ValidModels, Distinct, ModelsIn
<1>6. LeaseGrows(r, s) /\ EntryGrows(r, s) /\ s.state \in Successors(r.state)
  BY <1>1, <1>2, <1>3, <1>4 DEF LeaseGrows, EntryGrows, Successors
<1> QED
  BY <1>4, <1>5, <1>6 DEF GoodWrite, Forward, s

\* RequestCancel turns a running record over and keeps its models.
LEMMA RequestCancelGood ==
    ASSUME NEW r, Live(r), NEW t \in Nat, CanRequestCancel(r, t)
    PROVE  GoodWrite(r, RequestCancel(r, t))
<1> DEFINE s == RequestCancel(r, t)
<1>1. /\ r \in Record /\ r.state = "running" /\ ~r.bare /\ r.owner # NoOwner
      /\ r.created > 0 /\ r.created <= r.updated /\ ValidModels(r)
  BY DEF Live, CanRequestCancel, Valid, ValidLease
<1>2. r.created \in Nat /\ r.updated \in Nat /\ r.until \in Nat /\ Lease \in Nat
  BY <1>1, RecordFields, RecordAssumption
<1>3. t >= r.updated
  BY <1>2 DEF CanRequestCancel, LatestRunningActivity
<1>4. /\ s \in Record /\ s.state = "cancelling" /\ s.bare = r.bare /\ s.model = r.model
      /\ s.created = r.created /\ s.updated = t /\ s.owner = r.owner /\ s.until = 0
  BY <1>1 DEF RequestCancel, Record, State
<1> HIDE DEF s
<1>5. Valid(s) /\ Distinct(s)
  BY <1>1, <1>2, <1>3, <1>4 DEF Valid, ValidLease, ValidModels, Distinct, ModelsIn, Terminal
<1>6. LeaseGrows(r, s) /\ EntryGrows(r, s) /\ s.state \in Successors(r.state)
  BY <1>1, <1>4 DEF LeaseGrows, EntryGrows, Successors
<1> QED
  BY <1>4, <1>5, <1>6 DEF GoodWrite, Forward, s

\* The records that a claim, a cancel and a claim after a cancel create.
LEMMA UntouchedType ==
    ASSUME NEW e \in ModelState
    PROVE  Untouched(e) \in [Models -> Entry] /\ \A m \in Models : /\ Untouched(e)[m].state = e
                                                                 /\ Untouched(e)[m].seq = 0
                                                                 /\ Untouched(e)[m].guid = NoGuid
BY DEF Untouched, Entry

\* No record is a record of its own kind.
LEMMA AbsentType == Absent \in Record /\ Absent.state = "absent" /\ ~Absent.bare /\ Absent.owner = NoOwner
<1>1. Untouched("cancelled") \in [Models -> Entry]
  BY UntouchedType DEF ModelState
<1> QED
  BY <1>1 DEF Absent, Record, State

\* Claim creates a running record.
LEMMA NewRunningGood ==
    ASSUME NEW o \in Owners, NEW t \in Nat, t > 0
    PROVE  Live(NewRunning(o, t)) /\ NewRunning(o, t).owner = o
<1> DEFINE s == NewRunning(o, t)
<1>1. /\ Untouched("running") \in [Models -> Entry]
      /\ \A m \in Models : /\ Untouched("running")[m].state = "running"
                           /\ Untouched("running")[m].guid = NoGuid
  BY UntouchedType DEF ModelState
<1>2. /\ s \in Record /\ s.state = "running" /\ s.bare = FALSE /\ s.model = Untouched("running")
      /\ s.created = t /\ s.updated = t /\ s.owner = o /\ s.until = t + Lease
  BY <1>1, RecordAssumption DEF NewRunning, Record, State
<1> HIDE DEF s
<1>3. Valid(s) /\ Distinct(s)
  BY <1>1, <1>2, RecordAssumption DEF Valid, Distinct, ValidLease, ValidModels, ModelsIn, Terminal
<1> QED
  BY <1>2, <1>3 DEF Live, s

\* A cancel that finds nothing leaves a tombstone.
LEMMA TombstoneGood ==
    ASSUME NEW t \in Nat, t > 0
    PROVE  Live(Tombstone(t)) /\ Tombstone(t).owner = NoOwner /\ Tombstone(t).state = "cancelled"
<1>1. Untouched("cancelled") \in [Models -> Entry]
  BY UntouchedType DEF ModelState
<1> QED
  BY <1>1 DEF Live, Distinct, Tombstone, Absent, Record, State, Valid, ValidTombstone

\* A claim that finds a tombstone fills in its models.
LEMMA EnrichedGood ==
    ASSUME NEW r, Live(r), r.bare
    PROVE  Live(Enriched(r)) /\ Enriched(r).owner = r.owner /\ Enriched(r).model = r.model
           /\ Enriched(r).state = "cancelled" /\ r.state = "cancelled"
<1> DEFINE s == Enriched(r)
<1>1. /\ r \in Record /\ r.state = "cancelled" /\ r.model = Untouched("cancelled")
      /\ r.owner = NoOwner /\ r.until = 0 /\ r.created > 0 /\ r.updated = r.created
  BY DEF Live, Valid, ValidTombstone
<1>2. \A m \in Models : /\ Untouched("cancelled")[m].state = "cancelled"
                       /\ Untouched("cancelled")[m].guid = NoGuid
  BY UntouchedType DEF ModelState
<1>3. /\ s \in Record /\ s.state = "cancelled" /\ s.bare = FALSE /\ s.model = r.model /\ s.owner = r.owner
      /\ s.until = r.until /\ s.created = r.created /\ s.updated = r.updated
  BY <1>1 DEF Enriched, Record
<1> HIDE DEF s
<1>4. Valid(s) /\ Distinct(s)
  BY <1>1, <1>2, <1>3, RecordFields DEF Valid, Distinct, ValidLease, ValidModels, ModelsIn, Terminal
<1> QED
  BY <1>1, <1>3, <1>4 DEF Live, s

-----------------------------------------------------------------------------
(***************************************************************************)
(* The inductive invariant.  StoreTypeOK and Encodable say nothing of what *)
(* a write in flight expects, and a compare-and-set is as good as the pair *)
(* it carries: FlightOK adds that every such pair is a good write, and     *)
(* that no script can hand the record to an owner nobody drew.             *)
(***************************************************************************)
FlightOK(f) ==
    /\ f.at > 0
    /\ f.next.owner \in issued \cup {NoOwner}
    /\ f.kind = "claim" => Live(f.next) /\ f.next.state = "running"
    /\ f.kind = "cas" => GoodWrite(f.expect, f.next)
    /\ f.kind = "cancel" /\ f.expect.state # "absent" => GoodWrite(f.expect, f.next)

StoreInv ==
    /\ StoreTypeOK
    /\ rec = Absent \/ Live(rec)
    /\ \A f \in flights : FlightOK(f)

\* Before the first call the invariant holds.
THEOREM StoreInvInit == StoreInit => StoreInv
BY AbsentType, StoreAssumption DEF StoreInit, StoreInv, StoreTypeOK

\* A record that may stay as it is.
LEMMA KeepGood == ASSUME NEW r, Live(r) PROVE GoodWrite(r, r)
BY RecordFields DEF Live, GoodWrite, Forward, LeaseGrows, EntryGrows

\* Sending a write that is fit for the record keeps the invariant.
LEMMA SendKeeps ==
    ASSUME StoreInv, NEW p \in Callers, NEW kind \in {"claim", "cancel", "cas"}, NEW t \in Nat, t > 0,
           NEW e \in Record, NEW s \in Record, Send(p, kind, t, e, s),
           UNCHANGED <<rec, expireAt, now>>, issued \subseteq issued', issued' \subseteq Owners,
           s.owner \in issued' \cup {NoOwner},
           kind = "claim" => Live(s) /\ s.state = "running",
           kind = "cas" => GoodWrite(e, s),
           kind = "cancel" /\ e.state # "absent" => GoodWrite(e, s)
    PROVE  StoreInv'
<1> DEFINE f == Message(p, kind, t, e, s)
<1>1. f \in Flight /\ f.at = t /\ f.kind = kind /\ f.expect = e /\ f.next = s
  BY DEF Message, Flight
<1>2. flights' = flights \cup {f}
  BY DEF Send
<1> HIDE DEF f
<1>3. FlightOK(f)'
  BY <1>1 DEF FlightOK
<1>4. \A g \in flights : FlightOK(g)'
  BY DEF StoreInv, FlightOK
<1>5. StoreTypeOK'
  BY <1>1, <1>2 DEF StoreInv, StoreTypeOK
<1> QED
  BY <1>2, <1>3, <1>4, <1>5 DEF StoreInv

\* So does every mutation: it reads a live record and writes a good one.
LEMMA CompareAndSetKeeps ==
    ASSUME StoreInv, NEW p \in Callers, NEW t \in Nat, t > 0, NEW s, GoodWrite(rec, s), CompareAndSet(p, t, s)
    PROVE  StoreInv'
<1>1. rec \in Record /\ rec.owner \in issued \cup {NoOwner} /\ issued \subseteq Owners
  BY DEF StoreInv, StoreTypeOK
<1>2. s \in Record /\ s.owner \in {rec.owner, NoOwner}
  BY DEF GoodWrite
<1>3. Send(p, "cas", t, rec, s) /\ UNCHANGED <<rec, expireAt, now, issued>>
  BY DEF CompareAndSet
<1> QED
  BY <1>1, <1>2, <1>3, SendKeeps

\* What the store finds under the key it can decode.
LEMMA LiveUnlessAbsent == ASSUME StoreInv, rec.state # "absent" PROVE Live(rec)
BY AbsentType DEF StoreInv

\* A caller's clock shows a positive time.
LEMMA SampledType == ASSUME StoreInv, NEW t \in Sampled PROVE t \in Nat /\ t > 0
BY StoreAssumption DEF Sampled, StoreInv, StoreTypeOK

\* Sending a claim keeps the invariant.
LEMMA ClaimKeeps ==
    ASSUME StoreInv, NEW p \in Callers, NEW o \in Owners, NEW t \in Sampled, SendClaim(p, o, t)
    PROVE  StoreInv'
<1>1. t \in Nat /\ t > 0
  BY SampledType
<1>2. Live(NewRunning(o, t)) /\ NewRunning(o, t).owner = o /\ NewRunning(o, t).state = "running"
  BY <1>1, NewRunningGood DEF NewRunning
<1>3. /\ Send(p, "claim", t, Absent, NewRunning(o, t)) /\ issued' = issued \cup {o}
      /\ UNCHANGED <<rec, expireAt, now>> /\ issued' \subseteq Owners
  BY DEF SendClaim, StoreInv, StoreTypeOK
<1>4. Absent \in Record /\ NewRunning(o, t) \in Record
  BY <1>2, AbsentType DEF Live
<1> QED
  BY <1>1, <1>2, <1>3, <1>4, SendKeeps

\* Sending a cancel keeps the invariant, whether it would change the record or not.
LEMMA CancelKeeps ==
    ASSUME StoreInv, NEW p \in Callers, NEW t \in Sampled, SendCancel(p, t)
    PROVE  StoreInv'
<1> DEFINE s == CancelTo(rec, t)
<1>1. t \in Nat /\ t > 0
  BY SampledType
<1>2. rec \in Record /\ rec.owner \in issued \cup {NoOwner} /\ issued \subseteq Owners
  BY DEF StoreInv, StoreTypeOK
<1>3. rec.state # "absent" => GoodWrite(rec, s)
  BY <1>1, LiveUnlessAbsent, KeepGood, RequestCancelGood DEF CancelTo
<1>4. rec.state = "absent" => s = rec
  BY DEF CancelTo, CanRequestCancel
<1>5. s \in Record /\ s.owner \in issued \cup {NoOwner}
  BY <1>2, <1>3, <1>4 DEF GoodWrite
<1>6. Send(p, "cancel", t, rec, s) /\ UNCHANGED <<rec, expireAt, now, issued>>
  BY DEF SendCancel
<1> HIDE DEF s
<1> QED
  BY <1>1, <1>2, <1>3, <1>5, <1>6, SendKeeps

\* So does every mutation that a runner sends for its lease.
LEMMA OwnedSendKeeps ==
    ASSUME StoreInv, NEW p \in Callers, NEW o \in issued, NEW t \in Sampled, OwnedSend(p, o, t)
    PROVE  StoreInv'
<1>1. t \in Nat /\ t > 0 /\ o \in Owners
  BY SampledType DEF StoreInv, StoreTypeOK
<1>2. ASSUME NEW m \in Models, NEW s \in 0..MaxSeq, SendRecordDelta(p, o, m, s, t) PROVE StoreInv'
  <2>1. Live(rec) /\ s \in Nat /\ CanRecordDelta(rec, o, m, s, t) /\ CompareAndSet(p, t, RecordDelta(rec, m, s, t))
    BY <1>2, LiveUnlessAbsent, StoreAssumption DEF SendRecordDelta, CanRecordDelta
  <2> QED
    BY <1>1, <2>1, RecordDeltaGood, CompareAndSetKeeps
<1>3. ASSUME NEW m \in Models, NEW s \in 0..MaxSeq, SendMarkModelDone(p, o, m, s, t) PROVE StoreInv'
  <2>1. /\ Live(rec) /\ t >= rec.updated /\ rec.state = "running" /\ rec.model[m].state = "running"
        /\ CompareAndSet(p, t, MarkModelDone(rec, m, t))
    BY <1>3, LiveUnlessAbsent DEF SendMarkModelDone, CanMarkModelDone, Owned, Mutable
  <2>2. GoodWrite(rec, MarkModelDone(rec, m, t))
    BY <1>1, <2>1, ModelEndsGood DEF MarkModelDone
  <2> QED
    BY <1>1, <2>1, <2>2, CompareAndSetKeeps
<1>4. ASSUME NEW m \in Models, SendMarkModelFailed(p, o, m, t) PROVE StoreInv'
  <2>1. /\ Live(rec) /\ t >= rec.updated /\ rec.state = "running" /\ rec.model[m].state = "running"
        /\ CompareAndSet(p, t, MarkModelFailed(rec, m, t))
    BY <1>4, LiveUnlessAbsent DEF SendMarkModelFailed, CanMarkModelFailed, Owned, Mutable
  <2>2. GoodWrite(rec, MarkModelFailed(rec, m, t))
    BY <1>1, <2>1, ModelEndsGood DEF MarkModelFailed
  <2> QED
    BY <1>1, <2>1, <2>2, CompareAndSetKeeps
<1>5. CASE SendBeginCommit(p, o, t)
  <2>1. Live(rec) /\ CanBeginCommit(rec, o, t) /\ CompareAndSet(p, t, BeginCommit(rec, t))
    BY <1>5, LiveUnlessAbsent DEF SendBeginCommit, CanBeginCommit
  <2> QED
    BY <1>1, <2>1, BeginCommitGood, CompareAndSetKeeps
<1>6. CASE SendFailRunning(p, o, t)
  <2>1. Live(rec) /\ t >= rec.updated /\ rec.state = "running" /\ CompareAndSet(p, t, Fail(rec, t))
    BY <1>6, LiveUnlessAbsent DEF SendFailRunning, CanFailRunning, Owned, Mutable
  <2>2. GoodWrite(rec, Fail(rec, t))
    BY <1>1, <2>1, SettleGood DEF Fail, Successors
  <2> QED
    BY <1>1, <2>1, <2>2, CompareAndSetKeeps
<1>7. CASE SendAcknowledge(p, o, t)
  <2>1. Live(rec) /\ t >= rec.updated /\ rec.state = "cancelling" /\ CompareAndSet(p, t, AcknowledgeCancelled(rec, t))
    BY <1>7, LiveUnlessAbsent DEF SendAcknowledge, CanAcknowledgeCancelled, Owned, Mutable
  <2>2. GoodWrite(rec, AcknowledgeCancelled(rec, t))
    BY <1>1, <2>1, SettleGood DEF AcknowledgeCancelled, Successors
  <2> QED
    BY <1>1, <2>1, <2>2, CompareAndSetKeeps
<1>8. CASE SendRenewLease(p, o, t)
  <2>1. Live(rec) /\ CanRenewLease(rec, o, t) /\ CompareAndSet(p, t, RenewLease(rec, t))
    BY <1>8, LiveUnlessAbsent DEF SendRenewLease, CanRenewLease, RunningLeaseAuthorized
  <2> QED
    BY <1>1, <2>1, RenewLeaseGood, CompareAndSetKeeps
<1> QED
  BY <1>2, <1>3, <1>4, <1>5, <1>6, <1>7, <1>8 DEF OwnedSend

\* So does every mutation that needs no lease.
LEMMA SharedSendKeeps ==
    ASSUME StoreInv, NEW p \in Callers, NEW t \in Sampled, SharedSend(p, t)
    PROVE  StoreInv'
<1>1. t \in Nat /\ t > 0
  BY SampledType
<1>2. CASE SendCancel(p, t)
  BY <1>2, CancelKeeps
<1>3. ASSUME NEW guids \in [ModelsIn(rec, "completed") -> Guids], SendComplete(p, guids, t) PROVE StoreInv'
  <2>1. Live(rec) /\ CanComplete(rec, guids, t) /\ CompareAndSet(p, t, Complete(rec, guids, t))
    BY <1>3, LiveUnlessAbsent DEF SendComplete, CanComplete
  <2> QED
    BY <1>1, <2>1, CompleteGood, CompareAndSetKeeps
<1>4. CASE SendFailStaleCommit(p, t)
  <2>1. Live(rec) /\ CanFailStaleCommit(rec, t) /\ CompareAndSet(p, t, FailStaleCommit(rec, t))
    BY <1>4, LiveUnlessAbsent DEF SendFailStaleCommit, CanFailStaleCommit
  <2> QED
    BY <1>1, <2>1, FailStaleCommitGood, CompareAndSetKeeps
<1>5. CASE SendFailExpired(p, t)
  <2>1. Live(rec) /\ t >= rec.updated /\ rec.state = "running" /\ CompareAndSet(p, t, Fail(rec, t))
    BY <1>5, LiveUnlessAbsent DEF SendFailExpired, CanFailExpired
  <2>2. GoodWrite(rec, Fail(rec, t))
    BY <1>1, <2>1, SettleGood DEF Fail, Successors
  <2> QED
    BY <1>1, <2>1, <2>2, CompareAndSetKeeps
<1>6. CASE SendConvergeCancelling(p, t)
  <2>1. Live(rec) /\ t >= rec.updated /\ rec.state = "cancelling" /\ CompareAndSet(p, t, AcknowledgeCancelled(rec, t))
    BY <1>6, LiveUnlessAbsent DEF SendConvergeCancelling, CanConvergeCancelling
  <2>2. GoodWrite(rec, AcknowledgeCancelled(rec, t))
    BY <1>1, <2>1, SettleGood DEF AcknowledgeCancelled, Successors
  <2> QED
    BY <1>1, <2>1, <2>2, CompareAndSetKeeps
<1> QED
  BY <1>2, <1>3, <1>4, <1>5, <1>6 DEF SharedSend

-----------------------------------------------------------------------------
(* What a script leaves, whatever happened between the read and the write.   *)

\* Of an existing record: the record itself, a good write of it, or its enrichment.
LEMMA OutcomeOfLive ==
    ASSUME StoreInv, rec.state # "absent", NEW f \in flights
    PROVE  \/ GoodWrite(rec, Outcome(f, rec))
           \/ rec.bare /\ Outcome(f, rec) = Enriched(rec)
<1>1. Live(rec) /\ FlightOK(f) /\ f.kind \in {"claim", "cancel", "cas"}
  BY LiveUnlessAbsent DEF StoreInv, StoreTypeOK, Flight
<1>2. GoodWrite(rec, rec)
  BY <1>1, KeepGood
<1>3. CASE f.kind = "claim"
  BY <1>2, <1>3 DEF Outcome
<1>4. CASE f.kind = "cancel"
  BY <1>1, <1>2, <1>4 DEF Outcome, FlightOK
<1>5. CASE f.kind = "cas"
  BY <1>1, <1>2, <1>5 DEF Outcome, FlightOK
<1> QED
  BY <1>1, <1>3, <1>4, <1>5

\* Of no record: nothing, a claimed one or a tombstone.
LEMMA OutcomeOfAbsent ==
    ASSUME StoreInv, rec.state = "absent", NEW f \in flights
    PROVE  \/ Outcome(f, rec) = rec
           \/ /\ Live(Outcome(f, rec))
              /\ Outcome(f, rec).owner \in issued \cup {NoOwner}
              /\ Outcome(f, rec).state \in {"running", "cancelled"}
<1>1. FlightOK(f) /\ f.kind \in {"claim", "cancel", "cas"} /\ f.at \in Nat
  BY DEF StoreInv, StoreTypeOK, Flight
<1>2. CASE f.kind = "claim"
  BY <1>1, <1>2 DEF Outcome, FlightOK
<1>3. CASE f.kind = "cancel"
  BY <1>1, <1>3, TombstoneGood DEF Outcome, FlightOK
<1>4. CASE f.kind = "cas"
  BY <1>4 DEF Outcome
<1> QED
  BY <1>1, <1>2, <1>3, <1>4

\* The writes in flight are judged by the tokens drawn, and those only grow.
LEMMA FlightsKeep ==
    ASSUME StoreInv, flights' \subseteq flights, UNCHANGED issued
    PROVE  (\A f \in flights : FlightOK(f))' /\ flights' \subseteq Flight /\ issued' \subseteq Owners
BY DEF StoreInv, StoreTypeOK, FlightOK

\* A script that runs, once or twice, early or late, keeps the invariant.
LEMMA ExecuteKeeps ==
    ASSUME StoreInv, NEW f \in flights, Execute(f)
    PROVE  StoreInv'
<1>1. /\ rec' = Outcome(f, rec) /\ now' = now /\ issued' = issued /\ flights' \subseteq flights
      /\ expireAt' = IF rec.state = "absent" /\ rec'.state # "absent" THEN now + TTL ELSE expireAt
  BY DEF Execute
<1>2. /\ rec \in Record /\ now \in Nat /\ expireAt \in Nat /\ rec.owner \in issued \cup {NoOwner}
      /\ (rec.state # "absent" => now < expireAt)
  BY DEF StoreInv, StoreTypeOK
<1>3. now + TTL \in Nat /\ now < now + TTL
  BY <1>2, StoreAssumption
<1>4. /\ rec' \in Record /\ rec'.owner \in issued \cup {NoOwner}
      /\ rec' = Absent \/ Live(rec')
      /\ (rec'.state # "absent" => now < expireAt') /\ expireAt' \in Nat
  <2>1. CASE rec.state = "absent"
    <3>1. CASE rec' = rec
      BY <1>1, <1>2, <2>1, <3>1, LiveState DEF StoreInv, Live
    <3>2. CASE Live(rec') /\ rec'.owner \in issued \cup {NoOwner} /\ rec'.state \in {"running", "cancelled"}
      BY <1>1, <1>3, <2>1, <3>2 DEF Live
    <3> QED
      BY <1>1, <2>1, <3>1, <3>2, OutcomeOfAbsent
  <2>2. CASE rec.state # "absent"
    <3>1. Live(rec) /\ expireAt' = expireAt
      BY <1>1, <2>2, LiveUnlessAbsent
    <3>2. Live(rec') /\ rec'.owner \in {rec.owner, NoOwner}
      BY <1>1, <2>2, <3>1, OutcomeOfLive, EnrichedGood DEF GoodWrite, Live
    <3> QED
      BY <1>2, <2>2, <3>1, <3>2 DEF Live
  <2> QED
    BY <2>1, <2>2
<1>5. (\A g \in flights : FlightOK(g))' /\ flights' \subseteq Flight /\ issued' \subseteq Owners
  BY <1>1, FlightsKeep
<1> QED
  BY <1>1, <1>2, <1>4, <1>5 DEF StoreInv, StoreTypeOK, Live

\* So does one that never runs.
LEMMA LoseKeeps ==
    ASSUME StoreInv, NEW f \in flights, Lose(f)
    PROVE  StoreInv'
<1>1. (\A g \in flights : FlightOK(g))' /\ flights' \subseteq Flight /\ issued' \subseteq Owners
  BY FlightsKeep DEF Lose
<1> QED
  BY <1>1 DEF Lose, StoreInv, StoreTypeOK

\* So does time, with the expiry of the key.
LEMMA TickKeeps == ASSUME StoreInv, Tick PROVE StoreInv'
<1> DEFINE gone == rec.state # "absent" /\ expireAt <= now + 1
<1>1. /\ now' = now + 1 /\ flights' = flights /\ issued' = issued
      /\ rec' = (IF gone THEN Absent ELSE rec) /\ expireAt' = (IF gone THEN 0 ELSE expireAt)
  BY DEF Tick
<1>2. (\A f \in flights : FlightOK(f))' /\ flights' \subseteq Flight /\ issued' \subseteq Owners
  BY <1>1, FlightsKeep
<1>3. /\ rec \in Record /\ now \in Nat /\ expireAt \in Nat /\ rec.owner \in issued \cup {NoOwner}
      /\ (rec.state # "absent" => now < expireAt) /\ (rec = Absent \/ Live(rec))
  BY DEF StoreInv, StoreTypeOK
<1>4. /\ rec' \in Record /\ rec'.owner \in issued \cup {NoOwner} /\ (rec' = Absent \/ Live(rec'))
      /\ (rec'.state # "absent" => now + 1 < expireAt') /\ expireAt' \in Nat
  BY <1>1, <1>3, AbsentType
<1> QED
  BY <1>1, <1>2, <1>3, <1>4 DEF StoreInv, StoreTypeOK, Live

\* Every step of the store keeps the invariant.
THEOREM StoreInvStep == StoreInv /\ [StoreNext]_storeVars => StoreInv'
<1> SUFFICES ASSUME StoreInv, [StoreNext]_storeVars PROVE StoreInv'
  OBVIOUS
<1>1. CASE Tick
  BY <1>1, TickKeeps
<1>2. ASSUME NEW f \in flights, Execute(f) \/ Lose(f) PROVE StoreInv'
  BY <1>2, ExecuteKeeps, LoseKeeps
<1>3. ASSUME NEW p \in Callers, NEW t \in Sampled, NEW o \in Owners, SendClaim(p, o, t) PROVE StoreInv'
  BY <1>3, ClaimKeeps
<1>4. ASSUME NEW p \in Callers, NEW t \in Sampled, NEW o \in issued, OwnedSend(p, o, t) PROVE StoreInv'
  BY <1>4, OwnedSendKeeps
<1>5. ASSUME NEW p \in Callers, NEW t \in Sampled, SharedSend(p, t) PROVE StoreInv'
  BY <1>5, SharedSendKeeps
<1>6. CASE UNCHANGED storeVars
  BY <1>6 DEF storeVars, StoreInv, StoreTypeOK, FlightOK
<1> QED
  BY <1>1, <1>2, <1>3, <1>4, <1>5, <1>6 DEF StoreNext

-----------------------------------------------------------------------------
(* The theorems.                                                             *)

\* The invariant holds of every reachable state of the store.
LEMMA StoreInvariant == StoreSpec => []StoreInv
BY StoreInvInit, StoreInvStep, PTL DEF StoreSpec

\* Every reachable state of the store is well typed, whoever calls it in whatever order:
\* the key lives while its time to live runs and is owned by a token some claim drew.
THEOREM StoreTypeCorrect == StoreSpec => []StoreTypeOK
<1>1. StoreInv => StoreTypeOK
  BY DEF StoreInv
<1> QED
  BY <1>1, StoreInvariant, PTL

\* No operation ever writes, or is about to write, a record its own decoder refuses.
THEOREM StoreEncodable == StoreSpec => []Encodable
<1>1. StoreInv => Encodable
  BY DEF StoreInv, Encodable, FlightOK, Live, GoodWrite
<1> QED
  BY <1>1, StoreInvariant, PTL

\* The models of a completed generation never share an assistant message.
THEOREM StoreDistinct == StoreSpec => []DistinctMessages
<1>1. StoreInv => DistinctMessages
  BY AbsentType DEF StoreInv, DistinctMessages, Live, Distinct
<1> QED
  BY <1>1, StoreInvariant, PTL

\* Whatever callers, clocks and the network do, what the key holds is well formed.
THEOREM StoreWellFormed == StoreSpec => []WellFormed
<1>1. StoreTypeOK /\ Encodable /\ DistinctMessages <=> WellFormed
  BY DEF WellFormed
<1> QED
  BY <1>1, StoreTypeCorrect, StoreEncodable, StoreDistinct, PTL

\* What one step of the store does to the record.
LEMMA RecordSteps ==
    ASSUME StoreInv, [StoreNext]_storeVars
    PROVE  \/ rec' = rec
           \/ Born
           \/ Expired
           \/ rec.state # "absent" /\ rec.bare /\ rec' = Enriched(rec)
           \/ rec.state # "absent" /\ GoodWrite(rec, rec')
<1>1. CASE Tick
  BY <1>1 DEF Tick, Expired
<1>2. ASSUME NEW f \in flights, Execute(f)
      PROVE  \/ rec' = rec \/ Born
             \/ rec.state # "absent" /\ rec.bare /\ rec' = Enriched(rec)
             \/ rec.state # "absent" /\ GoodWrite(rec, rec')
  <2>1. rec' = Outcome(f, rec)
    BY <1>2 DEF Execute
  <2>2. CASE rec.state = "absent"
    <3>1. rec = Absent
      BY <2>2, LiveState DEF StoreInv, Live
    <3> QED
      BY <2>1, <2>2, <3>1, OutcomeOfAbsent DEF Born
  <2>3. CASE rec.state # "absent"
    BY <2>1, <2>3, OutcomeOfLive
  <2> QED
    BY <2>2, <2>3
<1>3. ASSUME NEW f \in flights, Lose(f) PROVE rec' = rec
  BY <1>3 DEF Lose
<1>4. ASSUME NEW p \in Callers, NEW t \in Sampled, NEW o \in Owners, SendClaim(p, o, t) PROVE rec' = rec
  BY <1>4 DEF SendClaim
<1>5. ASSUME NEW p \in Callers, NEW t \in Sampled, NEW o \in issued, OwnedSend(p, o, t) PROVE rec' = rec
  BY <1>5 DEF OwnedSend, SendRecordDelta, SendMarkModelDone, SendMarkModelFailed, SendBeginCommit,
         SendFailRunning, SendAcknowledge, SendRenewLease, CompareAndSet
<1>6. ASSUME NEW p \in Callers, NEW t \in Sampled, SharedSend(p, t) PROVE rec' = rec
  BY <1>6 DEF SharedSend, SendCancel, SendComplete, SendFailStaleCommit, SendFailExpired,
         SendConvergeCancelling, CompareAndSet
<1>7. CASE UNCHANGED storeVars
  BY <1>7 DEF storeVars
<1> QED
  BY <1>1, <1>2, <1>3, <1>4, <1>5, <1>6, <1>7 DEF StoreNext

\* A generation only moves forward, whatever was in flight: a cancel is not taken back, a
\* commit is not cancelled and a terminal record stays until its key expires.
THEOREM StoreLifecycle == StoreSpec => Lifecycle
<1>1. StoreInv /\ [StoreNext]_storeVars => [LifecycleStep]_storeVars
  BY RecordSteps DEF LifecycleStep, Enrichment, GoodWrite, Forward
<1> QED
  BY <1>1, StoreInvariant, PTL DEF StoreSpec, Lifecycle

\* A running record keeps its owner, and its lease and activity never move back.
THEOREM StoreLeaseHistory == StoreSpec => LeaseHistory
<1>1. StoreInv /\ [StoreNext]_storeVars => [LeaseGrows(rec, rec')]_storeVars
  <2> SUFFICES ASSUME StoreInv, [StoreNext]_storeVars PROVE LeaseGrows(rec, rec')
    OBVIOUS
  <2>1. rec \in Record /\ (rec.state = "running" => rec # Absent)
    BY AbsentType DEF StoreInv, StoreTypeOK
  <2>2. CASE rec' = rec
    BY <2>1, <2>2, RecordFields DEF LeaseGrows
  <2>3. CASE Born \/ Expired
    BY <2>3, AbsentType DEF Born, Expired, LeaseGrows
  <2>4. CASE rec.state # "absent" /\ rec.bare /\ rec' = Enriched(rec)
    BY <2>4, LiveUnlessAbsent, EnrichedGood DEF LeaseGrows
  <2>5. CASE GoodWrite(rec, rec')
    BY <2>5 DEF GoodWrite, Forward
  <2> QED
    BY <2>2, <2>3, <2>4, <2>5, RecordSteps
<1> QED
  BY <1>1, StoreInvariant, PTL DEF StoreSpec, LeaseHistory

\* Deltas are counted one by one while the model runs; a model that ended stays so.
THEOREM StoreModelHistory == StoreSpec => ModelHistory
<1> DEFINE Kept == rec.state # "absent" /\ rec'.state # "absent" => EntryGrows(rec, rec')
<1>1. StoreInv /\ [StoreNext]_storeVars => [Kept]_storeVars
  <2> SUFFICES ASSUME StoreInv, [StoreNext]_storeVars, rec.state # "absent", rec'.state # "absent"
               PROVE  EntryGrows(rec, rec')
    OBVIOUS
  <2>1. Live(rec)
    BY LiveUnlessAbsent
  <2>2. CASE rec' = rec
    BY <2>1, <2>2, RecordFields DEF Live, EntryGrows
  <2>3. CASE Born \/ Expired
    BY <2>3, AbsentType DEF Born, Expired
  <2>4. CASE rec.bare /\ rec' = Enriched(rec)
    BY <2>1, <2>4, EnrichedGood DEF EntryGrows
  <2>5. CASE GoodWrite(rec, rec')
    BY <2>5 DEF GoodWrite, Forward
  <2> QED
    BY <2>2, <2>3, <2>4, <2>5, RecordSteps
<1> QED
  BY <1>1, StoreInvariant, PTL DEF StoreSpec, ModelHistory

=============================================================================
