----------------------- MODULE SingleGenerationProofs -----------------------
(* A generation in single mode uses the store as it is meant to be used,     *)
(* counts what it sends, stands by what it tells, and charges as promised,   *)
(* for any number of runners, pollers and cancels.                           *)
EXTENDS SingleGeneration, GenerationStoreProofs, FiniteSetTheorems

RunPC == {"idle", "claiming", "claimed", "settle", "select", "join", "finish", "authority", "mark", "begin", "complete",
          "recomplete", "finalize", "preload", "locking", "recheck", "persist", "unlock", "giveup", "reload", "resolve",
          "report"} \cup Calling \cup Ended

RunType == [pc : RunPC, work : {"none", "stream", "delta", "ok", "bad"},
            renew : {"none", "timer", "armed", "renewing", "stopped", "failed"}, call : Flight \cup {NoCall},
            seq : 0..MaxSeq, t : Nat, rt : Nat, due : Nat, saw : Record, stop : BOOLEAN, ctx : BOOLEAN]

ConvType == [pc : {"idle", "decide", "writing", "locking", "load", "complete", "failstale", "resolving", "unlock", "reunlock"},
             t : Nat, again : BOOLEAN, call : Flight \cup {NoCall}]

CancType == [pc : {"idle", "asking", "callback", "answered", "gone"}, call : Flight \cup {NoCall}]

SingleTypeOK ==
    /\ run \in [Runners -> RunType]
    /\ conv \in [Convergers -> ConvType]
    /\ canc \in [Cancellers -> CancType]
    /\ receipt = NoReceipt \/ receipt \in [by : Runners, alive : BOOLEAN]
    /\ lock \in Callers \cup {NoOne}
    /\ claimant \in Owners \cup {NoOwner}
    /\ spent \in [{"lost", "delayed", "sessions", "crashes"} -> Nat]

----------------------------------------------------------------------------
(* Who waits for what *)

\* A goroutine's call is in flight and its own.
Pending(p, call, sent) == call # NoCall => call \in sent /\ call.from = p

\* A runner that waits for a reply has called; its goroutines run while it streams, one of them in a call.
RunnerSound(r, s, sent, drawn, time) ==
    /\ Pending(r, s.call, sent)
    /\ s.pc # "idle" => r \in drawn
    /\ s.pc \in Calling \cup {"claiming"} \/ s.work = "delta" \/ s.renew = "renewing" => s.call # NoCall
    /\ s.pc \notin {"select", "join"} => s.work = "none" /\ s.renew = "none"
    /\ ~(s.work = "delta" /\ s.renew = "renewing")
    /\ s.work = "delta" => s.seq < MaxSeq
    /\ s.renew = "armed" => s.rt \in 1..(time + MaxSkew)

ConvergerSound(v, s, sent, time, charged) ==
    /\ Pending(v, s.call, sent)
    /\ s.pc \in {"writing", "resolving"} => s.call # NoCall
    /\ s.pc # "idle" => s.t \in 1..(time + MaxSkew)
    /\ s.pc = "complete" => charged

CancellerSound(c, s, sent) == Pending(c, s.call, sent) /\ (s.pc = "asking" => s.call # NoCall)

Clients ==
    /\ \A r \in Runners : RunnerSound(r, run[r], flights, issued, now)
    /\ \A v \in Convergers : ConvergerSound(v, conv[v], flights, now, receipt # NoReceipt)
    /\ \A c \in Cancellers : CancellerSound(c, canc[c], flights)

ClientInv == StoreInv /\ SingleTypeOK /\ Clients

----------------------------------------------------------------------------
(* The claim and what became of it *)

\* One claim of a runner is ever sent; once it ran, or got lost, it is not in flight.
ClaimsOnce ==
    /\ \A f \in flights : f.kind = "claim" =>
          /\ f.from \in Runners /\ f.next.owner = f.from /\ run[f.from].seq = 0 /\ claimant # f.from
          /\ f.expect = Absent /\ f.next.model = Untouched("running")
          /\ run[f.from].pc = "error" \/ (run[f.from].pc = "claiming" /\ f = run[f.from].call)
    /\ \A f, g \in flights : f.kind = "claim" /\ g.kind = "claim" /\ f.from = g.from => f = g
    /\ \A r \in Runners :
          /\ run[r].pc = "idle" => run[r].seq = 0 /\ claimant # r
          /\ run[r].pc \in {"idle", "claiming", "error"} => run[r].saw = Absent
          /\ run[r].pc = "claiming" => run[r].call.kind = "claim"

\* The claimant owns the record while it has an owner.
OwnedByClaimant ==
    /\ claimant # NoOwner => rec.state # "absent"
    /\ rec.owner # NoOwner => rec.owner = claimant

\* What each call of Run would write.
Made(s) ==
    /\ s.pc \in Calling => s.call.kind = "cas" /\ s.call.expect.state # "absent"
    /\ s.pc \in {"completing", "recompleting"} => s.call.next.state = "completed"
    /\ s.pc = "acking" => s.call.next.state = "cancelled"
    /\ s.pc = "failing" => s.call.next.state = "failed"

\* What the runner of the present record has seen of its end, or told of it, is so.
Stands(s, r, state, who) ==
    who = r =>
        /\ s.pc \in {"report", "done"} => state = "completed"
        /\ s.pc \in {"cancelled", "failed"} => state = s.pc
        /\ s.saw.state \in {"cancelled", "failed"} => state = s.saw.state

VerdictInv ==
    /\ ClaimsOnce /\ OwnedByClaimant
    /\ \A r \in Runners : Made(run[r]) /\ Stands(run[r], r, rec.state, claimant)

----------------------------------------------------------------------------
(* What was sent *)

\* The runner has not come to the end of its stream.
Early(s) == s.pc \in {"idle", "claiming", "claimed", "select", "join"}

\* The runner will not commit any more.
Doomed(s) == s.work = "bad" \/ s.pc \in {"finish", "authority", "acking", "failing", "error", "cancelled", "failed", "dead"}

Counts(r) == r.model[TheModel].seq

\* A delta in flight is the next one of its runner, which waits for it or gave up; a commit in flight
\* begins with what its runner has sent.
DeltaOf(f, s) ==
    Counts(f.next) # Counts(f.expect) =>
        /\ f.from \in Runners /\ f.expect.owner = f.from /\ f.next.state = "running"
        /\ Counts(f.expect) = s.seq /\ Counts(f.next) = s.seq + 1
        /\ Doomed(s) \/ (s.work = "delta" /\ f = s.call)

CommitOf(f, s) ==
    f.next.state = "committing" /\ f.expect.state # "committing" =>
        f.from \in Runners /\ f.expect.owner = f.from /\ Counts(f.expect) = s.seq /\ ~Early(s)

\* The record counts what its runner sent, and one more at most if the runner will not commit.
Recorded(s) ==
    \/ Counts(rec) = s.seq
    \/ Counts(rec) = s.seq + 1 /\ Doomed(s) /\ rec.state \notin {"committing", "completed"}

SentInv ==
    /\ \A f \in flights : f.kind = "cas" => DeltaOf(f, run[f.from]) /\ CommitOf(f, run[f.from])
    /\ \A f \in flights : f.kind = "cancel" => f.next = f.expect \/ f.next.state = "cancelling"
    /\ \A r \in Runners : claimant = r => Recorded(run[r])
    /\ \A r \in Runners : run[r].work = "delta" =>
          run[r].call.kind = "cas" /\ Counts(run[r].call.next) # Counts(run[r].call.expect)

----------------------------------------------------------------------------
(* The charge, where no session is lost and no command outlives its caller *)

\* The runner waits for the reply to its call.
Waits(s) == s.pc \in Calling \cup {"claiming"} \/ s.work = "delta" \/ s.renew = "renewing"

\* Only what somebody waits for is in flight.
NothingStray ==
    /\ flights \subseteq Awaited
    /\ \A r \in Runners : run[r].call # NoCall => Waits(run[r])
    /\ \A v \in Convergers : conv[v].call # NoCall => conv[v].pc \in {"writing", "resolving"}
    /\ \A c \in Cancellers : canc[c].call # NoCall => canc[c].pc = "asking"

Holding == {"recheck", "persist", "unlock", "giveup"}
Resolving == {"load", "complete", "failstale", "resolving", "unlock", "reunlock"}
Completing == {"completing", "recompleting"}

\* Who goes on under the lock has it.
UnderLock ==
    /\ \A r \in Runners : run[r].pc \in Holding => lock = r
    /\ \A v \in Convergers : conv[v].pc \in Resolving => lock = v

\* Nothing but a reconciliation decides a record that commits, and it decides by the receipt.
RunDecides(s, charged) ==
    /\ s.pc \in {"complete", "recomplete"} \cup Completing => charged
    /\ s.call # NoCall => \/ s.pc \in Completing /\ s.call.next.state = "completed"
                          \/ s.call.expect.state # "committing"

ConvDecides(s, charged) ==
    /\ s.pc = "failstale" => ~charged
    /\ s.call # NoCall => s.call.kind = "cas" /\ (s.call.expect.state = "committing" =>
          s.pc = "resolving" /\ s.call.next.state = IF charged THEN "completed" ELSE "failed")

CancDecides(s) == s.call # NoCall =>
    s.call.kind = "cancel" /\ (s.call.expect.state = "committing" => s.call.next = s.call.expect)

Deciding ==
    /\ \A r \in Runners : RunDecides(run[r], receipt # NoReceipt)
    /\ \A v \in Convergers : ConvDecides(conv[v], receipt # NoReceipt)
    /\ \A c \in Cancellers : CancDecides(canc[c])

\* A receipt is written only for a record that commits.
Charging ==
    /\ \A r \in Runners : run[r].pc = "persist" /\ claimant = r /\ receipt = NoReceipt => rec.state = "committing"
    /\ receipt # NoReceipt => run[receipt.by].pc \notin {"idle", "claiming"}
    /\ receipt # NoReceipt /\ receipt.by = claimant => rec.state \in {"committing", "completed"}

ChargeInv == NothingStray /\ UnderLock /\ Deciding /\ Charging

\* Within one life of the key the runner past its claim is the claimant.
OneLife ==
    /\ now > 0
    /\ rec.state # "absent" => expireAt > TTL
    /\ \A r \in Runners : run[r].pc \notin {"idle", "claiming"} \cup Ended => claimant = r

----------------------------------------------------------------------------
(* The steps of a runner past its claim, from p to q, by what they do to what *)
(* is shared.                                                                 *)

\* Of any step: it goes forward and forgets nothing that matters.
Forth(p, q) ==
    /\ p.pc \notin {"idle"} \cup Ended /\ q.pc # "idle" /\ q.pc # "claiming"
    /\ Doomed(p) => Doomed(q)
    /\ ~Early(p) => ~Early(q)
    /\ q.saw \in {p.saw, rec, Absent}
    /\ q.pc = "error" => q.saw = Absent

\* The lock is taken and given back, and the transaction runs, where Run says.
Guards(r, p, q) ==
    /\ UNCHANGED lock \/ (lock = NoOne /\ lock' = r) \/ (lock = r /\ lock' = NoOne /\ q.pc \notin Holding)
    /\ q.pc \in Holding => lock' = r \/ (p.pc \in Holding /\ lock' = lock)
    /\ UNCHANGED receipt \/ (p.pc = "persist" /\ lock = r /\ receipt = NoReceipt /\ receipt' = [by |-> r, alive |-> TRUE])
    /\ q.pc = "persist" => p.pc = "persist" \/ rec.state = "committing"
    /\ q.pc \in {"complete", "recomplete"} \cup Completing =>
          receipt' # NoReceipt \/ p.pc \in {"complete", "recomplete"} \cup Completing

\* Between two calls.
Passes(p, q) ==
    /\ UNCHANGED <<storeVars, claimant>>
    /\ q.call = p.call \/ (q.call = NoCall /\ q.pc \in Ended)
    /\ q.pc # p.pc => p.pc \notin Calling \cup {"claiming"} /\ q.pc \notin Calling
    /\ p.pc # "claiming"
    /\ q.work = "delta" <=> p.work = "delta"
    /\ q.renew = "renewing" <=> p.renew = "renewing"
    /\ q.seq = p.seq
    /\ q.pc = "report" => p.pc = "report" \/ rec.state = "completed"
    /\ q.pc = "done" => p.pc = "report"
    /\ q.pc \in {"cancelled", "failed"} => p.saw.state = q.pc

\* A mutation is sent.
Sends(r, p, q, t, next) ==
    /\ CompareAndSet(r, t, next) /\ q.call = Message(r, "cas", t, rec, next)
    /\ UNCHANGED <<claimant, receipt, lock>>
    /\ ~Waits(p) /\ Waits(q) /\ q.pc \in Calling \cup {"select", "join"}
    /\ q.seq = p.seq
    /\ Made(q) /\ rec.state # "absent"
    /\ q.work = "delta" => /\ rec.owner = r /\ next.state = "running" /\ rec.state = "running"
                           /\ Counts(rec) = p.seq /\ Counts(next) = p.seq + 1
    /\ q.work # "delta" => Counts(next) = Counts(rec)
    /\ next.state = "committing" => rec.owner = r /\ ~Early(p) /\ ~Doomed(p)
    /\ rec.state = "committing" => q.pc \in Completing /\ next.state = "completed"

\* The reply to a call is heard, or the process dies.
Landed(p) == rec = p.call.expect /\ Executes(p.call)

Hears(p, q) ==
    /\ p.call # NoCall /\ Waits(p) /\ q.call = NoCall /\ ~Waits(q)
    /\ \/ Executes(p.call)
       \/ Lose(p.call) /\ UNCHANGED claimant
       \/ UNCHANGED <<storeVars, claimant>> /\ spent["delayed"] < MaxDelayed
    /\ p.pc = "claiming" => \/ q.pc = "error"
                            \/ p.call \notin flights' /\ (q.pc \in {"duplicate", "dead"} \/ Landed(p))
    /\ q.pc = "report" => rec.state = "completed" \/ (p.pc \in Completing /\ Landed(p))
    /\ q.pc # "done"
    /\ q.pc = "cancelled" => p.pc = "acking" /\ Landed(p)
    /\ q.pc = "failed" => p.pc = "failing" /\ Landed(p)
    /\ q.seq = p.seq \/ (p.work = "delta" /\ Landed(p) /\ q.seq = p.seq + 1)
    /\ p.work = "delta" => Doomed(q) \/ q.seq = p.seq + 1

RunnerMoves(r, p, q) ==
    /\ Forth(p, q) /\ Guards(r, p, q) /\ UNCHANGED <<conv, canc>>
    /\ Passes(p, q) \/ Hears(p, q) \/ \E t \in Nat, next \in Record : Sends(r, p, q, t, next)

----------------------------------------------------------------------------
(* What the steps of a goroutine share *)

LEMMA CallersApart ==
    /\ Runners \subseteq Callers /\ Convergers \subseteq Callers /\ Cancellers \subseteq Callers
    /\ \A r \in Runners : r \notin Convergers /\ r \notin Cancellers
    /\ \A v \in Convergers : v \notin Cancellers
    /\ NoCall \notin Flight /\ NoOne \notin Callers /\ Guids = Runners /\ Runners = Owners
BY SingleAssumption DEF Runners

\* A step that keeps the types and the clients, and asks nothing of the store that is not its own.
Kept == [StoreNext]_storeVars /\ SingleTypeOK' /\ Clients'

LEMMA KeptIsInv == ASSUME ClientInv, Kept PROVE ClientInv'
BY StoreInvStep DEF Kept, ClientInv

\* The clock does not go back, and drawn tokens stay drawn.
LEMMA StoreGrows ==
    ASSUME StoreInv, [StoreNext]_storeVars
    PROVE  issued \subseteq issued' /\ now' \in Nat /\ 1..(now + MaxSkew) \subseteq 1..(now' + MaxSkew)
<1>1. issued \subseteq issued' /\ (now' = now \/ now' = now + 1)
  <2>1. CASE Tick \/ UNCHANGED storeVars
    BY <2>1 DEF Tick, storeVars
  <2>2. ASSUME NEW f \in flights, Execute(f) \/ Lose(f) PROVE issued' = issued /\ now' = now
    BY <2>2 DEF Execute, Lose
  <2>3. ASSUME NEW p \in Callers, NEW t \in Sampled, NEW o \in Owners, SendClaim(p, o, t)
        PROVE  issued \subseteq issued' /\ now' = now
    BY <2>3 DEF SendClaim
  <2>4. ASSUME NEW p \in Callers, NEW t \in Sampled, NEW o \in issued, OwnedSend(p, o, t)
        PROVE  issued' = issued /\ now' = now
    BY <2>4 DEF OwnedSend, SendRecordDelta, SendMarkModelDone, SendMarkModelFailed, SendBeginCommit,
                SendFailRunning, SendAcknowledge, SendRenewLease, CompareAndSet
  <2>5. ASSUME NEW p \in Callers, NEW t \in Sampled, SharedSend(p, t) PROVE issued' = issued /\ now' = now
    BY <2>5 DEF SharedSend, SendCancel, SendComplete, SendFailStaleCommit, SendFailExpired,
                SendConvergeCancelling, CompareAndSet
  <2> QED
    BY <2>1, <2>2, <2>3, <2>4, <2>5 DEF StoreNext
<1>2. now \in Nat /\ MaxSkew \in Nat
  BY StoreAssumption DEF StoreInv, StoreTypeOK
<1> QED
  BY <1>1, <1>2

\* A step of one runner: what is in flight for others stays in flight.
LEMMA RunnerKeeps ==
    ASSUME ClientInv, [StoreNext]_storeVars, NEW r \in Runners, NEW s \in RunType, run' = [run EXCEPT ![r] = s],
           RunnerSound(r, s, flights', issued', now'), UNCHANGED <<conv, canc>>,
           \A f \in flights : f.from # r => f \in flights',
           receipt' = NoReceipt \/ receipt' \in [by : Runners, alive : BOOLEAN], receipt # NoReceipt => receipt' # NoReceipt,
           lock' \in Callers \cup {NoOne}, claimant' \in Owners \cup {NoOwner},
           spent' \in [{"lost", "delayed", "sessions", "crashes"} -> Nat]
    PROVE  Kept
<1>1. /\ run' \in [Runners -> RunType] /\ run'[r] = s /\ \A q \in Runners : q # r => run'[q] = run[q]
  BY DEF ClientInv, SingleTypeOK
<1>2. SingleTypeOK'
  BY <1>1 DEF ClientInv, SingleTypeOK
<1>3. issued \subseteq issued' /\ 1..(now + MaxSkew) \subseteq 1..(now' + MaxSkew)
  BY StoreGrows DEF ClientInv
<1>4. ASSUME NEW q \in Runners PROVE RunnerSound(q, run'[q], flights', issued', now')
  <2>1. CASE q = r
    BY <1>1, <2>1
  <2>2. CASE q # r
    <3>1. RunnerSound(q, run[q], flights, issued, now) /\ run'[q] = run[q]
      BY <1>1, <2>2 DEF ClientInv, Clients
    <3> QED
      BY <1>3, <2>2, <3>1 DEF RunnerSound, Pending
  <2> QED
    BY <2>1, <2>2
<1>5. ASSUME NEW v \in Convergers PROVE ConvergerSound(v, conv'[v], flights', now', receipt' # NoReceipt)
  <2>1. ConvergerSound(v, conv[v], flights, now, receipt # NoReceipt) /\ conv'[v] = conv[v] /\ v # r
    BY CallersApart DEF ClientInv, Clients
  <2> QED
    BY <1>3, <2>1 DEF ConvergerSound, Pending
<1>6. ASSUME NEW c \in Cancellers PROVE CancellerSound(c, canc'[c], flights')
  <2>1. CancellerSound(c, canc[c], flights) /\ canc'[c] = canc[c] /\ c # r
    BY CallersApart DEF ClientInv, Clients
  <2> QED
    BY <2>1 DEF CancellerSound, Pending
<1> QED
  BY <1>2, <1>4, <1>5, <1>6 DEF Kept, Clients

\* What Tidy keeps of a state that is sound as long as it has not ended.
LEMMA TidySound ==
    ASSUME NEW s \in RunType, NEW r, NEW sent, NEW drawn, NEW time, r \in drawn,
           s.pc \notin Ended => RunnerSound(r, s, sent, drawn, time)
    PROVE  Tidy(s) \in RunType /\ RunnerSound(r, Tidy(s), sent, drawn, time)
<1>1. CASE s.pc \notin Ended
  BY <1>1 DEF Tidy
<1>2. CASE s.pc \in Ended
  <2>1. PICK q : q = [s EXCEPT !.work = "none", !.renew = "none", !.call = NoCall, !.t = 0, !.rt = 0, !.due = 0,
                              !.saw = Absent, !.stop = FALSE, !.ctx = FALSE]
    OBVIOUS
  <2>2. q \in RunType
    <3>1. Absent \in Record /\ 0 \in Nat
      BY AbsentType
    <3>2. PICK h : h = [s EXCEPT !.work = "none", !.renew = "none", !.call = NoCall, !.t = 0]
      OBVIOUS
    <3>3. h \in RunType
      BY <3>1, <3>2 DEF RunType
    <3>4. q = [h EXCEPT !.rt = 0, !.due = 0, !.saw = Absent, !.stop = FALSE, !.ctx = FALSE]
      BY <2>1, <3>2
    <3> QED
      BY <3>1, <3>3, <3>4 DEF RunType
  <2>3. q.pc = s.pc /\ q.work = "none" /\ q.renew = "none" /\ q.call = NoCall
    BY <2>1 DEF RunType
  <2>4. Tidy(s) = q
    BY <1>2, <2>1 DEF Tidy
  <2>5. RunnerSound(r, q, sent, drawn, time)
    BY <1>2, <2>3 DEF RunnerSound, Pending, Ended, Calling
  <2> QED
    BY <2>2, <2>4, <2>5
<1> QED
  BY <1>1, <1>2

\* A step that leaves the store alone.
LEMMA LocalKeeps ==
    ASSUME ClientInv, NEW r \in Runners, NEW s \in RunType, run' = [run EXCEPT ![r] = Tidy(s)],
           run[r].pc # "idle", s.pc \notin Ended => RunnerSound(r, s, flights, issued, now), UNCHANGED <<conv, canc>>, Local,
           receipt' = NoReceipt \/ receipt' \in [by : Runners, alive : BOOLEAN], receipt # NoReceipt => receipt' # NoReceipt,
           lock' \in Callers \cup {NoOne}
    PROVE  Kept
<1>1. UNCHANGED storeVars /\ flights' = flights /\ issued' = issued /\ now' = now /\ UNCHANGED <<claimant, spent>>
  BY DEF Local, storeVars
<1>2. r \in issued
  BY DEF ClientInv, Clients, RunnerSound
<1>3. PICK q : q = Tidy(s)
  OBVIOUS
<1>4. q \in RunType /\ RunnerSound(r, q, flights', issued', now')
  BY <1>1, <1>2, <1>3, TidySound
<1> QED
  BY <1>1, <1>3, <1>4, RunnerKeeps DEF ClientInv, SingleTypeOK

LEMMA TheModelType == TheModel \in Models /\ Models = {TheModel}
<1>1. PICK m : Models = {m}
  BY SingleAssumption, RecordAssumption, FS_Singleton
<1> QED
  BY <1>1 DEF TheModel

\* What a goroutine that waits for nothing is sound by.
Shape(s) == /\ s.pc \notin Calling \cup {"idle", "claiming"} /\ s.work # "delta" /\ s.renew # "renewing"
            /\ s.pc \notin {"select", "join"} => s.work = "none" /\ s.renew = "none"

LEMMA ShapeSound ==
    ASSUME NEW s, s.call = NoCall, Shape(s), NEW r, NEW sent, NEW drawn, NEW time, r \in drawn,
           s.renew = "armed" => s.rt \in 1..(time + MaxSkew)
    PROVE  RunnerSound(r, s, sent, drawn, time)
BY DEF Shape, RunnerSound, Pending

\* A call that is sent.
LEMMA CallKeeps ==
    ASSUME ClientInv, NEW r \in Runners, NEW t, NEW next, StoreNext, CompareAndSet(r, t, next),
           NEW s, s.call = Message(r, "cas", t, rec, next), s.call \in Flight => s \in RunType, s.pc \notin Ended,
           run' = [run EXCEPT ![r] = s], run[r].pc # "idle",
           s.pc \notin {"select", "join"} => s.work = "none" /\ s.renew = "none",
           s.renew = "armed" => s.rt = run[r].rt /\ run[r].renew = "armed",
           ~(s.work = "delta" /\ s.renew = "renewing"), s.work = "delta" => s.seq < MaxSeq, UNCHANGED <<conv, canc, receipt, lock, claimant, spent>>
    PROVE  Kept
<1>1. flights' = flights \cup {s.call} /\ UNCHANGED <<rec, expireAt, now, issued>>
  BY DEF CompareAndSet, Send
<1>2. s.call \in Flight
  BY <1>1, StoreInvStep DEF ClientInv, StoreInv, StoreTypeOK
<1>3. s.call.from = r /\ s.call # NoCall
  BY <1>2, CallersApart DEF Message
<1>4. RunnerSound(r, run[r], flights, issued, now)
  BY DEF ClientInv, Clients
<1>5. RunnerSound(r, s, flights', issued', now')
  BY <1>1, <1>3, <1>4 DEF RunnerSound, Pending
<1> QED
  BY <1>1, <1>2, <1>5, RunnerKeeps DEF ClientInv, SingleTypeOK

\* A mutation that may be refused.
LEMMA AttemptKeeps ==
    ASSUME ClientInv, NEW r \in Runners, NEW can, NEW next, NEW t, NEW sent \in Calling, NEW refused \in RunPC,
           refused \notin Calling \cup {"idle", "claiming", "select", "join"}, Attempt(r, can, next, t, sent, refused),
           run[r].pc \notin Calling \cup {"idle", "claiming", "select", "join"}, run[r].call = NoCall \/ run[r].pc \notin Ended,
           can /\ CompareAndSet(r, t, next) => StoreNext
    PROVE  Kept
<1>0. /\ run[r] \in RunType /\ run \in [Runners -> RunType] /\ RunnerSound(r, run[r], flights, issued, now)
  BY DEF ClientInv, SingleTypeOK, Clients
<1>1. run[r].work = "none" /\ run[r].renew = "none"
  BY <1>0 DEF RunnerSound
<1>2. CASE can
  <2>1. PICK s : s = [run[r] EXCEPT !.pc = sent, !.saw = Absent, !.call = Message(r, "cas", t, rec, next)]
    OBVIOUS
  <2>2. /\ s.call = Message(r, "cas", t, rec, next) /\ s.pc = sent /\ s.work = "none" /\ s.renew = "none"
    BY <1>0, <1>1, <2>1 DEF RunType
  <2>3. Absent \in Record /\ sent \in RunPC /\ sent \notin Ended
    BY AbsentType DEF RunPC, Calling, Ended
  <2>4. s.call \in Flight => s \in RunType
    BY <1>0, <2>1, <2>2, <2>3 DEF RunType
  <2>5. CompareAndSet(r, t, next) /\ run' = [run EXCEPT ![r] = s] /\ UNCHANGED <<conv, canc, receipt, lock, claimant, spent>>
    BY <1>2, <2>1, <2>2, <2>3 DEF Attempt, Moves, Others, Tidy
  <2>6. StoreNext /\ run[r].pc # "idle"
    BY <1>2, <2>5
  <2> QED
    BY <2>2, <2>3, <2>4, <2>5, <2>6, CallKeeps
<1>3. CASE ~can
  <2>1. PICK s : s = [run[r] EXCEPT !.pc = refused, !.saw = Absent]
    OBVIOUS
  <2>2. s.pc = refused /\ s.work = "none" /\ s.renew = "none" /\ s.call = run[r].call
    BY <1>0, <1>1, <2>1 DEF RunType
  <2>3. Absent \in Record
    BY AbsentType
  <2>4. s \in RunType
    BY <1>0, <2>1, <2>3 DEF RunType
  <2>5. run' = [run EXCEPT ![r] = Tidy(s)] /\ Local /\ UNCHANGED <<conv, canc, receipt, lock>>
    BY <1>3, <2>1 DEF Attempt, Moves, Others
  <2>6. RunnerSound(r, s, flights, issued, now)
    BY <1>0, <2>2 DEF RunnerSound, Pending
  <2> QED
    BY <2>4, <2>5, <2>6, LocalKeeps DEF ClientInv, SingleTypeOK
<1> QED
  BY <1>2, <1>3

\* What a reply does to the store.
LEMMA ReturnsStep ==
    ASSUME ClientInv, NEW f \in flights, NEW cut, NEW reply, Returns(f, cut, reply)
    PROVE  /\ [StoreNext]_storeVars /\ flights \ {f} \subseteq flights' /\ UNCHANGED <<issued, now>>
           /\ claimant' \in Owners \cup {NoOwner} /\ spent' \in [{"lost", "delayed", "sessions", "crashes"} -> Nat]
<1>1. \/ Executes(f) \/ (Lose(f) /\ UNCHANGED claimant) \/ UNCHANGED <<storeVars, claimant>>
  BY DEF Returns
<1>2. \/ UNCHANGED spent \/ Spend("lost", MaxLost) \/ Spend("delayed", MaxDelayed)
  BY DEF Returns
<1>3. [StoreNext]_storeVars /\ flights \ {f} \subseteq flights' /\ UNCHANGED <<issued, now>>
  BY <1>1 DEF Executes, Execute, Lose, StoreNext, storeVars
<1>4. rec' \in Record
  BY <1>3, StoreInvStep DEF ClientInv, StoreInv, StoreTypeOK
<1>5. claimant' \in Owners \cup {NoOwner}
  BY <1>1, <1>4 DEF Executes, ClientInv, SingleTypeOK, Record
<1>6. spent' \in [{"lost", "delayed", "sessions", "crashes"} -> Nat]
  BY <1>2 DEF Spend, ClientInv, SingleTypeOK
<1> QED
  BY <1>3, <1>5, <1>6

\* A goroutine of a runner hears of its call.
LEMMA ReturnKeeps ==
    ASSUME ClientInv, NEW r \in Runners, run[r].call # NoCall, NEW cut, NEW reply, Returns(run[r].call, cut, reply),
           NEW s \in RunType, s.call = NoCall, Shape(s), s.renew = "armed" => run[r].renew = "armed" /\ s.rt = run[r].rt,
           run' = [run EXCEPT ![r] = Tidy(s)], UNCHANGED Others, run[r].pc # "idle"
    PROVE  Kept
<1>1. PICK f : f = run[r].call
  OBVIOUS
<1>2. f \in flights /\ f.from = r /\ RunnerSound(r, run[r], flights, issued, now) /\ r \in issued
  BY <1>1 DEF ClientInv, Clients, RunnerSound, Pending
<1>3. /\ [StoreNext]_storeVars /\ flights \ {f} \subseteq flights' /\ UNCHANGED <<issued, now>>
      /\ claimant' \in Owners \cup {NoOwner} /\ spent' \in [{"lost", "delayed", "sessions", "crashes"} -> Nat]
  BY <1>1, <1>2, ReturnsStep
<1>4. PICK q : q = Tidy(s)
  OBVIOUS
<1>5. RunnerSound(r, s, flights', issued', now')
  BY <1>2, <1>3, ShapeSound DEF RunnerSound
<1>6. q \in RunType /\ RunnerSound(r, q, flights', issued', now')
  BY <1>2, <1>3, <1>4, <1>5, TidySound
<1> QED
  BY <1>2, <1>3, <1>4, <1>6, RunnerKeeps DEF Others, ClientInv, SingleTypeOK

----------------------------------------------------------------------------
(* The runner's steps *)

LEMMA ReadingType == ASSUME ClientInv, NEW t \in Reading PROVE t \in Sampled /\ t \in Nat
BY StoreAssumption DEF Reading, Sampled, ClientInv, StoreInv, StoreTypeOK

LEMMA RunnerFields ==
    ASSUME ClientInv, NEW r \in Runners
    PROVE  /\ run[r] \in RunType /\ run \in [Runners -> RunType] /\ run[r].seq \in 0..MaxSeq /\ run[r].saw \in Record
           /\ RunnerSound(r, run[r], flights, issued, now) /\ r \in Callers /\ r \in Owners
BY CallersApart DEF ClientInv, SingleTypeOK, Clients, RunType

\* What a runner past its claim may send is the store's.
LEMMA OwnedIsStore ==
    ASSUME ClientInv, NEW r \in Runners, run[r].pc # "idle", NEW t \in Reading, OwnedSend(r, r, t) PROVE StoreNext
BY RunnerFields, ReadingType DEF StoreNext, RunnerSound

LEMMA MutationsKeep ==
    ASSUME ClientInv, NEW r \in Runners, SettleRegistrationFailure(r) \/ Authority(r) \/ Mark(r) \/ Begin(r)
    PROVE  Kept
<1>0. run[r].pc \in {"settle", "authority", "mark", "begin"}
  BY DEF SettleRegistrationFailure, Authority, Mark, Begin
<1>1. /\ run[r].pc \notin Calling \cup {"idle", "claiming", "select", "join"} /\ run[r].pc \notin Ended
      /\ {"settling", "acking", "failing", "marking", "beginning"} \subseteq Calling
      /\ {"error", "cancelled", "failed", "finish"} \subseteq RunPC \ (Calling \cup {"idle", "claiming", "select", "join"})
  BY <1>0 DEF Calling, Ended, RunPC
<1>2. ASSUME NEW t \in Reading, NEW sent \in Calling, NEW refused \in {"error", "cancelled", "failed", "finish"},
             Attempt(r, CanAcknowledgeCancelled(rec, r, t), AcknowledgeCancelled(rec, t), t, sent, refused)
      PROVE  Kept
  <2>1. CanAcknowledgeCancelled(rec, r, t) /\ CompareAndSet(r, t, AcknowledgeCancelled(rec, t)) => StoreNext
    BY <1>0, OwnedIsStore DEF OwnedSend, SendAcknowledge
  <2> QED
    BY <1>1, <1>2, <2>1, AttemptKeeps
<1>3. ASSUME NEW t \in Reading, NEW sent \in Calling, NEW refused \in {"error", "cancelled", "failed", "finish"},
             Attempt(r, CanFailRunning(rec, r, t), Fail(rec, t), t, sent, refused)
      PROVE  Kept
  <2>1. CanFailRunning(rec, r, t) /\ CompareAndSet(r, t, Fail(rec, t)) => StoreNext
    BY <1>0, OwnedIsStore DEF OwnedSend, SendFailRunning
  <2> QED
    BY <1>1, <1>3, <2>1, AttemptKeeps
<1>4. ASSUME NEW t \in Reading, NEW sent \in Calling, NEW refused \in {"error", "cancelled", "failed", "finish"},
             Attempt(r, FALSE, rec, t, sent, refused)
      PROVE  Kept
  BY <1>1, <1>4, AttemptKeeps
<1>5. CASE SettleRegistrationFailure(r)
  <2>1. PICK t \in Reading :
           \/ Attempt(r, CanAcknowledgeCancelled(rec, r, t), AcknowledgeCancelled(rec, t), t, "settling", "error")
           \/ Attempt(r, CanFailRunning(rec, r, t), Fail(rec, t), t, "settling", "error")
           \/ Attempt(r, FALSE, rec, t, "settling", "error")
    BY <1>5, Zenon DEF SettleRegistrationFailure
  <2> QED
    BY <1>1, <1>2, <1>3, <1>4, <2>1
<1>6. CASE Authority(r)
  <2>1. PICK t \in Reading :
           \/ Attempt(r, CanAcknowledgeCancelled(rec, r, t), AcknowledgeCancelled(rec, t), t, "acking", "error")
           \/ Attempt(r, CanFailRunning(rec, r, t), Fail(rec, t), t, "failing", "error")
           \/ \E refused \in {"error", "cancelled", "failed"} : Attempt(r, FALSE, rec, t, "error", refused)
    <3>1. PICK t \in Reading :
           CASE run[r].saw.state = "cancelling" ->
                   Attempt(r, CanAcknowledgeCancelled(rec, r, t), AcknowledgeCancelled(rec, t), t, "acking", "error")
             [] RunningLeaseAuthorized(run[r].saw, r, t) ->
                   Attempt(r, CanFailRunning(rec, r, t), Fail(rec, t), t, "failing", "error")
             [] OTHER ->
                   Attempt(r, FALSE, rec, t, "error",
                           IF run[r].saw.state \in {"cancelled", "failed"} THEN run[r].saw.state ELSE "error")
      BY <1>6, Zenon DEF Authority
    <3> QED
      BY <3>1
  <2>2. ASSUME NEW u \in Reading, NEW refused \in {"error", "cancelled", "failed"}, Attempt(r, FALSE, rec, u, "error", refused)
        PROVE  Attempt(r, FALSE, rec, u, "acking", refused)
    BY <2>2 DEF Attempt
  <2> QED
    BY <1>1, <1>2, <1>3, <1>4, <2>1, <2>2
<1>7. CASE Mark(r)
  <2>1. PICK t \in Reading : Attempt(r, ~run[r].ctx /\ CanMarkModelDone(rec, r, TheModel, run[r].seq, t),
                                     MarkModelDone(rec, TheModel, t), t, "marking", "finish")
    BY <1>7 DEF Mark
  <2>2. CanMarkModelDone(rec, r, TheModel, run[r].seq, t) /\ CompareAndSet(r, t, MarkModelDone(rec, TheModel, t)) => StoreNext
    BY <1>0, OwnedIsStore, RunnerFields, TheModelType DEF OwnedSend, SendMarkModelDone
  <2> QED
    BY <1>1, <2>1, <2>2, AttemptKeeps
<1>8. CASE Begin(r)
  <2>1. PICK t \in Reading : Attempt(r, ~run[r].ctx /\ CanBeginCommit(rec, r, t), BeginCommit(rec, t), t, "beginning", "finish")
    BY <1>8 DEF Begin
  <2>2. CanBeginCommit(rec, r, t) /\ CompareAndSet(r, t, BeginCommit(rec, t)) => StoreNext
    BY <1>0, OwnedIsStore DEF OwnedSend, SendBeginCommit
  <2> QED
    BY <1>1, <2>1, <2>2, AttemptKeeps
<1> QED
  BY <1>5, <1>6, <1>7, <1>8

\* A message map of one runner.
LEMMA MessageType ==
    ASSUME NEW r \in Runners, NEW t, CanComplete(rec, MessageOf(r), t)
    PROVE  MessageOf(r) \in [ModelsIn(rec, "completed") -> Guids]
BY CallersApart DEF CanComplete, MessageOf, ModelsIn

LEMMA CompletionsKeep ==
    ASSUME ClientInv, NEW r \in Runners, CompleteGeneration(r) \/ Recomplete(r)
    PROVE  Kept
<1>0. run[r].pc \in {"complete", "recomplete"}
  BY DEF CompleteGeneration, Recomplete
<1>1. /\ run[r].pc \notin Calling \cup {"idle", "claiming", "select", "join"} /\ run[r].pc \notin Ended
      /\ {"completing", "recompleting"} \subseteq Calling
      /\ {"error", "recomplete", "report"} \subseteq RunPC \ (Calling \cup {"idle", "claiming", "select", "join"})
  BY <1>0 DEF Calling, Ended, RunPC
<1>2. ASSUME NEW t \in Reading, CanComplete(rec, MessageOf(r), t), CompareAndSet(r, t, Complete(rec, MessageOf(r), t))
      PROVE  StoreNext
  <2>1. SharedSend(r, t)
    BY <1>2, MessageType DEF SharedSend, SendComplete
  <2> QED
    BY <2>1, RunnerFields, ReadingType DEF StoreNext
<1>3. CASE CompleteGeneration(r)
  <2>1. PICK t \in Reading : Attempt(r, ~run[r].ctx /\ CanComplete(rec, MessageOf(r), t),
                                     Complete(rec, MessageOf(r), t), t, "completing", "recomplete")
    BY <1>3 DEF CompleteGeneration
  <2> QED
    BY <1>1, <1>2, <2>1, AttemptKeeps
<1>4. CASE Recomplete(r)
  <2>1. PICK t \in Reading, refused \in {"report", "error"} :
          Attempt(r, CanComplete(rec, MessageOf(r), t), Complete(rec, MessageOf(r), t), t, "recompleting", refused)
    BY <1>4 DEF Recomplete
  <2> QED
    BY <1>1, <1>2, <2>1, AttemptKeeps
<1> QED
  BY <1>3, <1>4

\* A step of Run itself, or of a goroutine that waits for nothing.
LEMMA GoesKeeps ==
    ASSUME ClientInv, NEW r \in Runners, NEW pc \in RunPC \ (Calling \cup {"idle", "claiming", "select", "join"}),
           Goes(r, pc), Local, run[r].pc \notin {"idle", "select", "join"}
    PROVE  Kept
<1>1. PICK s : s = [run[r] EXCEPT !.pc = pc]
  OBVIOUS
<1>2. s \in RunType /\ s.pc = pc /\ s.work = "none" /\ s.renew = "none" /\ s.call = run[r].call
  BY <1>1, RunnerFields DEF RunType, RunnerSound
<1>3. RunnerSound(r, s, flights, issued, now)
  BY <1>2, RunnerFields DEF RunnerSound, Pending
<1>4. run' = [run EXCEPT ![r] = Tidy(s)] /\ UNCHANGED <<conv, canc, receipt, lock>>
  BY <1>1 DEF Goes, Moves, Others
<1> QED
  BY <1>2, <1>3, <1>4, LocalKeeps DEF ClientInv, SingleTypeOK

LEMMA FinalizingKeeps ==
    ASSUME ClientInv, NEW r \in Runners,
           Preload(r) \/ LockTimesOut(r) \/ Recheck(r) \/ PersistFails(r) \/ Reload(r) \/ Report(r)
    PROVE  Kept
<1>1. run[r].pc \in {"preload", "locking", "recheck", "persist", "reload", "resolve", "report"} /\ Local
  BY DEF Preload, LockTimesOut, Recheck, PersistFails, Reload, Report
<1>2. \E pc \in {"error", "locking", "complete", "resolve", "persist", "giveup", "done"} : Goes(r, pc)
  <2>1. CASE Preload(r)
    BY <2>1 DEF Preload
  <2>2. CASE LockTimesOut(r) \/ PersistFails(r)
    BY <2>2 DEF LockTimesOut, PersistFails
  <2>3. CASE Recheck(r)
    BY <2>3 DEF Recheck
  <2>4. CASE Reload(r)
    BY <2>4 DEF Reload
  <2>5. CASE Report(r)
    <3>1. \E told \in {"done", "error"} : Goes(r, told)
      BY <2>5, Zenon DEF Report
    <3> QED
      BY <3>1
  <2> QED
    BY <2>1, <2>2, <2>3, <2>4, <2>5
<1>3. {"error", "locking", "complete", "resolve", "persist", "giveup", "done"}
        \subseteq RunPC \ (Calling \cup {"idle", "claiming", "select", "join"})
  BY DEF RunPC, Calling, Ended
<1> QED
  BY <1>1, <1>2, <1>3, GoesKeeps

\* One field of a runner, or two.
LEMMA RunEdits ==
    ASSUME NEW p \in RunType, NEW pc \in RunPC, NEW saw \in Record, NEW t \in Nat
    PROVE  /\ [p EXCEPT !.pc = pc] \in RunType /\ [p EXCEPT !.t = t, !.pc = pc] \in RunType
           /\ [p EXCEPT !.pc = pc, !.saw = saw] \in RunType
           /\ [p EXCEPT !.pc = pc, !.stop = TRUE, !.ctx = TRUE] \in RunType
           /\ [p EXCEPT !.ctx = TRUE] \in RunType
BY DEF RunType

\* A receipt that is there.
LEMMA ReceiptType ==
    ASSUME NEW r \in Runners, NEW alive \in BOOLEAN
    PROVE  [by |-> r, alive |-> alive] # NoReceipt /\ [by |-> r, alive |-> alive] \in [by : Runners, alive : BOOLEAN]
<1>1. [by |-> r, alive |-> alive] \in [by : Runners, alive : BOOLEAN]
  OBVIOUS
<1>2. NoReceipt \notin [by : Runners, alive : BOOLEAN]
  BY Zenon, SingleAssumption
<1> QED
  BY <1>1, <1>2

\* A step of the advisory lock or of the transaction: of the runner only the place changes.
LEMMA LockingKeeps ==
    ASSUME ClientInv, NEW r \in Runners, TakesLock(r) \/ Persist(r) \/ Unlock(r)
    PROVE  Kept
<1>0. run[r].pc \in {"locking", "persist", "unlock", "giveup"} /\ Local /\ UNCHANGED <<conv, canc>>
  BY DEF TakesLock, Persist, Unlock
<1>1. PICK pc \in {"recheck", "unlock", "giveup", "reload", "resolve"} : run' = [run EXCEPT ![r].pc = pc]
  <2>1. run' = [run EXCEPT ![r].pc = IF run[r].pc = "unlock" /\ lock = r THEN "reload" ELSE "resolve"] \/ ~Unlock(r)
    BY RunnerFields DEF Unlock
  <2> QED
    BY <2>1 DEF TakesLock, Persist
<1>2. PICK s : s = [run[r] EXCEPT !.pc = pc]
  OBVIOUS
<1>3. /\ pc \in RunPC /\ pc \notin Calling \cup {"idle", "claiming", "select", "join"} /\ pc \notin Ended
      /\ run[r].pc \notin {"idle", "select", "join"}
  BY <1>0 DEF RunPC, Calling, Ended
<1>4. s \in RunType /\ s.pc = pc /\ s.work = "none" /\ s.renew = "none" /\ s.call = run[r].call
  BY <1>2, <1>3, RunnerFields DEF RunType, RunnerSound
<1>5. RunnerSound(r, s, flights, issued, now)
  BY <1>3, <1>4, RunnerFields DEF RunnerSound, Pending
<1>6. run' = [run EXCEPT ![r] = Tidy(s)]
  BY <1>1, <1>2, <1>3, <1>4, RunnerFields DEF Tidy
<1>7. lock' \in Callers \cup {NoOne}
  BY CallersApart DEF TakesLock, Persist, Unlock, ClientInv, SingleTypeOK
<1>8. receipt' = receipt \/ receipt' = [by |-> r, alive |-> TRUE]
  BY DEF TakesLock, Persist, Unlock
<1>9. receipt' = NoReceipt \/ receipt' \in [by : Runners, alive : BOOLEAN]
  BY <1>8, ReceiptType DEF ClientInv, SingleTypeOK
<1>10. receipt # NoReceipt => receipt' # NoReceipt
  BY <1>8, ReceiptType
<1> QED
  BY <1>0, <1>3, <1>4, <1>5, <1>6, <1>7, <1>9, <1>10, LocalKeeps

\* Steps between Run's calls.
LEMMA RunKeeps ==
    ASSUME ClientInv, NEW r \in Runners, Register(r) \/ RegisterFails(r) \/ Finish(r) \/ Finalize(r) \/ Abort(r)
    PROVE  Kept
<1>0. Local /\ UNCHANGED <<conv, canc, receipt, lock>>
  <2>1. CASE Register(r) \/ RegisterFails(r) \/ Finish(r) \/ Abort(r)
    BY <2>1, Zenon DEF Register, RegisterFails, Finish, Abort, Moves, Others
  <2>2. CASE Finalize(r)
    BY <2>2, Zenon DEF Finalize, Moves, Others
  <2> QED
    BY <2>1, <2>2
<1>a. run[r].pc # "idle"
  <2>1. run[r].pc \in {"claimed", "finish", "finalize"} \/ IsRegistered(r)
    BY Zenon DEF Register, RegisterFails, Finish, Finalize, Abort
  <2> QED
    BY <2>1 DEF IsRegistered
<1>b. rec \in Record /\ now \in Nat /\ RenewEvery \in Nat
  BY SingleAssumption DEF ClientInv, StoreInv, StoreTypeOK
<1>c. PICK p : p = run[r] /\ p \in RunType
  BY RunnerFields
<1>d. /\ {"error", "authority", "preload", "select", "settle"} \subseteq RunPC
      /\ {"error", "authority", "preload", "select", "settle"} \cap (Calling \cup {"claiming", "idle"}) = {}
      /\ {"authority", "preload", "select", "settle"} \cap Ended = {}
  BY DEF RunPC, Calling, Ended
<1>e. RunnerSound(r, p, flights, issued, now)
  BY <1>c, RunnerFields
<1>1. ASSUME NEW s \in RunType, run' = [run EXCEPT ![r] = Tidy(s)], s.pc \notin Ended => RunnerSound(r, s, flights, issued, now)
      PROVE  Kept
  BY <1>0, <1>1, <1>a, LocalKeeps DEF ClientInv, SingleTypeOK
<1>2. CASE Register(r)
  <2>1. PICK h : h = [p EXCEPT !.pc = "select", !.work = "stream"]
    OBVIOUS
  <2>2. now + RenewEvery \in Nat
    BY <1>b
  <2>3. h \in RunType /\ h.pc = "select" /\ h.work = "stream" /\ h.call = p.call
    BY <1>c, <1>d, <2>1 DEF RunType
  <2>4. PICK s : s = [h EXCEPT !.renew = "timer", !.due = now + RenewEvery]
    OBVIOUS
  <2>5. s \in RunType /\ s.pc = "select" /\ s.work = "stream" /\ s.renew = "timer" /\ s.call = p.call
    BY <2>2, <2>3, <2>4 DEF RunType
  <2>6. RunnerSound(r, s, flights, issued, now)
    BY <1>a, <1>c, <1>d, <1>e, <2>5 DEF RunnerSound, Pending
  <2>7. s = [p EXCEPT !.pc = "select", !.work = "stream", !.renew = "timer", !.due = now + RenewEvery]
    BY <2>1, <2>4
  <2> QED
    BY <1>1, <1>2, <1>c, <2>5, <2>6, <2>7 DEF Register, Moves
<1>3. CASE RegisterFails(r)
  <2>1. PICK s : s = [p EXCEPT !.pc = "settle", !.saw = rec]
    OBVIOUS
  <2>2. s \in RunType
    BY <1>b, <1>c, <1>d, <2>1 DEF RunType
  <2>3. s.pc = "settle" /\ s.work = p.work /\ s.renew = p.renew /\ s.call = p.call /\ p.pc = "claimed"
    BY <1>3, <1>c, <2>1 DEF RunType, RegisterFails
  <2>4. RunnerSound(r, s, flights, issued, now)
    BY <1>d, <1>e, <2>3 DEF RunnerSound, Pending
  <2> QED
    BY <1>1, <1>3, <1>c, <2>1, <2>2, <2>4 DEF RegisterFails, Moves
<1>4. CASE Finish(r)
  <2>1. PICK pc \in {"error", "authority"} : pc = IF rec = Absent THEN "error" ELSE "authority"
    OBVIOUS
  <2>2. PICK s : s = [p EXCEPT !.pc = pc, !.saw = rec]
    OBVIOUS
  <2>3. s \in RunType
    BY <1>b, <1>c, <1>d, <2>2 DEF RunType
  <2>4. s.pc = pc /\ s.work = p.work /\ s.renew = p.renew /\ s.call = p.call /\ p.pc = "finish"
    BY <1>4, <1>c, <2>2 DEF RunType, Finish
  <2>5. RunnerSound(r, s, flights, issued, now)
    BY <1>d, <1>e, <2>4 DEF RunnerSound, Pending
  <2>6. run' = [run EXCEPT ![r] = Tidy(s)]
    BY <1>4, <1>c, <2>1, <2>2 DEF Finish, Moves
  <2> QED
    BY <1>1, <2>3, <2>5, <2>6
<1>5. CASE Finalize(r)
  <2>1. PICK t \in Reading, pc \in {"preload", "error"} : run' = [run EXCEPT ![r] = Tidy([p EXCEPT !.t = t, !.pc = pc])]
    <3>1. PICK t \in Reading : Moves(r, [run[r] EXCEPT !.t = t, !.pc = IF ~run[r].ctx /\ MatchesRedis(r, t) THEN "preload" ELSE "error"])
      BY <1>5, Zenon DEF Finalize
    <3>2. PICK pc \in {"preload", "error"} : pc = IF ~run[r].ctx /\ MatchesRedis(r, t) THEN "preload" ELSE "error"
      OBVIOUS
    <3> QED
      BY <1>c, <3>1, <3>2, Zenon DEF Moves
  <2>2. PICK s : s = [p EXCEPT !.t = t, !.pc = pc]
    OBVIOUS
  <2>3. s \in RunType
    BY <1>b, <1>c, <1>d, <2>2, ReadingType DEF RunType
  <2>4. s.pc = pc /\ s.work = p.work /\ s.renew = p.renew /\ s.call = p.call 
    BY <1>c, <2>2 DEF RunType
  <2>f. p.pc = "finalize"
    BY <1>5, <1>c, Zenon DEF Finalize
  <2>5. RunnerSound(r, s, flights, issued, now)
    BY <1>d, <1>e, <2>4, <2>f DEF RunnerSound, Pending
  <2> QED
    BY <1>1, <2>1, <2>2, <2>3, <2>5
<1>6. CASE Abort(r)
  <2>1. PICK s : s = [p EXCEPT !.ctx = TRUE]
    OBVIOUS
  <2>2. s \in RunType
    BY <1>b, <1>c, <1>d, <2>1 DEF RunType
  <2>3. s.pc = p.pc /\ s.work = p.work /\ s.renew = p.renew /\ s.call = p.call /\ s.rt = p.rt /\ s.seq = p.seq
    BY <1>c, <2>1 DEF RunType
  <2>4. RunnerSound(r, s, flights, issued, now)
    BY <1>e, <2>3 DEF RunnerSound, Pending
  <2> QED
    BY <1>1, <1>6, <1>c, <2>1, <2>2, <2>4 DEF Abort, Moves
<1> QED
  BY <1>2, <1>3, <1>4, <1>5, <1>6

\* The claim draws the runner's token.
LEMMA RunnerClaims == ASSUME ClientInv, NEW r \in Runners, Claim(r) PROVE Kept
<1>1. PICK t \in Reading : /\ SendClaim(r, r, t)
                           /\ Moves(r, [run[r] EXCEPT !.pc = "claiming", !.call = Message(r, "claim", t, Absent, NewRunning(r, t))])
  BY Zenon DEF Claim
<1>2. run[r].pc = "idle" /\ UNCHANGED <<claimant, spent>>
  BY Zenon DEF Claim
<1>3. StoreNext
  BY <1>1, RunnerFields, ReadingType DEF StoreNext
<1>4. PICK f : f = Message(r, "claim", t, Absent, NewRunning(r, t))
  OBVIOUS
<1>5. /\ flights' = flights \cup {f} /\ issued' = issued \cup {r} /\ UNCHANGED <<rec, expireAt, now>> /\ f.from = r
  BY <1>1, <1>4 DEF SendClaim, Send, Message
<1>6. f \in Flight /\ f # NoCall
  BY <1>3, <1>5, StoreInvStep, CallersApart DEF ClientInv, StoreInv, StoreTypeOK
<1>7. PICK p : p = run[r] /\ p \in RunType /\ RunnerSound(r, p, flights, issued, now)
  BY RunnerFields
<1>8. PICK s : s = [p EXCEPT !.pc = "claiming", !.call = f]
  OBVIOUS
<1>9. "claiming" \in RunPC /\ "claiming" \notin Ended
  BY DEF RunPC, Ended
<1>10. s \in RunType /\ s.pc = "claiming" /\ s.call = f /\ s.work = p.work /\ s.renew = p.renew
  BY <1>6, <1>7, <1>8, <1>9 DEF RunType
<1>11. RunnerSound(r, s, flights', issued', now')
  BY <1>2, <1>5, <1>6, <1>7, <1>10 DEF RunnerSound, Pending
<1>12. run' = [run EXCEPT ![r] = s] /\ UNCHANGED <<conv, canc, receipt, lock>>
  BY <1>1, <1>4, <1>7, <1>8, <1>9, <1>10 DEF Moves, Others, Tidy
<1> QED
  BY <1>2, <1>3, <1>5, <1>10, <1>11, <1>12, RunnerKeeps DEF ClientInv, SingleTypeOK

\* Run hears of its claim, or of a mutation.
LEMMA RunHears == ASSUME ClientInv, NEW r \in Runners, Claimed(r) \/ CallReturns(r) PROVE Kept
<1>1. PICK p : p = run[r] /\ p \in RunType /\ RunnerSound(r, p, flights, issued, now)
  BY RunnerFields
<1>2. p.pc \in Calling \cup {"claiming"}
  BY <1>1, Zenon DEF Claimed, CallReturns
<1>3. PICK pc \in {"claimed", "duplicate", "error", "begin", "finish", "finalize", "report", "recomplete", "cancelled", "failed"},
           cut \in BOOLEAN, reply \in Replies :
              Returns(p.call, cut, reply) /\ Moves(r, [p EXCEPT !.call = NoCall, !.pc = pc])
  <2>1. CASE Claimed(r)
    <3>1. PICK reply \in Replies :
                       /\ Returns(p.call, FALSE, reply)
                       /\ Moves(r, [p EXCEPT !.call = NoCall,
                                       !.pc = CASE reply = "done"     -> "claimed"
                                                [] reply = "conflict" -> "duplicate"
                                                [] OTHER              -> "error"])
      BY <1>1, <2>1, Zenon DEF Claimed
    <3>2. PICK pc \in {"claimed", "duplicate", "error"} : pc = CASE reply = "done" -> "claimed"
                                                            [] reply = "conflict" -> "duplicate" [] OTHER -> "error"
      OBVIOUS
    <3>3. Moves(r, [p EXCEPT !.call = NoCall, !.pc = pc])
      BY <3>1, <3>2, Zenon
    <3> QED
      BY <3>1, <3>3
  <2>2. CASE CallReturns(r)
    <3>1. PICK reply \in Replies :
                       /\ Returns(p.call, p.ctx /\ p.pc \in {"marking", "beginning", "completing"}, reply)
                       /\ Moves(r, [p EXCEPT !.call = NoCall, !.pc = After(r, p.call, reply)])
      BY <1>1, <2>2, Zenon DEF CallReturns
    <3>2. After(r, p.call, reply) \in {"error", "begin", "finish", "finalize", "report", "recomplete", "cancelled", "failed"}
      <4>1. run[r].pc \in Calling
        BY <2>2, Zenon DEF CallReturns
      <4> QED
        BY <4>1 DEF After, Calling
    <3>3. (p.ctx /\ p.pc \in {"marking", "beginning", "completing"}) \in BOOLEAN
      OBVIOUS
    <3> QED
      BY <3>1, <3>2, <3>3
  <2> QED
    BY <2>1, <2>2
<1>4. PICK s : s = [p EXCEPT !.call = NoCall, !.pc = pc]
  OBVIOUS
<1>5. pc \in RunPC /\ pc \notin Calling \cup {"idle", "claiming"}
  BY DEF RunPC, Ended, Calling
<1>6. s \in RunType
  BY <1>1, <1>4, <1>5 DEF RunType
<1>7. s.pc = pc /\ s.call = NoCall /\ s.work = p.work /\ s.renew = p.renew
  BY <1>1, <1>4 DEF RunType
<1>8. p.work = "none" /\ p.renew = "none" /\ p.call # NoCall /\ p.pc # "idle"
  BY <1>1, <1>2 DEF RunnerSound, Calling
<1>9. Shape(s)
  BY <1>5, <1>7, <1>8 DEF Shape
<1>10. run' = [run EXCEPT ![r] = Tidy(s)] /\ UNCHANGED Others
  BY <1>3, <1>4 DEF Moves
<1> QED
  BY <1>1, <1>3, <1>6, <1>7, <1>8, <1>9, <1>10, ReturnKeeps

\* consume or renew hears of its mutation.
LEMMA StreamHears == ASSUME ClientInv, NEW r \in Runners, DeltaReturns(r) \/ RenewReturns(r) PROVE Kept
<1>1. PICK p : p = run[r] /\ p \in RunType /\ RunnerSound(r, p, flights, issued, now)
  BY RunnerFields
<1>2. now \in Nat /\ RenewEvery \in Nat /\ rec \in Record /\ Absent \in Record
  BY SingleAssumption, AbsentType DEF ClientInv, StoreInv, StoreTypeOK
<1>3. p.call # NoCall /\ p.pc \in {"select", "join"}
  <2>1. p.work = "delta" \/ p.renew = "renewing"
    BY <1>1, Zenon DEF DeltaReturns, RenewReturns
  <2> QED
    BY <1>1, <2>1 DEF RunnerSound
<1>4. p.pc \notin Calling \cup {"idle", "claiming"}
  BY <1>3 DEF Calling
<1>5. CASE DeltaReturns(r)
  <2>1. PICK cut, reply : /\ Returns(p.call, cut, reply)
                          /\ Moves(r, IF reply = "done" THEN [p EXCEPT !.work = "stream", !.seq = @ + 1, !.call = NoCall]
                                                        ELSE [p EXCEPT !.work = "bad", !.call = NoCall])
    BY <1>1, <1>5 DEF DeltaReturns
  <2>2. p.work = "delta"
    BY <1>1, <1>5, Zenon DEF DeltaReturns
  <2>3. PICK s : s = IF reply = "done" THEN [p EXCEPT !.work = "stream", !.seq = p.seq + 1, !.call = NoCall]
                                       ELSE [p EXCEPT !.work = "bad", !.call = NoCall]
    OBVIOUS
  <2>4. s.call = NoCall /\ s.pc = p.pc /\ s.renew = p.renew /\ s.rt = p.rt /\ s.work \in {"stream", "bad"}
    BY <1>1, <2>3 DEF RunType
  <2>5. p.seq \in 0..MaxSeq /\ p.seq < MaxSeq
    BY <1>1, <2>2 DEF RunType, RunnerSound
  <2>6. p.seq + 1 \in 0..MaxSeq
    BY <2>5, StoreAssumption
  <2>7. s \in RunType
    BY <1>1, <2>3, <2>6 DEF RunType
  <2>8. Shape(s)
    BY <1>1, <1>3, <1>4, <2>2, <2>4 DEF Shape, RunnerSound
  <2>9. run' = [run EXCEPT ![r] = Tidy(s)] /\ UNCHANGED Others
    BY <2>1, <2>3 DEF Moves
  <2> QED
    BY <1>1, <1>3, <1>4, <2>1, <2>4, <2>7, <2>8, <2>9, ReturnKeeps
<1>6. CASE RenewReturns(r)
  <2>1. PICK cut, reply : /\ Returns(p.call, cut, reply)
                          /\ Moves(r, [p EXCEPT !.call = NoCall,
                                          !.renew = IF reply = "done" THEN "timer" ELSE "failed",
                                          !.due = now + RenewEvery,
                                          !.saw = IF reply = "conflict" THEN rec ELSE Absent])
    BY <1>1, <1>6, Zenon DEF RenewReturns
  <2>2. p.renew = "renewing"
    BY <1>1, <1>6, Zenon DEF RenewReturns
  <2>3. PICK ends \in {"timer", "failed"}, saw \in Record, due \in Nat :
          /\ ends = IF reply = "done" THEN "timer" ELSE "failed"
          /\ saw = IF reply = "conflict" THEN rec ELSE Absent
          /\ due = now + RenewEvery
    BY <1>2
  <2>4. PICK s : s = [p EXCEPT !.call = NoCall, !.renew = ends, !.due = due, !.saw = saw]
    OBVIOUS
  <2>5. s.call = NoCall /\ s.pc = p.pc /\ s.renew = ends /\ s.work = p.work
    BY <1>1, <2>4 DEF RunType
  <2>6. s \in RunType
    BY <1>1, <2>4 DEF RunType
  <2>7. Shape(s)
    BY <1>1, <1>3, <1>4, <2>2, <2>5 DEF Shape, RunnerSound
  <2>8. run' = [run EXCEPT ![r] = Tidy(s)] /\ UNCHANGED Others
    BY <2>1, <2>3, <2>4 DEF Moves
  <2> QED
    BY <1>1, <1>3, <1>4, <2>1, <2>5, <2>6, <2>7, <2>8, ReturnKeeps
<1> QED
  BY <1>5, <1>6

\* The stream's steps between its calls.
LEMMA StreamKeeps ==
    ASSUME ClientInv, NEW r \in Runners, UpstreamEnds(r) \/ RenewFires(r) \/ RenewStops(r) \/ Select(r) \/ Join(r)
    PROVE  Kept
<1>1. PICK p : p = run[r] /\ p \in RunType /\ RunnerSound(r, p, flights, issued, now)
  BY RunnerFields
<1>2. Local /\ UNCHANGED Others
  <2>1. CASE UpstreamEnds(r) \/ RenewStops(r) \/ Select(r) \/ Join(r)
    BY <2>1, Zenon DEF UpstreamEnds, RenewStops, Select, Join, Moves
  <2>2. CASE RenewFires(r)
    BY <2>2, Zenon DEF RenewFires, Moves
  <2> QED
    BY <2>1, <2>2
<1>3. p.pc \in {"select", "join"}
  <2>1. run[r].pc \in {"select", "join"} \/ Streaming(r)
    BY Zenon DEF UpstreamEnds, RenewFires, RenewStops, Select, Join
  <2> QED
    BY <1>1, <2>1 DEF Streaming
<1>4. /\ p.pc \notin Calling \cup {"idle", "claiming"} /\ p.pc \notin Ended
      /\ {"join", "error", "authority", "finish", "mark"} \subseteq RunPC \ (Calling \cup {"idle", "claiming"})
  BY <1>3 DEF Calling, Ended, RunPC
<1>5. ASSUME NEW s \in RunType, run' = [run EXCEPT ![r] = Tidy(s)], s.pc \notin Ended => RunnerSound(r, s, flights, issued, now)
      PROVE  Kept
  BY <1>1, <1>2, <1>4, <1>5, LocalKeeps DEF Others, ClientInv, SingleTypeOK
<1>6. CASE UpstreamEnds(r)
  <2>1. PICK work \in {"ok", "bad"} : Moves(r, [p EXCEPT !.work = work]) /\ p.work = "stream"
    BY <1>1, <1>6, Zenon DEF UpstreamEnds
  <2>2. PICK s : s = [p EXCEPT !.work = work]
    OBVIOUS
  <2>3. s \in RunType
    BY <1>1, <2>2 DEF RunType
  <2>4. s.pc = p.pc /\ s.work = work /\ s.renew = p.renew /\ s.call = p.call /\ s.rt = p.rt
    BY <1>1, <2>2 DEF RunType
  <2>5. RunnerSound(r, s, flights, issued, now)
    BY <1>1, <1>3, <1>4, <2>4 DEF RunnerSound, Pending
  <2> QED
    BY <1>5, <2>1, <2>2, <2>3, <2>5 DEF Moves
<1>7. CASE RenewFires(r)
  <2>1. PICK t \in Reading : Moves(r, [p EXCEPT !.renew = "armed", !.rt = t]) /\ p.renew = "timer"
    BY <1>1, <1>7, Zenon DEF RenewFires
  <2>2. PICK s : s = [p EXCEPT !.renew = "armed", !.rt = t]
    OBVIOUS
  <2>3. t \in Nat /\ t \in 1..(now + MaxSkew)
    BY ReadingType DEF Sampled
  <2>4. s \in RunType
    BY <1>1, <2>2, <2>3 DEF RunType
  <2>5. s.pc = p.pc /\ s.work = p.work /\ s.renew = "armed" /\ s.call = p.call /\ s.rt = t /\ s.seq = p.seq
    BY <1>1, <2>2 DEF RunType
  <2>6. RunnerSound(r, s, flights, issued, now)
    BY <1>1, <1>3, <1>4, <2>3, <2>5 DEF RunnerSound, Pending
  <2> QED
    BY <1>5, <2>1, <2>2, <2>4, <2>6 DEF Moves
<1>8. CASE RenewStops(r)
  <2>1. Moves(r, [p EXCEPT !.renew = "stopped"]) /\ p.renew = "timer"
    BY <1>1, <1>8, Zenon DEF RenewStops
  <2>2. PICK s : s = [p EXCEPT !.renew = "stopped"]
    OBVIOUS
  <2>3. s \in RunType
    BY <1>1, <2>2 DEF RunType
  <2>4. s.pc = p.pc /\ s.work = p.work /\ s.renew = "stopped" /\ s.call = p.call /\ s.seq = p.seq
    BY <1>1, <2>2 DEF RunType
  <2>5. RunnerSound(r, s, flights, issued, now)
    BY <1>1, <1>3, <1>4, <2>4 DEF RunnerSound, Pending
  <2> QED
    BY <1>5, <2>1, <2>2, <2>3, <2>5 DEF Moves
<1>9. CASE Select(r)
  <2>1. PICK ctx \in BOOLEAN : ctx <=> p.ctx \/ p.renew = "failed"
    OBVIOUS
  <2>2. PICK s : s = [p EXCEPT !.pc = "join", !.stop = TRUE, !.ctx = ctx]
    OBVIOUS
  <2>3. s \in RunType
    BY <1>1, <1>4, <2>2 DEF RunType
  <2>4. s.pc = "join" /\ s.work = p.work /\ s.renew = p.renew /\ s.call = p.call /\ s.rt = p.rt /\ s.seq = p.seq
    BY <1>1, <2>2 DEF RunType
  <2>5. RunnerSound(r, s, flights, issued, now)
    BY <1>1, <1>3, <1>4, <2>4 DEF RunnerSound, Pending
  <2>6. run' = [run EXCEPT ![r] = Tidy(s)]
    <3>1. ctx = (p.ctx \/ p.renew = "failed")
      BY <1>1, <2>1 DEF RunType
    <3>2. Moves(r, [p EXCEPT !.pc = "join", !.stop = TRUE, !.ctx = p.ctx \/ p.renew = "failed"])
      BY <1>1, <1>9 DEF Select
    <3> QED
      BY <2>2, <3>1, <3>2 DEF Moves
  <2> QED
    BY <1>5, <2>3, <2>5, <2>6
<1>10. CASE Join(r)
  <2>1. /\ Moves(r, [p EXCEPT
               !.work = "none", !.renew = "none", !.rt = 0, !.due = 0,
               !.pc = IF p.renew = "failed"
                      THEN IF p.saw = Absent THEN "error" ELSE "authority"
                      ELSE IF p.work = "bad" \/ p.ctx THEN "finish" ELSE "mark"])
        /\ p.work \in {"ok", "bad"} /\ p.renew \in {"stopped", "failed"}
    BY <1>1, <1>10, Zenon DEF Join
  <2>2. PICK pc \in {"error", "authority", "finish", "mark"} :
           pc = IF p.renew = "failed" THEN IF p.saw = Absent THEN "error" ELSE "authority"
                ELSE IF p.work = "bad" \/ p.ctx THEN "finish" ELSE "mark"
    OBVIOUS
  <2>3. PICK s : s = [p EXCEPT !.work = "none", !.renew = "none", !.rt = 0, !.due = 0, !.pc = pc]
    OBVIOUS
  <2>4. s \in RunType
    <3>1. PICK h : h = [p EXCEPT !.work = "none", !.renew = "none"]
      OBVIOUS
    <3>2. h \in RunType
      BY <1>1, <3>1 DEF RunType
    <3>3. s = [h EXCEPT !.rt = 0, !.due = 0, !.pc = pc]
      BY <2>3, <3>1
    <3> QED
      BY <1>4, <3>2, <3>3 DEF RunType
  <2>5. s.pc = pc /\ s.work = "none" /\ s.renew = "none" /\ s.call = p.call
    BY <1>1, <2>3 DEF RunType
  <2>6. RunnerSound(r, s, flights, issued, now)
    BY <1>1, <1>3, <1>4, <2>5 DEF RunnerSound, Pending
  <2> QED
    BY <1>5, <2>1, <2>2, <2>3, <2>4, <2>6 DEF Moves
<1> QED
  BY <1>6, <1>7, <1>8, <1>9, <1>10

\* consume or renew sends its mutation, or is refused.
LEMMA StreamSends == ASSUME ClientInv, NEW r \in Runners, DeltaStarts(r) \/ RenewStarts(r) PROVE Kept
<1>1. PICK p : p = run[r] /\ p \in RunType /\ RunnerSound(r, p, flights, issued, now)
  BY RunnerFields
<1>2. p.pc \in {"select", "join"}
  <2>1. Streaming(r) \/ p.renew = "armed"
    BY <1>1, Zenon DEF DeltaStarts, RenewStarts
  <2> QED
    BY <1>1, <2>1 DEF Streaming, RunnerSound
<1>3. p.pc \notin Calling \cup {"idle", "claiming"} /\ p.pc \notin Ended
  BY <1>2 DEF Calling, Ended
<1>4. rec \in Record /\ Absent \in Record
  BY AbsentType DEF ClientInv, StoreInv, StoreTypeOK
<1>5. ASSUME NEW s \in RunType, s.pc = p.pc, s.call = p.call, run' = [run EXCEPT ![r] = Tidy(s)], Local, UNCHANGED Others,
             s.work # "delta", s.renew # "renewing", s.renew # "armed" \/ s.renew = p.renew, s.rt = p.rt
      PROVE  Kept
  <2>1. RunnerSound(r, s, flights, issued, now)
    BY <1>1, <1>2, <1>3, <1>5 DEF RunnerSound, Pending
  <2> QED
    BY <1>1, <1>3, <1>5, <2>1, LocalKeeps DEF Others, ClientInv, SingleTypeOK
<1>6. CASE DeltaStarts(r)
  <2>1. PICK t \in Reading :
          IF ~p.ctx /\ CanRecordDelta(rec, r, TheModel, p.seq + 1, t)
          THEN /\ CompareAndSet(r, t, RecordDelta(rec, TheModel, p.seq + 1, t))
               /\ Moves(r, [p EXCEPT !.work = "delta", !.call = Message(r, "cas", t, rec, RecordDelta(rec, TheModel, p.seq + 1, t))])
               /\ UNCHANGED <<claimant, spent>>
          ELSE Moves(r, [p EXCEPT !.work = "bad"]) /\ Local
    BY <1>1, <1>6, Zenon DEF DeltaStarts
  <2>2. p.work = "stream" /\ p.renew # "renewing" /\ p.seq + 1 <= MaxSeq
    BY <1>1, <1>6, Zenon DEF DeltaStarts
  <2>3. p.seq + 1 \in 0..MaxSeq /\ p.seq < MaxSeq
    BY <1>1, <2>2, StoreAssumption DEF RunType
  <2>4. CASE ~p.ctx /\ CanRecordDelta(rec, r, TheModel, p.seq + 1, t)
    <3>1. PICK next : next = RecordDelta(rec, TheModel, p.seq + 1, t)
      OBVIOUS
    <3>2. /\ CompareAndSet(r, t, next) /\ UNCHANGED <<claimant, spent>>
          /\ Moves(r, [p EXCEPT !.work = "delta", !.call = Message(r, "cas", t, rec, next)])
      BY <2>1, <2>4, <3>1
    <3>3. SendRecordDelta(r, r, TheModel, p.seq + 1, t)
      BY <2>4, <3>1, <3>2 DEF SendRecordDelta
    <3>4. StoreNext
      BY <1>1, <1>3, <2>3, <3>3, OwnedIsStore, TheModelType DEF OwnedSend
    <3>5. PICK s : s = [p EXCEPT !.work = "delta", !.call = Message(r, "cas", t, rec, next)]
      OBVIOUS
    <3>6. /\ s.pc = p.pc /\ s.work = "delta" /\ s.renew = p.renew /\ s.rt = p.rt /\ s.seq = p.seq
          /\ s.call = Message(r, "cas", t, rec, next)
      BY <1>1, <3>5 DEF RunType
    <3>7. s.call \in Flight => s \in RunType
      BY <1>1, <3>5, <3>6 DEF RunType
    <3>8. run' = [run EXCEPT ![r] = s] /\ UNCHANGED <<conv, canc, receipt, lock>>
      BY <1>3, <3>2, <3>5, <3>6 DEF Moves, Others, Tidy
    <3>9. /\ s.pc \notin Ended /\ run[r].pc # "idle" /\ s.pc \in {"select", "join"} /\ s.renew # "renewing"
          /\ s.renew = "armed" => s.rt = run[r].rt /\ run[r].renew = "armed"
          /\ s.seq < MaxSeq
      BY <1>1, <1>2, <1>3, <2>2, <2>3, <3>6
    <3> QED
      BY <3>2, <3>4, <3>6, <3>7, <3>8, <3>9, CallKeeps
  <2>5. CASE ~(~p.ctx /\ CanRecordDelta(rec, r, TheModel, p.seq + 1, t))
    <3>1. Moves(r, [p EXCEPT !.work = "bad"]) /\ Local
      BY <2>1, <2>5
    <3>2. PICK s : s = [p EXCEPT !.work = "bad"]
      OBVIOUS
    <3>3. s \in RunType
      BY <1>1, <3>2 DEF RunType
    <3>4. s.pc = p.pc /\ s.work = "bad" /\ s.renew = p.renew /\ s.rt = p.rt /\ s.call = p.call
      BY <1>1, <3>2 DEF RunType
    <3> QED
      BY <1>5, <2>2, <3>1, <3>2, <3>3, <3>4 DEF Moves
  <2> QED
    BY <2>4, <2>5
<1>7. CASE RenewStarts(r)
  <2>1. IF ~p.stop /\ CanRenewLease(rec, r, p.rt)
        THEN /\ CompareAndSet(r, p.rt, RenewLease(rec, p.rt))
             /\ Moves(r, [p EXCEPT !.renew = "renewing", !.call = Message(r, "cas", p.rt, rec, RenewLease(rec, p.rt))])
             /\ UNCHANGED <<claimant, spent>>
        ELSE /\ Moves(r, [p EXCEPT !.renew = "failed", !.saw = IF p.stop THEN Absent ELSE rec])
             /\ Local
    BY <1>1, <1>7, Zenon DEF RenewStarts
  <2>2. p.renew = "armed" /\ p.work # "delta"
    BY <1>1, <1>7, Zenon DEF RenewStarts
  <2>3. PICK t : t = p.rt /\ t \in Sampled
    BY <1>1, <2>2 DEF RunnerSound, Sampled
  <2>4. CASE ~p.stop /\ CanRenewLease(rec, r, p.rt)
    <3>1. PICK next : next = RenewLease(rec, t)
      OBVIOUS
    <3>2. /\ CompareAndSet(r, t, next) /\ UNCHANGED <<claimant, spent>>
          /\ Moves(r, [p EXCEPT !.renew = "renewing", !.call = Message(r, "cas", t, rec, next)])
      BY <2>1, <2>3, <2>4, <3>1
    <3>3. SendRenewLease(r, r, t)
      BY <2>3, <2>4, <3>1, <3>2 DEF SendRenewLease
    <3>4. r \in Callers /\ r \in issued
      BY <1>1, <1>3, RunnerFields DEF RunnerSound
    <3>5. StoreNext
      BY <2>3, <3>3, <3>4 DEF OwnedSend, StoreNext
    <3>6. PICK s : s = [p EXCEPT !.renew = "renewing", !.call = Message(r, "cas", t, rec, next)]
      OBVIOUS
    <3>7. /\ s.pc = p.pc /\ s.work = p.work /\ s.renew = "renewing" /\ s.rt = p.rt /\ s.seq = p.seq
          /\ s.call = Message(r, "cas", t, rec, next)
      BY <1>1, <3>6 DEF RunType
    <3>8. s.call \in Flight => s \in RunType
      BY <1>1, <3>6, <3>7 DEF RunType
    <3>9. run' = [run EXCEPT ![r] = s] /\ UNCHANGED <<conv, canc, receipt, lock>>
      BY <1>3, <3>2, <3>6, <3>7 DEF Moves, Others, Tidy
    <3> QED
      BY <1>1, <1>2, <1>3, <2>2, <3>2, <3>5, <3>7, <3>8, <3>9, CallKeeps
  <2>5. CASE ~(~p.stop /\ CanRenewLease(rec, r, p.rt))
    <3>1. Moves(r, [p EXCEPT !.renew = "failed", !.saw = IF p.stop THEN Absent ELSE rec]) /\ Local
      BY <2>1, <2>5
    <3>2. PICK saw \in Record : saw = IF p.stop THEN Absent ELSE rec
      BY <1>4
    <3>3. PICK s : s = [p EXCEPT !.renew = "failed", !.saw = saw]
      OBVIOUS
    <3>4. s \in RunType
      BY <1>1, <3>3 DEF RunType
    <3>5. s.pc = p.pc /\ s.work = p.work /\ s.renew = "failed" /\ s.rt = p.rt /\ s.call = p.call
      BY <1>1, <3>3 DEF RunType
    <3> QED
      BY <1>5, <2>2, <3>1, <3>2, <3>3, <3>4, <3>5 DEF Moves
  <2> QED
    BY <2>4, <2>5
<1> QED
  BY <1>6, <1>7

\* The process of a runner dies.
LEMMA CrashKeeps == ASSUME ClientInv, NEW r \in Runners, Crash(r) PROVE Kept
<1>1. PICK p : p = run[r] /\ p \in RunType /\ RunnerSound(r, p, flights, issued, now)
  BY RunnerFields
<1>2. PICK f : f = p.call
  OBVIOUS
<1>3. /\ p.pc \notin {"idle"} \cup Ended
      /\ Spend("crashes", MaxCrashes)
      /\ \/ f # NoCall /\ Executes(f)
         \/ f # NoCall /\ Lose(f) /\ UNCHANGED claimant
         \/ f = NoCall /\ UNCHANGED <<storeVars, claimant>>
      /\ run' = [run EXCEPT ![r] = Tidy([run[r] EXCEPT !.pc = "dead"])]
      /\ lock' = IF lock = r THEN NoOne ELSE lock
      /\ UNCHANGED <<conv, canc, receipt>>
  BY <1>1, <1>2, Zenon DEF Crash
<1>4. f # NoCall => f \in flights /\ f.from = r
  BY <1>1, <1>2 DEF RunnerSound, Pending
<1>5. [StoreNext]_storeVars /\ flights \ {f} \subseteq flights' /\ UNCHANGED <<issued, now>>
  BY <1>3, <1>4 DEF Executes, Execute, Lose, StoreNext, storeVars
<1>6. rec' \in Record
  BY <1>5, StoreInvStep DEF ClientInv, StoreInv, StoreTypeOK
<1>7. claimant' \in Owners \cup {NoOwner}
  BY <1>3, <1>6 DEF Executes, ClientInv, SingleTypeOK, Record
<1>8. spent' \in [{"lost", "delayed", "sessions", "crashes"} -> Nat]
  BY <1>3 DEF Spend, ClientInv, SingleTypeOK
<1>9. lock' \in Callers \cup {NoOne}
  BY <1>3 DEF ClientInv, SingleTypeOK
<1>10. PICK s : s = [p EXCEPT !.pc = "dead"]
  OBVIOUS
<1>11. "dead" \in RunPC /\ "dead" \in Ended
  BY DEF RunPC, Ended
<1>12. s \in RunType /\ s.pc = "dead"
  BY <1>1, <1>10, <1>11 DEF RunType
<1>13. r \in issued'
  BY <1>1, <1>3, <1>5 DEF RunnerSound
<1>14. PICK q : q = Tidy(s)
  OBVIOUS
<1>15. q \in RunType /\ RunnerSound(r, q, flights', issued', now')
  BY <1>11, <1>12, <1>13, <1>14, TidySound
<1>16. run' = [run EXCEPT ![r] = q]
  BY <1>1, <1>3, <1>10, <1>14
<1>17. \A g \in flights : g.from # r => g \in flights'
  <2>1. CASE f = NoCall
    BY <1>3, <2>1 DEF storeVars
  <2>2. CASE f # NoCall
    BY <1>4, <1>5, <2>2
  <2> QED
    BY <2>1, <2>2
<1> QED
  BY <1>3, <1>5, <1>7, <1>8, <1>9, <1>15, <1>16, <1>17, RunnerKeeps DEF ClientInv, SingleTypeOK

----------------------------------------------------------------------------
(* The steps of the others *)

\* A step of one poller.
LEMMA ConvergerKeeps ==
    ASSUME ClientInv, [StoreNext]_storeVars, NEW v \in Convergers, NEW s \in ConvType, conv' = [conv EXCEPT ![v] = s],
           ConvergerSound(v, s, flights', now', receipt # NoReceipt), UNCHANGED <<run, canc, receipt>>,
           \A f \in flights : f.from # v => f \in flights',
           lock' \in Callers \cup {NoOne}, claimant' \in Owners \cup {NoOwner},
           spent' \in [{"lost", "delayed", "sessions", "crashes"} -> Nat]
    PROVE  Kept
<1>1. /\ conv' \in [Convergers -> ConvType] /\ conv'[v] = s /\ \A u \in Convergers : u # v => conv'[u] = conv[u]
  BY DEF ClientInv, SingleTypeOK
<1>2. SingleTypeOK'
  BY <1>1 DEF ClientInv, SingleTypeOK
<1>3. issued \subseteq issued' /\ 1..(now + MaxSkew) \subseteq 1..(now' + MaxSkew)
  BY StoreGrows DEF ClientInv
<1>4. ASSUME NEW r \in Runners PROVE RunnerSound(r, run'[r], flights', issued', now')
  <2>1. RunnerSound(r, run[r], flights, issued, now) /\ run'[r] = run[r] /\ r # v
    BY CallersApart DEF ClientInv, Clients
  <2> QED
    BY <1>3, <2>1 DEF RunnerSound, Pending
<1>5. ASSUME NEW u \in Convergers PROVE ConvergerSound(u, conv'[u], flights', now', receipt' # NoReceipt)
  <2>1. CASE u = v
    BY <1>1, <2>1
  <2>2. CASE u # v
    <3>1. ConvergerSound(u, conv[u], flights, now, receipt # NoReceipt) /\ conv'[u] = conv[u]
      BY <1>1, <2>2 DEF ClientInv, Clients
    <3> QED
      BY <1>3, <2>2, <3>1 DEF ConvergerSound, Pending
  <2> QED
    BY <2>1, <2>2
<1>6. ASSUME NEW c \in Cancellers PROVE CancellerSound(c, canc'[c], flights')
  <2>1. CancellerSound(c, canc[c], flights) /\ canc'[c] = canc[c] /\ c # v
    BY CallersApart DEF ClientInv, Clients
  <2> QED
    BY <2>1 DEF CancellerSound, Pending
<1> QED
  BY <1>2, <1>4, <1>5, <1>6 DEF Kept, Clients

\* A step of one canceller, its call returned or sent; the callback may end a runner's context.
LEMMA CancellerKeeps ==
    ASSUME ClientInv, [StoreNext]_storeVars, NEW c \in Cancellers, NEW s \in CancType, canc' = [canc EXCEPT ![c] = s],
           CancellerSound(c, s, flights'), UNCHANGED <<conv, receipt, lock>>,
           run' = run \/ \E r \in Runners : run' = [run EXCEPT ![r].ctx = TRUE],
           \A f \in flights : f.from # c => f \in flights',
           claimant' \in Owners \cup {NoOwner},
           spent' \in [{"lost", "delayed", "sessions", "crashes"} -> Nat]
    PROVE  Kept
<1>1. /\ canc' \in [Cancellers -> CancType] /\ canc'[c] = s /\ \A d \in Cancellers : d # c => canc'[d] = canc[d]
  BY DEF ClientInv, SingleTypeOK
<1>2. issued \subseteq issued' /\ 1..(now + MaxSkew) \subseteq 1..(now' + MaxSkew)
  BY StoreGrows DEF ClientInv
<1>3. ASSUME NEW r \in Runners
      PROVE  run'[r] \in RunType /\ RunnerSound(r, run'[r], flights', issued', now')
  <2>1. RunnerSound(r, run[r], flights, issued, now) /\ r # c /\ run[r] \in RunType /\ run \in [Runners -> RunType]
    BY CallersApart DEF ClientInv, Clients, SingleTypeOK
  <2>2. run'[r] = run[r] \/ run'[r] = [run[r] EXCEPT !.ctx = TRUE]
    BY <2>1
  <2>3. PICK p, q : p = run[r] /\ q = run'[r]
    OBVIOUS
  <2>4. p \in RunType /\ (q = p \/ q = [p EXCEPT !.ctx = TRUE])
    BY <2>1, <2>2, <2>3
  <2>5. q \in RunType
    BY <2>4 DEF RunType
  <2>6. q.pc = p.pc /\ q.work = p.work /\ q.renew = p.renew /\ q.call = p.call /\ q.rt = p.rt /\ q.seq = p.seq
    BY <2>4 DEF RunType
  <2>7. RunnerSound(r, q, flights', issued', now')
    BY <1>2, <2>1, <2>3, <2>6 DEF RunnerSound, Pending
  <2> QED
    BY <2>3, <2>5, <2>7
<1>4. run' \in [Runners -> RunType]
  <2>1. DOMAIN run' = Runners /\ run' = [r \in DOMAIN run' |-> run'[r]]
    BY DEF ClientInv, SingleTypeOK
  <2> QED
    BY <1>3, <2>1
<1>5. SingleTypeOK'
  BY <1>1, <1>4 DEF ClientInv, SingleTypeOK
<1>6. ASSUME NEW v \in Convergers PROVE ConvergerSound(v, conv'[v], flights', now', receipt' # NoReceipt)
  <2>1. ConvergerSound(v, conv[v], flights, now, receipt # NoReceipt) /\ conv'[v] = conv[v] /\ v # c
    BY CallersApart DEF ClientInv, Clients
  <2> QED
    BY <1>2, <2>1 DEF ConvergerSound, Pending
<1>7. ASSUME NEW d \in Cancellers PROVE CancellerSound(d, canc'[d], flights')
  <2>1. CancellerSound(d, canc[d], flights) /\ (d # c => canc'[d] = canc[d])
    BY <1>1 DEF ClientInv, Clients
  <2> QED
    BY <1>1, <2>1 DEF CancellerSound, Pending
<1> QED
  BY <1>3, <1>5, <1>6, <1>7 DEF Kept, Clients

\* A step of nobody: the store, the lock, the conversation or the clock.
LEMMA NobodyKeeps ==
    ASSUME ClientInv, [StoreNext]_storeVars, UNCHANGED <<run, conv, canc>>,
           flights \ (flights \ Awaited) \subseteq flights',
           receipt' = NoReceipt \/ receipt' \in [by : Runners, alive : BOOLEAN], receipt # NoReceipt => receipt' # NoReceipt,
           lock' \in Callers \cup {NoOne}, claimant' \in Owners \cup {NoOwner},
           spent' \in [{"lost", "delayed", "sessions", "crashes"} -> Nat]
    PROVE  Kept
<1>1. SingleTypeOK'
  BY DEF ClientInv, SingleTypeOK
<1>2. issued \subseteq issued' /\ 1..(now + MaxSkew) \subseteq 1..(now' + MaxSkew)
  BY StoreGrows DEF ClientInv
<1>3. ASSUME NEW r \in Runners PROVE RunnerSound(r, run'[r], flights', issued', now')
  <2>1. RunnerSound(r, run[r], flights, issued, now) /\ run'[r] = run[r] /\ run[r].call \in Awaited
    BY DEF ClientInv, Clients, Awaited
  <2> QED
    BY <1>2, <2>1 DEF RunnerSound, Pending
<1>4. ASSUME NEW v \in Convergers PROVE ConvergerSound(v, conv'[v], flights', now', receipt' # NoReceipt)
  <2>1. ConvergerSound(v, conv[v], flights, now, receipt # NoReceipt) /\ conv'[v] = conv[v] /\ conv[v].call \in Awaited
    BY DEF ClientInv, Clients, Awaited
  <2> QED
    BY <1>2, <2>1 DEF ConvergerSound, Pending
<1>5. ASSUME NEW c \in Cancellers PROVE CancellerSound(c, canc'[c], flights')
  <2>1. CancellerSound(c, canc[c], flights) /\ canc'[c] = canc[c] /\ canc[c].call \in Awaited
    BY DEF ClientInv, Clients, Awaited
  <2> QED
    BY <2>1 DEF CancellerSound, Pending
<1> QED
  BY <1>1, <1>3, <1>4, <1>5 DEF Kept, Clients

LEMMA ConvergerFields ==
    ASSUME ClientInv, NEW v \in Convergers
    PROVE  conv[v] \in ConvType /\ ConvergerSound(v, conv[v], flights, now, receipt # NoReceipt) /\ v \in Callers
BY CallersApart DEF ClientInv, SingleTypeOK, Clients

\* A poller sends a mutation.
LEMMA ConvergesKeeps ==
    ASSUME ClientInv, NEW v \in Convergers, NEW next, NEW pc \in {"writing", "resolving"}, Converges(v, next, pc),
           conv[v].pc # "idle", CompareAndSet(v, conv[v].t, next) => StoreNext
    PROVE  Kept
<1>1. PICK p : p = conv[v] /\ p \in ConvType /\ ConvergerSound(v, p, flights, now, receipt # NoReceipt)
  BY ConvergerFields
<1>2. PICK f : f = Message(v, "cas", p.t, rec, next)
  OBVIOUS
<1>3. /\ CompareAndSet(v, p.t, next) /\ UNCHANGED <<lock, claimant, spent, run, canc, receipt>>
      /\ conv' = [conv EXCEPT ![v] = [p EXCEPT !.pc = pc, !.call = f]]
  BY <1>1, <1>2 DEF Converges, Shifts
<1>4. StoreNext /\ flights' = flights \cup {f} /\ now' = now
  BY <1>1, <1>2, <1>3 DEF CompareAndSet, Send
<1>5. f \in Flight /\ f # NoCall /\ f.from = v
  BY <1>2, <1>4, StoreInvStep, CallersApart DEF ClientInv, StoreInv, StoreTypeOK, Message
<1>6. PICK s : s = [p EXCEPT !.pc = pc, !.call = f]
  OBVIOUS
<1>7. s \in ConvType /\ s.pc = pc /\ s.call = f /\ s.t = p.t
  BY <1>1, <1>5, <1>6 DEF ConvType
<1>8. ConvergerSound(v, s, flights', now', receipt # NoReceipt)
  BY <1>1, <1>4, <1>5, <1>7 DEF ConvergerSound, Pending
<1> QED
  BY <1>3, <1>4, <1>6, <1>7, <1>8, ConvergerKeeps DEF ClientInv, SingleTypeOK

\* A poller moves on without a call.
LEMMA ShiftKeeps ==
    ASSUME ClientInv, NEW v \in Convergers, NEW s \in ConvType, Shifts(v, s), Local,
           s.call = NoCall \/ s.call = conv[v].call, s.pc \notin {"writing", "resolving"},
           s.pc # "idle" => s.t \in Sampled, s.pc = "complete" => receipt # NoReceipt, lock' \in Callers \cup {NoOne}
    PROVE  Kept
<1>1. UNCHANGED storeVars /\ UNCHANGED <<flights, now, claimant, spent>>
  BY DEF Local, storeVars
<1>2. ConvergerSound(v, s, flights', now', receipt # NoReceipt)
  BY <1>1, ConvergerFields DEF ConvergerSound, Pending, Sampled
<1> QED
  BY <1>1, <1>2, ConvergerKeeps DEF Shifts, ClientInv, SingleTypeOK

LEMMA RestKeeps ==
    ASSUME ClientInv, NEW v \in Convergers, Rest(v), Local, lock' \in Callers \cup {NoOne}
    PROVE  Kept
<1>1. PICK s : s = [pc |-> "idle", t |-> 0, again |-> FALSE, call |-> NoCall]
  OBVIOUS
<1>2. s \in ConvType /\ s.pc = "idle" /\ s.call = NoCall
  BY <1>1 DEF ConvType
<1> QED
  BY <1>1, <1>2, ShiftKeeps DEF Rest

\* The poller's steps but for the replies it hears.
LEMMA ConvergerSteps ==
    ASSUME ClientInv, NEW v \in Convergers,
           Observe(v) \/ Decide(v) \/ ConvergerLocks(v) \/ LoadReceipt(v) \/ ReconcileComplete(v) \/ FailStale(v)
             \/ ConvergerUnlocks(v)
    PROVE  Kept
<1>1. PICK p : p = conv[v] /\ p \in ConvType /\ ConvergerSound(v, p, flights, now, receipt # NoReceipt) /\ v \in Callers
  BY ConvergerFields
<1>2. lock \in Callers \cup {NoOne} /\ rec \in Record
  BY DEF ClientInv, SingleTypeOK, StoreInv, StoreTypeOK
<1>3. ASSUME NEW s \in ConvType, s.pc \notin {"idle", "writing", "resolving"}, s.t = p.t, s.call \in {NoCall, p.call},
             p.pc # "idle", Shifts(v, s), Local, lock' \in Callers \cup {NoOne}, s.pc = "complete" => receipt # NoReceipt
      PROVE  Kept
  <2>1. s.t \in Sampled
    BY <1>1, <1>3 DEF ConvergerSound, Sampled
  <2> QED
    BY <1>1, <1>3, <2>1, ShiftKeeps
<1>5. ASSUME NEW pc \in {"locking", "load", "complete", "failstale", "unlock", "reunlock"}, p.pc # "idle",
             Shifts(v, [p EXCEPT !.pc = pc]), Local, lock' \in Callers \cup {NoOne}, pc = "complete" => receipt # NoReceipt
      PROVE  Kept
  <2>1. PICK s : s = [p EXCEPT !.pc = pc]
    OBVIOUS
  <2>2. s \in ConvType /\ s.pc = pc /\ s.t = p.t /\ s.call = p.call
    BY <1>1, <2>1 DEF ConvType
  <2>3. Shifts(v, s)
    BY <1>5, <2>1
  <2> QED
    BY <1>3, <1>5, <2>2, <2>3
<1>6. ASSUME NEW t \in Sampled, t = p.t, SharedSend(v, t) PROVE StoreNext
  BY <1>1, <1>6 DEF StoreNext
<1>7. p.pc # "idle" => p.t \in Sampled
  BY <1>1 DEF ConvergerSound, Sampled
<1>8. CASE Observe(v)
  <2>1. PICK t \in Reading : Shifts(v, [pc |-> "decide", t |-> t, again |-> FALSE, call |-> NoCall]) /\ UNCHANGED lock /\ Local
    BY <1>8, Zenon DEF Observe
  <2>2. PICK s : s = [pc |-> "decide", t |-> t, again |-> FALSE, call |-> NoCall]
    OBVIOUS
  <2>3. s \in ConvType /\ s.pc = "decide" /\ s.call = NoCall /\ s.t = t
    BY <2>2, ReadingType DEF ConvType
  <2> QED
    BY <1>2, <2>1, <2>2, <2>3, ReadingType, ShiftKeeps
<1>9. CASE Decide(v)
  <2>1. p.pc = "decide"
    BY <1>1, <1>9, Zenon DEF Decide
  <2>2. \/ CanFailExpired(rec, p.t) /\ Converges(v, Fail(rec, p.t), "writing")
        \/ CanConvergeCancelling(rec, p.t) /\ Converges(v, AcknowledgeCancelled(rec, p.t), "writing")
        \/ Shifts(v, [p EXCEPT !.pc = "locking"]) /\ UNCHANGED lock /\ Local
        \/ Rest(v) /\ UNCHANGED lock /\ Local
    <3>1. (CASE CanFailExpired(rec, p.t)        -> Converges(v, Fail(rec, p.t), "writing")
            [] CanConvergeCancelling(rec, p.t) -> Converges(v, AcknowledgeCancelled(rec, p.t), "writing")
            [] rec.state = "committing" /\ p.t >= rec.updated ->
                   Shifts(v, [p EXCEPT !.pc = "locking"]) /\ UNCHANGED lock /\ Local
            [] OTHER -> Rest(v) /\ UNCHANGED lock /\ Local)
      BY <1>1, <1>9, Zenon DEF Decide
    <3> QED
      BY <3>1
  <2>3. CASE CanFailExpired(rec, p.t) /\ Converges(v, Fail(rec, p.t), "writing")
    <3>1. CompareAndSet(v, p.t, Fail(rec, p.t)) => StoreNext
      BY <1>6, <1>7, <2>1, <2>3 DEF SharedSend, SendFailExpired
    <3> QED
      BY <1>1, <2>1, <2>3, <3>1, ConvergesKeeps
  <2>4. CASE CanConvergeCancelling(rec, p.t) /\ Converges(v, AcknowledgeCancelled(rec, p.t), "writing")
    <3>1. CompareAndSet(v, p.t, AcknowledgeCancelled(rec, p.t)) => StoreNext
      BY <1>6, <1>7, <2>1, <2>4 DEF SharedSend, SendConvergeCancelling
    <3> QED
      BY <1>1, <2>1, <2>4, <3>1, ConvergesKeeps
  <2>5. CASE Shifts(v, [p EXCEPT !.pc = "locking"]) /\ UNCHANGED lock /\ Local
    BY <1>2, <1>5, <2>1, <2>5
  <2>6. CASE Rest(v) /\ UNCHANGED lock /\ Local
    BY <1>2, <2>6, RestKeeps
  <2> QED
    BY <2>2, <2>3, <2>4, <2>5, <2>6
<1>10. CASE ConvergerLocks(v)
  <2>1. /\ p.pc = "locking" /\ Local
        /\ \/ lock' = v /\ Shifts(v, [p EXCEPT !.pc = "load"])
           \/ Rest(v) /\ UNCHANGED lock
    BY <1>1, <1>10 DEF ConvergerLocks
  <2> QED
    BY <1>1, <1>2, <1>5, <2>1, RestKeeps
<1>11. CASE LoadReceipt(v)
  <2>1. /\ p.pc = "load" /\ Local /\ UNCHANGED lock
        /\ Shifts(v, [p EXCEPT !.pc = IF receipt = NoReceipt THEN "failstale" ELSE IF receipt.alive THEN "complete" ELSE "unlock"])
    BY <1>1, <1>11, Zenon DEF LoadReceipt
  <2>2. PICK pc \in {"failstale", "complete", "unlock"} :
          /\ pc = IF receipt = NoReceipt THEN "failstale" ELSE IF receipt.alive THEN "complete" ELSE "unlock"
          /\ pc = "complete" => receipt # NoReceipt
    OBVIOUS
  <2>3. Shifts(v, [p EXCEPT !.pc = pc])
    BY <2>1, <2>2, Zenon
  <2> QED
    BY <1>2, <1>5, <2>1, <2>2, <2>3
<1>12. ASSUME Refused(v), Local, p.pc # "idle" PROVE Kept
  <2>1. Shifts(v, [p EXCEPT !.pc = IF p.again THEN "unlock" ELSE "reunlock", !.call = NoCall]) /\ UNCHANGED lock
    BY <1>1, <1>12, Zenon DEF Refused
  <2>2. PICK pc \in {"unlock", "reunlock"} : pc = IF p.again THEN "unlock" ELSE "reunlock"
    OBVIOUS
  <2>3. PICK s : s = [p EXCEPT !.pc = pc, !.call = NoCall]
    OBVIOUS
  <2>4. s \in ConvType /\ s.pc = pc /\ s.t = p.t /\ s.call = NoCall
    BY <1>1, <2>3 DEF ConvType
  <2>5. Shifts(v, s)
    BY <2>1, <2>2, <2>3
  <2>6. lock' \in Callers \cup {NoOne}
    BY <1>2, <2>1
  <2> QED
    BY <1>3, <1>12, <2>4, <2>5, <2>6
<1>13. CASE ReconcileComplete(v)
  <2>1. /\ p.pc = "complete"
        /\ IF CanComplete(rec, MessageOf(receipt.by), p.t)
           THEN Converges(v, Complete(rec, MessageOf(receipt.by), p.t), "resolving") ELSE Refused(v) /\ Local
    BY <1>1, <1>13, Zenon DEF ReconcileComplete
  <2>2. receipt.by \in Runners
    BY <1>1, <2>1 DEF ConvergerSound, ClientInv, SingleTypeOK
  <2>3. CASE CanComplete(rec, MessageOf(receipt.by), p.t)
    <3>1. CompareAndSet(v, p.t, Complete(rec, MessageOf(receipt.by), p.t)) => SharedSend(v, p.t)
      BY <2>2, <2>3, MessageType DEF SharedSend, SendComplete
    <3>2. CompareAndSet(v, p.t, Complete(rec, MessageOf(receipt.by), p.t)) => StoreNext
      BY <1>6, <1>7, <2>1, <3>1
    <3> QED
      BY <1>1, <2>1, <2>3, <3>2, ConvergesKeeps
  <2> QED
    BY <1>12, <2>1, <2>3
<1>14. CASE FailStale(v)
  <2>1. /\ p.pc = "failstale"
        /\ IF CanFailStaleCommit(rec, p.t) THEN Converges(v, FailStaleCommit(rec, p.t), "resolving") ELSE Refused(v) /\ Local
    BY <1>1, <1>14, Zenon DEF FailStale
  <2>2. CASE CanFailStaleCommit(rec, p.t)
    <3>1. CompareAndSet(v, p.t, FailStaleCommit(rec, p.t)) => StoreNext
      BY <1>6, <1>7, <2>1, <2>2 DEF SharedSend, SendFailStaleCommit
    <3> QED
      BY <1>1, <2>1, <2>2, <3>1, ConvergesKeeps
  <2> QED
    BY <1>12, <2>1, <2>2
<1>15. CASE ConvergerUnlocks(v)
  <2>1. /\ p.pc \in {"unlock", "reunlock"} /\ Local
        /\ lock' = IF lock = v THEN NoOne ELSE lock
        /\ Shifts(v, [p EXCEPT !.pc = "decide", !.again = TRUE]) \/ Rest(v)
    BY <1>1, <1>15 DEF ConvergerUnlocks
  <2>2. lock' \in Callers \cup {NoOne}
    BY <1>2, <2>1
  <2>3. CASE Rest(v)
    BY <2>1, <2>2, <2>3, RestKeeps
  <2>4. CASE Shifts(v, [p EXCEPT !.pc = "decide", !.again = TRUE])
    <3>1. PICK s : s = [p EXCEPT !.pc = "decide", !.again = TRUE]
      OBVIOUS
    <3>2. s \in ConvType /\ s.pc = "decide" /\ s.t = p.t /\ s.call = p.call
      BY <1>1, <3>1 DEF ConvType
    <3>3. Shifts(v, s) /\ p.pc # "idle"
      BY <2>1, <2>4, <3>1
    <3> QED
      BY <1>3, <2>1, <2>2, <3>2, <3>3
  <2> QED
    BY <2>1, <2>3, <2>4
<1> QED
  BY <1>8, <1>9, <1>10, <1>11, <1>13, <1>14, <1>15

\* A poller hears of its mutation.
LEMMA ConvergerHears == ASSUME ClientInv, NEW v \in Convergers, ConvergerReturns(v) PROVE Kept
<1>1. PICK p : p = conv[v] /\ p \in ConvType /\ ConvergerSound(v, p, flights, now, receipt # NoReceipt)
  BY ConvergerFields
<1>2. PICK reply \in Replies :
        /\ Returns(p.call, FALSE, reply)
        /\ \/ \E pc \in {"unlock", "reunlock"} : Shifts(v, [p EXCEPT !.pc = pc, !.call = NoCall])
           \/ Shifts(v, [p EXCEPT !.pc = "decide", !.again = TRUE, !.call = NoCall])
           \/ Rest(v)
  <2>1. PICK reply \in Replies :
          /\ Returns(p.call, FALSE, reply)
          /\ IF p.pc = "resolving"
             THEN Shifts(v, [p EXCEPT !.pc = IF reply = "conflict" /\ ~p.again THEN "reunlock" ELSE "unlock", !.call = NoCall])
             ELSE IF reply = "conflict" /\ ~p.again
             THEN Shifts(v, [p EXCEPT !.pc = "decide", !.again = TRUE, !.call = NoCall])
             ELSE Rest(v)
    BY <1>1, Zenon DEF ConvergerReturns
  <2>2. PICK pc \in {"unlock", "reunlock"} : pc = IF reply = "conflict" /\ ~p.again THEN "reunlock" ELSE "unlock"
    OBVIOUS
  <2>3. \/ Shifts(v, [p EXCEPT !.pc = pc, !.call = NoCall])
        \/ Shifts(v, [p EXCEPT !.pc = "decide", !.again = TRUE, !.call = NoCall])
        \/ Rest(v)
    BY <2>1, <2>2
  <2> QED
    BY <2>1, <2>3
<1>3. UNCHANGED lock /\ p.pc \in {"writing", "resolving"}
  BY <1>1, Zenon DEF ConvergerReturns
<1>4. p.call \in flights /\ p.call.from = v
  BY <1>1, <1>3 DEF ConvergerSound, Pending
<1>5. /\ [StoreNext]_storeVars /\ flights \ {p.call} \subseteq flights' /\ UNCHANGED <<issued, now>>
      /\ claimant' \in Owners \cup {NoOwner} /\ spent' \in [{"lost", "delayed", "sessions", "crashes"} -> Nat]
  BY <1>2, <1>4, ReturnsStep
<1>6. \A g \in flights : g.from # v => g \in flights'
  BY <1>4, <1>5
<1>7. ASSUME NEW s \in ConvType, Shifts(v, s), s.call = NoCall, s.pc \notin {"writing", "resolving", "complete"},
             s.pc # "idle" => s.t = p.t
      PROVE  Kept
  <2>1. ConvergerSound(v, s, flights', now', receipt # NoReceipt)
    BY <1>1, <1>3, <1>5, <1>7 DEF ConvergerSound, Pending
  <2>2. lock' \in Callers \cup {NoOne}
    BY <1>3 DEF ClientInv, SingleTypeOK
  <2> QED
    BY <1>5, <1>6, <1>7, <2>1, <2>2, ConvergerKeeps DEF Shifts
<1>8. CASE \E pc \in {"unlock", "reunlock"} : Shifts(v, [p EXCEPT !.pc = pc, !.call = NoCall])
  <2>1. PICK pc \in {"unlock", "reunlock"} : Shifts(v, [p EXCEPT !.pc = pc, !.call = NoCall])
    BY <1>8
  <2>2. PICK s : s = [p EXCEPT !.pc = pc, !.call = NoCall]
    OBVIOUS
  <2>3. s \in ConvType /\ s.pc = pc /\ s.t = p.t /\ s.call = NoCall /\ Shifts(v, s)
    BY <1>1, <2>1, <2>2 DEF ConvType
  <2> QED
    BY <1>7, <2>3
<1>9. CASE Shifts(v, [p EXCEPT !.pc = "decide", !.again = TRUE, !.call = NoCall])
  <2>1. PICK s : s = [p EXCEPT !.pc = "decide", !.again = TRUE, !.call = NoCall]
    OBVIOUS
  <2>2. s \in ConvType /\ s.pc = "decide" /\ s.t = p.t /\ s.call = NoCall /\ Shifts(v, s)
    BY <1>1, <1>9, <2>1 DEF ConvType
  <2> QED
    BY <1>7, <2>2
<1>10. CASE Rest(v)
  <2>1. PICK s : s = [pc |-> "idle", t |-> 0, again |-> FALSE, call |-> NoCall]
    OBVIOUS
  <2>2. s \in ConvType /\ s.pc = "idle" /\ s.call = NoCall /\ Shifts(v, s)
    BY <1>10, <2>1 DEF ConvType, Rest
  <2> QED
    BY <1>7, <2>2
<1> QED
  BY <1>2, <1>8, <1>9, <1>10

\* A cancel asks, hears, and calls back.
LEMMA CancellerSteps == ASSUME ClientInv, NEW c \in Cancellers, CancellerStep(c) PROVE Kept
<1>1. CancellerSound(c, canc[c], flights) /\ c \in Callers /\ canc[c] \in CancType
  BY CallersApart DEF ClientInv, SingleTypeOK, Clients
<1>2. claimant \in Owners \cup {NoOwner} /\ spent \in [{"lost", "delayed", "sessions", "crashes"} -> Nat]
  BY DEF ClientInv, SingleTypeOK
<1>3. CASE RequestsCancel(c)
  <2>1. PICK t \in Reading : SendCancel(c, t) /\ Asks(c, "asking", Message(c, "cancel", t, rec, CancelTo(rec, t)))
    BY <1>3, Zenon DEF RequestsCancel
  <2>2. UNCHANGED <<run, claimant, spent>>
    BY <1>3, Zenon DEF RequestsCancel
  <2>3. StoreNext
    BY <1>1, <2>1, ReadingType DEF StoreNext, SharedSend
  <2>4. PICK f : f = Message(c, "cancel", t, rec, CancelTo(rec, t))
    OBVIOUS
  <2>5. flights' = flights \cup {f} /\ f.from = c
    BY <2>1, <2>4 DEF SendCancel, Send, Message
  <2>6. f \in Flight /\ f # NoCall
    BY <2>3, <2>5, StoreInvStep, CallersApart DEF ClientInv, StoreInv, StoreTypeOK
  <2>7. PICK s : s = [pc |-> "asking", call |-> f]
    OBVIOUS
  <2>8. s \in CancType /\ CancellerSound(c, s, flights')
    BY <2>5, <2>6, <2>7 DEF CancType, CancellerSound, Pending
  <2>9. canc' = [canc EXCEPT ![c] = s] /\ UNCHANGED <<conv, receipt, lock>>
    BY <2>1, <2>4, <2>7 DEF Asks
  <2> QED
    BY <1>2, <2>2, <2>3, <2>5, <2>8, <2>9, CancellerKeeps
<1>4. CASE CancelReturns(c)
  <2>1. PICK f : f = canc[c].call
    OBVIOUS
  <2>2. f \in flights /\ f.from = c
    BY <1>1, <1>4, <2>1 DEF CancelReturns, CancellerSound, Pending
  <2>3. PICK reply \in Replies, pc \in {"gone", "callback", "idle", "answered"} : Returns(f, FALSE, reply) /\ Asks(c, pc, NoCall)
    <3>1. PICK reply \in Replies :
            /\ Returns(f, FALSE, reply)
            /\ Asks(c, IF reply = "error" THEN "gone"
                       ELSE IF rec = f.expect /\ f.next # f.expect THEN "callback"
                       ELSE IF rec.state = "running" THEN "idle"
                       ELSE "answered", NoCall)
      BY <1>4, <2>1, Zenon DEF CancelReturns
    <3>2. PICK pc \in {"gone", "callback", "idle", "answered"} :
            pc = IF reply = "error" THEN "gone" ELSE IF rec = f.expect /\ f.next # f.expect THEN "callback"
                 ELSE IF rec.state = "running" THEN "idle" ELSE "answered"
      OBVIOUS
    <3> QED
      BY <3>1, <3>2, Zenon
  <2>4. UNCHANGED run
    BY <1>4, Zenon DEF CancelReturns
  <2>5. /\ [StoreNext]_storeVars /\ flights \ {f} \subseteq flights'
        /\ claimant' \in Owners \cup {NoOwner} /\ spent' \in [{"lost", "delayed", "sessions", "crashes"} -> Nat]
    BY <2>2, <2>3, ReturnsStep
  <2>6. PICK s : s = [pc |-> pc, call |-> NoCall]
    OBVIOUS
  <2>7. s \in CancType /\ CancellerSound(c, s, flights')
    BY <2>6 DEF CancType, CancellerSound, Pending
  <2>8. canc' = [canc EXCEPT ![c] = s] /\ UNCHANGED <<conv, receipt, lock>>
    BY <2>3, <2>6 DEF Asks
  <2> QED
    BY <2>2, <2>4, <2>5, <2>7, <2>8, CancellerKeeps
<1>5. CASE Callback(c)
  <2>1. /\ Asks(c, "answered", NoCall) /\ Local
        /\ run' = run \/ \E r \in Runners : run' = [run EXCEPT ![r].ctx = TRUE]
    BY <1>5 DEF Callback
  <2>2. PICK s : s = [pc |-> "answered", call |-> NoCall]
    OBVIOUS
  <2>3. s \in CancType /\ CancellerSound(c, s, flights')
    BY <2>2 DEF CancType, CancellerSound, Pending
  <2>4. canc' = [canc EXCEPT ![c] = s] /\ UNCHANGED <<conv, receipt, lock>> /\ UNCHANGED <<storeVars, claimant, spent>> /\ flights' = flights
    BY <2>1, <2>2 DEF Asks, Local, storeVars
  <2> QED
    BY <1>2, <2>1, <2>3, <2>4, CancellerKeeps
<1> QED
  BY <1>3, <1>4, <1>5 DEF CancellerStep

\* A stray command, a lost session, a deletion, the clock.
LEMMA SurroundingsKeep ==
    ASSUME ClientInv, (\E f \in flights : Stray(f)) \/ SessionLost \/ DeleteConversation \/ TimePasses
    PROVE  Kept
<1>1. /\ claimant \in Owners \cup {NoOwner} /\ spent \in [{"lost", "delayed", "sessions", "crashes"} -> Nat]
      /\ lock \in Callers \cup {NoOne} /\ (receipt = NoReceipt \/ receipt \in [by : Runners, alive : BOOLEAN])
  BY DEF ClientInv, SingleTypeOK
<1>2. ASSUME NEW f \in flights, Stray(f) PROVE Kept
  <2>1. /\ f \notin Awaited /\ UNCHANGED <<run, conv, canc, receipt, lock, spent>>
        /\ Executes(f) \/ (Lose(f) /\ UNCHANGED claimant)
    BY <1>2 DEF Stray
  <2>2. [StoreNext]_storeVars /\ flights \ {f} \subseteq flights'
    BY <2>1 DEF Executes, Execute, Lose, StoreNext
  <2>3. rec' \in Record
    BY <2>2, StoreInvStep DEF ClientInv, StoreInv, StoreTypeOK
  <2>4. claimant' \in Owners \cup {NoOwner}
    BY <1>1, <2>1, <2>3 DEF Executes, Record
  <2> QED
    BY <1>1, <2>1, <2>2, <2>4, NobodyKeeps
<1>3. CASE SessionLost
  <2>1. UNCHANGED <<run, conv, canc, receipt>> /\ lock' = NoOne /\ UNCHANGED <<storeVars, claimant>> /\ flights' = flights
    BY <1>3 DEF SessionLost, storeVars
  <2>2. spent' \in [{"lost", "delayed", "sessions", "crashes"} -> Nat]
    BY <1>1, <1>3 DEF SessionLost, Spend
  <2> QED
    BY <1>1, <2>1, <2>2, NobodyKeeps
<1>4. CASE DeleteConversation
  <2>1. /\ UNCHANGED <<run, conv, canc, lock, claimant, spent, storeVars>> /\ flights' = flights
        /\ receipt # NoReceipt /\ receipt' = [receipt EXCEPT !.alive = FALSE]
    BY <1>4 DEF DeleteConversation, storeVars
  <2>2. receipt' \in [by : Runners, alive : BOOLEAN]
    BY <1>1, <2>1
  <2>3. receipt' # NoReceipt
    BY <2>2, Zenon, SingleAssumption
  <2> QED
    BY <1>1, <2>1, <2>2, <2>3, NobodyKeeps
<1>5. CASE TimePasses
  <2>1. Tick /\ UNCHANGED <<run, conv, canc, receipt, lock, spent>> /\ claimant' \in {NoOwner, claimant}
    BY <1>5 DEF TimePasses
  <2>2. flights' = flights /\ [StoreNext]_storeVars
    BY <2>1 DEF Tick, StoreNext
  <2> QED
    BY <1>1, <2>1, <2>2, NobodyKeeps
<1> QED
  BY <1>2, <1>3, <1>4, <1>5

LEMMA AllKeep == ASSUME ClientInv, [Next]_vars PROVE Kept
<1>1. ASSUME NEW r \in Runners, RunnerStep(r) \/ Abort(r) \/ Crash(r) PROVE Kept
  <2>1. CASE Claim(r) \/ Claimed(r) \/ CallReturns(r) \/ Crash(r)
    BY <2>1, RunnerClaims, RunHears, CrashKeeps
  <2>2. CASE Register(r) \/ RegisterFails(r) \/ Finish(r) \/ Finalize(r) \/ Abort(r)
    BY <2>2, RunKeeps
  <2>3. CASE SettleRegistrationFailure(r) \/ Authority(r) \/ Mark(r) \/ Begin(r)
    BY <2>3, MutationsKeep
  <2>4. CASE DeltaStarts(r) \/ RenewStarts(r) \/ DeltaReturns(r) \/ RenewReturns(r)
    BY <2>4, StreamSends, StreamHears
  <2>5. CASE UpstreamEnds(r) \/ RenewFires(r) \/ RenewStops(r) \/ Select(r) \/ Join(r)
    BY <2>5, StreamKeeps
  <2>6. CASE CompleteGeneration(r) \/ Recomplete(r)
    BY <2>6, CompletionsKeep
  <2>7. CASE Preload(r) \/ LockTimesOut(r) \/ Recheck(r) \/ PersistFails(r) \/ Reload(r) \/ Report(r)
    BY <2>7, FinalizingKeeps
  <2>8. CASE TakesLock(r) \/ Persist(r) \/ Unlock(r)
    BY <2>8, LockingKeeps
  <2> QED
    BY <1>1, <2>1, <2>2, <2>3, <2>4, <2>5, <2>6, <2>7, <2>8, Zenon DEF RunnerStep
<1>2. ASSUME NEW v \in Convergers, ConvergerStep(v) PROVE Kept
  BY <1>2, ConvergerSteps, ConvergerHears, Zenon DEF ConvergerStep
<1>3. CASE UNCHANGED vars
  <2>1. UNCHANGED <<run, conv, canc, receipt, lock, claimant, spent, storeVars>> /\ flights' = flights
    BY <1>3 DEF vars, storeVars
  <2> QED
    BY <2>1, NobodyKeeps DEF ClientInv, SingleTypeOK
<1> QED
  BY <1>1, <1>2, <1>3, CancellerSteps, SurroundingsKeep, Zenon DEF Next

LEMMA ClientInit == Init => ClientInv
<1> SUFFICES ASSUME Init PROVE ClientInv
  OBVIOUS
<1>1. StoreInv
  BY StoreInvInit DEF Init
<1>2. Absent \in Record /\ MaxSeq \in Nat
  BY AbsentType, StoreAssumption
<1>3. PICK s : s = [pc |-> "idle", work |-> "none", renew |-> "none", call |-> NoCall,
                    seq |-> 0, t |-> 0, rt |-> 0, due |-> 0, saw |-> Absent, stop |-> FALSE, ctx |-> FALSE]
  OBVIOUS
<1>4. s \in RunType
  BY <1>2, <1>3 DEF RunType, RunPC
<1>5. s.pc = "idle" /\ s.call = NoCall /\ s.work = "none" /\ s.renew = "none"
  BY <1>3
<1>6. run = [r \in Runners |-> s]
  BY <1>3 DEF Init
<1>7. \A r \in Runners : run[r] = s
  BY <1>6
<1>8. SingleTypeOK
  <2>1. run \in [Runners -> RunType]
    BY <1>4, <1>6
  <2>2. conv \in [Convergers -> ConvType] /\ canc \in [Cancellers -> CancType]
    BY DEF Init, ConvType, CancType
  <2>3. receipt = NoReceipt /\ lock = NoOne /\ claimant = NoOwner
        /\ spent = [lost |-> 0, delayed |-> 0, sessions |-> 0, crashes |-> 0]
    BY DEF Init
  <2>4. spent \in [{"lost", "delayed", "sessions", "crashes"} -> Nat]
    BY <2>3
  <2> QED
    BY <2>1, <2>2, <2>3, <2>4 DEF SingleTypeOK
<1>9. \A r \in Runners : RunnerSound(r, run[r], flights, issued, now)
  BY <1>5, <1>7 DEF RunnerSound, Pending, Calling
<1>10. \A v \in Convergers : ConvergerSound(v, conv[v], flights, now, receipt # NoReceipt)
  BY DEF Init, ConvergerSound, Pending
<1>11. \A c \in Cancellers : CancellerSound(c, canc[c], flights)
  BY DEF Init, CancellerSound, Pending
<1> QED
  BY <1>1, <1>8, <1>9, <1>10, <1>11 DEF ClientInv, Clients

\* Every runner, poller and cancel is one of the store's clients: it changes the record by the store's own calls
\* only, with the tokens it drew and the times it read, whatever crashes or is lost around it.
THEOREM SingleUsesTheStore == Spec => UsesTheStore
<1>1. Init => StoreInit
  BY DEF Init
<1>2. ClientInv /\ [Next]_vars => ClientInv' /\ [StoreNext]_storeVars
  <2> SUFFICES ASSUME ClientInv, [Next]_vars PROVE ClientInv' /\ [StoreNext]_storeVars
    OBVIOUS
  <2>1. Kept
    BY AllKeep
  <2> QED
    BY <2>1, KeptIsInv DEF Kept
<1> QED
  BY <1>1, <1>2, ClientInit, PTL DEF Spec, UsesTheStore, StoreSpec

\* The goroutines of a generation have their types, and who waits for a reply has a command of its own in flight.
THEOREM SingleClients == Spec => []ClientInv
<1>1. ClientInv /\ [Next]_vars => ClientInv'
  <2> SUFFICES ASSUME ClientInv, [Next]_vars PROVE ClientInv'
    OBVIOUS
  <2> QED
    BY AllKeep, KeptIsInv
<1> QED
  BY <1>1, ClientInit, PTL DEF Spec

----------------------------------------------------------------------------
(* Every step of a runner past its claim is one of RunnerMoves *)

LEMMA TidyFields ==
    ASSUME NEW s \in RunType
    PROVE  /\ Tidy(s).pc = s.pc /\ Tidy(s).seq = s.seq
           /\ s.pc \notin Ended => Tidy(s) = s
           /\ s.pc \in Ended => /\ Tidy(s).call = NoCall /\ Tidy(s).saw = Absent
                                /\ Tidy(s).work = "none" /\ Tidy(s).renew = "none"
<1>1. CASE s.pc \notin Ended
  BY <1>1 DEF Tidy
<1>2. CASE s.pc \in Ended
  <2>1. PICK q : q = [s EXCEPT !.work = "none", !.renew = "none", !.call = NoCall, !.t = 0, !.rt = 0, !.due = 0,
                              !.saw = Absent, !.stop = FALSE, !.ctx = FALSE]
    OBVIOUS
  <2>2. q.pc = s.pc /\ q.seq = s.seq /\ q.work = "none" /\ q.renew = "none" /\ q.call = NoCall
    BY <2>1 DEF RunType
  <2>3. q.saw = Absent
    BY <2>1 DEF RunType
  <2>4. Tidy(s) = q
    BY <1>2, <2>1 DEF Tidy
  <2> QED
    BY <1>2, <2>2, <2>3, <2>4
<1> QED
  BY <1>1, <1>2

\* A runner's state after its step.
LEMMA RunAfter ==
    ASSUME ClientInv, NEW r \in Runners, NEW s \in RunType, run' = [run EXCEPT ![r] = Tidy(s)]
    PROVE  run'[r] = Tidy(s) /\ \A o \in Runners \ {r} : run'[o] = run[o]
BY DEF ClientInv, SingleTypeOK

\* A step between two calls, told by the state before Tidy.
LEMMA PassMoves ==
    ASSUME ClientInv, NEW r \in Runners, NEW p, p = run[r], p.pc \notin {"idle", "claiming"} \cup Ended,
           NEW s \in RunType, run' = [run EXCEPT ![r] = Tidy(s)], UNCHANGED <<conv, canc>>, Local,
           s.call = p.call, s.seq = p.seq, s.saw \in {p.saw, rec, Absent},
           s.pc # p.pc => p.pc \notin Calling /\ s.pc \notin Calling \cup {"idle", "claiming"},
           s.work # p.work => s.work # "delta" /\ p.work # "delta",
           s.renew # p.renew => s.renew # "renewing" /\ p.renew # "renewing",
           s.pc \in Ended => p.work # "delta" /\ p.renew # "renewing",
           Doomed(p) => Doomed(s) /\ s.pc # "done" /\ s.pc # "duplicate", ~Early(p) => ~Early(s),
           s.pc = "report" => p.pc = "report" \/ rec.state = "completed",
           s.pc = "done" => p.pc = "report", s.pc \in {"cancelled", "failed"} => p.saw.state = s.pc,
           Guards(r, p, s)
    PROVE  RunnerMoves(r, p, run'[r])
<1>1. PICK q : q = Tidy(s)
  OBVIOUS
<1>2. run'[r] = q
  BY <1>1, RunAfter
<1>3. /\ q.pc = s.pc /\ q.seq = s.seq
      /\ s.pc \notin Ended => q = s
      /\ s.pc \in Ended => q.call = NoCall /\ q.saw = Absent /\ q.work = "none" /\ q.renew = "none"
  BY <1>1, TidyFields
<1>4. Guards(r, p, q)
  BY <1>3, Zenon DEF Guards
<1>5. Doomed(p) => Doomed(q)
  BY <1>3 DEF Doomed, Ended
<1>6. Forth(p, q)
  <2>1. ~Early(p) => ~Early(q)
    BY <1>3 DEF Early
  <2>2. q.saw \in {p.saw, rec, Absent} /\ (q.pc = "error" => q.saw = Absent)
    BY <1>3 DEF Ended
  <2>3. q.pc # "idle" /\ q.pc # "claiming"
    BY <1>3
  <2> QED
    BY <1>5, <2>1, <2>2, <2>3 DEF Forth
<1>7. Passes(p, q)
  <2>1. UNCHANGED <<storeVars, claimant>>
    BY DEF Local
  <2>2. q.work = "delta" <=> p.work = "delta"
    BY <1>3
  <2>3. q.renew = "renewing" <=> p.renew = "renewing"
    BY <1>3
  <2> QED
    BY <1>3, <2>1, <2>2, <2>3 DEF Passes
<1> QED
  BY <1>2, <1>4, <1>6, <1>7 DEF RunnerMoves

\* Of the runner only its place and what it saw change.
LEMMA PlaceMoves ==
    ASSUME ClientInv, NEW r \in Runners, NEW p, p = run[r], p.pc \notin {"idle", "claiming", "select", "join"} \cup Ended \cup Calling,
           NEW s \in RunType, run' = [run EXCEPT ![r] = Tidy(s)], UNCHANGED <<conv, canc>>, Local,
           s.call = p.call, s.seq = p.seq, s.work = p.work, s.renew = p.renew, s.saw \in {p.saw, rec, Absent},
           s.pc \notin Calling \cup {"idle", "claiming", "claimed", "select", "join"},
           Doomed(p) => Doomed(s) /\ s.pc # "done" /\ s.pc # "duplicate",
           s.pc = "report" => p.pc = "report" \/ rec.state = "completed",
           s.pc = "done" => p.pc = "report", s.pc \in {"cancelled", "failed"} => p.saw.state = s.pc,
           Guards(r, p, s)
    PROVE  RunnerMoves(r, p, run'[r])
<1>1. p.work = "none" /\ p.renew = "none"
  BY RunnerFields DEF RunnerSound
<1>2. ~Early(p) => ~Early(s)
  BY DEF Early
<1> QED
  BY <1>1, <1>2, PassMoves

\* A step of the finalization.
LEMMA FinalizingMoves ==
    ASSUME ClientInv, NEW r \in Runners,
           Preload(r) \/ LockTimesOut(r) \/ Recheck(r) \/ PersistFails(r) \/ Reload(r) \/ Report(r)
    PROVE  RunnerMoves(r, run[r], run'[r])
<1>1. PICK p : p = run[r] /\ p \in RunType
  BY RunnerFields
<1>2. p.pc \in {"preload", "locking", "recheck", "persist", "reload", "resolve", "report"} /\ Local
  BY <1>1 DEF Preload, LockTimesOut, Recheck, PersistFails, Reload, Report
<1>3. /\ p.pc \notin {"idle", "claiming", "select", "join"} \cup Ended \cup Calling
      /\ {"error", "locking", "complete", "resolve", "persist", "giveup", "done"} \subseteq RunPC \ Calling
  BY <1>2 DEF Ended, Calling, RunPC
<1>4. ~Doomed(p)
  <2>1. p.work = "none"
    BY <1>1, <1>2, RunnerFields DEF RunnerSound
  <2> QED
    BY <1>2, <2>1 DEF Doomed
<1>5. ASSUME NEW pc \in {"error", "locking", "complete", "resolve", "persist", "giveup", "done"}, Goes(r, pc),
             pc = "complete" => receipt # NoReceipt, pc = "persist" => rec.state = "committing",
             pc = "giveup" => p.pc \in {"recheck", "persist"}, pc = "persist" => p.pc = "recheck",
             pc = "done" => p.pc = "report"
      PROVE  RunnerMoves(r, p, run'[r])
  <2>1. PICK s : s = [p EXCEPT !.pc = pc]
    OBVIOUS
  <2>2. s \in RunType /\ s.pc = pc /\ s.work = p.work /\ s.renew = p.renew /\ s.call = p.call /\ s.seq = p.seq
    BY <1>1, <1>3, <2>1 DEF RunType
  <2>3. s.saw = p.saw
    BY <1>1, <2>1 DEF RunType
  <2>4. run' = [run EXCEPT ![r] = Tidy(s)] /\ UNCHANGED <<conv, canc, receipt, lock>>
    BY <1>1, <1>5, <2>1 DEF Goes, Moves, Others
  <2>5. Guards(r, p, s)
    BY <1>5, <2>2, <2>4 DEF Guards, Holding, Completing
  <2>6. s.pc \notin Calling \cup {"idle", "claiming", "claimed", "select", "join", "report", "cancelled", "failed"}
    BY <1>3, <2>2
  <2> QED
    BY <1>1, <1>2, <1>3, <1>4, <1>5, <2>2, <2>3, <2>4, <2>5, <2>6, PlaceMoves
<1>6. CASE Preload(r)
  <2>1. PICK pc \in {"error", "locking", "complete"} : Goes(r, pc) /\ (pc = "complete" => receipt # NoReceipt)
    BY <1>6 DEF Preload, Readable
  <2> QED
    BY <1>1, <1>5, <2>1
<1>7. CASE LockTimesOut(r)
  BY <1>1, <1>5, <1>7 DEF LockTimesOut
<1>8. CASE Recheck(r)
  <2>1. p.pc = "recheck" /\ \E pc \in {"persist", "giveup"} : Goes(r, pc) /\ (pc = "persist" => rec.state = "committing")
    BY <1>1, <1>8 DEF Recheck, MatchesRedis
  <2> QED
    BY <1>1, <1>5, <2>1
<1>9. CASE PersistFails(r)
  BY <1>1, <1>5, <1>9 DEF PersistFails
<1>10. CASE Reload(r)
  <2>1. PICK pc \in {"error", "complete"} : Goes(r, pc) /\ (pc = "complete" => receipt # NoReceipt)
    BY <1>10 DEF Reload, Readable
  <2> QED
    BY <1>1, <1>5, <2>1
<1>11. CASE Report(r)
  <2>1. p.pc = "report" /\ \E told \in {"error", "done"} : Goes(r, told)
    <3>1. run[r].pc = "report" /\ \E told \in IF run[r].ctx THEN {"error"} ELSE {"done", "error"} : Goes(r, told)
      BY <1>11, Zenon DEF Report
    <3> QED
      BY <1>1, <3>1
  <2> QED
    BY <1>1, <1>5, <2>1
<1> QED
  BY <1>1, <1>6, <1>7, <1>8, <1>9, <1>10, <1>11

\* The lock is taken or given back, or the transaction runs.
LEMMA LockingMoves ==
    ASSUME ClientInv, NEW r \in Runners, TakesLock(r) \/ Persist(r) \/ Unlock(r)
    PROVE  RunnerMoves(r, run[r], run'[r])
<1>1. PICK p : p = run[r] /\ p \in RunType
  BY RunnerFields
<1>2. p.pc \in {"locking", "persist", "unlock", "giveup"} /\ Local /\ UNCHANGED <<conv, canc>>
  BY <1>1 DEF TakesLock, Persist, Unlock
<1>3. PICK pc \in {"recheck", "unlock", "giveup", "reload", "resolve"} :
        /\ run' = [run EXCEPT ![r].pc = pc]
        /\ UNCHANGED lock \/ (lock = NoOne /\ lock' = r) \/ (lock = r /\ lock' = NoOne /\ pc \notin Holding)
        /\ pc \in Holding => lock' = r \/ (p.pc \in Holding /\ lock' = lock)
        /\ UNCHANGED receipt \/ (p.pc = "persist" /\ lock = r /\ receipt = NoReceipt /\ receipt' = [by |-> r, alive |-> TRUE])
  <2>1. CASE TakesLock(r)
    BY <2>1 DEF TakesLock
  <2>2. CASE Persist(r)
    BY <1>1, <2>2 DEF Persist
  <2>3. CASE Unlock(r)
    <3>1. run' = [run EXCEPT ![r].pc = IF run[r].pc = "unlock" /\ lock = r THEN "reload" ELSE "resolve"]
      BY <2>3, RunnerFields DEF Unlock
    <3>2. UNCHANGED receipt /\ (lock' = lock \/ (lock = r /\ lock' = NoOne))
      BY <2>3 DEF Unlock
    <3>3. "reload" \notin Holding /\ "resolve" \notin Holding
      BY DEF Holding
    <3> QED
      BY <3>1, <3>2, <3>3
  <2> QED
    BY <2>1, <2>2, <2>3
<1>4. PICK s : s = [p EXCEPT !.pc = pc]
  OBVIOUS
<1>5. /\ p.pc \notin {"idle", "claiming", "select", "join"} \cup Ended \cup Calling
      /\ pc \in RunPC /\ pc \notin Calling \cup Ended
  BY <1>2 DEF Ended, Calling, RunPC
<1>6. s \in RunType /\ s.pc = pc /\ s.work = p.work /\ s.renew = p.renew /\ s.call = p.call /\ s.seq = p.seq
  BY <1>1, <1>4, <1>5 DEF RunType
<1>7. s.saw = p.saw
  BY <1>1, <1>4 DEF RunType
<1>8. run' = [run EXCEPT ![r] = Tidy(s)]
  BY <1>1, <1>3, <1>4, <1>5, <1>6 DEF Tidy
<1>9. Guards(r, p, s)
  <2>1. s.pc \notin {"persist", "complete", "recomplete"} \cup Completing
    BY <1>6 DEF Completing
  <2> QED
    BY <1>3, <1>6, <2>1 DEF Guards
<1>10. ~Doomed(p)
  <2>1. p.work = "none"
    BY <1>1, <1>2, RunnerFields DEF RunnerSound
  <2> QED
    BY <1>2, <2>1 DEF Doomed
<1> QED
  BY <1>1, <1>2, <1>5, <1>6, <1>7, <1>8, <1>9, <1>10, PlaceMoves

\* Steps between Run's calls.
LEMMA RunMoves ==
    ASSUME ClientInv, NEW r \in Runners, Register(r) \/ RegisterFails(r) \/ Finish(r) \/ Finalize(r) \/ Abort(r)
    PROVE  RunnerMoves(r, run[r], run'[r])
<1>0. Local /\ UNCHANGED <<conv, canc, receipt, lock>>
  <2>1. CASE Register(r) \/ RegisterFails(r) \/ Finish(r) \/ Abort(r)
    BY <2>1, Zenon DEF Register, RegisterFails, Finish, Abort, Moves, Others
  <2>2. CASE Finalize(r)
    BY <2>2, Zenon DEF Finalize, Moves, Others
  <2> QED
    BY <2>1, <2>2
<1>1. PICK p : p = run[r] /\ p \in RunType /\ RunnerSound(r, p, flights, issued, now)
  BY RunnerFields
<1>2. rec \in Record /\ now + RenewEvery \in Nat
  BY SingleAssumption DEF ClientInv, StoreInv, StoreTypeOK
<1>3. /\ {"error", "authority", "preload", "select", "settle"} \subseteq RunPC
      /\ {"error", "authority", "preload", "select", "settle", "claimed", "finish", "finalize"} \cap (Calling \cup {"claiming", "idle"}) = {}
      /\ {"authority", "preload", "select", "settle", "claimed", "finish", "finalize"} \cap Ended = {}
  BY DEF RunPC, Calling, Ended
<1>4. ASSUME NEW s, s.pc \notin Holding \cup Completing \cup {"complete", "recomplete"} PROVE Guards(r, p, s)
  BY <1>0, <1>4 DEF Guards, Holding
<1>5. CASE Register(r)
  <2>1. p.pc = "claimed" /\ p.work = "none" /\ p.renew = "none"
    BY <1>1, <1>5 DEF Register, RunnerSound
  <2>2. PICK h : h = [p EXCEPT !.pc = "select", !.work = "stream"]
    OBVIOUS
  <2>3. h \in RunType /\ h.pc = "select" /\ h.work = "stream" /\ h.call = p.call /\ h.seq = p.seq
    BY <1>1, <1>3, <2>2 DEF RunType
  <2>4. h.saw = p.saw
    BY <1>1, <2>2 DEF RunType
  <2>5. PICK s : s = [h EXCEPT !.renew = "timer", !.due = now + RenewEvery]
    OBVIOUS
  <2>6. s \in RunType /\ s.pc = "select" /\ s.work = "stream" /\ s.renew = "timer" /\ s.call = p.call
    BY <1>2, <2>3, <2>5 DEF RunType
  <2>7. s.saw = p.saw /\ s.seq = p.seq
    BY <2>3, <2>4, <2>5 DEF RunType
  <2>8. run' = [run EXCEPT ![r] = Tidy(s)]
    <3>1. s = [p EXCEPT !.pc = "select", !.work = "stream", !.renew = "timer", !.due = now + RenewEvery]
      BY <2>2, <2>5
    <3> QED
      BY <1>1, <1>5, <3>1 DEF Register, Moves
  <2>9. ~Doomed(p) /\ Early(p) /\ Guards(r, p, s) /\ s.pc \notin Ended
    BY <1>3, <1>4, <2>1, <2>6 DEF Doomed, Early, Holding, Completing
  <2> QED
    BY <1>0, <1>1, <1>3, <2>1, <2>6, <2>7, <2>8, <2>9, PassMoves
<1>6. CASE RegisterFails(r)
  <2>1. p.pc = "claimed" /\ p.work = "none"
    BY <1>1, <1>6 DEF RegisterFails, RunnerSound
  <2>2. PICK s : s = [p EXCEPT !.pc = "settle", !.saw = rec]
    OBVIOUS
  <2>3. s \in RunType /\ s.saw = rec
    BY <1>1, <1>2, <1>3, <2>2 DEF RunType
  <2>4. s.pc = "settle" /\ s.work = p.work /\ s.renew = p.renew /\ s.call = p.call /\ s.seq = p.seq
    BY <1>1, <2>2 DEF RunType
  <2>5. run' = [run EXCEPT ![r] = Tidy(s)]
    BY <1>1, <1>6, <2>2 DEF RegisterFails, Moves
  <2>6. ~Doomed(p) /\ Guards(r, p, s)
    BY <1>4, <2>1, <2>4 DEF Doomed, Holding, Completing
  <2> QED
    BY <1>0, <1>1, <1>3, <2>1, <2>3, <2>4, <2>5, <2>6, PlaceMoves
<1>7. CASE Finish(r)
  <2>1. PICK pc \in {"error", "authority"} : pc = IF rec = Absent THEN "error" ELSE "authority"
    OBVIOUS
  <2>2. PICK s : s = [p EXCEPT !.pc = pc, !.saw = rec]
    OBVIOUS
  <2>3. s \in RunType /\ s.saw = rec
    BY <1>1, <1>2, <1>3, <2>2 DEF RunType
  <2>4. s.pc = pc /\ s.work = p.work /\ s.renew = p.renew /\ s.call = p.call /\ s.seq = p.seq
    BY <1>1, <2>2 DEF RunType
  <2>5. run' = [run EXCEPT ![r] = Tidy(s)] /\ p.pc = "finish"
    BY <1>1, <1>7, <2>1, <2>2 DEF Finish, Moves
  <2>6. Doomed(s) /\ Guards(r, p, s)
    BY <1>4, <2>4 DEF Doomed, Holding, Completing
  <2> QED
    BY <1>0, <1>1, <1>3, <2>3, <2>4, <2>5, <2>6, PlaceMoves
<1>8. CASE Finalize(r)
  <2>1. PICK t \in Reading, pc \in {"preload", "error"} : run' = [run EXCEPT ![r] = Tidy([p EXCEPT !.t = t, !.pc = pc])]
    <3>1. PICK t \in Reading : Moves(r, [run[r] EXCEPT !.t = t, !.pc = IF ~run[r].ctx /\ MatchesRedis(r, t) THEN "preload" ELSE "error"])
      BY <1>8, Zenon DEF Finalize
    <3>2. PICK pc \in {"preload", "error"} : pc = IF ~run[r].ctx /\ MatchesRedis(r, t) THEN "preload" ELSE "error"
      OBVIOUS
    <3> QED
      BY <1>1, <3>1, <3>2, Zenon DEF Moves
  <2>2. PICK s : s = [p EXCEPT !.t = t, !.pc = pc]
    OBVIOUS
  <2>3. s \in RunType /\ s.saw = p.saw
    BY <1>1, <1>3, <2>2, ReadingType DEF RunType
  <2>4. s.pc = pc /\ s.work = p.work /\ s.renew = p.renew /\ s.call = p.call /\ s.seq = p.seq
    BY <1>1, <2>2 DEF RunType
  <2>5. p.pc = "finalize"
    BY <1>1, <1>8, Zenon DEF Finalize
  <2>6. ~Doomed(p) /\ Guards(r, p, s)
    BY <1>1, <1>4, <2>4, <2>5 DEF Doomed, RunnerSound, Holding, Completing
  <2> QED
    BY <1>0, <1>1, <1>3, <2>1, <2>2, <2>3, <2>4, <2>5, <2>6, PlaceMoves
<1>9. CASE Abort(r)
  <2>1. PICK s : s = [p EXCEPT !.ctx = TRUE]
    OBVIOUS
  <2>2. s \in RunType /\ s.saw = p.saw
    BY <1>1, <2>1 DEF RunType
  <2>3. s.pc = p.pc /\ s.work = p.work /\ s.renew = p.renew /\ s.call = p.call /\ s.seq = p.seq
    BY <1>1, <2>1 DEF RunType
  <2>4. run' = [run EXCEPT ![r] = Tidy(s)] /\ p.pc \notin {"idle", "claiming"} \cup Ended
    BY <1>1, <1>9, <2>1 DEF Abort, Moves, IsRegistered
  <2>5. (Doomed(p) => Doomed(s)) /\ (~Early(p) => ~Early(s)) /\ Guards(r, p, s)
    BY <1>0, <2>3 DEF Doomed, Early, Guards
  <2>6. s.pc \notin Ended /\ s.pc # "done" /\ s.pc # "duplicate" /\ s.pc # "cancelled" /\ s.pc # "failed"
    BY <2>3, <2>4 DEF Ended
  <2> QED
    BY <1>0, <1>1, <2>2, <2>3, <2>4, <2>5, <2>6, PassMoves
<1> QED
  BY <1>1, <1>5, <1>6, <1>7, <1>8, <1>9

\* The stream's steps between its calls.
LEMMA StreamMoves ==
    ASSUME ClientInv, NEW r \in Runners, UpstreamEnds(r) \/ RenewFires(r) \/ RenewStops(r) \/ Select(r) \/ Join(r)
    PROVE  RunnerMoves(r, run[r], run'[r])
<1>1. PICK p : p = run[r] /\ p \in RunType /\ RunnerSound(r, p, flights, issued, now)
  BY RunnerFields
<1>2. Local /\ UNCHANGED Others
  <2>1. CASE UpstreamEnds(r) \/ RenewStops(r) \/ Select(r) \/ Join(r)
    BY <2>1, Zenon DEF UpstreamEnds, RenewStops, Select, Join, Moves
  <2>2. CASE RenewFires(r)
    BY <2>2, Zenon DEF RenewFires, Moves
  <2> QED
    BY <2>1, <2>2
<1>3. p.pc \in {"select", "join"}
  <2>1. run[r].pc \in {"select", "join"} \/ Streaming(r)
    BY Zenon DEF UpstreamEnds, RenewFires, RenewStops, Select, Join
  <2> QED
    BY <1>1, <2>1 DEF Streaming
<1>4. /\ p.pc \notin Calling \cup {"idle", "claiming"} /\ p.pc \notin Ended
      /\ {"join", "error", "authority", "finish", "mark"} \subseteq RunPC \ (Calling \cup {"idle", "claiming"})
      /\ {"select", "join", "authority", "finish", "mark"} \cap Ended = {} /\ Early(p)
  BY <1>3 DEF Calling, Ended, RunPC, Early
<1>5. ASSUME NEW s \in RunType, run' = [run EXCEPT ![r] = Tidy(s)], s.call = p.call, s.seq = p.seq, s.saw = p.saw,
             s.pc \in {"select", "join", "error", "authority", "finish", "mark"},
             s.work # p.work => s.work # "delta" /\ p.work # "delta",
             s.renew # p.renew => s.renew # "renewing" /\ p.renew # "renewing",
             s.pc = "error" => p.work # "delta" /\ p.renew # "renewing",
             Doomed(p) => Doomed(s)
      PROVE  RunnerMoves(r, p, run'[r])
  <2>1. Guards(r, p, s)
    BY <1>2, <1>5 DEF Guards, Others, Holding, Completing
  <2>2. s.pc \in Ended => s.pc = "error"
    BY <1>4, <1>5
  <2>3. s.pc \notin Calling \cup {"idle", "claiming"}
    BY <1>3, <1>4, <1>5 DEF Calling
  <2> QED
    BY <1>1, <1>2, <1>4, <1>5, <2>1, <2>2, <2>3, PassMoves DEF Others
<1>6. CASE UpstreamEnds(r)
  <2>1. PICK work \in {"ok", "bad"} : Moves(r, [p EXCEPT !.work = work]) /\ p.work = "stream"
    BY <1>1, <1>6, Zenon DEF UpstreamEnds
  <2>2. PICK s : s = [p EXCEPT !.work = work]
    OBVIOUS
  <2>3. s \in RunType /\ s.saw = p.saw
    BY <1>1, <2>2 DEF RunType
  <2>4. s.pc = p.pc /\ s.work = work /\ s.renew = p.renew /\ s.call = p.call /\ s.seq = p.seq
    BY <1>1, <2>2 DEF RunType
  <2>5. ~Doomed(p)
    BY <1>3, <2>1 DEF Doomed
  <2>6. run' = [run EXCEPT ![r] = Tidy(s)]
    BY <2>1, <2>2 DEF Moves
  <2> QED
    BY <1>1, <1>3, <1>5, <2>1, <2>3, <2>4, <2>5, <2>6
<1>7. CASE RenewFires(r)
  <2>1. PICK t \in Reading : Moves(r, [p EXCEPT !.renew = "armed", !.rt = t]) /\ p.renew = "timer"
    BY <1>1, <1>7, Zenon DEF RenewFires
  <2>2. PICK s : s = [p EXCEPT !.renew = "armed", !.rt = t]
    OBVIOUS
  <2>3. s \in RunType /\ s.saw = p.saw
    BY <1>1, <2>2, ReadingType DEF RunType
  <2>4. s.pc = p.pc /\ s.work = p.work /\ s.renew = "armed" /\ s.call = p.call /\ s.seq = p.seq
    BY <1>1, <2>2 DEF RunType
  <2>5. run' = [run EXCEPT ![r] = Tidy(s)] /\ (Doomed(p) => Doomed(s))
    BY <2>1, <2>2, <2>4 DEF Moves, Doomed
  <2> QED
    BY <1>1, <1>3, <1>5, <2>1, <2>3, <2>4, <2>5
<1>8. CASE RenewStops(r)
  <2>1. Moves(r, [p EXCEPT !.renew = "stopped"]) /\ p.renew = "timer"
    BY <1>1, <1>8, Zenon DEF RenewStops
  <2>2. PICK s : s = [p EXCEPT !.renew = "stopped"]
    OBVIOUS
  <2>3. s \in RunType /\ s.saw = p.saw
    BY <1>1, <2>2 DEF RunType
  <2>4. s.pc = p.pc /\ s.work = p.work /\ s.renew = "stopped" /\ s.call = p.call /\ s.seq = p.seq
    BY <1>1, <2>2 DEF RunType
  <2>5. run' = [run EXCEPT ![r] = Tidy(s)] /\ (Doomed(p) => Doomed(s))
    BY <2>1, <2>2, <2>4 DEF Moves, Doomed
  <2> QED
    BY <1>1, <1>3, <1>5, <2>1, <2>3, <2>4, <2>5
<1>9. CASE Select(r)
  <2>1. PICK ctx \in BOOLEAN : ctx <=> p.ctx \/ p.renew = "failed"
    OBVIOUS
  <2>2. PICK s : s = [p EXCEPT !.pc = "join", !.stop = TRUE, !.ctx = ctx]
    OBVIOUS
  <2>3. s \in RunType /\ s.saw = p.saw
    BY <1>1, <1>4, <2>2 DEF RunType
  <2>4. s.pc = "join" /\ s.work = p.work /\ s.renew = p.renew /\ s.call = p.call /\ s.seq = p.seq
    BY <1>1, <2>2 DEF RunType
  <2>5. run' = [run EXCEPT ![r] = Tidy(s)]
    <3>1. ctx = (p.ctx \/ p.renew = "failed")
      BY <1>1, <2>1 DEF RunType
    <3>2. Moves(r, [p EXCEPT !.pc = "join", !.stop = TRUE, !.ctx = p.ctx \/ p.renew = "failed"])
      BY <1>1, <1>9 DEF Select
    <3> QED
      BY <2>2, <3>1, <3>2 DEF Moves
  <2>6. Doomed(p) => Doomed(s)
    BY <1>3, <2>4 DEF Doomed
  <2> QED
    BY <1>1, <1>5, <2>3, <2>4, <2>5, <2>6
<1>10. CASE Join(r)
  <2>1. /\ Moves(r, [p EXCEPT
               !.work = "none", !.renew = "none", !.rt = 0, !.due = 0,
               !.pc = IF p.renew = "failed"
                      THEN IF p.saw = Absent THEN "error" ELSE "authority"
                      ELSE IF p.work = "bad" \/ p.ctx THEN "finish" ELSE "mark"])
        /\ p.work \in {"ok", "bad"} /\ p.renew \in {"stopped", "failed"}
    BY <1>1, <1>10, Zenon DEF Join
  <2>2. PICK pc \in {"error", "authority", "finish", "mark"} :
           pc = IF p.renew = "failed" THEN IF p.saw = Absent THEN "error" ELSE "authority"
                ELSE IF p.work = "bad" \/ p.ctx THEN "finish" ELSE "mark"
    OBVIOUS
  <2>3. PICK h : h = [p EXCEPT !.work = "none", !.renew = "none"]
    OBVIOUS
  <2>4. h \in RunType /\ h.work = "none" /\ h.renew = "none" /\ h.saw = p.saw
    BY <1>1, <2>3 DEF RunType
  <2>5. h.call = p.call /\ h.seq = p.seq
    BY <1>1, <2>3 DEF RunType
  <2>6. PICK s : s = [h EXCEPT !.rt = 0, !.due = 0, !.pc = pc]
    OBVIOUS
  <2>7. s \in RunType /\ s.pc = pc /\ s.saw = p.saw
    BY <1>4, <2>4, <2>6 DEF RunType
  <2>8. s.work = "none" /\ s.renew = "none" /\ s.call = p.call /\ s.seq = p.seq
    BY <2>4, <2>5, <2>6 DEF RunType
  <2>9. run' = [run EXCEPT ![r] = Tidy(s)]
    <3>1. s = [p EXCEPT !.work = "none", !.renew = "none", !.rt = 0, !.due = 0, !.pc = pc]
      BY <2>3, <2>6
    <3> QED
      BY <2>1, <2>2, <3>1 DEF Moves
  <2>10. Doomed(p) => Doomed(s)
    BY <1>3, <2>2, <2>7 DEF Doomed
  <2> QED
    BY <1>1, <1>5, <2>1, <2>2, <2>7, <2>8, <2>9, <2>10
<1> QED
  BY <1>1, <1>6, <1>7, <1>8, <1>9, <1>10

----------------------------------------------------------------------------
(* What a mutation writes: the state it brings about, and the count *)

LEMMA StampCounts ==
    ASSUME NEW x \in Record, NEW t \in Nat
    PROVE  Stamp(x, t) \in Record /\ Stamp(x, t).state = x.state /\ Counts(Stamp(x, t)) = Counts(x)
BY StampFields DEF Counts

LEMMA DeltaWrites ==
    ASSUME NEW x \in Record, NEW s \in Nat, NEW t \in Nat
    PROVE  RecordDelta(x, TheModel, s, t) \in Record /\ RecordDelta(x, TheModel, s, t).state = x.state /\ Counts(RecordDelta(x, TheModel, s, t)) = s
<1>1. PICK y : y = [x EXCEPT !.model[TheModel].seq = s]
  OBVIOUS
<1>2. x.model \in [Models -> Entry] /\ TheModel \in Models
  BY RecordFields, TheModelType
<1>3. y = [x EXCEPT !.model = [x.model EXCEPT ![TheModel] = [x.model[TheModel] EXCEPT !.seq = s]]]
  BY <1>1, <1>2 DEF Record
<1>4. [x.model[TheModel] EXCEPT !.seq = s] \in Entry /\ [x.model[TheModel] EXCEPT !.seq = s].seq = s
  BY <1>2 DEF Entry
<1>5. PICK m : m = [x.model EXCEPT ![TheModel] = [x.model[TheModel] EXCEPT !.seq = s]]
  OBVIOUS
<1>6. m \in [Models -> Entry] /\ m[TheModel].seq = s
  BY <1>2, <1>4, <1>5
<1>7. y \in Record /\ y.state = x.state /\ y.model = m
  BY <1>3, <1>5, <1>6 DEF Record
<1>8. RecordDelta(x, TheModel, s, t) = Stamp(y, t) /\ Counts(y) = s
  BY <1>1, <1>6, <1>7 DEF RecordDelta, Counts
<1> QED
  BY <1>7, <1>8, StampCounts

LEMMA DoneWrites ==
    ASSUME NEW x \in Record, NEW t \in Nat
    PROVE  MarkModelDone(x, TheModel, t) \in Record /\ MarkModelDone(x, TheModel, t).state = x.state /\ Counts(MarkModelDone(x, TheModel, t)) = Counts(x)
<1>1. PICK y : y = [x EXCEPT !.model[TheModel].state = "completed"]
  OBVIOUS
<1>2. x.model \in [Models -> Entry] /\ TheModel \in Models
  BY RecordFields, TheModelType
<1>3. y = [x EXCEPT !.model = [x.model EXCEPT ![TheModel] = [x.model[TheModel] EXCEPT !.state = "completed"]]]
  BY <1>1, <1>2 DEF Record
<1>4. /\ [x.model[TheModel] EXCEPT !.state = "completed"] \in Entry
      /\ [x.model[TheModel] EXCEPT !.state = "completed"].seq = x.model[TheModel].seq
  BY <1>2 DEF Entry, ModelState
<1>5. PICK m : m = [x.model EXCEPT ![TheModel] = [x.model[TheModel] EXCEPT !.state = "completed"]]
  OBVIOUS
<1>6. m \in [Models -> Entry] /\ m[TheModel].seq = x.model[TheModel].seq
  BY <1>2, <1>4, <1>5
<1>7. y \in Record /\ y.state = x.state /\ y.model = m
  BY <1>3, <1>5, <1>6 DEF Record
<1> QED
  BY <1>1, <1>6, <1>7, StampCounts DEF MarkModelDone, Counts

LEMMA SettleWrites ==
    ASSUME NEW x \in Record, NEW t \in Nat, NEW e \in {"failed", "cancelled"}
    PROVE  Stamp(Settle(x, e), t) \in Record /\ Stamp(Settle(x, e), t).state = e /\ Counts(Stamp(Settle(x, e), t)) = Counts(x)
<1>1. x.model \in [Models -> Entry] /\ TheModel \in Models
  BY RecordFields, TheModelType
<1>2. PICK m : m = [n \in Models |-> IF x.model[n].state = "running" THEN [x.model[n] EXCEPT !.state = e] ELSE x.model[n]]
  OBVIOUS
<1>3. \A n \in Models : /\ [x.model[n] EXCEPT !.state = e] \in Entry
                        /\ [x.model[n] EXCEPT !.state = e].seq = x.model[n].seq
  BY <1>1 DEF Entry, ModelState
<1>4. m \in [Models -> Entry] /\ Counts(x) = m[TheModel].seq
  BY <1>1, <1>2, <1>3 DEF Counts
<1>5. Settle(x, e) = [x EXCEPT !.state = e, !.model = m] /\ e \in State
  BY <1>2 DEF Settle, State
<1>6. PICK z : z = [x EXCEPT !.state = e, !.model = m]
  OBVIOUS
<1>7. z \in Record /\ z.state = e /\ z.model = m
  BY <1>4, <1>5, <1>6 DEF Record
<1>8. Settle(x, e) = z /\ Counts(z) = Counts(x)
  BY <1>4, <1>5, <1>6, <1>7 DEF Counts
<1> QED
  BY <1>7, <1>8, StampCounts

LEMMA CommitWrites ==
    ASSUME NEW x \in Record, NEW t \in Nat
    PROVE  BeginCommit(x, t) \in Record /\ BeginCommit(x, t).state = "committing" /\ Counts(BeginCommit(x, t)) = Counts(x)
<1>1. PICK z : z = [x EXCEPT !.state = "committing"]
  OBVIOUS
<1>2. z \in Record /\ z.state = "committing" /\ z.model = x.model
  BY <1>1 DEF Record, State
<1>3. BeginCommit(x, t) = Stamp(z, t) /\ Counts(z) = Counts(x)
  BY <1>1, <1>2 DEF BeginCommit, Counts
<1> QED
  BY <1>2, <1>3, StampCounts

LEMMA CompleteWrites ==
    ASSUME NEW x \in Record, NEW t \in Nat, NEW guids, \A n \in DOMAIN guids : guids[n] \in Guids
    PROVE  Complete(x, guids, t) \in Record /\ Complete(x, guids, t).state = "completed" /\ Counts(Complete(x, guids, t)) = Counts(x)
<1>1. x.model \in [Models -> Entry] /\ TheModel \in Models
  BY RecordFields, TheModelType
<1>2. PICK m : m = [n \in Models |-> IF n \in DOMAIN guids THEN [x.model[n] EXCEPT !.guid = guids[n]] ELSE x.model[n]]
  OBVIOUS
<1>3. \A n \in Models, g \in Guids : /\ [x.model[n] EXCEPT !.guid = g] \in Entry
                                     /\ [x.model[n] EXCEPT !.guid = g].seq = x.model[n].seq
  BY <1>1 DEF Entry
<1>4. m \in [Models -> Entry] /\ Counts(x) = m[TheModel].seq
  BY <1>1, <1>2, <1>3 DEF Counts
<1>5. "completed" \in State
  BY DEF State
<1>6. PICK z : z = [x EXCEPT !.state = "completed", !.model = m]
  OBVIOUS
<1>7. z \in Record /\ z.state = "completed" /\ z.model = m
  BY <1>4, <1>5, <1>6 DEF Record
<1>8. Complete(x, guids, t) = Stamp(z, t) /\ Counts(z) = Counts(x)
  BY <1>2, <1>4, <1>6, <1>7 DEF Complete, Counts
<1> QED
  BY <1>7, <1>8, StampCounts

LEMMA RenewWrites ==
    ASSUME NEW x \in Record, NEW t \in Nat
    PROVE  RenewLease(x, t) \in Record /\ RenewLease(x, t).state = x.state /\ Counts(RenewLease(x, t)) = Counts(x)
<1>1. PICK y : y = [x EXCEPT !.updated = t, !.until = t + Lease]
  OBVIOUS
<1>2. t + Lease \in Nat
  BY RecordAssumption
<1>3. y \in Record /\ y.state = x.state /\ y.model = x.model
  BY <1>1, <1>2 DEF Record
<1> QED
  BY <1>1, <1>3 DEF RenewLease, Counts

----------------------------------------------------------------------------
(* Calls that are sent *)

\* A mutation is sent, or refused.
LEMMA AttemptMoves ==
    ASSUME ClientInv, NEW r \in Runners, NEW p, p = run[r],
           p.pc \in {"settle", "authority", "mark", "begin", "complete", "recomplete"},
           NEW can, NEW next, NEW t \in Reading, NEW sent \in Calling,
           NEW refused \in {"error", "cancelled", "failed", "finish", "recomplete", "report"},
           Attempt(r, can, next, t, sent, refused),
           p.pc = "authority" => sent \in {"acking", "failing"} /\ refused \in {"error", "cancelled", "failed"},
           sent \in Completing \/ refused = "recomplete" => p.pc \in {"complete", "recomplete"},
           refused = "report" => rec.state = "completed", refused \in {"cancelled", "failed"} => p.saw.state = refused,
           can => /\ next \in Record /\ rec.state # "absent" /\ Counts(next) = Counts(rec)
                  /\ sent \in Completing => next.state = "completed"
                  /\ sent = "acking" => next.state = "cancelled"
                  /\ sent = "failing" => next.state = "failed"
                  /\ next.state = "committing" => rec.owner = r /\ p.pc = "begin"
                  /\ rec.state = "committing" => sent \in Completing
    PROVE  RunnerMoves(r, p, run'[r])
<1>1. p \in RunType /\ RunnerSound(r, p, flights, issued, now) /\ Absent \in Record /\ t \in Nat
  BY RunnerFields, AbsentType, ReadingType
<1>2. p.work = "none" /\ p.renew = "none"
  BY <1>1 DEF RunnerSound
<1>3. /\ p.pc \notin {"idle", "claiming", "select", "join"} \cup Ended \cup Calling
      /\ refused \in RunPC /\ refused \notin Calling \cup Holding \cup {"idle", "claiming", "claimed", "select", "join", "persist", "complete"} \cup Completing
      /\ sent \in RunPC /\ sent \notin Ended \cup Holding \cup {"idle", "claiming", "persist", "complete", "recomplete"}
  BY DEF Ended, Calling, RunPC, Holding, Completing
<1>4. CASE can
  <2>1. PICK s : s = [p EXCEPT !.pc = sent, !.saw = Absent, !.call = Message(r, "cas", t, rec, next)]
    OBVIOUS
  <2>2. /\ s.call = Message(r, "cas", t, rec, next) /\ s.pc = sent /\ s.work = "none" /\ s.renew = "none"
    BY <1>1, <1>2, <2>1 DEF RunType
  <2>3. s.seq = p.seq /\ s.saw = Absent
    BY <1>1, <2>1 DEF RunType
  <2>4. CompareAndSet(r, t, next) /\ run' = [run EXCEPT ![r] = s] /\ UNCHANGED <<conv, canc, receipt, lock, claimant>>
    BY <1>3, <1>4, <2>1, <2>2 DEF Attempt, Moves, Others, Tidy
  <2>5. run'[r] = s
    BY <2>4, RunnerFields
  <2>6. Forth(p, s)
    <3>1. Doomed(p) => Doomed(s)
      BY <1>2, <2>2 DEF Doomed
    <3>2. ~Early(s)
      BY <2>2 DEF Early, Calling
    <3> QED
      BY <1>3, <2>2, <2>3, <3>1, <3>2 DEF Forth, Ended
  <2>7. Guards(r, p, s)
    BY <1>3, <2>2, <2>4 DEF Guards
  <2>8. s.call.kind = "cas" /\ s.call.expect = rec /\ s.call.next = next
    BY <2>2 DEF Message
  <2>9. Made(s)
    BY <1>4, <2>2, <2>8 DEF Made, Completing
  <2>10. ~Waits(p) /\ Waits(s)
    BY <1>2, <1>3, <2>2 DEF Waits
  <2>11. next.state = "committing" => rec.owner = r /\ ~Early(p) /\ ~Doomed(p)
    BY <1>2, <1>4 DEF Early, Doomed
  <2>12. Sends(r, p, s, t, next)
    BY <1>4, <2>2, <2>3, <2>4, <2>9, <2>10, <2>11 DEF Sends
  <2> QED
    BY <1>1, <1>4, <2>4, <2>5, <2>6, <2>7, <2>12 DEF RunnerMoves
<1>5. CASE ~can
  <2>1. PICK s : s = [p EXCEPT !.pc = refused, !.saw = Absent]
    OBVIOUS
  <2>2. s.pc = refused /\ s.work = p.work /\ s.renew = p.renew /\ s.call = p.call /\ s.seq = p.seq
    BY <1>1, <2>1 DEF RunType
  <2>3. s \in RunType /\ s.saw = Absent
    BY <1>1, <1>3, <2>1 DEF RunType
  <2>4. run' = [run EXCEPT ![r] = Tidy(s)] /\ Local /\ UNCHANGED <<conv, canc, receipt, lock>>
    BY <1>5, <2>1 DEF Attempt, Moves, Others
  <2>5. Doomed(p) => Doomed(s) /\ s.pc # "done" /\ s.pc # "duplicate"
    BY <1>2, <2>2 DEF Doomed
  <2>6. Guards(r, p, s)
    BY <1>3, <2>2, <2>4 DEF Guards
  <2> QED
    BY <1>1, <1>3, <2>2, <2>3, <2>4, <2>5, <2>6, PlaceMoves
<1> QED
  BY <1>4, <1>5

LEMMA MutationsMove ==
    ASSUME ClientInv, NEW r \in Runners, SettleRegistrationFailure(r) \/ Authority(r) \/ Mark(r) \/ Begin(r)
    PROVE  RunnerMoves(r, run[r], run'[r])
<1>1. PICK p : p = run[r] /\ p \in RunType
  BY RunnerFields
<1>2. /\ {"settling", "acking", "failing", "marking", "beginning"} \subseteq Calling \ Completing
      /\ rec \in Record /\ \A t \in Reading : t \in Nat
  BY ReadingType DEF Calling, Completing, ClientInv, StoreInv, StoreTypeOK
<1>3. ASSUME NEW t \in Reading, NEW sent \in {"settling", "acking"}, p.pc = "settle" \/ (p.pc = "authority" /\ sent = "acking"),
             Attempt(r, CanAcknowledgeCancelled(rec, r, t), AcknowledgeCancelled(rec, t), t, sent, "error")
      PROVE  RunnerMoves(r, p, run'[r])
  <2>1. PICK next : next = AcknowledgeCancelled(rec, t) /\ next \in Record /\ next.state = "cancelled" /\ Counts(next) = Counts(rec)
    <3>1. PICK e \in {"failed", "cancelled"} : e = "cancelled"
      OBVIOUS
    <3>2. PICK next : next = Stamp(Settle(rec, e), t)
      OBVIOUS
    <3>3. next \in Record /\ next.state = e /\ Counts(next) = Counts(rec)
      BY <1>2, <3>2, SettleWrites
    <3> QED
      BY <3>1, <3>2, <3>3 DEF AcknowledgeCancelled
  <2>2. PICK can : can <=> CanAcknowledgeCancelled(rec, r, t)
    OBVIOUS
  <2>3. can => rec.state = "cancelling"
    BY <2>2 DEF CanAcknowledgeCancelled
  <2>4. Attempt(r, can, next, t, sent, "error")
    BY <1>3, <2>1, <2>2 DEF Attempt
  <2> QED
    BY <1>1, <1>2, <1>3, <2>1, <2>3, <2>4, AttemptMoves
<1>4. ASSUME NEW t \in Reading, NEW sent \in {"settling", "failing"}, p.pc = "settle" \/ (p.pc = "authority" /\ sent = "failing"),
             Attempt(r, CanFailRunning(rec, r, t), Fail(rec, t), t, sent, "error")
      PROVE  RunnerMoves(r, p, run'[r])
  <2>1. PICK next : next = Fail(rec, t) /\ next \in Record /\ next.state = "failed" /\ Counts(next) = Counts(rec)
    <3>1. PICK e \in {"failed", "cancelled"} : e = "failed"
      OBVIOUS
    <3>2. PICK next : next = Stamp(Settle(rec, e), t)
      OBVIOUS
    <3>3. next \in Record /\ next.state = e /\ Counts(next) = Counts(rec)
      BY <1>2, <3>2, SettleWrites
    <3> QED
      BY <3>1, <3>2, <3>3 DEF Fail
  <2>2. PICK can : can <=> CanFailRunning(rec, r, t)
    OBVIOUS
  <2>3. can => rec.state = "running"
    BY <2>2 DEF CanFailRunning
  <2>4. Attempt(r, can, next, t, sent, "error")
    BY <1>4, <2>1, <2>2 DEF Attempt
  <2> QED
    BY <1>1, <1>2, <1>4, <2>1, <2>3, <2>4, AttemptMoves
<1>5. ASSUME NEW t \in Reading, NEW sent, NEW refused \in {"error", "cancelled", "failed"}, p.pc \in {"settle", "authority"},
             Attempt(r, FALSE, rec, t, sent, refused), refused # "error" => p.saw.state = refused
      PROVE  RunnerMoves(r, p, run'[r])
  <2>1. Attempt(r, FALSE, rec, t, "acking", refused)
    BY <1>5 DEF Attempt
  <2> QED
    BY <1>1, <1>2, <1>5, <2>1, AttemptMoves
<1>6. CASE SettleRegistrationFailure(r)
  <2>1. PICK t \in Reading :
           \/ Attempt(r, CanAcknowledgeCancelled(rec, r, t), AcknowledgeCancelled(rec, t), t, "settling", "error")
           \/ Attempt(r, CanFailRunning(rec, r, t), Fail(rec, t), t, "settling", "error")
           \/ Attempt(r, FALSE, rec, t, "settling", "error")
    BY <1>6, Zenon DEF SettleRegistrationFailure
  <2>2. p.pc = "settle"
    BY <1>1, <1>6, Zenon DEF SettleRegistrationFailure
  <2> QED
    BY <1>1, <1>3, <1>4, <1>5, <2>1, <2>2
<1>7. CASE Authority(r)
  <2>1. PICK t \in Reading :
           CASE run[r].saw.state = "cancelling" ->
                   Attempt(r, CanAcknowledgeCancelled(rec, r, t), AcknowledgeCancelled(rec, t), t, "acking", "error")
             [] RunningLeaseAuthorized(run[r].saw, r, t) ->
                   Attempt(r, CanFailRunning(rec, r, t), Fail(rec, t), t, "failing", "error")
             [] OTHER ->
                   Attempt(r, FALSE, rec, t, "error",
                           IF run[r].saw.state \in {"cancelled", "failed"} THEN run[r].saw.state ELSE "error")
    BY <1>7, Zenon DEF Authority
  <2>2. PICK refused \in {"error", "cancelled", "failed"} :
           /\ refused = IF run[r].saw.state \in {"cancelled", "failed"} THEN run[r].saw.state ELSE "error"
           /\ refused # "error" => p.saw.state = refused
    BY <1>1
  <2>3. \/ Attempt(r, CanAcknowledgeCancelled(rec, r, t), AcknowledgeCancelled(rec, t), t, "acking", "error")
        \/ Attempt(r, CanFailRunning(rec, r, t), Fail(rec, t), t, "failing", "error")
        \/ Attempt(r, FALSE, rec, t, "error", refused)
    BY <2>1, <2>2
  <2>4. p.pc = "authority"
    BY <1>1, <1>7, Zenon DEF Authority
  <2> QED
    BY <1>1, <1>3, <1>4, <1>5, <2>2, <2>3, <2>4
<1>8. CASE Mark(r)
  <2>1. PICK t \in Reading : Attempt(r, ~run[r].ctx /\ CanMarkModelDone(rec, r, TheModel, run[r].seq, t),
                                     MarkModelDone(rec, TheModel, t), t, "marking", "finish")
    BY <1>8 DEF Mark
  <2>2. PICK can : can <=> ~run[r].ctx /\ CanMarkModelDone(rec, r, TheModel, run[r].seq, t)
    OBVIOUS
  <2>3. can => rec.state = "running"
    BY <2>2 DEF CanMarkModelDone
  <2>4. PICK next : next = MarkModelDone(rec, TheModel, t) /\ next \in Record /\ next.state = rec.state /\ Counts(next) = Counts(rec)
    BY <1>2, DoneWrites
  <2>5. Attempt(r, can, next, t, "marking", "finish")
    BY <2>1, <2>2, <2>4 DEF Attempt
  <2>6. p.pc = "mark"
    BY <1>1, <1>8 DEF Mark
  <2> QED
    BY <1>1, <1>2, <2>3, <2>4, <2>5, <2>6, AttemptMoves
<1>9. CASE Begin(r)
  <2>1. PICK t \in Reading : Attempt(r, ~run[r].ctx /\ CanBeginCommit(rec, r, t), BeginCommit(rec, t), t, "beginning", "finish")
    BY <1>9 DEF Begin
  <2>2. PICK can : can <=> ~run[r].ctx /\ CanBeginCommit(rec, r, t)
    OBVIOUS
  <2>3. can => rec.state = "running" /\ rec.owner = r
    BY <2>2 DEF CanBeginCommit, Owned, OwnedMutationAuthorized
  <2>4. PICK next : next = BeginCommit(rec, t) /\ next \in Record /\ next.state = "committing" /\ Counts(next) = Counts(rec)
    BY <1>2, CommitWrites
  <2>5. Attempt(r, can, next, t, "beginning", "finish")
    BY <2>1, <2>2, <2>4 DEF Attempt
  <2>6. p.pc = "begin"
    BY <1>1, <1>9 DEF Begin
  <2> QED
    BY <1>1, <1>2, <2>3, <2>4, <2>5, <2>6, AttemptMoves
<1> QED
  BY <1>1, <1>6, <1>7, <1>8, <1>9

LEMMA CompletionsMove ==
    ASSUME ClientInv, NEW r \in Runners, CompleteGeneration(r) \/ Recomplete(r)
    PROVE  RunnerMoves(r, run[r], run'[r])
<1>1. PICK p : p = run[r] /\ p \in RunType
  BY RunnerFields
<1>2. /\ Completing \subseteq Calling /\ "acking" \notin Completing /\ "failing" \notin Completing
      /\ rec \in Record /\ \A t \in Reading : t \in Nat
  BY ReadingType DEF Calling, Completing, ClientInv, StoreInv, StoreTypeOK
<1>3. ASSUME NEW t \in Reading, NEW can, can => CanComplete(rec, MessageOf(r), t), NEW sent \in Completing,
             NEW refused \in {"error", "recomplete", "report"}, p.pc \in {"complete", "recomplete"},
             Attempt(r, can, Complete(rec, MessageOf(r), t), t, sent, refused), refused = "report" => rec.state = "completed"
      PROVE  RunnerMoves(r, p, run'[r])
  <2>1. \A n \in DOMAIN MessageOf(r) : MessageOf(r)[n] \in Guids
    BY CallersApart DEF MessageOf
  <2>2. PICK next : next = Complete(rec, MessageOf(r), t) /\ next \in Record /\ next.state = "completed" /\ Counts(next) = Counts(rec)
    BY <1>2, <2>1, CompleteWrites
  <2>3. can => rec.state = "committing"
    BY <1>3 DEF CanComplete
  <2>4. Attempt(r, can, next, t, sent, refused)
    BY <1>3, <2>2
  <2> QED
    BY <1>1, <1>2, <1>3, <2>2, <2>3, <2>4, AttemptMoves
<1>4. CASE CompleteGeneration(r)
  <2>1. PICK t \in Reading : Attempt(r, ~run[r].ctx /\ CanComplete(rec, MessageOf(r), t),
                                     Complete(rec, MessageOf(r), t), t, "completing", "recomplete")
    BY <1>4 DEF CompleteGeneration
  <2>2. p.pc = "complete" /\ "completing" \in Completing
    BY <1>1, <1>4 DEF CompleteGeneration, Completing
  <2> QED
    BY <1>1, <1>3, <2>1, <2>2
<1>5. CASE Recomplete(r)
  <2>1. PICK t \in Reading : Attempt(r, CanComplete(rec, MessageOf(r), t), Complete(rec, MessageOf(r), t), t, "recompleting",
                IF rec.state = "completed" /\ GuidMapMatches(rec, MessageOf(r)) THEN "report" ELSE "error")
    BY <1>5 DEF Recomplete
  <2>2. PICK refused \in {"report", "error"} :
           /\ refused = IF rec.state = "completed" /\ GuidMapMatches(rec, MessageOf(r)) THEN "report" ELSE "error"
           /\ refused = "report" => rec.state = "completed"
    OBVIOUS
  <2>3. p.pc = "recomplete" /\ "recompleting" \in Completing
    BY <1>1, <1>5 DEF Recomplete, Completing
  <2> QED
    BY <1>1, <1>3, <2>1, <2>2, <2>3
<1> QED
  BY <1>1, <1>4, <1>5

\* A goroutine of the stream calls, or goes without.
LEMMA StreamsMove ==
    ASSUME ClientInv, NEW r \in Runners, DeltaStarts(r) \/ RenewStarts(r)
    PROVE  RunnerMoves(r, run[r], run'[r])
<1>1. PICK p : p = run[r] /\ p \in RunType /\ RunnerSound(r, p, flights, issued, now)
  BY RunnerFields
<1>2. rec \in Record /\ Absent \in Record
  BY AbsentType DEF ClientInv, StoreInv, StoreTypeOK
<1>3. p.pc \in {"select", "join"}
  <2>1. p.pc \in {"select", "join"} \/ p.renew = "armed"
    BY <1>1, Zenon DEF DeltaStarts, RenewStarts, Streaming
  <2> QED
    BY <1>1, <2>1 DEF RunnerSound
<1>4. p.pc \notin Calling \cup {"idle", "claiming", "cancelled", "failed", "report", "done"} \cup Ended /\ Early(p)
  BY <1>3 DEF Calling, Ended, Early
<1>5. \A s : s.pc = p.pc /\ UNCHANGED <<lock, receipt>> => Guards(r, p, s)
  BY <1>3 DEF Guards, Holding, Completing
<1>6. ASSUME NEW t \in Nat, NEW next \in Record, CompareAndSet(r, t, next), NEW s, s.call = Message(r, "cas", t, rec, next),
             run'[r] = s, UNCHANGED <<conv, canc, receipt, lock, claimant>>, s.pc = p.pc, s.seq = p.seq, s.saw = p.saw,
             s.work = "delta" \/ s.renew = "renewing", p.work # "delta" /\ p.renew # "renewing",
             p.work = "bad" => s.work = "bad", rec.state = "running", next.state = "running",
             s.work = "delta" => rec.owner = r /\ Counts(rec) = p.seq /\ Counts(next) = p.seq + 1,
             s.work # "delta" => Counts(next) = Counts(rec)
      PROVE  RunnerMoves(r, p, run'[r])
  <2>1. Forth(p, s)
    BY <1>3, <1>4, <1>6 DEF Forth, Doomed, Early
  <2>2. Made(s)
    BY <1>4, <1>6 DEF Made, Calling
  <2>3. Sends(r, p, s, t, next)
    BY <1>3, <1>4, <1>6, <2>2 DEF Sends, Waits
  <2> QED
    BY <1>5, <1>6, <2>1, <2>3 DEF RunnerMoves
<1>7. ASSUME NEW s \in RunType, run' = [run EXCEPT ![r] = Tidy(s)], Local, UNCHANGED <<conv, canc, receipt, lock>>,
             s.pc = p.pc, s.seq = p.seq, s.call = p.call, s.saw \in {p.saw, rec, Absent},
             s.work # p.work => s.work = "bad" /\ p.work = "stream",
             s.renew # p.renew => s.renew = "failed" /\ p.renew = "armed"
      PROVE  RunnerMoves(r, p, run'[r])
  <2>1. Guards(r, p, s)
    BY <1>5, <1>7
  <2>2. (Doomed(p) => Doomed(s)) /\ (~Early(p) => ~Early(s))
    BY <1>3, <1>4, <1>7 DEF Doomed, Early
  <2>3. s.pc \notin Ended \cup {"done", "duplicate", "report", "cancelled", "failed"}
    BY <1>3, <1>4, <1>7
  <2>4. UNCHANGED <<conv, canc>> /\ p.pc \notin {"idle", "claiming"} \cup Ended
    BY <1>4, <1>7
  <2> QED
    BY <1>1, <1>7, <2>1, <2>2, <2>3, <2>4, PassMoves
<1>8. CASE DeltaStarts(r)
  <2>1. p.work = "stream" /\ p.renew # "renewing"
    BY <1>1, <1>8, Zenon DEF DeltaStarts
  <2>2. PICK t \in Reading :
          IF ~p.ctx /\ CanRecordDelta(rec, r, TheModel, p.seq + 1, t)
          THEN /\ CompareAndSet(r, t, RecordDelta(rec, TheModel, p.seq + 1, t))
               /\ Moves(r, [p EXCEPT !.work = "delta",
                               !.call = Message(r, "cas", t, rec, RecordDelta(rec, TheModel, p.seq + 1, t))])
               /\ UNCHANGED <<claimant, spent>>
          ELSE Moves(r, [p EXCEPT !.work = "bad"]) /\ Local
    BY <1>1, <1>8, Zenon DEF DeltaStarts
  <2>3. t \in Nat /\ p.seq \in Nat
    BY <1>1, ReadingType DEF RunType
  <2>4. CASE ~p.ctx /\ CanRecordDelta(rec, r, TheModel, p.seq + 1, t)
    <3>1. PICK next : next = RecordDelta(rec, TheModel, p.seq + 1, t)
      OBVIOUS
    <3>2. next \in Record /\ next.state = rec.state /\ Counts(next) = p.seq + 1
      <4>1. PICK k \in Nat : k = p.seq + 1
        BY <2>3
      <4>2. next = RecordDelta(rec, TheModel, k, t)
        BY <3>1, <4>1
      <4> QED
        BY <1>2, <2>3, <4>1, <4>2, DeltaWrites
    <3>3. rec.state = "running" /\ rec.owner = r /\ Counts(rec) = p.seq
      <4>1. rec.model[TheModel].seq \in Nat
        BY <1>2, RecordFields, TheModelType DEF Entry
      <4> QED
        BY <2>3, <2>4, <4>1 DEF CanRecordDelta, Owned, OwnedMutationAuthorized, Counts
    <3>4. PICK s : s = [p EXCEPT !.work = "delta", !.call = Message(r, "cas", t, rec, next)]
      OBVIOUS
    <3>5. s.call = Message(r, "cas", t, rec, next) /\ s.pc = p.pc /\ s.work = "delta" /\ s.renew = p.renew
      BY <1>1, <3>4 DEF RunType
    <3>6. s.seq = p.seq /\ s.saw = p.saw
      BY <1>1, <3>4 DEF RunType
    <3>7. CompareAndSet(r, t, next) /\ run' = [run EXCEPT ![r] = s] /\ UNCHANGED <<conv, canc, receipt, lock, claimant>>
      BY <1>4, <2>2, <2>4, <3>1, <3>4, <3>5 DEF Moves, Others, Tidy
    <3>8. run'[r] = s
      BY <3>7, RunnerFields
    <3> QED
      BY <1>1, <1>6, <2>1, <2>3, <3>2, <3>3, <3>5, <3>6, <3>7, <3>8
  <2>5. CASE ~(~p.ctx /\ CanRecordDelta(rec, r, TheModel, p.seq + 1, t))
    <3>1. PICK s : s = [p EXCEPT !.work = "bad"]
      OBVIOUS
    <3>2. s \in RunType /\ s.pc = p.pc /\ s.work = "bad" /\ s.renew = p.renew
      BY <1>1, <3>1 DEF RunType
    <3>3. s.seq = p.seq /\ s.saw = p.saw /\ s.call = p.call
      BY <1>1, <3>1 DEF RunType
    <3>4. run' = [run EXCEPT ![r] = Tidy(s)] /\ Local /\ UNCHANGED <<conv, canc, receipt, lock>>
      BY <2>2, <2>5, <3>1 DEF Moves, Others
    <3> QED
      BY <1>1, <1>7, <2>1, <3>2, <3>3, <3>4
  <2> QED
    BY <2>4, <2>5
<1>9. CASE RenewStarts(r)
  <2>1. p.work # "delta" /\ p.renew = "armed"
    BY <1>1, <1>9, Zenon DEF RenewStarts
  <2>2. PICK t : t = p.rt /\ t \in Nat
    BY <1>1 DEF RunType
  <2>3. IF ~p.stop /\ CanRenewLease(rec, r, t)
        THEN /\ CompareAndSet(r, t, RenewLease(rec, t))
             /\ Moves(r, [p EXCEPT !.renew = "renewing", !.call = Message(r, "cas", t, rec, RenewLease(rec, t))])
             /\ UNCHANGED <<claimant, spent>>
        ELSE /\ Moves(r, [p EXCEPT !.renew = "failed", !.saw = IF p.stop THEN Absent ELSE rec])
             /\ Local
    BY <1>1, <1>9, <2>2, Zenon DEF RenewStarts
  <2>4. CASE ~p.stop /\ CanRenewLease(rec, r, t)
    <3>1. PICK next : next = RenewLease(rec, t)
      OBVIOUS
    <3>2. next \in Record /\ next.state = rec.state /\ Counts(next) = Counts(rec)
      BY <1>2, <2>2, <3>1, RenewWrites
    <3>3. rec.state = "running"
      BY <2>4 DEF CanRenewLease, RunningLeaseAuthorized
    <3>4. PICK s : s = [p EXCEPT !.renew = "renewing", !.call = Message(r, "cas", t, rec, next)]
      OBVIOUS
    <3>5. s.call = Message(r, "cas", t, rec, next) /\ s.pc = p.pc /\ s.renew = "renewing" /\ s.work = p.work
      BY <1>1, <3>4 DEF RunType
    <3>6. s.seq = p.seq /\ s.saw = p.saw
      BY <1>1, <3>4 DEF RunType
    <3>7. CompareAndSet(r, t, next) /\ run' = [run EXCEPT ![r] = s] /\ UNCHANGED <<conv, canc, receipt, lock, claimant>>
      BY <1>4, <2>3, <2>4, <3>1, <3>4, <3>5 DEF Moves, Others, Tidy
    <3>8. run'[r] = s
      BY <3>7, RunnerFields
    <3> QED
      BY <1>1, <1>6, <2>1, <2>2, <3>2, <3>3, <3>5, <3>6, <3>7, <3>8
  <2>5. CASE ~(~p.stop /\ CanRenewLease(rec, r, t))
    <3>0. PICK saw \in {rec, Absent} : saw = IF p.stop THEN Absent ELSE rec
      OBVIOUS
    <3>1. PICK s : s = [p EXCEPT !.renew = "failed", !.saw = saw]
      OBVIOUS
    <3>2. s \in RunType /\ s.pc = p.pc /\ s.work = p.work /\ s.renew = "failed"
      BY <1>1, <1>2, <3>1 DEF RunType
    <3>3. s.seq = p.seq /\ s.saw = saw /\ s.call = p.call
      BY <1>1, <3>1 DEF RunType
    <3>4. run' = [run EXCEPT ![r] = Tidy(s)] /\ Local /\ UNCHANGED <<conv, canc, receipt, lock>>
      BY <2>3, <2>5, <3>0, <3>1 DEF Moves, Others
    <3> QED
      BY <1>1, <1>7, <2>1, <3>2, <3>3, <3>4
  <2> QED
    BY <2>4, <2>5
<1> QED
  BY <1>1, <1>8, <1>9

----------------------------------------------------------------------------
(* Replies that are heard *)

\* What a reply tells.
LEMMA ReturnsTell ==
    ASSUME NEW f, NEW cut, NEW reply, Returns(f, cut, reply)
    PROVE  /\ \/ Executes(f)
              \/ Lose(f) /\ UNCHANGED claimant
              \/ UNCHANGED <<storeVars, claimant>> /\ spent["delayed"] < MaxDelayed
           /\ reply # "error" => Executes(f)
           /\ reply = "done" => rec = f.expect
<1>1. CASE /\ reply = IF rec = f.expect THEN "done" ELSE "conflict"
           /\ Executes(f) /\ UNCHANGED spent
  BY <1>1
<1>2. CASE reply = "error" /\ cut /\ Lose(f) /\ UNCHANGED <<claimant, spent>>
  BY <1>2
<1>3. CASE reply = "error" /\ Spend("lost", MaxLost) /\ (Executes(f) \/ (Lose(f) /\ UNCHANGED claimant))
  BY <1>3
<1>4. CASE reply = "error" /\ Spend("delayed", MaxDelayed) /\ UNCHANGED <<storeVars, claimant>>
  BY <1>4 DEF Spend
<1> QED
  BY <1>1, <1>2, <1>3, <1>4 DEF Returns

\* A goroutine that hears of its call, or dies in it, told by the state before Tidy.
LEMMA HeardMoves ==
    ASSUME ClientInv, NEW r \in Runners, NEW p, p = run[r], p.pc \notin {"idle"} \cup Ended, p.call # NoCall, Waits(p),
           NEW s \in RunType, run' = [run EXCEPT ![r] = Tidy(s)], UNCHANGED <<conv, canc, receipt>>,
           UNCHANGED lock \/ (lock = r /\ lock' = NoOne /\ s.pc = "dead"),
           s.pc \in Ended \/ (s.call = NoCall /\ ~Waits(s)), s.pc # "done", s.pc # "idle",
           s.pc = p.pc \/ s.pc \notin Calling \cup Holding \cup {"claiming", "complete"},
           s.pc = "recomplete" => p.pc \in Completing,
           \/ Executes(p.call)
           \/ Lose(p.call) /\ UNCHANGED claimant
           \/ UNCHANGED <<storeVars, claimant>> /\ spent["delayed"] < MaxDelayed,
           p.pc = "claiming" => \/ s.pc = "error"
                                \/ s.pc \in {"duplicate", "dead"} /\ (Executes(p.call) \/ Lose(p.call))
                                \/ Landed(p),
           s.pc = "report" => rec.state = "completed" \/ (p.pc \in Completing /\ Landed(p)),
           s.pc = "cancelled" => p.pc = "acking" /\ Landed(p), s.pc = "failed" => p.pc = "failing" /\ Landed(p),
           s.seq = p.seq \/ (p.work = "delta" /\ Landed(p) /\ s.seq = p.seq + 1),
           p.work = "delta" => s.work = "bad" \/ s.pc = "dead" \/ s.seq = p.seq + 1,
           s.pc = "duplicate" => p.pc = "claiming", Doomed(p) => Doomed(s), ~Early(p) => ~Early(s), s.saw \in {p.saw, rec, Absent}
    PROVE  RunnerMoves(r, p, run'[r])
<1>1. PICK q : q = Tidy(s)
  OBVIOUS
<1>2. run'[r] = q
  BY <1>1, RunAfter
<1>3. /\ q.pc = s.pc /\ q.seq = s.seq
      /\ s.pc \notin Ended => q = s
      /\ s.pc \in Ended => q.call = NoCall /\ q.saw = Absent /\ q.work = "none" /\ q.renew = "none"
  BY <1>1, TidyFields
<1>4. /\ p \in RunType /\ RunnerSound(r, p, flights, issued, now) /\ (p.work = "delta" => p.pc \in {"select", "join"})
  BY RunnerFields DEF RunnerSound
<1>5. Ended \cap (Calling \cup Holding \cup Completing \cup {"claiming", "complete", "recomplete", "persist", "select", "join", "claimed"}) = {}
  BY DEF Ended, Calling, Holding, Completing
<1>6. p.pc \in Calling \cup {"claiming", "select", "join"}
  BY <1>4 DEF Waits, RunnerSound
<1>7. p.pc \notin Holding \cup {"persist", "complete", "recomplete"} /\ Completing \subseteq Calling
  BY <1>6 DEF Calling, Holding, Completing
<1>8. Guards(r, p, q)
  <2>1. UNCHANGED lock \/ (lock = r /\ lock' = NoOne /\ q.pc \notin Holding)
    BY <1>3 DEF Holding
  <2>2. q.pc \notin Holding /\ q.pc # "persist"
    BY <1>3, <1>7 DEF Holding
  <2>3. q.pc \in {"complete", "recomplete"} \cup Completing => p.pc \in Completing
    BY <1>3, <1>7
  <2> QED
    BY <2>1, <2>2, <2>3 DEF Guards
<1>9. Doomed(p) => Doomed(q)
  <2>0. p.pc = "claiming" => ~Doomed(p)
    BY <1>4 DEF Doomed, RunnerSound
  <2>1. CASE s.pc \in Ended
    BY <1>3, <2>0, <2>1 DEF Doomed, Ended
  <2> QED
    BY <1>3, <2>1
<1>10. Forth(p, q)
  <2>1. ~Early(p) => ~Early(q)
    BY <1>3 DEF Early
  <2>2. q.saw \in {p.saw, rec, Absent} /\ (q.pc = "error" => q.saw = Absent)
    BY <1>3 DEF Ended
  <2>3. ~Waits(q) \/ s.pc \in Ended
    BY <1>3
  <2>4. q.pc # "claiming"
    BY <1>3, <1>5, <2>3 DEF Waits
  <2> QED
    BY <1>3, <1>9, <2>1, <2>2, <2>4 DEF Forth
<1>11. q.call = NoCall /\ ~Waits(q)
  <2>1. CASE s.pc \in Ended
    BY <1>3, <1>5, <2>1 DEF Waits
  <2> QED
    BY <1>3, <2>1
<1>12. p.pc = "claiming" => \/ q.pc = "error"
                            \/ p.call \notin flights' /\ (q.pc \in {"duplicate", "dead"} \/ Landed(p))
  <2>1. Executes(p.call) \/ Lose(p.call) => p.call \notin flights'
    BY DEF Executes, Lose
  <2>2. Landed(p) => Executes(p.call)
    BY DEF Landed
  <2> QED
    BY <1>3, <2>1, <2>2
<1>13. p.work = "delta" => Doomed(q) \/ q.seq = p.seq + 1
  <2>1. s.pc = "dead" => Doomed(q)
    BY <1>3 DEF Doomed
  <2>2. s.work = "bad" /\ s.pc \notin Ended => Doomed(q)
    BY <1>3 DEF Doomed
  <2>3. s.pc \in Ended /\ s.pc # "duplicate" => Doomed(q)
    BY <1>3 DEF Doomed, Ended
  <2>4. p.work = "delta" => s.pc # "duplicate"
    BY <1>4, <1>5
  <2> QED
    BY <1>3, <2>1, <2>2, <2>3, <2>4
<1>14. Hears(p, q)
  BY <1>3, <1>11, <1>12, <1>13 DEF Hears
<1> QED
  BY <1>2, <1>8, <1>10, <1>14 DEF RunnerMoves

\* Where a reply to Run leads.
Leads(p, reply, pc) ==
    /\ pc \in {"claimed", "duplicate"} => p.pc = "claiming"
    /\ p.pc = "claiming" => pc = IF reply = "done" THEN "claimed" ELSE IF reply = "conflict" THEN "duplicate" ELSE "error"
    /\ pc = "recomplete" => p.pc \in Completing
    /\ pc = "report" => rec.state = "completed" \/ (p.pc \in Completing /\ reply = "done")
    /\ pc = "cancelled" => p.pc = "acking" /\ reply = "done"
    /\ pc = "failed" => p.pc = "failing" /\ reply = "done"
    /\ p.pc \in {"acking", "failing"} => pc \in {"cancelled", "failed", "error"}

\* Run hears of its claim, or of a mutation.
LEMMA RunHearsMove == ASSUME ClientInv, NEW r \in Runners, Claimed(r) \/ CallReturns(r) PROVE RunnerMoves(r, run[r], run'[r])
<1>1. PICK p : p = run[r] /\ p \in RunType /\ RunnerSound(r, p, flights, issued, now)
  BY RunnerFields
<1>2. p.pc \in Calling \cup {"claiming"}
  BY <1>1, Zenon DEF Claimed, CallReturns
<1>3. p.work = "none" /\ p.renew = "none" /\ p.call # NoCall /\ p.pc \notin {"idle"} \cup Ended /\ Waits(p)
  BY <1>1, <1>2 DEF RunnerSound, Calling, Ended, Waits
<1>4. PICK pc \in {"claimed", "duplicate", "error", "begin", "finish", "finalize", "report", "recomplete", "cancelled", "failed"},
           cut \in BOOLEAN, reply \in Replies :
             Returns(p.call, cut, reply) /\ Moves(r, [p EXCEPT !.call = NoCall, !.pc = pc]) /\ Leads(p, reply, pc)
  <2>1. CASE Claimed(r)
    <3>1. PICK reply \in Replies :
                       /\ Returns(p.call, FALSE, reply)
                       /\ Moves(r, [p EXCEPT !.call = NoCall,
                                       !.pc = CASE reply = "done"     -> "claimed"
                                                [] reply = "conflict" -> "duplicate"
                                                [] OTHER              -> "error"])
      BY <1>1, <2>1, Zenon DEF Claimed
    <3>2. PICK pc \in {"claimed", "duplicate", "error"} :
             /\ pc = CASE reply = "done" -> "claimed" [] reply = "conflict" -> "duplicate" [] OTHER -> "error"
             /\ pc = IF reply = "done" THEN "claimed" ELSE IF reply = "conflict" THEN "duplicate" ELSE "error"
      OBVIOUS
    <3>3. Moves(r, [p EXCEPT !.call = NoCall, !.pc = pc])
      BY <3>1, <3>2, Zenon
    <3>4. p.pc = "claiming"
      BY <1>1, <2>1, Zenon DEF Claimed
    <3>5. Leads(p, reply, pc)
      BY <3>2, <3>4 DEF Leads
    <3> QED
      BY <3>1, <3>3, <3>5
  <2>2. CASE CallReturns(r)
    <3>1. PICK reply \in Replies :
                       /\ Returns(p.call, p.ctx /\ p.pc \in {"marking", "beginning", "completing"}, reply)
                       /\ Moves(r, [p EXCEPT !.call = NoCall, !.pc = After(r, p.call, reply)])
      BY <1>1, <2>2, Zenon DEF CallReturns
    <3>2. p.pc \in Calling
      BY <1>1, <2>2, Zenon DEF CallReturns
    <3>3. After(r, p.call, reply) \in {"error", "begin", "finish", "finalize", "report", "recomplete", "cancelled", "failed"}
      BY <1>1, <3>2 DEF After, Calling
    <3>4. Leads(p, reply, After(r, p.call, reply))
      BY <1>1, <3>2 DEF After, Calling, Completing, Leads
    <3>5. (p.ctx /\ p.pc \in {"marking", "beginning", "completing"}) \in BOOLEAN
      OBVIOUS
    <3> QED
      BY <3>1, <3>3, <3>4, <3>5
  <2> QED
    BY <2>1, <2>2
<1>5. PICK s : s = [p EXCEPT !.call = NoCall, !.pc = pc]
  OBVIOUS
<1>6. pc \in RunPC /\ pc \notin Calling \cup Holding \cup {"idle", "claiming", "complete"}
  BY DEF RunPC, Ended, Calling, Holding
<1>7. s \in RunType
  BY <1>1, <1>5, <1>6 DEF RunType
<1>8. s.pc = pc /\ s.call = NoCall /\ s.work = p.work /\ s.renew = p.renew
  BY <1>1, <1>5 DEF RunType
<1>9. s.seq = p.seq /\ s.saw = p.saw
  BY <1>1, <1>5 DEF RunType
<1>10. run' = [run EXCEPT ![r] = Tidy(s)] /\ UNCHANGED <<conv, canc, receipt, lock>>
  BY <1>4, <1>5 DEF Moves, Others
<1>11. ~Waits(s) /\ (Doomed(p) => Doomed(s)) /\ (~Early(p) => ~Early(s))
  <2>1. ~Waits(s)
    BY <1>3, <1>6, <1>8 DEF Waits
  <2>2. Doomed(p) => p.pc \in {"acking", "failing"}
    BY <1>2, <1>3 DEF Doomed, Calling
  <2>3. Doomed(p) => Doomed(s)
    BY <1>4, <1>8, <2>2 DEF Doomed, Leads
  <2>4. ~Early(p) => ~Early(s)
    BY <1>2, <1>4, <1>8 DEF Early, Leads
  <2> QED
    BY <2>1, <2>3, <2>4
<1>12. /\ \/ Executes(p.call)
          \/ Lose(p.call) /\ UNCHANGED claimant
          \/ UNCHANGED <<storeVars, claimant>> /\ spent["delayed"] < MaxDelayed
       /\ reply # "error" => Executes(p.call)
       /\ reply = "done" => Landed(p)
  BY <1>4, ReturnsTell DEF Landed
<1>13. p.pc = "claiming" => \/ s.pc = "error"
                            \/ s.pc \in {"duplicate", "dead"} /\ (Executes(p.call) \/ Lose(p.call))
                            \/ Landed(p)
  BY <1>4, <1>8, <1>12 DEF Leads, Replies
<1>14. /\ s.pc = "report" => rec.state = "completed" \/ (p.pc \in Completing /\ Landed(p))
       /\ s.pc = "cancelled" => p.pc = "acking" /\ Landed(p)
       /\ s.pc = "failed" => p.pc = "failing" /\ Landed(p)
       /\ s.pc = "duplicate" => p.pc = "claiming"
       /\ s.pc = "recomplete" => p.pc \in Completing
  BY <1>4, <1>8, <1>12 DEF Leads
<1>15. /\ s.pc # "done" /\ s.pc # "idle" /\ s.pc \notin Calling \cup Holding \cup {"claiming", "complete"}
       /\ p.work # "delta" /\ s.saw \in {p.saw, rec, Absent}
  BY <1>3, <1>4, <1>6, <1>8, <1>9
<1>16. UNCHANGED <<conv, canc, receipt>> /\ UNCHANGED lock
  BY <1>10
<1> QED
  <2>1. s.call = NoCall /\ s.seq = p.seq /\ run' = [run EXCEPT ![r] = Tidy(s)]
    BY <1>8, <1>9, <1>10
  <2>2. p = run[r]
    BY <1>1
  <2>3. RunnerMoves(r, p, run'[r])
    BY ZenonT(60), <1>3, <1>7, <1>11, <1>12, <1>13, <1>14, <1>15, <1>16, <2>1, <2>2, HeardMoves
  <2> QED
    BY <2>2, <2>3

\* consume or renew hears of its mutation.
LEMMA StreamHearsMove == ASSUME ClientInv, NEW r \in Runners, DeltaReturns(r) \/ RenewReturns(r) PROVE RunnerMoves(r, run[r], run'[r])
<1>1. PICK p : p = run[r] /\ p \in RunType /\ RunnerSound(r, p, flights, issued, now)
  BY RunnerFields
<1>2. now \in Nat /\ RenewEvery \in Nat /\ rec \in Record /\ Absent \in Record
  BY SingleAssumption, AbsentType DEF ClientInv, StoreInv, StoreTypeOK
<1>3. p.call # NoCall /\ p.pc \in {"select", "join"} /\ Waits(p)
  <2>1. p.work = "delta" \/ p.renew = "renewing"
    BY <1>1, Zenon DEF DeltaReturns, RenewReturns
  <2> QED
    BY <1>1, <2>1 DEF RunnerSound, Waits
<1>4. p.pc \notin Calling \cup {"idle", "claiming"} \cup Ended /\ Early(p)
  BY <1>3 DEF Calling, Ended, Early
<1>5. ASSUME NEW s \in RunType, NEW cut, NEW reply, Returns(p.call, cut, reply), run' = [run EXCEPT ![r] = Tidy(s)],
             UNCHANGED <<conv, canc, receipt, lock>>, s.pc = p.pc, s.call = NoCall, s.work # "delta", s.renew # "renewing",
             p.work = "bad" => s.work = "bad", s.saw \in {p.saw, rec, Absent},
             s.seq = p.seq \/ (p.work = "delta" /\ reply = "done" /\ s.seq = p.seq + 1),
             p.work = "delta" => s.work = "bad" \/ s.seq = p.seq + 1
      PROVE  RunnerMoves(r, p, run'[r])
  <2>1. /\ \/ Executes(p.call)
           \/ Lose(p.call) /\ UNCHANGED claimant
           \/ UNCHANGED <<storeVars, claimant>> /\ spent["delayed"] < MaxDelayed
        /\ reply = "done" => Landed(p)
    BY <1>5, ReturnsTell DEF Landed
  <2>2. ~Waits(s)
    BY <1>4, <1>5 DEF Waits
  <2>3. Doomed(p) => Doomed(s)
    BY <1>3, <1>5 DEF Doomed
  <2>4. s.seq = p.seq \/ (p.work = "delta" /\ Landed(p) /\ s.seq = p.seq + 1)
    BY <1>5, <2>1
  <2>5. s.pc \notin {"report", "cancelled", "failed", "done", "idle", "duplicate", "recomplete", "claiming"} /\ p.pc # "claiming"
    BY <1>3, <1>5
  <2> QED
    BY <1>1, <1>3, <1>4, <1>5, <2>1, <2>2, <2>3, <2>4, <2>5, HeardMoves
<1>6. CASE DeltaReturns(r)
  <2>1. PICK cut, reply : /\ Returns(p.call, cut, reply)
                          /\ Moves(r, IF reply = "done" THEN [p EXCEPT !.work = "stream", !.seq = @ + 1, !.call = NoCall]
                                                        ELSE [p EXCEPT !.work = "bad", !.call = NoCall])
    BY <1>1, <1>6 DEF DeltaReturns
  <2>2. p.work = "delta" /\ p.renew # "renewing"
    <3>1. p.work = "delta"
      BY <1>1, <1>6, Zenon DEF DeltaReturns
    <3> QED
      BY <1>1, <3>1 DEF RunnerSound
  <2>3. PICK s : s = IF reply = "done" THEN [p EXCEPT !.work = "stream", !.seq = p.seq + 1, !.call = NoCall]
                                       ELSE [p EXCEPT !.work = "bad", !.call = NoCall]
    OBVIOUS
  <2>4. s.call = NoCall /\ s.pc = p.pc /\ s.renew = p.renew /\ s.work \in {"stream", "bad"}
    BY <1>1, <2>3 DEF RunType
  <2>5. s.saw = p.saw /\ ((s.seq = p.seq /\ s.work = "bad") \/ (reply = "done" /\ s.seq = p.seq + 1))
    BY <1>1, <2>3 DEF RunType
  <2>6. p.seq \in 0..MaxSeq /\ p.seq < MaxSeq
    BY <1>1, <2>2 DEF RunType, RunnerSound
  <2>7. p.seq + 1 \in 0..MaxSeq
    BY <2>6, StoreAssumption
  <2>8. s \in RunType
    BY <1>1, <2>3, <2>7 DEF RunType
  <2>9. run' = [run EXCEPT ![r] = Tidy(s)] /\ UNCHANGED <<conv, canc, receipt, lock>>
    BY <2>1, <2>3 DEF Moves, Others
  <2> QED
    BY <1>1, <1>5, <2>1, <2>2, <2>4, <2>5, <2>8, <2>9
<1>7. CASE RenewReturns(r)
  <2>1. PICK cut, reply : /\ Returns(p.call, cut, reply)
                          /\ Moves(r, [p EXCEPT !.call = NoCall,
                                          !.renew = IF reply = "done" THEN "timer" ELSE "failed",
                                          !.due = now + RenewEvery,
                                          !.saw = IF reply = "conflict" THEN rec ELSE Absent])
    BY <1>1, <1>7, Zenon DEF RenewReturns
  <2>2. p.renew = "renewing" /\ p.work # "delta"
    <3>1. p.renew = "renewing"
      BY <1>1, <1>7, Zenon DEF RenewReturns
    <3> QED
      BY <1>1, <3>1 DEF RunnerSound
  <2>3. PICK ends \in {"timer", "failed"}, saw \in {rec, Absent}, due \in Nat :
          /\ ends = IF reply = "done" THEN "timer" ELSE "failed"
          /\ saw = IF reply = "conflict" THEN rec ELSE Absent
          /\ due = now + RenewEvery
    BY <1>2
  <2>4. PICK s : s = [p EXCEPT !.call = NoCall, !.renew = ends, !.due = due, !.saw = saw]
    OBVIOUS
  <2>5. s.call = NoCall /\ s.pc = p.pc /\ s.renew = ends /\ s.work = p.work
    BY <1>1, <2>4 DEF RunType
  <2>6. s.seq = p.seq /\ s.saw = saw
    BY <1>1, <2>4 DEF RunType
  <2>7. s \in RunType
    BY <1>1, <1>2, <2>4 DEF RunType
  <2>8. run' = [run EXCEPT ![r] = Tidy(s)] /\ UNCHANGED <<conv, canc, receipt, lock>>
    BY <2>1, <2>3, <2>4 DEF Moves, Others
  <2> QED
    BY <1>1, <1>5, <2>1, <2>2, <2>5, <2>6, <2>7, <2>8
<1> QED
  BY <1>1, <1>6, <1>7

\* What a call is for, nobody lost sight of: a call of a runner is one it waits for.
CallsAwaited == \A r \in Runners : run[r].call # NoCall => Waits(run[r])

LEMMA CrashMoves == ASSUME ClientInv, CallsAwaited, NEW r \in Runners, Crash(r) PROVE RunnerMoves(r, run[r], run'[r])
<1>1. PICK p : p = run[r] /\ p \in RunType /\ RunnerSound(r, p, flights, issued, now)
  BY RunnerFields
<1>2. /\ p.pc \notin {"idle"} \cup Ended /\ UNCHANGED <<conv, canc, receipt>>
      /\ UNCHANGED lock \/ (lock = r /\ lock' = NoOne)
      /\ \/ p.call # NoCall /\ Executes(p.call)
         \/ p.call # NoCall /\ Lose(p.call) /\ UNCHANGED claimant
         \/ p.call = NoCall /\ UNCHANGED <<storeVars, claimant>>
  BY <1>1 DEF Crash
<1>3. run' = [run EXCEPT ![r] = Tidy([p EXCEPT !.pc = "dead"])]
  BY <1>1, RunnerFields DEF Crash
<1>4. PICK s : s = [p EXCEPT !.pc = "dead"]
  OBVIOUS
<1>5. s \in RunType /\ s.pc = "dead" /\ s.seq = p.seq
  BY <1>1, <1>4 DEF RunType, RunPC, Ended
<1>6. s.saw = p.saw
  BY <1>1, <1>4 DEF RunType
<1>7. run' = [run EXCEPT ![r] = Tidy(s)] /\ Doomed(s) /\ ~Early(s) /\ s.pc \in Ended
  BY <1>3, <1>4, <1>5 DEF Doomed, Early, Ended
<1>8. "dead" \notin Calling \cup Holding \cup Completing \cup {"claiming", "complete", "recomplete"}
  BY DEF Calling, Holding, Completing
<1>9. CASE p.call # NoCall
  <2>1. Waits(p)
    BY <1>1, <1>9 DEF CallsAwaited
  <2> QED
    BY <1>1, <1>2, <1>5, <1>6, <1>7, <1>8, <1>9, <2>1, HeardMoves
<1>10. CASE p.call = NoCall
  <2>1. p.pc \notin Calling \cup {"claiming"} /\ p.work # "delta" /\ p.renew # "renewing"
    BY <1>1, <1>10 DEF RunnerSound
  <2>2. PICK q : q = Tidy(s)
    OBVIOUS
  <2>3. q.pc = "dead" /\ q.seq = p.seq /\ q.call = NoCall /\ q.saw = Absent /\ q.work = "none" /\ q.renew = "none"
    BY <1>5, <1>7, <2>2, TidyFields
  <2>4. run'[r] = q
    BY <1>5, <1>7, <2>2, RunAfter
  <2>5. Forth(p, q)
    BY <1>2, <2>3 DEF Forth, Doomed, Early
  <2>6. Guards(r, p, q)
    BY <1>2, <1>8, <2>3 DEF Guards, Holding, Completing
  <2>7. Passes(p, q)
    BY <1>2, <1>8, <1>10, <2>1, <2>3 DEF Passes, Ended
  <2> QED
    BY <1>1, <1>2, <2>4, <2>5, <2>6, <2>7 DEF RunnerMoves
<1> QED
  BY <1>1, <1>9, <1>10

\* The table covers every step of a runner but its claim, and the others stay where they are.
LEMMA RunnersMove ==
    ASSUME ClientInv, CallsAwaited, NEW r \in Runners, RunnerStep(r) \/ Abort(r) \/ Crash(r), ~Claim(r)
    PROVE  RunnerMoves(r, run[r], run'[r])
BY RunMoves, StreamMoves, FinalizingMoves, LockingMoves, MutationsMove, CompletionsMove, StreamsMove, RunHearsMove,
   StreamHearsMove, CrashMoves DEF RunnerStep

----------------------------------------------------------------------------
(* What any step does to the record *)

\* A write goes out or is lost, one runs, or time passes.
StoreSide ==
    \/ UNCHANGED <<rec, claimant>> /\ \A f \in flights' \ flights : f.kind # "claim"
    \/ \E f \in flights : Executes(f)
    \/ TimePasses

\* A runner is where it was, but for its context.
Still(p, q) == /\ q.pc = p.pc /\ q.call = p.call /\ q.saw = p.saw
               /\ q.seq = p.seq /\ q.work = p.work /\ q.renew = p.renew

Bystanding ==
    \/ \E v \in Convergers : ConvergerStep(v)
    \/ \E c \in Cancellers : CancellerStep(c)
    \/ \E f \in flights : Stray(f)
    \/ SessionLost \/ DeleteConversation \/ TimePasses \/ UNCHANGED vars

LEMMA QuietSide == ASSUME UNCHANGED <<rec, claimant>>, flights' \subseteq flights PROVE StoreSide
BY DEF StoreSide

LEMMA PostSide ==
    ASSUME NEW p, NEW t, NEW next, CompareAndSet(p, t, next), UNCHANGED claimant
    PROVE  StoreSide
<1>1. flights' = flights \cup {Message(p, "cas", t, rec, next)} /\ rec' = rec
  BY DEF CompareAndSet, Send
<1>2. Message(p, "cas", t, rec, next).kind # "claim"
  BY DEF Message
<1> QED
  BY <1>1, <1>2 DEF StoreSide

LEMMA ReturnsSide == ASSUME NEW f \in flights, NEW cut, NEW reply, Returns(f, cut, reply) PROVE StoreSide
<1>1. Lose(f) /\ UNCHANGED claimant => StoreSide
  BY QuietSide DEF Lose
<1>2. UNCHANGED <<storeVars, claimant>> => StoreSide
  BY QuietSide DEF storeVars
<1>3. Executes(f) => StoreSide
  BY DEF StoreSide
<1> QED
  BY <1>1, <1>2, <1>3, ReturnsTell

LEMMA LocalSide == ASSUME Local PROVE StoreSide
BY QuietSide DEF Local, storeVars

LEMMA ConvergersSide == ASSUME ClientInv, NEW v \in Convergers, ConvergerStep(v) PROVE StoreSide /\ UNCHANGED run
<1>1. ASSUME Observe(v) \/ ConvergerLocks(v) \/ LoadReceipt(v) \/ ConvergerUnlocks(v) PROVE Local /\ UNCHANGED run
  BY <1>1 DEF Observe, ConvergerLocks, LoadReceipt, ConvergerUnlocks, Shifts, Rest
<1>2. ASSUME NEW next, NEW pc, Converges(v, next, pc) PROVE StoreSide /\ UNCHANGED run
  BY <1>2, PostSide DEF Converges, Shifts
<1>3. CASE Decide(v)
  BY <1>2, <1>3, LocalSide DEF Decide, Shifts, Rest
<1>4. CASE ReconcileComplete(v)
  BY <1>2, <1>4, LocalSide DEF ReconcileComplete, Refused, Shifts
<1>5. CASE FailStale(v)
  BY <1>2, <1>5, LocalSide DEF FailStale, Refused, Shifts
<1>6. CASE ConvergerReturns(v)
  <2>1. PICK reply : Returns(conv[v].call, FALSE, reply) /\ conv[v].pc \in {"writing", "resolving"}
    BY <1>6, Zenon DEF ConvergerReturns
  <2>2. conv[v].call \in flights
    BY <2>1 DEF ClientInv, Clients, ConvergerSound, Pending
  <2>3. UNCHANGED run
    BY <1>6 DEF ConvergerReturns, Shifts, Rest
  <2> QED
    BY <2>1, <2>2, <2>3, ReturnsSide
<1> QED
  BY <1>1, <1>3, <1>4, <1>5, <1>6, LocalSide DEF ConvergerStep

LEMMA CancellersSide ==
    ASSUME ClientInv, NEW c \in Cancellers, CancellerStep(c)
    PROVE  StoreSide /\ \A r \in Runners : Still(run[r], run'[r])
<1>1. CASE RequestsCancel(c)
  <2>1. PICK t : SendCancel(c, t)
    BY <1>1 DEF RequestsCancel
  <2>2. flights' = flights \cup {Message(c, "cancel", t, rec, CancelTo(rec, t))} /\ rec' = rec
    BY <2>1 DEF SendCancel, Send
  <2>3. Message(c, "cancel", t, rec, CancelTo(rec, t)).kind # "claim" /\ UNCHANGED <<run, claimant>>
    BY <1>1 DEF Message, RequestsCancel
  <2> QED
    BY <2>2, <2>3 DEF StoreSide, Still
<1>2. CASE CancelReturns(c)
  <2>1. PICK reply : Returns(canc[c].call, FALSE, reply) /\ canc[c].pc = "asking" /\ UNCHANGED run
    BY <1>2, Zenon DEF CancelReturns
  <2>2. canc[c].call \in flights
    BY <2>1 DEF ClientInv, Clients, CancellerSound, Pending
  <2> QED
    BY <2>1, <2>2, ReturnsSide DEF Still
<1>3. CASE Callback(c)
  <2>1. PICK r \in Runners \cup {NoOwner} :
          run' = IF r \in Runners /\ IsRegistered(r) THEN [run EXCEPT ![r].ctx = TRUE] ELSE run
    BY <1>3 DEF Callback
  <2>2. Local
    BY <1>3 DEF Callback
  <2>3. ASSUME NEW o \in Runners PROVE Still(run[o], run'[o])
    <3>1. PICK p : p = run[o] /\ p \in RunType
      BY RunnerFields
    <3>2. PICK q : q = [p EXCEPT !.ctx = TRUE]
      OBVIOUS
    <3>3. q.pc = p.pc /\ q.call = p.call /\ q.saw = p.saw
      BY <3>1, <3>2 DEF RunType
    <3>4. q.seq = p.seq /\ q.work = p.work /\ q.renew = p.renew
      BY <3>1, <3>2 DEF RunType
    <3>5. run'[o] = p \/ run'[o] = q
      BY <2>1, <3>1, <3>2, RunnerFields
    <3> QED
      BY <3>1, <3>3, <3>4, <3>5 DEF Still
  <2> QED
    BY <2>2, <2>3, LocalSide
<1> QED
  BY <1>1, <1>2, <1>3 DEF CancellerStep

LEMMA BystandersSide ==
    ASSUME ClientInv, Bystanding
    PROVE  StoreSide /\ \A r \in Runners : Still(run[r], run'[r])
<1>0. UNCHANGED run => \A r \in Runners : Still(run[r], run'[r])
  BY DEF Still
<1>1. ASSUME NEW v \in Convergers, ConvergerStep(v) PROVE StoreSide /\ UNCHANGED run
  BY <1>1, ConvergersSide
<1>2. ASSUME NEW c \in Cancellers, CancellerStep(c) PROVE StoreSide /\ \A r \in Runners : Still(run[r], run'[r])
  BY <1>2, CancellersSide
<1>3. ASSUME NEW f \in flights, Stray(f) PROVE StoreSide /\ UNCHANGED run
  <2>1. Lose(f) /\ UNCHANGED claimant => StoreSide
    BY QuietSide DEF Lose
  <2> QED
    BY <1>3, <2>1 DEF Stray, StoreSide
<1>4. ASSUME SessionLost \/ DeleteConversation PROVE StoreSide /\ UNCHANGED run
  <2>1. UNCHANGED <<storeVars, run, claimant>>
    BY <1>4 DEF SessionLost, DeleteConversation
  <2> QED
    BY <2>1, QuietSide DEF storeVars
<1>5. ASSUME TimePasses PROVE StoreSide /\ UNCHANGED run
  BY <1>5 DEF TimePasses, StoreSide
<1>6. ASSUME UNCHANGED vars PROVE StoreSide /\ UNCHANGED run
  BY <1>6, QuietSide DEF vars, storeVars
<1> QED
  BY <1>0, <1>1, <1>2, <1>3, <1>4, <1>5, <1>6 DEF Bystanding

LEMMA MovesSide ==
    ASSUME ClientInv, NEW r \in Runners, NEW q, RunnerMoves(r, run[r], q)
    PROVE  StoreSide
<1>1. PICK p : p = run[r] /\ RunnerSound(r, p, flights, issued, now)
  BY RunnerFields
<1>2. CASE Passes(p, q)
  BY <1>2, QuietSide DEF Passes, storeVars
<1>3. CASE Hears(p, q)
  <2>1. p.call \in flights
    BY <1>1, <1>3 DEF Hears, RunnerSound, Pending
  <2>2. Lose(p.call) /\ UNCHANGED claimant => StoreSide
    BY QuietSide DEF Lose
  <2>3. UNCHANGED <<storeVars, claimant>> => StoreSide
    BY QuietSide DEF storeVars
  <2>4. Executes(p.call) => StoreSide
    BY <2>1 DEF StoreSide
  <2> QED
    BY <1>3, <2>2, <2>3, <2>4 DEF Hears
<1>4. ASSUME NEW t \in Nat, NEW next \in Record, Sends(r, p, q, t, next) PROVE StoreSide
  BY <1>4, PostSide DEF Sends
<1> QED
  BY <1>1, <1>2, <1>3, <1>4 DEF RunnerMoves

\* Of a step of a runner the other runners see nothing.
LEMMA OthersStill ==
    ASSUME ClientInv, NEW r \in Runners, RunnerStep(r) \/ Abort(r) \/ Crash(r)
    PROVE  \A o \in Runners \ {r} : run'[o] = run[o]
<1>1. ASSUME NEW s, run' = [run EXCEPT ![r] = s] PROVE \A o \in Runners \ {r} : run'[o] = run[o]
  BY <1>1, RunnerFields
<1>2. ASSUME NEW s, Moves(r, s) PROVE \A o \in Runners \ {r} : run'[o] = run[o]
  BY <1>1, <1>2 DEF Moves
<1>3. ASSUME NEW pc, Goes(r, pc) PROVE \A o \in Runners \ {r} : run'[o] = run[o]
  BY <1>2, <1>3 DEF Goes
<1>4. ASSUME NEW can, NEW next, NEW t, NEW sent, NEW refused, Attempt(r, can, next, t, sent, refused)
      PROVE  \A o \in Runners \ {r} : run'[o] = run[o]
  BY <1>2, <1>4 DEF Attempt
<1>5. CASE Claim(r) \/ Claimed(r) \/ Register(r) \/ RegisterFails(r) \/ DeltaReturns(r) \/ UpstreamEnds(r)
  BY <1>2, <1>5, Zenon DEF Claim, Claimed, Register, RegisterFails, DeltaReturns, UpstreamEnds
<1>6. CASE RenewFires(r) \/ RenewStops(r) \/ RenewReturns(r) \/ Select(r) \/ Join(r) \/ Finish(r) \/ Abort(r)
  BY <1>2, <1>6, Zenon DEF RenewFires, RenewStops, RenewReturns, Select, Join, Finish, Abort
<1>7. CASE CallReturns(r) \/ Finalize(r)
  BY <1>2, <1>7, Zenon DEF CallReturns, Finalize
<1>8. CASE SettleRegistrationFailure(r)
  <2>1. PICK can, next, t, sent, refused : Attempt(r, can, next, t, sent, refused)
    BY <1>8, Zenon DEF SettleRegistrationFailure
  <2> QED
    BY <1>4, <2>1
<1>9. CASE Authority(r)
  <2>1. PICK t \in Reading :
           CASE run[r].saw.state = "cancelling" ->
                   Attempt(r, CanAcknowledgeCancelled(rec, r, t), AcknowledgeCancelled(rec, t), t, "acking", "error")
             [] RunningLeaseAuthorized(run[r].saw, r, t) ->
                   Attempt(r, CanFailRunning(rec, r, t), Fail(rec, t), t, "failing", "error")
             [] OTHER ->
                   Attempt(r, FALSE, rec, t, "error",
                           IF run[r].saw.state \in {"cancelled", "failed"} THEN run[r].saw.state ELSE "error")
    BY <1>9, Zenon DEF Authority
  <2>2. PICK can, next, sent, refused : Attempt(r, can, next, t, sent, refused)
    BY <2>1
  <2> QED
    BY <1>4, <2>2
<1>10. CASE Mark(r) \/ Begin(r) \/ CompleteGeneration(r) \/ Recomplete(r)
  BY <1>4, <1>10, Zenon DEF Mark, Begin, CompleteGeneration, Recomplete
<1>11. CASE DeltaStarts(r)
  BY <1>2, <1>11 DEF DeltaStarts
<1>12. CASE RenewStarts(r)
  BY <1>2, <1>12 DEF RenewStarts
<1>13. CASE Preload(r) \/ LockTimesOut(r) \/ Recheck(r) \/ PersistFails(r) \/ Reload(r) \/ Report(r)
  BY <1>3, <1>13, Zenon DEF Preload, LockTimesOut, Recheck, PersistFails, Reload, Report
<1>14. CASE TakesLock(r) \/ Persist(r) \/ Unlock(r) \/ Crash(r)
  BY <1>14, RunnerFields DEF TakesLock, Persist, Unlock, Crash
<1> QED
  BY <1>5, <1>6, <1>7, <1>8, <1>9, <1>10, <1>11, <1>12, <1>13, <1>14 DEF RunnerStep

\* The claim of a runner.
LEMMA ClaimSends ==
    ASSUME ClientInv, NEW r \in Runners, Claim(r)
    PROVE  \E f : /\ flights' = flights \cup {f} /\ UNCHANGED <<rec, claimant, conv, canc, receipt, lock>>
                  /\ UNCHANGED <<expireAt, now>>
                  /\ f.kind = "claim" /\ f.from = r /\ f.expect = Absent /\ f.next.owner = r
                  /\ f.next.model = Untouched("running") /\ f.next.state = "running"
                  /\ r \notin issued
                  /\ run[r].pc = "idle" /\ run'[r].pc = "claiming" /\ run'[r].call = f /\ run'[r].saw = run[r].saw
                  /\ run'[r].seq = run[r].seq /\ run'[r].work = run[r].work /\ run'[r].renew = run[r].renew
<1>1. PICK t \in Reading : /\ SendClaim(r, r, t)
                           /\ Moves(r, [run[r] EXCEPT !.pc = "claiming", !.call = Message(r, "claim", t, Absent, NewRunning(r, t))])
  BY Zenon DEF Claim
<1>2. run[r].pc = "idle" /\ UNCHANGED claimant
  BY Zenon DEF Claim
<1>3. PICK f : f = Message(r, "claim", t, Absent, NewRunning(r, t))
  OBVIOUS
<1>4. /\ flights' = flights \cup {f} /\ r \notin issued /\ UNCHANGED <<rec, expireAt, now>>
      /\ f.kind = "claim" /\ f.from = r /\ f.expect = Absent /\ f.next = NewRunning(r, t)
  BY <1>1, <1>3 DEF SendClaim, Send, Message
<1>5. f.next.owner = r /\ f.next.model = Untouched("running") /\ f.next.state = "running"
  BY <1>4 DEF NewRunning
<1>6. PICK p : p = run[r] /\ p \in RunType
  BY RunnerFields
<1>7. PICK s : s = [p EXCEPT !.pc = "claiming", !.call = f]
  OBVIOUS
<1>8. s.pc = "claiming" /\ s.call = f /\ s.saw = p.saw
  BY <1>6, <1>7 DEF RunType
<1>9. s.seq = p.seq /\ s.work = p.work /\ s.renew = p.renew
  BY <1>6, <1>7 DEF RunType
<1>10. run' = [run EXCEPT ![r] = s] /\ UNCHANGED <<conv, canc, receipt, lock>>
  BY <1>1, <1>3, <1>6, <1>7, <1>8 DEF Moves, Others, Tidy, Ended
<1>11. run'[r] = s
  BY <1>10, RunnerFields
<1> QED
  BY <1>2, <1>4, <1>5, <1>6, <1>8, <1>9, <1>10, <1>11

\* What happens in a step: a claim is sent, a runner moves, or the runners stand still.
LEMMA StepKinds ==
    ASSUME ClientInv, CallsAwaited, [Next]_vars
    PROVE  \/ \E r \in Runners : Claim(r) /\ \A o \in Runners \ {r} : run'[o] = run[o]
           \/ \E r \in Runners : RunnerMoves(r, run[r], run'[r]) /\ StoreSide /\ \A o \in Runners \ {r} : run'[o] = run[o]
           \/ Bystanding /\ StoreSide /\ \A r \in Runners : Still(run[r], run'[r])
<1>1. ASSUME NEW r \in Runners, RunnerStep(r) \/ Abort(r) \/ Crash(r), ~Claim(r)
      PROVE  RunnerMoves(r, run[r], run'[r]) /\ StoreSide /\ \A o \in Runners \ {r} : run'[o] = run[o]
  BY <1>1, RunnersMove, MovesSide, OthersStill
<1>2. ASSUME NEW r \in Runners, Claim(r) PROVE \A o \in Runners \ {r} : run'[o] = run[o]
  BY <1>2, OthersStill DEF RunnerStep
<1>3. (\E r \in Runners : RunnerStep(r) \/ Abort(r) \/ Crash(r)) \/ Bystanding
  BY Zenon DEF Next, Bystanding
<1> QED
  BY <1>1, <1>2, <1>3, BystandersSide

LEMMA CallsAwaitedKeep == ASSUME ClientInv, CallsAwaited, [Next]_vars PROVE CallsAwaited'
<1>1. ASSUME NEW r \in Runners, Claim(r) PROVE run'[r].call # NoCall => Waits(run'[r])
  BY <1>1, ClaimSends DEF Waits
<1>2. ASSUME NEW r \in Runners, RunnerMoves(r, run[r], run'[r]), run'[r].call # NoCall PROVE Waits(run'[r])
  <2>1. PICK p, q : p = run[r] /\ q = run'[r]
    OBVIOUS
  <2>2. CASE Passes(p, q)
    BY <1>2, <2>1, <2>2 DEF Passes, Waits, CallsAwaited
  <2>3. CASE Hears(p, q)
    BY <1>2, <2>1, <2>3 DEF Hears
  <2>4. CASE \E t \in Nat, next \in Record : Sends(r, p, q, t, next)
    BY <2>1, <2>4 DEF Sends
  <2> QED
    BY <1>2, <2>1, <2>2, <2>3, <2>4 DEF RunnerMoves
<1>3. ASSUME NEW r \in Runners, run'[r] = run[r] \/ Still(run[r], run'[r]), run'[r].call # NoCall PROVE Waits(run'[r])
  BY <1>3 DEF Still, Waits, CallsAwaited
<1>4. \A r \in Runners : run'[r].call # NoCall => Waits(run'[r])
  BY <1>1, <1>2, <1>3, StepKinds
<1> QED
  BY <1>4 DEF CallsAwaited, Waits

----------------------------------------------------------------------------
(* What a runner told stays true *)

LEMMA AbsentOrLive == ASSUME ClientInv PROVE /\ rec.state = "absent" <=> rec = Absent
                                             /\ rec.state # "absent" => Live(rec)
                                             /\ \A f \in flights : f.kind = "claim" => Live(f.next) /\ f.next.state = "running"
<1>1. rec.state # "absent" => Live(rec)
  BY LiveUnlessAbsent DEF ClientInv
<1>2. rec.state = "absent" => rec = Absent
  BY LiveState DEF ClientInv, StoreInv, Live
<1> QED
  BY <1>1, <1>2, AbsentType DEF ClientInv, StoreInv, FlightOK

\* Only a claim makes a record that runs where there was none.
LEMMA BirthByClaim ==
    ASSUME ClientInv, NEW f \in flights, Executes(f), rec.state = "absent"
    PROVE  \/ rec'.state = "running" /\ f.kind = "claim" /\ rec' = f.next
           \/ rec'.state \in {"absent", "cancelled"} /\ rec'.owner = NoOwner
<1>1. rec' = Outcome(f, rec)
  BY DEF Executes, Execute
<1>2. f.kind \in {"claim", "cancel", "cas"} /\ f.at \in Nat /\ f.at > 0
  BY DEF ClientInv, StoreInv, StoreTypeOK, Flight, FlightOK
<1>3. CASE f.kind = "claim"
  BY <1>1, <1>3, AbsentOrLive DEF Outcome
<1>4. CASE f.kind = "cancel"
  <2>1. rec' = Tombstone(f.at)
    BY <1>1, <1>4 DEF Outcome
  <2> QED
    BY <1>2, <2>1, TombstoneGood
<1>5. CASE f.kind = "cas"
  <2>1. rec' = rec
    BY <1>1, <1>5 DEF Outcome
  <2> QED
    BY <2>1, AbsentOrLive, AbsentType
<1> QED
  BY <1>2, <1>3, <1>4, <1>5

\* A record that is there stays, or goes on as it may.
LEMMA LifeByWrite ==
    ASSUME ClientInv, NEW f \in flights, Executes(f), rec.state # "absent"
    PROVE  /\ claimant' = claimant /\ rec'.state # "absent"
           /\ rec.state \in Terminal => rec'.state = rec.state
           /\ rec'.owner \in {rec.owner, NoOwner}
<1>1. rec' = Outcome(f, rec) /\ claimant' = claimant
  BY DEF Executes, Execute
<1>2. Live(rec)
  BY AbsentOrLive
<1>3. CASE GoodWrite(rec, rec')
  <2>1. rec'.state # "absent" /\ rec'.owner \in {rec.owner, NoOwner}
    BY <1>3, LiveState DEF GoodWrite
  <2>2. rec' = rec \/ rec'.state \in Successors(rec.state)
    BY <1>3 DEF GoodWrite, Forward
  <2> QED
    BY <1>1, <2>1, <2>2 DEF Successors, Terminal
<1>4. CASE rec.bare /\ rec' = Enriched(rec)
  BY <1>1, <1>2, <1>4, EnrichedGood
<1> QED
  BY <1>1, <1>3, <1>4, OutcomeOfLive DEF ClientInv

LEMMA TimeDrops == ASSUME TimePasses PROVE \/ rec' = rec /\ claimant' = claimant
                                           \/ rec' = Absent /\ claimant' = NoOwner
BY DEF TimePasses, Tick

\* Where a runner is the claimant after a step, it was so before, or its claim runs.
LEMMA ClaimantSteps ==
    ASSUME ClientInv, ClaimsOnce, OwnedByClaimant, StoreSide, NEW r \in Runners, claimant' = r
    PROVE  \/ /\ claimant = r /\ rec.state # "absent" /\ rec'.state # "absent"
              /\ rec.state \in Terminal => rec'.state = rec.state
           \/ /\ rec.state = "absent" /\ rec'.state = "running"
              /\ \E f \in flights : f.kind = "claim" /\ f.from = r /\ rec' = f.next /\ flights' = flights \ {f}
<1>0. r # NoOwner
  BY RecordAssumption DEF Runners
<1>1. CASE UNCHANGED <<rec, claimant>>
  BY <1>0, <1>1 DEF OwnedByClaimant
<1>2. ASSUME NEW f \in flights, Executes(f), rec.state # "absent" PROVE claimant = r
  BY <1>2, LifeByWrite
<1>3. ASSUME NEW f \in flights, Executes(f), rec.state = "absent"
      PROVE  rec'.state = "running" /\ f.kind = "claim" /\ f.from = r /\ rec' = f.next /\ flights' = flights \ {f}
  <2>1. claimant = NoOwner
    BY <1>3 DEF OwnedByClaimant
  <2>2. rec'.state = "running" /\ claimant' = rec'.owner /\ flights' = flights \ {f}
    BY <1>0, <1>3, <2>1 DEF Executes
  <2>3. f.kind = "claim" /\ rec' = f.next
    BY <1>3, <2>2, BirthByClaim
  <2> QED
    BY <2>2, <2>3 DEF ClaimsOnce
<1>4. CASE TimePasses
  <2>1. rec' = rec /\ claimant' = claimant
    BY <1>0, <1>4, TimeDrops
  <2> QED
    BY <1>0, <2>1 DEF OwnedByClaimant
<1>5. CASE \E f \in flights : Executes(f)
  BY <1>2, <1>3, <1>5, LifeByWrite
<1> QED
  BY <1>1, <1>4, <1>5 DEF StoreSide

LEMMA OwnedKeeps == ASSUME ClientInv, ClaimsOnce, OwnedByClaimant, StoreSide PROVE OwnedByClaimant'
<1>1. CASE UNCHANGED <<rec, claimant>>
  BY <1>1 DEF OwnedByClaimant
<1>2. ASSUME NEW f \in flights, Executes(f), rec.state # "absent" PROVE OwnedByClaimant'
  BY <1>2, LifeByWrite DEF OwnedByClaimant
<1>3. ASSUME NEW f \in flights, Executes(f), rec.state = "absent" PROVE OwnedByClaimant'
  <2>1. claimant = NoOwner
    BY <1>3 DEF OwnedByClaimant
  <2>2. claimant' = IF rec'.state = "running" THEN rec'.owner ELSE NoOwner
    BY <1>3, <2>1 DEF Executes
  <2> QED
    BY <1>3, <2>2, BirthByClaim DEF OwnedByClaimant
<1>4. CASE TimePasses
  BY <1>4, TimeDrops, AbsentType DEF OwnedByClaimant
<1> QED
  BY <1>1, <1>2, <1>3, <1>4 DEF StoreSide

\* No step but a claim puts a claim in flight.
LEMMA NoNewClaim == ASSUME StoreSide, NEW f \in flights', f.kind = "claim" PROVE f \in flights
BY DEF StoreSide, Executes, TimePasses, Tick

\* While its claim is in flight, or before it, a runner is not the claimant.
LEMMA ClaimantNot ==
    ASSUME ClientInv, ClaimsOnce, OwnedByClaimant, StoreSide, NEW r \in Runners,
           run[r].pc = "idle" \/ \E f \in flights' : f.kind = "claim" /\ f.from = r
    PROVE  claimant' # r
<1>1. SUFFICES ASSUME claimant' = r PROVE FALSE
  OBVIOUS
<1>2. CASE claimant = r
  BY <1>2, NoNewClaim DEF ClaimsOnce
<1>3. ASSUME NEW g \in flights, g.kind = "claim", g.from = r, flights' = flights \ {g} PROVE FALSE
  BY <1>3, NoNewClaim DEF ClaimsOnce
<1> QED
  BY <1>1, <1>2, <1>3, ClaimantSteps

\* ClaimsOnce, of one claim in flight and of one runner.
ClaimHeld(f, s, who) ==
    /\ f.from \in Runners /\ f.next.owner = f.from /\ s.seq = 0 /\ who # f.from
    /\ f.expect = Absent /\ f.next.model = Untouched("running")
    /\ s.pc = "error" \/ (s.pc = "claiming" /\ f = s.call)

Claimable(s, r, who) ==
    /\ s.pc = "idle" => s.seq = 0 /\ who # r
    /\ s.pc \in {"idle", "claiming", "error"} => s.saw = Absent
    /\ s.pc = "claiming" => s.call.kind = "claim"

LEMMA ClaimsOnceParts ==
    ClaimsOnce <=> /\ \A f \in flights : f.kind = "claim" => ClaimHeld(f, run[f.from], claimant)
                   /\ \A f, g \in flights : f.kind = "claim" /\ g.kind = "claim" /\ f.from = g.from => f = g
                   /\ \A r \in Runners : Claimable(run[r], r, claimant)
BY DEF ClaimsOnce, ClaimHeld, Claimable

LEMMA StillClaims ==
    ASSUME ClientInv, ClaimsOnce, OwnedByClaimant, StoreSide, NEW r \in Runners, NEW q, q = run[r] \/ Still(run[r], q)
    PROVE  /\ \A f \in flights' : f.kind = "claim" /\ f.from = r => ClaimHeld(f, q, claimant')
           /\ Claimable(q, r, claimant')
<1>1. q.pc = run[r].pc /\ q.call = run[r].call /\ q.saw = run[r].saw /\ q.seq = run[r].seq
  BY DEF Still
<1>2. Claimable(q, r, claimant')
  BY <1>1, ClaimantNot DEF ClaimsOnce, Claimable
<1>3. ASSUME NEW f \in flights', f.kind = "claim", f.from = r PROVE ClaimHeld(f, q, claimant')
  <2>1. f \in flights /\ claimant' # r
    BY <1>3, NoNewClaim, ClaimantNot
  <2> QED
    BY <1>1, <1>3, <2>1 DEF ClaimsOnce, ClaimHeld
<1> QED
  BY <1>2, <1>3

LEMMA MovingClaims ==
    ASSUME ClientInv, ClaimsOnce, OwnedByClaimant, StoreSide, NEW r \in Runners, RunnerMoves(r, run[r], run'[r])
    PROVE  /\ \A f \in flights' : f.kind = "claim" /\ f.from = r => ClaimHeld(f, run'[r], claimant')
           /\ Claimable(run'[r], r, claimant')
<1>1. PICK p, q : p = run[r] /\ q = run'[r] /\ RunnerSound(r, p, flights, issued, now)
  BY RunnerFields
<1>2. RunnerMoves(r, p, q)
  BY <1>1
<1>3. Claimable(q, r, claimant')
  BY <1>2 DEF RunnerMoves, Forth, Claimable
<1>4. ASSUME NEW f \in flights', f.kind = "claim", f.from = r PROVE ClaimHeld(f, q, claimant')
  <2>1. f \in flights /\ claimant' # r
    BY <1>4, NoNewClaim, ClaimantNot
  <2>2. ClaimHeld(f, p, claimant)
    BY <1>1, <1>4, <2>1 DEF ClaimsOnce, ClaimHeld
  <2>3. p.pc = "claiming" /\ f = p.call
    BY <1>2, <2>2 DEF ClaimHeld, RunnerMoves, Forth, Ended
  <2>4. Hears(p, q)
    BY <1>2, <2>3 DEF RunnerMoves, Passes, Sends, Waits
  <2>5. q.pc = "error"
    BY <1>4, <2>3, <2>4 DEF Hears
  <2>6. q.seq = 0
    BY <1>1, <2>2, <2>3, <2>4 DEF Hears, ClaimHeld, RunnerSound
  <2> QED
    BY <1>4, <2>1, <2>2, <2>5, <2>6 DEF ClaimHeld
<1> QED
  BY <1>1, <1>3, <1>4

LEMMA ClaimingClaims ==
    ASSUME ClientInv, ClaimsOnce, NEW r \in Runners, Claim(r), \A o \in Runners \ {r} : run'[o] = run[o]
    PROVE  ClaimsOnce'
<1>1. PICK f : /\ flights' = flights \cup {f} /\ UNCHANGED claimant
               /\ f.kind = "claim" /\ f.from = r /\ f.expect = Absent /\ f.next.owner = r
               /\ f.next.model = Untouched("running")
               /\ run[r].pc = "idle" /\ run'[r].pc = "claiming" /\ run'[r].call = f /\ run'[r].saw = run[r].saw
               /\ run'[r].seq = run[r].seq
  BY ClaimSends
<1>2. run[r].seq = 0 /\ claimant # r /\ run[r].saw = Absent
  BY <1>1 DEF ClaimsOnce
<1>3. \A g \in flights : g.kind = "claim" => g.from # r /\ g.from \in Runners
  BY <1>1 DEF ClaimsOnce
<1>4. \A g \in flights' : g.kind = "claim" => ClaimHeld(g, run'[g.from], claimant')
  <2>1. ClaimHeld(f, run'[r], claimant')
    BY <1>1, <1>2 DEF ClaimHeld
  <2>2. ASSUME NEW g \in flights, g.kind = "claim" PROVE ClaimHeld(g, run'[g.from], claimant')
    BY <1>1, <1>3, <2>2 DEF ClaimsOnce, ClaimHeld
  <2> QED
    BY <1>1, <2>1, <2>2
<1>5. \A g, h \in flights' : g.kind = "claim" /\ h.kind = "claim" /\ g.from = h.from => g = h
  BY <1>1, <1>3 DEF ClaimsOnce
<1>6. \A o \in Runners : Claimable(run'[o], o, claimant')
  <2>1. Claimable(run'[r], r, claimant')
    BY <1>1, <1>2 DEF Claimable
  <2>2. ASSUME NEW o \in Runners \ {r} PROVE Claimable(run'[o], o, claimant')
    BY <1>1 DEF ClaimsOnce, Claimable
  <2> QED
    BY <2>1, <2>2
<1> QED
  BY <1>4, <1>5, <1>6 DEF ClaimsOnce, ClaimHeld, Claimable

LEMMA ClaimsOnceKeep ==
    ASSUME ClientInv, CallsAwaited, ClaimsOnce, OwnedByClaimant, [Next]_vars
    PROVE  ClaimsOnce' /\ OwnedByClaimant'
<1>1. ASSUME StoreSide,
             \A r \in Runners : RunnerMoves(r, run[r], run'[r]) \/ run'[r] = run[r] \/ Still(run[r], run'[r])
      PROVE  ClaimsOnce' /\ OwnedByClaimant'
  <2>1. ASSUME NEW r \in Runners
        PROVE  /\ \A f \in flights' : f.kind = "claim" /\ f.from = r => ClaimHeld(f, run'[r], claimant')
               /\ Claimable(run'[r], r, claimant')
    <3>1. CASE RunnerMoves(r, run[r], run'[r])
      BY <1>1, <3>1, MovingClaims
    <3>2. CASE run'[r] = run[r] \/ Still(run[r], run'[r])
      <4>1. PICK q : q = run'[r]
        OBVIOUS
      <4>2. q = run[r] \/ Still(run[r], q)
        BY <3>2, <4>1
      <4> QED
        BY <1>1, <4>1, <4>2, StillClaims
    <3> QED
      BY <1>1, <3>1, <3>2
  <2>2. \A f \in flights' : f.kind = "claim" => f \in flights /\ f.from \in Runners
    BY <1>1, NoNewClaim DEF ClaimsOnce
  <2>3. \A f \in flights' : f.kind = "claim" => ClaimHeld(f, run'[f.from], claimant')
    BY <2>1, <2>2
  <2>4. \A f, g \in flights' : f.kind = "claim" /\ g.kind = "claim" /\ f.from = g.from => f = g
    BY <2>2 DEF ClaimsOnce
  <2>5. ClaimsOnce'
    BY <2>1, <2>3, <2>4 DEF ClaimsOnce, ClaimHeld, Claimable
  <2> QED
    BY <1>1, <2>5, OwnedKeeps
<1>2. ASSUME NEW r \in Runners, Claim(r), \A o \in Runners \ {r} : run'[o] = run[o]
      PROVE  ClaimsOnce' /\ OwnedByClaimant'
  <2>1. UNCHANGED <<rec, claimant>>
    BY <1>2, ClaimSends
  <2> QED
    BY <1>2, <2>1, ClaimingClaims DEF OwnedByClaimant
<1> QED
  BY <1>1, <1>2, StepKinds

\* Of one runner: what it writes is what it says, and what it was told stands.
LEMMA MadeMoves ==
    ASSUME NEW r \in Runners, NEW p, NEW q, Made(p), RunnerMoves(r, p, q)
    PROVE  Made(q)
<1>1. Calling \cap Ended = {}
  BY DEF Calling, Ended
<1>2. CASE Passes(p, q)
  <2>1. q.pc \in Calling => q.pc = p.pc /\ q.call = p.call
    BY <1>1, <1>2 DEF Passes
  <2>2. {"completing", "recompleting", "acking", "failing"} \subseteq Calling
    BY DEF Calling
  <2> QED
    BY <2>1, <2>2 DEF Made
<1>3. CASE Hears(p, q)
  <2>1. q.pc \notin Calling
    BY <1>3 DEF Hears, Waits
  <2> QED
    BY <2>1 DEF Made, Calling
<1>4. CASE \E t \in Nat, next \in Record : Sends(r, p, q, t, next)
  BY <1>4 DEF Sends
<1> QED
  BY <1>2, <1>3, <1>4 DEF RunnerMoves

\* A call that lands leaves what it was to write.
LEMMA LandedWrites ==
    ASSUME NEW p, p.call.kind = "cas", p.call.expect.state # "absent", Landed(p)
    PROVE  rec' = p.call.next /\ claimant' = claimant
BY DEF Landed, Executes, Execute, Outcome

LEMMA StandsMoves ==
    ASSUME ClientInv, ClaimsOnce, OwnedByClaimant, StoreSide, NEW r \in Runners, RunnerMoves(r, run[r], run'[r]),
           Made(run[r]), Stands(run[r], r, rec.state, claimant)
    PROVE  Stands(run'[r], r, rec'.state, claimant')
<1>1. PICK p, q : p = run[r] /\ q = run'[r]
  OBVIOUS
<1>2. RunnerMoves(r, p, q) /\ Made(p) /\ Stands(p, r, rec.state, claimant)
  BY <1>1
<1>3. SUFFICES ASSUME claimant' = r
               PROVE  /\ q.pc \in {"report", "done"} => rec'.state = "completed"
                      /\ q.pc \in {"cancelled", "failed"} => rec'.state = q.pc
                      /\ q.saw.state \in {"cancelled", "failed"} => rec'.state = q.saw.state
  BY <1>1 DEF Stands
<1>4. CASE claimant = r
  <2>1. rec.state \in Terminal => rec'.state = rec.state
    BY <1>3, <1>4, ClaimantSteps DEF Terminal
  <2>2. {"completed", "cancelled", "failed"} \subseteq Terminal
    BY DEF Terminal
  <2>3. q.saw.state \in {"cancelled", "failed"} => rec'.state = q.saw.state
    BY <1>2, <1>4, <2>1, <2>2, AbsentType DEF Stands, RunnerMoves, Forth
  <2>4. CASE Passes(p, q)
    BY <1>2, <1>4, <2>1, <2>2, <2>3, <2>4 DEF Passes, Stands
  <2>5. CASE Hears(p, q)
    <3>1. ASSUME p.pc \in Calling, Landed(p) PROVE rec' = p.call.next
      BY <1>2, <3>1, LandedWrites DEF Made
    <3>2. q.pc = "report" => rec'.state = "completed"
      BY <1>2, <2>1, <2>2, <2>5, <3>1 DEF Hears, Made, Completing, Calling
    <3>3. q.pc \in {"cancelled", "failed"} => rec'.state = q.pc
      BY <1>2, <2>5, <3>1 DEF Hears, Made, Calling
    <3> QED
      BY <2>3, <2>5, <3>2, <3>3 DEF Hears
  <2>6. CASE \E t \in Nat, next \in Record : Sends(r, p, q, t, next)
    <3>1. q.pc \in Calling \cup {"select", "join"}
      BY <2>6 DEF Sends
    <3> QED
      BY <2>3, <3>1 DEF Calling
  <2> QED
    BY <1>2, <2>4, <2>5, <2>6 DEF RunnerMoves
<1>5. CASE claimant # r
  <2>1. PICK f \in flights : f.kind = "claim" /\ f.from = r /\ rec.state = "absent"
    BY <1>3, <1>5, ClaimantSteps
  <2>2. p.pc \in {"error", "claiming"} /\ p.saw = Absent
    BY <1>1, <2>1 DEF ClaimsOnce
  <2>3. p.pc = "claiming"
    BY <1>2, <2>2 DEF RunnerMoves, Forth, Ended
  <2>4. Hears(p, q)
    BY <1>2, <2>3 DEF RunnerMoves, Passes, Sends, Waits
  <2>5. q.pc \notin {"report", "done", "cancelled", "failed"}
    BY <2>1, <2>3, <2>4 DEF Hears, Completing
  <2>6. q.saw.state = "absent"
    BY <1>2, <2>1, <2>2, AbsentType DEF RunnerMoves, Forth
  <2> QED
    BY <2>5, <2>6
<1> QED
  BY <1>4, <1>5

LEMMA StandsStill ==
    ASSUME ClientInv, ClaimsOnce, OwnedByClaimant, StoreSide, NEW r \in Runners, NEW q, q = run[r] \/ Still(run[r], q),
           Stands(run[r], r, rec.state, claimant)
    PROVE  Stands(q, r, rec'.state, claimant')
<1>1. q.pc = run[r].pc /\ q.saw = run[r].saw
  BY DEF Still
<1>2. SUFFICES ASSUME claimant' = r PROVE Stands(q, r, rec'.state, claimant')
  BY DEF Stands
<1>3. CASE claimant = r
  <2>1. rec.state \in Terminal => rec'.state = rec.state
    BY <1>2, <1>3, ClaimantSteps DEF Terminal
  <2> QED
    BY <1>1, <1>3, <2>1 DEF Stands, Terminal
<1>4. CASE claimant # r
  <2>1. PICK f \in flights : f.kind = "claim" /\ f.from = r
    BY <1>2, <1>4, ClaimantSteps
  <2>2. run[r].pc \in {"error", "claiming"} /\ run[r].saw = Absent
    BY <2>1 DEF ClaimsOnce
  <2> QED
    BY <1>1, <2>2, AbsentType DEF Stands
<1> QED
  BY <1>3, <1>4

LEMMA VerdictInvKeeps == ASSUME ClientInv, CallsAwaited, VerdictInv, [Next]_vars PROVE VerdictInv'
<1>1. ASSUME StoreSide, NEW r \in Runners, RunnerMoves(r, run[r], run'[r]) \/ run'[r] = run[r] \/ Still(run[r], run'[r])
      PROVE  Made(run'[r]) /\ Stands(run'[r], r, rec'.state, claimant')
  <2>1. Made(run[r]) /\ Stands(run[r], r, rec.state, claimant) /\ ClaimsOnce /\ OwnedByClaimant
    BY DEF VerdictInv
  <2>2. PICK p, q : p = run[r] /\ q = run'[r]
    OBVIOUS
  <2>3. CASE RunnerMoves(r, run[r], run'[r])
    <3>1. Made(q)
      BY <2>1, <2>2, <2>3, MadeMoves
    <3> QED
      BY <1>1, <2>1, <2>2, <2>3, <3>1, StandsMoves
  <2>4. CASE run'[r] = run[r] \/ Still(run[r], run'[r])
    <3>1. q = run[r] \/ Still(run[r], q)
      BY <2>2, <2>4
    <3>2. q.pc = p.pc /\ q.call = p.call
      BY <2>2, <3>1 DEF Still
    <3>3. Made(q)
      BY <2>1, <2>2, <3>2 DEF Made
    <3> QED
      BY <1>1, <2>1, <2>2, <3>1, <3>3, StandsStill
  <2> QED
    BY <1>1, <2>3, <2>4
<1>2. ASSUME NEW r \in Runners, Claim(r), \A o \in Runners \ {r} : run'[o] = run[o], NEW o \in Runners
      PROVE  Made(run'[o]) /\ Stands(run'[o], o, rec'.state, claimant')
  <2>1. UNCHANGED <<rec, claimant>> /\ run[r].pc = "idle" /\ run'[r].pc = "claiming" /\ run'[r].saw = run[r].saw
    BY <1>2, ClaimSends
  <2>2. CASE o = r
    <3>1. run[r].saw = Absent
      BY <2>1 DEF VerdictInv, ClaimsOnce
    <3> QED
      BY <2>1, <2>2, <3>1, AbsentType DEF Made, Calling, Stands
  <2>3. CASE o # r
    BY <1>2, <2>1, <2>3 DEF VerdictInv
  <2> QED
    BY <2>2, <2>3
<1>3. ClaimsOnce' /\ OwnedByClaimant'
  BY ClaimsOnceKeep DEF VerdictInv
<1>4. \A r \in Runners : Made(run'[r]) /\ Stands(run'[r], r, rec'.state, claimant')
  BY <1>1, <1>2, StepKinds
<1> QED
  BY <1>3, <1>4 DEF VerdictInv, Made, Stands

LEMMA VerdictInit == Init => CallsAwaited /\ VerdictInv
<1> SUFFICES ASSUME Init PROVE CallsAwaited /\ VerdictInv
  OBVIOUS
<1>1. /\ \A r \in Runners : /\ run[r].pc = "idle" /\ run[r].call = NoCall /\ run[r].seq = 0
                            /\ run[r].saw = Absent
      /\ flights = {} /\ claimant = NoOwner /\ rec = Absent
  BY DEF Init, StoreInit
<1>2. NoOwner \notin Runners
  BY RecordAssumption DEF Runners
<1>3. CallsAwaited
  BY <1>1 DEF CallsAwaited
<1>4. ClaimsOnce
  BY <1>1, <1>2 DEF ClaimsOnce
<1>5. OwnedByClaimant
  BY <1>1, AbsentType DEF OwnedByClaimant
<1>6. \A r \in Runners : Made(run[r]) /\ Stands(run[r], r, rec.state, claimant)
  BY <1>1, <1>2 DEF Made, Stands, Calling
<1> QED
  BY <1>3, <1>4, <1>5, <1>6 DEF VerdictInv

\* The table of moves, and with it the verdicts, hold throughout.
LEMMA SingleVerdicts == Spec => [](ClientInv /\ CallsAwaited /\ VerdictInv)
<1>1. Init => ClientInv /\ CallsAwaited /\ VerdictInv
  BY ClientInit, VerdictInit
<1>2. ClientInv /\ CallsAwaited /\ VerdictInv /\ [Next]_vars => ClientInv' /\ CallsAwaited' /\ VerdictInv'
  BY AllKeep, KeptIsInv, CallsAwaitedKeep, VerdictInvKeeps
<1> QED
  BY <1>1, <1>2, PTL DEF Spec

\* What a client was told of its generation stays true of the record: a run that reported done,
\* cancelled or failed never finds another verdict in the record it claimed, whatever writes of
\* whoever were still in flight, late or lost (finishFailure, ReconcileComplete, Converger).
THEOREM SingleVerdictsStand == Spec => []VerdictsStand
<1>1. VerdictInv => VerdictsStand
  BY DEF VerdictInv, Stands, VerdictsStand, Verdict
<1> QED
  BY <1>1, SingleVerdicts, PTL

----------------------------------------------------------------------------
(* The steps of a poller and of a cancel, from p to q, by what they do to    *)
(* what is shared.                                                           *)

Answered(f) ==
    \/ Executes(f)
    \/ Lose(f) /\ UNCHANGED claimant
    \/ UNCHANGED <<storeVars, claimant>> /\ spent["delayed"] < MaxDelayed

\* It sends what the record it read calls for.
ConvSends(v, p, q, t, next) ==
    /\ CompareAndSet(v, t, next) /\ q.call = Message(v, "cas", t, rec, next)
    /\ UNCHANGED <<lock, claimant>>
    /\ \/ /\ p.pc = "decide" /\ q.pc = "writing"
          /\ rec.state \in {"running", "cancelling"} /\ next.state \in {"failed", "cancelled"}
       \/ p.pc = "complete" /\ q.pc = "resolving" /\ rec.state = "committing" /\ next.state = "completed"
       \/ p.pc = "failstale" /\ q.pc = "resolving" /\ rec.state = "committing" /\ next.state = "failed"

ConvHears(p, q) ==
    /\ p.pc \in {"writing", "resolving"} /\ Answered(p.call) /\ UNCHANGED lock
    /\ q.call = NoCall
    /\ q.pc \in IF p.pc = "resolving" THEN {"unlock", "reunlock"} ELSE {"decide", "idle"}

ConvPasses(v, p, q) ==
    /\ UNCHANGED <<storeVars, claimant>> /\ q.call \in {NoCall, p.call} /\ p.pc \notin {"writing", "resolving"}
    /\ \/ UNCHANGED lock /\ q.pc \in {"idle", "decide", "locking"}
       \/ p.pc = "locking" /\ q.pc = "load" /\ lock = NoOne /\ lock' = v
       \/ /\ p.pc = "load" /\ UNCHANGED lock
          /\ q.pc \in IF receipt = NoReceipt THEN {"failstale"} ELSE {"complete", "unlock"}
       \/ p.pc \in {"complete", "failstale"} /\ q.pc \in {"unlock", "reunlock"} /\ UNCHANGED lock
       \/ /\ p.pc \in {"unlock", "reunlock"} /\ q.pc \in {"decide", "idle"}
          /\ lock' = IF lock = v THEN NoOne ELSE lock

ConvergerMoves(v, p, q) ==
    /\ UNCHANGED <<run, canc, receipt>> /\ \A o \in Convergers \ {v} : conv'[o] = conv[o]
    /\ ConvPasses(v, p, q) \/ ConvHears(p, q) \/ \E t \in Nat, next \in Record : ConvSends(v, p, q, t, next)

LEMMA ShiftsTo ==
    ASSUME ClientInv, NEW v \in Convergers, NEW s, Shifts(v, s)
    PROVE  conv'[v] = s /\ UNCHANGED <<run, canc, receipt>> /\ \A o \in Convergers \ {v} : conv'[o] = conv[o]
BY DEF Shifts, ClientInv, SingleTypeOK

LEMMA RestsTo ==
    ASSUME ClientInv, NEW v \in Convergers, Rest(v)
    PROVE  /\ conv'[v].pc = "idle" /\ conv'[v].call = NoCall
           /\ UNCHANGED <<run, canc, receipt>> /\ \A o \in Convergers \ {v} : conv'[o] = conv[o]
<1>1. PICK s : s = [pc |-> "idle", t |-> 0, again |-> FALSE, call |-> NoCall]
  OBVIOUS
<1>2. s.pc = "idle" /\ s.call = NoCall /\ Shifts(v, s)
  BY <1>1 DEF Rest
<1> QED
  BY <1>2, ShiftsTo

LEMMA ConvergerCalls ==
    ASSUME ClientInv, NEW v \in Convergers, NEW p, p = conv[v], NEW next \in Record, NEW pc \in {"writing", "resolving"},
           Converges(v, next, pc),
           \/ /\ p.pc = "decide" /\ pc = "writing"
              /\ rec.state \in {"running", "cancelling"} /\ next.state \in {"failed", "cancelled"}
           \/ p.pc = "complete" /\ pc = "resolving" /\ rec.state = "committing" /\ next.state = "completed"
           \/ p.pc = "failstale" /\ pc = "resolving" /\ rec.state = "committing" /\ next.state = "failed"
    PROVE  ConvergerMoves(v, p, conv'[v])
<1>1. p \in ConvType /\ p.t \in Nat
  BY ConvergerFields DEF ConvType
<1>2. PICK f : f = Message(v, "cas", p.t, rec, next)
  OBVIOUS
<1>3. CompareAndSet(v, p.t, next) /\ UNCHANGED <<lock, claimant>> /\ Shifts(v, [p EXCEPT !.pc = pc, !.call = f])
  BY <1>2 DEF Converges
<1>4. PICK q : q = [p EXCEPT !.pc = pc, !.call = f]
  OBVIOUS
<1>5. q.pc = pc /\ q.call = f
  BY <1>1, <1>4 DEF ConvType
<1>6. conv'[v] = q /\ UNCHANGED <<run, canc, receipt>> /\ \A o \in Convergers \ {v} : conv'[o] = conv[o]
  BY <1>3, <1>4, ShiftsTo
<1>7. ConvSends(v, p, q, p.t, next)
  BY <1>2, <1>3, <1>5 DEF ConvSends
<1>8. ConvergerMoves(v, p, q)
  BY <1>1, <1>6, <1>7 DEF ConvergerMoves
<1> QED
  BY <1>6, <1>8

LEMMA FailStaleWrites ==
    ASSUME NEW x \in Record, NEW t \in Nat
    PROVE  FailStaleCommit(x, t) \in Record /\ FailStaleCommit(x, t).state = "failed"
<1>1. PICK z : z = [x EXCEPT !.state = "failed"]
  OBVIOUS
<1>2. z \in Record /\ z.state = "failed"
  BY <1>1 DEF Record, State
<1> QED
  BY <1>1, <1>2, StampCounts DEF FailStaleCommit

LEMMA ConvergersMove == ASSUME ClientInv, NEW v \in Convergers, ConvergerStep(v) PROVE ConvergerMoves(v, conv[v], conv'[v])
<1>1. PICK p : p = conv[v] /\ p \in ConvType /\ ConvergerSound(v, p, flights, now, receipt # NoReceipt)
  BY ConvergerFields
<1>2. rec \in Record /\ p.t \in Nat
  BY <1>1 DEF ClientInv, StoreInv, StoreTypeOK, ConvType
<1>3. PICK q : q = conv'[v]
  OBVIOUS
<1>4. ASSUME NEW s, Shifts(v, s), ConvPasses(v, p, s) PROVE ConvergerMoves(v, p, q)
  BY <1>3, <1>4, ShiftsTo DEF ConvergerMoves
<1>5. ASSUME Rest(v), Local, p.pc \notin {"writing", "resolving"},
             UNCHANGED lock \/ (p.pc \in {"unlock", "reunlock"} /\ lock' = IF lock = v THEN NoOne ELSE lock)
      PROVE  ConvergerMoves(v, p, q)
  <2>1. ConvPasses(v, p, q)
    BY <1>3, <1>5, RestsTo DEF ConvPasses, Local
  <2> QED
    BY <1>3, <1>5, <2>1, RestsTo DEF ConvergerMoves
<1>6. ASSUME Refused(v), Local, p.pc \in {"complete", "failstale"} PROVE ConvergerMoves(v, p, q)
  <2>1. PICK pc \in {"unlock", "reunlock"} : pc = IF p.again THEN "unlock" ELSE "reunlock"
    OBVIOUS
  <2>2. PICK s : s = [p EXCEPT !.pc = pc, !.call = NoCall]
    OBVIOUS
  <2>3. s.pc = pc /\ s.call = NoCall
    BY <1>1, <2>2 DEF ConvType
  <2>4. Shifts(v, s) /\ UNCHANGED lock
    BY <1>1, <1>6, <2>1, <2>2 DEF Refused
  <2>5. ConvPasses(v, p, s)
    BY <1>6, <2>3, <2>4 DEF ConvPasses, Local
  <2> QED
    BY <1>4, <2>4, <2>5
<1>7. CASE Observe(v)
  <2>1. PICK t \in Reading : Shifts(v, [pc |-> "decide", t |-> t, again |-> FALSE, call |-> NoCall]) /\ UNCHANGED lock /\ Local /\ p.pc = "idle"
    BY <1>1, <1>7, Zenon DEF Observe
  <2>2. PICK s : s = [pc |-> "decide", t |-> t, again |-> FALSE, call |-> NoCall]
    OBVIOUS
  <2>3. ConvPasses(v, p, s)
    BY <2>1, <2>2 DEF ConvPasses, Local
  <2> QED
    BY <1>1, <1>3, <1>4, <2>1, <2>2, <2>3
<1>8. CASE Decide(v)
  <2>1. p.pc = "decide"
    BY <1>1, <1>8, Zenon DEF Decide
  <2>2. \/ CanFailExpired(rec, p.t) /\ Converges(v, Fail(rec, p.t), "writing")
        \/ CanConvergeCancelling(rec, p.t) /\ Converges(v, AcknowledgeCancelled(rec, p.t), "writing")
        \/ Shifts(v, [p EXCEPT !.pc = "locking"]) /\ UNCHANGED lock /\ Local
        \/ Rest(v) /\ UNCHANGED lock /\ Local
    <3>1. (CASE CanFailExpired(rec, p.t)        -> Converges(v, Fail(rec, p.t), "writing")
            [] CanConvergeCancelling(rec, p.t) -> Converges(v, AcknowledgeCancelled(rec, p.t), "writing")
            [] rec.state = "committing" /\ p.t >= rec.updated ->
                   Shifts(v, [p EXCEPT !.pc = "locking"]) /\ UNCHANGED lock /\ Local
            [] OTHER -> Rest(v) /\ UNCHANGED lock /\ Local)
      BY <1>1, <1>8, Zenon DEF Decide
    <3> QED
      BY <3>1
  <2>3. CASE CanFailExpired(rec, p.t) /\ Converges(v, Fail(rec, p.t), "writing")
    <3>1. PICK e \in {"failed", "cancelled"} : e = "failed"
      OBVIOUS
    <3>2. Fail(rec, p.t) \in Record /\ Fail(rec, p.t).state = "failed"
      BY <1>2, <3>1, SettleWrites DEF Fail
    <3>3. rec.state = "running"
      BY <2>3 DEF CanFailExpired
    <3> QED
      BY <1>1, <1>3, <2>1, <2>3, <3>2, <3>3, ConvergerCalls
  <2>4. CASE CanConvergeCancelling(rec, p.t) /\ Converges(v, AcknowledgeCancelled(rec, p.t), "writing")
    <3>1. PICK e \in {"failed", "cancelled"} : e = "cancelled"
      OBVIOUS
    <3>2. AcknowledgeCancelled(rec, p.t) \in Record /\ AcknowledgeCancelled(rec, p.t).state = "cancelled"
      BY <1>2, <3>1, SettleWrites DEF AcknowledgeCancelled
    <3>3. rec.state = "cancelling"
      BY <2>4 DEF CanConvergeCancelling
    <3> QED
      BY <1>1, <1>3, <2>1, <2>4, <3>2, <3>3, ConvergerCalls
  <2>5. CASE Shifts(v, [p EXCEPT !.pc = "locking"]) /\ UNCHANGED lock /\ Local
    <3>1. PICK s : s = [p EXCEPT !.pc = "locking"]
      OBVIOUS
    <3>2. s.pc = "locking" /\ s.call = p.call
      BY <1>1, <3>1 DEF ConvType
    <3>3. ConvPasses(v, p, s)
      BY <2>1, <2>5, <3>2 DEF ConvPasses, Local
    <3> QED
      BY <1>1, <1>3, <1>4, <2>5, <3>1, <3>3
  <2>6. CASE Rest(v) /\ UNCHANGED lock /\ Local
    BY <1>1, <1>3, <1>5, <2>1, <2>6
  <2> QED
    BY <2>2, <2>3, <2>4, <2>5, <2>6
<1>9. CASE ConvergerLocks(v)
  <2>1. /\ p.pc = "locking" /\ Local
        /\ \/ lock = NoOne /\ lock' = v /\ Shifts(v, [p EXCEPT !.pc = "load"])
           \/ Rest(v) /\ UNCHANGED lock
    BY <1>1, <1>9 DEF ConvergerLocks
  <2>2. PICK s : s = [p EXCEPT !.pc = "load"]
    OBVIOUS
  <2>3. s.pc = "load" /\ s.call = p.call
    BY <1>1, <2>2 DEF ConvType
  <2>4. lock = NoOne /\ lock' = v => ConvPasses(v, p, s)
    BY <2>1, <2>3 DEF ConvPasses, Local
  <2> QED
    BY <1>1, <1>3, <1>4, <1>5, <2>1, <2>2, <2>4
<1>10. CASE LoadReceipt(v)
  <2>1. /\ p.pc = "load" /\ Local /\ UNCHANGED lock
        /\ Shifts(v, [p EXCEPT !.pc = IF receipt = NoReceipt THEN "failstale" ELSE IF receipt.alive THEN "complete" ELSE "unlock"])
    BY <1>1, <1>10, Zenon DEF LoadReceipt
  <2>2. PICK pc \in {"failstale", "complete", "unlock"} :
          /\ pc = IF receipt = NoReceipt THEN "failstale" ELSE IF receipt.alive THEN "complete" ELSE "unlock"
          /\ pc \in IF receipt = NoReceipt THEN {"failstale"} ELSE {"complete", "unlock"}
    OBVIOUS
  <2>3. PICK s : s = [p EXCEPT !.pc = pc]
    OBVIOUS
  <2>4. s.pc = pc /\ s.call = p.call
    BY <1>1, <2>3 DEF ConvType
  <2>5. Shifts(v, s)
    BY <2>1, <2>2, <2>3, Zenon
  <2>6. ConvPasses(v, p, s)
    BY <2>1, <2>2, <2>4 DEF ConvPasses, Local
  <2> QED
    BY <1>1, <1>3, <1>4, <2>5, <2>6
<1>11. CASE ReconcileComplete(v)
  <2>1. /\ p.pc = "complete"
        /\ IF CanComplete(rec, MessageOf(receipt.by), p.t)
           THEN Converges(v, Complete(rec, MessageOf(receipt.by), p.t), "resolving") ELSE Refused(v) /\ Local
    BY <1>1, <1>11, Zenon DEF ReconcileComplete
  <2>2. receipt.by \in Runners
    BY <1>1, <2>1 DEF ConvergerSound, ClientInv, SingleTypeOK
  <2>3. CASE CanComplete(rec, MessageOf(receipt.by), p.t)
    <3>1. PICK guids : guids = MessageOf(receipt.by)
      OBVIOUS
    <3>2. \A n \in DOMAIN guids : guids[n] \in Guids
      BY <2>2, <3>1, SingleAssumption DEF MessageOf
    <3>3. Complete(rec, guids, p.t) \in Record /\ Complete(rec, guids, p.t).state = "completed"
      BY <1>2, <3>2, CompleteWrites
    <3>4. rec.state = "committing"
      BY <2>3 DEF CanComplete
    <3>5. Converges(v, Complete(rec, guids, p.t), "resolving")
      BY <2>1, <2>3, <3>1
    <3> QED
      BY <1>1, <1>3, <2>1, <3>3, <3>4, <3>5, ConvergerCalls
  <2> QED
    BY <1>1, <1>3, <1>6, <2>1, <2>3
<1>12. CASE FailStale(v)
  <2>1. /\ p.pc = "failstale"
        /\ IF CanFailStaleCommit(rec, p.t) THEN Converges(v, FailStaleCommit(rec, p.t), "resolving") ELSE Refused(v) /\ Local
    BY <1>1, <1>12, Zenon DEF FailStale
  <2>2. CASE CanFailStaleCommit(rec, p.t)
    <3>1. FailStaleCommit(rec, p.t) \in Record /\ FailStaleCommit(rec, p.t).state = "failed"
      BY <1>2, FailStaleWrites
    <3>2. rec.state = "committing"
      BY <2>2 DEF CanFailStaleCommit
    <3> QED
      BY <1>1, <1>3, <2>1, <2>2, <3>1, <3>2, ConvergerCalls
  <2> QED
    BY <1>1, <1>3, <1>6, <2>1, <2>2
<1>13. CASE ConvergerReturns(v)
  <2>1. PICK reply \in Replies :
          /\ Returns(p.call, FALSE, reply)
          /\ IF p.pc = "resolving"
             THEN Shifts(v, [p EXCEPT !.pc = IF reply = "conflict" /\ ~p.again THEN "reunlock" ELSE "unlock", !.call = NoCall])
             ELSE IF reply = "conflict" /\ ~p.again
             THEN Shifts(v, [p EXCEPT !.pc = "decide", !.again = TRUE, !.call = NoCall])
             ELSE Rest(v)
    BY <1>1, <1>13, Zenon DEF ConvergerReturns
  <2>2. UNCHANGED lock /\ p.pc \in {"writing", "resolving"}
    BY <1>1, <1>13, Zenon DEF ConvergerReturns
  <2>3. Answered(p.call)
    BY <2>1, ReturnsTell DEF Answered
  <2>4. ASSUME NEW s, Shifts(v, s), ConvHears(p, s) PROVE ConvergerMoves(v, p, q)
    BY <1>3, <2>4, ShiftsTo DEF ConvergerMoves
  <2>5. CASE p.pc = "resolving"
    <3>1. PICK pc \in {"unlock", "reunlock"} : pc = IF reply = "conflict" /\ ~p.again THEN "reunlock" ELSE "unlock"
      OBVIOUS
    <3>2. PICK s : s = [p EXCEPT !.pc = pc, !.call = NoCall]
      OBVIOUS
    <3>3. s.pc = pc /\ s.call = NoCall
      BY <1>1, <3>2 DEF ConvType
    <3>4. Shifts(v, [p EXCEPT !.pc = IF reply = "conflict" /\ ~p.again THEN "reunlock" ELSE "unlock", !.call = NoCall])
      BY <2>1, <2>5
    <3>6. Shifts(v, s)
      BY <3>1, <3>2, <3>4, Zenon
    <3>5. ConvHears(p, s)
      BY <2>2, <2>3, <2>5, <3>3 DEF ConvHears
    <3> QED
      BY <1>1, <1>3, <2>4, <3>5, <3>6
  <2>6. CASE p.pc = "writing"
    <3>1. \/ Shifts(v, [p EXCEPT !.pc = "decide", !.again = TRUE, !.call = NoCall])
          \/ Rest(v)
      BY <2>1, <2>6
    <3>2. PICK s : s = [p EXCEPT !.pc = "decide", !.again = TRUE, !.call = NoCall]
      OBVIOUS
    <3>3. s.pc = "decide" /\ s.call = NoCall
      BY <1>1, <3>2 DEF ConvType
    <3>4. ConvHears(p, s)
      BY <2>2, <2>3, <2>6, <3>3 DEF ConvHears
    <3>5. CASE Rest(v)
      <4>1. ConvHears(p, q)
        BY <1>3, <2>2, <2>3, <2>6, <3>5, RestsTo DEF ConvHears
      <4> QED
        BY <1>1, <1>3, <3>5, <4>1, RestsTo DEF ConvergerMoves
    <3> QED
      BY <1>1, <1>3, <2>4, <3>1, <3>2, <3>4, <3>5
  <2> QED
    BY <2>2, <2>5, <2>6
<1>14. CASE ConvergerUnlocks(v)
  <2>1. /\ p.pc \in {"unlock", "reunlock"} /\ Local
        /\ lock' = IF lock = v THEN NoOne ELSE lock
        /\ Shifts(v, [p EXCEPT !.pc = "decide", !.again = TRUE]) \/ Rest(v)
    BY <1>1, <1>14 DEF ConvergerUnlocks
  <2>2. PICK s : s = [p EXCEPT !.pc = "decide", !.again = TRUE]
    OBVIOUS
  <2>3. s.pc = "decide" /\ s.call = p.call
    BY <1>1, <2>2 DEF ConvType
  <2>4. ConvPasses(v, p, s)
    BY <2>1, <2>3 DEF ConvPasses, Local
  <2> QED
    BY <1>1, <1>3, <1>4, <1>5, <2>1, <2>2, <2>4
<1> QED
  BY <1>1, <1>3, <1>7, <1>8, <1>9, <1>10, <1>11, <1>12, <1>13, <1>14 DEF ConvergerStep

CancSends(c, p, q, t) ==
    /\ p.pc = "idle" /\ SendCancel(c, t) /\ q.call = Message(c, "cancel", t, rec, CancelTo(rec, t)) /\ q.pc = "asking"
    /\ UNCHANGED claimant

CancHears(p, q) == /\ p.pc = "asking" /\ Answered(p.call) /\ q.call = NoCall

CancPasses(p, q) == p.pc = "callback" /\ UNCHANGED <<storeVars, claimant>> /\ q.call = NoCall

CancellerMoves(c, p, q) ==
    /\ UNCHANGED <<conv, receipt, lock>> /\ \A o \in Cancellers \ {c} : canc'[o] = canc[o]
    /\ CancPasses(p, q) \/ CancHears(p, q) \/ \E t \in Nat : CancSends(c, p, q, t)

LEMMA AsksTo ==
    ASSUME ClientInv, NEW c \in Cancellers, NEW pc, NEW call, Asks(c, pc, call)
    PROVE  /\ canc'[c].pc = pc /\ canc'[c].call = call
           /\ UNCHANGED <<conv, receipt, lock>> /\ \A o \in Cancellers \ {c} : canc'[o] = canc[o]
BY DEF Asks, ClientInv, SingleTypeOK

LEMMA CancellersMove == ASSUME ClientInv, NEW c \in Cancellers, CancellerStep(c) PROVE CancellerMoves(c, canc[c], canc'[c])
<1>1. PICK p, q : p = canc[c] /\ q = canc'[c]
  OBVIOUS
<1>2. CASE RequestsCancel(c)
  <2>1. PICK t \in Reading : SendCancel(c, t) /\ Asks(c, "asking", Message(c, "cancel", t, rec, CancelTo(rec, t)))
    BY <1>2, Zenon DEF RequestsCancel
  <2>2. UNCHANGED claimant /\ t \in Nat /\ p.pc = "idle"
    BY <1>1, <1>2, ReadingType DEF RequestsCancel
  <2>3. PICK f : f = Message(c, "cancel", t, rec, CancelTo(rec, t))
    OBVIOUS
  <2>4. Asks(c, "asking", f)
    BY <2>1, <2>3
  <2>5. q.pc = "asking" /\ q.call = f
    BY <1>1, <2>4, AsksTo
  <2>6. CancSends(c, p, q, t)
    BY <2>1, <2>2, <2>3, <2>5 DEF CancSends
  <2> QED
    BY <1>1, <2>2, <2>4, <2>6, AsksTo DEF CancellerMoves
<1>3. CASE CancelReturns(c)
  <2>1. PICK reply \in Replies, pc \in {"gone", "callback", "idle", "answered"} : Returns(p.call, FALSE, reply) /\ Asks(c, pc, NoCall)
    <3>1. PICK reply \in Replies :
            /\ Returns(p.call, FALSE, reply)
            /\ Asks(c, IF reply = "error" THEN "gone"
                       ELSE IF rec = p.call.expect /\ p.call.next # p.call.expect THEN "callback"
                       ELSE IF rec.state = "running" THEN "idle"
                       ELSE "answered", NoCall)
      BY <1>1, <1>3, Zenon DEF CancelReturns
    <3>2. PICK pc \in {"gone", "callback", "idle", "answered"} :
            pc = IF reply = "error" THEN "gone" ELSE IF rec = p.call.expect /\ p.call.next # p.call.expect THEN "callback"
                 ELSE IF rec.state = "running" THEN "idle" ELSE "answered"
      OBVIOUS
    <3> QED
      BY <3>1, <3>2, Zenon
  <2>2. p.pc = "asking"
    BY <1>1, <1>3, Zenon DEF CancelReturns
  <2>3. q.call = NoCall
    BY <1>1, <2>1, AsksTo
  <2>4. CancHears(p, q)
    BY <2>1, <2>2, <2>3, ReturnsTell DEF CancHears, Answered
  <2> QED
    BY <1>1, <2>1, <2>4, AsksTo DEF CancellerMoves
<1>4. CASE Callback(c)
  <2>1. Asks(c, "answered", NoCall) /\ Local /\ p.pc = "callback"
    BY <1>1, <1>4 DEF Callback
  <2>2. CancPasses(p, q)
    BY <1>1, <2>1, AsksTo DEF CancPasses, Local
  <2> QED
    BY <1>1, <2>1, <2>2, AsksTo DEF CancellerMoves
<1> QED
  BY <1>2, <1>3, <1>4 DEF CancellerStep

----------------------------------------------------------------------------
(* What was sent is recorded *)

LEMMA MessageIs ==
    ASSUME NEW p, NEW kind, NEW t, NEW e, NEW n
    PROVE  /\ Message(p, kind, t, e, n).from = p /\ Message(p, kind, t, e, n).kind = kind
           /\ Message(p, kind, t, e, n).expect = e /\ Message(p, kind, t, e, n).next = n
           /\ Message(p, kind, t, e, n).at = t
BY DEF Message

\* What pollers and cancels send counts nothing and begins no commit.
Plain(f) ==
    \/ f.kind = "cas" /\ f.next.state \notin {"running", "committing"}
    \/ f.kind = "cancel" /\ (f.next = f.expect \/ f.next.state = "cancelling")

LEMMA CancelWrites ==
    ASSUME NEW x \in Record, NEW t \in Nat
    PROVE  CancelTo(x, t) = x \/ (CancelTo(x, t).state = "cancelling" /\ x.state = "running")
<1>1. [x EXCEPT !.state = "cancelling", !.updated = t, !.until = 0].state = "cancelling"
  BY DEF Record
<1> QED
  BY <1>1 DEF CancelTo, RequestCancel, CanRequestCancel

LEMMA BystandersSend == ASSUME ClientInv, Bystanding, NEW f \in flights', f \notin flights PROVE Plain(f)
<1>0. rec \in Record
  BY DEF ClientInv, StoreInv, StoreTypeOK
<1>1. ASSUME NEW g, Answered(g) PROVE FALSE
  BY <1>1 DEF Answered, Executes, Lose, storeVars
<1>2. ASSUME NEW v \in Convergers, ConvergerStep(v) PROVE Plain(f)
  <2>1. PICK p, q : p = conv[v] /\ q = conv'[v] /\ ConvergerMoves(v, p, q)
    BY <1>2, ConvergersMove
  <2>2. PICK t \in Nat, next \in Record : ConvSends(v, p, q, t, next)
    BY <1>1, <2>1 DEF ConvergerMoves, ConvPasses, ConvHears, storeVars
  <2>3. f = Message(v, "cas", t, rec, next)
    BY <2>2 DEF ConvSends, CompareAndSet, Send
  <2>4. f.kind = "cas" /\ f.next = next
    BY <2>3, MessageIs
  <2> QED
    BY <2>2, <2>4 DEF Plain, ConvSends
<1>3. ASSUME NEW c \in Cancellers, CancellerStep(c) PROVE Plain(f)
  <2>1. PICK p, q : p = canc[c] /\ q = canc'[c] /\ CancellerMoves(c, p, q)
    BY <1>3, CancellersMove
  <2>2. PICK t \in Nat : CancSends(c, p, q, t)
    BY <1>1, <2>1 DEF CancellerMoves, CancPasses, CancHears, storeVars
  <2>3. f = Message(c, "cancel", t, rec, CancelTo(rec, t))
    BY <2>2 DEF CancSends, SendCancel, Send
  <2>4. f.kind = "cancel" /\ f.next = CancelTo(rec, t) /\ f.expect = rec
    BY <2>3, MessageIs
  <2> QED
    BY <1>0, <2>4, CancelWrites DEF Plain
<1>4. ASSUME NEW g \in flights, Stray(g) PROVE FALSE
  BY <1>4 DEF Stray, Executes, Lose
<1>5. ASSUME SessionLost \/ DeleteConversation \/ TimePasses \/ UNCHANGED vars PROVE FALSE
  BY <1>5 DEF SessionLost, DeleteConversation, TimePasses, Tick, vars, storeVars
<1> QED
  BY <1>2, <1>3, <1>4, <1>5 DEF Bystanding

\* How a runner's count goes with its calls.
Follows(p, q) ==
    /\ ~Early(p) => ~Early(q)
    /\ \/ /\ q.seq = p.seq /\ (Doomed(p) => Doomed(q))
          /\ p.work = "delta" => Doomed(q) \/ (q.work = "delta" /\ q.call = p.call)
       \/ p.work = "delta" /\ Landed(p) /\ q.seq = p.seq + 1
    /\ q.work = "delta" => \/ p.work = "delta" /\ q.call = p.call
                           \/ q.call.kind = "cas" /\ Counts(q.call.next) # Counts(q.call.expect)

\* The writes that are new in flight count what was sent, too.
Honest(f) ==
    /\ f.kind = "cas" => DeltaOf(f, run'[f.from]) /\ CommitOf(f, run'[f.from])
    /\ f.kind = "cancel" => f.next = f.expect \/ f.next.state = "cancelling"

LEMMA StillFollows == ASSUME NEW p, NEW q, q = p \/ Still(p, q) PROVE Follows(p, q)
BY DEF Still, Follows, Early, Doomed

LEMMA ClaimFollows ==
    ASSUME ClientInv, NEW r \in Runners, Claim(r)
    PROVE  Follows(run[r], run'[r]) /\ \A f \in flights' \ flights : Honest(f)
<1>1. PICK p, q : p = run[r] /\ q = run'[r] /\ RunnerSound(r, p, flights, issued, now)
  BY RunnerFields
<1>2. PICK f : /\ flights' = flights \cup {f} /\ f.kind = "claim"
               /\ p.pc = "idle" /\ q.pc = "claiming" /\ q.seq = p.seq /\ q.work = p.work
  BY <1>1, ClaimSends
<1>3. p.work = "none"
  BY <1>1, <1>2 DEF RunnerSound
<1>4. Follows(p, q)
  BY <1>2, <1>3 DEF Follows, Early, Doomed
<1>5. \A g \in flights' \ flights : Honest(g)
  BY <1>2 DEF Honest
<1> QED
  BY <1>1, <1>4, <1>5

LEMMA Streams ==
    ASSUME ClientInv, NEW r \in Runners, run[r].work = "delta"
    PROVE  Early(run[r]) /\ ~Doomed(run[r]) /\ run[r].call # NoCall
BY RunnerFields DEF RunnerSound, Early, Doomed

LEMMA MovesFollow ==
    ASSUME ClientInv, Clients', SentInv, OwnedByClaimant, NEW r \in Runners, RunnerMoves(r, run[r], run'[r])
    PROVE  Follows(run[r], run'[r]) /\ \A f \in flights' \ flights : Honest(f)
<1>1. PICK p, q : p = run[r] /\ q = run'[r] /\ p \in RunType
  BY RunnerFields
<1>2. RunnerMoves(r, p, q) /\ p.seq \in Nat
  BY <1>1 DEF RunType
<1>3. Forth(p, q)
  BY <1>2 DEF RunnerMoves
<1>4. q.pc \notin {"select", "join"} => q.work = "none"
  BY <1>1 DEF Clients, RunnerSound
<1>5. p.work = "delta" => Early(p) /\ ~Doomed(p)
  BY <1>1, Streams
<1>6. CASE Passes(p, q)
  <2>1. q.work = "delta" => p.work = "delta" /\ q.call = p.call
    BY <1>4, <1>6 DEF Passes, Ended
  <2>2. p.work = "delta" => q.work = "delta" /\ q.call = p.call
    BY <1>4, <1>6 DEF Passes, Ended
  <2>3. Follows(p, q)
    BY <1>3, <1>6, <2>1, <2>2 DEF Follows, Forth, Passes
  <2>4. flights' = flights
    BY <1>6 DEF Passes, storeVars
  <2> QED
    BY <1>1, <2>3, <2>4
<1>7. CASE Hears(p, q)
  <2>1. q.work # "delta"
    BY <1>7 DEF Hears, Waits
  <2>4. Follows(p, q)
    <3>1. p.work = "delta" /\ q.seq = p.seq => Doomed(q)
      BY <1>2, <1>7 DEF Hears
    <3>2. q.seq = p.seq \/ (p.work = "delta" /\ Landed(p) /\ q.seq = p.seq + 1)
      BY <1>7 DEF Hears
    <3> QED
      BY <1>3, <2>1, <3>1, <3>2 DEF Follows, Forth
  <2>5. flights' \subseteq flights
    BY <1>7 DEF Hears, Executes, Lose, storeVars
  <2> QED
    BY <1>1, <2>4, <2>5
<1>8. ASSUME NEW t \in Nat, NEW next \in Record, Sends(r, p, q, t, next)
      PROVE  Follows(p, q) /\ \A f \in flights' \ flights : Honest(f)
  <2>1. PICK f : f = Message(r, "cas", t, rec, next)
    OBVIOUS
  <2>2. /\ f.from = r /\ f.kind = "cas" /\ f.expect = rec /\ f.next = next
        /\ q.call = f /\ flights' \ flights \subseteq {f}
    BY <1>8, <2>1, MessageIs DEF Sends, CompareAndSet, Send
  <2>3. p.work # "delta" /\ q.seq = p.seq
    BY <1>8 DEF Sends, Waits
  <2>4. q.work = "delta" => /\ rec.owner = r /\ next.state = "running" /\ Counts(rec) = p.seq /\ Counts(next) = p.seq + 1
    BY <1>8 DEF Sends
  <2>5. q.work # "delta" => Counts(next) = Counts(rec)
    BY <1>8 DEF Sends
  <2>6. Follows(p, q)
    BY <1>2, <1>3, <2>2, <2>3, <2>4 DEF Follows, Forth
  <2>7. DeltaOf(f, q)
    BY <2>2, <2>3, <2>4, <2>5 DEF DeltaOf
  <2>8. CommitOf(f, q)
    <3>1. SUFFICES ASSUME next.state = "committing" PROVE rec.owner = r /\ Counts(rec) = q.seq /\ ~Early(q)
      BY <2>2 DEF CommitOf
    <3>2. rec.owner = r /\ ~Early(p) /\ ~Doomed(p)
      BY <1>8, <3>1 DEF Sends
    <3>3. claimant = r
      BY <3>2, RecordAssumption DEF OwnedByClaimant, Runners
    <3>4. Recorded(p)
      BY <1>1, <3>3 DEF SentInv
    <3> QED
      BY <1>3, <2>3, <3>2, <3>4 DEF Recorded, Forth
  <2>9. Honest(f)
    BY <1>1, <2>2, <2>7, <2>8 DEF Honest
  <2> QED
    BY <2>2, <2>6, <2>9
<1> QED
  BY <1>1, <1>2, <1>6, <1>7, <1>8 DEF RunnerMoves

\* A write that was honest stays so.
LEMMA StaysHonest ==
    ASSUME ClientInv, NEW r \in Runners, NEW p, p = run[r], NEW q, Follows(p, q),
           NEW f \in flights, f \in flights', f.from = r, DeltaOf(f, p), CommitOf(f, p)
    PROVE  DeltaOf(f, q) /\ CommitOf(f, q)
<1>1. p.work = "delta" => Early(p) /\ ~Doomed(p)
  BY Streams
<1>2. CASE p.work = "delta" /\ Landed(p) /\ q.seq = p.seq + 1
  <2>1. p.call \notin flights'
    BY <1>2 DEF Landed, Executes
  <2> QED
    BY <1>1, <1>2, <2>1 DEF DeltaOf, CommitOf
<1>3. CASE /\ q.seq = p.seq /\ (Doomed(p) => Doomed(q))
           /\ p.work = "delta" => Doomed(q) \/ (q.work = "delta" /\ q.call = p.call)
  <2>1. DeltaOf(f, q)
    BY <1>3 DEF DeltaOf
  <2>2. CommitOf(f, q)
    BY <1>3 DEF CommitOf, Follows
  <2> QED
    BY <2>1, <2>2
<1> QED
  BY <1>2, <1>3 DEF Follows

\* What a write does to the count of the record.
LEMMA WriteCounts ==
    ASSUME ClientInv, SentInv, OwnedByClaimant, NEW f \in flights, Executes(f), rec.state # "absent",
           NEW r \in Runners, claimant = r
    PROVE  \/ /\ Counts(rec') = Counts(rec)
              /\ rec'.state \in {"committing", "completed"} => rec.state \in {"committing", "completed"} \/ Counts(rec) = run[r].seq
           \/ /\ f.kind = "cas" /\ rec = f.expect /\ rec' = f.next /\ f.from = r
              /\ Counts(rec) = run[r].seq /\ Counts(rec') = run[r].seq + 1 /\ rec'.state = "running"
              /\ Doomed(run[r]) \/ (run[r].work = "delta" /\ f = run[r].call)
<1>1. rec' = Outcome(f, rec) /\ TheModel \in Models
  BY TheModelType DEF Executes, Execute
<1>2. f.kind \in {"claim", "cancel", "cas"} /\ FlightOK(f)
  BY DEF ClientInv, StoreInv, StoreTypeOK, Flight
<1>3. CASE rec' = rec
  BY <1>3
<1>4. CASE rec.bare /\ rec' = Enriched(rec)
  <2>1. rec'.model = rec.model /\ rec'.state = "cancelled"
    BY <1>4, AbsentOrLive, EnrichedGood
  <2> QED
    BY <2>1 DEF Counts
<1>5. CASE f.kind = "cancel" /\ rec = f.expect /\ rec' = f.next
  <2>1. rec' = rec \/ rec'.state = "cancelling"
    BY <1>5 DEF SentInv
  <2>2. GoodWrite(rec, rec')
    BY <1>2, <1>5 DEF FlightOK
  <2>3. rec'.state = "cancelling" => Counts(rec') = Counts(rec)
    BY <1>1, <2>2 DEF GoodWrite, Forward, EntryGrows, Counts
  <2> QED
    BY <1>3, <2>1, <2>3
<1>6. CASE f.kind = "cas" /\ rec = f.expect /\ rec' = f.next
  <2>1. DeltaOf(f, run[f.from]) /\ CommitOf(f, run[f.from])
    BY <1>6 DEF SentInv
  <2>2. rec.owner = f.from /\ f.from \in Runners => f.from = r
    BY RecordAssumption DEF OwnedByClaimant, Runners
  <2>3. CASE Counts(rec') # Counts(rec)
    BY <1>6, <2>1, <2>2, <2>3 DEF DeltaOf
  <2>4. CASE Counts(rec') = Counts(rec)
    <3>1. rec' = rec \/ rec'.state \in Successors(rec.state)
      BY <1>2, <1>6 DEF FlightOK, GoodWrite, Forward
    <3>2. rec'.state = "completed" => rec' = rec \/ rec.state = "committing"
      BY <3>1 DEF Successors
    <3>3. rec'.state = "committing" => rec.state = "committing" \/ Counts(rec) = run[r].seq
      BY <1>6, <2>1, <2>2 DEF CommitOf
    <3> QED
      BY <2>4, <3>2, <3>3
  <2> QED
    BY <2>3, <2>4
<1>7. \/ rec' = rec
      \/ rec.bare /\ rec' = Enriched(rec)
      \/ f.kind = "cancel" /\ rec = f.expect /\ rec' = f.next
      \/ f.kind = "cas" /\ rec = f.expect /\ rec' = f.next
  BY <1>1, <1>2 DEF Outcome
<1> QED
  BY <1>3, <1>4, <1>5, <1>6, <1>7

LEMMA RecordedKeeps ==
    ASSUME ClientInv, Clients', ClaimsOnce, OwnedByClaimant, SentInv, StoreSide, NEW r \in Runners,
           Follows(run[r], run'[r]), claimant' = r
    PROVE  \/ Counts(rec') = run'[r].seq
           \/ Counts(rec') = run'[r].seq + 1 /\ Doomed(run'[r]) /\ rec'.state \notin {"committing", "completed"}
<1>1. PICK p, q : p = run[r] /\ q = run'[r] /\ p \in RunType /\ RunnerSound(r, p, flights, issued, now)
  BY RunnerFields
<1>2. Follows(p, q) /\ p.seq \in Nat /\ r # NoOwner
  BY <1>1, RecordAssumption DEF RunType, Runners
<1>3. q.work = "delta" => q.call \in flights'
  BY <1>1 DEF Clients, RunnerSound, Pending
<1>4. SUFFICES \/ Counts(rec') = q.seq
               \/ Counts(rec') = q.seq + 1 /\ Doomed(q) /\ rec'.state \notin {"committing", "completed"}
  BY <1>1
<1>5. CASE p.work = "delta" /\ Landed(p) /\ q.seq = p.seq + 1
  <2>1. p.call \in flights /\ p.call.from = r /\ p.call.kind = "cas" /\ Counts(p.call.next) # Counts(p.call.expect)
    BY <1>1, <1>5, Streams DEF RunnerSound, Pending, SentInv
  <2>2. DeltaOf(p.call, p)
    BY <1>1, <2>1 DEF SentInv
  <2>3. p.call.expect.owner = r /\ Counts(p.call.next) = p.seq + 1
    BY <2>1, <2>2 DEF DeltaOf
  <2>4. rec.state # "absent"
    BY <1>2, <1>5, <2>3, AbsentOrLive, AbsentType DEF Landed
  <2>5. rec' = p.call.next
    BY <1>5, <2>1, <2>4 DEF Landed, Executes, Execute, Outcome
  <2> QED
    BY <1>5, <2>3, <2>5
<1>6. CASE /\ q.seq = p.seq /\ (Doomed(p) => Doomed(q))
           /\ p.work = "delta" => Doomed(q) \/ (q.work = "delta" /\ q.call = p.call)
  <2>1. CASE UNCHANGED <<rec, claimant>>
    BY <1>1, <1>6, <2>1 DEF SentInv, Recorded
  <2>2. ASSUME NEW f \in flights, Executes(f), rec.state # "absent"
        PROVE  \/ Counts(rec') = q.seq
               \/ Counts(rec') = q.seq + 1 /\ Doomed(q) /\ rec'.state \notin {"committing", "completed"}
    <3>1. claimant = r
      BY <2>2, LifeByWrite
    <3>2. Recorded(p)
      BY <1>1, <3>1 DEF SentInv
    <3>3. f \notin flights'
      BY <2>2 DEF Executes
    <3>4. \/ /\ Counts(rec') = Counts(rec)
             /\ rec'.state \in {"committing", "completed"} => rec.state \in {"committing", "completed"} \/ Counts(rec) = p.seq
          \/ /\ Counts(rec') = p.seq + 1 /\ rec'.state = "running"
             /\ Doomed(p) \/ (p.work = "delta" /\ f = p.call)
      BY <1>1, <2>2, <3>1, WriteCounts
    <3>5. CASE /\ Counts(rec') = Counts(rec)
               /\ rec'.state \in {"committing", "completed"} => rec.state \in {"committing", "completed"} \/ Counts(rec) = p.seq
      BY <1>2, <1>6, <3>2, <3>5 DEF Recorded
    <3>6. CASE /\ Counts(rec') = p.seq + 1 /\ rec'.state = "running"
               /\ Doomed(p) \/ (p.work = "delta" /\ f = p.call)
      <4>1. Doomed(q)
        BY <1>3, <1>6, <3>3, <3>6
      <4> QED
        BY <1>6, <3>6, <4>1
    <3> QED
      BY <3>4, <3>5, <3>6
  <2>3. ASSUME NEW f \in flights, Executes(f), rec.state = "absent"
        PROVE  Counts(rec') = q.seq
    <3>1. claimant # r
      BY <1>2, <2>3 DEF OwnedByClaimant
    <3>2. PICK g \in flights : g.kind = "claim" /\ g.from = r /\ rec' = g.next
      BY <3>1, ClaimantSteps
    <3>3. g.next.model = Untouched("running") /\ p.seq = 0
      BY <1>1, <3>2 DEF ClaimsOnce
    <3>4. PICK e \in ModelState : e = "running"
      BY DEF ModelState
    <3>5. Untouched(e)[TheModel].seq = 0
      BY UntouchedType, TheModelType
    <3> QED
      BY <1>6, <3>2, <3>3, <3>4, <3>5 DEF Counts
  <2>4. CASE TimePasses
    <3>1. rec' = rec /\ claimant' = claimant
      BY <1>2, <2>4, TimeDrops
    <3> QED
      BY <1>1, <1>6, <3>1 DEF SentInv, Recorded
  <2> QED
    BY <2>1, <2>2, <2>3, <2>4 DEF StoreSide
<1> QED
  BY <1>2, <1>5, <1>6 DEF Follows

LEMMA StepFollows ==
    ASSUME ClientInv, Clients', StoreInv', CallsAwaited, SentInv, OwnedByClaimant, [Next]_vars
    PROVE  /\ \A r \in Runners : Follows(run[r], run'[r])
           /\ \A f \in flights' \ flights : Honest(f)
           /\ StoreSide \/ \E r \in Runners : Claim(r)
<1>1. ASSUME NEW r \in Runners, run'[r] = run[r] \/ Still(run[r], run'[r]) PROVE Follows(run[r], run'[r])
  <2>1. PICK p, q : p = run[r] /\ q = run'[r]
    OBVIOUS
  <2>2. q = p \/ Still(p, q)
    BY <1>1, <2>1
  <2>3. Follows(p, q)
    BY <2>2, StillFollows
  <2> QED
    BY <2>1, <2>3
<1>2. CASE \E r \in Runners : Claim(r) /\ \A o \in Runners \ {r} : run'[o] = run[o]
  BY <1>1, <1>2, ClaimFollows
<1>3. CASE \E r \in Runners : RunnerMoves(r, run[r], run'[r]) /\ StoreSide /\ \A o \in Runners \ {r} : run'[o] = run[o]
  BY <1>1, <1>3, MovesFollow
<1>4. CASE Bystanding /\ StoreSide /\ \A r \in Runners : Still(run[r], run'[r])
  <2>1. ASSUME NEW f \in flights' \ flights PROVE Honest(f)
    <3>1. Plain(f)
      BY <1>4, BystandersSend
    <3>2. f.kind = "cas" => GoodWrite(f.expect, f.next)
      BY DEF StoreInv, FlightOK
    <3>3. f.kind = "cas" => Counts(f.next) = Counts(f.expect) /\ f.next.state # "committing"
      BY <3>1, <3>2, TheModelType DEF Plain, GoodWrite, Forward, EntryGrows, Counts
    <3> QED
      BY <3>1, <3>3 DEF Honest, Plain, DeltaOf, CommitOf
  <2> QED
    BY <1>1, <1>4, <2>1
<1> QED
  BY <1>2, <1>3, <1>4, StepKinds

LEMMA SentInvKeeps ==
    ASSUME ClientInv, Clients', StoreInv', CallsAwaited, ClaimsOnce, OwnedByClaimant, SentInv, [Next]_vars
    PROVE  SentInv'
<1>1. /\ \A r \in Runners : Follows(run[r], run'[r])
      /\ \A f \in flights' \ flights : Honest(f)
      /\ StoreSide \/ \E r \in Runners : Claim(r)
  BY StepFollows
<1>2. ASSUME NEW f \in flights' PROVE Honest(f)
  <2>1. CASE f \notin flights
    BY <1>1, <2>1
  <2>2. CASE f \in flights
    <3>1. f.kind = "cancel" => f.next = f.expect \/ f.next.state = "cancelling"
      BY <2>2 DEF SentInv
    <3>2. ASSUME f.kind = "cas", f.from \in Runners PROVE DeltaOf(f, run'[f.from]) /\ CommitOf(f, run'[f.from])
      <4>1. PICK r \in Runners : r = f.from
        BY <3>2
      <4>2. PICK p, q : p = run[r] /\ q = run'[r]
        OBVIOUS
      <4>3. DeltaOf(f, p) /\ CommitOf(f, p) /\ Follows(p, q)
        BY <1>1, <2>2, <3>2, <4>1, <4>2 DEF SentInv
      <4>4. DeltaOf(f, q) /\ CommitOf(f, q)
        BY <2>2, <4>1, <4>2, <4>3, StaysHonest
      <4> QED
        BY <4>1, <4>2, <4>4
    <3>3. ASSUME f.kind = "cas", f.from \notin Runners PROVE DeltaOf(f, run'[f.from]) /\ CommitOf(f, run'[f.from])
      BY <2>2, <3>3 DEF SentInv, DeltaOf, CommitOf
    <3> QED
      BY <3>1, <3>2, <3>3 DEF Honest
  <2> QED
    BY <2>1, <2>2
<1>3. ASSUME NEW r \in Runners, claimant' = r
      PROVE  \/ Counts(rec') = run'[r].seq
             \/ Counts(rec') = run'[r].seq + 1 /\ Doomed(run'[r]) /\ rec'.state \notin {"committing", "completed"}
  <2>1. CASE StoreSide
    BY <1>1, <1>3, <2>1, RecordedKeeps
  <2>2. ASSUME NEW c \in Runners, Claim(c)
        PROVE  \/ Counts(rec') = run'[r].seq
               \/ Counts(rec') = run'[r].seq + 1 /\ Doomed(run'[r]) /\ rec'.state \notin {"committing", "completed"}
    <3>1. UNCHANGED <<rec, claimant>> /\ run[c].pc = "idle"
      BY <2>2, ClaimSends
    <3>2. r # c
      BY <1>3, <3>1 DEF ClaimsOnce
    <3>3. run'[r] = run[r]
      BY <2>2, <3>2, OthersStill DEF RunnerStep
    <3> QED
      BY <1>3, <3>1, <3>3 DEF SentInv, Recorded
  <2> QED
    BY <1>1, <2>1, <2>2
<1>4. ASSUME NEW r \in Runners, run'[r].work = "delta"
      PROVE  run'[r].call.kind = "cas" /\ Counts(run'[r].call.next) # Counts(run'[r].call.expect)
  BY <1>1, <1>4 DEF Follows, SentInv
<1> QED
  BY <1>2, <1>3, <1>4 DEF SentInv, Honest, Recorded, DeltaOf, CommitOf, Counts, Doomed, Early

LEMMA SentInit == Init => SentInv
<1> SUFFICES ASSUME Init PROVE SentInv
  OBVIOUS
<1>1. flights = {} /\ claimant = NoOwner /\ \A r \in Runners : run[r].work = "none"
  BY DEF Init, StoreInit
<1> QED
  BY <1>1, RecordAssumption DEF SentInv, Runners

LEMMA SingleSent == Spec => [](ClientInv /\ CallsAwaited /\ VerdictInv /\ SentInv)
<1>1. Init => SentInv
  BY SentInit
<1>2. ClientInv /\ CallsAwaited /\ VerdictInv /\ SentInv /\ (ClientInv /\ CallsAwaited /\ VerdictInv)' /\ [Next]_vars => SentInv'
  BY SentInvKeeps DEF VerdictInv, ClientInv
<1> QED
  BY <1>1, <1>2, SingleVerdicts, PTL DEF Spec

\* The record counts every delta the client got, one more at most, and a commit begins with
\* exactly what was sent, for any number of runners, lost replies and late commands (consume,
\* renew, MarkModelDone, BeginCommit).
THEOREM SingleSentIsRecorded == Spec => []SentIsRecorded
<1>1. SentInv => SentIsRecorded
  BY DEF SentInv, Recorded, SentIsRecorded, Counts
<1> QED
  BY <1>1, SingleSent, PTL

----------------------------------------------------------------------------
(* The charge and the record *)

Surroundings ==
    \/ \E f \in flights : Stray(f)
    \/ SessionLost \/ DeleteConversation \/ TimePasses \/ UNCHANGED vars

\* The step that is taken, and who takes it.
LEMMA StepTakers ==
    ASSUME ClientInv, CallsAwaited, [Next]_vars
    PROVE  \/ \E r \in Runners : Claim(r) /\ \A o \in Runners \ {r} : run'[o] = run[o]
           \/ \E r \in Runners : RunnerMoves(r, run[r], run'[r]) /\ \A o \in Runners \ {r} : run'[o] = run[o]
           \/ \E v \in Convergers : ConvergerMoves(v, conv[v], conv'[v])
           \/ \E c \in Cancellers : CancellerMoves(c, canc[c], canc'[c]) /\ \A r \in Runners : Still(run[r], run'[r])
           \/ Surroundings
<1>1. ASSUME NEW v \in Convergers, ConvergerStep(v) PROVE ConvergerMoves(v, conv[v], conv'[v])
  BY <1>1, ConvergersMove
<1>2. ASSUME NEW c \in Cancellers, CancellerStep(c)
      PROVE  CancellerMoves(c, canc[c], canc'[c]) /\ \A r \in Runners : Still(run[r], run'[r])
  BY <1>2, CancellersMove, CancellersSide
<1> QED
  BY <1>1, <1>2, StepKinds DEF Bystanding, Surroundings

\* The charge is there or not, and whose it is.
SameCharge == receipt' = receipt \/ (receipt # NoReceipt /\ receipt' # NoReceipt /\ receipt'.by = receipt.by)

Charges(r) ==
    /\ run[r].pc = "persist" /\ lock = r /\ receipt = NoReceipt /\ receipt' = [by |-> r, alive |-> TRUE]
    /\ receipt' # NoReceipt /\ receipt'.by = r /\ run'[r].pc \notin {"idle", "claiming"}
    /\ UNCHANGED <<rec, claimant, conv, canc>>

LEMMA Deletion == ASSUME ClientInv, DeleteConversation PROVE SameCharge
<1>1. receipt \in [by : Runners, alive : BOOLEAN] /\ receipt' = [receipt EXCEPT !.alive = FALSE]
  BY DEF ClientInv, SingleTypeOK, DeleteConversation
<1>2. receipt' \in [by : Runners, alive : BOOLEAN] /\ receipt'.by = receipt.by
  BY <1>1
<1> QED
  BY <1>1, <1>2, SingleAssumption DEF SameCharge

LEMMA NotWaiting ==
    ASSUME ClientInv, NEW r \in Runners,
           run[r].pc \notin Calling \cup {"claiming", "select", "join"}
    PROVE  ~Waits(run[r])
BY RunnerFields DEF RunnerSound, Waits

LEMMA ChargeSteps ==
    ASSUME ClientInv, CallsAwaited, [Next]_vars
    PROVE  SameCharge \/ \E r \in Runners : Charges(r)
<1>1. ASSUME NEW r \in Runners, RunnerMoves(r, run[r], run'[r]) PROVE SameCharge \/ Charges(r)
  <2>1. PICK p, q : p = run[r] /\ q = run'[r]
    OBVIOUS
  <2>2. RunnerMoves(r, p, q)
    BY <1>1, <2>1
  <2>3. CASE UNCHANGED receipt
    BY <2>3 DEF SameCharge
  <2>4. CASE p.pc = "persist" /\ lock = r /\ receipt = NoReceipt /\ receipt' = [by |-> r, alive |-> TRUE]
    <3>1. ~Waits(p)
      BY <2>1, <2>4, NotWaiting DEF Calling
    <3>2. receipt' # NoReceipt /\ receipt'.by = r
      <4>1. PICK x : x = [by |-> r, alive |-> TRUE]
        OBVIOUS
      <4>2. x \in [by : Runners, alive : BOOLEAN] /\ x.by = r
        BY <4>1
      <4>3. receipt' = x
        BY <2>4, <4>1
      <4>4. NoReceipt \notin [by : Runners, alive : BOOLEAN]
        BY Zenon, SingleAssumption
      <4> QED
        BY <4>2, <4>3, <4>4
    <3>3. Passes(p, q)
      BY <2>2, <2>4, <3>1, <3>2 DEF RunnerMoves, Hears, Sends
    <3>4. UNCHANGED <<rec, claimant, conv, canc>>
      BY <2>2, <3>3 DEF RunnerMoves, Passes, storeVars
    <3>5. q.pc \notin {"idle", "claiming"}
      BY <2>2 DEF RunnerMoves, Forth
    <3> QED
      BY <2>1, <2>4, <3>2, <3>4, <3>5 DEF Charges
  <2> QED
    BY <2>2, <2>3, <2>4 DEF RunnerMoves, Guards
<1>2. ASSUME NEW r \in Runners, Claim(r) PROVE SameCharge
  BY <1>2, ClaimSends DEF SameCharge
<1>3. CASE Surroundings
  BY <1>3, Deletion DEF Surroundings, SameCharge, Stray, SessionLost, TimePasses, vars
<1>4. ASSUME NEW v \in Convergers, ConvergerMoves(v, conv[v], conv'[v]) PROVE SameCharge
  BY <1>4 DEF ConvergerMoves, SameCharge
<1>5. ASSUME NEW c \in Cancellers, CancellerMoves(c, canc[c], canc'[c]) PROVE SameCharge
  BY <1>5 DEF CancellerMoves, SameCharge
<1> QED
  BY <1>1, <1>2, <1>3, <1>4, <1>5, StepTakers

\* A record that commits is completed if it is charged for, and otherwise failed under the lock.
LEMMA Decided ==
    ASSUME ClientInv, ChargeInv, NEW f \in flights, Executes(f), rec.state = "committing"
    PROVE  \/ rec' = rec
           \/ receipt # NoReceipt /\ rec'.state = "completed"
           \/ receipt = NoReceipt /\ rec'.state = "failed" /\ \E v \in Convergers : lock = v
<1>1. rec' = Outcome(f, rec) /\ f.kind \in {"claim", "cancel", "cas"} /\ f # NoCall
  BY SingleAssumption DEF Executes, Execute, ClientInv, StoreInv, StoreTypeOK, Flight
<1>2. ~rec.bare
  BY AbsentOrLive, LiveState DEF Live
<1>3. rec' = rec \/ (f.expect = rec /\ rec' = f.next)
  BY <1>1, <1>2 DEF Outcome
<1>4. SUFFICES ASSUME f.expect = rec, rec' = f.next
               PROVE  \/ rec' = rec
                      \/ receipt # NoReceipt /\ rec'.state = "completed"
                      \/ receipt = NoReceipt /\ rec'.state = "failed" /\ \E v \in Convergers : lock = v
  BY <1>3
<1>5. ASSUME NEW r \in Runners, f = run[r].call PROVE receipt # NoReceipt /\ rec'.state = "completed"
  BY <1>1, <1>4, <1>5 DEF ChargeInv, Deciding, RunDecides
<1>6. ASSUME NEW v \in Convergers, f = conv[v].call
      PROVE  \/ receipt # NoReceipt /\ rec'.state = "completed"
             \/ receipt = NoReceipt /\ rec'.state = "failed" /\ lock = v
  BY <1>1, <1>4, <1>6 DEF ChargeInv, Deciding, ConvDecides, UnderLock, Resolving
<1>7. ASSUME NEW c \in Cancellers, f = canc[c].call PROVE rec' = rec
  BY <1>1, <1>4, <1>7 DEF ChargeInv, Deciding, CancDecides
<1>8. f \in Awaited
  BY DEF ChargeInv, NothingStray
<1> QED
  BY <1>5, <1>6, <1>7, <1>8 DEF Awaited

----------------------------------------------------------------------------
(* Nothing is in flight that nobody waits for *)

\* What is known before a step, where no session is lost and no command outlives its caller.
Stage == /\ ClientInv /\ CallsAwaited /\ VerdictInv /\ ChargeInv /\ ClientInv'
         /\ MaxSessions = 0 /\ MaxDelayed = 0

LEMMA NoLateness == ASSUME Stage PROVE /\ ~(spent["delayed"] < MaxDelayed) /\ ~SessionLost
                                       /\ \A f \in flights : ~Stray(f)
<1>1. spent["delayed"] \in Nat /\ spent["sessions"] \in Nat
  BY DEF Stage, ClientInv, SingleTypeOK
<1>2. flights \subseteq Awaited
  BY DEF Stage, ChargeInv, NothingStray
<1> QED
  BY <1>1, <1>2 DEF Stage, SessionLost, Spend, Stray

\* A goroutine's call is replaced in flight by its next one.
Hands(p, q) == flights' \subseteq flights \cup {q.call} /\ (p.call \in flights' => p.call = q.call)

LEMMA NoCallFlies == ASSUME Stage PROVE NoCall \notin flights /\ NoCall \notin flights'
<1>1. flights \subseteq Flight /\ flights' \subseteq Flight
  BY DEF Stage, ClientInv, StoreInv, StoreTypeOK
<1> QED
  BY <1>1, CallersApart

LEMMA AnsweredHands == ASSUME Stage, NEW p, NEW q, Answered(p.call) PROVE Hands(p, q)
<1>1. Executes(p.call) => flights' = flights \ {p.call}
  BY DEF Executes
<1>2. Lose(p.call) => flights' = flights \ {p.call}
  BY DEF Lose
<1> QED
  BY <1>1, <1>2, NoLateness DEF Answered, Hands

LEMMA MovesHands == ASSUME Stage, NEW r \in Runners, RunnerMoves(r, run[r], run'[r]) PROVE Hands(run[r], run'[r])
<1>1. PICK p, q : p = run[r] /\ q = run'[r]
  OBVIOUS
<1>2. (p.call # NoCall => Waits(p)) /\ (q.pc \notin {"select", "join"} => q.work = "none" /\ q.renew = "none")
  <2>1. RunnerSound(r, q, flights', issued', now')
    BY <1>1 DEF Stage, ClientInv, Clients
  <2> QED
    BY <1>1, <2>1 DEF Stage, CallsAwaited, RunnerSound
<1>3. ASSUME Passes(p, q) PROVE Hands(p, q)
  <2>1. flights' = flights
    BY <1>3 DEF Passes, storeVars
  <2>2. q.call = p.call \/ p.call = NoCall
    BY <1>2, <1>3 DEF Passes, Waits, Ended, Calling
  <2> QED
    BY <2>1, <2>2, NoCallFlies DEF Hands
<1>4. ASSUME Hears(p, q) PROVE Hands(p, q)
  BY <1>4, AnsweredHands DEF Hears, Answered
<1>5. ASSUME NEW t \in Nat, NEW next \in Record, Sends(r, p, q, t, next) PROVE Hands(p, q)
  <2>1. p.call = NoCall /\ flights' = flights \cup {q.call}
    BY <1>2, <1>5 DEF Sends, CompareAndSet, Send
  <2> QED
    BY <2>1, NoCallFlies DEF Hands
<1>6. RunnerMoves(r, p, q)
  BY <1>1
<1>7. Hands(p, q)
  BY <1>3, <1>4, <1>5, <1>6 DEF RunnerMoves
<1> QED
  BY <1>1, <1>7

LEMMA ConvergerHands == ASSUME Stage, NEW v \in Convergers, ConvergerMoves(v, conv[v], conv'[v]) PROVE Hands(conv[v], conv'[v])
<1>1. PICK p, q : p = conv[v] /\ q = conv'[v]
  OBVIOUS
<1>2. p.call # NoCall => p.pc \in {"writing", "resolving"}
  BY <1>1 DEF Stage, ChargeInv, NothingStray
<1>3. ASSUME ConvPasses(v, p, q) PROVE Hands(p, q)
  <2>1. flights' = flights /\ p.call = NoCall
    BY <1>2, <1>3 DEF ConvPasses, storeVars
  <2> QED
    BY <2>1, NoCallFlies DEF Hands
<1>4. ASSUME ConvHears(p, q) PROVE Hands(p, q)
  BY <1>4, AnsweredHands DEF ConvHears
<1>5. ASSUME NEW t \in Nat, NEW next \in Record, ConvSends(v, p, q, t, next) PROVE Hands(p, q)
  <2>1. p.call = NoCall /\ flights' = flights \cup {q.call}
    BY <1>2, <1>5 DEF ConvSends, CompareAndSet, Send
  <2> QED
    BY <2>1, NoCallFlies DEF Hands
<1>6. ConvergerMoves(v, p, q)
  BY <1>1
<1>7. Hands(p, q)
  BY <1>3, <1>4, <1>5, <1>6 DEF ConvergerMoves
<1> QED
  BY <1>1, <1>7

LEMMA CancellerHands == ASSUME Stage, NEW c \in Cancellers, CancellerMoves(c, canc[c], canc'[c]) PROVE Hands(canc[c], canc'[c])
<1>1. PICK p, q : p = canc[c] /\ q = canc'[c]
  OBVIOUS
<1>2. p.call # NoCall => p.pc = "asking"
  BY <1>1 DEF Stage, ChargeInv, NothingStray
<1>3. ASSUME CancPasses(p, q) PROVE Hands(p, q)
  <2>1. flights' = flights /\ p.call = NoCall
    BY <1>2, <1>3 DEF CancPasses, storeVars
  <2> QED
    BY <2>1, NoCallFlies DEF Hands
<1>4. ASSUME CancHears(p, q) PROVE Hands(p, q)
  BY <1>4, AnsweredHands DEF CancHears
<1>5. ASSUME NEW t \in Nat, CancSends(c, p, q, t) PROVE Hands(p, q)
  <2>1. p.call = NoCall /\ flights' = flights \cup {q.call}
    BY <1>2, <1>5 DEF CancSends, SendCancel, Send
  <2> QED
    BY <2>1, NoCallFlies DEF Hands
<1>6. CancellerMoves(c, p, q)
  BY <1>1
<1>7. Hands(p, q)
  BY <1>3, <1>4, <1>5, <1>6 DEF CancellerMoves
<1> QED
  BY <1>1, <1>7

\* One goroutine handed its call on, and the others have theirs.
LEMMA HandsOn ==
    ASSUME Stage,
           \/ \E r \in Runners : /\ Hands(run[r], run'[r]) /\ UNCHANGED <<conv, canc>>
                                 /\ \A o \in Runners \ {r} : run'[o] = run[o]
           \/ \E v \in Convergers : /\ Hands(conv[v], conv'[v]) /\ UNCHANGED <<run, canc>>
                                    /\ \A o \in Convergers \ {v} : conv'[o] = conv[o]
           \/ \E c \in Cancellers : /\ Hands(canc[c], canc'[c]) /\ UNCHANGED conv
                                    /\ \A r \in Runners : run'[r].call = run[r].call
                                    /\ \A o \in Cancellers \ {c} : canc'[o] = canc[o]
    PROVE  flights' \subseteq Awaited'
<1>1. flights \subseteq Awaited
  BY DEF Stage, ChargeInv, NothingStray
<1>2. ASSUME NEW r \in Runners, Hands(run[r], run'[r]), UNCHANGED <<conv, canc>>, \A o \in Runners \ {r} : run'[o] = run[o],
             NEW f \in flights'
      PROVE  f \in Awaited'
  <2>1. run'[r].call \in Awaited'
    BY DEF Awaited
  <2>2. f \in flights \/ f = run'[r].call
    BY <1>2 DEF Hands
  <2>3. ASSUME NEW o \in Runners, f = run[o].call PROVE f \in Awaited'
    <3>1. CASE o = r
      BY <1>2, <2>1, <2>3, <3>1 DEF Hands
    <3>2. CASE o # r
      BY <1>2, <2>3, <3>2 DEF Awaited
    <3> QED
      BY <3>1, <3>2
  <2>4. f \in {conv[v].call : v \in Convergers} \cup {canc[c].call : c \in Cancellers} => f \in Awaited'
    BY <1>2 DEF Awaited
  <2> QED
    BY <1>1, <2>1, <2>2, <2>3, <2>4 DEF Awaited
<1>3. ASSUME NEW v \in Convergers, Hands(conv[v], conv'[v]), UNCHANGED <<run, canc>>, \A o \in Convergers \ {v} : conv'[o] = conv[o],
             NEW f \in flights'
      PROVE  f \in Awaited'
  <2>1. conv'[v].call \in Awaited'
    BY DEF Awaited
  <2>2. f \in flights \/ f = conv'[v].call
    BY <1>3 DEF Hands
  <2>3. ASSUME NEW o \in Convergers, f = conv[o].call PROVE f \in Awaited'
    <3>1. CASE o = v
      BY <1>3, <2>1, <2>3, <3>1 DEF Hands
    <3>2. CASE o # v
      BY <1>3, <2>3, <3>2 DEF Awaited
    <3> QED
      BY <3>1, <3>2
  <2>4. f \in {run[r].call : r \in Runners} \cup {canc[c].call : c \in Cancellers} => f \in Awaited'
    BY <1>3 DEF Awaited
  <2> QED
    BY <1>1, <2>1, <2>2, <2>3, <2>4 DEF Awaited
<1>4. ASSUME NEW c \in Cancellers, Hands(canc[c], canc'[c]), UNCHANGED conv, \A r \in Runners : run'[r].call = run[r].call,
             \A o \in Cancellers \ {c} : canc'[o] = canc[o], NEW f \in flights'
      PROVE  f \in Awaited'
  <2>1. canc'[c].call \in Awaited'
    BY DEF Awaited
  <2>2. f \in flights \/ f = canc'[c].call
    BY <1>4 DEF Hands
  <2>3. ASSUME NEW o \in Cancellers, f = canc[o].call PROVE f \in Awaited'
    <3>1. CASE o = c
      BY <1>4, <2>1, <2>3, <3>1 DEF Hands
    <3>2. CASE o # c
      BY <1>4, <2>3, <3>2 DEF Awaited
    <3> QED
      BY <3>1, <3>2
  <2>4. ASSUME NEW r \in Runners, f = run[r].call PROVE f \in Awaited'
    <3>1. run'[r].call \in Awaited'
      BY DEF Awaited
    <3> QED
      BY <1>4, <2>4, <3>1
  <2>5. f \in {conv[v].call : v \in Convergers} => f \in Awaited'
    BY <1>4 DEF Awaited
  <2> QED
    BY <1>1, <2>1, <2>2, <2>3, <2>4, <2>5 DEF Awaited
<1> QED
  BY <1>2, <1>3, <1>4

LEMMA NothingStrayKeeps == ASSUME Stage, [Next]_vars PROVE NothingStray'
<1>0. ClientInv /\ CallsAwaited
  BY DEF Stage
<1>1. flights' \subseteq Awaited'
  <2>1. ASSUME NEW r \in Runners, Claim(r), \A o \in Runners \ {r} : run'[o] = run[o]
        PROVE  Hands(run[r], run'[r]) /\ UNCHANGED <<conv, canc>>
    <3>1. flights' = flights \cup {run'[r].call} /\ run[r].pc = "idle" /\ UNCHANGED <<conv, canc>>
      BY <1>0, <2>1, ClaimSends
    <3>2. run[r].call = NoCall
      BY <1>0, <3>1, NotWaiting DEF CallsAwaited, Calling
    <3> QED
      BY <3>1, <3>2, NoCallFlies DEF Hands
  <2>2. CASE Surroundings
    <3>1. flights' = flights /\ UNCHANGED <<run, conv, canc>>
      BY <2>2, NoLateness DEF Surroundings, DeleteConversation, TimePasses, Tick, vars, storeVars
    <3> QED
      BY <3>1 DEF Stage, ChargeInv, NothingStray, Awaited
  <2>3. ASSUME NEW c \in Cancellers, CancellerMoves(c, canc[c], canc'[c]), \A r \in Runners : Still(run[r], run'[r])
        PROVE  /\ Hands(canc[c], canc'[c]) /\ UNCHANGED conv /\ \A r \in Runners : run'[r].call = run[r].call
               /\ \A o \in Cancellers \ {c} : canc'[o] = canc[o]
    BY <2>3, CancellerHands DEF CancellerMoves, Still
  <2>4. ASSUME NEW v \in Convergers, ConvergerMoves(v, conv[v], conv'[v])
        PROVE  Hands(conv[v], conv'[v]) /\ UNCHANGED <<run, canc>> /\ \A o \in Convergers \ {v} : conv'[o] = conv[o]
    BY <2>4, ConvergerHands DEF ConvergerMoves
  <2>5. ASSUME NEW r \in Runners, RunnerMoves(r, run[r], run'[r]) PROVE Hands(run[r], run'[r]) /\ UNCHANGED <<conv, canc>>
    BY <2>5, MovesHands DEF RunnerMoves
  <2> QED
    BY <1>0, <2>1, <2>2, <2>3, <2>4, <2>5, HandsOn, StepTakers
<1>2. \A r \in Runners : run'[r].call # NoCall => Waits(run[r])'
  BY <1>0, CallsAwaitedKeep DEF CallsAwaited
<1>3. \A v \in Convergers : conv'[v].call # NoCall => conv'[v].pc \in {"writing", "resolving"}
  <2>1. ASSUME NEW v \in Convergers, ConvergerMoves(v, conv[v], conv'[v]), conv'[v].call # NoCall
        PROVE  conv'[v].pc \in {"writing", "resolving"}
    <3>1. PICK p, q : p = conv[v] /\ q = conv'[v]
      OBVIOUS
    <3>2. p.call # NoCall => p.pc \in {"writing", "resolving"}
      BY <3>1 DEF Stage, ChargeInv, NothingStray
    <3>3. q.call # NoCall /\ ConvergerMoves(v, p, q)
      BY <2>1, <3>1
    <3>4. q.pc \in {"writing", "resolving"}
      BY <3>2, <3>3 DEF ConvergerMoves, ConvPasses, ConvHears, ConvSends
    <3> QED
      BY <3>1, <3>4
  <2>2. ASSUME NEW v \in Convergers, conv'[v] = conv[v], conv'[v].call # NoCall
        PROVE  conv'[v].pc \in {"writing", "resolving"}
    BY <2>2 DEF Stage, ChargeInv, NothingStray
  <2>3. \A v \in Convergers : conv'[v] = conv[v] \/ ConvergerMoves(v, conv[v], conv'[v])
    <3>1. ASSUME NEW r \in Runners, Claim(r) PROVE UNCHANGED conv
      BY <1>0, <3>1, ClaimSends
    <3>2. Surroundings => UNCHANGED conv
      BY DEF Surroundings, Stray, SessionLost, DeleteConversation, TimePasses, vars
    <3> QED
      BY <1>0, <3>1, <3>2, StepTakers DEF RunnerMoves, ConvergerMoves, CancellerMoves
  <2> QED
    BY <2>1, <2>2, <2>3
<1>4. \A c \in Cancellers : canc'[c].call # NoCall => canc'[c].pc = "asking"
  <2>1. ASSUME NEW c \in Cancellers, CancellerMoves(c, canc[c], canc'[c]), canc'[c].call # NoCall
        PROVE  canc'[c].pc = "asking"
    BY <2>1 DEF CancellerMoves, CancPasses, CancHears, CancSends
  <2>2. ASSUME NEW c \in Cancellers, canc'[c] = canc[c], canc'[c].call # NoCall
        PROVE  canc'[c].pc = "asking"
    BY <2>2 DEF Stage, ChargeInv, NothingStray
  <2>3. \A c \in Cancellers : canc'[c] = canc[c] \/ CancellerMoves(c, canc[c], canc'[c])
    <3>1. ASSUME NEW r \in Runners, Claim(r) PROVE UNCHANGED canc
      BY <1>0, <3>1, ClaimSends
    <3>2. Surroundings => UNCHANGED canc
      BY DEF Surroundings, Stray, SessionLost, DeleteConversation, TimePasses, vars
    <3> QED
      BY <1>0, <3>1, <3>2, StepTakers DEF RunnerMoves, ConvergerMoves, CancellerMoves
  <2> QED
    BY <2>1, <2>2, <2>3
<1> QED
  BY <1>1, <1>2, <1>3, <1>4 DEF NothingStray, Waits

----------------------------------------------------------------------------
(* The lock is held by who goes on under it *)

LEMMA UnderLockKeeps == ASSUME Stage, [Next]_vars PROVE UnderLock'
<1>0. ClientInv /\ CallsAwaited /\ UnderLock
  BY DEF Stage, ChargeInv
<1>1. \A r \in Runners, v \in Convergers : r # v
  BY CallersApart
<1>2. \A x \in Runners \cup Convergers : x # NoOne
  BY CallersApart
<1>3. ASSUME NEW r \in Runners, Claim(r), \A o \in Runners \ {r} : run'[o] = run[o] PROVE UnderLock'
  <2>1. run'[r].pc = "claiming" /\ UNCHANGED <<conv, lock>>
    BY <1>0, <1>3, ClaimSends
  <2> QED
    BY <1>0, <1>3, <2>1 DEF UnderLock, Holding, Resolving
<1>4. ASSUME NEW r \in Runners, RunnerMoves(r, run[r], run'[r]), \A o \in Runners \ {r} : run'[o] = run[o] PROVE UnderLock'
  <2>1. PICK p, q : p = run[r] /\ q = run'[r]
    OBVIOUS
  <2>2. UNCHANGED conv /\ Guards(r, p, q)
    BY <1>4, <2>1 DEF RunnerMoves
  <2>3. q.pc \in Holding => lock' = r
    BY <1>0, <2>1, <2>2 DEF Guards, UnderLock
  <2>4. UNCHANGED lock \/ lock \in {NoOne, r}
    BY <2>2 DEF Guards
  <2>5. ASSUME NEW o \in Runners, run'[o].pc \in Holding PROVE lock' = o
    <3>1. CASE o = r
      BY <2>1, <2>3, <2>5, <3>1
    <3>2. CASE o # r
      BY <1>0, <1>2, <1>4, <2>4, <2>5, <3>2 DEF UnderLock
    <3> QED
      BY <3>1, <3>2
  <2>6. ASSUME NEW v \in Convergers, conv'[v].pc \in Resolving PROVE lock' = v
    BY <1>0, <1>1, <1>2, <2>2, <2>4, <2>6 DEF UnderLock
  <2> QED
    BY <2>5, <2>6 DEF UnderLock
<1>5. ASSUME NEW v \in Convergers, ConvergerMoves(v, conv[v], conv'[v]) PROVE UnderLock'
  <2>1. PICK p, q : p = conv[v] /\ q = conv'[v]
    OBVIOUS
  <2>2. /\ UNCHANGED run /\ \A o \in Convergers \ {v} : conv'[o] = conv[o]
        /\ ConvPasses(v, p, q) \/ ConvHears(p, q) \/ \E t \in Nat, next \in Record : ConvSends(v, p, q, t, next)
    BY <1>5, <2>1 DEF ConvergerMoves
  <2>3. p.pc \in Resolving => lock = v
    BY <1>0, <2>1 DEF UnderLock
  <2>4. CASE ConvPasses(v, p, q)
    <3>1. UNCHANGED lock \/ lock \in {NoOne, v}
      BY <2>4 DEF ConvPasses
    <3>2. q.pc \in Resolving => lock' = v
      BY <2>3, <2>4 DEF ConvPasses, Resolving
    <3> QED
      BY <1>0, <1>1, <1>2, <2>1, <2>2, <3>1, <3>2 DEF UnderLock
  <2>5. CASE ConvHears(p, q) \/ \E t \in Nat, next \in Record : ConvSends(v, p, q, t, next)
    <3>1. UNCHANGED lock
      BY <2>5 DEF ConvHears, ConvSends
    <3>2. q.pc \in Resolving => p.pc \in Resolving
      BY <2>5 DEF ConvHears, ConvSends, Resolving
    <3> QED
      BY <1>0, <2>1, <2>2, <2>3, <3>1, <3>2 DEF UnderLock
  <2> QED
    BY <2>2, <2>4, <2>5
<1>6. ASSUME NEW c \in Cancellers, CancellerMoves(c, canc[c], canc'[c]), \A r \in Runners : Still(run[r], run'[r]) PROVE UnderLock'
  BY <1>0, <1>6 DEF CancellerMoves, Still, UnderLock
<1>7. CASE Surroundings
  <2>1. UNCHANGED <<run, conv, lock>>
    BY <1>7, NoLateness DEF Surroundings, DeleteConversation, TimePasses, vars
  <2> QED
    BY <1>0, <2>1 DEF UnderLock
<1> QED
  BY <1>0, <1>3, <1>4, <1>5, <1>6, <1>7, StepTakers

----------------------------------------------------------------------------
(* Nothing but a reconciliation decides a commit *)

LEMMA ChargeStays ==
    ASSUME Stage, [Next]_vars, receipt # NoReceipt PROVE receipt' # NoReceipt /\ receipt'.by = receipt.by
<1>1. SameCharge \/ \E r \in Runners : Charges(r)
  BY ChargeSteps DEF Stage
<1> QED
  BY <1>1 DEF SameCharge, Charges

LEMMA RunDecidesKeeps == ASSUME Stage, [Next]_vars, NEW r \in Runners PROVE RunDecides(run'[r], receipt' # NoReceipt)
<1>1. PICK p, q : p = run[r] /\ q = run'[r]
  OBVIOUS
<1>2. ClientInv /\ CallsAwaited /\ RunDecides(p, receipt # NoReceipt) /\ (receipt # NoReceipt => receipt' # NoReceipt)
  BY <1>1, ChargeStays DEF Stage, ChargeInv, Deciding
<1>3. ASSUME Claim(r) PROVE RunDecides(q, receipt' # NoReceipt)
  <2>1. q.pc = "claiming" /\ q.call.expect = Absent
    BY <1>1, <1>2, <1>3, ClaimSends
  <2> QED
    BY <2>1 DEF RunDecides, Completing, Absent
<1>4. ASSUME RunnerMoves(r, p, q) PROVE RunDecides(q, receipt' # NoReceipt)
  <2>1. q.pc \in {"complete", "recomplete"} \cup Completing => receipt' # NoReceipt
    BY <1>2, <1>4 DEF RunnerMoves, Guards, RunDecides
  <2>2. ASSUME Passes(p, q), q.call # NoCall
        PROVE  (q.pc \in Completing /\ q.call.next.state = "completed") \/ q.call.expect.state # "committing"
    BY <1>2, <2>2 DEF Passes, RunDecides, Completing, Calling
  <2>3. ASSUME NEW t \in Nat, NEW next \in Record, Sends(r, p, q, t, next)
        PROVE  (q.pc \in Completing /\ q.call.next.state = "completed") \/ q.call.expect.state # "committing"
    <3>1. q.call.expect = rec /\ q.call.next = next
      BY <2>3, MessageIs DEF Sends
    <3> QED
      BY <2>3, <3>1 DEF Sends
  <2>4. Hears(p, q) => q.call = NoCall
    BY DEF Hears
  <2> QED
    BY <1>4, <2>1, <2>2, <2>3, <2>4 DEF RunnerMoves, RunDecides
<1>5. ASSUME Still(p, q) PROVE RunDecides(q, receipt' # NoReceipt)
  BY <1>2, <1>5 DEF RunDecides, Still
<1>6. Claim(r) \/ RunnerMoves(r, p, q) \/ Still(p, q)
  <2>1. run'[r] = run[r] => Still(p, q)
    BY <1>1 DEF Still
  <2> QED
    BY <1>1, <1>2, <2>1, StepKinds
<1>7. RunDecides(q, receipt' # NoReceipt)
  BY <1>3, <1>4, <1>5, <1>6
<1> QED
  BY <1>1, <1>7

\* A poller that goes on under the lock sees no charge appear.
LEMMA NoChargeMeanwhile ==
    ASSUME Stage, [Next]_vars, NEW v \in Convergers, lock = v, receipt = NoReceipt PROVE receipt' = NoReceipt
<1>1. SameCharge \/ \E r \in Runners : Charges(r)
  BY ChargeSteps DEF Stage
<1> QED
  BY <1>1, CallersApart DEF SameCharge, Charges

LEMMA ConvDecidesKeeps == ASSUME Stage, [Next]_vars, NEW v \in Convergers PROVE ConvDecides(conv'[v], receipt' # NoReceipt)
<1>1. PICK p, q : p = conv[v] /\ q = conv'[v]
  OBVIOUS
<1>2. ClientInv /\ CallsAwaited /\ ConvDecides(p, receipt # NoReceipt)
  BY <1>1 DEF Stage, ChargeInv, Deciding
<1>3. p.call # NoCall => p.pc \in {"writing", "resolving"}
  BY <1>1 DEF Stage, ChargeInv, NothingStray
<1>4. p.pc = "complete" => receipt # NoReceipt
  BY <1>1 DEF Stage, ClientInv, Clients, ConvergerSound
<1>5. ASSUME ConvergerMoves(v, p, q) PROVE ConvDecides(q, receipt' # NoReceipt)
  <2>1. receipt' = receipt
    BY <1>5 DEF ConvergerMoves
  <2>2. ASSUME ConvPasses(v, p, q) PROVE q.call = NoCall /\ (q.pc = "failstale" => receipt = NoReceipt)
    BY <1>3, <2>2 DEF ConvPasses
  <2>3. ASSUME ConvHears(p, q) PROVE q.call = NoCall /\ q.pc # "failstale"
    BY <2>3 DEF ConvHears
  <2>4. ASSUME NEW t \in Nat, NEW next \in Record, ConvSends(v, p, q, t, next)
        PROVE  /\ q.pc # "failstale" /\ q.call.kind = "cas"
               /\ q.call.expect.state = "committing" =>
                     q.pc = "resolving" /\ q.call.next.state = IF receipt # NoReceipt THEN "completed" ELSE "failed"
    <3>1. q.call.kind = "cas" /\ q.call.expect = rec /\ q.call.next = next
      BY <2>4, MessageIs DEF ConvSends
    <3> QED
      BY <1>2, <1>4, <2>4, <3>1 DEF ConvSends, ConvDecides
  <2> QED
    BY <1>5, <2>1, <2>2, <2>3, <2>4 DEF ConvergerMoves, ConvDecides
<1>6. ASSUME q = p PROVE ConvDecides(q, receipt' # NoReceipt)
  <2>1. p.pc \in {"failstale", "resolving"} => lock = v
    BY <1>1 DEF Stage, ChargeInv, UnderLock, Resolving
  <2>2. p.pc \in {"failstale", "resolving"} => (receipt' = NoReceipt <=> receipt = NoReceipt)
    BY <2>1, NoChargeMeanwhile, ChargeStays
  <2> QED
    BY <1>2, <1>6, <2>2 DEF ConvDecides
<1>7. q = p \/ ConvergerMoves(v, p, q)
  <2>1. ASSUME NEW r \in Runners, Claim(r) PROVE UNCHANGED conv
    BY <1>2, <2>1, ClaimSends
  <2>2. Surroundings => UNCHANGED conv
    BY DEF Surroundings, Stray, SessionLost, DeleteConversation, TimePasses, vars
  <2> QED
    BY <1>1, <1>2, <2>1, <2>2, StepTakers DEF RunnerMoves, ConvergerMoves, CancellerMoves
<1>8. ConvDecides(q, receipt' # NoReceipt)
  BY <1>5, <1>6, <1>7
<1> QED
  BY <1>1, <1>8

LEMMA CancDecidesKeeps == ASSUME Stage, [Next]_vars, NEW c \in Cancellers PROVE CancDecides(canc'[c])
<1>1. PICK p, q : p = canc[c] /\ q = canc'[c]
  OBVIOUS
<1>2. ClientInv /\ CallsAwaited /\ CancDecides(p) /\ rec \in Record
  BY <1>1 DEF Stage, ChargeInv, Deciding, ClientInv, StoreInv, StoreTypeOK
<1>3. ASSUME CancellerMoves(c, p, q) PROVE CancDecides(q)
  <2>1. ASSUME NEW t \in Nat, CancSends(c, p, q, t) PROVE CancDecides(q)
    <3>1. q.call.kind = "cancel" /\ q.call.expect = rec /\ q.call.next = CancelTo(rec, t)
      BY <2>1, MessageIs DEF CancSends
    <3>2. rec.state = "committing" => CancelTo(rec, t) = rec
      BY <1>2, CancelWrites
    <3> QED
      BY <3>1, <3>2 DEF CancDecides
  <2>2. CancPasses(p, q) \/ CancHears(p, q) => q.call = NoCall
    BY DEF CancPasses, CancHears
  <2> QED
    BY <1>3, <2>1, <2>2 DEF CancellerMoves, CancDecides
<1>4. q = p \/ CancellerMoves(c, p, q)
  <2>1. ASSUME NEW r \in Runners, Claim(r) PROVE UNCHANGED canc
    BY <1>2, <2>1, ClaimSends
  <2>2. Surroundings => UNCHANGED canc
    BY DEF Surroundings, Stray, SessionLost, DeleteConversation, TimePasses, vars
  <2> QED
    BY <1>1, <1>2, <2>1, <2>2, StepTakers DEF RunnerMoves, ConvergerMoves, CancellerMoves
<1>5. CancDecides(q)
  BY <1>2, <1>3, <1>4
<1> QED
  BY <1>1, <1>5

LEMMA DecidingKeeps == ASSUME Stage, [Next]_vars PROVE Deciding'
<1>1. \A r \in Runners : RunDecides(run[r], receipt # NoReceipt)'
  BY RunDecidesKeeps DEF RunDecides
<1>2. \A v \in Convergers : ConvDecides(conv[v], receipt # NoReceipt)'
  BY ConvDecidesKeeps DEF ConvDecides
<1>3. \A c \in Cancellers : CancDecides(canc[c])'
  BY CancDecidesKeeps DEF CancDecides
<1> QED
  BY <1>1, <1>2, <1>3 DEF Deciding

----------------------------------------------------------------------------
(* A charge is written for a record that commits, and stays with it *)

LEMMA CommitStands ==
    ASSUME Stage, StoreSide, NEW r \in Runners, claimant' = r, rec.state = "committing"
    PROVE  \/ rec'.state = "committing"
           \/ receipt # NoReceipt /\ rec'.state = "completed"
           \/ receipt = NoReceipt /\ \E v \in Convergers : lock = v
<1>1. r # NoOwner
  BY RecordAssumption DEF Runners
<1>2. CASE TimePasses
  BY <1>1, <1>2, TimeDrops
<1>3. CASE \E f \in flights : Executes(f)
  BY <1>3, Decided DEF Stage
<1> QED
  BY <1>2, <1>3 DEF StoreSide

\* Nobody but a runner that goes on under the lock had it.
LEMMA HoldingHad == ASSUME Stage, [Next]_vars, NEW r \in Runners, run'[r].pc \in Holding PROVE lock \in {r, NoOne}
<1>1. PICK p, q : p = run[r] /\ q = run'[r]
  OBVIOUS
<1>2. ClientInv /\ CallsAwaited /\ (p.pc \in Holding => lock = r)
  BY <1>1 DEF Stage, ChargeInv, UnderLock
<1>3. ASSUME RunnerMoves(r, p, q) PROVE lock \in {r, NoOne}
  BY <1>1, <1>2, <1>3 DEF RunnerMoves, Guards
<1>4. ASSUME Claim(r) PROVE FALSE
  BY <1>2, <1>4, ClaimSends DEF Holding
<1>5. ASSUME Still(p, q) PROVE lock = r
  BY <1>1, <1>2, <1>5 DEF Still
<1>6. Claim(r) \/ RunnerMoves(r, p, q) \/ Still(p, q)
  <2>1. run'[r] = run[r] => Still(p, q)
    BY <1>1 DEF Still
  <2> QED
    BY <1>1, <1>2, <2>1, StepKinds
<1> QED
  BY <1>3, <1>4, <1>5, <1>6

\* Where no command outlives its caller, a runner past its claim has none in flight.
LEMMA ClaimInFlight ==
    ASSUME Stage, NEW f \in flights, f.kind = "claim", NEW r \in Runners, f.from = r PROVE run[r].pc = "claiming"
<1>1. run[r].pc = "error" \/ (run[r].pc = "claiming" /\ f = run[r].call)
  BY DEF Stage, VerdictInv, ClaimsOnce
<1>2. f \in Awaited /\ f # NoCall
  BY NoCallFlies DEF Stage, ChargeInv, NothingStray
<1>3. ASSUME NEW o \in Runners, f = run[o].call PROVE o = r /\ Waits(run[r])
  BY <1>2, <1>3, RunnerFields DEF Stage, RunnerSound, Pending, CallsAwaited
<1>4. ASSUME NEW v \in Convergers, f = conv[v].call PROVE FALSE
  BY <1>2, <1>4, CallersApart DEF Stage, ClientInv, Clients, ConvergerSound, Pending
<1>5. ASSUME NEW c \in Cancellers, f = canc[c].call PROVE FALSE
  BY <1>2, <1>5, CallersApart DEF Stage, ClientInv, Clients, CancellerSound, Pending
<1>6. Waits(run[r])
  BY <1>2, <1>3, <1>4, <1>5 DEF Awaited
<1>7. run[r].pc # "error"
  BY <1>6, NotWaiting DEF Stage, Calling
<1> QED
  BY <1>1, <1>7

\* How the steps go, for the charge: a runner claims, or the store's side is as it may be.
LEMMA ChargeSides ==
    ASSUME Stage, [Next]_vars
    PROVE  \/ \E r \in Runners : /\ Claim(r) /\ UNCHANGED <<rec, claimant, receipt>>
                                 /\ run[r].pc = "idle" /\ \A o \in Runners \ {r} : run'[o] = run[o]
           \/ StoreSide
<1>1. ASSUME NEW r \in Runners, Claim(r) PROVE UNCHANGED <<rec, claimant, receipt>> /\ run[r].pc = "idle"
  BY <1>1, ClaimSends DEF Stage
<1> QED
  BY <1>1, StepKinds DEF Stage

LEMMA PersistCommits ==
    ASSUME Stage, [Next]_vars, NEW r \in Runners, run'[r].pc = "persist", claimant' = r, receipt' = NoReceipt
    PROVE  rec'.state = "committing"
<1>1. PICK p, q : p = run[r] /\ q = run'[r]
  OBVIOUS
<1>2. /\ ClientInv /\ CallsAwaited /\ ClaimsOnce /\ OwnedByClaimant
      /\ p.pc = "persist" /\ claimant = r /\ receipt = NoReceipt => rec.state = "committing"
  BY <1>1 DEF Stage, VerdictInv, ChargeInv, Charging
<1>3. receipt = NoReceipt
  BY ChargeStays
<1>4. lock \in {r, NoOne}
  BY HoldingHad DEF Holding
<1>5. p.pc = "persist" \/ rec.state = "committing"
  <2>1. RunnerMoves(r, p, q) => p.pc = "persist" \/ rec.state = "committing"
    BY <1>1 DEF RunnerMoves, Guards
  <2>2. Still(p, q) => p.pc = "persist"
    BY <1>1 DEF Still
  <2>3. ~Claim(r)
    BY <1>2, ClaimSends
  <2>4. run'[r] = run[r] => p.pc = "persist"
    BY <1>1
  <2> QED
    BY <1>1, <1>2, <2>1, <2>2, <2>3, <2>4, StepKinds
<1>6. CASE \E o \in Runners : Claim(o) /\ UNCHANGED <<rec, claimant, receipt>>
  BY <1>2, <1>3, <1>5, <1>6
<1>7. CASE StoreSide
  <2>1. claimant = r
    <3>1. ASSUME NEW f \in flights, f.kind = "claim", f.from = r, rec.state = "absent" PROVE FALSE
      BY <1>1, <1>5, <3>1, ClaimInFlight
    <3> QED
      BY <1>2, <1>7, <3>1, ClaimantSteps
  <2>2. rec.state = "committing"
    BY <1>2, <1>3, <1>5, <2>1
  <2>3. \A v \in Convergers : lock # v
    BY <1>4, CallersApart
  <2> QED
    BY <1>3, <1>7, <2>2, <2>3, CommitStands
<1> QED
  BY <1>6, <1>7, ChargeSides

LEMMA ChargedPastClaim ==
    ASSUME Stage, [Next]_vars, receipt' # NoReceipt PROVE run'[receipt'.by].pc \notin {"idle", "claiming"}
<1>1. ClientInv /\ CallsAwaited
  BY DEF Stage
<1>2. ASSUME NEW r \in Runners, Charges(r) PROVE run'[receipt'.by].pc \notin {"idle", "claiming"}
  BY <1>2 DEF Charges
<1>3. CASE receipt # NoReceipt
  <2>1. PICK r \in Runners : r = receipt.by /\ r = receipt'.by
    BY <1>3, ChargeStays DEF Stage, ClientInv, SingleTypeOK
  <2>2. run[r].pc \notin {"idle", "claiming"}
    BY <1>3, <2>1 DEF Stage, ChargeInv, Charging
  <2>3. RunnerMoves(r, run[r], run'[r]) => run'[r].pc \notin {"idle", "claiming"}
    BY DEF RunnerMoves, Forth
  <2>4. Still(run[r], run'[r]) \/ run'[r] = run[r] => run'[r].pc \notin {"idle", "claiming"}
    BY <2>2 DEF Still
  <2>5. ~Claim(r)
    BY <1>1, <2>2, ClaimSends
  <2>6. run'[r].pc \notin {"idle", "claiming"}
    BY <1>1, <2>3, <2>4, <2>5, StepKinds
  <2> QED
    BY <2>1, <2>6
<1>4. CASE receipt = NoReceipt
  <2>1. ~SameCharge
    BY <1>4 DEF SameCharge
  <2> QED
    BY <1>1, <1>2, <2>1, ChargeSteps
<1> QED
  BY <1>3, <1>4

LEMMA ChargedStands ==
    ASSUME Stage, [Next]_vars, receipt' # NoReceipt, receipt'.by = claimant'
    PROVE  rec'.state \in {"committing", "completed"}
<1>1. /\ ClientInv /\ CallsAwaited /\ ClaimsOnce /\ OwnedByClaimant
      /\ receipt # NoReceipt /\ receipt.by = claimant => rec.state \in {"committing", "completed"}
  BY DEF Stage, VerdictInv, ChargeInv, Charging
<1>2. CASE receipt # NoReceipt
  <2>1. PICK r \in Runners : r = receipt.by /\ r = receipt'.by
    BY <1>2, ChargeStays DEF Stage, ClientInv, SingleTypeOK
  <2>2. run[r].pc \notin {"idle", "claiming"} /\ claimant' = r
    BY <1>2, <2>1 DEF Stage, ChargeInv, Charging
  <2>3. CASE StoreSide
    <3>1. ASSUME NEW f \in flights, f.kind = "claim", f.from = r PROVE FALSE
      BY <2>2, <3>1, ClaimInFlight
    <3>2. claimant = r /\ (rec.state \in Terminal => rec'.state = rec.state)
      BY <1>1, <2>2, <2>3, <3>1, ClaimantSteps
    <3>3. rec.state \in {"committing", "completed"}
      BY <1>1, <1>2, <2>1, <3>2
    <3>4. rec.state = "committing" => rec'.state \in {"committing", "completed"}
      BY <1>2, <2>2, <2>3, CommitStands
    <3> QED
      BY <3>2, <3>3, <3>4 DEF Terminal
  <2>4. CASE \E o \in Runners : Claim(o) /\ UNCHANGED <<rec, claimant, receipt>>
    BY <1>1, <1>2, <2>4
  <2> QED
    BY <2>3, <2>4, ChargeSides
<1>3. CASE receipt = NoReceipt
  <2>1. ~SameCharge
    BY <1>3 DEF SameCharge
  <2>2. PICK r \in Runners : Charges(r)
    BY <1>1, <2>1, ChargeSteps
  <2>3. claimant = r /\ run[r].pc = "persist" /\ rec' = rec
    BY <2>2 DEF Charges
  <2> QED
    BY <1>3, <2>3 DEF Stage, ChargeInv, Charging
<1> QED
  BY <1>2, <1>3

LEMMA ChargeInvKeeps == ASSUME Stage, [Next]_vars PROVE ChargeInv'
<1>1. Charging'
  BY PersistCommits, ChargedPastClaim, ChargedStands DEF Charging
<1> QED
  BY <1>1, NothingStrayKeeps, UnderLockKeeps, DecidingKeeps DEF ChargeInv

LEMMA ChargeInit == Init => ChargeInv
<1> SUFFICES ASSUME Init PROVE ChargeInv
  OBVIOUS
<1>1. flights = {} /\ receipt = NoReceipt
  BY DEF Init, StoreInit
<1>2. \A r \in Runners : run[r].pc = "idle" /\ run[r].call = NoCall
  BY DEF Init
<1>3. \A v \in Convergers : conv[v].pc = "idle" /\ conv[v].call = NoCall
  BY DEF Init
<1>4. \A c \in Cancellers : canc[c].call = NoCall
  BY DEF Init
<1>5. NothingStray
  BY <1>1, <1>2, <1>3, <1>4 DEF NothingStray
<1>6. UnderLock
  BY <1>2, <1>3 DEF UnderLock, Holding, Resolving
<1>7. Deciding
  BY <1>2, <1>3, <1>4 DEF Deciding, RunDecides, ConvDecides, CancDecides, Completing
<1>8. Charging
  BY <1>1, <1>2 DEF Charging
<1> QED
  BY <1>5, <1>6, <1>7, <1>8 DEF ChargeInv

LEMMA SingleCharged == ASSUME MaxSessions = 0, MaxDelayed = 0
                       PROVE  Spec => [](ClientInv /\ CallsAwaited /\ VerdictInv /\ ChargeInv)
<1>1. Init => ChargeInv
  BY ChargeInit
<1>2. ClientInv /\ CallsAwaited /\ VerdictInv /\ ChargeInv /\ (ClientInv /\ CallsAwaited /\ VerdictInv)' /\ [Next]_vars
         => ChargeInv'
  <2> SUFFICES ASSUME ClientInv, CallsAwaited, VerdictInv, ChargeInv, (ClientInv /\ CallsAwaited /\ VerdictInv)', [Next]_vars
               PROVE  ChargeInv'
    OBVIOUS
  <2>1. ClientInv'
    OBVIOUS
  <2>2. Stage
    BY <2>1 DEF Stage
  <2> QED
    BY <2>2, ChargeInvKeeps
<1> QED
  BY <1>1, <1>2, SingleVerdicts, PTL DEF Spec

\* Whoever was charged has a generation that commits or completed, as long as its key lives:
\* for any number of runners, pollers and cancels, any crashes and lost replies, when no MySQL
\* session dies with the advisory lock and no command of Redis outlives its caller
\* (Finalize, persist, converge, ReconcileComplete, FailStaleCommit).
THEOREM SingleChargedNeverDead ==
    ASSUME MaxSessions = 0, MaxDelayed = 0 PROVE Spec => []ChargedNeverDead
<1>1. ChargeInv => ChargedNeverDead
  BY DEF ChargeInv, Charging, ChargedNeverDead
<1> QED
  BY <1>1, SingleCharged, PTL

----------------------------------------------------------------------------
(* The promise to the user, while the key lives *)

\* What is known before a step, in one life of the key.
Life == Stage /\ OneLife /\ MaxTime < TTL

\* In one life of the key time takes no record away, and a claimant stays.
LEMMA KeyStays == ASSUME Life, Tick PROVE rec' = rec /\ expireAt' = expireAt
<1>1. now \in Nat /\ now < MaxTime /\ MaxTime \in Nat /\ TTL \in Nat /\ expireAt \in Nat
  BY StoreAssumption DEF Life, Stage, ClientInv, StoreInv, StoreTypeOK, Tick
<1>2. rec.state # "absent" => ~(expireAt <= now + 1)
  BY <1>1 DEF Life, OneLife
<1> QED
  BY <1>2 DEF Tick

LEMMA ClaimantStays == ASSUME Life, StoreSide, NEW r \in Runners, claimant = r PROVE claimant' = r
<1>1. rec.state # "absent"
  BY RecordAssumption DEF Life, Stage, VerdictInv, OwnedByClaimant, Runners
<1>2. ASSUME NEW f \in flights, Executes(f) PROVE claimant' = r
  BY <1>1, <1>2 DEF Executes
<1>3. rec # Absent
  BY <1>1 DEF Absent
<1>4. TimePasses => claimant' = r
  BY <1>3, KeyStays DEF TimePasses
<1> QED
  BY <1>2, <1>4 DEF StoreSide

\* A record that is there was made late enough to outlive the clock.
LEMMA ExpiryKeeps == ASSUME Life, [Next]_vars PROVE now' > 0 /\ (rec'.state # "absent" => expireAt' > TTL)
<1>1. now \in Nat /\ now > 0 /\ TTL \in Nat /\ MaxSkew \in Nat
  BY StoreAssumption DEF Life, Stage, ClientInv, StoreInv, StoreTypeOK, OneLife
<1>2. (rec.state # "absent" => expireAt > TTL) /\ ClientInv
  BY DEF Life, OneLife, Stage
<1>3. [StoreNext]_storeVars
  BY <1>2, AllKeep DEF Kept
<1>4. now' > 0
  <2>1. now' \in Nat /\ 1..(now + MaxSkew) \subseteq 1..(now' + MaxSkew)
    BY <1>2, <1>3, StoreGrows DEF ClientInv
  <2>2. (now + MaxSkew) \in 1..(now + MaxSkew)
    BY <1>1
  <2>3. (now + MaxSkew) \in 1..(now' + MaxSkew)
    BY <2>1, <2>2
  <2>4. PICK a \in Nat, b \in Nat, k \in Nat : a = now /\ b = now' /\ k = MaxSkew
    BY <1>1, <2>1
  <2>5. (a + k) \in 1..(b + k)
    BY <2>3, <2>4
  <2>6. a + k <= b + k
    BY <2>5
  <2>7. b >= a
    BY <2>6
  <2> QED
    BY <1>1, <2>4, <2>7
<1>5. ASSUME NEW f \in flights, Execute(f), rec'.state # "absent" PROVE expireAt' > TTL
  BY <1>1, <1>2, <1>5 DEF Execute
<1>6. Tick \/ UNCHANGED storeVars => rec' = rec /\ expireAt' = expireAt
  BY KeyStays DEF storeVars
<1>7. ASSUME NEW f \in flights, Lose(f) PROVE rec' = rec /\ expireAt' = expireAt
  BY <1>7 DEF Lose
<1>8. ASSUME NEW p \in Callers, NEW t \in Sampled, NEW o \in Owners, SendClaim(p, o, t)
      PROVE  rec' = rec /\ expireAt' = expireAt
  BY <1>8 DEF SendClaim
<1>9. ASSUME NEW p \in Callers, NEW t \in Sampled, NEW o \in issued, OwnedSend(p, o, t)
      PROVE  rec' = rec /\ expireAt' = expireAt
  BY <1>9 DEF OwnedSend, SendRecordDelta, SendMarkModelDone, SendMarkModelFailed, SendBeginCommit,
              SendFailRunning, SendAcknowledge, SendRenewLease, CompareAndSet
<1>10. ASSUME NEW p \in Callers, NEW t \in Sampled, SharedSend(p, t) PROVE rec' = rec /\ expireAt' = expireAt
  BY <1>10 DEF SharedSend, SendCancel, SendComplete, SendFailStaleCommit, SendFailExpired,
               SendConvergeCancelling, CompareAndSet
<1>11. rec'.state # "absent" => expireAt' > TTL
  BY <1>2, <1>3, <1>5, <1>6, <1>7, <1>8, <1>9, <1>10 DEF StoreNext
<1> QED
  BY <1>4, <1>11

\* A claim that took effect makes its runner the claimant.
LEMMA ClaimTakesEffect ==
    ASSUME Stage, NEW r \in Runners, run[r].pc = "claiming", Landed(run[r]) PROVE claimant' = r
<1>1. PICK f : f = run[r].call
  OBVIOUS
<1>2. f \in flights /\ f.from = r
  BY <1>1, RunnerFields DEF Stage, RunnerSound, Pending
<1>3. f.kind = "claim"
  BY <1>1 DEF Stage, VerdictInv, ClaimsOnce
<1>4. f.expect = Absent /\ f.next.owner = r
  BY <1>2, <1>3 DEF Stage, VerdictInv, ClaimsOnce
<1>5. rec.state = "absent" /\ Executes(f)
  BY <1>1, <1>4 DEF Landed, Absent
<1>6. rec' = f.next
  BY <1>3, <1>5 DEF Executes, Execute, Outcome
<1>7. rec'.state = "running"
  BY <1>2, <1>3, <1>6, AbsentOrLive DEF Stage
<1> QED
  BY <1>4, <1>5, <1>6, <1>7 DEF Executes

LEMMA OneLifeKeeps == ASSUME Life, [Next]_vars PROVE OneLife'
<1>0. Stage /\ ClientInv /\ CallsAwaited
  BY DEF Life, Stage
<1>1. \A r \in Runners : run[r].pc \notin {"idle", "claiming"} \cup Ended => claimant = r
  BY DEF Life, OneLife
<1>2. ASSUME NEW r \in Runners, Claim(r), \A o \in Runners \ {r} : run'[o] = run[o]
      PROVE  \A o \in Runners : run'[o].pc \notin {"idle", "claiming"} \cup Ended => claimant' = o
  BY <1>0, <1>1, <1>2, ClaimSends
<1>3. ASSUME NEW r \in Runners, RunnerMoves(r, run[r], run'[r]), run'[r].pc \notin {"idle", "claiming"} \cup Ended, StoreSide
      PROVE  claimant' = r
  <2>1. PICK p, q : p = run[r] /\ q = run'[r]
    OBVIOUS
  <2>2. RunnerMoves(r, p, q) /\ q.pc \notin Ended
    BY <1>3, <2>1
  <2>3. CASE p.pc # "claiming"
    <3>1. p.pc \notin {"idle", "claiming"} \cup Ended
      BY <2>2, <2>3 DEF RunnerMoves, Forth
    <3> QED
      BY <1>1, <1>3, <2>1, <3>1, ClaimantStays
  <2>4. CASE p.pc = "claiming"
    <3>1. Waits(p)
      BY <2>4 DEF Waits
    <3>2. Landed(p)
      BY <2>2, <2>4, <3>1 DEF RunnerMoves, Passes, Hears, Sends, Ended
    <3> QED
      BY <1>0, <2>1, <2>4, <3>2, ClaimTakesEffect
  <2> QED
    BY <2>3, <2>4
<1>4. ASSUME NEW r \in Runners, run'[r] = run[r] \/ Still(run[r], run'[r]), StoreSide,
             run'[r].pc \notin {"idle", "claiming"} \cup Ended
      PROVE  claimant' = r
  <2>1. claimant = r
    BY <1>1, <1>4 DEF Still
  <2> QED
    BY <1>4, <2>1, ClaimantStays
<1>5. \A r \in Runners : run'[r].pc \notin {"idle", "claiming"} \cup Ended => claimant' = r
  BY <1>0, <1>2, <1>3, <1>4, StepKinds
<1> QED
  BY <1>5, ExpiryKeeps DEF OneLife

\* A record that is there goes on to a successor, if it does not keep its state.
LEMMA LiveGoesOn ==
    ASSUME ClientInv, NEW f \in flights, Executes(f), rec.state # "absent"
    PROVE  rec'.state = rec.state \/ rec'.state \in Successors(rec.state)
<1>1. rec' = Outcome(f, rec)
  BY DEF Executes, Execute
<1>2. Live(rec)
  BY AbsentOrLive
<1>3. CASE GoodWrite(rec, rec')
  BY <1>3 DEF GoodWrite, Forward
<1>4. CASE rec.bare /\ rec' = Enriched(rec)
  BY <1>2, <1>4, EnrichedGood
<1> QED
  BY <1>1, <1>3, <1>4, OutcomeOfLive DEF ClientInv

PhaseOf(s) ==
    CASE s = "absent"     -> "none"
      [] s = "running"    -> "open"
      [] s = "cancelling" -> "stopping"
      [] s = "committing" -> "deciding"
      [] s = "completed"  -> "published"
      [] OTHER            -> "dead"

LEMMA Phases ==
    /\ PhaseOf("absent") = "none" /\ PhaseOf("running") = "open" /\ PhaseOf("cancelling") = "stopping"
    /\ PhaseOf("committing") = "deciding" /\ PhaseOf("completed") = "published"
    /\ PhaseOf("cancelled") = "dead" /\ PhaseOf("failed") = "dead"
    /\ Phase = PhaseOf(rec.state) /\ Phase' = PhaseOf(rec'.state)
BY DEF PhaseOf, Phase

\* What a step does to the record and the charge, one of them at a time.
LEMMA ChargeAndRecord ==
    ASSUME Life, [Next]_vars
    PROVE  \/ rec.state = "committing" /\ rec'.state = "committing" /\ receipt = NoReceipt /\ receipt' # NoReceipt
           \/ /\ receipt = NoReceipt <=> receipt' = NoReceipt
              /\ \/ rec'.state = rec.state
                 \/ rec.state = "absent" /\ rec'.state \in {"running", "cancelled"}
                 \/ rec.state # "committing" /\ rec'.state \in Successors(rec.state)
                 \/ rec.state = "committing" /\ rec'.state = IF receipt = NoReceipt THEN "failed" ELSE "completed"
<1>0. Stage /\ ClientInv /\ CallsAwaited
  BY DEF Life, Stage
<1>1. ASSUME NEW r \in Runners, Charges(r)
      PROVE  rec.state = "committing" /\ rec'.state = "committing" /\ receipt = NoReceipt /\ receipt' # NoReceipt
  <2>1. run[r].pc = "persist" /\ receipt = NoReceipt /\ receipt' # NoReceipt /\ rec' = rec
    BY <1>1 DEF Charges
  <2>2. claimant = r
    BY <2>1 DEF Life, OneLife, Ended
  <2> QED
    BY <2>1, <2>2 DEF Life, Stage, ChargeInv, Charging
<1>2. SameCharge => (receipt = NoReceipt <=> receipt' = NoReceipt)
  BY DEF SameCharge
<1>3. ASSUME NEW f \in flights, Executes(f)
      PROVE  \/ rec'.state = rec.state
             \/ rec.state = "absent" /\ rec'.state \in {"running", "cancelled"}
             \/ rec.state # "committing" /\ rec'.state \in Successors(rec.state)
             \/ rec.state = "committing" /\ rec'.state = IF receipt = NoReceipt THEN "failed" ELSE "completed"
  <2>1. CASE rec.state = "absent"
    BY <1>0, <1>3, <2>1, BirthByClaim
  <2>2. CASE rec.state = "committing"
    BY <1>0, <1>3, <2>2, Decided DEF Stage
  <2>3. CASE rec.state \notin {"absent", "committing"}
    BY <1>0, <1>3, <2>3, LiveGoesOn
  <2> QED
    BY <2>1, <2>2, <2>3
<1>4. TimePasses => rec' = rec
  BY KeyStays DEF TimePasses
<1>5. \/ rec'.state = rec.state
      \/ \E f \in flights : Executes(f)
  BY <1>0, <1>4, ChargeSides DEF StoreSide
<1> QED
  BY <1>0, <1>1, <1>2, <1>3, <1>5, ChargeSteps

LEMMA PromiseStep == ASSUME Life, [Next]_vars PROVE Promise!OutcomeNext \/ UNCHANGED <<Phase, receipt # NoReceipt>>
<1>1. CASE rec.state = "committing" /\ rec'.state = "committing" /\ receipt = NoReceipt /\ receipt' # NoReceipt
  <2>1. Promise!Charge
    BY <1>1, Phases DEF Promise!Charge
  <2> QED
    BY <2>1 DEF Promise!OutcomeNext
<1>2. ASSUME receipt = NoReceipt <=> receipt' = NoReceipt
      PROVE  (receipt # NoReceipt)' = (receipt # NoReceipt)
  BY <1>2
<1>3. ASSUME receipt = NoReceipt <=> receipt' = NoReceipt, rec'.state = rec.state
      PROVE  UNCHANGED <<Phase, receipt # NoReceipt>>
  BY <1>2, <1>3, Phases
<1>4. ASSUME receipt = NoReceipt <=> receipt' = NoReceipt, rec.state = "absent", rec'.state \in {"running", "cancelled"}
      PROVE  Promise!Open \/ Promise!Withdraw
  BY <1>2, <1>4, Phases DEF Promise!Open, Promise!Withdraw
<1>5. ASSUME receipt = NoReceipt <=> receipt' = NoReceipt, rec.state # "committing", rec'.state \in Successors(rec.state)
      PROVE  \/ Promise!Stop \/ Promise!Die \/ Promise!Commit \/ UNCHANGED <<Phase, receipt # NoReceipt>>
  <2>1. CASE rec.state = "running"
    <3>1. rec'.state \in {"running", "cancelling", "committing", "failed"}
      BY <1>5, <2>1 DEF Successors
    <3> QED
      BY <1>2, <1>5, <2>1, <3>1, Phases DEF Promise!Stop, Promise!Die, Promise!Commit
  <2>2. CASE rec.state = "cancelling"
    <3>1. rec'.state = "cancelled"
      BY <1>5, <2>2 DEF Successors
    <3> QED
      BY <1>2, <1>5, <2>2, <3>1, Phases DEF Promise!Die
  <2> QED
    BY <1>5, <2>1, <2>2 DEF Successors
<1>6. ASSUME receipt = NoReceipt <=> receipt' = NoReceipt, rec.state = "committing",
             rec'.state = IF receipt = NoReceipt THEN "failed" ELSE "completed"
      PROVE  Promise!GiveUp \/ Promise!Publish
  BY <1>2, <1>6, Phases DEF Promise!GiveUp, Promise!Publish
<1> QED
  BY <1>1, <1>3, <1>4, <1>5, <1>6, ChargeAndRecord DEF Promise!OutcomeNext

LEMMA LifeInit == Init => OneLife /\ Promise!OutcomeInit
<1> SUFFICES ASSUME Init PROVE OneLife /\ Promise!OutcomeInit
  OBVIOUS
<1>1. rec = Absent /\ now = 1 /\ receipt = NoReceipt /\ \A r \in Runners : run[r].pc = "idle"
  BY DEF Init, StoreInit
<1>2. rec.state = "absent"
  BY <1>1 DEF Absent
<1>3. Phase = "none"
  BY <1>2 DEF Phase
<1> QED
  BY <1>1, <1>2, <1>3 DEF OneLife, Promise!OutcomeInit

\* While the key lives, Redis and MySQL together keep the promise of GenerationOutcome: charged once
\* at most and only while the commit is decided, published only after the charge, never charged
\* and dead, whatever runners, pollers and cancels do, crash or lose.
THEOREM SinglePromiseKept ==
    ASSUME MaxSessions = 0, MaxDelayed = 0, MaxTime < TTL PROVE Spec => PromiseKept
<1>1. Init => OneLife /\ Promise!OutcomeInit
  BY LifeInit
<1>2. ASSUME ClientInv /\ CallsAwaited /\ VerdictInv /\ ChargeInv, OneLife, [Next]_vars,
             (ClientInv /\ CallsAwaited /\ VerdictInv /\ ChargeInv)'
      PROVE  OneLife' /\ [Promise!OutcomeNext]_(Promise!outcomeVars)
  <2>1. ClientInv'
    BY <1>2
  <2>2. Life
    BY <1>2, <2>1 DEF Life, Stage
  <2>3. Promise!OutcomeNext \/ UNCHANGED <<Phase, receipt # NoReceipt>>
    BY <1>2, <2>2, PromiseStep
  <2> QED
    BY <1>2, <2>2, <2>3, OneLifeKeeps DEF Promise!outcomeVars
<1>3. Spec => [](ClientInv /\ CallsAwaited /\ VerdictInv /\ ChargeInv)
  BY SingleCharged
<1> QED
  BY <1>1, <1>2, <1>3, PTL DEF Spec, PromiseKept, Promise!OutcomeSpec
=============================================================================
