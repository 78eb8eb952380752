-------------------------- MODULE SingleGeneration --------------------------
(***************************************************************************)
(* One platform generation in single mode, end to end: the runners that    *)
(* claim it, stream it and commit it (PlatformSingleGenerationRunner), the *)
(* Redis record they share (GenerationStore), the MySQL receipt that       *)
(* charges it, under an advisory lock (PlatformGenerationPersistence), the *)
(* cancellers (PlatformGenerationControl.Cancel) and the pollers that      *)
(* bring an abandoned record to its end (PlatformGenerationConverger and   *)
(* every GET of the generation).                                           *)
(*                                                                         *)
(* A runner is three goroutines: Run itself (pc), consume (work) and renew *)
(* (renew).  consume and renew share a mutex around their store calls.     *)
(***************************************************************************)
EXTENDS GenerationStore

CONSTANTS
    Convergers,     \* background passes and GET requests
    Cancellers,     \* cancel requests
    NoOne,          \* the advisory lock is free
    NoReceipt,      \* the receipt row does not exist
    NoCall,         \* the goroutine waits for no reply of Redis
    RenewEvery,     \* the renewal timer
    Horizon,        \* bound: claims, cancels and renewals start by then
    MaxLost,        \* bound: calls whose command or reply is lost
    MaxDelayed,     \* bound: commands that Redis runs after their caller gave up
    MaxSessions,    \* bound: MySQL sessions lost while they hold the lock
    MaxCrashes,     \* bound: runner processes that die
    Deletes         \* whether the user may delete the conversation

Runners == Owners

ASSUME SingleAssumption ==
    /\ Cardinality(Models) = 1
    /\ Guids = Runners
    /\ Callers = Runners \cup Convergers \cup Cancellers
    /\ Runners \cap Convergers = {} /\ (Runners \cup Convergers) \cap Cancellers = {}
    /\ NoOne \notin Callers /\ NoCall \notin Flight /\ NoReceipt \notin [by : Runners, alive : BOOLEAN]
    /\ RenewEvery \in Nat \ {0}
    /\ {Horizon, MaxLost, MaxDelayed, MaxSessions, MaxCrashes} \subseteq Nat
    /\ Deletes \in BOOLEAN

VARIABLES
    run,        \* the runners
    conv,       \* the convergers
    canc,       \* the cancellers
    receipt,    \* platform_chat_generation_receipts and the conversation it refers to
    lock,       \* the session that holds GET_LOCK
    claimant,   \* history: the runner whose claim created the present record
    spent       \* faults so far

vars == <<storeVars, run, conv, canc, receipt, lock, claimant, spent>>

TheModel == CHOOSE m \in Models : TRUE

\* A runner's message is named after the runner: no two runs write the same text.
MessageOf(r) == [m \in Models |-> r]

Init ==
    /\ StoreInit
    /\ run = [r \in Runners |-> [pc |-> "idle", work |-> "none", renew |-> "none", call |-> NoCall,
                                 seq |-> 0, t |-> 0, rt |-> 0, due |-> 0, saw |-> Absent,
                                 stop |-> FALSE, ctx |-> FALSE]]
    /\ conv = [v \in Convergers |-> [pc |-> "idle", t |-> 0, again |-> FALSE, call |-> NoCall]]
    /\ canc = [c \in Cancellers |-> [pc |-> "idle", call |-> NoCall]]
    /\ receipt = NoReceipt
    /\ lock = NoOne
    /\ claimant = NoOwner
    /\ spent = [lost |-> 0, delayed |-> 0, sessions |-> 0, crashes |-> 0]

Reading == {t \in 1..(now + MaxSkew) : t + MaxSkew >= now}

-----------------------------------------------------------------------------
(* Calls to Redis. *)

\* Redis runs f once; claimant remembers whose claim created the record.
Executes(f) ==
    /\ Execute(f)
    /\ flights' = flights \ {f}
    /\ claimant' = IF rec.state = "absent" /\ rec'.state = "running" THEN rec'.owner ELSE claimant

Spend(fault, limit) == spent[fault] < limit /\ spent' = [spent EXCEPT ![fault] = @ + 1]

\* What the caller of f learns.  "done": f took effect; "conflict": the record was another
\* one; "error": nothing, because its context ended before the command left (cut), the
\* command or its reply was lost, or the command is still on its way.
Returns(f, cut, reply) ==
    \/ /\ reply = IF rec = f.expect THEN "done" ELSE "conflict"
       /\ Executes(f)
       /\ UNCHANGED spent
    \/ reply = "error" /\ cut /\ Lose(f) /\ UNCHANGED <<claimant, spent>>
    \/ reply = "error" /\ Spend("lost", MaxLost) /\ (Executes(f) \/ (Lose(f) /\ UNCHANGED claimant))
    \/ reply = "error" /\ Spend("delayed", MaxDelayed) /\ UNCHANGED <<storeVars, claimant>>

Replies == {"done", "conflict", "error"}

Awaited == {run[r].call : r \in Runners} \cup {conv[v].call : v \in Convergers}
              \cup {canc[c].call : c \in Cancellers}

\* A delayed command arrives, or never does.
Stray(f) ==
    /\ f \in flights \ Awaited
    /\ Executes(f) \/ (Lose(f) /\ UNCHANGED claimant)
    /\ UNCHANGED <<run, conv, canc, receipt, lock, spent>>

-----------------------------------------------------------------------------
(* The runner. *)

Others == <<conv, canc, receipt, lock>>

Local == UNCHANGED <<storeVars, claimant, spent>>

Ended == {"duplicate", "error", "cancelled", "failed", "done", "dead"}

\* Run's locals and goroutines end with it.
Tidy(state) ==
    IF state.pc \in Ended
    THEN [state EXCEPT !.work = "none", !.renew = "none", !.call = NoCall, !.t = 0, !.rt = 0, !.due = 0,
                       !.saw = Absent, !.stop = FALSE, !.ctx = FALSE]
    ELSE state

\* The runner moves on without touching anything shared.
Moves(r, state) == run' = [run EXCEPT ![r] = Tidy(state)] /\ UNCHANGED Others

Goes(r, pc) == Moves(r, [run[r] EXCEPT !.pc = pc])

\* One mutation: GET, the change, and the compare-and-set is sent; or it is refused.
Attempt(r, can, next, t, sent, refused) ==
    IF can
    THEN /\ CompareAndSet(r, t, next)
         /\ Moves(r, [run[r] EXCEPT !.pc = sent, !.saw = Absent, !.call = Message(r, "cas", t, rec, next)])
         /\ UNCHANGED <<claimant, spent>>
    ELSE Moves(r, [run[r] EXCEPT !.pc = refused, !.saw = Absent]) /\ Local

Claim(r) ==
    /\ run[r].pc = "idle" /\ now <= Horizon
    /\ \E t \in Reading :
        /\ SendClaim(r, r, t)
        /\ Moves(r, [run[r] EXCEPT !.pc = "claiming",
                                   !.call = Message(r, "claim", t, Absent, NewRunning(r, t))])
    /\ UNCHANGED <<claimant, spent>>

Claimed(r) ==
    /\ run[r].pc = "claiming"
    /\ \E reply \in Replies :
        /\ Returns(run[r].call, FALSE, reply)
        /\ Moves(r, [run[r] EXCEPT !.call = NoCall,
                        !.pc = CASE reply = "done"     -> "claimed"
                                 [] reply = "conflict" -> "duplicate"
                                 [] OTHER              -> "error"])

\* Registered with the cancel registry, the runner starts consume and renew.
Register(r) ==
    /\ run[r].pc = "claimed"
    /\ Moves(r, [run[r] EXCEPT !.pc = "select", !.work = "stream", !.renew = "timer", !.due = now + RenewEvery])
    /\ Local

RegisterFails(r) ==
    /\ run[r].pc = "claimed"
    /\ Moves(r, [run[r] EXCEPT !.pc = "settle", !.saw = rec])
    /\ Local

SettleRegistrationFailure(r) ==
    LET saw == run[r].saw IN
    /\ run[r].pc = "settle"
    /\ \E t \in Reading :
        IF saw.state = "cancelling"
        THEN Attempt(r, CanAcknowledgeCancelled(rec, r, t), AcknowledgeCancelled(rec, t), t, "settling", "error")
        ELSE IF RunningLeaseAuthorized(saw, r, t)
        THEN Attempt(r, CanFailRunning(rec, r, t), Fail(rec, t), t, "settling", "error")
        ELSE Attempt(r, FALSE, rec, t, "settling", "error")

Streaming(r) == run[r].pc \in {"select", "join"}

\* consume: a chunk with text is recorded before it is sent to the client.
DeltaStarts(r) ==
    LET seq == run[r].seq + 1 IN
    /\ Streaming(r) /\ run[r].work = "stream" /\ run[r].renew # "renewing" /\ seq <= MaxSeq
    /\ \E t \in Reading :
        IF ~run[r].ctx /\ CanRecordDelta(rec, r, TheModel, seq, t)
        THEN /\ CompareAndSet(r, t, RecordDelta(rec, TheModel, seq, t))
             /\ Moves(r, [run[r] EXCEPT !.work = "delta",
                             !.call = Message(r, "cas", t, rec, RecordDelta(rec, TheModel, seq, t))])
             /\ UNCHANGED <<claimant, spent>>
        ELSE Moves(r, [run[r] EXCEPT !.work = "bad"]) /\ Local

\* Mutant: the runner goes on after a delta it could not record.
DeltaReturns_Careless(r) ==
    /\ run[r].work = "delta"
    /\ \E reply \in Replies :
        /\ Returns(run[r].call, run[r].ctx, reply)
        /\ Moves(r, [run[r] EXCEPT !.work = "stream", !.seq = @ + 1, !.call = NoCall])

DeltaReturns(r) ==
    /\ run[r].work = "delta"
    /\ \E reply \in Replies :
        /\ Returns(run[r].call, run[r].ctx, reply)
        /\ Moves(r, IF reply = "done"
                    THEN [run[r] EXCEPT !.work = "stream", !.seq = @ + 1, !.call = NoCall]
                    ELSE [run[r] EXCEPT !.work = "bad", !.call = NoCall])

\* The upstream stream ends: well, if it carried text; badly, whenever it likes.
UpstreamEnds(r) ==
    /\ Streaming(r) /\ run[r].work = "stream"
    /\ \E work \in {"ok", "bad"} :
        /\ work = "ok" => run[r].seq > 0 /\ ~run[r].ctx
        /\ Moves(r, [run[r] EXCEPT !.work = work])
    /\ Local

\* renew: the timer fires and the goroutine reads the clock, then waits for the mutex.
RenewFires(r) ==
    /\ Streaming(r) /\ run[r].renew = "timer" /\ run[r].due <= now /\ now <= Horizon
    /\ \E t \in Reading : Moves(r, [run[r] EXCEPT !.renew = "armed", !.rt = t])
    /\ Local

RenewStops(r) ==
    /\ run[r].pc = "join" /\ run[r].renew = "timer"
    /\ Moves(r, [run[r] EXCEPT !.renew = "stopped"])
    /\ Local

RenewStarts(r) ==
    LET t == run[r].rt IN
    /\ run[r].renew = "armed" /\ run[r].work # "delta"
    /\ IF ~run[r].stop /\ CanRenewLease(rec, r, t)
       THEN /\ CompareAndSet(r, t, RenewLease(rec, t))
            /\ Moves(r, [run[r] EXCEPT !.renew = "renewing",
                             !.call = Message(r, "cas", t, rec, RenewLease(rec, t))])
            /\ UNCHANGED <<claimant, spent>>
       ELSE /\ Moves(r, [run[r] EXCEPT !.renew = "failed", !.saw = IF run[r].stop THEN Absent ELSE rec])
            /\ Local

RenewReturns(r) ==
    /\ run[r].renew = "renewing"
    /\ \E reply \in Replies :
        /\ Returns(run[r].call, run[r].stop, reply)
        /\ Moves(r, [run[r] EXCEPT !.call = NoCall,
                        !.renew = IF reply = "done" THEN "timer" ELSE "failed",
                        !.due = now + RenewEvery,
                        !.saw = IF reply = "conflict" THEN rec ELSE Absent])

\* The select of Run, and cancelRenew: one of the three ended.
Select(r) ==
    /\ run[r].pc = "select"
    /\ run[r].work \in {"ok", "bad"} \/ run[r].renew = "failed" \/ run[r].ctx
    /\ Moves(r, [run[r] EXCEPT !.pc = "join", !.stop = TRUE, !.ctx = @ \/ run[r].renew = "failed"])
    /\ Local

\* Both goroutines ended: how the stream came out.
Join(r) ==
    /\ run[r].pc = "join" /\ run[r].work \in {"ok", "bad"} /\ run[r].renew \in {"stopped", "failed"}
    /\ Moves(r, [run[r] EXCEPT
            !.work = "none", !.renew = "none", !.rt = 0, !.due = 0,
            !.pc = IF run[r].renew = "failed"
                   THEN IF run[r].saw = Absent THEN "error" ELSE "authority"
                   ELSE IF run[r].work = "bad" \/ run[r].ctx THEN "finish" ELSE "mark"])
    /\ Local

\* finishFailure asks the record what happened, finishFailureAuthority acts on it.
Finish(r) ==
    /\ run[r].pc = "finish"
    /\ Moves(r, [run[r] EXCEPT !.pc = IF rec = Absent THEN "error" ELSE "authority", !.saw = rec])
    /\ Local

Authority(r) ==
    LET saw == run[r].saw IN
    /\ run[r].pc = "authority"
    /\ \E t \in Reading :
        CASE saw.state = "cancelling" ->
                Attempt(r, CanAcknowledgeCancelled(rec, r, t), AcknowledgeCancelled(rec, t), t, "acking", "error")
          [] RunningLeaseAuthorized(saw, r, t) ->
                Attempt(r, CanFailRunning(rec, r, t), Fail(rec, t), t, "failing", "error")
          [] OTHER ->
                Attempt(r, FALSE, rec, t, "error",
                        IF saw.state \in {"cancelled", "failed"} THEN saw.state ELSE "error")

Mark(r) ==
    /\ run[r].pc = "mark"
    /\ \E t \in Reading :
        Attempt(r, ~run[r].ctx /\ CanMarkModelDone(rec, r, TheModel, run[r].seq, t),
                MarkModelDone(rec, TheModel, t), t, "marking", "finish")

Begin(r) ==
    /\ run[r].pc = "begin"
    /\ \E t \in Reading :
        Attempt(r, ~run[r].ctx /\ CanBeginCommit(rec, r, t), BeginCommit(rec, t), t, "beginning", "finish")

CompleteGeneration(r) ==
    /\ run[r].pc = "complete"
    /\ \E t \in Reading :
        Attempt(r, ~run[r].ctx /\ CanComplete(rec, MessageOf(r), t),
                Complete(rec, MessageOf(r), t), t, "completing", "recomplete")

\* ReconcileComplete: done if the record says so already, and once more if not.
Recomplete(r) ==
    /\ run[r].pc = "recomplete"
    /\ \E t \in Reading :
        Attempt(r, CanComplete(rec, MessageOf(r), t), Complete(rec, MessageOf(r), t), t, "recompleting",
                IF rec.state = "completed" /\ GuidMapMatches(rec, MessageOf(r)) THEN "report" ELSE "error")

\* Mutant: a failure is reported before the record confirms it.
After_Hasty(r, f, reply) ==
    LET ok == reply = "done" IN
    CASE run[r].pc = "marking"      -> IF ok THEN "begin" ELSE "finish"
      [] run[r].pc = "beginning"    -> IF ok THEN "finalize" ELSE "finish"
      [] run[r].pc = "completing"   -> IF ok THEN "report" ELSE "recomplete"
      [] run[r].pc = "recompleting" -> IF ok THEN "report" ELSE "error"
      [] run[r].pc = "acking"       -> IF ok THEN "cancelled" ELSE "error"
      [] run[r].pc = "failing"      -> "failed"
      [] OTHER                      -> "error"

\* Where a call of Run leads.
After(r, f, reply) ==
    LET ok == reply = "done" IN
    CASE run[r].pc = "marking"    -> IF ok THEN "begin" ELSE "finish"
      [] run[r].pc = "beginning"  -> IF ok THEN "finalize" ELSE "finish"
      [] run[r].pc = "completing" -> IF ok THEN "report" ELSE "recomplete"
      [] run[r].pc = "recompleting" ->
            IF \/ ok
               \/ reply = "conflict" /\ rec.state = "completed" /\ GuidMapMatches(rec, MessageOf(r))
            THEN "report" ELSE "error"
      [] run[r].pc = "acking" ->
            IF ok /\ f.next.model[TheModel].state = "cancelled" THEN "cancelled" ELSE "error"
      [] run[r].pc = "failing"    -> IF ok THEN "failed" ELSE "error"
      [] run[r].pc = "settling"   -> "error"

Calling == {"marking", "beginning", "completing", "recompleting", "acking", "failing", "settling"}

CallReturns(r) ==
    /\ run[r].pc \in Calling
    /\ \E reply \in Replies :
        /\ Returns(run[r].call, run[r].ctx /\ run[r].pc \in {"marking", "beginning", "completing"}, reply)
        /\ Moves(r, [run[r] EXCEPT !.call = NoCall, !.pc = After(r, run[r].call, reply)])

-----------------------------------------------------------------------------
(* Finalize: the receipt is written under the advisory lock. *)

MatchesRedis(r, t) ==
    /\ rec.state = "committing" /\ t >= rec.updated
    /\ rec.model[TheModel] = [seq |-> run[r].seq, state |-> "completed", guid |-> NoGuid]

Finalize(r) ==
    /\ run[r].pc = "finalize"
    /\ \E t \in Reading :
        Moves(r, [run[r] EXCEPT !.t = t, !.pc = IF ~run[r].ctx /\ MatchesRedis(r, t) THEN "preload" ELSE "error"])
    /\ Local

\* A receipt is read with its conversation: deleted, it is an integrity error.
Readable(by) == receipt # NoReceipt /\ receipt.by = by /\ receipt.alive

Preload(r) ==
    /\ run[r].pc = "preload"
    /\ Goes(r, IF run[r].ctx THEN "error"
               ELSE IF receipt = NoReceipt THEN "locking"
               ELSE IF Readable(r) THEN "complete" ELSE "error")
    /\ Local

TakesLock(r) ==
    /\ run[r].pc = "locking" /\ ~run[r].ctx /\ lock = NoOne
    /\ lock' = r
    /\ run' = [run EXCEPT ![r].pc = "recheck"]
    /\ UNCHANGED <<conv, canc, receipt>> /\ Local

\* GET_LOCK waits five seconds at most.
LockTimesOut(r) ==
    /\ run[r].pc = "locking" /\ (lock # NoOne \/ run[r].ctx)
    /\ Goes(r, "resolve") /\ Local

\* Mutant: the record is not read again under the lock.
Recheck_Skipped(r) ==
    /\ run[r].pc = "recheck"
    /\ Goes(r, IF run[r].ctx THEN "giveup" ELSE "persist")
    /\ Local

Recheck(r) ==
    /\ run[r].pc = "recheck"
    /\ Goes(r, IF ~run[r].ctx /\ MatchesRedis(r, run[r].t) THEN "persist" ELSE "giveup")
    /\ Local

\* One transaction on the session that holds the lock: messages, quota and receipt.  The
\* reply to its commit may be lost.
Persist(r) ==
    /\ run[r].pc = "persist" /\ ~run[r].ctx /\ lock = r /\ receipt = NoReceipt
    /\ receipt' = [by |-> r, alive |-> TRUE]
    /\ \E pc \in {"unlock", "giveup"} : run' = [run EXCEPT ![r].pc = pc]
    /\ UNCHANGED <<conv, canc, lock>> /\ Local

\* The quota is spent, the conversation is gone, the key is taken, the session is lost.
PersistFails(r) ==
    /\ run[r].pc = "persist"
    /\ Goes(r, "giveup") /\ Local

\* A release that finds the lock lost is an error too.
Unlock(r) ==
    /\ run[r].pc \in {"unlock", "giveup"}
    /\ lock' = IF lock = r THEN NoOne ELSE lock
    /\ run' = [run EXCEPT ![r].pc = IF @ = "unlock" /\ lock = r THEN "reload" ELSE "resolve"]
    /\ UNCHANGED <<conv, canc, receipt>> /\ Local

\* What the transaction did is read back; after an error with a context of its own.
Reload(r) ==
    /\ run[r].pc \in {"reload", "resolve"}
    /\ Goes(r, IF Readable(r) /\ ~(run[r].pc = "reload" /\ run[r].ctx) THEN "complete" ELSE "error")
    /\ Local

\* The token total may not be readable; then the client hears an error.
Report(r) ==
    /\ run[r].pc = "report"
    /\ \E told \in IF run[r].ctx THEN {"error"} ELSE {"done", "error"} : Goes(r, told)
    /\ Local

IsRegistered(r) == run[r].pc \notin {"idle", "claiming", "claimed", "settle", "settling"} \cup Ended

\* The upstream timeout or a shutdown ends the runner's context.
Abort(r) ==
    /\ IsRegistered(r) /\ ~run[r].ctx
    /\ Moves(r, [run[r] EXCEPT !.ctx = TRUE])
    /\ Local

\* The process dies: its session with it, and the command it sent may still arrive.
Crash(r) ==
    LET f == run[r].call IN
    /\ run[r].pc \notin {"idle"} \cup Ended
    /\ Spend("crashes", MaxCrashes)
    /\ \/ f # NoCall /\ Executes(f)
       \/ f # NoCall /\ Lose(f) /\ UNCHANGED claimant
       \/ f = NoCall /\ UNCHANGED <<storeVars, claimant>>
    /\ run' = [run EXCEPT ![r] = Tidy([@ EXCEPT !.pc = "dead"])]
    /\ lock' = IF lock = r THEN NoOne ELSE lock
    /\ UNCHANGED <<conv, canc, receipt>>

-----------------------------------------------------------------------------
(* The convergers: PlatformGenerationControl.converge and Reconcile. *)

Shifts(v, state) == conv' = [conv EXCEPT ![v] = state] /\ UNCHANGED <<run, canc, receipt>>

Observe(v) ==
    /\ conv[v].pc = "idle"
    /\ \E t \in Reading : Shifts(v, [pc |-> "decide", t |-> t, again |-> FALSE, call |-> NoCall])
    /\ UNCHANGED lock /\ Local

Converges(v, next, pc) ==
    /\ CompareAndSet(v, conv[v].t, next)
    /\ Shifts(v, [conv[v] EXCEPT !.pc = pc, !.call = Message(v, "cas", conv[v].t, rec, next)])
    /\ UNCHANGED <<lock, claimant, spent>>

Rest(v) == Shifts(v, [pc |-> "idle", t |-> 0, again |-> FALSE, call |-> NoCall])

\* Mutant: a converger leaves cancelling records to their runners.
Decide_Lenient(v) ==
    LET t == conv[v].t IN
    /\ conv[v].pc = "decide"
    /\ CASE CanFailExpired(rec, t) -> Converges(v, Fail(rec, t), "writing")
         [] rec.state = "committing" /\ t >= rec.updated ->
                Shifts(v, [conv[v] EXCEPT !.pc = "locking"]) /\ UNCHANGED lock /\ Local
         [] OTHER -> Rest(v) /\ UNCHANGED lock /\ Local

Decide(v) ==
    LET t == conv[v].t IN
    /\ conv[v].pc = "decide"
    /\ CASE CanFailExpired(rec, t)        -> Converges(v, Fail(rec, t), "writing")
         [] CanConvergeCancelling(rec, t) -> Converges(v, AcknowledgeCancelled(rec, t), "writing")
         [] rec.state = "committing" /\ t >= rec.updated ->
                Shifts(v, [conv[v] EXCEPT !.pc = "locking"]) /\ UNCHANGED lock /\ Local
         [] OTHER -> Rest(v) /\ UNCHANGED lock /\ Local

\* Mutant: a converger that waited long enough for the lock goes on without it.
ConvergerLocks_Impatient(v) ==
    /\ conv[v].pc = "locking"
    /\ lock' = IF lock = NoOne THEN v ELSE lock
    /\ Shifts(v, [conv[v] EXCEPT !.pc = "load"])
    /\ Local

ConvergerLocks(v) ==
    /\ conv[v].pc = "locking"
    /\ IF lock = NoOne THEN lock' = v /\ Shifts(v, [conv[v] EXCEPT !.pc = "load"])
                       ELSE Rest(v) /\ UNCHANGED lock
    /\ Local

\* The receipt decides: complete the record, fail it if stale, or leave it alone.
LoadReceipt(v) ==
    /\ conv[v].pc = "load"
    /\ Shifts(v, [conv[v] EXCEPT !.pc = IF receipt = NoReceipt THEN "failstale"
                                        ELSE IF receipt.alive THEN "complete" ELSE "unlock"])
    /\ UNCHANGED lock /\ Local

\* A conflict sends the converger round once more, with the time it already read.
Refused(v) ==
    /\ Shifts(v, [conv[v] EXCEPT !.pc = IF conv[v].again THEN "unlock" ELSE "reunlock", !.call = NoCall])
    /\ UNCHANGED lock

ReconcileComplete(v) ==
    LET guids == MessageOf(receipt.by) IN
    /\ conv[v].pc = "complete"
    /\ IF CanComplete(rec, guids, conv[v].t) THEN Converges(v, Complete(rec, guids, conv[v].t), "resolving")
       ELSE Refused(v) /\ Local

\* Mutant: a converger fails any commit that has no receipt yet.
FailStale_Fresh(v) ==
    /\ conv[v].pc = "failstale"
    /\ IF rec.state = "committing" THEN Converges(v, FailStaleCommit(rec, conv[v].t), "resolving")
       ELSE Refused(v) /\ Local

FailStale(v) ==
    /\ conv[v].pc = "failstale"
    /\ IF CanFailStaleCommit(rec, conv[v].t) THEN Converges(v, FailStaleCommit(rec, conv[v].t), "resolving")
       ELSE Refused(v) /\ Local

ConvergerReturns(v) ==
    /\ conv[v].pc \in {"writing", "resolving"}
    /\ \E reply \in Replies :
        LET retry == reply = "conflict" /\ ~conv[v].again IN
        /\ Returns(conv[v].call, FALSE, reply)
        /\ IF conv[v].pc = "resolving"
           THEN Shifts(v, [conv[v] EXCEPT !.pc = IF retry THEN "reunlock" ELSE "unlock", !.call = NoCall])
           ELSE IF retry
           THEN Shifts(v, [conv[v] EXCEPT !.pc = "decide", !.again = TRUE, !.call = NoCall])
           ELSE Rest(v)
    /\ UNCHANGED lock

ConvergerUnlocks(v) ==
    /\ conv[v].pc \in {"unlock", "reunlock"}
    /\ lock' = IF lock = v THEN NoOne ELSE lock
    /\ IF conv[v].pc = "reunlock" THEN Shifts(v, [conv[v] EXCEPT !.pc = "decide", !.again = TRUE])
                                  ELSE Rest(v)
    /\ Local

-----------------------------------------------------------------------------
(* Cancellation: PlatformGenerationControl.Cancel and the registry callback. *)

Asks(c, pc, call) == canc' = [canc EXCEPT ![c] = [pc |-> pc, call |-> call]] /\ UNCHANGED <<conv, receipt, lock>>

RequestsCancel(c) ==
    /\ canc[c].pc = "idle" /\ now <= Horizon
    /\ \E t \in Reading : /\ SendCancel(c, t)
                          /\ Asks(c, "asking", Message(c, "cancel", t, rec, CancelTo(rec, t)))
    /\ UNCHANGED <<run, claimant, spent>>

\* A running record that was not turned over is asked again.
CancelReturns(c) ==
    LET f == canc[c].call
        transitioned == rec = f.expect /\ f.next # f.expect
    IN
    /\ canc[c].pc = "asking"
    /\ \E reply \in Replies :
        /\ Returns(f, FALSE, reply)
        /\ Asks(c, IF reply = "error" THEN "gone"
                   ELSE IF transitioned THEN "callback"
                   ELSE IF rec.state = "running" THEN "idle"
                   ELSE "answered", NoCall)
    /\ UNCHANGED run

\* The runner's context ends, if it registered in this process.
Callback(c) ==
    /\ canc[c].pc = "callback"
    /\ \E r \in Runners \cup {NoOwner} :
        run' = IF r \in Runners /\ IsRegistered(r) THEN [run EXCEPT ![r].ctx = TRUE] ELSE run
    /\ Asks(c, "answered", NoCall)
    /\ Local

-----------------------------------------------------------------------------
(* The surroundings. *)

SessionLost ==
    /\ lock # NoOne /\ lock' = NoOne
    /\ Spend("sessions", MaxSessions)
    /\ UNCHANGED <<storeVars, run, conv, canc, receipt, claimant>>

DeleteConversation ==
    /\ Deletes /\ receipt # NoReceipt /\ receipt.alive
    /\ receipt' = [receipt EXCEPT !.alive = FALSE]
    /\ UNCHANGED <<storeVars, run, conv, canc, lock, claimant, spent>>

TimePasses ==
    /\ Tick
    /\ claimant' = IF rec' = Absent THEN NoOwner ELSE claimant
    /\ UNCHANGED <<run, conv, canc, receipt, lock, spent>>

RunnerStep(r) ==
    \/ Claim(r) \/ Claimed(r) \/ Register(r) \/ RegisterFails(r) \/ SettleRegistrationFailure(r)
    \/ DeltaStarts(r) \/ DeltaReturns(r) \/ UpstreamEnds(r)
    \/ RenewFires(r) \/ RenewStops(r) \/ RenewStarts(r) \/ RenewReturns(r)
    \/ Select(r) \/ Join(r) \/ Finish(r) \/ Authority(r) \/ Mark(r) \/ Begin(r)
    \/ CompleteGeneration(r) \/ Recomplete(r) \/ CallReturns(r)
    \/ Finalize(r) \/ Preload(r) \/ TakesLock(r) \/ LockTimesOut(r) \/ Recheck(r)
    \/ Persist(r) \/ PersistFails(r) \/ Unlock(r) \/ Reload(r) \/ Report(r)

ConvergerStep(v) ==
    \/ Observe(v) \/ Decide(v) \/ ConvergerLocks(v) \/ LoadReceipt(v) \/ ReconcileComplete(v)
    \/ FailStale(v) \/ ConvergerReturns(v) \/ ConvergerUnlocks(v)

CancellerStep(c) == RequestsCancel(c) \/ CancelReturns(c) \/ Callback(c)

Next ==
    \/ \E r \in Runners : RunnerStep(r) \/ Abort(r) \/ Crash(r)
    \/ \E v \in Convergers : ConvergerStep(v)
    \/ \E c \in Cancellers : CancellerStep(c)
    \/ \E f \in flights : Stray(f)
    \/ SessionLost \/ DeleteConversation \/ TimePasses

Spec == Init /\ [][Next]_vars
-----------------------------------------------------------------------------
(* Fairness: goroutines are scheduled, convergers pass again and again, time goes on. *)

FairSpec ==
    /\ Spec
    /\ WF_vars(TimePasses)
    /\ \A r \in Runners : WF_vars(RunnerStep(r))
    /\ \A v \in Convergers : WF_vars(ConvergerStep(v))
    /\ \A c \in Cancellers : WF_vars(CancelReturns(c) \/ Callback(c))

-----------------------------------------------------------------------------
(* Properties. *)

\* The user pays for a generation when its receipt commits, in MySQL; the record, in
\* Redis, must never call that generation cancelled or failed afterwards.
ChargedNeverDead ==
    receipt # NoReceipt /\ receipt.by = claimant => rec.state \in {"absent", "committing", "completed"}

Verdict(pc) == IF pc = "done" THEN "completed" ELSE pc

\* What the client's stream ended with stays true: no write still in flight, of the
\* runner or of anyone else, makes the record say something else later.
VerdictsStand ==
    \A r \in Runners :
        run[r].pc \in {"done", "cancelled", "failed"} /\ claimant = r =>
            rec.state \in {"absent", Verdict(run[r].pc)}

\* Every delta the client got is counted in the record, one more at most, and a run
\* commits exactly what it sent.
SentIsRecorded ==
    \A r \in Runners :
        claimant = r /\ rec.state # "absent" =>
            \/ rec.model[TheModel].seq = run[r].seq
            \/ /\ rec.model[TheModel].seq = run[r].seq + 1
               /\ rec.state \notin {"committing", "completed"}

Phase ==
    CASE rec.state = "absent"     -> "none"
      [] rec.state = "running"    -> "open"
      [] rec.state = "cancelling" -> "stopping"
      [] rec.state = "committing" -> "deciding"
      [] rec.state = "completed"  -> "published"
      [] OTHER                    -> "dead"

\* Within one life of the key, Redis and MySQL together keep the promise of
\* GenerationOutcome, whatever dies, is lost or races.
Promise == INSTANCE GenerationOutcome WITH phase <- Phase, charged <- receipt # NoReceipt
PromiseKept == Promise!OutcomeSpec

\* Every goroutine that shares the record is one of the store's clients: it changes the
\* record by the store's own calls only.
UsesTheStore == StoreSpec

Settled == rec.state \in Terminal

\* Whatever dies or is lost, a record that was claimed ends cancelled, failed or completed.
EveryRecordSettles == rec.state \in {"running", "cancelling", "committing"} ~> Settled

=============================================================================
