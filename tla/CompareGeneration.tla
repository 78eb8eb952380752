------------------------- MODULE CompareGeneration -------------------------
(***************************************************************************)
(* A generation in compare mode: one worker per model, the renewal of the  *)
(* lease and the coordinator share one mutex (PlatformCompareGeneration-   *)
(* Runner); its event stream (PlatformSSEV2Encoder); a cancel and its      *)
(* polling (PlatformGenerationControl.Cancel); GETs and background passes. *)
(* A store call is one step here: GenerationStore takes it apart.  A call  *)
(* under the mutex excludes the other goroutines, never the other servers. *)
(***************************************************************************)
EXTENDS GenerationRecord

CONSTANTS NoReceipt,
          MaxSeq, MaxTime, MaxLost  \* bounds: deltas of a model, clock ticks, calls whose reply is lost

\* What a goroutine leaves of its model; a receipt is not the lack of one.
ResultState == {"none", "completed", "failed"}

ASSUME CompareAssumption ==
    /\ Guids = Models /\ {MaxSeq, MaxTime, MaxLost} \subseteq Nat /\ Owners # {}
    /\ NoReceipt \notin [Models -> ResultState]

VARIABLES rec, now,
          worker,    \* what each model's goroutine is at, and its result
          run,       \* the coordinator, the renewal and the runner's context
          receipt,   \* the results that were charged
          seen,      \* frames the encoder let through
          cancel, lost

compareVars == <<rec, now, worker, run, receipt, seen, cancel, lost>>

Me == CHOOSE o \in Owners : TRUE

CompareInit ==
    /\ rec = Absent /\ now = 1
    /\ worker = [m \in Models |-> [at |-> "upstream", seq |-> 0, result |-> "none"]]
    /\ run = [pc |-> "idle", fatal |-> FALSE, ctx |-> "live", renew |-> "waiting", rt |-> 0, saw |-> "absent"]
    /\ receipt = NoReceipt
    /\ seen = [model |-> [m \in Models |-> "none"], delta |-> [m \in Models |-> 0], end |-> "none"]
    /\ cancel = [pc |-> "idle", accepted |-> FALSE, answer |-> "none"]
    /\ lost = 0

----------------------------------------------------------------------------
(* Calls and frames *)

\* Mutant: a call that timed out is taken for done.
Store_Trusting(can, next, cut, ok) ==
    \/ ok /\ can /\ ~cut /\ rec' = next /\ UNCHANGED lost
    \/ ~ok /\ (~can \/ cut) /\ UNCHANGED <<rec, lost>>
    \/ ok /\ lost < MaxLost /\ lost' = lost + 1 /\ rec' \in {rec, IF can /\ ~cut THEN next ELSE rec}

\* A call whose context is over does nothing; one whose reply is lost may have done it.
Store(can, next, cut, ok) ==
    \/ ok /\ can /\ ~cut /\ rec' = next /\ UNCHANGED lost
    \/ ~ok /\ (~can \/ cut) /\ UNCHANGED <<rec, lost>>
    \/ ~ok /\ lost < MaxLost /\ lost' = lost + 1 /\ rec' \in {rec, IF can /\ ~cut THEN next ELSE rec}

Cut == run.ctx # "live"

\* cancelRunner ends the context of every goroutine of the run.
Cancelled(state) == [state EXCEPT !.ctx = IF @ = "live" THEN "cancelled" ELSE @]
Fatal == run' = Cancelled([run EXCEPT !.fatal = TRUE])

\* Nothing follows a terminal event.
Frame(next) == seen' = IF seen.end = "none" THEN next ELSE seen

\* The encoder lets one terminal event through.
Tells(end) == seen' = IF seen.end = "none" THEN [seen EXCEPT !.end = end] ELSE seen

Goes(pc) == run' = [run EXCEPT !.pc = pc]

----------------------------------------------------------------------------
(* Entry *)

\* A reply that is lost leaves a running record behind, for the convergers.
Claims ==
    /\ run.pc = "idle"
    /\ \E ok \in BOOLEAN : /\ Store(rec = Absent, NewRunning(Me, now), FALSE, ok)
                           /\ \E pc \in IF ok THEN {"models", "settle"} ELSE {"end"} : Goes(pc)
    /\ UNCHANGED <<now, worker, receipt, seen, cancel>>

\* A tombstone gets its models; the caller is told of a duplicate.
ClaimFindsTombstone ==
    /\ run.pc = "idle" /\ rec.bare
    /\ \E ok \in BOOLEAN : Store(TRUE, Enriched(rec), FALSE, ok)
    /\ Goes("end")
    /\ UNCHANGED <<now, worker, receipt, seen, cancel>>

SettleOwnedRunning ==
    /\ run.pc = "settle"
    /\ \E ok \in BOOLEAN : Store(CanFailRunning(rec, Me, now), Fail(rec, now), FALSE, ok)
    /\ Goes("end")
    /\ UNCHANGED <<now, worker, receipt, seen, cancel>>

----------------------------------------------------------------------------
(* Workers *)

Streaming(m) == run.pc = "models" /\ worker[m].at = "upstream"

Delta(m) ==
    LET s == worker[m].seq + 1 IN
    /\ Streaming(m) /\ s <= MaxSeq /\ ~run.fatal
    /\ \E ok \in BOOLEAN :
        /\ Store(CanRecordDelta(rec, Me, m, s, now), RecordDelta(rec, m, s, now), Cut, ok)
        /\ IF ok THEN /\ worker' = [worker EXCEPT ![m].seq = s]
                      /\ Frame([seen EXCEPT !.delta[m] = s]) /\ UNCHANGED run
                 ELSE /\ worker' = [worker EXCEPT ![m].at = "ended"]
                      /\ Fatal /\ UNCHANGED seen
    /\ UNCHANGED <<now, receipt, cancel>>

\* The stream broke, the upstream timed out, or the context ended and closed its body.
StreamBreaks(m) ==
    /\ Streaming(m)
    /\ worker' = [worker EXCEPT ![m].at = IF run.ctx = "cancelled" THEN "cancelled" ELSE "broken"]
    /\ UNCHANGED <<rec, now, run, receipt, seen, cancel, lost>>

Result(m, state) == [worker EXCEPT ![m] = [@ EXCEPT !.at = "ended", !.result = state]]

ModelDone(m) ==
    /\ Streaming(m) /\ worker[m].seq > 0 /\ ~run.fatal
    /\ \E ok \in BOOLEAN :
        /\ Store(CanMarkModelDone(rec, Me, m, worker[m].seq, now), MarkModelDone(rec, m, now), Cut, ok)
        /\ IF ok THEN worker' = Result(m, "completed") /\ Frame([seen EXCEPT !.model[m] = "done"]) /\ UNCHANGED run
                 ELSE worker' = [worker EXCEPT ![m].at = "ended"] /\ Fatal /\ UNCHANGED seen
    /\ UNCHANGED <<now, receipt, cancel>>

\* The failure is written with a context of its own; a cancelled worker writes none.
FailModel(m) ==
    /\ worker[m].at = "broken" /\ ~run.fatal
    /\ \E ok \in BOOLEAN :
        /\ Store(CanMarkModelFailed(rec, Me, m, now), MarkModelFailed(rec, m, now), FALSE, ok)
        /\ IF ok THEN worker' = Result(m, "failed") /\ Frame([seen EXCEPT !.model[m] = "error"]) /\ UNCHANGED run
                 ELSE worker' = [worker EXCEPT ![m].at = "ended"] /\ Fatal /\ UNCHANGED seen
    /\ UNCHANGED <<now, receipt, cancel>>

WorkerQuits(m) ==
    /\ worker[m].at = "cancelled" \/ (run.fatal /\ run.pc = "models" /\ worker[m].at # "ended")
    /\ worker' = [worker EXCEPT ![m].at = "ended"]
    /\ Fatal
    /\ UNCHANGED <<rec, now, receipt, seen, cancel, lost>>

----------------------------------------------------------------------------
(* Renewal: the clock is read before the mutex is waited for. *)

RenewalDue ==
    /\ run.pc = "models" /\ run.renew = "waiting"
    /\ run' = [run EXCEPT !.renew = "locking", !.rt = now]
    /\ UNCHANGED <<rec, now, worker, receipt, seen, cancel, lost>>

RenewLeases ==
    /\ run.pc = "models" /\ run.renew = "locking" /\ ~run.fatal
    /\ \E ok \in BOOLEAN :
        /\ Store(CanRenewLease(rec, Me, run.rt), RenewLease(rec, run.rt), Cut, ok)
        /\ run' = IF ok THEN [run EXCEPT !.renew = "waiting", !.rt = 0]
                  ELSE Cancelled([run EXCEPT !.renew = "stopped", !.rt = 0, !.fatal = TRUE])
    /\ UNCHANGED <<now, worker, receipt, seen, cancel>>

RenewalStops ==
    /\ run.renew # "stopped" /\ (run.pc = "joining" \/ Cut \/ run.fatal)
    /\ run' = [run EXCEPT !.renew = "stopped", !.rt = 0]
    /\ UNCHANGED <<rec, now, worker, receipt, seen, cancel, lost>>

TimesOut ==
    /\ run.pc \notin {"idle", "end"} /\ run.ctx = "live"
    /\ run' = [run EXCEPT !.ctx = "timeout"]
    /\ UNCHANGED <<rec, now, worker, receipt, seen, cancel, lost>>

----------------------------------------------------------------------------
(* The end of a run *)

TerminalPhase ==
    /\ run.pc = "models" /\ \A m \in Models : worker[m].at = "ended"
    /\ Goes("joining")
    /\ UNCHANGED <<rec, now, worker, receipt, seen, cancel, lost>>

AllFailed == \A m \in Models : worker[m].result = "failed"

Judge ==
    /\ run.pc = "joining" /\ run.renew = "stopped"
    /\ run' = [run EXCEPT !.fatal = @ \/ Cut, !.pc = IF run.fatal \/ Cut \/ AllFailed THEN "converge" ELSE "begin"]
    /\ UNCHANGED <<rec, now, worker, receipt, seen, cancel, lost>>

\* What the record must say of the models before they are charged.
Agrees == \A m \in Models : rec.model[m].state = worker[m].result /\ rec.model[m].seq = worker[m].seq

Committing ==
    /\ run.pc = "begin"
    /\ \E ok \in BOOLEAN : /\ Store(CanBeginCommit(rec, Me, now), BeginCommit(rec, now), Cut, ok)
                           /\ Goes(IF ok THEN "finalize" ELSE "recover")
    /\ UNCHANGED <<now, worker, receipt, seen, cancel>>

Results == [m \in Models |-> worker[m].result]

Chargeable == receipt = NoReceipt /\ rec.state = "committing" /\ Agrees

\* Under the advisory lock the record is read again, then one transaction charges; its answer may be lost.
Finalizes ==
    /\ run.pc = "finalize"
    /\ \/ /\ ~Cut /\ Chargeable
          /\ receipt' = Results
          /\ \/ Goes("complete") /\ UNCHANGED lost
             \/ lost < MaxLost /\ lost' = lost + 1 /\ Goes("recover")
       \/ Goes("recover") /\ UNCHANGED <<receipt, lost>>
    /\ UNCHANGED <<rec, now, worker, seen, cancel>>

ReceiptGuids == [m \in {n \in Models : worker[n].result = "completed"} |-> m]
ReceiptMatches == receipt = Results

Completes ==
    /\ run.pc = "complete"
    /\ \E ok \in BOOLEAN : /\ Store(CanComplete(rec, ReceiptGuids, now), Complete(rec, ReceiptGuids, now), Cut, ok)
                           /\ Goes(IF ok THEN "done" ELSE "recover")
    /\ UNCHANGED <<now, worker, receipt, seen, cancel>>

\* Mutant: a record that was found committing is reported done.
RecoversTo_Hasty == IF rec.state \in {"committing", "completed"} THEN "done" ELSE "converge"

\* A commit without a receipt is left to the convergers; the stream ends without a verdict.
RecoversTo ==
    IF rec.state \in {"committing", "completed"} THEN IF ReceiptMatches THEN "reconcile" ELSE "end"
    ELSE "converge"

Recovers ==
    /\ run.pc = "recover"
    /\ \/ Goes(RecoversTo) /\ UNCHANGED lost
       \/ lost < MaxLost /\ lost' = lost + 1 /\ Goes("end")
    /\ UNCHANGED <<rec, now, worker, receipt, seen, cancel>>

AlreadyCompleted == rec.state = "completed" /\ GuidMapMatches(rec, ReceiptGuids)

Reconciles ==
    /\ run.pc \in {"reconcile", "quietly"}
    /\ \E ok \in BOOLEAN :
        /\ Store(AlreadyCompleted \/ CanComplete(rec, ReceiptGuids, now),
                 IF AlreadyCompleted THEN rec ELSE Complete(rec, ReceiptGuids, now), FALSE, ok)
        /\ Goes(IF ok /\ run.pc = "reconcile" THEN "done" ELSE "end")
    /\ UNCHANGED <<now, worker, receipt, seen, cancel>>

\* The token total may not be readable; then the client hears an error.
EmitsDone ==
    /\ run.pc = "done"
    /\ \E end \in {"done", "error"} : Tells(end)
    /\ Goes("end")
    /\ UNCHANGED <<rec, now, worker, receipt, cancel, lost>>

ConvergeReads ==
    /\ run.pc = "converge"
    /\ run' = [run EXCEPT !.saw = rec.state,
                          !.pc = CASE rec.state \in {"running", "cancelling"} -> "ending"
                                   [] rec.state \in {"cancelled", "failed"} -> "told"
                                   [] OTHER -> IF ReceiptMatches THEN "quietly" ELSE "end"]
    /\ UNCHANGED <<rec, now, worker, receipt, seen, cancel, lost>>

\* A record that moved on since it was read is refused, and the client hears nothing.
ConvergeActs ==
    /\ run.pc = "ending"
    /\ \E ok \in BOOLEAN :
        /\ IF run.saw = "running" THEN Store(CanFailRunning(rec, Me, now), Fail(rec, now), FALSE, ok)
           ELSE Store(CanAcknowledgeCancelled(rec, Me, now), AcknowledgeCancelled(rec, now), FALSE, ok)
        /\ run' = [run EXCEPT !.pc = IF ok THEN "told" ELSE "end",
                              !.saw = IF @ = "running" THEN "failed" ELSE "cancelled"]
    /\ UNCHANGED <<now, worker, receipt, seen, cancel>>

EmitsConvergence ==
    /\ run.pc = "told"
    /\ Tells(IF run.saw = "cancelled" THEN "cancelled" ELSE "error")
    /\ Goes("end")
    /\ UNCHANGED <<rec, now, worker, receipt, cancel, lost>>

----------------------------------------------------------------------------
(* Cancellation and its polling *)

\* Mutant: a commit that has begun is cancelled as well.
Turnable_Committing == CanRequestCancel(rec, now) \/ rec.state = "committing"

Turnable == CanRequestCancel(rec, now)

CancelTo == IF rec = Absent THEN Tombstone(now) ELSE IF Turnable THEN RequestCancel(rec, now) ELSE rec

\* A call of unknown outcome ends the request; a running record that was not turned is asked again.
Cancels ==
    /\ cancel.pc = "idle"
    /\ \E ok \in BOOLEAN :
        /\ Store(TRUE, CancelTo, FALSE, ok)
        /\ cancel' = IF ~ok THEN [cancel EXCEPT !.pc = "gone"]
                     ELSE IF CancelTo.state \in Terminal THEN [cancel EXCEPT !.pc = "answered", !.answer = CancelTo.state]
                     ELSE IF CancelTo # rec THEN [cancel EXCEPT !.pc = "callback", !.accepted = TRUE]
                     ELSE IF rec.state = "running" THEN cancel
                     ELSE [cancel EXCEPT !.pc = "polling"]
    /\ UNCHANGED <<now, worker, run, receipt, seen>>

\* The registry of this server has the run, or not: then only the record tells it.
Callback ==
    /\ cancel.pc = "callback"
    /\ cancel' = [cancel EXCEPT !.pc = "polling"]
    /\ \/ run.pc \in {"idle", "end"} /\ UNCHANGED run
       \/ run.pc \notin {"idle", "end"} /\ run' = Cancelled(run)
    /\ UNCHANGED <<rec, now, worker, receipt, seen, lost>>

\* Within five seconds the outcome, after them what was last seen.
Polls ==
    /\ cancel.pc = "polling" /\ rec.state # "running"
    /\ rec.state = "completed" => receipt # NoReceipt
    /\ cancel' = [cancel EXCEPT !.pc = "answered", !.answer = rec.state]
    /\ UNCHANGED <<rec, now, worker, run, receipt, seen, lost>>

----------------------------------------------------------------------------
(* GETs and passes on other servers, each a compare-and-set or under the advisory lock *)

Converges ==
    /\ \/ CanFailExpired(rec, now) /\ rec' = Fail(rec, now)
       \/ CanConvergeCancelling(rec, now) /\ rec' = AcknowledgeCancelled(rec, now)
    /\ UNCHANGED <<now, worker, run, receipt, seen, cancel, lost>>

ReceiptDecides ==
    /\ \/ /\ receipt # NoReceipt
          /\ CanComplete(rec, ReceiptGuids, now) /\ rec' = Complete(rec, ReceiptGuids, now)
       \/ receipt = NoReceipt /\ CanFailStaleCommit(rec, now) /\ rec' = FailStaleCommit(rec, now)
    /\ UNCHANGED <<now, worker, run, receipt, seen, cancel, lost>>

Ticks == now < MaxTime /\ now' = now + 1 /\ UNCHANGED <<rec, worker, run, receipt, seen, cancel, lost>>

CompareNext ==
    \/ Claims \/ ClaimFindsTombstone \/ SettleOwnedRunning
    \/ \E m \in Models : Delta(m) \/ StreamBreaks(m) \/ ModelDone(m) \/ FailModel(m) \/ WorkerQuits(m)
    \/ RenewalDue \/ RenewLeases \/ RenewalStops \/ TimesOut
    \/ TerminalPhase \/ Judge \/ Committing \/ Finalizes \/ Completes \/ Recovers \/ Reconciles \/ EmitsDone
    \/ ConvergeReads \/ ConvergeActs \/ EmitsConvergence
    \/ Cancels \/ Callback \/ Polls \/ Converges \/ ReceiptDecides \/ Ticks

CompareSpec == CompareInit /\ [][CompareNext]_compareVars

----------------------------------------------------------------------------
(* Properties *)

\* A stream that ended "done" belongs to a completed, charged record; one that ended "cancelled" was
\* never charged, whoever moved the record meanwhile, and what was charged is never ended otherwise
\* (platform_compare_generation.go:456-531, 684-732).
ToldAgree ==
    /\ seen.end = "done" => rec.state = "completed" /\ receipt # NoReceipt
    /\ seen.end = "cancelled" => rec.state = "cancelled" /\ receipt = NoReceipt
    /\ receipt # NoReceipt => rec.state \in {"committing", "completed"}

\* Each model is charged as the client was told of it, every frame of a model is backed by the
\* record, and a finished stream has told of every model (platform_compare_generation.go:734-887).
ModelsToldTruly ==
    /\ receipt # NoReceipt => \A m \in Models :
         seen.model[m] = IF receipt[m] = "completed" THEN "done" ELSE "error"
    /\ rec.state # "absent" /\ ~rec.bare => \A m \in Models : seen.delta[m] <= rec.model[m].seq
    /\ seen.end = "done" => \A m \in Models : seen.model[m] # "none"

\* A cancel that turned the record over is never followed by a charge, and a final answer to it
\* stays true (platform_generation_control.go:211-355).
CancelHolds ==
    /\ cancel.accepted => receipt = NoReceipt /\ seen.end # "done"
    /\ cancel.answer \in Terminal => rec.state = cancel.answer

Phase ==
    CASE rec.state = "absent"     -> "none"
      [] rec.state = "running"    -> "open"
      [] rec.state = "cancelling" -> "stopping"
      [] rec.state = "committing" -> "deciding"
      [] rec.state = "completed"  -> "published"
      [] OTHER                    -> "dead"

\* The models of a comparison are charged together and by the promise a single generation keeps: once, while
\* the commit is being decided, before the record completes and never if it ends cancelled or failed, whatever
\* the workers, the renewal, a cancel and the convergers do in between (platform_compare_generation.go:628-710).
Outcome == INSTANCE GenerationOutcome WITH phase <- Phase, charged <- receipt # NoReceipt
ComparePromise == Outcome!OutcomeSpec
=============================================================================
