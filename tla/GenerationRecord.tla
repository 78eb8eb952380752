------------------------- MODULE GenerationRecord -------------------------
(***************************************************************************)
(* The Redis registry record of one platform generation and the pure part  *)
(* of every operation on it: when the operation is admitted (Can...) and   *)
(* the record it writes.  A record is the JSON document of                 *)
(* PlatformGenerationSnapshot; error codes, the mode and the generation id *)
(* are left out.  A missing key is the record Absent.                      *)
(***************************************************************************)
EXTENDS Integers, FiniteSets

CONSTANTS
    Models,     \* the models of the generation (one in single mode)
    Owners,     \* lease tokens; each Claim call draws a fresh one
    NoOwner,    \* lease_owner_sha256 is ""
    Guids,      \* assistant message GUIDs
    NoGuid,     \* assistant_message_guid is ""
    Lease,      \* platformGenerationLeaseDuration
    Window      \* platformGenerationConvergenceWindow

ASSUME RecordAssumption ==
    /\ Models # {}
    /\ IsFiniteSet(Models)
    /\ NoOwner \notin Owners
    /\ NoGuid \notin Guids
    /\ Lease \in Nat \ {0}
    /\ Window \in Nat \ {0}

ModelState == {"running", "completed", "failed", "cancelled"}
State == {"absent", "running", "cancelling", "cancelled", "committing", "completed", "failed"}
Terminal == {"cancelled", "completed", "failed"}

Entry == [seq : Nat, state : ModelState, guid : Guids \cup {NoGuid}]

Record == [state : State, bare : BOOLEAN, model : [Models -> Entry], created : Nat,
           updated : Nat, owner : Owners \cup {NoOwner}, until : Nat]

Untouched(s) == [m \in Models |-> [seq |-> 0, state |-> s, guid |-> NoGuid]]

Absent == [state |-> "absent", bare |-> FALSE, model |-> Untouched("cancelled"), created |-> 0,
           updated |-> 0, owner |-> NoOwner, until |-> 0]

-----------------------------------------------------------------------------
(* Records that a claim or a cancel creates. *)

NewRunning(o, t) == [state |-> "running", bare |-> FALSE, model |-> Untouched("running"),
                     created |-> t, updated |-> t, owner |-> o, until |-> t + Lease]

\* A cancel that finds no record leaves a tombstone without mode or models.
Tombstone(t) == [Absent EXCEPT !.state = "cancelled", !.bare = TRUE, !.created = t, !.updated = t]

\* A claim that finds a tombstone writes its models in, cancelled, and keeps the times.
Enriched(r) == [r EXCEPT !.bare = FALSE]

-----------------------------------------------------------------------------
(* What a stored record may look like: validPlatformGenerationSnapshot. *)

ModelsIn(r, s) == {m \in Models : r.model[m].state = s}

ValidTombstone(r) == /\ r.model = Untouched("cancelled")
                     /\ r.owner = NoOwner /\ r.until = 0
                     /\ r.created > 0 /\ r.updated = r.created

ValidLease(r) ==
    CASE r.state = "running"    -> r.owner # NoOwner /\ r.until > 0
      [] r.state = "cancelling" -> r.owner # NoOwner /\ r.until = 0
      [] OTHER                  -> r.owner = NoOwner /\ r.until = 0

ValidModels(r) ==
    /\ \A m \in Models : (r.model[m].guid # NoGuid)
                            <=> (r.state = "completed" /\ r.model[m].state = "completed")
    /\ r.state \in Terminal \cup {"committing"} => ModelsIn(r, "running") = {}
    /\ r.state \in {"committing", "completed"} => ModelsIn(r, "completed") # {}

Valid(r) ==
    IF r.bare
    THEN r.state = "cancelled" /\ ValidTombstone(r)
    ELSE /\ r.state # "absent"
         /\ 0 < r.created /\ r.created <= r.updated
         /\ ValidLease(r)
         /\ ValidModels(r)

-----------------------------------------------------------------------------
(* Lease authority. *)

RunningLeaseAuthorized(r, o, t) == r.state = "running" /\ r.owner = o /\ t < r.until

OwnedMutationAuthorized(r, o, t) ==
    r.owner = o /\ (r.state = "running" => RunningLeaseAuthorized(r, o, t))

\* The latest moment the record shows its owner active: a renewal also moves it.
LatestRunningActivity(r) ==
    IF r.until # 0 /\ r.until - Lease > r.updated THEN r.until - Lease ELSE r.updated

-----------------------------------------------------------------------------
(* Store operations.  mutate refuses a clock behind the record, applies the  *)
(* change, stamps the time and drops the lease the new state may not hold.   *)

Mutable(r, t) == r.state # "absent" /\ t >= r.updated

Stamp(r, t) ==
    [r EXCEPT !.updated = t,
              !.owner = IF r.state \in {"running", "cancelling"} THEN r.owner ELSE NoOwner,
              !.until = IF r.state = "running" THEN r.until ELSE 0]

\* The owned operations check the lease inside mutate.
Owned(r, o, t) == Mutable(r, t) /\ OwnedMutationAuthorized(r, o, t)

\* Models still running end with the record.
Settle(r, s) == [r EXCEPT !.state = s,
                          !.model = [m \in Models |->
                              IF r.model[m].state = "running" THEN [r.model[m] EXCEPT !.state = s]
                                                              ELSE r.model[m]]]

\* Mutant: a delta is counted after its model ended.
CanRecordDelta_AnyModel(r, o, m, s, t) == Owned(r, o, t) /\ r.state = "running" /\ s = r.model[m].seq + 1

CanRecordDelta(r, o, m, s, t) ==
    Owned(r, o, t) /\ r.state = "running" /\ r.model[m].state = "running" /\ s = r.model[m].seq + 1
RecordDelta(r, m, s, t) == Stamp([r EXCEPT !.model[m].seq = s], t)

CanMarkModelDone(r, o, m, s, t) ==
    Owned(r, o, t) /\ r.state = "running" /\ r.model[m].state = "running" /\ s = r.model[m].seq
MarkModelDone(r, m, t) == Stamp([r EXCEPT !.model[m].state = "completed"], t)

CanMarkModelFailed(r, o, m, t) ==
    Owned(r, o, t) /\ r.state = "running" /\ r.model[m].state = "running"
MarkModelFailed(r, m, t) == Stamp([r EXCEPT !.model[m].state = "failed"], t)

\* Mutant: models that still run are forgotten.
CanBeginCommit_Early(r, o, t) ==
    Owned(r, o, t) /\ r.state = "running" /\ ModelsIn(r, "cancelled") = {} /\ ModelsIn(r, "completed") # {}

CanBeginCommit(r, o, t) ==
    /\ Owned(r, o, t) /\ r.state = "running"
    /\ ModelsIn(r, "running") \cup ModelsIn(r, "cancelled") = {}
    /\ ModelsIn(r, "completed") # {}
BeginCommit(r, t) == Stamp([r EXCEPT !.state = "committing"], t)

CanFailRunning(r, o, t) == Owned(r, o, t) /\ r.state = "running"
CanAcknowledgeCancelled(r, o, t) == Owned(r, o, t) /\ r.state = "cancelling"
Fail(r, t) == Stamp(Settle(r, "failed"), t)
AcknowledgeCancelled(r, t) == Stamp(Settle(r, "cancelled"), t)

\* guids gives exactly the completed models a GUID each, no two the same.
CanComplete(r, guids, t) ==
    /\ Mutable(r, t) /\ r.state = "committing"
    /\ DOMAIN guids = ModelsIn(r, "completed")
    /\ \A m, n \in DOMAIN guids : m # n => guids[m] # guids[n]
Complete(r, guids, t) ==
    Stamp([r EXCEPT !.state = "completed",
                    !.model = [m \in Models |-> IF m \in DOMAIN guids
                                                THEN [r.model[m] EXCEPT !.guid = guids[m]]
                                                ELSE r.model[m]]], t)

GuidMapMatches(r, guids) ==
    /\ DOMAIN guids = ModelsIn(r, "completed")
    /\ \A m \in DOMAIN guids : guids[m] = r.model[m].guid

CanFailStaleCommit(r, t) == Mutable(r, t) /\ r.state = "committing" /\ t - r.updated >= Window
FailStaleCommit(r, t) == Stamp([r EXCEPT !.state = "failed"], t)

-----------------------------------------------------------------------------
(* Control operations, which write the lease themselves. *)

\* Mutant: the clock of a renewal may be behind the record.
CanRenewLease_Regressing(r, o, t) == RunningLeaseAuthorized(r, o, t)

CanRenewLease(r, o, t) == RunningLeaseAuthorized(r, o, t) /\ t >= LatestRunningActivity(r)
RenewLease(r, t) == [r EXCEPT !.updated = t, !.until = t + Lease]

CanFailExpired(r, t) ==
    r.state = "running" /\ t >= r.updated /\ (r.until # 0 => t >= r.until)

CanConvergeCancelling(r, t) ==
    r.state = "cancelling" /\ t >= r.updated /\ t - r.updated >= Window

\* A cancel turns a running record over, unless its clock is behind the record.
CanRequestCancel(r, t) == r.state = "running" /\ t >= LatestRunningActivity(r)
RequestCancel(r, t) == [r EXCEPT !.state = "cancelling", !.updated = t, !.until = 0]

=============================================================================
