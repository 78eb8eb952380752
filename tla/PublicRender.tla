---------------------------- MODULE PublicRender ----------------------------
(***************************************************************************)
(* Render jobs of the public site (service/public_render_job.go,           *)
(* public_render_artifact.go, public_catalog_read.go,                      *)
(* cmd/public-render-job).  Every publication queues a job for its         *)
(* generation; a worker leases it, projects the catalogue, switches the    *)
(* served link and completes the job.  Job transactions lock the           *)
(* publication state and are steps; each has read its clock before it      *)
(* waited for that lock.  The fence is the count of attempts: it names the *)
(* holder.  What an artifact holds is its generation and its time.         *)
(***************************************************************************)
EXTENDS Naturals, FiniteSets

CONSTANTS Workers,
          LeaseTime,    \* how long a lease lasts
          RetryDelay,   \* delay after a first failure, doubled after a second
          MaxAttempts,  \* attempts in a cycle (3)
          Lag,          \* how long before a step its clock may have been read
          MaxGeneration, MaxDate, MaxCycles,  \* bounds
          MaxDue        \* bound: times at which announcements of one publication take effect

ASSUME RenderAssumption ==
    /\ {LeaseTime, RetryDelay, MaxAttempts} \subseteq Nat \ {0}
    /\ {Lag, MaxGeneration, MaxDate, MaxCycles, MaxDue} \subseteq Nat

VARIABLES now, generation, due,  \* the clock; the current generation, when its announcements take effect
          job,      \* a job for each generation
          alert,    \* its alert
          link,     \* what "current" links to
          worker,
          acked, undone  \* history: the last result told; completed renders a worker took back
renderVars == <<now, generation, due, job, alert, link, worker, acked, undone>>

NoJob == [state |-> "none", fence |-> 0, expires |-> 0, marker |-> 0, updated |-> 0]
Nothing == [gen |-> 0, fence |-> 0, asof |-> 0]
Unengaged == [at |-> "idle", gen |-> 0, fence |-> 0, asof |-> 0, prev |-> Nothing, since |-> 0]

RenderInit ==
    /\ now = 1 /\ generation = 0 /\ due = {} /\ link = Nothing
    /\ job = [g \in 1..MaxGeneration |-> NoJob] /\ alert = [g \in 1..MaxGeneration |-> "none"]
    /\ worker = [w \in Workers |-> Unengaged] /\ acked = [gen |-> 0, fence |-> 0] /\ undone = {}

Newer(a, b) == a.gen > b.gen \/ (a.gen = b.gen /\ a.fence > b.fence)

\* The times a worker may have read for the step it takes now.
Readings(w) == {t \in 1..now : t + Lag >= now /\ t >= worker[w].since}

----------------------------------------------------------------------------
(* The job *)

Ordinal(fence) == ((fence - 1) % MaxAttempts) + 1
Exhausted(fence) == fence > 0 /\ Ordinal(fence) = MaxAttempts

\* The fence from which the next cycle's attempts count.
NextCycle(fence) == IF fence = 0 THEN 0 ELSE fence + MaxAttempts - Ordinal(fence)

\* The latest announcement in effect; 0 for none.
Watermark(t) == LET past == {d \in due : d <= t} IN IF past = {} THEN 0 ELSE CHOOSE d \in past : \A o \in past : o <= d

ShouldQueue(j, t) ==
    \/ j.state = "succeeded" /\ j.marker < Watermark(t)
    \/ j.state = "failed" /\ (IF j.marker # 0 THEN j.marker ELSE j.updated) < Watermark(t)

\* An announcement took effect since the render: it is queued again.
Requeued(t) ==
    IF generation = 0 THEN job
    ELSE [job EXCEPT ![generation] =
            IF ShouldQueue(@, t) THEN [state |-> "queued", fence |-> NextCycle(@.fence), expires |-> 0, marker |-> 0, updated |-> t] ELSE @]

Ready(j, t) == j.state \in {"queued", "leased"} /\ j.expires <= t

Obsolete(j, t) == [j EXCEPT !.state = "failed", !.expires = 0, !.marker = 0, !.updated = t]
GivenUp(j, t) == [j EXCEPT !.state = "failed", !.expires = 0, !.updated = t]
Attempt(j, t) == [state |-> "leased", fence |-> j.fence + 1, expires |-> t + LeaseTime, marker |-> t, updated |-> t]

\* Jobs of superseded generations are swept; an expired last attempt fails the job, any other is leased.
Leases(w) == \E t \in Readings(w) :
    LET found == Requeued(t)
        swept == [g \in 1..MaxGeneration |-> IF g # generation /\ Ready(found[g], t) THEN Obsolete(found[g], t) ELSE found[g]]
        j == IF generation = 0 THEN NoJob ELSE found[generation] IN
    /\ worker[w].at = "idle"
    /\ \/ j.state = "leased" /\ Ready(j, t) /\ Exhausted(j.fence)
          /\ job' = [swept EXCEPT ![generation] = GivenUp(j, t)] /\ alert' = [alert EXCEPT ![generation] = "active"]
          /\ UNCHANGED worker
       \/ Ready(j, t) /\ ~(j.state = "leased" /\ Exhausted(j.fence)) /\ j.fence < MaxAttempts * MaxCycles
          /\ job' = [swept EXCEPT ![generation] = Attempt(j, t)] /\ UNCHANGED alert
          /\ worker' = [worker EXCEPT ![w] = [Unengaged EXCEPT !.at = "leased", !.gen = generation, !.fence = j.fence + 1, !.since = t]]
       \/ ~Ready(j, t) /\ job' = swept /\ UNCHANGED <<alert, worker>>
    /\ UNCHANGED <<now, generation, due, link, acked, undone>>

\* Mutant: the lease's fence is not compared.
HoldsLease_AnyFence(w, t) ==
    /\ worker[w].gen = generation
    /\ LET j == job[generation] IN j.state = "leased" /\ j.expires > t

HoldsLease(w, t) ==
    /\ worker[w].gen = generation
    /\ LET j == job[generation] IN j.state = "leased" /\ j.fence = worker[w].fence /\ j.expires > t

RenewsLease(w) == \E t \in Readings(w) :
    /\ worker[w].at \in {"leased", "built", "active"} /\ HoldsLease(w, t)
    /\ job' = [job EXCEPT ![generation].expires = t + LeaseTime, ![generation].updated = t]
    /\ worker' = [worker EXCEPT ![w].since = t]
    /\ UNCHANGED <<now, generation, due, alert, link, acked, undone>>

\* The last failure of a cycle keeps the time its render began.
Failed(j, t) ==
    IF Exhausted(j.fence) THEN GivenUp(j, t)
    ELSE [j EXCEPT !.state = "queued", !.expires = t + RetryDelay * Ordinal(j.fence), !.marker = 0, !.updated = t]

Fails(w) == \E t \in Readings(w) :
    /\ worker[w].at = "failing"
    /\ worker' = [worker EXCEPT ![w] = Unengaged]
    /\ IF HoldsLease(w, t)
       THEN job' = [job EXCEPT ![generation] = Failed(@, t)] /\ alert' = [alert EXCEPT ![generation] = "active"]
       ELSE UNCHANGED <<job, alert>>
    /\ UNCHANGED <<now, generation, due, link, acked, undone>>

Crossed(j, t) == j.marker < Watermark(t)

Completed(j, t) ==
    IF Crossed(j, t) THEN [state |-> "queued", fence |-> NextCycle(j.fence), expires |-> 0, marker |-> 0, updated |-> t]
    ELSE [j EXCEPT !.state = "succeeded", !.expires = 0, !.marker = t, !.updated = t]

\* The answer of the commit may be lost.
CompletesJob(w) == \E t \in Readings(w) :
    /\ worker[w].at = "active" /\ HoldsLease(w, t)
    /\ job' = [job EXCEPT ![generation] = Completed(@, t)]
    /\ alert' = [alert EXCEPT ![generation] = IF @ = "none" THEN "none" ELSE "resolved"]
    /\ \/ worker' = [worker EXCEPT ![w] = Unengaged] /\ acked' = [gen |-> worker[w].gen, fence |-> worker[w].fence]
       \/ worker' = [worker EXCEPT ![w].at = "unsure"] /\ UNCHANGED acked
    /\ UNCHANGED <<now, generation, due, link, undone>>

CompleteRefused(w) ==
    /\ worker[w].at = "active"
    /\ worker' = [worker EXCEPT ![w].at = "refused"]
    /\ UNCHANGED <<now, generation, due, job, alert, link, acked, undone>>

----------------------------------------------------------------------------
(* The worker *)

\* Only the generation that was leased is built; it fails while a model of it is inactive.
Projects(w) ==
    /\ worker[w].at = "leased"
    /\ \/ worker[w].gen = generation
          /\ worker' = [worker EXCEPT ![w].at = "built", ![w].asof = now, ![w].since = now]
       \/ worker' = [worker EXCEPT ![w].at = "failing", ![w].since = now]
    /\ UNCHANGED <<now, generation, due, job, alert, link, acked, undone>>

MayReplace(w) == Newer(worker[w], link)

Artifact(w) == [gen |-> worker[w].gen, fence |-> worker[w].fence, asof |-> worker[w].asof]

\* Staging and the switch, under a file lock.
ActivatesArtifact(w) ==
    /\ worker[w].at = "built"
    /\ \/ MayReplace(w) /\ link' = Artifact(w)
          /\ worker' = [worker EXCEPT ![w].at = "active", ![w].prev = link, ![w].since = now]
       \/ worker' = [worker EXCEPT ![w].at = "failing", ![w].since = now] /\ UNCHANGED link
    /\ UNCHANGED <<now, generation, due, job, alert, acked, undone>>

\* Mutant: the link is restored whatever it is by now.
IsCandidate_Assumed(w) == TRUE

IsCandidate(w) == link.gen = worker[w].gen /\ link.fence = worker[w].fence

\* A worker not told of its completion restores what was served before.
RollsBack(w) ==
    /\ worker[w].at \in {"unsure", "refused"}
    /\ IF IsCandidate(w) THEN link' = worker[w].prev ELSE UNCHANGED link
    /\ undone' = IF worker[w].at = "unsure" THEN undone \cup {<<worker[w].gen, worker[w].fence>>} ELSE undone
    /\ worker' = [worker EXCEPT ![w] = Unengaged]
    /\ UNCHANGED <<now, generation, due, job, alert, acked>>

WorkerDies(w) ==
    /\ worker[w].at # "idle" /\ worker' = [worker EXCEPT ![w] = Unengaged]
    /\ UNCHANGED <<now, generation, due, job, alert, link, acked, undone>>

RenderOnce(w) == Leases(w) \/ Projects(w) \/ ActivatesArtifact(w) \/ CompletesJob(w) \/ CompleteRefused(w) \/ RollsBack(w) \/ Fails(w)

----------------------------------------------------------------------------
(* The surroundings *)

\* A publication of PublicPublication, with announcements in effect now or later.
Publishes ==
    /\ generation < MaxGeneration /\ generation' = generation + 1
    /\ due' \in {D \in SUBSET (1..MaxDate) : Cardinality(D) <= MaxDue}
    /\ job' = [job EXCEPT ![generation + 1] = [NoJob EXCEPT !.state = "queued", !.updated = now]]
    /\ UNCHANGED <<now, alert, link, worker, acked, undone>>

Ticks == now < MaxDate /\ now' = now + 1 /\ UNCHANGED <<generation, due, job, alert, link, worker, acked, undone>>

RenderNext == Publishes \/ Ticks \/ \E w \in Workers : RenderOnce(w) \/ RenewsLease(w) \/ WorkerDies(w)

RenderSpec == RenderInit /\ [][RenderNext]_renderVars

----------------------------------------------------------------------------
(* Properties *)

\* What health reports: the current generation's job is the last to have succeeded.
Healthy == generation # 0 /\ LET j == job[generation] IN
    j.state = "succeeded" /\ \A g \in 1..MaxGeneration : job[g].state = "succeeded" => job[g].marker <= j.marker

\* Once a worker was told that its render is published, nothing older is ever served, whatever workers with
\* expired leases, rollbacks and crashes do (public_render_artifact.go:194, 243).
AckedStays == ~Newer(acked, link)

\* A site reported healthy serves the current generation with every announcement in effect at its completion and
\* with its alert resolved, unless a worker that was not told took the render back; a failed render of the current
\* generation has its alert up (public_render_job.go:512).
HealthyIsServed ==
    /\ Healthy /\ <<generation, job[generation].fence>> \notin undone
          => /\ link.gen = generation /\ link.asof >= Watermark(job[generation].marker)
             /\ alert[generation] # "active"
    /\ generation # 0 /\ job[generation].state = "failed" => alert[generation] = "active"
=============================================================================
