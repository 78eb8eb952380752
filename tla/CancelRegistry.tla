--------------------------- MODULE CancelRegistry ---------------------------
(***************************************************************************)
(* The in-process registry of running generations                          *)
(* (PlatformGenerationCancellationRegistry): a run is admitted, registers  *)
(* the callback that ends its context, gives its admission back and        *)
(* unregisters; cancel requests invoke callbacks; shutdown invokes the     *)
(* ones left and waits until nothing is admitted or registered.            *)
(*                                                                         *)
(* Every action is one critical section of the registry's mutex.  Register *)
(* is two: it draws its token between them.  Callbacks run outside.        *)
(***************************************************************************)
EXTENDS Integers, FiniteSets

CONSTANTS
    Runs,       \* the calls of Run, each with a token of its own
    Keys,       \* user and generation id
    KeyOf,      \* the key of each run
    NoRun,      \* no entry for a key
    Requests    \* cancel requests

ASSUME RegistryAssumption ==
    /\ KeyOf \in [Runs -> Keys]
    /\ NoRun \notin Runs
    /\ IsFiniteSet(Runs)

VARIABLES
    pc,         \* where each run is
    entries,    \* key -> the run registered under it, and whether it was told to end
    admissions, \* how many admissions are held
    closed,     \* whether shutdown began
    drained,    \* the current channel: how many were made so far
    shut,       \* the channels that were closed
    panicked,   \* a channel was closed that was closed already
    request,    \* cancel requests: the run whose callback each took out
    closer,     \* CloseAndWait: its step, its channel and the callbacks it holds
    told        \* history: how often each run's context was ended

registryVars == <<pc, entries, admissions, closed, drained, shut, panicked, request, closer, told>>

Empty == [run |-> NoRun, invoked |-> FALSE]

RegistryInit ==
    /\ pc = [r \in Runs |-> "new"]
    /\ entries = [k \in Keys |-> Empty]
    /\ admissions = 0
    /\ closed = FALSE
    /\ drained = 0
    /\ shut = {0}
    /\ panicked = FALSE
    /\ request = [q \in Requests |-> NoRun]
    /\ closer = [step |-> "idle", chan |-> 0, calls |-> {}]
    /\ told = [r \in Runs |-> 0]

Registered == {k \in Keys : entries[k].run # NoRun}
Busy == admissions > 0 \/ Registered # {}

\* The channel is made anew when the registry stops being idle, and closed when it is idle.
Reopens == drained' = IF Busy THEN drained ELSE drained + 1
Idles == IF Busy' THEN UNCHANGED <<shut, panicked>>
         ELSE shut' = shut \cup {drained} /\ panicked' = (panicked \/ drained \in shut)
-----------------------------------------------------------------------------
\* Mutant: shutdown does not stop admissions.
BeginAdmission_Open(r) ==
    /\ pc[r] = "new"
    /\ pc' = [pc EXCEPT ![r] = "admitted"] /\ admissions' = admissions + 1 /\ Reopens
    /\ UNCHANGED <<entries, closed, shut, panicked, request, closer, told>>

BeginAdmission(r) ==
    /\ pc[r] = "new"
    /\ IF closed
       THEN pc' = [pc EXCEPT ![r] = "refused"] /\ UNCHANGED <<admissions, drained>>
       ELSE pc' = [pc EXCEPT ![r] = "admitted"] /\ admissions' = admissions + 1 /\ Reopens
    /\ UNCHANGED <<entries, closed, shut, panicked, request, closer, told>>

\* The run could not claim its generation: it leaves without registering.
Withdraw(r) ==
    /\ pc[r] = "admitted"
    /\ pc' = [pc EXCEPT ![r] = "leaving"]
    /\ UNCHANGED <<entries, admissions, closed, drained, shut, panicked, request, closer, told>>

Refuses(r) == closed \/ entries[KeyOf[r]].run # NoRun

RegisterLooks(r) ==
    /\ pc[r] = "admitted"
    /\ pc' = [pc EXCEPT ![r] = IF Refuses(r) THEN "leaving" ELSE "drawing"]
    /\ UNCHANGED <<entries, admissions, closed, drained, shut, panicked, request, closer, told>>

\* Mutant: what was looked at before the token was drawn is not looked at again.
RegisterWrites_Trusting(r) ==
    /\ pc[r] = "drawing"
    /\ pc' = [pc EXCEPT ![r] = "registered"]
    /\ entries' = [entries EXCEPT ![KeyOf[r]] = [run |-> r, invoked |-> FALSE]]
    /\ Reopens
    /\ UNCHANGED <<admissions, closed, shut, panicked, request, closer, told>>

RegisterWrites(r) ==
    /\ pc[r] = "drawing"
    /\ IF Refuses(r)
       THEN pc' = [pc EXCEPT ![r] = "leaving"] /\ UNCHANGED <<entries, drained>>
       ELSE /\ pc' = [pc EXCEPT ![r] = "registered"]
            /\ entries' = [entries EXCEPT ![KeyOf[r]] = [run |-> r, invoked |-> FALSE]]
            /\ Reopens
    /\ UNCHANGED <<admissions, closed, shut, panicked, request, closer, told>>

\* The admission is given back once: by a registered run, or by one that leaves.
ReleaseAdmission(r) ==
    /\ pc[r] \in {"registered", "leaving"}
    /\ pc' = [pc EXCEPT ![r] = IF @ = "registered" THEN "running" ELSE "gone"]
    /\ admissions' = admissions - 1
    /\ UNCHANGED entries /\ Idles
    /\ UNCHANGED <<closed, drained, request, closer, told>>

Unregister(r) ==
    /\ pc[r] = "running"
    /\ pc' = [pc EXCEPT ![r] = "gone"]
    /\ entries' = IF entries[KeyOf[r]].run = r THEN [entries EXCEPT ![KeyOf[r]] = Empty] ELSE entries
    /\ UNCHANGED admissions
    /\ IF entries' = entries THEN UNCHANGED <<shut, panicked>> ELSE Idles
    /\ UNCHANGED <<closed, drained, request, closer, told>>

-----------------------------------------------------------------------------
\* Mutant: a cancel does not mark the entry.
Cancel_Unmarked(q, k) ==
    /\ request[q] = NoRun
    /\ entries[k].run # NoRun /\ ~entries[k].invoked
    /\ request' = [request EXCEPT ![q] = entries[k].run]
    /\ UNCHANGED <<pc, entries, admissions, closed, drained, shut, panicked, closer, told>>

\* A cancel takes the callback out under the mutex and calls it outside.
Cancel(q, k) ==
    /\ request[q] = NoRun
    /\ entries[k].run # NoRun /\ ~entries[k].invoked
    /\ entries' = [entries EXCEPT ![k].invoked = TRUE]
    /\ request' = [request EXCEPT ![q] = entries[k].run]
    /\ UNCHANGED <<pc, admissions, closed, drained, shut, panicked, closer, told>>

Calls(r) == told' = [told EXCEPT ![r] = @ + 1]

CancelCalls(q) ==
    /\ request[q] # NoRun
    /\ Calls(request[q])
    /\ request' = [request EXCEPT ![q] = NoRun]
    /\ UNCHANGED <<pc, entries, admissions, closed, drained, shut, panicked, closer>>

-----------------------------------------------------------------------------
Untold == {k \in Registered : ~entries[k].invoked}

CloseAndWait ==
    /\ closer.step = "idle"
    /\ closed' = TRUE
    /\ entries' = [k \in Keys |-> IF k \in Untold THEN [entries[k] EXCEPT !.invoked = TRUE] ELSE entries[k]]
    /\ closer' = [step |-> "calling", chan |-> drained, calls |-> {entries[k].run : k \in Untold}]
    /\ UNCHANGED <<pc, admissions, drained, shut, panicked, request, told>>

CloserCalls ==
    /\ closer.step = "calling"
    /\ IF closer.calls = {}
       THEN closer' = [closer EXCEPT !.step = "waiting"] /\ UNCHANGED told
       ELSE \E r \in closer.calls : Calls(r) /\ closer' = [closer EXCEPT !.calls = @ \ {r}]
    /\ UNCHANGED <<pc, entries, admissions, closed, drained, shut, panicked, request>>

CloserReturns ==
    /\ closer.step = "waiting" /\ closer.chan \in shut
    /\ closer' = [closer EXCEPT !.step = "drained"]
    /\ UNCHANGED <<pc, entries, admissions, closed, drained, shut, panicked, request, told>>

\* The deadline of the shutdown.
CloserGivesUp ==
    /\ closer.step = "waiting"
    /\ closer' = [closer EXCEPT !.step = "timeout"]
    /\ UNCHANGED <<pc, entries, admissions, closed, drained, shut, panicked, request, told>>

RunStep(r) ==
    \/ BeginAdmission(r) \/ Withdraw(r) \/ RegisterLooks(r) \/ RegisterWrites(r)
    \/ ReleaseAdmission(r) \/ Unregister(r)

RegistryNext ==
    \/ \E r \in Runs : RunStep(r)
    \/ \E q \in Requests : CancelCalls(q) \/ \E k \in Keys : Cancel(q, k)
    \/ CloseAndWait \/ CloserCalls \/ CloserReturns \/ CloserGivesUp

RegistrySpec == RegistryInit /\ [][RegistryNext]_registryVars

\* A run that was told to end comes to its Unregister; one that was not may stream on.
Obeys(r) == told[r] > 0 /\ Unregister(r)

FairRegistrySpec ==
    /\ RegistrySpec
    /\ \A r \in Runs : /\ WF_registryVars(pc[r] # "running" /\ RunStep(r))
                       /\ WF_registryVars(Obeys(r))
    /\ \A q \in Requests : WF_registryVars(CancelCalls(q))
    /\ WF_registryVars(CloserCalls) /\ WF_registryVars(CloserReturns)
-----------------------------------------------------------------------------
(* Properties. *)

Inside == {"admitted", "drawing", "registered", "running", "leaving"}

RegistryTypeOK ==
    /\ pc \in [Runs -> {"new", "refused", "gone"} \cup Inside]
    /\ entries \in [Keys -> [run : Runs \cup {NoRun}, invoked : BOOLEAN]]
    /\ admissions \in 0..Cardinality(Runs)
    /\ closed \in BOOLEAN /\ panicked \in BOOLEAN
    /\ drained \in Nat /\ shut \subseteq 0..drained
    /\ request \in [Requests -> Runs \cup {NoRun}]
    /\ closer \in [step : {"idle", "calling", "waiting", "drained", "timeout"}, chan : Nat,
                   calls : SUBSET Runs]
    /\ told \in [Runs -> Nat]

\* No interleaving of releases, registrations and unregistrations closes a drain channel
\* twice, which would panic the process.
NeverPanics == ~panicked

\* The drain channel is closed exactly while nothing is admitted or registered.
DrainTracksRuns == drained \in shut <=> ~Busy

\* When CloseAndWait returns without an error no run is inside the registry, and none
\* gets in any more: the stores may be shut down.
DrainedIsIdle == closer.step = "drained" => \A r \in Runs : pc[r] \notin Inside

\* In short: the count of admissions and the table never part from the drain channel, so
\* CloseAndWait ends exactly when the last run is out, and nothing is closed twice.
DrainSound == RegistryTypeOK /\ NeverPanics /\ DrainTracksRuns /\ DrainedIsIdle

\* Of all the requests and the shutdown that race for a run, one invokes its callback.
ToldOnce == \A r \in Runs : told[r] <= 1

\* A shutdown reaches every run, those that were about to register when it began too.
ShutdownReachesAll == closed ~> ~Busy
=============================================================================
