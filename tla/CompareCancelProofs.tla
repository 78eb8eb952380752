------------------------ MODULE CompareCancelProofs ------------------------
(* Proofs about CancelRegistry for every set of runs, keys and requests, and *)
(* about CompareGeneration for every set of models and owners.              *)
EXTENDS CancelRegistry, CompareGeneration, FiniteSetTheorems, TLAPS

Holding == {"admitted", "drawing", "registered", "leaving"}
Holders == {r \in Runs : pc[r] \in Holding}
Entered == {"registered", "running"}

\* Every admission is held by one run, and every entry is the run that registered it.
Accounted ==
    /\ admissions = Cardinality(Holders)
    /\ \A k \in Registered : KeyOf[entries[k].run] = k /\ pc[entries[k].run] \in Entered
    /\ \A r \in Runs : pc[r] \in Entered => entries[KeyOf[r]].run = r

\* The current channel is closed while the registry is idle, and a shutdown waits for it.
Channels ==
    /\ DrainTracksRuns
    /\ NeverPanics
    /\ closed <=> closer.step # "idle"
    /\ closed => closer.chan = drained
    /\ closer.step = "drained" => drained \in shut

\* Whoever took a run's callback out of the registry took it for good.
Taken(r) == told[r] > 0 \/ (\E q \in Requests : request[q] = r) \/ r \in closer.calls

Callbacks ==
    /\ closer.step = "idle" => closer.calls = {}
    /\ \A r \in Runs : Taken(r) => /\ pc[r] \in Entered \cup {"gone"}
                                   /\ pc[r] \in Entered => entries[KeyOf[r]].invoked
    /\ \A r \in Runs : told[r] <= 1
    /\ \A r \in Runs : told[r] = 1 => r \notin closer.calls /\ \A q \in Requests : request[q] # r
    /\ \A q \in Requests : request[q] \notin closer.calls
    /\ \A p, q \in Requests : request[p] # NoRun /\ request[p] = request[q] => p = q

Types ==
    /\ pc \in [Runs -> {"new", "refused", "gone"} \cup Inside]
    /\ entries \in [Keys -> [run : Runs \cup {NoRun}, invoked : BOOLEAN]]
    /\ admissions \in Nat
    /\ closed \in BOOLEAN /\ panicked \in BOOLEAN
    /\ drained \in Nat /\ shut \subseteq 0..drained
    /\ request \in [Requests -> Runs \cup {NoRun}]
    /\ closer \in [step : {"idle", "calling", "waiting", "drained", "timeout"}, chan : Nat,
                   calls : SUBSET Runs]
    /\ told \in [Runs -> Nat]

RegistryInv == Types /\ Accounted /\ Channels /\ Callbacks

-----------------------------------------------------------------------------
(* Counting admissions.                                                      *)

\* Only runs hold admissions, so their number is a natural number.
LEMMA HoldersFinite == IsFiniteSet(Holders) /\ Cardinality(Holders) \in Nat /\ IsFiniteSet(Holders')
<1>1. Holders \subseteq Runs /\ Holders' \subseteq Runs
  BY DEF Holders
<1> QED
  BY <1>1, FS_Subset, FS_CardinalityType, RegistryAssumption

\* The same after a step.
LEMMA HoldersFiniteNext == Cardinality(Holders') \in Nat
BY HoldersFinite, FS_CardinalityType

\* A run that moves without taking or giving back an admission.
LEMMA HoldersStay ==
    ASSUME Types, NEW r \in Runs, NEW s, pc' = [pc EXCEPT ![r] = s], pc[r] \in Holding <=> s \in Holding
    PROVE  Holders' = Holders
BY DEF Types, Holders, Holding, Inside

\* BeginAdmission and Release: a run that starts to hold an admission makes one more.
LEMMA HoldersGrow ==
    ASSUME Types, NEW r \in Runs, NEW s \in Holding, pc' = [pc EXCEPT ![r] = s], pc[r] \notin Holding
    PROVE  Cardinality(Holders') = Cardinality(Holders) + 1
<1>1. Holders' = Holders \cup {r} /\ r \notin Holders
  BY DEF Types, Holders, Holding, Inside
<1> QED
  BY <1>1, HoldersFinite, FS_AddElement

\* A run that stops holding an admission makes one less.
LEMMA HoldersShrink ==
    ASSUME Types, NEW r \in Runs, NEW s, s \notin Holding, pc' = [pc EXCEPT ![r] = s], pc[r] \in Holding
    PROVE  Cardinality(Holders') = Cardinality(Holders) - 1
<1>1. Holders' = Holders \ {r} /\ r \in Holders
  BY DEF Types, Holders, Holding, Inside
<1> QED
  BY <1>1, HoldersFinite, FS_RemoveElement

\* While a run is inside, the registry is busy; idle, it has no run inside.
LEMMA BusyIffInside ==
    ASSUME Types, Accounted
    PROVE  Busy <=> \E r \in Runs : pc[r] \in Inside
<1>1. admissions > 0 <=> Holders # {}
  BY HoldersFinite, FS_EmptySet DEF Accounted
<1>2. Registered # {} <=> \E r \in Runs : pc[r] \in Entered
  <2>1. ASSUME NEW k \in Registered PROVE \E r \in Runs : pc[r] \in Entered
    BY <2>1 DEF Accounted, Registered, Types
  <2>2. ASSUME NEW r \in Runs, pc[r] \in Entered PROVE KeyOf[r] \in Registered
    BY <2>2, RegistryAssumption DEF Accounted, Registered
  <2> QED
    BY <2>1, <2>2
<1> QED
  BY <1>1, <1>2 DEF Busy, Holders, Holding, Entered, Inside

-----------------------------------------------------------------------------
(* Runs come and go.                                                         *)

\* A step of a run that is not registered, before and after, moves no callback.
LEMMA CallbacksStay ==
    ASSUME RegistryInv, NEW r \in Runs, NEW s, s \notin Entered, pc[r] \notin Entered \cup {"gone"},
           pc' = [pc EXCEPT ![r] = s], UNCHANGED <<entries, request, closer, told>>
    PROVE  Callbacks'
<1>1. ~Taken(r) /\ \A x \in Runs : Taken(x)' <=> Taken(x)
  BY DEF RegistryInv, Callbacks, Taken, Types
<1> QED
  BY <1>1 DEF RegistryInv, Callbacks, Types, Taken

\* BeginAdmission counts the run it lets in, and opens a new channel if it is the first.
LEMMA BeginAdmissionKeeps ==
    ASSUME RegistryInv, NEW r \in Runs, BeginAdmission(r)
    PROVE  RegistryInv'
<1>1. Callbacks'
  <2>1. \E s : pc' = [pc EXCEPT ![r] = s] /\ s \notin Entered
    BY DEF BeginAdmission, Entered
  <2> QED
    BY <2>1, CallbacksStay DEF BeginAdmission, Entered
<1>2. CASE closed
  <2>1. Holders' = Holders
    BY <1>2, HoldersStay DEF RegistryInv, BeginAdmission, Holding
  <2>2. Registered' = Registered /\ pc' = [pc EXCEPT ![r] = "refused"] /\ pc[r] = "new"
    BY <1>2 DEF BeginAdmission, Registered
  <2>3. UNCHANGED <<entries, admissions, closed, drained, shut, panicked, request, closer, told>>
    BY <1>2 DEF BeginAdmission
  <2>4. Types' /\ Accounted'
    BY <2>1, <2>2, <2>3 DEF RegistryInv, Types, Accounted, Inside, Entered
  <2>5. Channels'
    BY <2>2, <2>3 DEF RegistryInv, Channels, DrainTracksRuns, NeverPanics, Busy
  <2> QED
    BY <1>1, <2>4, <2>5 DEF RegistryInv
<1>3. CASE ~closed
  <2>1. pc' = [pc EXCEPT ![r] = "admitted"] /\ admissions' = admissions + 1 /\ Reopens
    BY <1>3 DEF BeginAdmission
  <2>2. Cardinality(Holders') = Cardinality(Holders) + 1
    BY <2>1, HoldersGrow DEF RegistryInv, BeginAdmission, Holding
  <2>3. Types' /\ Accounted'
    BY <2>1, <2>2 DEF BeginAdmission, RegistryInv, Types, Accounted, Reopens, Registered, Inside, Entered
  <2>4. Busy' /\ drained' \notin shut
    BY <2>1 DEF RegistryInv, Types, Channels, DrainTracksRuns, Busy, Reopens
  <2> QED
    BY <1>1, <1>3, <2>1, <2>3, <2>4 DEF BeginAdmission, RegistryInv, Channels, DrainTracksRuns, NeverPanics, Types
<1> QED
  BY <1>2, <1>3

\* Withdrawing and looking are local to the run.
LEMMA LocalKeeps ==
    ASSUME RegistryInv, NEW r \in Runs, Withdraw(r) \/ RegisterLooks(r)
    PROVE  RegistryInv'
<1>1. PICK s \in {"leaving", "drawing"} : pc' = [pc EXCEPT ![r] = s]
  BY DEF Withdraw, RegisterLooks
<1>2. UNCHANGED <<entries, admissions, closed, drained, shut, panicked, request, closer, told>> /\ pc[r] = "admitted"
  BY DEF Withdraw, RegisterLooks
<1>3. Callbacks'
  BY <1>1, <1>2, CallbacksStay DEF Entered
<1>4. Holders' = Holders
  BY <1>1, <1>2, HoldersStay DEF RegistryInv, Holding
<1>5. Registered' = Registered
  BY <1>2 DEF Registered
<1> QED
  BY <1>1, <1>2, <1>3, <1>4, <1>5 DEF RegistryInv, Types, Accounted, Channels, DrainTracksRuns, NeverPanics,
     Busy, Inside, Entered

\* Register takes one entry for a run that had none, or leaves it with its admission.
LEMMA RegisterWritesKeeps ==
    ASSUME RegistryInv, NEW r \in Runs, RegisterWrites(r)
    PROVE  RegistryInv'
<1>1. pc[r] = "drawing" /\ Busy /\ KeyOf[r] \in Keys
  BY BusyIffInside, RegistryAssumption DEF RegisterWrites, RegistryInv, Inside
<1>2. CASE Refuses(r)
  <2>1. pc' = [pc EXCEPT ![r] = "leaving"]
    BY <1>2 DEF RegisterWrites
  <2>2. UNCHANGED <<entries, admissions, closed, drained, shut, panicked, request, closer, told>>
    BY <1>2 DEF RegisterWrites
  <2>3. Callbacks'
    BY <1>1, <2>1, <2>2, CallbacksStay DEF Entered
  <2>4. Holders' = Holders /\ Registered' = Registered
    BY <1>1, <2>1, <2>2, HoldersStay DEF RegistryInv, Holding, Registered
  <2> QED
    BY <1>1, <2>1, <2>2, <2>3, <2>4 DEF RegistryInv, Types, Accounted, Channels, DrainTracksRuns, NeverPanics,
       Busy, Inside, Entered
<1>3. CASE ~Refuses(r)
  <2>1. /\ pc' = [pc EXCEPT ![r] = "registered"]
        /\ entries' = [entries EXCEPT ![KeyOf[r]] = [run |-> r, invoked |-> FALSE]]
        /\ drained' = drained
        /\ entries[KeyOf[r]].run = NoRun
        /\ UNCHANGED <<admissions, closed, shut, panicked, request, closer, told>>
    BY <1>1, <1>3 DEF RegisterWrites, Reopens, Refuses
  <2>2. Holders' = Holders
    BY <1>1, <2>1, HoldersStay DEF RegistryInv, Holding
  <2>3. Types'
    BY <2>1, <1>1 DEF RegistryInv, Types, Inside
  <2>4. \A x \in Runs : pc[x] \in Entered => KeyOf[x] # KeyOf[r]
    BY <2>1, RegistryAssumption DEF RegistryInv, Accounted
  <2>5. Accounted'
    <3>1. Registered' = Registered \cup {KeyOf[r]}
      BY <1>1, <2>1, RegistryAssumption DEF RegistryInv, Types, Registered
    <3> QED
      BY <1>1, <2>1, <2>2, <2>4, <3>1, RegistryAssumption DEF RegistryInv, Types, Accounted, Registered, Entered
  <2>6. Channels'
    <3>1. Busy'
      BY <1>1, <2>1, RegistryAssumption DEF Busy, Registered, RegistryInv, Types
    <3> QED
      BY <1>1, <2>1, <3>1 DEF RegistryInv, Channels, DrainTracksRuns, NeverPanics
  <2>7. Callbacks'
    <3>1. ~Taken(r) /\ \A x \in Runs : Taken(x)' <=> Taken(x)
      BY <1>1, <2>1 DEF RegistryInv, Callbacks, Taken, Entered
    <3>2. ASSUME NEW x \in Runs, Taken(x)'
          PROVE  pc'[x] \in Entered \cup {"gone"} /\ (pc'[x] \in Entered => entries'[KeyOf[x]].invoked)
      BY <1>1, <2>1, <2>4, <3>1, <3>2, RegistryAssumption DEF RegistryInv, Callbacks, Types
    <3> QED
      BY <2>1, <3>2 DEF RegistryInv, Callbacks
  <2> QED
    BY <2>3, <2>5, <2>6, <2>7 DEF RegistryInv
<1> QED
  BY <1>2, <1>3

\* The drain channel is closed once, by the step that leaves the registry idle.
LEMMA IdlesCloses ==
    ASSUME Types, NeverPanics, drained \notin shut, drained' = drained, Idles
    PROVE  /\ shut' \subseteq 0..drained'
           /\ panicked' = FALSE
           /\ drained' \in shut' <=> ~Busy'
<1>1. panicked = FALSE
  BY DEF NeverPanics, Types
<1>2. CASE Busy'
  BY <1>1, <1>2 DEF Idles, Types
<1>3. CASE ~Busy'
  <2>1. shut' = shut \cup {drained} /\ panicked' = (panicked \/ drained \in shut)
    BY <1>3 DEF Idles
  <2>2. panicked' = FALSE
    BY <1>1, <2>1
  <2>3. drained \in 0..drained
    BY DEF Types
  <2> QED
    BY <1>3, <2>1, <2>2, <2>3 DEF Types
<1> QED
  BY <1>2, <1>3

\* An admission that is given back may be the last thing that kept the registry busy.
LEMMA ReleaseAdmissionKeeps ==
    ASSUME RegistryInv, NEW r \in Runs, ReleaseAdmission(r)
    PROVE  RegistryInv'
<1>1. /\ pc[r] \in {"registered", "leaving"}
      /\ pc' = [pc EXCEPT ![r] = IF pc[r] = "registered" THEN "running" ELSE "gone"]
      /\ admissions' = admissions - 1 /\ Idles
      /\ UNCHANGED <<entries, closed, drained, request, closer, told>>
  BY DEF ReleaseAdmission
<1>2. Busy /\ drained \notin shut
  BY <1>1, BusyIffInside DEF RegistryInv, Inside, Channels, DrainTracksRuns
<1>3. Cardinality(Holders') = Cardinality(Holders) - 1
  <2>1. PICK s \in {"running", "gone"} : pc' = [pc EXCEPT ![r] = s]
    BY <1>1
  <2> QED
    BY <1>1, <2>1, HoldersShrink DEF RegistryInv, Holding
<1>4. Registered' = Registered
  BY <1>1 DEF Registered
<1>5. Accounted'
  BY <1>1, <1>3, <1>4 DEF RegistryInv, Types, Accounted, Entered, Registered
<1>9. shut' \subseteq 0..drained' /\ panicked' = FALSE /\ (drained' \in shut' <=> ~Busy')
  BY <1>1, <1>2, IdlesCloses DEF RegistryInv, Channels
<1>6. Types'
  <2>1. admissions' \in Nat
    BY <1>5, HoldersFiniteNext DEF Accounted
  <2> QED
    BY <1>1, <1>9, <2>1 DEF RegistryInv, Types, Inside
<1>7. Channels'
  BY <1>1, <1>2, <1>9 DEF RegistryInv, Channels, DrainTracksRuns, NeverPanics
<1>8. Callbacks'
  <2>1. \A x \in Runs : Taken(x)' <=> Taken(x)
    BY <1>1 DEF Taken
  <2> QED
    BY <1>1, <2>1 DEF RegistryInv, Callbacks, Types, Entered
<1> QED
  BY <1>5, <1>6, <1>7, <1>8 DEF RegistryInv

\* Unregister removes the run's own entry and no other.
LEMMA UnregisterKeeps ==
    ASSUME RegistryInv, NEW r \in Runs, Unregister(r)
    PROVE  RegistryInv'
<1>1. pc[r] = "running" /\ KeyOf[r] \in Keys /\ entries[KeyOf[r]].run = r /\ r # NoRun
  BY RegistryAssumption DEF Unregister, RegistryInv, Accounted, Entered
<1>2. /\ pc' = [pc EXCEPT ![r] = "gone"]
      /\ entries' = [entries EXCEPT ![KeyOf[r]] = Empty]
      /\ Idles
      /\ UNCHANGED <<admissions, closed, drained, request, closer, told>>
  <2>1. entries' = [entries EXCEPT ![KeyOf[r]] = Empty]
    BY <1>1 DEF Unregister
  <2>2. entries'[KeyOf[r]].run = NoRun
    BY <1>1, <2>1 DEF Empty, RegistryInv, Types
  <2> QED
    BY <1>1, <2>1, <2>2 DEF Unregister
<1>3. Busy /\ drained \notin shut
  BY <1>1, BusyIffInside DEF RegistryInv, Inside, Channels, DrainTracksRuns
<1>4. Holders' = Holders
  BY <1>1, <1>2, HoldersStay DEF RegistryInv, Holding
<1>5. Registered' = Registered \ {KeyOf[r]}
  BY <1>1, <1>2 DEF Registered, Empty, RegistryInv, Types
<1>6. \A x \in Runs : pc'[x] \in Entered => KeyOf[x] # KeyOf[r] /\ pc[x] \in Entered
  BY <1>1, <1>2 DEF RegistryInv, Accounted, Types, Entered
<1>11. shut' \subseteq 0..drained' /\ panicked' = FALSE /\ (drained' \in shut' <=> ~Busy')
  BY <1>2, <1>3, IdlesCloses DEF RegistryInv, Channels
<1>7. Types'
  BY <1>1, <1>2, <1>11 DEF RegistryInv, Types, Inside, Empty
<1>8. Accounted'
  <2>1. ASSUME NEW k \in Registered' PROVE KeyOf[entries'[k].run] = k /\ pc'[entries'[k].run] \in Entered
    <3>1. k \in Registered /\ k # KeyOf[r] /\ entries'[k] = entries[k] /\ k \in Keys
      BY <1>2, <1>5, <2>1 DEF RegistryInv, Types, Registered
    <3>2. entries[k].run \in Runs /\ entries[k].run # r
      BY <3>1 DEF RegistryInv, Types, Accounted, Registered
    <3> QED
      BY <1>2, <3>1, <3>2 DEF RegistryInv, Types, Accounted
  <2>2. ASSUME NEW x \in Runs, pc'[x] \in Entered PROVE entries'[KeyOf[x]].run = x
    BY <1>2, <1>6, <2>2, RegistryAssumption DEF RegistryInv, Types, Accounted
  <2> QED
    BY <1>2, <1>4, <2>1, <2>2 DEF RegistryInv, Accounted
<1>9. Channels'
  BY <1>2, <1>3, <1>11 DEF RegistryInv, Channels, DrainTracksRuns, NeverPanics
<1>10. Callbacks'
  <2>1. \A x \in Runs : Taken(x)' <=> Taken(x)
    BY <1>2 DEF Taken
  <2>2. ASSUME NEW x \in Runs, Taken(x)
        PROVE  pc'[x] \in Entered \cup {"gone"} /\ (pc'[x] \in Entered => entries'[KeyOf[x]].invoked)
    BY <1>2, <1>6, <2>2, RegistryAssumption DEF RegistryInv, Types, Callbacks, Entered
  <2> QED
    BY <1>2, <2>1, <2>2 DEF RegistryInv, Callbacks
<1> QED
  BY <1>7, <1>8, <1>9, <1>10 DEF RegistryInv

-----------------------------------------------------------------------------
(* Callbacks.                                                                *)

\* A step that only marks entries as invoked keeps the accounts.
LEMMA MarkKeeps ==
    ASSUME RegistryInv, UNCHANGED <<pc, admissions>>, DOMAIN entries' = DOMAIN entries,
           \A k \in Keys : entries'[k].run = entries[k].run
    PROVE  Accounted' /\ Registered' = Registered
<1>1. Holders' = Holders /\ Registered' = Registered
  BY DEF Holders, Registered
<1> QED
  BY <1>1, RegistryAssumption DEF RegistryInv, Accounted, Registered

\* Cancel marks an entry as invoked and takes its callback, in one critical section.
LEMMA CancelKeeps ==
    ASSUME RegistryInv, NEW q \in Requests, NEW k \in Keys, Cancel(q, k)
    PROVE  RegistryInv'
<1> DEFINE r == entries[k].run
<1>1. /\ request[q] = NoRun /\ r # NoRun /\ ~entries[k].invoked
      /\ entries' = [entries EXCEPT ![k].invoked = TRUE]
      /\ request' = [request EXCEPT ![q] = r]
      /\ UNCHANGED <<pc, admissions, closed, drained, shut, panicked, closer, told>>
  BY DEF Cancel
<1>2. r \in Runs /\ KeyOf[r] = k /\ pc[r] \in Entered /\ ~Taken(r)
  BY <1>1 DEF RegistryInv, Types, Accounted, Registered, Callbacks
<1>3. \A j \in Keys : /\ entries'[j].run = entries[j].run
                      /\ entries[j].invoked => entries'[j].invoked
  BY <1>1 DEF RegistryInv, Types
<1>4. Types'
  <2>1. entries \in [Keys -> [run : Runs \cup {NoRun}, invoked : BOOLEAN]] /\ request \in [Requests -> Runs \cup {NoRun}]
    BY DEF RegistryInv, Types
  <2>2. entries' \in [Keys -> [run : Runs \cup {NoRun}, invoked : BOOLEAN]]
    BY <1>1, <2>1
  <2>3. request' \in [Requests -> Runs \cup {NoRun}]
    BY <1>1, <1>2, <2>1
  <2> QED
    BY <1>1, <2>2, <2>3 DEF RegistryInv, Types
<1>5. Accounted' /\ Registered' = Registered
  BY <1>1, <1>3, MarkKeeps DEF RegistryInv, Types
<1>6. Channels'
  BY <1>1, <1>5 DEF RegistryInv, Channels, DrainTracksRuns, NeverPanics, Busy
<1>7. Callbacks'
  <2>1. \A x \in Runs : x # r => (Taken(x)' => Taken(x))
    BY <1>1, <1>2, RegistryAssumption DEF Taken, RegistryInv, Types
  <2>2. entries'[k].invoked
    BY <1>1 DEF RegistryInv, Types
  <2>3. ASSUME NEW x \in Runs, Taken(x)'
        PROVE  pc'[x] \in Entered \cup {"gone"} /\ (pc'[x] \in Entered => entries'[KeyOf[x]].invoked)
    <3>1. CASE x = r
      BY <1>1, <1>2, <2>2, <3>1
    <3>2. CASE x # r
      BY <1>1, <1>3, <2>1, <2>3, <3>2, RegistryAssumption DEF RegistryInv, Callbacks
    <3> QED
      BY <3>1, <3>2
  <2>4. told[r] = 0 /\ r \notin closer.calls /\ \A p \in Requests : request[p] # r
    BY <1>2 DEF Taken, RegistryInv, Types
  <2> QED
    BY <1>1, <2>3, <2>4 DEF RegistryInv, Callbacks, Types
<1> QED
  BY <1>4, <1>5, <1>6, <1>7 DEF RegistryInv

\* A canceller invokes the callback it took, outside the mutex.
LEMMA CancelCallsKeeps ==
    ASSUME RegistryInv, NEW q \in Requests, CancelCalls(q)
    PROVE  RegistryInv'
<1> DEFINE r == request[q]
<1>1. /\ r # NoRun /\ told' = [told EXCEPT ![r] = told[r] + 1]
      /\ request' = [request EXCEPT ![q] = NoRun]
      /\ UNCHANGED <<pc, entries, admissions, closed, drained, shut, panicked, closer>>
  BY DEF CancelCalls, Calls
<1>2. r \in Runs /\ Taken(r) /\ told[r] = 0 /\ r \notin closer.calls
  <2>1. r \in Runs /\ Taken(r) /\ r \notin closer.calls
    BY <1>1 DEF RegistryInv, Types, Taken, Callbacks
  <2>2. told[r] \in Nat /\ told[r] <= 1 /\ told[r] # 1
    BY <2>1 DEF RegistryInv, Types, Callbacks
  <2> QED
    BY <2>1, <2>2
<1>3. Types' /\ Accounted' /\ Channels'
  <2>1. Holders' = Holders /\ Registered' = Registered
    BY <1>1 DEF Holders, Registered
  <2> QED
    BY <1>1, <1>2, <2>1 DEF RegistryInv, Types, Accounted, Channels, DrainTracksRuns, NeverPanics, Busy
<1>4. Callbacks'
  <2>1. \A x \in Runs : Taken(x)' => Taken(x)
    BY <1>1, <1>2, RegistryAssumption DEF Taken, RegistryInv, Types
  <2>2. \A p \in Requests : request'[p] = IF p = q THEN NoRun ELSE request[p]
    BY <1>1 DEF RegistryInv, Types
  <2>3. \A x \in Runs : told'[x] = IF x = r THEN 1 ELSE told[x]
    BY <1>1, <1>2 DEF RegistryInv, Types
  <2>4. \A p \in Requests : p # q => request[p] # r
    BY <1>1 DEF RegistryInv, Callbacks
  <2>5. NoRun \notin closer.calls
    BY RegistryAssumption DEF RegistryInv, Types
  <2> QED
    BY <1>1, <1>2, <2>1, <2>2, <2>3, <2>4, <2>5, RegistryAssumption DEF RegistryInv, Callbacks
<1> QED
  BY <1>3, <1>4 DEF RegistryInv

-----------------------------------------------------------------------------
(* Shutdown.                                                                 *)

\* CloseAndWait closes the registry, takes every callback left and remembers the channel.
LEMMA CloseAndWaitKeeps ==
    ASSUME RegistryInv, CloseAndWait
    PROVE  RegistryInv'
<1>1. /\ closer.step = "idle" /\ closer.calls = {} /\ closed' = TRUE
      /\ closer' = [step |-> "calling", chan |-> drained, calls |-> {entries[k].run : k \in Untold}]
      /\ UNCHANGED <<pc, admissions, drained, shut, panicked, request, told>>
  BY DEF CloseAndWait, RegistryInv, Callbacks
<1>2. /\ DOMAIN entries' = Keys /\ DOMAIN entries = Keys
      /\ \A k \in Keys : /\ entries'[k] \in [run : Runs \cup {NoRun}, invoked : BOOLEAN]
                         /\ entries'[k].run = entries[k].run
                         /\ entries[k].invoked \/ k \in Untold => entries'[k].invoked
  BY DEF CloseAndWait, RegistryInv, Types
<1>3. \A k \in Untold : /\ k \in Keys /\ entries[k].run \in Runs /\ KeyOf[entries[k].run] = k
                        /\ pc[entries[k].run] \in Entered /\ ~entries[k].invoked
  BY DEF Untold, Registered, RegistryInv, Types, Accounted
<1>4. \A k \in Untold : ~Taken(entries[k].run)
  BY <1>3 DEF RegistryInv, Callbacks
<1>5. Types'
  <2>1. entries' \in [Keys -> [run : Runs \cup {NoRun}, invoked : BOOLEAN]]
    BY <1>2 DEF CloseAndWait
  <2> QED
    BY <1>1, <1>3, <2>1 DEF RegistryInv, Types
<1>6. Accounted' /\ Registered' = Registered
  BY <1>1, <1>2, MarkKeeps
<1>7. Channels'
  BY <1>1, <1>6 DEF RegistryInv, Channels, DrainTracksRuns, NeverPanics, Busy
<1>8. Callbacks'
  <2>1. \A x \in Runs : Taken(x)' => Taken(x) \/ \E k \in Untold : x = entries[k].run
    BY <1>1 DEF Taken
  <2>2. ASSUME NEW x \in Runs, Taken(x)'
        PROVE  pc'[x] \in Entered \cup {"gone"} /\ (pc'[x] \in Entered => entries'[KeyOf[x]].invoked)
    <3>1. CASE \E k \in Untold : x = entries[k].run
      BY <1>1, <1>2, <1>3, <3>1
    <3>2. CASE Taken(x)
      BY <1>1, <1>2, <3>2, RegistryAssumption DEF RegistryInv, Callbacks
    <3> QED
      BY <2>1, <2>2, <3>1, <3>2
  <2>3. \A k \in Untold : told[entries[k].run] = 0 /\ \A q \in Requests : request[q] # entries[k].run
    BY <1>3, <1>4 DEF Taken, RegistryInv, Types
  <2> QED
    BY <1>1, <2>2, <2>3 DEF RegistryInv, Callbacks
<1> QED
  BY <1>5, <1>6, <1>7, <1>8 DEF RegistryInv

\* The shutdown invokes one of the callbacks it took.
LEMMA CloserCallsKeeps ==
    ASSUME RegistryInv, CloserCalls
    PROVE  RegistryInv'
<1>1. /\ closer.step = "calling"
      /\ UNCHANGED <<pc, entries, admissions, closed, drained, shut, panicked, request>>
  BY DEF CloserCalls
<1>2. Holders' = Holders /\ Registered' = Registered
  BY <1>1 DEF Holders, Registered
<1>3. CASE closer.calls = {}
  <2>1. closer' = [closer EXCEPT !.step = "waiting"] /\ told' = told
    BY <1>3 DEF CloserCalls
  <2>2. \A x \in Runs : Taken(x)' <=> Taken(x)
    BY <1>1, <1>3, <2>1 DEF Taken, RegistryInv, Types
  <2>3. Callbacks'
    BY <1>1, <1>3, <2>1, <2>2 DEF RegistryInv, Types, Callbacks
  <2> QED
    BY <1>1, <1>2, <2>1, <2>3 DEF RegistryInv, Types, Accounted, Channels, DrainTracksRuns, NeverPanics, Busy
<1>4. ASSUME NEW r \in closer.calls, told' = [told EXCEPT ![r] = told[r] + 1],
             closer' = [closer EXCEPT !.calls = closer.calls \ {r}]
      PROVE  RegistryInv'
  <2>1. r \in Runs /\ Taken(r)
    BY DEF RegistryInv, Types, Taken
  <2>2. told[r] = 0 /\ \A q \in Requests : request[q] # r
    BY <2>1 DEF RegistryInv, Types, Callbacks
  <2>3. Types' /\ Accounted' /\ Channels'
    BY <1>1, <1>2, <1>4, <2>1, <2>2
       DEF RegistryInv, Types, Accounted, Channels, DrainTracksRuns, NeverPanics, Busy
  <2>4. \A x \in Runs : told'[x] = IF x = r THEN 1 ELSE told[x]
    BY <1>4, <2>1, <2>2 DEF RegistryInv, Types
  <2>5. \A x \in Runs : Taken(x)' => Taken(x)
    BY <1>1, <1>4, <2>1, <2>4 DEF Taken, RegistryInv, Types
  <2>6. closer'.calls = closer.calls \ {r} /\ closer'.step = closer.step
    BY <1>4 DEF RegistryInv, Types
  <2>7. Callbacks'
    BY <1>1, <2>1, <2>2, <2>4, <2>5, <2>6 DEF RegistryInv, Callbacks
  <2> QED
    BY <2>3, <2>7 DEF RegistryInv
<1> QED
  BY <1>3, <1>4 DEF CloserCalls, Calls

\* The shutdown sees its channel closed, or its context ends.
LEMMA CloserEndsKeeps ==
    ASSUME RegistryInv, CloserReturns \/ CloserGivesUp
    PROVE  RegistryInv'
<1>1. PICK s \in {"drained", "timeout"} :
          closer' = [closer EXCEPT !.step = s] /\ (s = "drained" => closer.chan \in shut)
  BY DEF CloserReturns, CloserGivesUp
<1>2. /\ closer.step = "waiting"
      /\ UNCHANGED <<pc, entries, admissions, closed, drained, shut, panicked, request, told>>
  BY DEF CloserReturns, CloserGivesUp
<1>3. closer'.step = s /\ closer'.chan = closer.chan /\ closer'.calls = closer.calls
  BY <1>1 DEF RegistryInv, Types
<1>4. Holders' = Holders /\ Registered' = Registered /\ \A x \in Runs : Taken(x)' <=> Taken(x)
  BY <1>2, <1>3 DEF Holders, Registered, Taken
<1>5. Types' /\ Accounted'
  BY <1>1, <1>2, <1>4 DEF RegistryInv, Types, Accounted
<1>6. Channels'
  BY <1>1, <1>2, <1>3, <1>4 DEF RegistryInv, Channels, DrainTracksRuns, NeverPanics, Busy
<1>7. Callbacks'
  BY <1>2, <1>3, <1>4 DEF RegistryInv, Callbacks
<1> QED
  BY <1>5, <1>6, <1>7 DEF RegistryInv

-----------------------------------------------------------------------------
(* The theorems.                                                             *)

\* A new registry satisfies the invariant.
THEOREM RegistryInvInit == RegistryInit => RegistryInv
<1> SUFFICES ASSUME RegistryInit PROVE RegistryInv
  OBVIOUS
<1>1. Types
  <2>1. 0 \in Nat /\ shut \subseteq 0..drained /\ drained = 0
    BY DEF RegistryInit
  <2>2. closer \in [step : {"idle", "calling", "waiting", "drained", "timeout"}, chan : Nat, calls : SUBSET Runs]
    BY DEF RegistryInit
  <2>3. pc \in [Runs -> {"new", "refused", "gone"} \cup Inside] /\ told \in [Runs -> Nat]
    BY DEF RegistryInit
  <2>4. entries \in [Keys -> [run : Runs \cup {NoRun}, invoked : BOOLEAN]]
    BY DEF RegistryInit, Empty
  <2>5. request \in [Requests -> Runs \cup {NoRun}]
    BY DEF RegistryInit
  <2> QED
    BY <2>1, <2>2, <2>3, <2>4, <2>5 DEF RegistryInit, Types
<1>2. Holders = {} /\ Registered = {}
  BY DEF RegistryInit, Holders, Holding, Registered, Empty
<1>3. Accounted
  BY <1>2, FS_EmptySet DEF RegistryInit, Accounted, Entered
<1>4. Channels
  BY <1>2 DEF RegistryInit, Channels, DrainTracksRuns, NeverPanics, Busy
<1>5. Callbacks
  BY RegistryAssumption DEF RegistryInit, Callbacks, Taken
<1> QED
  BY <1>1, <1>3, <1>4, <1>5 DEF RegistryInv

\* Every critical section and every callback of the registry keeps the invariant.
THEOREM RegistryInvStep == RegistryInv /\ [RegistryNext]_registryVars => RegistryInv'
<1> SUFFICES ASSUME RegistryInv, [RegistryNext]_registryVars PROVE RegistryInv'
  OBVIOUS
<1>1. ASSUME NEW r \in Runs, RunStep(r) PROVE RegistryInv'
  BY <1>1, BeginAdmissionKeeps, LocalKeeps, RegisterWritesKeeps, ReleaseAdmissionKeeps, UnregisterKeeps
     DEF RunStep
<1>2. ASSUME NEW q \in Requests, CancelCalls(q) \/ \E k \in Keys : Cancel(q, k) PROVE RegistryInv'
  BY <1>2, CancelKeeps, CancelCallsKeeps
<1>3. CASE CloseAndWait \/ CloserCalls \/ CloserReturns \/ CloserGivesUp
  BY <1>3, CloseAndWaitKeeps, CloserCallsKeeps, CloserEndsKeeps
<1>4. CASE UNCHANGED registryVars
  BY <1>4 DEF registryVars, RegistryInv, Types, Accounted, Holders, Registered, Channels, DrainTracksRuns,
     NeverPanics, Busy, Callbacks, Taken
<1> QED
  BY <1>1, <1>2, <1>3, <1>4 DEF RegistryNext

\* The invariant holds of every reachable state of the registry.
LEMMA RegistryInvariant == RegistrySpec => []RegistryInv
BY RegistryInvInit, RegistryInvStep, PTL DEF RegistrySpec

\* Every reachable state of the registry is well typed, and it never counts more
\* admissions than there are runs.
THEOREM RegistryTypeCorrect == RegistrySpec => []RegistryTypeOK
<1>1. RegistryInv => RegistryTypeOK
  <2> SUFFICES ASSUME RegistryInv PROVE RegistryTypeOK
    OBVIOUS
  <2>1. Holders \subseteq Runs
    BY DEF Holders
  <2>2. Cardinality(Holders) <= Cardinality(Runs) /\ Cardinality(Runs) \in Nat
    BY <2>1, RegistryAssumption, FS_Subset, FS_CardinalityType
  <2>3. admissions \in 0..Cardinality(Runs)
    BY <2>2 DEF RegistryInv, Types, Accounted
  <2> QED
    BY <2>3 DEF RegistryInv, Types, RegistryTypeOK
<1> QED
  BY <1>1, RegistryInvariant, PTL

\* No order of releases, registrations and unregistrations closes a channel twice.
THEOREM RegistryNeverPanics == RegistrySpec => []NeverPanics
<1>1. RegistryInv => NeverPanics
  BY DEF RegistryInv, Channels
<1> QED
  BY <1>1, RegistryInvariant, PTL

\* The drain channel is closed exactly while nothing is admitted or registered.
THEOREM RegistryDrains == RegistrySpec => []DrainTracksRuns
<1>1. RegistryInv => DrainTracksRuns
  BY DEF RegistryInv, Channels
<1> QED
  BY <1>1, RegistryInvariant, PTL

\* A shutdown that returned without an error left no run inside, and none comes in.
THEOREM RegistryDrainedIsIdle == RegistrySpec => []DrainedIsIdle
<1>1. RegistryInv => DrainedIsIdle
  BY BusyIffInside DEF RegistryInv, Channels, DrainTracksRuns, DrainedIsIdle
<1> QED
  BY <1>1, RegistryInvariant, PTL

\* The registry keeps count: a drain is seen exactly when the last run is out.
THEOREM RegistryDrainSound == RegistrySpec => []DrainSound
<1>1. RegistryTypeOK /\ NeverPanics /\ DrainTracksRuns /\ DrainedIsIdle <=> DrainSound
  BY DEF DrainSound
<1> QED
  BY <1>1, RegistryTypeCorrect, RegistryNeverPanics, RegistryDrains, RegistryDrainedIsIdle, PTL

\* Whatever requests and the shutdown race for a run, its callback is invoked once.
THEOREM RegistryToldOnce == RegistrySpec => []ToldOnce
<1>1. RegistryInv => ToldOnce
  BY DEF RegistryInv, Callbacks, ToldOnce
<1> QED
  BY <1>1, RegistryInvariant, PTL

----------------------------------------------------------------------------
(* CompareGeneration: what is known of a run, its record and its clients *)

CoordinatorSteps == {"idle", "settle", "models", "joining", "begin", "finalize", "complete", "recover", "reconcile", "quietly",
                     "done", "converge", "ending", "told", "end"}

\* The steps after the transaction that charges was tried.
Later == {"complete", "recover", "reconcile", "quietly", "done", "converge", "ending", "told", "end"}

Place == {"upstream", "broken", "cancelled", "ended"}

WorkerType == [at : Place, seq : Nat, result : ResultState]

RunType == [pc : CoordinatorSteps, fatal : BOOLEAN, ctx : {"live", "cancelled", "timeout"},
            renew : {"waiting", "locking", "stopped"}, rt : Nat, saw : State]

SeenType == [model : [Models -> {"none", "done", "error"}], delta : [Models -> Nat],
             end : {"none", "done", "error", "cancelled"}]

CancelType == [pc : {"idle", "callback", "polling", "answered", "gone"}, accepted : BOOLEAN, answer : {"none"} \cup State]

CompareTypes ==
    /\ rec \in Record /\ now \in Nat
    /\ worker \in [Models -> WorkerType] /\ run \in RunType
    /\ receipt \in [Models -> ResultState] \cup {NoReceipt}
    /\ seen \in SeenType /\ cancel \in CancelType

\* Every model of the record has ended, none by a cancel.
Concluded(r) == \A m \in Models : r.model[m].state \in {"completed", "failed"}

\* What a call may make of a record, whoever makes it; a commit fails only where nothing was charged.
Lawful(r, s) ==
    /\ s \in Record
    /\ r.state \in Terminal => s.state = r.state
    /\ r.state = "cancelling" => s.state \in {"cancelling", "cancelled"}
    /\ r.state = "committing" => s.state \in {"committing", "completed"}
    /\ s.state = "committing" => Concluded(s)
    /\ \A m \in Models : r.model[m].seq <= s.model[m].seq

\* Outside the phase of the models no goroutine of a model does anything any more.
Halted == run.pc # "models" => \A m \in Models : worker[m].at \in {"upstream", "ended"}

\* A stream that ended belongs to a run that is over.
Closed == seen.end # "none" => run.pc = "end"

\* The client heard of each model what its goroutine left, and of no delta that is not recorded.
Heard ==
    \A m \in Models : /\ seen.model[m] = CASE worker[m].result = "completed" -> "done"
                                           [] worker[m].result = "failed" -> "error"
                                           [] worker[m].result = "none" -> "none"
                      /\ seen.delta[m] <= rec.model[m].seq

\* Charged is what the goroutines left, each of them something.
Charged ==
    receipt # NoReceipt => /\ run.pc \in Later /\ receipt = Results
                           /\ rec.state \in {"committing", "completed"}
                           /\ \A m \in Models : receipt[m] # "none"

\* What the coordinator knows at its steps.
Staged ==
    /\ run.pc \in {"complete", "reconcile", "quietly"} => receipt = Results
    /\ run.pc = "done" => rec.state = "completed" /\ receipt # NoReceipt
    /\ run.pc = "ending" => run.saw \in {"running", "cancelling"}
    /\ run.pc = "told" => run.saw \in {"failed", "cancelled"} /\ rec.state = run.saw

\* A cancel that turned the record over, and one that was answered.
Turned == /\ cancel.accepted => rec.state \in {"cancelling", "cancelled"}
          /\ cancel.answer \in Terminal => rec.state = cancel.answer

Ended ==
    /\ seen.end = "done" => rec.state = "completed" /\ receipt # NoReceipt
    /\ seen.end = "cancelled" => rec.state = "cancelled"

Settled == rec.state = "committing" => Concluded(rec)

CompareInv == CompareTypes /\ Halted /\ Closed /\ Heard /\ Charged /\ Staged /\ Turned /\ Ended /\ Settled

----------------------------------------------------------------------------
(* What each write makes of a record *)

\* Stamp writes the time and the lease and nothing else.
LEMMA StampFields ==
    ASSUME NEW x \in Record, NEW t \in Nat
    PROVE  /\ Stamp(x, t) \in Record /\ Stamp(x, t).state = x.state /\ Stamp(x, t).model = x.model
BY DEF Stamp, Record

\* A write to a running record that forgets no delta is lawful.
LEMMA RunningLawful ==
    ASSUME NEW r \in Record, r.state = "running", NEW x \in Record, NEW t \in Nat,
           x.state = "committing" => Concluded(x), \A m \in Models : r.model[m].seq <= x.model[m].seq
    PROVE  Lawful(r, Stamp(x, t)) /\ Stamp(x, t).state = x.state /\ Stamp(x, t).model = x.model
BY StampFields DEF Lawful, Concluded, Terminal

\* What a record says of one model may change in one field.
LEMMA SeqChanges ==
    ASSUME NEW r \in Record, NEW m \in Models, NEW s \in Nat, NEW x, x = [r EXCEPT !.model[m].seq = s]
    PROVE  /\ x \in Record /\ x.state = r.state /\ x.model[m].seq = s
           /\ \A n \in Models : n # m => x.model[n].seq = r.model[n].seq
BY DEF Record, Entry

LEMMA StateChanges ==
    ASSUME NEW r \in Record, NEW m \in Models, NEW e \in ModelState, NEW y, y = [r EXCEPT !.model[m].state = e]
    PROVE  y \in Record /\ y.state = r.state /\ \A n \in Models : y.model[n].seq = r.model[n].seq
BY DEF Record, Entry

LEMMA RecordDeltaLawful ==
    ASSUME NEW r \in Record, NEW o, NEW m \in Models, NEW s \in Nat, NEW t \in Nat, CanRecordDelta(r, o, m, s, t)
    PROVE  Lawful(r, RecordDelta(r, m, s, t)) /\ RecordDelta(r, m, s, t).model[m].seq = s
<1> DEFINE x == [r EXCEPT !.model[m].seq = s]
<1>1. r.state = "running" /\ s = r.model[m].seq + 1 /\ \A n \in Models : r.model[n].seq \in Nat
  BY DEF CanRecordDelta, Record, Entry
<1>2. /\ x \in Record /\ x.state = r.state /\ x.model[m].seq = s
      /\ \A n \in Models : n # m => x.model[n].seq = r.model[n].seq
  BY SeqChanges
<1> HIDE DEF x
<1>3. \A n \in Models : r.model[n].seq <= x.model[n].seq
  BY <1>1, <1>2
<1>4. Lawful(r, Stamp(x, t)) /\ Stamp(x, t).model = x.model
  BY <1>1, <1>2, <1>3, RunningLawful
<1> QED BY <1>2, <1>4 DEF RecordDelta, x

LEMMA ModelEndsLawful ==
    ASSUME NEW r \in Record, r.state = "running", NEW m \in Models, NEW e \in ModelState, NEW t \in Nat
    PROVE  Lawful(r, Stamp([r EXCEPT !.model[m].state = e], t))
<1> DEFINE y == [r EXCEPT !.model[m].state = e]
<1>1. y \in Record /\ y.state = r.state /\ \A n \in Models : y.model[n].seq = r.model[n].seq
  BY StateChanges
<1>2. \A n \in Models : r.model[n].seq \in Nat
  BY DEF Record, Entry
<1> HIDE DEF y
<1>3. Lawful(r, Stamp(y, t))
  BY <1>1, <1>2, RunningLawful
<1> QED BY <1>3 DEF y

LEMMA SettleFields ==
    ASSUME NEW r \in Record, NEW s \in {"failed", "cancelled"}
    PROVE  /\ Settle(r, s) \in Record /\ Settle(r, s).state = s
           /\ \A m \in Models : Settle(r, s).model[m].seq = r.model[m].seq
<1> DEFINE q == [m \in Models |-> IF r.model[m].state = "running" THEN [r.model[m] EXCEPT !.state = s] ELSE r.model[m]]
<1>1. q \in [Models -> Entry] /\ \A m \in Models : q[m].seq = r.model[m].seq
  BY DEF Record, Entry, ModelState
<1> HIDE DEF q
<1> DEFINE x == [r EXCEPT !.state = s, !.model = q]
<1>2. x \in Record /\ x.state = s /\ x.model = q
  BY <1>1 DEF Record, State
<1>3. Settle(r, s) = x
  BY DEF Settle, q
<1> QED BY <1>1, <1>2, <1>3

LEMMA EndLawful ==
    ASSUME NEW r \in Record, NEW t \in Nat, NEW s \in {"failed", "cancelled"},
           r.state = "running" \/ (r.state = "cancelling" /\ s = "cancelled")
    PROVE  Lawful(r, Stamp(Settle(r, s), t)) /\ Stamp(Settle(r, s), t).state = s
<1>1. \A m \in Models : r.model[m].seq \in Nat
  BY DEF Record, Entry
<1>2. Settle(r, s) \in Record /\ Settle(r, s).state = s /\ \A m \in Models : Settle(r, s).model[m].seq = r.model[m].seq
  BY SettleFields
<1> DEFINE x == Settle(r, s)
           y == Stamp(x, t)
<1>3. y \in Record /\ y.state = x.state /\ y.model = x.model
  BY <1>2, StampFields
<1> HIDE DEF x, y
<1>4. x.state = s /\ \A m \in Models : x.model[m].seq = r.model[m].seq
  BY <1>2 DEF x
<1>5. Lawful(r, y)
  BY <1>1, <1>3, <1>4 DEF Lawful, Terminal
<1> QED BY <1>3, <1>4, <1>5 DEF x, y

LEMMA FailLawful ==
    ASSUME NEW r \in Record, NEW t \in Nat, r.state = "running"
    PROVE  Lawful(r, Fail(r, t)) /\ Fail(r, t).state = "failed"
<1>1. Lawful(r, Stamp(Settle(r, "failed"), t)) /\ Stamp(Settle(r, "failed"), t).state = "failed"
  BY EndLawful
<1> QED BY <1>1 DEF Fail

LEMMA AcknowledgeLawful ==
    ASSUME NEW r \in Record, NEW t \in Nat, r.state = "cancelling"
    PROVE  Lawful(r, AcknowledgeCancelled(r, t)) /\ AcknowledgeCancelled(r, t).state = "cancelled"
<1>1. Lawful(r, Stamp(Settle(r, "cancelled"), t)) /\ Stamp(Settle(r, "cancelled"), t).state = "cancelled"
  BY EndLawful
<1> QED BY <1>1 DEF AcknowledgeCancelled

LEMMA BeginCommitLawful ==
    ASSUME NEW r \in Record, NEW o, NEW t \in Nat, CanBeginCommit(r, o, t)
    PROVE  Lawful(r, BeginCommit(r, t))
<1> DEFINE x == [r EXCEPT !.state = "committing"]
<1>1. x \in Record /\ x.state = "committing" /\ x.model = r.model /\ \A m \in Models : r.model[m] \in Entry
  BY DEF Record, State
<1>2. r.state = "running" /\ Concluded(r)
  BY <1>1 DEF CanBeginCommit, Concluded, ModelsIn, Entry, ModelState
<1>3. Concluded(x) /\ \A m \in Models : r.model[m].seq <= x.model[m].seq
  BY <1>1, <1>2 DEF Concluded, Entry
<1> HIDE DEF x
<1>4. Lawful(r, Stamp(x, t))
  BY <1>1, <1>2, <1>3, RunningLawful
<1> QED BY <1>4 DEF BeginCommit, x

LEMMA CompleteLawful ==
    ASSUME NEW r \in Record, NEW guids, NEW t \in Nat, CanComplete(r, guids, t), \A m \in DOMAIN guids : guids[m] \in Guids
    PROVE  Lawful(r, Complete(r, guids, t)) /\ Complete(r, guids, t).state = "completed"
<1> DEFINE q == [m \in Models |-> IF m \in DOMAIN guids THEN [r.model[m] EXCEPT !.guid = guids[m]] ELSE r.model[m]]
           x == [r EXCEPT !.state = "completed", !.model = q]
<1>1. q \in [Models -> Entry] /\ \A m \in Models : q[m].seq = r.model[m].seq /\ r.model[m].seq \in Nat
  BY DEF Record, Entry
<1> HIDE DEF q
<1>2. x \in Record /\ x.state = "completed" /\ x.model = q
  BY <1>1 DEF Record, State
<1> HIDE DEF x
<1>3. Stamp(x, t) \in Record /\ Stamp(x, t).state = x.state /\ Stamp(x, t).model = x.model
  BY <1>2, StampFields
<1>4. Complete(r, guids, t) = Stamp(x, t)
  BY DEF Complete, x, q
<1> QED BY <1>1, <1>2, <1>3, <1>4 DEF Lawful, CanComplete, Terminal

\* A commit without a receipt may fail; its models stay as they are.
LEMMA FailStaleCommitFields ==
    ASSUME NEW r \in Record, NEW t \in Nat
    PROVE  FailStaleCommit(r, t) \in Record /\ FailStaleCommit(r, t).state = "failed" /\ FailStaleCommit(r, t).model = r.model
<1> DEFINE x == [r EXCEPT !.state = "failed"]
<1>1. x \in Record /\ x.state = "failed" /\ x.model = r.model
  BY DEF Record, State
<1> HIDE DEF x
<1>2. Stamp(x, t) \in Record /\ Stamp(x, t).state = x.state /\ Stamp(x, t).model = x.model
  BY <1>1, StampFields
<1> QED BY <1>1, <1>2 DEF FailStaleCommit, x

LEMMA ControlLawful ==
    ASSUME NEW r \in Record, NEW t \in Nat, r.state = "running"
    PROVE  /\ Lawful(r, RenewLease(r, t)) /\ RenewLease(r, t).state = "running"
           /\ Lawful(r, RequestCancel(r, t)) /\ RequestCancel(r, t).state = "cancelling"
<1>1. Lease \in Nat /\ \A m \in Models : r.model[m].seq \in Nat
  BY RecordAssumption DEF Record, Entry
<1> DEFINE a == [r EXCEPT !.updated = t]
           x == [a EXCEPT !.until = t + Lease]
           b == [a EXCEPT !.state = "cancelling"]
           y == [b EXCEPT !.until = 0]
<1>0. a \in Record /\ a.state = "running" /\ a.model = r.model
  BY <1>1 DEF Record
<1> HIDE DEF a
<1>2. x \in Record /\ x.state = "running" /\ x.model = r.model
  BY <1>0, <1>1 DEF Record
<1>2b. b \in Record /\ b.state = "cancelling" /\ b.model = r.model
  BY <1>0, <1>1 DEF Record, State
<1> HIDE DEF b
<1>3. y \in Record /\ y.state = "cancelling" /\ y.model = r.model
  BY <1>2b DEF Record, State
<1>4. RenewLease(r, t) = x /\ RequestCancel(r, t) = y
  BY DEF RenewLease, RequestCancel, a, b
<1> HIDE DEF x, y
<1> QED BY <1>1, <1>2, <1>3, <1>4 DEF Lawful, Terminal

LEMMA BirthLawful ==
    ASSUME NEW t \in Nat
    PROVE  /\ Absent \in Record /\ Absent.state = "absent" /\ \A m \in Models : Absent.model[m].seq = 0
           /\ \A o \in Owners : Lawful(Absent, NewRunning(o, t)) /\ NewRunning(o, t).state = "running"
           /\ Lawful(Absent, Tombstone(t)) /\ Tombstone(t).state = "cancelled"
<1>1. Lease \in Nat
  BY RecordAssumption
<1>2. \A s \in ModelState : Untouched(s) \in [Models -> Entry] /\ \A m \in Models : Untouched(s)[m].seq = 0
  BY DEF Untouched, Entry
<1>3. Absent \in Record /\ Absent.state = "absent" /\ Absent.model = Untouched("cancelled")
  BY <1>2 DEF Absent, Record, State, ModelState
<1>4. \A o \in Owners : /\ NewRunning(o, t) \in Record /\ NewRunning(o, t).state = "running"
                        /\ NewRunning(o, t).model = Untouched("running")
  BY <1>1, <1>2 DEF NewRunning, Record, State, ModelState
<1>5. Tombstone(t) \in Record /\ Tombstone(t).state = "cancelled" /\ Tombstone(t).model = Untouched("cancelled")
  BY <1>3 DEF Tombstone, Record, State
<1> QED BY <1>2, <1>3, <1>4, <1>5 DEF Lawful, Terminal, ModelState

LEMMA EnrichedLawful ==
    ASSUME NEW r \in Record, r.state = "committing" => Concluded(r)
    PROVE  Lawful(r, Enriched(r))
<1>1. Enriched(r) \in Record /\ Enriched(r).state = r.state /\ Enriched(r).model = r.model
  BY DEF Enriched, Record
<1>2. \A m \in Models : r.model[m].seq \in Nat
  BY DEF Record, Entry
<1> QED BY <1>1, <1>2 DEF Lawful, Terminal, Concluded

\* A call does what it would do or nothing, and what it answers is so.
LEMMA StoreLawful ==
    ASSUME rec \in Record, Settled, NEW can, NEW next, NEW cut, NEW ok \in BOOLEAN, Store(can, next, cut, ok),
           can => Lawful(rec, next)
    PROVE  Lawful(rec, rec') /\ (ok => can /\ rec' = next)
<1>1. Lawful(rec, rec)
  <2>1. \A m \in Models : rec.model[m].seq \in Nat
    BY DEF Record, Entry
  <2> QED BY <2>1 DEF Lawful, Settled, Terminal
<1> QED BY <1>1 DEF Store

----------------------------------------------------------------------------
(* Steps of the coordinator, the renewal and the surroundings *)

\* A step that leaves what was charged and told alone keeps the invariant if it knows what it says.
LEMMA ChargedKeeps ==
    ASSUME CompareInv, Lawful(rec, rec'), UNCHANGED <<worker, receipt, seen>>, now' \in Nat, run' \in RunType,
           run'.pc = run.pc \/ run.pc # "end", run.pc \in Later => run'.pc \in Later, Halted', Staged',
           cancel' \in CancelType, Turned'
    PROVE  CompareInv'
<1> USE DEF CompareInv
<1>1. CompareTypes'
  BY DEF CompareTypes, Lawful
<1>2. Closed' /\ Ended'
  BY DEF Closed, Ended, Lawful, Terminal
<1>3. Heard'
  <2>1. \A m \in Models : rec.model[m].seq \in Nat /\ rec'.model[m].seq \in Nat /\ seen.delta[m] \in Nat
    BY <1>1 DEF CompareTypes, Record, Entry, SeenType
  <2>2. \A m \in Models : seen.delta[m] <= rec'.model[m].seq
    BY <2>1 DEF Heard, Lawful
  <2> QED BY <2>2 DEF Heard
<1>4. Charged'
  BY DEF Charged, Lawful, Results, Terminal
<1>5. Settled'
  BY DEF Settled, Lawful
<1> QED BY <1>1, <1>2, <1>3, <1>4, <1>5

\* What a cancel knows stays so, whatever a call makes of the record.
LEMMA TurnedStays == ASSUME Turned, Lawful(rec, rec'), UNCHANGED cancel PROVE Turned'
BY DEF Turned, Lawful, Terminal

LEMMA RunKeeps ==
    ASSUME CompareInv, Lawful(rec, rec'), UNCHANGED <<worker, receipt, seen, cancel>>, now' \in Nat, run' \in RunType,
           run'.pc = run.pc \/ run.pc # "end", run.pc \in Later => run'.pc \in Later, Halted', Staged'
    PROVE  CompareInv'
BY ChargedKeeps, TurnedStays DEF CompareInv, CompareTypes

\* A step of the record alone may leave the run as it is.
LEMMA StagedStays ==
    ASSUME CompareInv, Lawful(rec, rec'), UNCHANGED <<worker, receipt>>, run'.pc = run.pc, run'.saw = run.saw
    PROVE  Halted' /\ Staged'
BY DEF CompareInv, Halted, Staged, Lawful, Terminal, Results

\* The same where the run stays where it is.
LEMMA RunStays ==
    ASSUME CompareInv, Lawful(rec, rec'), UNCHANGED <<worker, receipt, seen, cancel>>, now' \in Nat, run' \in RunType,
           run'.pc = run.pc, run'.saw = run.saw
    PROVE  CompareInv'
<1>1. Halted' /\ Staged'
  BY StagedStays
<1> QED BY <1>1, RunKeeps

\* A call that changes nothing is lawful.
LEMMA SameLawful == ASSUME rec \in Record, Settled PROVE Lawful(rec, rec)
<1>1. \A m \in Models : rec.model[m].seq \in Nat
  BY DEF Record, Entry
<1> QED BY <1>1 DEF Lawful, Settled, Terminal

\* A step of the coordinator to another of its steps.
LEMMA GoesOn ==
    ASSUME run \in RunType, NEW p \in CoordinatorSteps, Goes(p)
    PROVE  run' \in RunType /\ run'.pc = p /\ run'.saw = run.saw
BY DEF Goes, RunType

LEMMA Facts ==
    ASSUME CompareInv
    PROVE  /\ rec \in Record /\ now \in Nat /\ run \in RunType /\ Settled /\ run.saw \in State /\ run.pc \in CoordinatorSteps
           /\ receipt # NoReceipt => receipt \in [Models -> ResultState]
BY DEF CompareInv, CompareTypes, RunType

\* The coordinator's step with a call that ends in p or in q.
LEMMA CallStep ==
    ASSUME CompareInv, run.pc \notin {"end", "models"}, Lawful(rec, rec'), UNCHANGED <<now, worker, receipt, seen, cancel>>,
           NEW p \in CoordinatorSteps, Goes(p), run.pc \in Later => p \in Later,
           p \in {"complete", "reconcile", "quietly"} => receipt = Results,
           p = "done" => rec'.state = "completed" /\ receipt # NoReceipt,
           p \notin {"ending", "told"}
    PROVE  CompareInv'
<1>1. run' \in RunType /\ run'.pc = p /\ now' \in Nat
  BY GoesOn, Facts
<1>2. Halted'
  BY <1>1 DEF CompareInv, Halted
<1>3. Staged'
  BY <1>1 DEF Staged, Results
<1> QED BY <1>1, <1>2, <1>3, RunKeeps

LEMMA ClaimsStep == ASSUME CompareInv, Claims PROVE CompareInv'
<1>1. PICK ok \in BOOLEAN, p \in {"models", "settle", "end"} :
          run.pc = "idle" /\ Store(rec = Absent, NewRunning(Me, now), FALSE, ok) /\ Goes(p)
  BY DEF Claims
<1>2. Me \in Owners
  BY CompareAssumption DEF Me
<1>3. rec = Absent => Lawful(rec, NewRunning(Me, now))
  BY <1>2, BirthLawful, Facts
<1>4. Lawful(rec, rec')
  BY <1>1, <1>3, StoreLawful, Facts
<1> QED BY <1>1, <1>4, CallStep DEF Claims, CoordinatorSteps, Later

LEMMA ClaimFindsTombstoneStep == ASSUME CompareInv, ClaimFindsTombstone PROVE CompareInv'
<1>1. PICK ok \in BOOLEAN : run.pc = "idle" /\ Store(TRUE, Enriched(rec), FALSE, ok) /\ Goes("end")
  BY DEF ClaimFindsTombstone
<1>2. Lawful(rec, rec')
  BY <1>1, EnrichedLawful, StoreLawful, Facts DEF Settled
<1> QED BY <1>1, <1>2, CallStep DEF ClaimFindsTombstone, CoordinatorSteps, Later

LEMMA SettleOwnedRunningStep == ASSUME CompareInv, SettleOwnedRunning PROVE CompareInv'
<1>1. PICK ok \in BOOLEAN : run.pc = "settle" /\ Store(CanFailRunning(rec, Me, now), Fail(rec, now), FALSE, ok) /\ Goes("end")
  BY DEF SettleOwnedRunning
<1>2. CanFailRunning(rec, Me, now) => Lawful(rec, Fail(rec, now))
  BY FailLawful, Facts DEF CanFailRunning
<1>3. Lawful(rec, rec')
  BY <1>1, <1>2, StoreLawful, Facts
<1> QED BY <1>1, <1>3, CallStep DEF SettleOwnedRunning, CoordinatorSteps, Later

LEMMA RenewalSteps == ASSUME CompareInv, RenewalDue \/ RenewLeases \/ RenewalStops \/ TimesOut PROVE CompareInv'
<1>1. run \in RunType /\ rec \in Record /\ now \in Nat /\ Settled /\ run.rt \in Nat
  BY Facts DEF RunType
<1>2. CASE RenewalDue
  <2>1. run' \in RunType /\ run'.pc = run.pc /\ run'.saw = run.saw
    BY <1>1, <1>2 DEF RenewalDue, RunType
  <2> QED BY <1>1, <1>2, <2>1, SameLawful, RunStays DEF RenewalDue
<1>3. CASE RenewalStops
  <2>1. run' \in RunType /\ run'.pc = run.pc /\ run'.saw = run.saw
    BY <1>1, <1>3 DEF RenewalStops, RunType
  <2> QED BY <1>1, <1>3, <2>1, SameLawful, RunStays DEF RenewalStops
<1>4. CASE TimesOut
  <2>1. run' \in RunType /\ run'.pc = run.pc /\ run'.saw = run.saw
    BY <1>1, <1>4 DEF TimesOut, RunType
  <2> QED BY <1>1, <1>4, <2>1, SameLawful, RunStays DEF TimesOut
<1>5. CASE RenewLeases
  <2>1. PICK ok \in BOOLEAN :
          /\ Store(CanRenewLease(rec, Me, run.rt), RenewLease(rec, run.rt), Cut, ok)
          /\ run' = IF ok THEN [run EXCEPT !.renew = "waiting", !.rt = 0]
                    ELSE Cancelled([run EXCEPT !.renew = "stopped", !.rt = 0, !.fatal = TRUE])
    BY <1>5 DEF RenewLeases
  <2>2. CanRenewLease(rec, Me, run.rt) => Lawful(rec, RenewLease(rec, run.rt))
    BY <1>1, ControlLawful DEF CanRenewLease, RunningLeaseAuthorized
  <2>3. Lawful(rec, rec')
    BY <1>1, <2>1, <2>2, StoreLawful
  <2>4. run' \in RunType /\ run'.pc = run.pc /\ run'.saw = run.saw
    BY <1>1, <2>1 DEF Cancelled, RunType
  <2> QED BY <1>1, <1>5, <2>3, <2>4, RunStays DEF RenewLeases
<1> QED BY <1>2, <1>3, <1>4, <1>5

LEMMA TerminalPhaseStep == ASSUME CompareInv, TerminalPhase PROVE CompareInv'
<1>1. run' \in RunType /\ run'.pc = "joining" /\ run.pc = "models"
  BY GoesOn, Facts DEF TerminalPhase, CoordinatorSteps
<1>2. Halted' /\ Staged'
  BY <1>1 DEF TerminalPhase, Halted, Staged
<1>3. Lawful(rec, rec') /\ now' \in Nat
  BY SameLawful, Facts DEF TerminalPhase
<1> QED BY <1>1, <1>2, <1>3, RunKeeps DEF TerminalPhase, Later

LEMMA JudgeStep == ASSUME CompareInv, Judge PROVE CompareInv'
<1>1. run' \in RunType /\ run'.pc \in {"converge", "begin"} /\ run.pc = "joining"
  BY Facts DEF Judge, RunType, CoordinatorSteps, Cut
<1>2. Halted' /\ Staged'
  BY <1>1 DEF CompareInv, Judge, Halted, Staged
<1>3. Lawful(rec, rec') /\ now' \in Nat
  BY SameLawful, Facts DEF Judge
<1> QED BY <1>1, <1>2, <1>3, RunKeeps DEF Judge, Later

LEMMA CommittingStep == ASSUME CompareInv, Committing PROVE CompareInv'
<1>1. PICK ok \in BOOLEAN : Store(CanBeginCommit(rec, Me, now), BeginCommit(rec, now), Cut, ok)
                            /\ Goes(IF ok THEN "finalize" ELSE "recover")
  BY DEF Committing
<1>2. Lawful(rec, rec')
  BY <1>1, BeginCommitLawful, StoreLawful, Facts
<1>3. PICK p \in {"finalize", "recover"} : Goes(p)
  BY <1>1
<1> QED BY <1>2, <1>3, CallStep DEF Committing, CoordinatorSteps, Later

\* A receipt with the results of a record that completes is one: every completed model has a GUID.
LEMMA GuidsType == \A m \in DOMAIN ReceiptGuids : ReceiptGuids[m] \in Guids
BY CompareAssumption DEF ReceiptGuids

LEMMA ResultsType == CompareTypes => Results \in [Models -> ResultState] /\ Results # NoReceipt
BY CompareAssumption DEF CompareTypes, WorkerType, Results

LEMMA CompletesStep == ASSUME CompareInv, Completes PROVE CompareInv'
<1>1. PICK ok \in BOOLEAN : Store(CanComplete(rec, ReceiptGuids, now), Complete(rec, ReceiptGuids, now), Cut, ok)
                            /\ Goes(IF ok THEN "done" ELSE "recover")
  BY DEF Completes
<1>2. CanComplete(rec, ReceiptGuids, now) => /\ Lawful(rec, Complete(rec, ReceiptGuids, now))
                                             /\ Complete(rec, ReceiptGuids, now).state = "completed"
  BY CompleteLawful, GuidsType, Facts
<1>3. Lawful(rec, rec') /\ (ok => rec'.state = "completed")
  BY <1>1, <1>2, StoreLawful, Facts
<1>4. receipt # NoReceipt
  BY ResultsType DEF Completes, CompareInv, Staged
<1>5. PICK p \in {"done", "recover"} : Goes(p) /\ (p = "done" => ok)
  BY <1>1
<1> QED BY <1>3, <1>4, <1>5, CallStep DEF Completes, CoordinatorSteps, Later

LEMMA RecoversStep == ASSUME CompareInv, Recovers PROVE CompareInv'
<1>1. PICK p \in {"reconcile", "end", "converge"} : Goes(p) /\ (p = "reconcile" => ReceiptMatches)
  BY DEF Recovers, RecoversTo
<1>2. Lawful(rec, rec')
  BY SameLawful, Facts DEF Recovers
<1> QED BY <1>1, <1>2, CallStep DEF Recovers, CoordinatorSteps, Later, ReceiptMatches

LEMMA ReconcilesStep == ASSUME CompareInv, Reconciles PROVE CompareInv'
<1>1. PICK ok \in BOOLEAN :
        /\ Store(AlreadyCompleted \/ CanComplete(rec, ReceiptGuids, now),
                 IF AlreadyCompleted THEN rec ELSE Complete(rec, ReceiptGuids, now), FALSE, ok)
        /\ Goes(IF ok /\ run.pc = "reconcile" THEN "done" ELSE "end")
  BY DEF Reconciles
<1> DEFINE next == IF AlreadyCompleted THEN rec ELSE Complete(rec, ReceiptGuids, now)
<1>2. AlreadyCompleted \/ CanComplete(rec, ReceiptGuids, now) => Lawful(rec, next) /\ next.state = "completed"
  BY CompleteLawful, GuidsType, SameLawful, Facts DEF AlreadyCompleted
<1> HIDE DEF next
<1>3. Store(AlreadyCompleted \/ CanComplete(rec, ReceiptGuids, now), next, FALSE, ok)
  BY <1>1 DEF next
<1> DEFINE can == AlreadyCompleted \/ CanComplete(rec, ReceiptGuids, now)
<1>4. Lawful(rec, rec') /\ (ok => rec'.state = "completed")
  <2>1. can => Lawful(rec, next) /\ next.state = "completed"
    BY <1>2
  <2>2. Store(can, next, FALSE, ok)
    BY <1>3
  <2> HIDE DEF can
  <2>3. Lawful(rec, rec') /\ (ok => can /\ rec' = next)
    BY <2>1, <2>2, StoreLawful, Facts
  <2> QED BY <2>1, <2>3
<1>5. receipt # NoReceipt
  BY ResultsType DEF Reconciles, CompareInv, Staged
<1>6. PICK p \in {"done", "end"} : Goes(p) /\ (p = "done" => ok)
  BY <1>1
<1> QED BY <1>4, <1>5, <1>6, CallStep DEF Reconciles, CoordinatorSteps, Later

LEMMA ConvergeReadsStep == ASSUME CompareInv, ConvergeReads PROVE CompareInv'
<1> DEFINE p == CASE rec.state \in {"running", "cancelling"} -> "ending"
                  [] rec.state \in {"cancelled", "failed"} -> "told"
                  [] OTHER -> IF ReceiptMatches THEN "quietly" ELSE "end"
           a == [run EXCEPT !.saw = rec.state]
           b == [a EXCEPT !.pc = p]
<1>0. rec.state \in State
  BY Facts DEF Record
<1>1. /\ p \in {"ending", "told", "quietly", "end"} /\ (p = "ending" => rec.state \in {"running", "cancelling"})
      /\ (p = "told" => rec.state \in {"failed", "cancelled"}) /\ (p = "quietly" => ReceiptMatches)
  BY <1>0 DEF State
<1> HIDE DEF p
<1>2. a \in RunType /\ a.saw = rec.state
  BY <1>0, Facts DEF RunType
<1> HIDE DEF a
<1>3. b \in RunType /\ b.pc = p /\ b.saw = rec.state
  BY <1>1, <1>2 DEF RunType, CoordinatorSteps
<1>4. run' = b
  BY DEF ConvergeReads, a, p
<1>5. run.pc = "converge" /\ UNCHANGED <<rec, now, worker, receipt, seen, cancel>>
  BY DEF ConvergeReads
<1> HIDE DEF b
<1>6. Halted'
  BY <1>1, <1>3, <1>4, <1>5 DEF CompareInv, Halted
<1>7. Staged'
  BY <1>1, <1>3, <1>4, <1>5 DEF Staged, ReceiptMatches, Results
<1>8. Lawful(rec, rec') /\ now' \in Nat
  BY <1>5, SameLawful, Facts
<1> QED BY <1>1, <1>3, <1>4, <1>5, <1>6, <1>7, <1>8, RunKeeps DEF Later

LEMMA ConvergeActsStep == ASSUME CompareInv, ConvergeActs PROVE CompareInv'
<1>1. PICK ok \in BOOLEAN :
        /\ IF run.saw = "running" THEN Store(CanFailRunning(rec, Me, now), Fail(rec, now), FALSE, ok)
           ELSE Store(CanAcknowledgeCancelled(rec, Me, now), AcknowledgeCancelled(rec, now), FALSE, ok)
        /\ run' = [run EXCEPT !.pc = IF ok THEN "told" ELSE "end",
                              !.saw = IF @ = "running" THEN "failed" ELSE "cancelled"]
  BY DEF ConvergeActs
<1> DEFINE p == IF ok THEN "told" ELSE "end"
           saw == IF run.saw = "running" THEN "failed" ELSE "cancelled"
           a == [run EXCEPT !.pc = p]
           b == [a EXCEPT !.saw = saw]
<1>2. Lawful(rec, rec') /\ (ok => rec'.state = saw)
  <2>1. CanFailRunning(rec, Me, now) => Lawful(rec, Fail(rec, now)) /\ Fail(rec, now).state = "failed"
    BY FailLawful, Facts DEF CanFailRunning
  <2>2. CanAcknowledgeCancelled(rec, Me, now) => /\ Lawful(rec, AcknowledgeCancelled(rec, now))
                                                 /\ AcknowledgeCancelled(rec, now).state = "cancelled"
    BY AcknowledgeLawful, Facts DEF CanAcknowledgeCancelled
  <2>3. CASE run.saw = "running"
    <3>1. Store(CanFailRunning(rec, Me, now), Fail(rec, now), FALSE, ok)
      BY <1>1, <2>3
    <3>2. CanFailRunning(rec, Me, now) => Lawful(rec, Fail(rec, now))
      BY <2>1
    <3>3. Lawful(rec, rec') /\ (ok => CanFailRunning(rec, Me, now) /\ rec' = Fail(rec, now))
      BY <3>1, <3>2, StoreLawful, Facts
    <3> QED BY <2>1, <2>3, <3>3
  <2>4. CASE run.saw # "running"
    <3>1. Store(CanAcknowledgeCancelled(rec, Me, now), AcknowledgeCancelled(rec, now), FALSE, ok)
      BY <1>1, <2>4
    <3>2. CanAcknowledgeCancelled(rec, Me, now) => Lawful(rec, AcknowledgeCancelled(rec, now))
      BY <2>2
    <3>3. Lawful(rec, rec') /\ (ok => CanAcknowledgeCancelled(rec, Me, now) /\ rec' = AcknowledgeCancelled(rec, now))
      BY <3>1, <3>2, StoreLawful, Facts
    <3> QED BY <2>2, <2>4, <3>3
  <2> QED BY <2>3, <2>4
<1>3. a \in RunType /\ a.pc = p /\ a.saw = run.saw
  BY Facts DEF RunType, CoordinatorSteps
<1>4. saw \in {"failed", "cancelled"} /\ p \in {"told", "end"} /\ (p = "told" => ok)
  OBVIOUS
<1>5. run' = [[run EXCEPT !.pc = p] EXCEPT !.saw = saw]
  BY <1>1, Facts DEF RunType
<1> HIDE DEF p, saw, a
<1>6. b \in RunType /\ b.pc = p /\ b.saw = saw
  BY <1>3, <1>4 DEF RunType, State
<1>7. run' = b
  BY <1>5 DEF a
<1>8. run.pc = "ending" /\ UNCHANGED <<now, worker, receipt, seen, cancel>>
  BY DEF ConvergeActs
<1> HIDE DEF b
<1>9. Halted'
  BY <1>4, <1>6, <1>7, <1>8 DEF CompareInv, Halted
<1>10. Staged'
  BY <1>2, <1>4, <1>6, <1>7, <1>8 DEF Staged
<1> QED BY <1>2, <1>4, <1>6, <1>7, <1>8, <1>9, <1>10, RunKeeps, Facts DEF Later

\* One transaction charges what the goroutines left; by then each of them left something.
LEMMA FinalizesStep == ASSUME CompareInv, Finalizes PROVE CompareInv'
<1> USE DEF CompareInv
<1>1. CASE Goes("recover") /\ UNCHANGED receipt
  <2>1. Lawful(rec, rec')
    BY SameLawful, Facts DEF Finalizes
  <2> QED BY <1>1, <2>1, CallStep DEF Finalizes, CoordinatorSteps, Later
<1>2. CASE Chargeable /\ receipt' = Results /\ \E p \in {"complete", "recover"} : Goes(p)
  <2>0. run.pc = "finalize" /\ UNCHANGED <<rec, now, worker, seen, cancel>>
    BY DEF Finalizes
  <2>1. PICK p \in {"complete", "recover"} : Goes(p)
    BY <1>2
  <2>2. run' \in RunType /\ run'.pc = p
    BY <2>1, GoesOn, Facts DEF CoordinatorSteps
  <2>3. receipt' \in [Models -> ResultState] /\ receipt' = Results /\ Results' = Results
    BY <1>2, <2>0, ResultsType DEF Results
  <2>4. \A m \in Models : receipt'[m] # "none"
    <3>1. \A m \in Models : rec.model[m].state \in {"completed", "failed"} /\ rec.model[m].state = worker[m].result
      BY <1>2 DEF Chargeable, Agrees, Settled, Concluded
    <3> QED BY <2>3, <3>1 DEF Results
  <2>5. CompareTypes'
    BY <2>0, <2>2, <2>3 DEF CompareTypes
  <2>6. Halted' /\ Closed' /\ Staged'
    BY <2>0, <2>2, <2>3 DEF Halted, Closed, Staged
  <2>7. Heard'
    BY <2>0 DEF Heard
  <2>8. Charged'
    BY <1>2, <2>0, <2>2, <2>3, <2>4 DEF Charged, Chargeable, Later
  <2>9. Turned' /\ Ended' /\ Settled'
    BY <2>0 DEF Turned, Ended, Closed, Settled, Concluded
  <2> QED BY <2>5, <2>6, <2>7, <2>8, <2>9
<1> QED BY <1>1, <1>2 DEF Finalizes

\* The event that ends a stream says what the record has come to.
LEMMA TellsKeeps ==
    ASSUME CompareInv, run.pc \in {"done", "told"}, UNCHANGED <<rec, now, worker, receipt, cancel>>, Goes("end"),
           NEW e \in {"done", "error", "cancelled"}, Tells(e),
           e = "done" => rec.state = "completed" /\ receipt # NoReceipt, e = "cancelled" => rec.state = "cancelled"
    PROVE  CompareInv'
<1> USE DEF CompareInv
<1>1. run' \in RunType /\ run'.pc = "end"
  BY GoesOn, Facts DEF CoordinatorSteps
<1>2. seen.end = "none" /\ seen \in SeenType
  BY DEF Closed, CompareTypes
<1>3. seen' \in SeenType /\ seen'.end = e /\ seen'.model = seen.model /\ seen'.delta = seen.delta
  BY <1>2 DEF Tells, SeenType
<1>4. CompareTypes'
  BY <1>1, <1>3 DEF CompareTypes
<1>5. Halted' /\ Closed' /\ Staged'
  BY <1>1 DEF Halted, Closed, Staged
<1>6. Heard'
  BY <1>3 DEF Heard
<1>7. Charged'
  BY <1>1 DEF Charged, Later, Results
<1>8. Turned' /\ Ended' /\ Settled'
  BY <1>3 DEF Turned, Ended, Settled, Concluded
<1> QED BY <1>4, <1>5, <1>6, <1>7, <1>8

LEMMA EmitsDoneStep == ASSUME CompareInv, EmitsDone PROVE CompareInv'
<1>1. PICK e \in {"done", "error"} : Tells(e)
  BY DEF EmitsDone
<1>2. rec.state = "completed" /\ receipt # NoReceipt
  BY DEF EmitsDone, CompareInv, Staged
<1> QED BY <1>1, <1>2, TellsKeeps DEF EmitsDone

LEMMA EmitsConvergenceStep == ASSUME CompareInv, EmitsConvergence PROVE CompareInv'
<1>1. PICK e \in {"cancelled", "error"} : Tells(e) /\ (e = "cancelled" => run.saw = "cancelled")
  BY DEF EmitsConvergence
<1>2. rec.state = run.saw
  BY DEF EmitsConvergence, CompareInv, Staged
<1> QED BY <1>1, <1>2, TellsKeeps DEF EmitsConvergence

----------------------------------------------------------------------------
(* Steps of the workers *)

LEMMA WorkerKeeps ==
    ASSUME CompareInv, run.pc = "models", Lawful(rec, rec'), UNCHANGED <<now, receipt, cancel>>,
           run' \in RunType, run'.pc = "models", worker' \in [Models -> WorkerType],
           seen' \in SeenType, seen'.end = seen.end, Heard'
    PROVE  CompareInv'
<1> USE DEF CompareInv
<1>1. CompareTypes'
  BY DEF CompareTypes, Lawful
<1>2. Halted' /\ Closed' /\ Staged'
  BY DEF Halted, Closed, Staged
<1>3. Charged' /\ Ended'
  BY DEF Charged, Ended, Closed, Later
<1>4. Turned' /\ Settled'
  BY TurnedStays DEF Settled, Lawful
<1> QED BY <1>1, <1>2, <1>3, <1>4

LEMMA WorkerFacts ==
    ASSUME CompareInv
    PROVE  /\ worker \in [Models -> WorkerType] /\ seen \in SeenType
           /\ \A m \in Models : worker[m].seq \in Nat
           /\ run.pc = "models" => seen.end = "none" /\ receipt = NoReceipt
           /\ \A m \in Models : worker[m].at \in {"broken", "cancelled"} => run.pc = "models"
BY DEF CompareInv, CompareTypes, WorkerType, Closed, Charged, Halted, Later

\* A goroutine that goes elsewhere leaves what it has counted and its result.
LEMMA WorkerGoes ==
    ASSUME CompareInv, NEW m \in Models, NEW a \in Place, NEW w, w = [worker EXCEPT ![m].at = a]
    PROVE  w \in [Models -> WorkerType] /\ \A n \in Models : w[n].result = worker[n].result
BY WorkerFacts DEF WorkerType

LEMMA WorkerCounts ==
    ASSUME CompareInv, NEW m \in Models, NEW s \in Nat, NEW w, w = [worker EXCEPT ![m].seq = s]
    PROVE  w \in [Models -> WorkerType] /\ \A n \in Models : w[n].result = worker[n].result
BY WorkerFacts DEF WorkerType

LEMMA WorkerLeaves ==
    ASSUME CompareInv, NEW m \in Models, NEW e \in ResultState
    PROVE  /\ Result(m, e) \in [Models -> WorkerType] /\ Result(m, e)[m].result = e
           /\ \A n \in Models : n # m => Result(m, e)[n].result = worker[n].result
<1> DEFINE a == [worker[m] EXCEPT !.at = "ended"]
           b == [a EXCEPT !.result = e]
           w == [worker EXCEPT ![m] = b]
<1>1. a \in WorkerType
  BY WorkerFacts DEF WorkerType, Place
<1> HIDE DEF a
<1>2. b \in WorkerType /\ b.result = e
  BY <1>1 DEF WorkerType
<1>3. Result(m, e) = w
  BY WorkerFacts DEF Result, a
<1> HIDE DEF b
<1>4. w \in [Models -> WorkerType] /\ w[m] = b /\ \A n \in Models : n # m => w[n] = worker[n]
  BY <1>2, WorkerFacts
<1> HIDE DEF w
<1> QED BY <1>2, <1>3, <1>4

LEMMA FatalStep ==
    ASSUME CompareInv, Fatal
    PROVE  run' \in RunType /\ run'.pc = run.pc
BY Facts DEF Fatal, Cancelled, RunType

\* Frames that stay are still backed: a call forgets no delta.
LEMMA HeardStays ==
    ASSUME CompareInv, Lawful(rec, rec'), UNCHANGED seen, \A n \in Models : worker'[n].result = worker[n].result
    PROVE  Heard'
<1>1. \A m \in Models : rec.model[m].seq \in Nat /\ rec'.model[m].seq \in Nat /\ seen.delta[m] \in Nat
  BY Facts, WorkerFacts DEF Record, Entry, SeenType, Lawful
<1>2. \A m \in Models : seen.delta[m] <= rec'.model[m].seq
  BY <1>1 DEF CompareInv, Heard, Lawful
<1> QED BY <1>2 DEF CompareInv, Heard

\* A goroutine that ends on an error ends the run's context.
LEMMA WorkerFails ==
    ASSUME CompareInv, NEW m \in Models, run.pc = "models", Lawful(rec, rec'), UNCHANGED <<now, receipt, cancel, seen>>, Fatal,
           worker' = [worker EXCEPT ![m].at = "ended"]
    PROVE  CompareInv'
<1>0. PICK a \in Place : worker' = [worker EXCEPT ![m].at = a]
  BY DEF Place
<1>1. worker' \in [Models -> WorkerType] /\ \A n \in Models : worker'[n].result = worker[n].result
  BY <1>0, WorkerGoes
<1>2. Heard'
  BY <1>1, HeardStays
<1> QED BY <1>1, <1>2, FatalStep, WorkerFacts, WorkerKeeps

LEMMA DeltaStep == ASSUME CompareInv, NEW m \in Models, Delta(m) PROVE CompareInv'
<1> DEFINE s == worker[m].seq + 1
           next == RecordDelta(rec, m, s, now)
<1>1. PICK ok \in BOOLEAN :
        /\ Store(CanRecordDelta(rec, Me, m, s, now), next, Cut, ok)
        /\ IF ok THEN /\ worker' = [worker EXCEPT ![m].seq = s]
                      /\ Frame([seen EXCEPT !.delta[m] = s]) /\ UNCHANGED run
                 ELSE /\ worker' = [worker EXCEPT ![m].at = "ended"]
                      /\ Fatal /\ UNCHANGED seen
  BY DEF Delta
<1>2. s \in Nat /\ run.pc = "models" /\ UNCHANGED <<now, receipt, cancel>>
  BY WorkerFacts DEF Delta, Streaming
<1> HIDE DEF s
<1>3. CanRecordDelta(rec, Me, m, s, now) => Lawful(rec, next) /\ next.model[m].seq = s
  BY <1>2, RecordDeltaLawful, Facts
<1> HIDE DEF next
<1>4. Lawful(rec, rec') /\ (ok => rec'.model[m].seq = s)
  BY <1>1, <1>3, StoreLawful, Facts
<1>5. CASE ok
  <2> DEFINE f == [seen EXCEPT !.delta[m] = s]
  <2>1. worker' \in [Models -> WorkerType] /\ \A n \in Models : worker'[n].result = worker[n].result
    BY <1>1, <1>2, <1>5, WorkerCounts
  <2>2. /\ f \in SeenType /\ f.end = seen.end /\ f.model = seen.model /\ f.delta[m] = s
        /\ \A n \in Models : n # m => f.delta[n] = seen.delta[n]
    BY <1>2, WorkerFacts DEF SeenType
  <2>3. seen' = f
    BY <1>1, <1>2, <1>5, WorkerFacts DEF Frame
  <2> HIDE DEF f
  <2>4. \A n \in Models : rec.model[n].seq \in Nat /\ rec'.model[n].seq \in Nat /\ seen.delta[n] \in Nat
    BY <1>4, Facts, WorkerFacts DEF Record, Entry, SeenType, Lawful
  <2>5. \A n \in Models : f.delta[n] <= rec'.model[n].seq
    <3>1. f.delta[m] <= rec'.model[m].seq
      BY <1>2, <1>4, <1>5, <2>2
    <3>2. \A n \in Models : n # m => f.delta[n] <= rec'.model[n].seq
      BY <1>4, <2>2, <2>4 DEF CompareInv, Heard, Lawful
    <3> QED BY <3>1, <3>2
  <2>6. Heard'
    BY <2>1, <2>2, <2>3, <2>5 DEF CompareInv, Heard
  <2>7. run' \in RunType /\ run'.pc = "models"
    BY <1>1, <1>2, <1>5, Facts
  <2> QED BY <1>2, <1>4, <2>1, <2>2, <2>3, <2>6, <2>7, WorkerKeeps
<1>6. CASE ~ok
  BY <1>1, <1>2, <1>4, <1>6, WorkerFails
<1> QED BY <1>5, <1>6

Verdict == {"completed", "failed"}
Word(e) == IF e = "completed" THEN "done" ELSE "error"

\* A model that ends with a word to the client, or with an error of the store.
LEMMA ModelEnds ==
    ASSUME CompareInv, NEW m \in Models, run.pc = "models", NEW e \in Verdict, NEW can, NEW cut, NEW ok \in BOOLEAN, can => rec.state = "running",
           Store(can, Stamp([rec EXCEPT !.model[m].state = e], now), cut, ok), UNCHANGED <<now, receipt, cancel>>,
           IF ok THEN worker' = Result(m, e) /\ Frame([seen EXCEPT !.model[m] = Word(e)]) /\ UNCHANGED run
                 ELSE worker' = [worker EXCEPT ![m].at = "ended"] /\ Fatal /\ UNCHANGED seen
    PROVE  CompareInv'
<1> DEFINE next == Stamp([rec EXCEPT !.model[m].state = e], now)
<1>1. can => Lawful(rec, next)
  BY ModelEndsLawful, Facts DEF ModelState, Verdict
<1>2. Store(can, next, cut, ok)
  OBVIOUS
<1> HIDE DEF next
<1>3. Lawful(rec, rec')
  BY <1>1, <1>2, StoreLawful, Facts
<1>4. CASE ok
  <2> DEFINE f == [seen EXCEPT !.model[m] = Word(e)]
  <2>1. /\ worker' \in [Models -> WorkerType] /\ worker'[m].result = e
        /\ \A n \in Models : n # m => worker'[n].result = worker[n].result
    BY <1>4, WorkerLeaves DEF ResultState, Verdict
  <2>2. /\ f \in SeenType /\ f.end = seen.end /\ f.delta = seen.delta /\ f.model[m] = Word(e)
        /\ \A n \in Models : n # m => f.model[n] = seen.model[n]
    <3>1. Word(e) \in {"none", "done", "error"}
      BY DEF Word
    <3> QED BY <3>1, WorkerFacts DEF SeenType
  <2>3. seen' = f
    BY <1>4, WorkerFacts DEF Frame
  <2> HIDE DEF f
  <2>4. \A n \in Models : rec.model[n].seq \in Nat /\ rec'.model[n].seq \in Nat /\ seen.delta[n] \in Nat
    BY <1>3, Facts, WorkerFacts DEF Record, Entry, SeenType, Lawful
  <2>5. \A n \in Models : f.delta[n] <= rec'.model[n].seq
    BY <1>3, <2>2, <2>4 DEF CompareInv, Heard, Lawful
  <2>6. \A n \in Models : f.model[n] = CASE worker'[n].result = "completed" -> "done"
                                         [] worker'[n].result = "failed" -> "error"
                                         [] worker'[n].result = "none" -> "none"
    <3>1. f.model[m] = CASE worker'[m].result = "completed" -> "done"
                         [] worker'[m].result = "failed" -> "error"
                         [] worker'[m].result = "none" -> "none"
      BY <2>1, <2>2 DEF Word, Verdict
    <3>2. ASSUME NEW n \in Models, n # m
          PROVE  f.model[n] = CASE worker'[n].result = "completed" -> "done"
                                [] worker'[n].result = "failed" -> "error"
                                [] worker'[n].result = "none" -> "none"
      BY <2>1, <2>2, <3>2 DEF CompareInv, Heard
    <3> QED BY <3>1, <3>2
  <2>7. Heard'
    BY <2>3, <2>5, <2>6 DEF Heard
  <2>8. run' \in RunType /\ run'.pc = "models"
    BY <1>4, Facts
  <2> QED BY <1>3, <2>1, <2>2, <2>3, <2>7, <2>8, WorkerKeeps
<1>5. CASE ~ok
  BY <1>3, <1>5, WorkerFails
<1> QED BY <1>4, <1>5

LEMMA ModelDoneStep == ASSUME CompareInv, NEW m \in Models, ModelDone(m) PROVE CompareInv'
<1>1. PICK ok \in BOOLEAN :
        /\ Store(CanMarkModelDone(rec, Me, m, worker[m].seq, now), MarkModelDone(rec, m, now), Cut, ok)
        /\ IF ok THEN worker' = Result(m, "completed") /\ Frame([seen EXCEPT !.model[m] = "done"]) /\ UNCHANGED run
                 ELSE worker' = [worker EXCEPT ![m].at = "ended"] /\ Fatal /\ UNCHANGED seen
  BY DEF ModelDone
<1>2. run.pc = "models" /\ UNCHANGED <<now, receipt, cancel>>
  BY DEF ModelDone, Streaming
<1> DEFINE can == CanMarkModelDone(rec, Me, m, worker[m].seq, now)
<1>3. can => rec.state = "running"
  BY DEF CanMarkModelDone
<1>4. Store(can, Stamp([rec EXCEPT !.model[m].state = "completed"], now), Cut, ok)
  BY <1>1 DEF MarkModelDone
<1> HIDE DEF can
<1>5. PICK e \in Verdict : e = "completed"
  BY DEF Verdict
<1>6. Word(e) = "done"
  BY <1>5 DEF Word
<1>7. Store(can, Stamp([rec EXCEPT !.model[m].state = e], now), Cut, ok)
  BY <1>4, <1>5
<1>8. IF ok THEN worker' = Result(m, e) /\ Frame([seen EXCEPT !.model[m] = Word(e)]) /\ UNCHANGED run
            ELSE worker' = [worker EXCEPT ![m].at = "ended"] /\ Fatal /\ UNCHANGED seen
  BY <1>1, <1>5, <1>6
<1> QED BY <1>2, <1>3, <1>7, <1>8, ModelEnds

LEMMA FailModelStep == ASSUME CompareInv, NEW m \in Models, FailModel(m) PROVE CompareInv'
<1>1. PICK ok \in BOOLEAN :
        /\ Store(CanMarkModelFailed(rec, Me, m, now), MarkModelFailed(rec, m, now), FALSE, ok)
        /\ IF ok THEN worker' = Result(m, "failed") /\ Frame([seen EXCEPT !.model[m] = "error"]) /\ UNCHANGED run
                 ELSE worker' = [worker EXCEPT ![m].at = "ended"] /\ Fatal /\ UNCHANGED seen
  BY DEF FailModel
<1>2. run.pc = "models" /\ UNCHANGED <<now, receipt, cancel>>
  BY WorkerFacts DEF FailModel
<1> DEFINE can == CanMarkModelFailed(rec, Me, m, now)
<1>3. can => rec.state = "running"
  BY DEF CanMarkModelFailed
<1>4. Store(can, Stamp([rec EXCEPT !.model[m].state = "failed"], now), FALSE, ok)
  BY <1>1 DEF MarkModelFailed
<1> HIDE DEF can
<1>5. PICK e \in Verdict : e = "failed"
  BY DEF Verdict
<1>6. Word(e) = "error"
  BY <1>5 DEF Word
<1>9. PICK cut \in BOOLEAN : ~cut
  OBVIOUS
<1>7. Store(can, Stamp([rec EXCEPT !.model[m].state = e], now), cut, ok)
  BY <1>4, <1>5, <1>9 DEF Store
<1>8. IF ok THEN worker' = Result(m, e) /\ Frame([seen EXCEPT !.model[m] = Word(e)]) /\ UNCHANGED run
            ELSE worker' = [worker EXCEPT ![m].at = "ended"] /\ Fatal /\ UNCHANGED seen
  BY <1>1, <1>5, <1>6
<1> QED BY <1>2, <1>3, <1>7, <1>8, ModelEnds

LEMMA WorkerEndsStep == ASSUME CompareInv, NEW m \in Models, StreamBreaks(m) \/ WorkerQuits(m) PROVE CompareInv'
<1>1. Lawful(rec, rec)
  BY SameLawful, Facts
<1>2. CASE StreamBreaks(m)
  <2>1. PICK a \in Place : worker' = [worker EXCEPT ![m].at = a]
    BY <1>2 DEF StreamBreaks, Place
  <2>2. run.pc = "models" /\ UNCHANGED <<rec, now, run, receipt, seen, cancel>>
    BY <1>2 DEF StreamBreaks, Streaming
  <2>3. worker' \in [Models -> WorkerType] /\ \A n \in Models : worker'[n].result = worker[n].result
    BY <2>1, WorkerGoes
  <2>4. Heard'
    BY <1>1, <2>2, <2>3, HeardStays
  <2> QED BY <1>1, <2>2, <2>3, <2>4, WorkerKeeps, WorkerFacts, Facts
<1>3. CASE WorkerQuits(m)
  <2>1. run.pc = "models"
    BY <1>3, WorkerFacts DEF WorkerQuits
  <2> QED BY <1>1, <1>3, <2>1, WorkerFails DEF WorkerQuits
<1> QED BY <1>2, <1>3

----------------------------------------------------------------------------
(* Cancellation, other servers, time *)

LEMMA CancelToLawful == CompareInv => Lawful(rec, CancelTo)
<1> SUFFICES ASSUME CompareInv PROVE Lawful(rec, CancelTo)
  OBVIOUS
<1>1. rec = Absent => Lawful(rec, Tombstone(now))
  BY BirthLawful, Facts
<1>2. Turnable => Lawful(rec, RequestCancel(rec, now))
  BY ControlLawful, Facts DEF Turnable, CanRequestCancel
<1>3. Lawful(rec, rec)
  BY SameLawful, Facts
<1> QED BY <1>1, <1>2, <1>3 DEF CancelTo

\* What the request knows is what the record came to by its own call.
LEMMA CancelsStep == ASSUME CompareInv, Cancels PROVE CompareInv'
<1>1. PICK ok \in BOOLEAN :
        /\ Store(TRUE, CancelTo, FALSE, ok)
        /\ cancel' = IF ~ok THEN [cancel EXCEPT !.pc = "gone"]
                     ELSE IF CancelTo.state \in Terminal THEN [cancel EXCEPT !.pc = "answered", !.answer = CancelTo.state]
                     ELSE IF CancelTo # rec THEN [cancel EXCEPT !.pc = "callback", !.accepted = TRUE]
                     ELSE IF rec.state = "running" THEN cancel
                     ELSE [cancel EXCEPT !.pc = "polling"]
  BY DEF Cancels
<1>2. UNCHANGED <<now, worker, run, receipt, seen>>
  BY DEF Cancels
<1>3. Lawful(rec, rec') /\ (ok => rec' = CancelTo)
  BY <1>1, CancelToLawful, StoreLawful, Facts
<1>4. cancel \in CancelType /\ Turned /\ rec' \in Record
  BY <1>3 DEF CompareInv, CompareTypes, Lawful
<1>5. CASE cancel' \in {cancel, [cancel EXCEPT !.pc = "gone"], [cancel EXCEPT !.pc = "polling"]}
  <2>1. cancel' \in CancelType /\ cancel'.accepted = cancel.accepted /\ cancel'.answer = cancel.answer
    BY <1>4, <1>5 DEF CancelType
  <2>2. Turned'
    BY <1>3, <1>4, <2>1 DEF Turned, Lawful, Terminal
  <2> QED BY <1>2, <1>3, <2>1, <2>2, StagedStays, ChargedKeeps, Facts
<1>6. CASE ok /\ CancelTo.state \in Terminal /\ cancel' = [cancel EXCEPT !.pc = "answered", !.answer = CancelTo.state]
  <2> DEFINE a == [cancel EXCEPT !.pc = "answered"]
             b == [a EXCEPT !.answer = rec'.state]
  <2>1. a \in CancelType /\ a.accepted = cancel.accepted
    BY <1>4 DEF CancelType
  <2>2. cancel' = b /\ rec'.state \in State
    BY <1>3, <1>4, <1>6 DEF CancelType, Record
  <2> HIDE DEF a
  <2>3. b \in CancelType /\ b.accepted = a.accepted /\ b.answer = rec'.state
    BY <2>1, <2>2 DEF CancelType
  <2> HIDE DEF b
  <2>4. Turned'
    BY <1>3, <1>4, <2>1, <2>2, <2>3 DEF Turned, Lawful, Terminal
  <2> QED BY <1>2, <1>3, <2>2, <2>3, <2>4, StagedStays, ChargedKeeps, Facts
<1>7. CASE ok /\ CancelTo.state \notin Terminal /\ CancelTo # rec
           /\ cancel' = [cancel EXCEPT !.pc = "callback", !.accepted = TRUE]
  <2> DEFINE a == [cancel EXCEPT !.pc = "callback"]
             b == [a EXCEPT !.accepted = TRUE]
  <2>1. a \in CancelType /\ a.answer = cancel.answer
    BY <1>4 DEF CancelType
  <2>2. cancel' = b
    BY <1>4, <1>7 DEF CancelType
  <2> HIDE DEF a
  <2>3. b \in CancelType /\ b.answer = a.answer
    BY <2>1 DEF CancelType
  <2> HIDE DEF b
  <2>4. CancelTo = RequestCancel(rec, now) /\ Turnable
    BY <1>7, BirthLawful, Facts DEF CancelTo, Terminal
  <2>5. rec'.state = "cancelling"
    BY <1>3, <1>7, <2>4, ControlLawful, Facts DEF Turnable, CanRequestCancel
  <2>6. Turned'
    BY <1>3, <1>4, <2>1, <2>2, <2>3, <2>5 DEF Turned, Lawful, Terminal
  <2> QED BY <1>2, <1>3, <2>2, <2>3, <2>6, StagedStays, ChargedKeeps, Facts
<1> QED BY <1>1, <1>5, <1>6, <1>7

LEMMA CallbackStep == ASSUME CompareInv, Callback PROVE CompareInv'
<1>1. UNCHANGED <<rec, now, worker, receipt, seen>> /\ cancel' = [cancel EXCEPT !.pc = "polling"]
  BY DEF Callback
<1>2. run' \in RunType /\ run'.pc = run.pc /\ run'.saw = run.saw
  BY Facts DEF Callback, Cancelled, RunType
<1>3. cancel' \in CancelType /\ cancel'.accepted = cancel.accepted /\ cancel'.answer = cancel.answer
  BY <1>1 DEF CompareInv, CompareTypes, CancelType
<1>4. Lawful(rec, rec')
  BY <1>1, SameLawful, Facts
<1>5. Turned'
  BY <1>1, <1>3 DEF CompareInv, Turned
<1> QED BY <1>1, <1>2, <1>3, <1>4, <1>5, StagedStays, ChargedKeeps, Facts

LEMMA PollsStep == ASSUME CompareInv, Polls PROVE CompareInv'
<1> DEFINE a == [cancel EXCEPT !.pc = "answered"]
           b == [a EXCEPT !.answer = rec.state]
<1>1. UNCHANGED <<rec, now, worker, run, receipt, seen>>
  BY DEF Polls
<1>2. cancel \in CancelType /\ Turned /\ rec.state \in State
  BY Facts DEF CompareInv, CompareTypes, Record
<1>3. a \in CancelType /\ a.accepted = cancel.accepted
  BY <1>2 DEF CancelType
<1>4. cancel' = b
  BY <1>2 DEF Polls, CancelType
<1> HIDE DEF a
<1>5. b \in CancelType /\ b.accepted = a.accepted /\ b.answer = rec.state
  BY <1>2, <1>3 DEF CancelType
<1> HIDE DEF b
<1>6. Turned'
  BY <1>1, <1>2, <1>3, <1>4, <1>5 DEF Turned
<1>7. Lawful(rec, rec')
  BY <1>1, SameLawful, Facts
<1> QED BY <1>1, <1>4, <1>5, <1>6, <1>7, StagedStays, ChargedKeeps, Facts

LEMMA ConvergesStep == ASSUME CompareInv, Converges PROVE CompareInv'
<1>1. UNCHANGED <<now, worker, run, receipt, seen, cancel>>
  BY DEF Converges
<1>2. Lawful(rec, rec')
  BY FailLawful, AcknowledgeLawful, Facts DEF Converges, CanFailExpired, CanConvergeCancelling
<1> QED BY <1>1, <1>2, RunStays, Facts

\* Only a commit that nothing was charged for is failed, and nobody was told of it.
LEMMA ReceiptDecidesStep == ASSUME CompareInv, ReceiptDecides PROVE CompareInv'
<1>1. UNCHANGED <<now, worker, run, receipt, seen, cancel>>
  BY DEF ReceiptDecides
<1>2. CASE CanComplete(rec, ReceiptGuids, now) /\ rec' = Complete(rec, ReceiptGuids, now)
  <2>1. Lawful(rec, rec')
    BY <1>2, CompleteLawful, GuidsType, Facts
  <2> QED BY <1>1, <2>1, RunStays, Facts
<1>3. CASE receipt = NoReceipt /\ CanFailStaleCommit(rec, now) /\ rec' = FailStaleCommit(rec, now)
  <2> USE DEF CompareInv
  <2>1. rec' \in Record /\ rec'.state = "failed" /\ rec'.model = rec.model /\ rec.state = "committing"
    BY <1>3, FailStaleCommitFields, Facts DEF CanFailStaleCommit
  <2>2. CompareTypes'
    BY <1>1, <2>1 DEF CompareTypes
  <2>3. Halted' /\ Closed' /\ Heard'
    BY <1>1, <2>1 DEF Halted, Closed, Heard
  <2>4. Charged' /\ Settled'
    BY <1>1, <1>3, <2>1 DEF Charged, Settled
  <2>5. Staged'
    BY <1>1, <1>3, <2>1 DEF Staged, Results
  <2>6. Turned' /\ Ended'
    BY <1>1, <1>3, <2>1 DEF Turned, Ended, Terminal
  <2> QED BY <2>2, <2>3, <2>4, <2>5, <2>6
<1> QED BY <1>2, <1>3 DEF ReceiptDecides

LEMMA TicksStep == ASSUME CompareInv, Ticks PROVE CompareInv'
<1>1. UNCHANGED <<rec, worker, run, receipt, seen, cancel>> /\ now' \in Nat
  BY Facts DEF Ticks
<1>2. Lawful(rec, rec')
  BY <1>1, SameLawful, Facts
<1> QED BY <1>1, <1>2, RunStays, Facts

LEMMA CompareStutters == ASSUME CompareInv, UNCHANGED compareVars PROVE CompareInv'
<1>1. UNCHANGED <<rec, now, worker, run, receipt, seen, cancel>>
  BY DEF compareVars
<1>2. Lawful(rec, rec')
  BY <1>1, SameLawful, Facts
<1> QED BY <1>1, <1>2, RunStays, Facts

----------------------------------------------------------------------------
(* The theorems *)

LEMMA CompareInitInv == CompareInit => CompareInv
<1> SUFFICES ASSUME CompareInit PROVE CompareInv
  OBVIOUS
<1>1. rec \in Record /\ rec.state = "absent" /\ \A m \in Models : rec.model[m].seq = 0
  BY BirthLawful DEF CompareInit
<1>2. worker \in [Models -> WorkerType] /\ \A m \in Models : worker[m].at = "upstream" /\ worker[m].result = "none"
  BY DEF CompareInit, WorkerType, Place, ResultState
<1>3. run \in RunType /\ run.pc = "idle"
  BY DEF CompareInit, RunType, CoordinatorSteps, State
<1>4. /\ seen \in SeenType /\ seen.end = "none"
      /\ \A m \in Models : seen.model[m] = "none" /\ seen.delta[m] = 0
  BY DEF CompareInit, SeenType
<1>5. cancel \in CancelType /\ ~cancel.accepted /\ cancel.answer = "none"
  BY DEF CompareInit, CancelType
<1>6. now \in Nat /\ receipt = NoReceipt
  BY DEF CompareInit
<1>7. CompareTypes
  BY <1>1, <1>2, <1>3, <1>4, <1>5, <1>6 DEF CompareTypes
<1>8. Halted /\ Closed /\ Heard
  BY <1>1, <1>2, <1>3, <1>4 DEF Halted, Closed, Heard
<1>9. Charged /\ Staged /\ Settled
  BY <1>1, <1>3, <1>6 DEF Charged, Staged, Settled
<1>10. Turned /\ Ended
  BY <1>4, <1>5 DEF Turned, Ended, Terminal
<1> QED BY <1>7, <1>8, <1>9, <1>10 DEF CompareInv

LEMMA CompareStep == CompareInv /\ [CompareNext]_compareVars => CompareInv'
<1> SUFFICES ASSUME CompareInv, [CompareNext]_compareVars PROVE CompareInv'
  OBVIOUS
<1>1. CASE Claims \/ ClaimFindsTombstone \/ SettleOwnedRunning
  BY <1>1, ClaimsStep, ClaimFindsTombstoneStep, SettleOwnedRunningStep
<1>2. ASSUME NEW m \in Models, Delta(m) \/ StreamBreaks(m) \/ ModelDone(m) \/ FailModel(m) \/ WorkerQuits(m)
      PROVE  CompareInv'
  BY <1>2, DeltaStep, ModelDoneStep, FailModelStep, WorkerEndsStep
<1>3. CASE RenewalDue \/ RenewLeases \/ RenewalStops \/ TimesOut
  BY <1>3, RenewalSteps
<1>4. CASE TerminalPhase \/ Judge \/ Committing \/ Finalizes \/ Completes \/ Recovers \/ Reconciles \/ EmitsDone
  BY <1>4, TerminalPhaseStep, JudgeStep, CommittingStep, FinalizesStep, CompletesStep, RecoversStep, ReconcilesStep,
     EmitsDoneStep
<1>5. CASE ConvergeReads \/ ConvergeActs \/ EmitsConvergence
  BY <1>5, ConvergeReadsStep, ConvergeActsStep, EmitsConvergenceStep
<1>6. CASE Cancels \/ Callback \/ Polls \/ Converges \/ ReceiptDecides \/ Ticks
  BY <1>6, CancelsStep, CallbackStep, PollsStep, ConvergesStep, ReceiptDecidesStep, TicksStep
<1>7. CASE UNCHANGED compareVars
  BY <1>7, CompareStutters
<1> QED BY <1>1, <1>2, <1>3, <1>4, <1>5, <1>6, <1>7 DEF CompareNext

\* The inductive invariant of a generation in compare mode (platform_compare_generation.go:330-887).
THEOREM CompareInvariant == CompareSpec => []CompareInv
BY CompareInitInv, CompareStep, PTL DEF CompareSpec

\* A stream that ended "done" belongs to a completed, charged record; one that ended "cancelled" was never
\* charged, and what was charged is never ended otherwise (platform_compare_generation.go:456-531, 684-732).
THEOREM CompareToldAgree == CompareSpec => []ToldAgree
<1>1. CompareInv => ToldAgree
  BY DEF CompareInv, Charged, Ended, ToldAgree
<1> QED BY <1>1, CompareInvariant, PTL

\* Each model is charged as the client was told of it, every frame is backed by the record, and a finished
\* stream has told of every model (platform_compare_generation.go:734-887).
THEOREM CompareModelsToldTruly == CompareSpec => []ModelsToldTruly
<1>1. CompareInv => ModelsToldTruly
  <2> SUFFICES ASSUME CompareInv PROVE ModelsToldTruly
    OBVIOUS
  <2> USE DEF CompareInv
  <2>1. \A m \in Models : seen.delta[m] <= rec.model[m].seq
    BY DEF Heard
  <2>2. ASSUME receipt # NoReceipt, NEW m \in Models
        PROVE  seen.model[m] = (IF receipt[m] = "completed" THEN "done" ELSE "error") /\ seen.model[m] # "none"
    <3>1. receipt[m] = worker[m].result /\ receipt[m] # "none"
      BY <2>2 DEF Charged, Results
    <3>2. worker[m].result \in ResultState
      BY DEF CompareTypes, WorkerType
    <3> QED BY <3>1, <3>2 DEF Heard, ResultState
  <2> QED BY <2>1, <2>2 DEF ModelsToldTruly, Ended
<1> QED BY <1>1, CompareInvariant, PTL

\* A cancel that turned the record over is never followed by a charge, and a final answer to it stays true
\* (platform_generation_control.go:211-355).
THEOREM CompareCancelHolds == CompareSpec => []CancelHolds
<1>1. CompareInv => CancelHolds
  BY DEF CompareInv, Turned, Charged, Ended, CancelHolds
<1> QED BY <1>1, CompareInvariant, PTL

----------------------------------------------------------------------------
(* The promise of GenerationOutcome: how the state of the record moves *)

\* What a step may make of the record's state while the receipt stays as it is: a commit is decided by it.
Follows(r, s) ==
    \/ s = r
    \/ r = "absent" /\ s \in {"running", "cancelled"}
    \/ r = "running" /\ s \in {"cancelling", "committing", "failed"}
    \/ r = "cancelling" /\ s = "cancelled"
    \/ r = "committing" /\ receipt # NoReceipt /\ s = "completed"
    \/ r = "committing" /\ receipt = NoReceipt /\ s = "failed"

\* A call moves the record as it would or not at all.
LEMMA StoreFollows ==
    ASSUME NEW can, NEW next, NEW cut, NEW ok \in BOOLEAN, Store(can, next, cut, ok), can => Follows(rec.state, next.state)
    PROVE  Follows(rec.state, rec'.state)
BY DEF Store, Follows

\* Writes that leave the record running.
LEMMA ModelWritesRun ==
    ASSUME NEW r \in Record, r.state = "running", NEW m \in Models, NEW s \in Nat, NEW t \in Nat
    PROVE  /\ RecordDelta(r, m, s, t).state = "running"
           /\ MarkModelDone(r, m, t).state = "running" /\ MarkModelFailed(r, m, t).state = "running"
<1>1. /\ [r EXCEPT !.model[m].seq = s] \in Record
      /\ [r EXCEPT !.model[m].seq = s].state = "running"
  BY SeqChanges
<1>2. ASSUME NEW e \in ModelState
      PROVE  [r EXCEPT !.model[m].state = e] \in Record /\ [r EXCEPT !.model[m].state = e].state = "running"
  BY StateChanges
<1>3. /\ [r EXCEPT !.model[m].state = "completed"] \in Record /\ [r EXCEPT !.model[m].state = "completed"].state = "running"
      /\ [r EXCEPT !.model[m].state = "failed"] \in Record /\ [r EXCEPT !.model[m].state = "failed"].state = "running"
  BY <1>2 DEF ModelState
<1>4. RecordDelta(r, m, s, t).state = "running"
  BY <1>1, StampFields DEF RecordDelta
<1>5. MarkModelDone(r, m, t).state = "running" /\ MarkModelFailed(r, m, t).state = "running"
  BY <1>3, StampFields DEF MarkModelDone, MarkModelFailed
<1> QED BY <1>4, <1>5

LEMMA BeginCommitCommits ==
    ASSUME NEW r \in Record, NEW t \in Nat
    PROVE  BeginCommit(r, t).state = "committing"
<1>1. [r EXCEPT !.state = "committing"] \in Record /\ [r EXCEPT !.state = "committing"].state = "committing"
  BY DEF Record, State
<1> QED BY <1>1, StampFields DEF BeginCommit

\* The goroutines of the models keep the record running.
LEMMA WorkersFollow ==
    ASSUME CompareInv, NEW m \in Models, Delta(m) \/ StreamBreaks(m) \/ ModelDone(m) \/ FailModel(m) \/ WorkerQuits(m)
    PROVE  Follows(rec.state, rec'.state)
<1>1. CASE StreamBreaks(m) \/ WorkerQuits(m)
  BY <1>1 DEF StreamBreaks, WorkerQuits, Follows
<1>2. CASE Delta(m)
  <2>1. PICK ok \in BOOLEAN : Store(CanRecordDelta(rec, Me, m, worker[m].seq + 1, now),
                                    RecordDelta(rec, m, worker[m].seq + 1, now), Cut, ok)
    BY <1>2 DEF Delta
  <2>2. worker[m].seq + 1 \in Nat
    BY WorkerFacts
  <2>3. CanRecordDelta(rec, Me, m, worker[m].seq + 1, now) =>
            Follows(rec.state, RecordDelta(rec, m, worker[m].seq + 1, now).state)
    BY <2>2, ModelWritesRun, Facts DEF CanRecordDelta, Follows
  <2> QED BY <2>1, <2>3, StoreFollows
<1>3. CASE ModelDone(m)
  <2>1. PICK ok \in BOOLEAN : Store(CanMarkModelDone(rec, Me, m, worker[m].seq, now), MarkModelDone(rec, m, now), Cut, ok)
    BY <1>3 DEF ModelDone
  <2>2. CanMarkModelDone(rec, Me, m, worker[m].seq, now) => Follows(rec.state, MarkModelDone(rec, m, now).state)
    BY ModelWritesRun, Facts DEF CanMarkModelDone, Follows
  <2> QED BY <2>1, <2>2, StoreFollows
<1>4. CASE FailModel(m)
  <2>1. PICK ok \in BOOLEAN : Store(CanMarkModelFailed(rec, Me, m, now), MarkModelFailed(rec, m, now), FALSE, ok)
    BY <1>4 DEF FailModel
  <2>2. CanMarkModelFailed(rec, Me, m, now) => Follows(rec.state, MarkModelFailed(rec, m, now).state)
    BY ModelWritesRun, Facts DEF CanMarkModelFailed, Follows
  <2> QED BY <2>1, <2>2, StoreFollows
<1> QED BY <1>1, <1>2, <1>3, <1>4

\* Claims, settling, renewals, a failure and its acknowledgement.
LEMMA EntryFollows ==
    ASSUME CompareInv, Claims \/ ClaimFindsTombstone \/ SettleOwnedRunning \/ RenewLeases \/ ConvergeActs
    PROVE  Follows(rec.state, rec'.state)
<1>0. run.rt \in Nat
  BY Facts DEF RunType
<1>1. CASE Claims
  <2>1. PICK ok \in BOOLEAN : Store(rec = Absent, NewRunning(Me, now), FALSE, ok)
    BY <1>1 DEF Claims
  <2>2. rec = Absent => Follows(rec.state, NewRunning(Me, now).state)
    BY DEF Absent, NewRunning, Follows
  <2> QED BY <2>1, <2>2, StoreFollows
<1>2. CASE ClaimFindsTombstone
  <2>1. PICK ok \in BOOLEAN : Store(TRUE, Enriched(rec), FALSE, ok)
    BY <1>2 DEF ClaimFindsTombstone
  <2>2. Enriched(rec).state = rec.state
    BY Facts DEF Enriched, Record
  <2>3. Follows(rec.state, Enriched(rec).state)
    BY <2>2 DEF Follows
  <2> QED BY <2>1, <2>3, StoreFollows
<1>3. CASE SettleOwnedRunning
  <2>1. PICK ok \in BOOLEAN : Store(CanFailRunning(rec, Me, now), Fail(rec, now), FALSE, ok)
    BY <1>3 DEF SettleOwnedRunning
  <2>2. CanFailRunning(rec, Me, now) => Follows(rec.state, Fail(rec, now).state)
    BY FailLawful, Facts DEF CanFailRunning, Follows
  <2> QED BY <2>1, <2>2, StoreFollows
<1>4. CASE RenewLeases
  <2>1. PICK ok \in BOOLEAN : Store(CanRenewLease(rec, Me, run.rt), RenewLease(rec, run.rt), Cut, ok)
    BY <1>4 DEF RenewLeases
  <2>2. CanRenewLease(rec, Me, run.rt) => Follows(rec.state, RenewLease(rec, run.rt).state)
    BY <1>0, ControlLawful, Facts DEF CanRenewLease, RunningLeaseAuthorized, Follows
  <2> QED BY <2>1, <2>2, StoreFollows
<1>5. CASE ConvergeActs
  <2>1. PICK ok \in BOOLEAN :
          IF run.saw = "running" THEN Store(CanFailRunning(rec, Me, now), Fail(rec, now), FALSE, ok)
          ELSE Store(CanAcknowledgeCancelled(rec, Me, now), AcknowledgeCancelled(rec, now), FALSE, ok)
    BY <1>5 DEF ConvergeActs
  <2>2. CanFailRunning(rec, Me, now) => Follows(rec.state, Fail(rec, now).state)
    BY FailLawful, Facts DEF CanFailRunning, Follows
  <2>3. CanAcknowledgeCancelled(rec, Me, now) => Follows(rec.state, AcknowledgeCancelled(rec, now).state)
    BY AcknowledgeLawful, Facts DEF CanAcknowledgeCancelled, Follows
  <2> QED BY <2>1, <2>2, <2>3, StoreFollows
<1> QED BY <1>1, <1>2, <1>3, <1>4, <1>5

\* The coordinator completes a record only when it holds the receipt.
LEMMA CommitFollows ==
    ASSUME CompareInv, Committing \/ Completes \/ Reconciles
    PROVE  Follows(rec.state, rec'.state)
<1>1. CanComplete(rec, ReceiptGuids, now) => rec.state = "committing" /\ Complete(rec, ReceiptGuids, now).state = "completed"
  BY CompleteLawful, GuidsType, Facts DEF CanComplete
<1>2. CASE Committing
  <2>1. PICK ok \in BOOLEAN : Store(CanBeginCommit(rec, Me, now), BeginCommit(rec, now), Cut, ok)
    BY <1>2 DEF Committing
  <2>2. CanBeginCommit(rec, Me, now) => Follows(rec.state, BeginCommit(rec, now).state)
    BY BeginCommitCommits, Facts DEF CanBeginCommit, Follows
  <2> QED BY <2>1, <2>2, StoreFollows
<1>3. CASE Completes
  <2>1. PICK ok \in BOOLEAN : Store(CanComplete(rec, ReceiptGuids, now), Complete(rec, ReceiptGuids, now), Cut, ok)
    BY <1>3 DEF Completes
  <2>2. receipt # NoReceipt
    BY <1>3, ResultsType DEF Completes, CompareInv, Staged
  <2>3. CanComplete(rec, ReceiptGuids, now) => Follows(rec.state, Complete(rec, ReceiptGuids, now).state)
    BY <1>1, <2>2 DEF Follows
  <2> QED BY <2>1, <2>3, StoreFollows
<1>4. CASE Reconciles
  <2> DEFINE can == AlreadyCompleted \/ CanComplete(rec, ReceiptGuids, now)
             next == IF AlreadyCompleted THEN rec ELSE Complete(rec, ReceiptGuids, now)
  <2>1. PICK ok \in BOOLEAN : Store(can, next, FALSE, ok)
    BY <1>4 DEF Reconciles
  <2>2. receipt # NoReceipt
    BY <1>4, ResultsType DEF Reconciles, CompareInv, Staged
  <2>3. can => Follows(rec.state, next.state)
    BY <1>1, <2>2 DEF Follows
  <2> HIDE DEF can, next
  <2> QED BY <2>1, <2>3, StoreFollows
<1> QED BY <1>2, <1>3, <1>4

\* A cancel and the other servers: without a receipt a commit fails, with one it completes.
LEMMA OthersFollow ==
    ASSUME CompareInv, Cancels \/ Converges \/ ReceiptDecides
    PROVE  Follows(rec.state, rec'.state)
<1>1. CASE Cancels
  <2>1. PICK ok \in BOOLEAN : Store(TRUE, CancelTo, FALSE, ok)
    BY <1>1 DEF Cancels
  <2>2. Follows(rec.state, CancelTo.state)
    <3>1. rec = Absent => rec.state = "absent" /\ Tombstone(now).state = "cancelled"
      BY BirthLawful, Facts
    <3>2. Turnable => rec.state = "running" /\ RequestCancel(rec, now).state = "cancelling"
      BY ControlLawful, Facts DEF Turnable, CanRequestCancel
    <3> QED BY <3>1, <3>2 DEF CancelTo, Follows
  <2> QED BY <2>1, <2>2, StoreFollows
<1>2. CASE Converges
  BY <1>2, FailLawful, AcknowledgeLawful, Facts DEF Converges, CanFailExpired, CanConvergeCancelling, Follows
<1>3. CASE ReceiptDecides
  <2>1. CanComplete(rec, ReceiptGuids, now) => rec.state = "committing" /\ Complete(rec, ReceiptGuids, now).state = "completed"
    BY CompleteLawful, GuidsType, Facts DEF CanComplete
  <2>2. CanFailStaleCommit(rec, now) => rec.state = "committing" /\ FailStaleCommit(rec, now).state = "failed"
    BY FailStaleCommitFields, Facts DEF CanFailStaleCommit
  <2> QED BY <1>3, <2>1, <2>2 DEF ReceiptDecides, Follows
<1> QED BY <1>1, <1>2, <1>3

\* What a step does to the record and the charge, one of them at a time.
LEMMA ChargeOrRecord ==
    ASSUME CompareInv, [CompareNext]_compareVars
    PROVE  \/ rec' = rec /\ rec.state = "committing" /\ receipt = NoReceipt /\ receipt' # NoReceipt
           \/ receipt' = receipt /\ Follows(rec.state, rec'.state)
<1>1. CASE Finalizes
  <2>1. rec' = rec /\ ((receipt' = Results /\ Chargeable) \/ receipt' = receipt)
    BY <1>1 DEF Finalizes
  <2>2. Results # NoReceipt
    BY ResultsType DEF CompareInv
  <2> QED BY <2>1, <2>2 DEF Chargeable, Follows
<1>2. ASSUME NEW m \in Models, Delta(m) \/ StreamBreaks(m) \/ ModelDone(m) \/ FailModel(m) \/ WorkerQuits(m)
      PROVE  receipt' = receipt /\ Follows(rec.state, rec'.state)
  <2>1. receipt' = receipt
    BY <1>2 DEF Delta, StreamBreaks, ModelDone, FailModel, WorkerQuits
  <2> QED BY <1>2, <2>1, WorkersFollow
<1>3. CASE Claims \/ ClaimFindsTombstone \/ SettleOwnedRunning \/ RenewLeases \/ ConvergeActs
  <2>1. receipt' = receipt
    BY <1>3 DEF Claims, ClaimFindsTombstone, SettleOwnedRunning, RenewLeases, ConvergeActs
  <2> QED BY <1>3, <2>1, EntryFollows
<1>4. CASE Committing \/ Completes \/ Reconciles
  <2>1. receipt' = receipt
    BY <1>4 DEF Committing, Completes, Reconciles
  <2> QED BY <1>4, <2>1, CommitFollows
<1>5. CASE Cancels \/ Converges \/ ReceiptDecides
  <2>1. receipt' = receipt
    BY <1>5 DEF Cancels, Converges, ReceiptDecides
  <2> QED BY <1>5, <2>1, OthersFollow
<1>6. CASE \/ RenewalDue \/ RenewalStops \/ TimesOut \/ TerminalPhase \/ Judge \/ Recovers \/ EmitsDone
           \/ ConvergeReads \/ EmitsConvergence \/ Callback \/ Polls \/ Ticks \/ UNCHANGED compareVars
  <2>1. UNCHANGED <<rec, receipt>>
    BY <1>6 DEF RenewalDue, RenewalStops, TimesOut, TerminalPhase, Judge, Recovers, EmitsDone, ConvergeReads,
       EmitsConvergence, Callback, Polls, Ticks, compareVars
  <2> QED BY <2>1 DEF Follows
<1> QED BY <1>1, <1>2, <1>3, <1>4, <1>5, <1>6 DEF CompareNext

PhaseOf(s) ==
    CASE s = "absent"     -> "none"
      [] s = "running"    -> "open"
      [] s = "cancelling" -> "stopping"
      [] s = "committing" -> "deciding"
      [] s = "completed"  -> "published"
      [] OTHER            -> "dead"

LEMMA Phases ==
    /\ PhaseOf("absent") = "none" /\ PhaseOf("running") = "open" /\ PhaseOf("cancelling") = "stopping"
    /\ PhaseOf("committing") = "deciding" /\ PhaseOf("completed") = "published"
    /\ PhaseOf("cancelled") = "dead" /\ PhaseOf("failed") = "dead"
    /\ Phase = PhaseOf(rec.state) /\ Phase' = PhaseOf(rec'.state)
BY DEF PhaseOf, Phase

\* Every step is one of GenerationOutcome's or leaves phase and charge alone.
LEMMA OutcomeStep ==
    ASSUME CompareInv, [CompareNext]_compareVars
    PROVE  Outcome!OutcomeNext \/ UNCHANGED <<Phase, receipt # NoReceipt>>
<1>1. CASE rec' = rec /\ rec.state = "committing" /\ receipt = NoReceipt /\ receipt' # NoReceipt
  <2>1. Outcome!Charge
    BY <1>1, Phases DEF Outcome!Charge
  <2> QED BY <2>1 DEF Outcome!OutcomeNext
<1>2. ASSUME receipt' = receipt, Follows(rec.state, rec'.state)
      PROVE  Outcome!OutcomeNext \/ UNCHANGED <<Phase, receipt # NoReceipt>>
  <2>0. (receipt # NoReceipt)' = (receipt # NoReceipt)
    BY <1>2
  <2>1. CASE rec'.state = rec.state
    BY <2>0, <2>1, Phases
  <2>2. CASE rec.state = "absent" /\ rec'.state \in {"running", "cancelled"}
    <3>1. Outcome!Open \/ Outcome!Withdraw
      BY <2>0, <2>2, Phases DEF Outcome!Open, Outcome!Withdraw
    <3> QED BY <3>1 DEF Outcome!OutcomeNext
  <2>3. CASE rec.state = "running" /\ rec'.state \in {"cancelling", "committing", "failed"}
    <3>1. Outcome!Stop \/ Outcome!Commit \/ Outcome!Die
      BY <2>0, <2>3, Phases DEF Outcome!Stop, Outcome!Commit, Outcome!Die
    <3> QED BY <3>1 DEF Outcome!OutcomeNext
  <2>4. CASE rec.state = "cancelling" /\ rec'.state = "cancelled"
    <3>1. Outcome!Die
      BY <2>0, <2>4, Phases DEF Outcome!Die
    <3> QED BY <3>1 DEF Outcome!OutcomeNext
  <2>5. CASE rec.state = "committing" /\ receipt # NoReceipt /\ rec'.state = "completed"
    <3>1. Outcome!Publish
      BY <2>0, <2>5, Phases DEF Outcome!Publish
    <3> QED BY <3>1 DEF Outcome!OutcomeNext
  <2>6. CASE rec.state = "committing" /\ receipt = NoReceipt /\ rec'.state = "failed"
    <3>1. Outcome!GiveUp
      BY <2>0, <2>6, Phases DEF Outcome!GiveUp
    <3> QED BY <3>1 DEF Outcome!OutcomeNext
  <2> QED BY <1>2, <2>1, <2>2, <2>3, <2>4, <2>5, <2>6 DEF Follows
<1> QED BY <1>1, <1>2, ChargeOrRecord

\* For any models, clock and number of lost calls, a comparison implements GenerationOutcome: its models are
\* charged together, once at most and only while the commit is decided, the record completes only after that,
\* and one that ends cancelled or failed was never charged (platform_compare_generation.go:628-710).
THEOREM CompareKeepsPromise == CompareSpec => ComparePromise
<1>1. CompareInit => Outcome!OutcomeInit
  <2> SUFFICES ASSUME CompareInit PROVE Outcome!OutcomeInit
    OBVIOUS
  <2>1. rec.state = "absent" /\ receipt = NoReceipt
    BY DEF CompareInit, Absent
  <2> QED BY <2>1 DEF Phase, Outcome!OutcomeInit
<1>2. CompareInv /\ [CompareNext]_compareVars => [Outcome!OutcomeNext]_(Outcome!outcomeVars)
  BY OutcomeStep DEF Outcome!outcomeVars
<1> QED BY <1>1, <1>2, CompareInvariant, PTL DEF CompareSpec, ComparePromise, Outcome!OutcomeSpec
=============================================================================
