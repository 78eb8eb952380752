------------------------- MODULE PublicPublication -------------------------
(***************************************************************************)
(* The public catalogue and site (service/public_price_snapshot.go,        *)
(* public_content.go, public_home_content.go, public_model_admin.go,       *)
(* public_admin_prerequisites.go, upstream_price_monitor.go).  Root edits  *)
(* two drafts and publishes them as a bound pair, a price snapshot and a   *)
(* content release; the monitor watches the upstream catalogue and takes   *)
(* removed models out on its own.  A transaction is a step: all of them    *)
(* lock the draft's row, and publishing the publication state's too.       *)
(* Prices are one number, 0 for none; wording and metadata are left out.   *)
(***************************************************************************)
EXTENDS Naturals, FiniteSets, Sequences

CONSTANTS Listed,        \* models upstream may offer and Root may list
          MaxPrice,      \* prices are 0..MaxPrice
          Bodies,        \* a subset of {"plain", "blank", "link", "html"}
          News, Questions, \* announcements and FAQ entries
          Posts,         \* publications and restorations Root asks for
          Monitors,      \* servers that run the monitor
          NoAuthor,       \* no owner, no author
          StrikeLimit,   \* absences before a model is removed (3)
          MaxSnapshots,  \* bound: snapshots and releases
          Budgets        \* bounds: each is how often the drafts of prices and of content may
                         \* change, how many observations are made, and by which servers

ASSUME PublicationAssumption ==
    /\ {MaxPrice, StrikeLimit} \subseteq Nat \ {0} /\ MaxSnapshots \in Nat
    /\ Budgets \subseteq [prices : Nat, content : Nat, looks : Nat, servers : SUBSET Monitors]
    /\ Bodies \subseteq {"plain", "blank", "link", "html"} /\ "plain" \in Bodies
    /\ NoAuthor \notin Posts \cup Monitors

VARIABLES model,       \* public_model_configs
          priceRev,    \* revision of the price draft
          content,     \* the content draft with its rows
          snapshots, releases, current,  \* published, and the pointer to the pair
          post,        \* Root's requests
          looked,      \* observations made so far; they are the clock
          seenAt,      \* upstream_model_observations: when a model was last seen
          monitor, lease, intent,  \* the monitor's runs, its lease, the alert "safety"
          missed,      \* history: absences in a row since a model was last seen
          budget       \* which of the bounds this behaviour has

draftVars == <<model, priceRev, content>>
publishedVars == <<snapshots, releases, current>>
monitorVars == <<looked, seenAt, monitor, lease, intent, missed, budget>>
publicVars == <<draftVars, publishedVars, post, monitorVars>>

Unlisted == [status |-> "none", price |-> 0, strikes |-> 0, checked |-> 0, removed |-> FALSE]
FirstContent == [rev |-> 1, body |-> "plain", reviewed |-> FALSE, featured |-> {}, news |-> [n \in News \cup Questions |-> "none"]]
NothingPublished == [price |-> 0, content |-> 0]
NoPost == [op |-> "none", expected |-> 0, source |-> 0, seen |-> {}, made |-> 0, bound |-> {}, answer |-> "none"]
NoRun == [at |-> "idle", time |-> 0, absent |-> {}]

Exists(m) == model[m].status \notin {"none", "deleted"}
Active == {m \in Listed : model[m].status = "active"}
Draft == [m \in Active |-> [price |-> model[m].price, checked |-> model[m].checked]]
PricesOf(items) == {<<m, items[m].price>> : m \in DOMAIN items}

\* A catalogue with models listed earlier; the site is online or nothing is published yet.
PublicInit ==
    /\ model \in [Listed -> {Unlisted, [Unlisted EXCEPT !.status = "active", !.price = MaxPrice]}]
    /\ priceRev = 1 /\ content = [FirstContent EXCEPT !.reviewed = TRUE]
    /\ \/ snapshots = <<>> /\ releases = <<>> /\ current = NothingPublished
       \/ /\ Active # {} /\ snapshots = <<[items |-> Draft, by |-> NoAuthor]>>
          /\ \E F \in SUBSET Active :
                 releases = <<[price |-> 1, body |-> "plain", featured |-> F, news |-> {}, by |-> NoAuthor]>>
          /\ current = [price |-> 1, content |-> 1]
    /\ post = [p \in Posts |-> NoPost]
    /\ looked = 0 /\ seenAt = [m \in Listed |-> 0] /\ monitor = [w \in Monitors |-> NoRun]
    /\ lease = [owner |-> NoAuthor, until |-> "past"] /\ intent = FALSE
    /\ missed = [m \in Listed |-> 0] /\ budget \in Budgets

----------------------------------------------------------------------------
(* The price draft: the configured models *)

\* Mutant: what the monitor changes is not a new revision.
Advanced_Root(by) == IF by = "root" THEN priceRev + 1 ELSE priceRev

Advanced(by) == priceRev + 1

\* Every mutation by Root is one transaction that also advances the revision.
Changes(m, row) ==
    /\ Exists(m) /\ priceRev <= budget.prices
    /\ model' = [model EXCEPT ![m] = row] /\ priceRev' = Advanced("root")
    /\ UNCHANGED <<content, publishedVars, post, monitorVars>>

\* Needs an observation of the model within ten minutes; an identity is never reused.
Creates(m) ==
    /\ model[m].status = "none" /\ priceRev <= budget.prices
    /\ seenAt[m] # 0
    /\ \E p \in 0..MaxPrice : model' = [model EXCEPT ![m] = [Unlisted EXCEPT !.status = "draft", !.price = p, !.checked = seenAt[m]]]
    /\ priceRev' = Advanced("root")
    /\ UNCHANGED <<content, publishedVars, post, monitorVars>>

Updates(m) == \E p \in 0..MaxPrice : Changes(m, [model[m] EXCEPT !.price = p])
Activates(m) == Changes(m, [model[m] EXCEPT !.status = "active", !.removed = FALSE])
Deactivates(m) == Changes(m, [model[m] EXCEPT !.status = "inactive", !.removed = FALSE])
Deletes(m) == Changes(m, [model[m] EXCEPT !.status = "deleted", !.removed = FALSE])

\* The page saves every price at once, under the revision it showed.
SavesPrices ==
    /\ priceRev <= budget.prices
    /\ \E f \in [{m \in Listed : Exists(m)} -> 0..MaxPrice] :
           model' = [m \in Listed |-> IF Exists(m) THEN [model[m] EXCEPT !.price = f[m]] ELSE model[m]]
    /\ priceRev' = Advanced("root")
    /\ UNCHANGED <<content, publishedVars, post, monitorVars>>

ModelPages == \E m \in Listed : Creates(m) \/ Updates(m) \/ Activates(m) \/ Deactivates(m) \/ Deletes(m)

----------------------------------------------------------------------------
(* The content draft: documents, announcements and questions, featured models *)

\* Every edit names the revision it was made from and advances it.
Edits(c) ==
    /\ content.rev <= budget.content
    /\ content' = [c EXCEPT !.rev = content.rev + 1]
    /\ UNCHANGED <<model, priceRev, publishedVars, post, monitorVars>>

SavesDraft == \E b \in Bodies, ok \in BOOLEAN : Edits([content EXCEPT !.body = b, !.reviewed = ok])
SavesDocuments == \E ok \in BOOLEAN : Edits([content EXCEPT !.reviewed = ok])
\* An entry's state moves from one of one set to one of another, within the size of the draft.
HomeEntry(n, from, to) ==
    /\ content.news[n] \in from
    /\ \E s \in to : Edits([content EXCEPT !.news[n] = s])

AddsNews == \E n \in News : HomeEntry(n, {"none"}, {"shown", "hidden"})
UpdatesNews == \E n \in News : HomeEntry(n, {"shown", "hidden"}, {"shown", "hidden"})
DeletesNews == \E n \in News : HomeEntry(n, {"shown", "hidden"}, {"gone"})
AddsFAQ == \E n \in Questions : HomeEntry(n, {"none"}, {"shown", "hidden"})
UpdatesFAQ == \E n \in Questions : HomeEntry(n, {"shown", "hidden"}, {"shown", "hidden"})
DeletesFAQ == \E n \in Questions : HomeEntry(n, {"shown", "hidden"}, {"gone"})
ReplacesFeatured == \E F \in SUBSET Active : Edits([content EXCEPT !.featured = F])

NewsPages == AddsNews \/ UpdatesNews \/ DeletesNews
HomePages == SavesDocuments \/ ReplacesFeatured \/ AddsFAQ \/ UpdatesFAQ \/ DeletesFAQ

----------------------------------------------------------------------------
(* What may be published *)

UnsafeLink(b) == b = "link"
UnsafeHTML(b) == b = "html"
Blank(b) == b = "blank"
Sanitary(b) == ~UnsafeLink(b) /\ ~UnsafeHTML(b) /\ ~Blank(b)

\* A release can stand beside these prices if they price what it features.
Fits(r, items) == \A m \in releases[r].featured : m \in DOMAIN items /\ items[m].price # 0

Rebound(r, s) == [releases[r] EXCEPT !.price = s]

\* The current snapshot's items whose models are active and priced in the draft.
Items == IF current.price = 0 THEN [m \in {} |-> {}] ELSE snapshots[current.price].items
Eligible == {m \in DOMAIN Items \cap Active : model[m].price # 0}
Shown == {n \in News \cup Questions : content.news[n] = "shown"}

ContentValid ==
    /\ content.reviewed /\ Sanitary(content.body)
    /\ content.featured \subseteq Eligible
    /\ \A m \in Eligible : Items[m].price # 0

\* A restored release loses what was deleted since and models no longer active.
RestoredContent(r) ==
    [releases[r] EXCEPT !.price = current.price, !.news = {n \in releases[r].news : content.news[n] # "gone"},
                        !.featured = releases[r].featured \cap Active]

\* A price snapshot becomes current, and with it the current content, bound anew.
PricesCommit(items, author) ==
    LET s == Len(snapshots) + 1
        c == current.content IN
    /\ s <= MaxSnapshots
    /\ snapshots' = Append(snapshots, [items |-> items, by |-> author])
    /\ IF c = 0 THEN current' = [current EXCEPT !.price = s] /\ UNCHANGED releases
       ELSE /\ Len(releases) < MaxSnapshots
            /\ releases' = Append(releases, [Rebound(c, s) EXCEPT !.by = author])
            /\ current' = [price |-> s, content |-> Len(releases) + 1]

----------------------------------------------------------------------------
(* Root's publications.  A request carries an idempotency key, the draft's *)
(* revision and a ticket for exactly it; a lost answer is asked for again. *)

\* Root reviews a draft or a published version and takes a ticket for the request.
Reviews(p) ==
    /\ post[p].op = "none"
    /\ \E q \in {[op |-> "prices", expected |-> priceRev, source |-> 0, seen |-> PricesOf(Draft)],
                 [op |-> "content", expected |-> content.rev, source |-> current.price,
                  seen |-> [body |-> content.body, featured |-> content.featured, news |-> Shown]]}
               \cup {[op |-> "restorePrices", expected |-> priceRev, source |-> s,
                      seen |-> PricesOf(snapshots[s].items)] : s \in DOMAIN snapshots}
               \cup {[op |-> "restoreContent", expected |-> content.rev, source |-> r, seen |-> releases[r].body] : r \in DOMAIN releases} :
           /\ q.op = "content" => q.source # 0
           /\ post' = [post EXCEPT ![p] = [NoPost EXCEPT !.op = q.op, !.expected = q.expected, !.source = q.source, !.seen = q.seen]]
    /\ UNCHANGED <<draftVars, publishedVars, monitorVars>>

Candidate(p) == IF post[p].op = "prices" THEN Draft ELSE snapshots[post[p].source].items

\* Restoring needs every model of the old snapshot active.
Prepared(p) == DOMAIN Candidate(p) # {} /\ DOMAIN Candidate(p) \subseteq Active

\* Mutant: the audit of the earlier commit is not looked up.
Found_Never(p) == FALSE

Found(p) == post[p].made # 0

\* The answer may be lost; a request is sent again until one arrives.
Answered(p, row, result) ==
    \E a \in {"none", result} : post' = [post EXCEPT ![p] = [row EXCEPT !.answer = a]]

Refuses(p) == post' = [post EXCEPT ![p].answer = "refused"] /\ UNCHANGED <<draftVars, publishedVars>>
Repeats(p) == Answered(p, post[p], "made") /\ UNCHANGED <<draftVars, publishedVars>>

PricesAccepted(p) ==
    /\ post[p].expected = priceRev
    /\ current.content # 0 => Fits(current.content, Candidate(p))

\* Restored prices are written back to the models, the check times too; other models go inactive.
RestoresModels(items) ==
    /\ model' = [m \in Listed |->
                   IF m \in DOMAIN items THEN [model[m] EXCEPT !.price = items[m].price, !.checked = items[m].checked]
                   ELSE IF m \in Active THEN [model[m] EXCEPT !.status = "inactive", !.removed = FALSE] ELSE model[m]]
    /\ priceRev <= budget.prices /\ priceRev' = Advanced("root")

CommitsPrices(p) ==
    /\ PricesCommit(Candidate(p), p)
    /\ IF post[p].op = "prices" THEN UNCHANGED <<model, priceRev>> ELSE RestoresModels(Candidate(p))
    /\ Answered(p, [post[p] EXCEPT !.made = Len(snapshots) + 1, !.bound = Candidate(p)], "made")
    /\ UNCHANGED content

\* The key is looked up after the candidate was prepared and is bound to it.
PostsPrices(p) ==
    /\ post[p].op \in {"prices", "restorePrices"} /\ post[p].answer = "none"
    /\ \/ Prepared(p) /\ Found(p) /\ post[p].bound = Candidate(p) /\ Repeats(p)
       \/ Prepared(p) /\ ~Found(p) /\ PricesAccepted(p) /\ CommitsPrices(p)
       \/ (Prepared(p) /\ Found(p) => post[p].bound # Candidate(p))
          /\ ~(Prepared(p) /\ ~Found(p) /\ PricesAccepted(p)) /\ Refuses(p)
    /\ UNCHANGED monitorVars

ContentAccepted(p) ==
    /\ post[p].expected = content.rev /\ current.price # 0
    /\ IF post[p].op = "content" THEN post[p].source = current.price /\ ContentValid
       ELSE RestoredContent(post[p].source).featured \subseteq {m \in Eligible : Items[m].price # 0}

CommitsContent(p) ==
    LET r == Len(releases) + 1 IN
    /\ r <= MaxSnapshots
    /\ releases' = Append(releases, IF post[p].op = "content"
                                    THEN [price |-> current.price, body |-> content.body, featured |-> content.featured, news |-> Shown, by |-> p]
                                    ELSE [RestoredContent(post[p].source) EXCEPT !.by = p])
    /\ current' = [current EXCEPT !.content = r]
    /\ IF post[p].op = "content" THEN UNCHANGED content
       ELSE content.rev <= budget.content /\ content' = [content EXCEPT !.rev = @ + 1, !.body = releases[post[p].source].body, !.reviewed = TRUE]
    /\ Answered(p, [post[p] EXCEPT !.made = r], "made")
    /\ UNCHANGED <<model, priceRev, snapshots>>

\* Here the key is looked up first and bound to the request alone.
PostsContent(p) ==
    /\ post[p].op \in {"content", "restoreContent"} /\ post[p].answer = "none"
    /\ \/ Found(p) /\ Repeats(p)
       \/ ~Found(p) /\ ContentAccepted(p) /\ CommitsContent(p)
       \/ ~Found(p) /\ ~ContentAccepted(p) /\ Refuses(p)
    /\ UNCHANGED monitorVars

----------------------------------------------------------------------------
(* The monitor *)

Owns(w) == lease.owner = w /\ lease.until = "ahead"
Freed(w) == IF lease.owner = w THEN [owner |-> NoAuthor, until |-> "past"] ELSE lease

\* Every minute, or when Root asks for a synchronisation.
Acquires(w) ==
    /\ monitor[w].at = "idle" /\ w \in budget.servers /\ looked < budget.looks
    /\ lease.owner = NoAuthor \/ lease.until # "ahead"
    /\ lease' = [owner |-> w, until |-> "ahead"]
    /\ monitor' = [monitor EXCEPT ![w] = [NoRun EXCEPT !.at = "fetch"]]
    /\ UNCHANGED <<draftVars, publishedVars, post, budget, looked, seenAt, intent, missed>>

\* Time passes: the lease is at its last millisecond, then over it.
Ages ==
    /\ lease.owner # NoAuthor /\ lease.until # "past"
    /\ lease' = [lease EXCEPT !.until = IF @ = "ahead" THEN "edge" ELSE "past"]
    /\ UNCHANGED <<draftVars, publishedVars, post, budget, looked, seenAt, monitor, intent, missed>>

\* The renewing goroutine; when it finds the lease lost it cancels the run.
KeepsLease(w) ==
    /\ monitor[w].at # "idle"
    /\ IF lease.owner = w /\ lease.until # "past"
       THEN lease' = [lease EXCEPT !.until = "ahead"] /\ UNCHANGED monitor
       ELSE monitor' = [monitor EXCEPT ![w] = NoRun] /\ lease' = Freed(w)
    /\ UNCHANGED <<draftVars, publishedVars, post, budget, looked, seenAt, intent, missed>>

\* The time of an observation is that of the request, however long the answer takes.
Fetches(w) ==
    /\ monitor[w].at = "fetch" /\ looked < budget.looks
    /\ looked' = looked + 1
    /\ \E A \in SUBSET Listed : monitor' = [monitor EXCEPT ![w] = [at |-> "observed", time |-> looked + 1, absent |-> A]]
    /\ UNCHANGED <<draftVars, publishedVars, post, budget, seenAt, lease, intent, missed>>

\* A failed or incomplete catalogue, a lost lease, an error or a finished run.
Ends(w) ==
    /\ monitor[w].at # "idle"
    /\ monitor' = [monitor EXCEPT ![w] = NoRun] /\ lease' = Freed(w)
    /\ UNCHANGED <<draftVars, publishedVars, post, budget, looked, seenAt, intent, missed>>

Dies(w) ==
    /\ monitor[w].at # "idle" /\ monitor' = [monitor EXCEPT ![w] = NoRun]
    /\ UNCHANGED <<draftVars, publishedVars, post, budget, looked, seenAt, lease, intent, missed>>

Due(m, time) == Exists(m) /\ model[m].checked < time
Struck(m, run) == Due(m, run.time) /\ m \in run.absent \cap Active /\ model[m].strikes + 1 >= StrikeLimit

\* Mutant: seeing a model again does not clear its strikes.
SeenAgain_Kept(m, time) == [model[m] EXCEPT !.checked = time]

SeenAgain(m, time) == [model[m] EXCEPT !.strikes = 0, !.checked = time]

Judged(m, run) ==
    IF ~Due(m, run.time) THEN model[m]
    ELSE IF m \notin run.absent THEN SeenAgain(m, run.time)
    ELSE IF m \notin Active THEN model[m]
    ELSE IF Struck(m, run) THEN [model[m] EXCEPT !.strikes = @ + 1, !.checked = run.time, !.status = "inactive", !.removed = TRUE]
    ELSE [model[m] EXCEPT !.strikes = @ + 1, !.checked = run.time]

\* Models to take out: the newly removed, and those an earlier run failed to take out.
ToRemove(run) ==
    {m \in Listed : Struck(m, run)} \cup {m \in DOMAIN Items : model[m].status = "inactive" /\ model[m].removed}

\* Mutant: the alert is left to the publication that may fail.
Pending_Later(removed) == intent

Pending(removed) == intent \/ removed # {}

\* One transaction: strikes, removals, the alert that says a publication is due.  It reads
\* the publication state, whose row only the first publication of prices creates.
Observes(w) ==
    LET run == monitor[w] IN
    /\ run.at = "observed" /\ Owns(w) /\ current # NothingPublished
    /\ model' = [m \in Listed |-> Judged(m, run)]
    /\ seenAt' = [m \in Listed |-> IF m \in run.absent THEN seenAt[m] ELSE run.time]
    /\ missed' = [m \in Listed |-> IF m \notin run.absent THEN 0 ELSE IF Due(m, run.time) /\ m \in Active THEN missed[m] + 1 ELSE missed[m]]
    /\ IF \E m \in Listed : Struck(m, run)
       THEN priceRev <= budget.prices /\ priceRev' = Advanced("monitor") ELSE UNCHANGED priceRev
    /\ intent' = Pending(ToRemove(run))
    /\ monitor' = [monitor EXCEPT ![w].at = IF ToRemove(run) = {} THEN "done" ELSE "remove"]
    /\ UNCHANGED <<content, publishedVars, post, budget, looked, lease>>

\* Another transaction: the current price draft of the active models is published.
PublishesSafety(w) ==
    /\ monitor[w].at = "remove" /\ Owns(w)
    /\ Active # {} /\ current.content # 0 /\ Fits(current.content, Draft)
    /\ PricesCommit(Draft, NoAuthor)
    /\ intent' = FALSE
    /\ monitor' = [monitor EXCEPT ![w].at = "done"]
    /\ UNCHANGED <<draftVars, post, budget, looked, seenAt, lease, missed>>

\* It fails, and a later run tries again; the alert is raised again.
SafetyFails(w) ==
    /\ monitor[w].at = "remove" /\ intent' = TRUE
    /\ monitor' = [monitor EXCEPT ![w].at = "done"]
    /\ UNCHANGED <<draftVars, publishedVars, post, budget, looked, seenAt, lease, missed>>

Watches == Ages \/ \E w \in Monitors :
    \/ Acquires(w) \/ KeepsLease(w) \/ Fetches(w) \/ Observes(w)
    \/ PublishesSafety(w) \/ SafetyFails(w) \/ Ends(w) \/ Dies(w)

PricePages == SavesPrices \/ \E p \in Posts : PostsPrices(p)
ContentPages == SavesDraft \/ \E p \in Posts : PostsContent(p)

PublicNext ==
    \/ ModelPages \/ PricePages \/ ContentPages \/ NewsPages \/ HomePages
    \/ \E p \in Posts : Reviews(p)
    \/ Watches

PublicSpec == PublicInit /\ [][PublicNext]_publicVars

----------------------------------------------------------------------------
(* Properties *)

\* What Root's request published is what Root had reviewed when asking for it, however the
\* drafts were edited and the monitor ran in between (public_price_snapshot.go:401).
AsReviewed == \A p \in Posts : Found(p) =>
    LET q == post[p] IN
    CASE q.op \in {"prices", "restorePrices"} -> PricesOf(snapshots[q.made].items) = q.seen
      [] q.op = "content" -> LET r == releases[q.made] IN
                             [body |-> r.body, featured |-> r.featured, news |-> r.news] = q.seen /\ r.price = q.source
      [] OTHER -> releases[q.made].body = q.seen

\* A request sent again because its answer was lost publishes nothing twice
\* (findPublicPriceSnapshotReplay, findPublicContentReplay).
PublishedOnce == \A p \in Posts :
    /\ Cardinality({s \in DOMAIN snapshots : snapshots[s].by = p}) <= 1
    /\ Cardinality({r \in DOMAIN releases : releases[r].by = p}) <= 1

\* The pointer always names a pair made for each other, clean and priced, whichever of Root and
\* the monitor moved it last; a removed model still published has its alert up (upstream_price_monitor.go:303).
PairStands ==
    /\ current.content # 0 => LET r == releases[current.content] IN
           /\ r.price = current.price /\ Fits(current.content, Items) /\ Sanitary(r.body)
    /\ \A m \in DOMAIN Items : model[m].removed => intent

\* A model the monitor removes was absent from StrikeLimit observations in a row, counted
\* over holders of the lease, crashes and restored check times (upstream_price_monitor.go:208).
StrikesEarned == [][\A m \in Listed : model'[m].removed /\ ~model[m].removed => missed'[m] >= StrikeLimit]_publicVars

\* Documented: Root's changes stay drafts until Root publishes; what the monitor publishes only removes.
DraftsStayDrafts == [][
    Len(snapshots') > Len(snapshots) /\ snapshots'[Len(snapshots')].by = NoAuthor
        => PricesOf(snapshots'[Len(snapshots')].items) \subseteq PricesOf(Items)]_publicVars
=============================================================================
